------------------------------- MODULE NeTables -------------------------------
(***************************************************************************)
(* The tables of an NE file: resident and non-resident names, the entry    *)
(* table, the module references and the resources. Each parser walks its   *)
(* table item by item and returns every item or an error; an item is known *)
(* by where it starts.                                                     *)
(***************************************************************************)
EXTENDS NeFile

Tables == {"resident", "nonresident", "exports", "modules", "resources"}

VARIABLES
  table,    \* the table being walked, or "none"
  at,       \* the cursor of its walk
  content,  \* the items of each table: where they start
  verdict   \* what is known of each table: "unread", "read" or "error"

tableVars == <<table, at, content, verdict>>
-----------------------------------------------------------------------------
(* Where a table is said to start; the non-resident names' offset counts   *)
(* from the start of the file, the others' from the NE header.             *)
Start(t) ==
  [resident    |-> TableAt(file.header.resident),
   nonresident |-> file.header.names,
   exports     |-> TableAt(file.header.entries),
   modules     |-> TableAt(file.header.modules),
   resources   |-> TableAt(file.header.resources)][t]

(* The tables that are taken for empty without a look at them.             *)
Absent(t) ==
  \/ t = "resident" /\ Start(t) = 0
  \/ t = "nonresident" /\ (Start(t) = 0 \/ file.header.names_size = 0)
  \/ t = "resources" /\ Start(t) # 0 /\ file.header.resource_count = 0

(* TableNotPresent, and the size shift at the start of the resources.      *)
Unreadable(t) ==
  \/ t \in {"exports", "modules", "resources"} /\ Start(t) = 0
  \/ t = "resources" /\ (~Holds(Start(t), 2) \/ U16(Start(t)) > 16)

FirstItem(t) == IF t = "resources" THEN Start(t) + 2 ELSE Start(t)

ExportsEnd == Start("exports") + file.header.entry_size

(* Bytes of a slot of an entry table record, by the record's type.         *)
SlotSize(type) == IF type = 0 THEN 0 ELSE IF type = 255 THEN 6 ELSE 3

(* Where the item at p ends.                                               *)
NameEnd(p) == p + 1 + Byte(p) + 2
RecordEnd(p) == p + 2 + Byte(p) * SlotSize(Byte(p + 1))
TypeEnd(p) == p + 8 + 12 * U16(p + 2)

ItemEnd(t, p) ==
  [resident |-> NameEnd(p), nonresident |-> NameEnd(p), exports |-> RecordEnd(p),
   modules |-> p + 2, resources |-> TypeEnd(p)][t]

(* The walk ends before p: at a terminator or at the table's bound.        *)
Stops(t, p) ==
  \/ t = "resident" /\ Holds(p, 1) /\ Byte(p) = 0
  \/ t = "nonresident" /\
       (p >= Start(t) + file.header.names_size \/ p >= file.len \/ Byte(p) = 0)
  \/ t = "exports" /\ (p >= ExportsEnd \/ (Holds(p, 2) /\ Byte(p) = 0))
  \/ t = "modules" /\ p = Start(t) + 2 * file.header.module_count
  \/ t = "resources" /\ \/ Start("resident") > 0 /\ p >= Start("resident")
                        \/ Holds(p, 2) /\ U16(p) = 0

(* A type or resource id: an ordinal, or the offset of a name that must be *)
(* in the file.                                                            *)
IdFits(id) ==
  id >= 32768 \/ LET p == Start("resources") + id
                 IN Holds(p, 1) /\ Holds(p + 1, Byte(p))

(***************************************************************************)
(* The test of an entry table record against the size of the table:        *)
(* `end - pos < count * bytes_per_entry` after the two bytes of its header *)
(* were consumed. When the table ends between those two, end - pos         *)
(* underflows: a debug build panics, a release build lets everything pass. *)
(***************************************************************************)
Straddles(p) == p + 1 = ExportsEnd

RecordFits(p) == RecordEnd(p) <= ExportsEnd \/ Straddles(p)

(* A type and its resources. *)
TypeFits(p) ==
  /\ Holds(p, 4) /\ IdFits(U16(p))
  /\ U16(p + 2) > 0 => TypeEnd(p) <= file.len
  /\ \A i \in 0 .. U16(p + 2) - 1 : IdFits(U16(p + 8 + 12 * i + 6))

(* The reads of an item are inside the file, and the table's own checks.   *)
ItemFits(t, p) ==
  /\ t = "exports" => Holds(p, 2) /\ RecordFits(p)
  /\ IF t = "resources" THEN TypeFits(p) ELSE ItemEnd(t, p) <= file.len

SlotsOf(records) ==
  FoldLeft(LAMBDA n, p : n + Byte(p), 0, records)

(* EntryTableOverflow: more ordinals than a u16 counts.                    *)
Overflows ==
  table = "exports" /\ SlotsOf(Append(content[table], at)) >= WordSize

TablesInit ==
  /\ table = "none" /\ at = 0
  /\ content = [t \in Tables |-> <<>>] /\ verdict = [t \in Tables |-> "unread"]
-----------------------------------------------------------------------------
(* The parse of table t begins: it is absent, refused at once, or walked.  *)
SkipTable(t) ==
  /\ table = "none" /\ verdict[t] = "unread" /\ Absent(t)
  /\ verdict' = [verdict EXCEPT ![t] = "read"]
  /\ UNCHANGED <<table, at, content>>

RefuseTable(t) ==
  /\ table = "none" /\ verdict[t] = "unread" /\ ~Absent(t) /\ Unreadable(t)
  /\ verdict' = [verdict EXCEPT ![t] = "error"]
  /\ UNCHANGED <<table, at, content>>

OpenTable(t) ==
  /\ table = "none" /\ verdict[t] = "unread" /\ ~Absent(t) /\ ~Unreadable(t)
  /\ table' = t /\ at' = FirstItem(t)
  /\ UNCHANGED <<content, verdict>>

ReadItem ==
  /\ table # "none" /\ ~Stops(table, at) /\ ItemFits(table, at) /\ ~Overflows
  /\ content' = [content EXCEPT ![table] = Append(@, at)]
  /\ at' = ItemEnd(table, at)
  /\ UNCHANGED <<table, verdict>>

(* Mutation of FailItem: the items read so far kept. *)
FailItemKeep ==
  /\ table # "none" /\ ~Stops(table, at) /\ ~(ItemFits(table, at) /\ ~Overflows)
  /\ verdict' = [verdict EXCEPT ![table] = "read"]
  /\ table' = "none" /\ UNCHANGED <<at, content>>

(* An error anywhere in the walk loses the whole table.                    *)
FailItem ==
  /\ table # "none" /\ ~Stops(table, at) /\ ~(ItemFits(table, at) /\ ~Overflows)
  /\ verdict' = [verdict EXCEPT ![table] = "error"]
  /\ content' = [content EXCEPT ![table] = <<>>]
  /\ table' = "none" /\ UNCHANGED at

CloseTable ==
  /\ table # "none" /\ Stops(table, at)
  /\ verdict' = [verdict EXCEPT ![table] = "read"]
  /\ table' = "none" /\ UNCHANGED <<at, content>>

(* The debug build on a record whose header straddles the table's end.     *)
RecordPanics == table = "exports" /\ at < ExportsEnd /\ Holds(at, 2) /\ Byte(at) # 0 /\ Straddles(at)
-----------------------------------------------------------------------------
(* PROPERTIES *)

TablesTypeOK ==
  /\ table \in Tables \cup {"none"} /\ at \in Nat
  /\ content \in [Tables -> Seq(Nat)]
  /\ verdict \in [Tables -> {"unread", "read", "error"}]

(* The items of a table lie one behind the other from its first on.        *)
Tiled(t) ==
  \A k \in 1 .. Len(content[t]) :
    LET p == content[t][k]
    IN /\ p = IF k = 1 THEN FirstItem(t) ELSE ItemEnd(t, content[t][k - 1])
       /\ FirstItem(t) <= p /\ ~Stops(t, p) /\ ItemFits(t, p)

EndOf(t) == IF content[t] = <<>> THEN FirstItem(t) ELSE ItemEnd(t, content[t][Len(content[t])])

(***************************************************************************)
(* A table in a report is whole: its items follow one another without a    *)
(* gap from the table's first byte up to its terminator or bound, each     *)
(* inside the file, or the table is empty because it is absent; after an   *)
(* error nothing of it is left (the five parse functions of types.rs and   *)
(* the unwrap_or of their callers).                                        *)
(***************************************************************************)
WholeTables ==
  \A t \in Tables :
    /\ verdict[t] = "read" =>
         \/ Absent(t) /\ content[t] = <<>>
         \/ Tiled(t) /\ Stops(t, EndOf(t))
    /\ verdict[t] = "error" => content[t] = <<>>

(***************************************************************************)
(* "The record data must fit inside the declared table size": the exports  *)
(* of a table "bounded by `ne_cbenttab` bytes" are read from those bytes   *)
(* (EntryTable, EntryTable::parse).                                        *)
(***************************************************************************)
RecordsInTable ==
  \A k \in 1 .. Len(content["exports"]) : RecordEnd(content["exports"][k]) <= ExportsEnd

(* The walk so far, of which WholeTables is the end.                       *)
Walking ==
  \A t \in Tables :
    /\ Tiled(t)
    /\ t = table => at = EndOf(t) /\ verdict[t] = "unread"
    /\ t # table /\ verdict[t] \in {"unread", "error"} => content[t] = <<>>
    /\ verdict[t] = "read" => (Absent(t) /\ content[t] = <<>>) \/ Stops(t, EndOf(t))

(* The module references, whose n-th is found by arithmetic.               *)
ModulesWalk ==
  LET start == Start("modules")
      count == file.header.module_count
      words == content["modules"]
  IN /\ \A k \in 1 .. Len(words) : words[k] = start + 2 * (k - 1)
     /\ Len(words) <= count
     /\ words # <<>> => Holds(start, 2 * Len(words))
     /\ words # <<>> \/ table = "modules" \/ verdict["modules"] = "read" => start # 0
     /\ verdict["modules"] = "read" => Len(words) = count
     /\ verdict["modules"] = "error" => start = 0 \/ (count > 0 /\ ~Holds(start, 2 * count))

TablesIInv == TablesTypeOK /\ Walking /\ ModulesWalk
=============================================================================
