----------------------------- MODULE EntryTable ------------------------------
(***************************************************************************)
(* The entry table of an LE module and the entry point a program takes     *)
(* from it: LE::get_entry_table reads bundles of entries, numbers them by  *)
(* their position, and disasm::entry_point picks one.  The table has no    *)
(* length: it ends at a zero count or where the next table begins.         *)
(***************************************************************************)
EXTENDS Integers, Sequences, FiniteSets, FiniteSetsExt, BoundLocate

(***************************************************************************)
(* The header fields that are used, offsets counted from the header:       *)
(*   start_object, eip   the entry pair                                    *)
(*   entry_table         0 for a module without one                        *)
(*   import_modules, import_procedures, fixup_page_table                   *)
(*                       the same for these tables                         *)
(*   import_module_count, fixup_size                                       *)
(*   pointers            the offsets of the other tables                   *)
(*   data_pages          where the page area begins, counted from the frame *)
(***************************************************************************)
HeaderOK(h) ==
  /\ h.start_object \in Nat /\ h.eip \in Nat /\ h.entry_table \in Nat
  /\ h.import_modules \in Nat /\ h.import_module_count \in Nat
  /\ h.import_procedures \in Nat /\ h.fixup_page_table \in Nat /\ h.fixup_size \in Nat
  /\ h.data_pages \in Nat /\ h.pointers \subseteq Nat /\ IsFiniteSet(h.pointers)

VARIABLES
  header,        \* the header of the located image; never changes
  verdict,       \* "unread", "walking", "read" or an error of the walk
  pos,           \* the bundle that is read next
  next_ordinal,  \* the ordinal of its first entry
  bundles        \* [kind, object, first_ordinal, count, entries]

entryVars == <<header, verdict, pos, next_ordinal, bundles>>

TableErrors == {"entry_table", "EntryTableCorrupt", "past_file"}
-----------------------------------------------------------------------------
(* Positions are positions of the view, the file from the frame on.        *)
Base == HeaderOffset(location.frame_at)
ViewEnd == file.len - location.frame_at
ByteAt(p) == FileByte(location.frame_at + p)
U16(p) == Word(location.frame_at + p)
U32(p) == Dword(location.frame_at + p)

TablePointers ==
  header.pointers \cup {header.entry_table, header.import_modules,
                       header.import_procedures, header.fixup_page_table}

(* The end of a table that starts at p (table_end): where the next one     *)
(* starts, or the page area, or where the file ends.                       *)

NextTable(p) ==
  LET starts == {Base + rel : rel \in TablePointers \ {0}}
  IN Min({t \in starts : t > p} \cup {ViewEnd})

(* Mutation of TableEnd: the page area forgotten. *)
TableEndUnpaged(p) == Min({NextTable(p), ViewEnd})

TableEnd(p) ==
  Min({NextTable(p), ViewEnd} \cup (IF header.data_pages > p THEN {header.data_pages} ELSE {}))

Start == Base + header.entry_table
End == TableEnd(Start)
-----------------------------------------------------------------------------
(* Bundles *)

Kinds == <<"Entry16", "CallGate16", "Entry32", "Forwarder">>

Kind(b) == CASE b = 0         -> "Unused"
             [] b \in 1 .. 4  -> Kinds[b]
             [] OTHER         -> "Unknown"

EntrySize == [Unused |-> 0, Entry16 |-> 3, CallGate16 |-> 5, Entry32 |-> 5,
              Forwarder |-> 7, Unknown |-> 0]

HeadSize(kind) == IF kind = "Unused" THEN 2 ELSE 4   \* with the object word

(* An entry: flags, then the offset; a forwarder has a module and a value. *)
Entry(kind, p) ==
  [exported |-> ByteAt(p) % 2 = 1,
   offset   |-> CASE kind = "Entry32"   -> U32(p + 1)
                  [] kind = "Forwarder" -> U32(p + 3)
                  [] OTHER              -> U16(p + 1)]

EntryPoint == [exported : BOOLEAN, offset : Nat]
BundleRecord == [kind : DOMAIN EntrySize, object : Nat, first_ordinal : Nat \ {0},
                 count : Nat, entries : Seq(EntryPoint)]

Count == ByteAt(pos)
KindHere == Kind(ByteAt(pos + 1))
Total == HeadSize(KindHere) + Count * EntrySize[KindHere]

Bundle ==
  [kind          |-> KindHere,
   object        |-> IF KindHere = "Unused" THEN 0 ELSE U16(pos + 2),
   first_ordinal |-> next_ordinal,
   count         |-> Count,
   entries       |-> [i \in 1 .. IF KindHere = "Unused" THEN 0 ELSE Count |->
                        Entry(KindHere, pos + 4 + (i - 1) * EntrySize[KindHere])]]
-----------------------------------------------------------------------------
(* get_entry_table *)

EntryInit ==
  /\ verdict = "unread" /\ pos = 0 /\ next_ordinal = 1 /\ bundles = <<>>

Say(v) == verdict' = v /\ UNCHANGED <<header, pos, next_ordinal, bundles>>

NoTable == verdict = "unread" /\ header.entry_table = 0 /\ Say("read")

RefuseTable ==
  verdict = "unread" /\ header.entry_table # 0 /\ Start >= End /\ Say("entry_table")

OpenTable ==
  /\ verdict = "unread" /\ header.entry_table # 0 /\ Start < End
  /\ verdict' = "walking" /\ pos' = Start
  /\ UNCHANGED <<header, next_ordinal, bundles>>

AtBundle == verdict = "walking" /\ pos < End /\ Count # 0

RefuseBundle ==
  /\ AtBundle
  /\ \/ pos + 1 >= ViewEnd /\ Say("past_file")
     \/ /\ pos + 1 < ViewEnd /\ (KindHere = "Unknown" \/ pos + Total > End)
        /\ Say("EntryTableCorrupt")

(* Mutation of ReadBundle: ordinals for the stored entries only. *)
ReadBundleStored ==
  /\ AtBundle /\ pos + 1 < ViewEnd /\ KindHere # "Unknown" /\ pos + Total <= End
  /\ bundles' = Append(bundles, Bundle)
  /\ next_ordinal' = next_ordinal + Len(Bundle.entries)
  /\ pos' = pos + Total
  /\ UNCHANGED <<header, verdict>>

ReadBundle ==
  /\ AtBundle /\ pos + 1 < ViewEnd /\ KindHere # "Unknown" /\ pos + Total <= End
  /\ bundles' = Append(bundles, Bundle)
  /\ next_ordinal' = next_ordinal + Count
  /\ pos' = pos + Total
  /\ UNCHANGED <<header, verdict>>

EndTable == verdict = "walking" /\ ~AtBundle /\ Say("read")

EntryNext ==
  NoTable \/ RefuseTable \/ OpenTable \/ RefuseBundle \/ ReadBundle \/ EndTable
-----------------------------------------------------------------------------
(* entry_point, for the object table `objects' *)

HeaderNames(objects) ==
  /\ header.start_object \in 1 .. Len(objects)
  /\ header.eip < objects[header.start_object].vsize

(* Entry i of bundle b is exported code of an object that exists. *)
Loadable(objects, b, i) ==
  /\ bundles[b].object \in 1 .. Len(objects) /\ bundles[b].kind # "Forwarder"
  /\ bundles[b].entries[i].exported

FirstLoadable(objects, b, i) ==
  /\ Loadable(objects, b, i)
  /\ \A c \in 1 .. b : \A j \in 1 .. Len(bundles[c].entries) :
       c < b \/ j < i => ~Loadable(objects, c, j)

NoneLoadable(objects) ==
  \A b \in 1 .. Len(bundles) : \A i \in 1 .. Len(bundles[b].entries) :
    ~Loadable(objects, b, i)

EntryOfBundle(b, i) ==
  [object |-> bundles[b].object, offset |-> bundles[b].entries[i].offset,
   ordinal |-> bundles[b].first_ordinal + i - 1]
=============================================================================
