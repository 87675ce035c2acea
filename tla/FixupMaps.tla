------------------------------ MODULE FixupMaps ------------------------------
(***************************************************************************)
(* disasm::build_fixup_maps of linear-executable: the fixup records, which *)
(* name a page-table row and offsets within that page, re-keyed to object  *)
(* images.  A record goes to the first object whose page block holds its   *)
(* row; a source offset that lands past that object's vsize, or a row that *)
(* no object owns, is counted as unmapped.                                 *)
(***************************************************************************)
EXTENDS Integers, Sequences, FiniteSets, FiniteSetsExt, SequencesExt

CONSTANTS
  Modules   \* the LE modules that may be read

(***************************************************************************)
(* A module is reduced to its page size and page count, its object table   *)
(* and its decoded fixup records (FixupTable):                             *)
(*   objects   [first, count, vsize]: first_page, page_count, virtual_size *)
(*   records   [page, sources, target]: the row, the u16 source offsets    *)
(*             and what they refer to                                      *)
(*   broken    the objects one of whose pages cannot be read               *)
(*   decodable the tables that can be read at all                          *)
(* get_object_table has accepted the objects, so a block starts at page 1  *)
(* or later and ends within the module's pages; blocks may overlap, and    *)
(* leave rows to nobody.                                                   *)
(***************************************************************************)
ObjectRecord == [first : Nat \ {0}, count : Nat, vsize : Nat]

Word16 == 0 .. 65535

FixupTarget == [kind : {"internal", "ordinal", "name"}, module : Word16, value : Nat]

FixupRecord == [page : Nat, sources : Seq(Word16), target : FixupTarget]

TablesOK(m) == m.objects \in Seq(ObjectRecord) /\ m.records \in Seq(FixupRecord)

ModuleOK(m) ==
  /\ TablesOK(m)
  /\ m.page_size \in Nat \ {0} /\ m.pages \in Nat
  /\ \A k \in 1 .. Len(m.objects) :
       m.objects[k].first + m.objects[k].count - 1 <= m.pages
  /\ \A i \in 1 .. Len(m.records) : m.records[i].page < m.pages
  /\ m.broken \subseteq 1 .. Len(m.objects) /\ m.decodable \subseteq {"objects", "fixups"}

ASSUME ModulesAssumption == \A m \in Modules : ModuleOK(m)

VARIABLES
  module,     \* the module being read; never changes
  next,       \* the record being placed
  slot,       \* the source offset of that record being placed
  by_object,  \* object number -> image offset -> notes
  unmapped    \* FixupMaps::unmapped_slots

mapVars == <<module, next, slot, by_object, unmapped>>

-----------------------------------------------------------------------------
Objects == 1 .. Len(module.objects)

Rows(k) ==   \* the page-table rows of object k
  LET o == module.objects[k] IN o.first - 1 .. o.first - 2 + o.count

Owners(row) == {k \in Objects : row \in Rows(k)}

Record(i) == module.records[i]

(* Mutation of ImageBase: the 1-based first_page taken for a row. *)
ImageBaseOneBased(k, row) ==
  (row + 1 - module.objects[k].first) * module.page_size + module.page_size

(* The image offset at which object k's page for this row begins. *)
ImageBase(k, row) ==
  (row - (module.objects[k].first - 1)) * module.page_size

(* A note stands for its record and the source offset that placed it. *)
NotesAt(k, at) == IF at \in DOMAIN by_object[k] THEN by_object[k][at] ELSE <<>>

WithNote(map, at, note) ==
  [a \in DOMAIN map \cup {at} |->
     IF a # at THEN map[a]
     ELSE IF at \in DOMAIN map THEN Append(map[at], note) ELSE <<note>>]

Placing == next <= Len(module.records)

MapsInit ==
  /\ module \in Modules
  /\ next = 1
  /\ slot = 1
  /\ by_object = [k \in Objects |-> [at \in {} |-> <<>>]]
  /\ unmapped = 0

(* A record on a row no object owns: all its slots are unmapped. *)
SkipRecord ==
  /\ Placing /\ Owners(Record(next).page) = {}
  /\ unmapped' = unmapped + Len(Record(next).sources)
  /\ next' = next + 1
  /\ UNCHANGED <<module, slot, by_object>>

(* Mutation of PlaceSlot: a slot past the object's vsize is dropped. *)
PlaceSlotDropping ==
  /\ Placing /\ Owners(Record(next).page) # {}
  /\ slot <= Len(Record(next).sources)
  /\ LET k == Min(Owners(Record(next).page))
         at == ImageBase(k, Record(next).page) + Record(next).sources[slot]
     IN by_object' =
          IF at >= module.objects[k].vsize THEN by_object
          ELSE [by_object EXCEPT ![k] = WithNote(@, at, <<next, slot>>)]
  /\ slot' = slot + 1
  /\ UNCHANGED <<module, next, unmapped>>

(* One source offset of an owned record. *)
PlaceSlot ==
  /\ Placing /\ Owners(Record(next).page) # {}
  /\ slot <= Len(Record(next).sources)
  /\ LET k == Min(Owners(Record(next).page))
         at == ImageBase(k, Record(next).page) + Record(next).sources[slot]
     IN IF at >= module.objects[k].vsize
          THEN unmapped' = unmapped + 1 /\ by_object' = by_object
          ELSE /\ by_object' =
                    [by_object EXCEPT ![k] = WithNote(@, at, <<next, slot>>)]
               /\ unmapped' = unmapped
  /\ slot' = slot + 1
  /\ UNCHANGED <<module, next>>

NextRecord ==
  /\ Placing /\ Owners(Record(next).page) # {}
  /\ slot > Len(Record(next).sources)
  /\ next' = next + 1
  /\ slot' = 1
  /\ UNCHANGED <<module, by_object, unmapped>>

MapsNext == SkipRecord \/ PlaceSlot \/ NextRecord
-----------------------------------------------------------------------------
(***************************************************************************)
(* The image LE::object_image builds for object k, as the page row and     *)
(* in-page offset each byte comes from: the pages of the block one after   *)
(* the other, zero-extended or truncated to vsize.                         *)
(***************************************************************************)
Zero == <<-1, 0>>

ObjectImage(k) ==
  LET o == module.objects[k]
      page(r) == [b \in 1 .. module.page_size |-> <<r, b - 1>>]
      pages == FlattenSeq([i \in 1 .. o.count |-> page(o.first - 2 + i)])
      zeros == [i \in 1 .. o.vsize |-> Zero]
  IN SubSeq(pages \o zeros, 1, o.vsize)

(* PROPERTIES *)

(* The source offsets of the records, and those read so far. *)
Slots(i) == {i} \X (1 .. Len(Record(i).sources))

AllSlots == UNION {Slots(i) : i \in 1 .. Len(module.records)}

Seen == {n \in AllSlots : n[1] < next \/ (n[1] = next /\ n[2] < slot)}

(* The notes on object k, and all of them. *)
NotesOn(k) == UNION {ToSet(by_object[k][at]) : at \in DOMAIN by_object[k]}

Notes == UNION {NotesOn(k) : k \in Objects}

NotedOnce ==
  \A k, l \in Objects : \A a \in DOMAIN by_object[k], b \in DOMAIN by_object[l] :
    \A i \in DOMAIN by_object[k][a], j \in DOMAIN by_object[l][b] :
      by_object[k][a][i] = by_object[l][b][j] => k = l /\ a = b /\ i = j

(***************************************************************************)
(* Every source offset of the records read so far is accounted for: it is  *)
(* one note in one place, or one unmapped slot, and never both.            *)
(***************************************************************************)
EverySlotCounted ==
  /\ NotedOnce /\ Notes \subseteq Seen
  /\ Cardinality(Notes) + unmapped = Cardinality(Seen)

(***************************************************************************)
(* A note sits on the image byte that object_image takes from the place    *)
(* its record names, or, where the source offset leads behind the record's *)
(* page, from the row and offset that many bytes on, or on a byte of the   *)
(* zeros behind the last page: the two functions agree on the frame.       *)
(***************************************************************************)
PatchedByte ==
  \A k \in Objects : \A at \in DOMAIN by_object[k] :
    \A j \in 1 .. Len(by_object[k][at]) :
      LET r == Record(by_object[k][at][j][1])
          s == r.sources[by_object[k][at][j][2]]
          row == r.page + s \div module.page_size
      IN ObjectImage(k)[at + 1] =
           IF row \in Rows(k) THEN <<row, s % module.page_size>> ELSE Zero

(***************************************************************************)
(* The inductive invariant of the placing: a note lies where its record    *)
(* and source offset say, every slot that has such a place has its note    *)
(* there, and the slots without one are those that were counted.           *)
(***************************************************************************)
Home(n) == Min(Owners(Record(n[1]).page))

Spot(n) == ImageBase(Home(n), Record(n[1]).page) + Record(n[1]).sources[n[2]]

Mapped(n) ==
  Owners(Record(n[1]).page) # {} /\ Spot(n) < module.objects[Home(n)].vsize

NoteMap(m) ==
  /\ DOMAIN m \subseteq Nat
  /\ \A at \in DOMAIN m : m[at] \in Seq(Nat \X Nat)

MapsTyped ==
  /\ next \in 1 .. Len(module.records) + 1 /\ slot \in Nat \ {0} /\ unmapped \in Nat
  /\ by_object = [k \in Objects |-> by_object[k]]
  /\ \A k \in Objects : NoteMap(by_object[k])

SlotCursor ==
  IF Placing /\ Owners(Record(next).page) # {}
    THEN slot <= Len(Record(next).sources) + 1 ELSE slot = 1

NotesPlaced ==
  \A k \in Objects : \A at \in DOMAIN by_object[k] :
    /\ IsInjective(by_object[k][at])
    /\ \A n \in ToSet(by_object[k][at]) : n \in Seen /\ Mapped(n) /\ k = Home(n) /\ at = Spot(n)

MappedNoted ==
  \A n \in Seen : Mapped(n) =>
    /\ Spot(n) \in DOMAIN by_object[Home(n)]
    /\ n \in ToSet(by_object[Home(n)][Spot(n)])

UnmappedCounted == unmapped = Cardinality({n \in Seen : ~Mapped(n)})

MapsInv ==
  /\ MapsTyped /\ SlotCursor /\ NotesPlaced /\ MappedNoted /\ UnmappedCounted
=============================================================================
