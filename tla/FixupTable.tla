----------------------------- MODULE FixupTable -----------------------------
(***************************************************************************)
(* The LE/LX fixup record table and the walk that decodes it               *)
(* (LE::get_fixup_records and read_fixup_record in linear-executable).     *)
(*                                                                         *)
(* The fixup page table holds one offset per module page plus a sentinel,  *)
(* the record table's size.  The walk takes one page span at a time and    *)
(* decodes records until the span is used up; a record's own first bytes   *)
(* give its length.  Offsets are counted from the record table's first     *)
(* byte (at - table in the code).                                          *)
(***************************************************************************)
EXTENDS Integers, Sequences, Descent

CONSTANT Images   \* the files the walk may be given (see ImagesAssumption)

(***************************************************************************)
(* An image is reduced to what the walk reads:                             *)
(*   page_table    whether the header names a fixup page table that lies   *)
(*                 inside the file ("cut" is one that runs past its end)   *)
(*   record_table  whether the header names a fixup record table           *)
(*   rows, pages   the page table: rows = module_pages, pages[rows] is the *)
(*                 sentinel                                                *)
(*   bytes         the file from the record table's first byte to its end  *)
(***************************************************************************)
Byte == 0 .. 255

ImageOK(im) ==
  /\ im.page_table \in {"absent", "cut", "present"}
  /\ im.record_table \in BOOLEAN
  /\ im.rows \in Nat
  /\ im.pages \in [0 .. im.rows -> Nat]
  /\ im.bytes \in Seq(Byte)

ASSUME ImagesAssumption == \A im \in Images : ImageOK(im)

VARIABLES
  image,    \* the file being read; never changes
  outcome,  \* "start", "walking", "ok" or the error returned
  row,      \* page-table row whose span is being walked
  pos,      \* record-table offset of the next record
  records   \* the records decoded so far

vars == <<image, outcome, row, pos, records>>

Errors == {"TableOutOfBounds", "UnsupportedFixupSource"}

-----------------------------------------------------------------------------
(* The two leading bytes of a record and the field widths they select. *)

Bit(b, w) == (b \div w) % 2 = 1

Width(b, w) == IF Bit(b, w) THEN 4 ELSE 2

DefinedSources == {0, 2, 3, 5, 6, 7, 8}   \* FixupSourceType::from_byte
Selector16 == 2

IndexSize(flags) == IF Bit(flags, 64) THEN 2 ELSE 1

TargetSize(source, flags) ==
  IndexSize(flags) +
    CASE flags % 4 = 0 -> IF source = Selector16 THEN 0 ELSE Width(flags, 16)
      [] flags % 4 = 1 -> IF Bit(flags, 128) THEN 1 ELSE Width(flags, 16)
      [] flags % 4 = 2 -> Width(flags, 16)
      [] OTHER         -> 0

AdditiveSize(flags) == IF Bit(flags, 4) THEN Width(flags, 32) ELSE 0

MaxTargetSize == 10   \* word index, dword offset, dword additive
-----------------------------------------------------------------------------
(* The record at offset p of the current image. *)

Sentinel == image.pages[image.rows]

ByteAt(p) == image.bytes[p + 1]
Word(p) == ByteAt(p) + 256 * ByteAt(p + 1)

SourceType(p) == ByteAt(p) % 16
Listed(p) == Bit(ByteAt(p), 32)      \* SOURCE_LIST

(* Everything but a source list, which trails the record. *)
FixedSize(p) ==
  2 + (IF Listed(p) THEN 1 ELSE 2)
    + TargetSize(SourceType(p), ByteAt(p + 1)) + AdditiveSize(ByteAt(p + 1))

ListSize(p) == IF Listed(p) THEN 2 * ByteAt(p + 2) ELSE 0

RecordSize(p) == FixedSize(p) + ListSize(p)

Sources(p) ==
  IF Listed(p)
    THEN [i \in 1 .. ByteAt(p + 2) |-> Word(p + FixedSize(p) + 2 * (i - 1))]
    ELSE <<Word(p + 2)>>

(* Mutation of Fits: a trailing list's own bytes are not accounted for. *)
FitsUnlisted(p) ==
  /\ p + FixedSize(p) <= Sentinel
  /\ p + RecordSize(p) <= Len(image.bytes)

(***************************************************************************)
(* The checks of read_fixup_record.  The fields are tested one after the   *)
(* other against the sentinel, so together they say that the fixed part    *)
(* fits; the list is tested where it would be if it followed the count     *)
(* byte directly, and its words are then read from behind the target,      *)
(* where only the end of the file stops them.                              *)
(***************************************************************************)
Fits(p) ==
  /\ p + FixedSize(p) <= Sentinel
  /\ Listed(p) => p + 3 + ListSize(p) <= Sentinel
  /\ p + RecordSize(p) <= Len(image.bytes)

ReadResult(p) ==
  IF p + 2 > Sentinel THEN "TableOutOfBounds"
  ELSE IF SourceType(p) \notin DefinedSources THEN "UnsupportedFixupSource"
  ELSE IF Fits(p) THEN "ok" ELSE "TableOutOfBounds"

RecordAt(p) ==
  [page |-> row, offset |-> p, size |-> RecordSize(p), sources |-> Sources(p)]
-----------------------------------------------------------------------------
(* The span of a row; one that dips below its own start is empty. *)

SpanStart(r) == image.pages[r]
SpanStop(r) ==
  IF image.pages[r + 1] < image.pages[r] THEN image.pages[r]
                                         ELSE image.pages[r + 1]

Init ==
  /\ image \in Images
  /\ outcome = "start"
  /\ row = 0
  /\ pos = 0
  /\ records = <<>>

(* The early returns of get_fixup_records, in its order. *)
OpenResult ==
  CASE image.page_table = "absent" -> "ok"
    [] image.page_table = "cut"    -> "TableOutOfBounds"
    [] OTHER ->
         IF Sentinel = 0 THEN "ok"
         ELSE IF ~image.record_table \/ Sentinel > Len(image.bytes)
           THEN "TableOutOfBounds"
           ELSE "walking"

(* Mutation of Open: the first span taken from the byte before it. *)
OpenOneEarly ==
  /\ outcome = "start"
  /\ outcome' = OpenResult
  /\ pos' = SpanStart(0) - 1
  /\ UNCHANGED <<image, row, records>>

Open ==
  /\ outcome = "start"
  /\ outcome' = OpenResult
  /\ pos' = SpanStart(0)
  /\ UNCHANGED <<image, row, records>>

(* Mutations of InSpan: <= for <, and a span needing room for a record. *)
InSpanInclusive ==
  outcome = "walking" /\ row < image.rows /\ pos <= SpanStop(row)
InSpanRoom ==
  outcome = "walking" /\ row < image.rows /\ pos + 4 < SpanStop(row)

InSpan == outcome = "walking" /\ row < image.rows /\ pos < SpanStop(row)

Decode ==
  /\ InSpan
  /\ ReadResult(pos) = "ok"
  /\ records' = Append(records, RecordAt(pos))
  /\ pos' = pos + RecordSize(pos)
  /\ UNCHANGED <<image, outcome, row>>

(* The ? on read_fixup_record: everything decoded so far is discarded by   *)
(* the caller, which sees only the error.                                  *)
Refuse ==
  /\ InSpan
  /\ ReadResult(pos) # "ok"
  /\ outcome' = ReadResult(pos)
  /\ UNCHANGED <<image, row, pos, records>>

(* Mutation of NextRow: the walk goes on where the last record ended. *)
NextRowCarryOn ==
  /\ outcome = "walking" /\ row < image.rows /\ ~InSpan
  /\ row' = row + 1
  /\ pos' = IF pos > SpanStart(row + 1) THEN pos ELSE SpanStart(row + 1)
  /\ UNCHANGED <<image, outcome, records>>

(* The next row starts at its own page-table entry, wherever the previous  *)
(* row's last record ended.                                                *)
NextRow ==
  /\ outcome = "walking" /\ row < image.rows /\ ~InSpan
  /\ row' = row + 1
  /\ pos' = SpanStart(row + 1)
  /\ UNCHANGED <<image, outcome, records>>

Finish ==
  /\ outcome = "walking" /\ row = image.rows
  /\ outcome' = "ok"
  /\ UNCHANGED <<image, row, pos, records>>

Next == Open \/ Decode \/ Refuse \/ NextRow \/ Finish

Spec == Init /\ [][Next]_vars
-----------------------------------------------------------------------------
(* PROPERTIES *)

Record == [page : Nat, offset : Nat, size : Nat, sources : Seq(Nat)]

TypeOK ==
  /\ ImageOK(image)
  /\ outcome \in {"start", "walking", "ok"} \cup Errors
  /\ row \in 0 .. image.rows
  /\ pos \in Nat
  /\ records \in Seq(Record)

RecordEnd(i) == records[i].offset + records[i].size

FirstOfRow(i) == i = 1 \/ records[i - 1].page # records[i].page
LastOfRow(i) == i = Len(records) \/ records[i + 1].page # records[i].page

(***************************************************************************)
(* The records of one row tile its span: the first one starts on the row's *)
(* page-table entry, each next one where the previous ended, every one     *)
(* starts inside the span, and a row is left only when its last record     *)
(* reaches the span's end.  Rows never go back.                            *)
(***************************************************************************)
SpansTiled ==
  \A i \in 1 .. Len(records) :
    LET p == records[i].page
    IN /\ SpanStart(p) <= records[i].offset /\ records[i].offset < SpanStop(p)
       /\ records[i].offset = IF FirstOfRow(i) THEN SpanStart(p)
                                              ELSE RecordEnd(i - 1)
       /\ i > 1 => records[i - 1].page <= p
       /\ LastOfRow(i) /\ p < row => RecordEnd(i) >= SpanStop(p)

(* No row with bytes in its span is skipped: once left, it has a record. *)
NoRowSkipped ==
  outcome \in {"walking", "ok"} =>
    \A r \in 0 .. row - 1 :
      SpanStart(r) < SpanStop(r) =>
        \E i \in 1 .. Len(records) : records[i].page = r

(***************************************************************************)
(* How far a record may reach: never past the end of the file, and past    *)
(* the sentinel by no more than its target and additive fields, since the  *)
(* list is tested as if those fields were not there.                       *)
(***************************************************************************)
OverrunBounded ==
  \A i \in 1 .. Len(records) :
    /\ RecordEnd(i) <= Len(image.bytes)
    /\ RecordEnd(i) <= Sentinel + MaxTargetSize

(* "A record is allowed to run past the page span its row names [...] but  *)
(* never past `bound`" (le.rs, read_fixup_record).                         *)
RecordsWithinBound ==
  \A i \in 1 .. Len(records) : RecordEnd(i) <= Sentinel

(***************************************************************************)
(* The inductive invariant of the walk: besides the properties above, what *)
(* the cursor means (it follows the row's last record, or sits on the      *)
(* row's page-table entry), that no record belongs to a row not yet        *)
(* reached, and that an open table lies inside the file.                   *)
(***************************************************************************)
Cursor ==
  outcome # "start" =>
    pos = IF records # <<>> /\ records[Len(records)].page = row
            THEN RecordEnd(Len(records)) ELSE SpanStart(row)

RowsReached ==
  \A i \in 1 .. Len(records) :
    records[i].page <= row /\ records[i].page < image.rows

Opened ==
  /\ outcome = "start" => records = <<>> /\ row = 0
  /\ outcome = "walking" => Sentinel <= Len(image.bytes)

IInv ==
  /\ TypeOK /\ Cursor /\ RowsReached /\ Opened
  /\ SpansTiled /\ NoRowSkipped /\ OverrunBounded

(***************************************************************************)
(* Each step leaves less to do, so no walk steps forever: a row fewer, or  *)
(* within a row fewer bytes of its span.                                   *)
(***************************************************************************)
WorkLeft ==
  CASE outcome = "start"   -> <<image.rows + 2, 0>>
    [] outcome = "walking" -> <<image.rows - row + 1, IF InSpan THEN SpanStop(row) - pos ELSE 0>>
    [] OTHER               -> <<0, 0>>

WorkShrinks == [][Descends(2, WorkLeft', WorkLeft)]_vars

-----------------------------------------------------------------------------
(***************************************************************************)
(* Refinement.  An image is well formed when its spans begin at 0, never   *)
(* dip, and start and stop on record boundaries of the table read as one   *)
(* stream.  For such an image the span-by-span walk delivers exactly that  *)
(* stream.                                                                 *)
(***************************************************************************)
Boundaries ==
  LET from[p \in 0 .. Sentinel] ==
        {p} \cup (IF p < Sentinel /\ ReadResult(p) = "ok"
                     /\ p + RecordSize(p) <= Sentinel
                    THEN from[p + RecordSize(p)] ELSE {})
  IN from[0]

WellFormed ==
  /\ image.page_table = "present" /\ image.record_table
  /\ Sentinel <= Len(image.bytes)
  /\ image.pages[0] = 0
  /\ \A r \in 0 .. image.rows - 1 : image.pages[r] <= image.pages[r + 1]
  /\ \A r \in 0 .. image.rows : image.pages[r] \in Boundaries

(* What the walk of a well-formed image keeps: the cursor follows the last *)
(* record on a boundary of the stream, and has not passed the row's span.  *)
StreamEnd == IF records = <<>> THEN 0 ELSE RecordEnd(Len(records))

OnStream ==
  WellFormed /\ outcome = "walking" =>
    /\ pos = StreamEnd /\ pos \in Boundaries
    /\ IF row < image.rows THEN pos <= image.pages[row + 1] ELSE pos = Sentinel

Stream == INSTANCE RecordStream WITH
  size   <- Sentinel,
  pages  <- image.rows,
  closed <- WellFormed /\ outcome = "ok",
  recs   <- IF WellFormed
              THEN [i \in DOMAIN records |->
                     [page |-> records[i].page, offset |-> records[i].offset,
                      size |-> records[i].size]]
              ELSE <<>>

ImplementsStream == Stream!Spec
=============================================================================
