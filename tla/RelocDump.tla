------------------------------ MODULE RelocDump ------------------------------
(***************************************************************************)
(* The relocation table of an NE file and its listing: the relocation      *)
(* blocks behind the segments are read into one table                      *)
(* (RelocationTable::parse), and dump_relocs prints each entry with the    *)
(* chain that RelocChain walks in the bytes taken for its segment          *)
(* (print_entry). NeInspect composes these steps into the programs.        *)
(***************************************************************************)
EXTENDS NeFile

VARIABLES
  phase,    \* how far the relocation table is, or an outcome
  seg,      \* the segments done, then the number of the one whose block is read
  pos,      \* the cursor in the block
  left,     \* the entries of the block still to be read
  entries,  \* the table: [segment, at]
  chains    \* print_entry: the bytes [from, to) each chain was walked in

dumpVars == <<file, phase, seg, pos, left, entries, chains>>

Phases == {"header", "locate", "segments", "entries", "print", "no_table"}

Outcomes == {"ok", "reported", "not_ne", "segment_table", "no_segments",
             "relocation_table", "panic"}
-----------------------------------------------------------------------------
(* get_segment_data: a segment of length 0 is taken to reach to the end of *)
(* the file, which panics when the segment starts behind it.               *)
Panics(n) == SegmentOf(n).length = 0 /\ SegmentOf(n).start > file.len

(* logical_to_offset(n, 0) is an offset. *)
Located(n) ==
  SegmentOf(n).start + SegmentOf(n).length <= file.len

(* Mutation of Base: the block looked for at the segment's start. *)
BaseAtStart(n) == SegmentOf(n).start

(* Where a segment's relocation block starts. *)
Base(n) == SegmentOf(n).start + SegmentOf(n).length

HasBlock(n) == SegmentOf(n).relocs /\ Base(n) + 2 <= file.len

(* The bytes print_entry walks a chain in: those of the segment, or as     *)
(* many from the start of the file if the segment is not located.          *)
SegBase(n) == IF Located(n) THEN SegmentOf(n).start ELSE 0

ChainBytes(n) ==
  IF SegBase(n) + SegmentOf(n).length <= file.len
    THEN [from |-> SegBase(n), to |-> SegBase(n) + SegmentOf(n).length]
    ELSE [from |-> 0, to |-> 0]
-----------------------------------------------------------------------------
End(outcome) == phase' = outcome /\ UNCHANGED <<file, seg, pos, left, entries, chains>>

RefuseFile ==
  /\ phase = "locate" /\ seg = 0
  /\ \/ file.cut /\ End("segment_table")
     \/ ~file.cut /\ SegCount = 0 /\ End("no_segments")

(* dump_file's listing: logical_to_offset of every segment. *)
Locate ==
  /\ phase = "locate" /\ ~file.cut /\ SegCount > 0
  /\ IF seg = SegCount
       THEN phase' = "segments" /\ seg' = 0
       ELSE IF Panics(seg + 1) THEN phase' = "panic" /\ UNCHANGED seg
       ELSE seg' = seg + 1 /\ UNCHANGED phase
  /\ UNCHANGED <<file, pos, left, entries, chains>>

(* RelocationTable::parse *)
SkipSegment ==
  /\ phase = "segments" /\ seg < SegCount /\ ~HasBlock(seg + 1)
  /\ seg' = seg + 1
  /\ UNCHANGED <<file, phase, pos, left, entries, chains>>

OpenBlock ==
  /\ phase = "segments" /\ seg < SegCount /\ HasBlock(seg + 1)
  /\ seg' = seg + 1
  /\ pos' = Base(seg + 1) + 2 /\ left' = U16(Base(seg + 1))
  /\ phase' = "entries"
  /\ UNCHANGED <<file, entries, chains>>

(* Mutation of Fits: the entry tested where it starts. *)
FitsStart == pos < file.len

Fits == pos + 8 <= file.len

ReadEntry ==
  /\ phase = "entries" /\ left > 0 /\ Fits
  /\ entries' = Append(entries, [segment |-> seg, at |-> pos])
  /\ pos' = pos + 8 /\ left' = left - 1
  /\ UNCHANGED <<file, phase, seg, chains>>

(* Mutation of RefuseEntry: the rest of a block that is cut off skipped. *)
RefuseEntrySkip ==
  /\ phase = "entries" /\ left > 0 /\ ~Fits
  /\ left' = 0 /\ UNCHANGED <<file, phase, seg, pos, entries, chains>>

RefuseEntry == phase = "entries" /\ left > 0 /\ ~Fits /\ End("relocation_table")

(* ne-inspect goes on with an empty table instead. *)
DropTable ==
  /\ phase = "entries" /\ left > 0 /\ ~Fits
  /\ phase' = "no_table" /\ entries' = <<>>
  /\ UNCHANGED <<file, seg, pos, left, chains>>

(* ne-inspect does not list the segments' offsets before. *)
StartTable ==
  /\ phase = "locate"
  /\ phase' = (IF file.cut THEN "no_table" ELSE "segments") /\ seg' = 0
  /\ UNCHANGED <<file, pos, left, entries, chains>>

CloseBlock ==
  /\ phase = "entries" /\ left = 0
  /\ phase' = "segments" /\ UNCHANGED <<file, seg, pos, left, entries, chains>>

StartPrint ==
  /\ phase = "segments" /\ seg = SegCount
  /\ phase' = "print" /\ UNCHANGED <<file, seg, pos, left, entries, chains>>

PrintEntry ==
  /\ phase = "print" /\ Len(chains) < Len(entries)
  /\ chains' = Append(chains, ChainBytes(entries[Len(chains) + 1].segment))
  /\ UNCHANGED <<file, phase, seg, pos, left, entries>>
-----------------------------------------------------------------------------
(* PROPERTIES *)

Entry == [segment : 1 .. SegCount, at : 0 .. file.len - 8]
Window == [from : 0 .. file.len, to : 0 .. file.len]

DumpTypeOK ==
  /\ FileOK(file)
  /\ phase \in Phases \cup Outcomes
  /\ seg \in 0 .. SegCount /\ pos \in 0 .. file.len /\ left \in Nat
  /\ entries \in Seq(Entry) /\ chains \in Seq(Window)

(***************************************************************************)
(* A chain is walked in the bytes of the segment its entry belongs to, all *)
(* of them and no other, and they end before the block the entry came      *)
(* from: for a parsed entry the two unwrap_or fallbacks of print_entry,    *)
(* which would walk it from the start of the file, are never taken.        *)
(***************************************************************************)
OwnBytes ==
  \A k \in 1 .. Len(chains) :
    LET s == SegmentOf(entries[k].segment)
    IN /\ chains[k] = [from |-> s.start, to |-> s.start + s.length]
       /\ chains[k].to + 2 <= entries[k].at

(* Every entry stems from a readable block behind its segment.             *)
FromBlocks ==
  /\ \A k \in 1 .. Len(entries) :
       HasBlock(entries[k].segment) /\ Base(entries[k].segment) + 2 <= entries[k].at
  /\ phase = "entries" =>
       seg \in 1 .. SegCount /\ HasBlock(seg) /\ Base(seg) + 2 <= pos
  /\ Len(chains) <= Len(entries)
  /\ phase \in {"header", "locate", "segments", "entries", "no_table"} => chains = <<>>

DumpIInv == DumpTypeOK /\ FromBlocks /\ OwnBytes

EntriesOf(n) == {entries[k].at : k \in {j \in 1 .. Len(entries) : entries[j].segment = n}}

(* The first m entries of a block.                                         *)
Places(n, m) == {Base(n) + 2 + 8 * i : i \in 0 .. m - 1}

Announced(n) == IF HasBlock(n) THEN U16(Base(n)) ELSE 0

InOrder ==
  \A j, k \in 1 .. Len(entries) : j < k =>
    \/ entries[j].segment < entries[k].segment
    \/ entries[j].segment = entries[k].segment /\ entries[j].at < entries[k].at

(***************************************************************************)
(* A table that is printed is complete and in segment order: it has as     *)
(* many entries of a segment as that segment's block announces, one after  *)
(* the other, and none of a segment without a readable block.              *)
(***************************************************************************)
TableComplete ==
  phase \in {"print", "ok"} =>
    /\ \A n \in 1 .. SegCount : EntriesOf(n) = Places(n, Announced(n))
    /\ InOrder

(* The table while it is read, of which TableComplete is the end.          *)
Read(n) ==
  IF n > seg THEN 0
  ELSE IF n = seg /\ phase = "entries" THEN Announced(n) - left
  ELSE Announced(n)

Filling ==
  /\ phase \in {"header", "locate", "no_table"} => entries = <<>>
  /\ phase \in {"segments", "entries", "print", "ok"} =>
       /\ \A n \in 1 .. SegCount : EntriesOf(n) = Places(n, Read(n))
       /\ \A k \in 1 .. Len(entries) : entries[k].segment <= seg
       /\ InOrder
  /\ phase = "entries" => left <= Announced(seg) /\ pos = Base(seg) + 2 + 8 * Read(seg)
  /\ phase \in {"print", "ok"} => seg = SegCount
=============================================================================
