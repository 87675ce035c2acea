--------------------------- MODULE NeInspect_proofs ---------------------------
(***************************************************************************)
(* The programs of NeInspect for every set of files: what the tables hold  *)
(* once they are read, and what the lines of a report name.                *)
(***************************************************************************)
EXTENDS NeInspect, FiniteSetTheorems, TLAPS

-----------------------------------------------------------------------------
(* The steps of RelocDump: a chain is walked in exactly the bytes of the    *)
(* segment its entry belongs to, so that the fallback of print_entry to the *)
(* start of the file is unreachable for a parsed entry.                     *)

LEMMA FileFacts ==
  ASSUME FileOK(file)
  PROVE  /\ file.len \in Nat /\ SegCount \in Nat
         /\ \A n \in 1 .. SegCount : SegmentOf(n) \in Segment
BY DEF FileOK, SegCount, SegmentOf

LEMMA ByteFacts ==
  ASSUME FileOK(file), NEW p \in Int
  PROVE  Byte(p) \in 0 .. 255 /\ U16(p) \in Nat
<1>1. ASSUME NEW q \in Int PROVE Byte(q) \in 0 .. 255
  <2>1. CASE q \in DOMAIN file.bytes
    <3>1. file.bytes[q] \in 1 .. 255
      BY <2>1 DEF FileOK
    <3> QED
      BY <2>1, <3>1 DEF Byte
  <2> QED
    BY <2>1 DEF Byte
<1>2. Byte(p) \in 0 .. 255 /\ Byte(p + 1) \in 0 .. 255
  BY <1>1
<1>3. \A a, b \in 0 .. 255 : a + 256 * b \in Nat
  OBVIOUS
<1>4. U16(p) \in Nat
  BY <1>2, <1>3 DEF U16
<1> QED
  BY <1>2, <1>4

LEMMA SegmentFacts ==
  ASSUME FileOK(file), NEW n \in 1 .. SegCount
  PROVE  /\ SegmentOf(n).start \in Nat /\ SegmentOf(n).length \in Nat
         /\ Base(n) = SegmentOf(n).start + SegmentOf(n).length /\ Base(n) \in Nat
<1>1. SegmentOf(n) \in Segment
  BY FileFacts
<1> QED
  BY <1>1 DEF Segment, Base

(* A segment with a readable block is located: the bytes taken are its own. *)
LEMMA BlockMeansLocated ==
  ASSUME FileOK(file), NEW n \in 1 .. SegCount, HasBlock(n)
  PROVE  /\ ChainBytes(n) = [from |-> SegmentOf(n).start,
                             to |-> SegmentOf(n).start + SegmentOf(n).length]
         /\ ChainBytes(n) \in Window
         /\ Base(n) = SegmentOf(n).start + SegmentOf(n).length
<1>1. /\ SegmentOf(n).start \in Nat /\ SegmentOf(n).length \in Nat
      /\ Base(n) = SegmentOf(n).start + SegmentOf(n).length
      /\ file.len \in Nat /\ Base(n) + 2 <= file.len
  BY SegmentFacts, FileFacts DEF HasBlock
<1>2. Located(n) /\ SegBase(n) = SegmentOf(n).start
  BY <1>1 DEF Located, SegBase
<1>3. ChainBytes(n) = [from |-> SegmentOf(n).start,
                       to |-> SegmentOf(n).start + SegmentOf(n).length]
  BY <1>1, <1>2 DEF ChainBytes, Located
<1> QED
  BY <1>1, <1>3 DEF Window

(* The segments are those of the file, which does not change. *)
LEMMA SameFile ==
  ASSUME UNCHANGED file
  PROVE  /\ SegCount' = SegCount /\ Entry' = Entry /\ Window' = Window
         /\ \A n : /\ HasBlock(n)' = HasBlock(n) /\ Base(n)' = Base(n)
                   /\ SegmentOf(n)' = SegmentOf(n)
BY DEF SegCount, Entry, Window, HasBlock, Base, SegmentOf

(* A step that leaves both tables alone and opens no block. *)
LEMMA QuietIInv ==
  ASSUME DumpIInv, UNCHANGED <<file, entries, chains>>, DumpTypeOK', phase' # "entries",
         phase' \in {"header", "locate", "segments", "no_table"} =>
           phase \in {"header", "locate", "segments", "entries", "no_table"}
  PROVE  DumpIInv'
<1>1. FromBlocks'
  BY SameFile DEF DumpIInv, FromBlocks
<1>2. OwnBytes'
  BY SameFile DEF DumpIInv, OwnBytes
<1> QED
  BY <1>1, <1>2 DEF DumpIInv

LEMMA EndIInv ==
  ASSUME DumpIInv, NEW o \in Outcomes, End(o)
  PROVE  DumpIInv'
<1>1. /\ UNCHANGED <<file, seg, pos, left, entries, chains>> /\ phase' = o
      /\ o \notin {"header", "locate", "segments", "entries", "no_table"}
  BY DEF End, Outcomes
<1>2. DumpTypeOK'
  BY <1>1, SameFile DEF DumpIInv, DumpTypeOK
<1> QED
  BY <1>1, <1>2, QuietIInv

LEMMA LocateIInv ==
  ASSUME DumpIInv, Locate
  PROVE  DumpIInv'
<1>1. /\ UNCHANGED <<file, pos, left, entries, chains>> /\ phase = "locate"
      /\ phase' \in {"locate", "segments", "panic"}
  BY DEF Locate
<1>2. SegCount \in Nat /\ seg \in 0 .. SegCount
  BY FileFacts DEF DumpIInv, DumpTypeOK
<1>3. seg' \in 0 .. SegCount
  BY <1>2 DEF Locate
<1>4. DumpTypeOK'
  BY <1>1, <1>3, SameFile DEF DumpIInv, DumpTypeOK, Outcomes, Phases
<1> QED
  BY <1>1, <1>4, QuietIInv

LEMMA OpenBlockIInv ==
  ASSUME DumpIInv, OpenBlock
  PROVE  DumpIInv'
<1>1. /\ seg < SegCount /\ HasBlock(seg + 1) /\ seg' = seg + 1
      /\ pos' = Base(seg + 1) + 2 /\ left' = U16(Base(seg + 1))
      /\ phase = "segments" /\ phase' = "entries" /\ UNCHANGED <<file, entries, chains>>
  BY DEF OpenBlock
<1>2. FileOK(file) /\ SegCount \in Nat /\ seg \in 0 .. SegCount /\ file.len \in Nat
  BY FileFacts DEF DumpIInv, DumpTypeOK
<1>3. seg + 1 \in 1 .. SegCount
  BY <1>1, <1>2
<1>4. Base(seg + 1) \in Nat /\ Base(seg + 1) + 2 <= file.len
  BY <1>1, <1>2, <1>3, SegmentFacts DEF HasBlock
<1>5. pos' \in 0 .. file.len /\ Base(seg + 1) \in 0 .. file.len
  BY <1>1, <1>2, <1>4
<1>6. left' \in Nat
  BY <1>1, <1>2, <1>4, ByteFacts
<1>7. seg' \in 0 .. SegCount
  BY <1>1, <1>2, <1>3
<1>8. DumpTypeOK'
  BY <1>1, <1>5, <1>6, <1>7, SameFile DEF DumpIInv, DumpTypeOK, Phases
<1>9. FromBlocks'
  BY <1>1, <1>3, <1>4, SameFile DEF DumpIInv, FromBlocks
<1>10. OwnBytes'
  BY <1>1, SameFile DEF DumpIInv, OwnBytes
<1> QED
  BY <1>8, <1>9, <1>10 DEF DumpIInv

LEMMA ReadEntryIInv ==
  ASSUME DumpIInv, ReadEntry
  PROVE  DumpIInv'
<1> DEFINE new == [segment |-> seg, at |-> pos]
<1>1. /\ phase = "entries" /\ left > 0 /\ pos + 8 <= file.len
      /\ entries' = Append(entries, new) /\ pos' = pos + 8 /\ left' = left - 1
      /\ UNCHANGED <<file, phase, seg, chains>>
  BY DEF ReadEntry, Fits
<1>2. /\ file.len \in Nat /\ pos \in Nat /\ left \in Nat /\ seg \in 1 .. SegCount
      /\ HasBlock(seg) /\ Base(seg) + 2 <= pos /\ Base(seg) \in Nat
      /\ entries \in Seq(Entry) /\ chains \in Seq(Window) /\ Len(chains) <= Len(entries)
  BY <1>1, FileFacts, SegmentFacts DEF DumpIInv, DumpTypeOK, FromBlocks
<1>3. new \in Entry
  BY <1>1, <1>2 DEF Entry
<1>4. new.segment = seg /\ new.at = pos
  OBVIOUS
<1> HIDE DEF new
<1>5. /\ entries' \in Seq(Entry) /\ Len(entries') = Len(entries) + 1
      /\ \A k \in 1 .. Len(entries) : entries'[k] = entries[k]
      /\ entries'[Len(entries) + 1] = new
  BY <1>1, <1>2, <1>3
<1>6. DumpTypeOK'
  <2>1. pos' \in 0 .. file.len /\ left' \in Nat
    BY <1>1, <1>2
  <2> QED
    BY <1>1, <1>5, <2>1, SameFile DEF DumpIInv, DumpTypeOK
<1>7. FromBlocks'
  <2>1. \A k \in 1 .. Len(entries') : k \in 1 .. Len(entries) \/ k = Len(entries) + 1
    BY <1>2, <1>5
  <2>2. \A k \in 1 .. Len(entries') :
          HasBlock(entries'[k].segment) /\ Base(entries'[k].segment) + 2 <= entries'[k].at
    BY <1>2, <1>4, <1>5, <2>1 DEF DumpIInv, FromBlocks
  <2>3. Base(seg) + 2 <= pos' /\ Len(chains') <= Len(entries')
    BY <1>1, <1>2, <1>5
  <2>4. chains' = <<>>
    BY <1>1 DEF DumpIInv, FromBlocks
  <2> QED
    BY <1>1, <1>2, <2>2, <2>3, <2>4, SameFile DEF FromBlocks
<1>8. OwnBytes'
  <2>1. \A k \in 1 .. Len(chains) : k \in 1 .. Len(entries)
    BY <1>2
  <2> QED
    BY <1>1, <1>5, <2>1, SameFile DEF DumpIInv, OwnBytes
<1> QED
  BY <1>6, <1>7, <1>8 DEF DumpIInv

LEMMA PrintEntryIInv ==
  ASSUME DumpIInv, PrintEntry
  PROVE  DumpIInv'
<1> DEFINE k == Len(chains) + 1
           n == entries[k].segment
<1>1. /\ phase = "print" /\ Len(chains) < Len(entries)
      /\ chains' = Append(chains, ChainBytes(n))
      /\ UNCHANGED <<file, phase, seg, pos, left, entries>>
  BY DEF PrintEntry
<1>2. entries \in Seq(Entry) /\ chains \in Seq(Window) /\ FileOK(file)
  BY DEF DumpIInv, DumpTypeOK
<1>3. k \in 1 .. Len(entries)
  BY <1>1, <1>2
<1>4. entries[k] \in Entry /\ n \in 1 .. SegCount
  <2>1. entries[k] \in Entry
    BY <1>2, <1>3
  <2> QED
    BY <2>1 DEF Entry
<1>5. HasBlock(n) /\ Base(n) + 2 <= entries[k].at
  BY <1>3 DEF DumpIInv, FromBlocks
<1>6. /\ ChainBytes(n) = [from |-> SegmentOf(n).start,
                          to |-> SegmentOf(n).start + SegmentOf(n).length]
      /\ ChainBytes(n) \in Window
      /\ Base(n) = SegmentOf(n).start + SegmentOf(n).length
  BY <1>2, <1>4, <1>5, BlockMeansLocated
<1>7. /\ chains' \in Seq(Window) /\ Len(chains') = Len(chains) + 1
      /\ \A j \in 1 .. Len(chains) : chains'[j] = chains[j]
      /\ chains'[Len(chains) + 1] = ChainBytes(n)
  BY <1>1, <1>2, <1>6
<1>8. DumpTypeOK'
  BY <1>1, <1>7, SameFile DEF DumpIInv, DumpTypeOK
<1>9. FromBlocks'
  <2>1. Len(chains') <= Len(entries)
    BY <1>1, <1>2, <1>7
  <2> QED
    BY <1>1, <2>1, SameFile DEF DumpIInv, FromBlocks
<1>10. OwnBytes'
  <2>1. \A j \in 1 .. Len(chains') : j \in 1 .. Len(chains) \/ j = k
    BY <1>2, <1>7
  <2>2. ChainBytes(n).to = Base(n)
    BY <1>6
  <2>3. \A j \in 1 .. Len(chains') :
          /\ chains'[j] = [from |-> SegmentOf(entries[j].segment).start,
                           to |-> SegmentOf(entries[j].segment).start
                                    + SegmentOf(entries[j].segment).length]
          /\ chains'[j].to + 2 <= entries[j].at
    BY <1>5, <1>6, <1>7, <2>1, <2>2 DEF DumpIInv, OwnBytes
  <2> QED
    BY <1>1, <2>3, SameFile DEF OwnBytes
<1> QED
  BY <1>8, <1>9, <1>10 DEF DumpIInv

(* A table that is refused is dropped before anything was printed.         *)
LEMMA DropTableIInv ==
  ASSUME DumpIInv, DropTable
  PROVE  DumpIInv'
<1>1. /\ phase = "entries" /\ phase' = "no_table" /\ entries' = <<>>
      /\ UNCHANGED <<file, seg, pos, left, chains>>
  BY DEF DropTable
<1>2. chains = <<>>
  BY <1>1 DEF DumpIInv, FromBlocks
<1>3. DumpTypeOK'
  BY <1>1, SameFile DEF DumpIInv, DumpTypeOK, Phases
<1>4. FromBlocks' /\ OwnBytes'
  BY <1>1, <1>2 DEF FromBlocks, OwnBytes
<1> QED
  BY <1>3, <1>4 DEF DumpIInv

(* The cursor stands before or between two blocks, or behind the last.     *)
LEMMA BetweenBlocksIInv ==
  ASSUME DumpIInv, StartTable \/ SkipSegment \/ CloseBlock \/ StartPrint
  PROVE  DumpIInv'
<1>1. /\ phase \in {"locate", "segments", "entries"}
      /\ phase' \in {"segments", "no_table", "print"}
      /\ UNCHANGED <<file, pos, left, entries, chains>>
  BY DEF StartTable, SkipSegment, CloseBlock, StartPrint
<1>2. SegCount \in Nat /\ seg \in 0 .. SegCount
  BY FileFacts DEF DumpIInv, DumpTypeOK
<1>3. seg' \in 0 .. SegCount
  BY <1>2 DEF StartTable, SkipSegment, CloseBlock, StartPrint
<1>4. DumpTypeOK'
  BY <1>1, <1>3, SameFile DEF DumpIInv, DumpTypeOK, Phases
<1> QED
  BY <1>1, <1>4, QuietIInv

(* Every step of the relocation table and of its listing.                  *)
LEMMA ParseIInv ==
  ASSUME DumpIInv,
         \/ RefuseFile \/ Locate \/ RefuseEntry \/ StartTable \/ DropTable
         \/ SkipSegment \/ OpenBlock \/ ReadEntry \/ CloseBlock
  PROVE  DumpIInv'
<1>1. CASE RefuseFile
  BY <1>1, EndIInv DEF RefuseFile, Outcomes
<1>2. CASE RefuseEntry
  BY <1>2, EndIInv DEF RefuseEntry, Outcomes
<1> QED
  BY <1>1, <1>2, LocateIInv, DropTableIInv, BetweenBlocksIInv, OpenBlockIInv, ReadEntryIInv

LEMMA StutterIInv ==
  ASSUME DumpIInv, UNCHANGED dumpVars
  PROVE  DumpIInv'
<1>1. UNCHANGED <<file, phase, seg, pos, left, entries, chains>>
  BY DEF dumpVars
<1>2. DumpTypeOK' /\ FromBlocks' /\ OwnBytes'
  BY <1>1, SameFile DEF DumpIInv, DumpTypeOK, FromBlocks, OwnBytes
<1> QED
  BY <1>2 DEF DumpIInv
-----------------------------------------------------------------------------
(* The table as it fills (Filling).                                        *)

Early == {"header", "locate", "no_table"}
Late == {"segments", "entries", "print", "ok"}

LEMMA AnnouncedFacts ==
  ASSUME FileOK(file), NEW n \in 1 .. SegCount
  PROVE  /\ Announced(n) \in Nat /\ Base(n) \in Nat
         /\ HasBlock(n) => Announced(n) = U16(Base(n))
BY SegmentFacts, ByteFacts DEF Announced

LEMMA SameTable ==
  ASSUME UNCHANGED <<file, entries>>
  PROVE  /\ InOrder' = InOrder /\ SegCount' = SegCount
         /\ \A n : /\ EntriesOf(n)' = EntriesOf(n) /\ Announced(n)' = Announced(n)
                   /\ Base(n)' = Base(n)
         /\ \A n, m : Places(n, m)' = Places(n, m)
BY DEF InOrder, EntriesOf, Announced, Places, Base, HasBlock, SegmentOf, SegCount, U16, Byte

(* A step that changes neither the table nor what should be read of it.    *)
LEMMA KeepFilling ==
  ASSUME DumpTypeOK, DumpTypeOK', Filling, UNCHANGED <<file, entries>>, phase' # "entries",
         phase' \in Early => phase \in Early,
         phase' \in Late => /\ phase \in Late /\ seg <= seg'
                            /\ \A n \in 1 .. SegCount : Read(n)' = Read(n),
         phase' \in {"print", "ok"} => seg' = SegCount
  PROVE  Filling'
<1>1. phase' \in Early => entries' = <<>>
  BY DEF Filling, Early
<1>2. ASSUME phase' \in Late
      PROVE  /\ \A n \in 1 .. SegCount' : EntriesOf(n)' = Places(n, Read(n))'
             /\ \A k \in 1 .. Len(entries') : entries'[k].segment <= seg'
             /\ InOrder'
  <2>1. /\ \A n \in 1 .. SegCount : EntriesOf(n) = Places(n, Read(n))
        /\ \A k \in 1 .. Len(entries) : entries[k].segment <= seg
        /\ InOrder
    BY <1>2 DEF Filling, Late
  <2>2. \A n \in 1 .. SegCount : Read(n)' = Read(n)
    BY <1>2
  <2>3. ASSUME NEW n \in 1 .. SegCount PROVE EntriesOf(n)' = Places(n, Read(n))'
    <3>1. EntriesOf(n)' = Places(n, Read(n))
      BY <2>1, SameTable
    <3>2. Read(n)' = Read(n)
      BY <2>2
    <3>3. Places(n, Read(n))' = Places(n, Read(n))
      BY <3>2, SameTable DEF Places
    <3> QED
      BY <3>1, <3>3
  <2>4. ASSUME NEW k \in 1 .. Len(entries) PROVE entries'[k].segment <= seg'
    <3>1. entries[k] \in Entry
      BY DEF DumpTypeOK
    <3>2. entries[k].segment \in Int /\ seg \in Int /\ seg' \in Int
      BY <3>1 DEF DumpTypeOK, Entry
    <3> QED
      BY <1>2, <2>1, <3>2
  <2> QED
    BY <2>1, <2>3, <2>4, SameTable
<1> QED
  BY <1>1, <1>2, SameTable DEF Filling, Early, Late

LEMMA EndFilling ==
  ASSUME DumpIInv, Filling, NEW o \in Outcomes, End(o), o = "ok" => phase = "print"
  PROVE  Filling'
<1>1. /\ UNCHANGED <<file, seg, pos, left, entries, chains>> /\ phase' = o
      /\ o \notin Early /\ o # "entries"
      /\ o \in Late => o = "ok"
  BY DEF End, Outcomes, Early, Late
<1>2. DumpTypeOK /\ DumpTypeOK'
  BY EndIInv DEF DumpIInv
<1>3. phase' \in {"print", "ok"} => phase = "print" /\ seg' = SegCount
  BY <1>1 DEF Filling, Outcomes
<1>4. seg \in Int
  BY <1>2 DEF DumpTypeOK
<1>5. phase' \in Late => \A n \in 1 .. SegCount : Read(n)' = Read(n)
  BY <1>1, SameTable DEF Read
<1>6. phase' # "entries" /\ (phase' \in Late => phase \in Late)
  BY <1>1, <1>3 DEF Late
<1>7. seg <= seg'
  BY <1>1, <1>4
<1> QED
  BY <1>1, <1>2, <1>3, <1>5, <1>6, <1>7, KeepFilling

LEMMA BetweenBlocksFilling ==
  ASSUME DumpIInv, Filling, SkipSegment \/ CloseBlock \/ StartPrint
  PROVE  Filling'
<1>1. /\ UNCHANGED <<file, entries>> /\ phase \in Late /\ phase' \in {"segments", "print"}
      /\ seg' = seg \/ (seg' = seg + 1 /\ seg < SegCount /\ ~HasBlock(seg + 1))
      /\ phase = "entries" => left = 0 /\ seg' = seg
      /\ phase' = "print" => seg' = SegCount
  BY DEF SkipSegment, CloseBlock, StartPrint, Late
<1>2. DumpTypeOK /\ DumpTypeOK'
  BY BetweenBlocksIInv DEF DumpIInv
<1>3. seg \in Nat /\ FileOK(file) /\ SegCount \in Nat
  BY <1>2, FileFacts DEF DumpTypeOK
<1>4. ASSUME NEW n \in 1 .. SegCount PROVE Read(n)' = Read(n)
  <2>1. Announced(n)' = Announced(n) /\ Announced(n) \in Nat
    BY <1>1, <1>3, SameTable, AnnouncedFacts
  <2>2. ~HasBlock(n) => Announced(n) = 0
    BY DEF Announced
  <2> QED
    BY <1>1, <1>3, <2>1, <2>2 DEF Read
<1>5. seg <= seg' /\ phase' # "entries" /\ phase' \notin Early /\ (phase' = "ok" => FALSE)
  BY <1>1, <1>3 DEF Early
<1> QED
  BY <1>1, <1>2, <1>4, <1>5, KeepFilling

(* Before the first block nothing is read and nothing is due.              *)
LEMMA EmptyFilling ==
  ASSUME entries' = <<>>, UNCHANGED file, FileOK(file),
         phase' \in {"header", "locate", "segments", "no_table"}, phase' = "segments" => seg' = 0
  PROVE  Filling'
<1>1. SegCount \in Nat /\ SegCount' = SegCount
  BY FileFacts, SameFile
<1>2. ASSUME phase' = "segments", NEW n \in 1 .. SegCount
      PROVE  EntriesOf(n)' = {} /\ Places(n, Read(n))' = {}
  <2>1. EntriesOf(n)' = {}
    BY DEF EntriesOf
  <2>2. Read(n)' = 0
    BY <1>1, <1>2 DEF Read
  <2>3. \A i : i \notin 0 .. 0 - 1
    OBVIOUS
  <2> QED
    BY <2>1, <2>2, <2>3 DEF Places
<1>3. InOrder' /\ \A k \in 1 .. Len(entries') : FALSE
  BY DEF InOrder
<1> QED
  BY <1>1, <1>2, <1>3 DEF Filling

LEMMA OpenBlockFilling ==
  ASSUME DumpIInv, Filling, OpenBlock
  PROVE  Filling'
<1>1. /\ phase = "segments" /\ phase' = "entries" /\ UNCHANGED <<file, entries, chains>>
      /\ seg < SegCount /\ HasBlock(seg + 1) /\ seg' = seg + 1
      /\ pos' = Base(seg + 1) + 2 /\ left' = U16(Base(seg + 1))
  BY DEF OpenBlock
<1>2. /\ FileOK(file) /\ SegCount \in Nat /\ seg \in 0 .. SegCount
      /\ \A k \in 1 .. Len(entries) : entries[k].segment \in Int
  <2>1. \A k \in 1 .. Len(entries) : entries[k] \in Entry
    BY DEF DumpIInv, DumpTypeOK
  <2> QED
    BY <2>1, FileFacts DEF DumpIInv, DumpTypeOK, Entry
<1>3. seg + 1 \in 1 .. SegCount
  BY <1>1, <1>2
<1>4. left' = Announced(seg + 1) /\ Announced(seg + 1) \in Nat /\ Base(seg + 1) \in Nat
  BY <1>1, <1>2, <1>3, AnnouncedFacts
<1>5. ASSUME NEW n \in 1 .. SegCount PROVE Read(n)' = Read(n)
  <2>1. Announced(n)' = Announced(n) /\ Announced(n) \in Nat
    BY <1>1, <1>2, SameTable, AnnouncedFacts
  <2> QED
    BY <1>1, <1>2, <1>4, <2>1 DEF Read
<1>6. /\ \A n \in 1 .. SegCount : EntriesOf(n) = Places(n, Read(n))
      /\ \A k \in 1 .. Len(entries) : entries[k].segment <= seg
      /\ InOrder
  BY <1>1 DEF Filling
<1>7. \A n \in 1 .. SegCount' : EntriesOf(n)' = Places(n, Read(n))'
  <2> SUFFICES ASSUME NEW n \in 1 .. SegCount PROVE EntriesOf(n)' = Places(n, Read(n))'
    BY <1>1, SameTable
  <2>1. EntriesOf(n)' = Places(n, Read(n))
    BY <1>1, <1>6, SameTable
  <2>2. Places(n, Read(n))' = Places(n, Read(n))
    BY <1>1, <1>5, SameTable DEF Places
  <2> QED
    BY <2>1, <2>2
<1>8. \A k \in 1 .. Len(entries') : entries'[k].segment <= seg'
  BY <1>1, <1>2, <1>6
<1>9. left' <= Announced(seg)' /\ pos' = Base(seg)' + 2 + 8 * Read(seg)'
  <2>1. Announced(seg)' = Announced(seg + 1) /\ Base(seg)' = Base(seg + 1)
    BY <1>1, SameTable
  <2>2. Read(seg)' = 0
    BY <1>1, <1>2, <1>3, <1>4, <2>1 DEF Read
  <2> QED
    BY <1>1, <1>4, <2>1, <2>2
<1> QED
  BY <1>1, <1>6, <1>7, <1>8, <1>9, SameTable DEF Filling

LEMMA ReadEntryFilling ==
  ASSUME DumpIInv, Filling, ReadEntry
  PROVE  Filling'
<1> DEFINE new == [segment |-> seg, at |-> pos]
           size == Len(entries)
<1>1. /\ phase = "entries" /\ left > 0 /\ UNCHANGED <<file, phase, seg, chains>>
      /\ entries' = Append(entries, new) /\ pos' = pos + 8 /\ left' = left - 1
  BY DEF ReadEntry
<1>2. /\ FileOK(file) /\ seg \in 1 .. SegCount /\ SegCount \in Nat /\ pos \in Nat
      /\ left \in Nat /\ entries \in Seq(Entry)
  BY <1>1, FileFacts DEF DumpIInv, DumpTypeOK, FromBlocks
<1>3. /\ Announced(seg) \in Nat /\ Base(seg) \in Nat /\ left <= Announced(seg)
      /\ Read(seg) = Announced(seg) - left /\ pos = Base(seg) + 2 + 8 * Read(seg)
  <2>1. ~(seg > seg)
    BY <1>2
  <2> QED
    BY <1>1, <1>2, <2>1, AnnouncedFacts DEF Filling, Read
<1>4. /\ \A n \in 1 .. SegCount : EntriesOf(n) = Places(n, Read(n))
      /\ \A k \in 1 .. Len(entries) : entries[k].segment <= seg
      /\ InOrder
  BY <1>1 DEF Filling
<1>5. /\ size \in Nat /\ Len(entries') = size + 1
      /\ \A k \in 1 .. size : entries'[k] = entries[k]
      /\ entries'[size + 1].segment = seg /\ entries'[size + 1].at = pos
  BY <1>1, <1>2
<1>6. ASSUME NEW k \in 1 .. size
      PROVE  entries[k].segment \in 1 .. SegCount /\ entries[k].at \in Int
  <2>1. entries[k] \in Entry
    BY <1>2, <1>6
  <2> QED
    BY <2>1, <1>2 DEF Entry
<1> HIDE DEF new, size
<1>7. /\ SegCount' = SegCount
      /\ \A n : Announced(n)' = Announced(n) /\ Base(n)' = Base(n)
      /\ \A n, m : Places(n, m)' = Places(n, m)
  BY <1>1 DEF Announced, Places, Base, HasBlock, SegmentOf, SegCount, U16, Byte
<1>8. \A n \in 1 .. SegCount :
        EntriesOf(n)' = IF n = seg THEN EntriesOf(n) \cup {pos} ELSE EntriesOf(n)
  <2>1. \A k \in 1 .. size + 1 : k \in 1 .. size \/ k = size + 1
    BY <1>5
  <2>2. 1 .. size \subseteq 1 .. size + 1 /\ size + 1 \in 1 .. size + 1
    BY <1>5
  <2> QED
    BY <1>1, <1>5, <2>1, <2>2 DEF EntriesOf, size
<1>9. ASSUME NEW n \in 1 .. SegCount
      PROVE  Read(n)' = IF n = seg THEN Read(n) + 1 ELSE Read(n)
  <2>1. Announced(n)' = Announced(n) /\ Announced(n) \in Nat
    BY <1>2, <1>7, AnnouncedFacts
  <2> QED
    BY <1>1, <1>2, <2>1 DEF Read
<1>10. Places(seg, Read(seg) + 1) = Places(seg, Read(seg)) \cup {pos}
  <2> DEFINE r == Read(seg)
  <2>1. r \in Nat
    BY <1>2, <1>3
  <2>2. \A i : i \in 0 .. (r + 1) - 1 <=> i \in 0 .. r - 1 \/ i = r
    BY <2>1
  <2> QED
    BY <1>3, <2>2 DEF Places
<1>11. \A n \in 1 .. SegCount' : EntriesOf(n)' = Places(n, Read(n))'
  <2> SUFFICES ASSUME NEW n \in 1 .. SegCount PROVE EntriesOf(n)' = Places(n, Read(n))'
    BY <1>7
  <2>1. Places(n, Read(n))' = Places(n, IF n = seg THEN Read(n) + 1 ELSE Read(n))
    BY <1>7, <1>9 DEF Places
  <2> QED
    BY <1>4, <1>8, <1>10, <2>1
<1>12. \A k \in 1 .. Len(entries') : entries'[k].segment <= seg'
  <2>1. \A k \in 1 .. size + 1 : k \in 1 .. size \/ k = size + 1
    BY <1>5
  <2> QED
    BY <1>1, <1>2, <1>4, <1>5, <2>1 DEF size
<1>13. InOrder'
  <2>1. ASSUME NEW k \in 1 .. size, entries[k].segment = seg
        PROVE  entries[k].at < pos
    <3>1. entries[k].at \in EntriesOf(seg)
      BY <2>1 DEF EntriesOf, size
    <3>2. entries[k].at \in Places(seg, Read(seg))
      BY <1>2, <1>4, <3>1
    <3>3. PICK i \in 0 .. Read(seg) - 1 : entries[k].at = Base(seg) + 2 + 8 * i
      BY <3>2 DEF Places
    <3> HIDE DEF Base, Announced, Read
    <3>4. Read(seg) \in Nat
      BY <1>2, <1>3
    <3> QED
      BY <1>3, <3>3, <3>4
  <2>2. \A j, k \in 1 .. size + 1 : j < k => j \in 1 .. size /\ (k \in 1 .. size \/ k = size + 1)
    BY <1>5
  <2>3. ASSUME NEW j \in 1 .. size + 1, NEW k \in 1 .. size + 1, j < k
        PROVE  \/ entries'[j].segment < entries'[k].segment
               \/ entries'[j].segment = entries'[k].segment /\ entries'[j].at < entries'[k].at
    <3>1. CASE k \in 1 .. size
      BY <1>4, <1>5, <2>2, <2>3, <3>1 DEF InOrder, size
    <3>2. CASE k = size + 1
      <4>1. j \in 1 .. size /\ entries[j].segment <= seg
        BY <1>4, <2>2, <2>3 DEF size
      <4>2. entries[j].segment < seg \/ (entries[j].segment = seg /\ entries[j].at < pos)
        BY <1>2, <1>6, <2>1, <4>1
      <4> QED
        BY <1>5, <3>2, <4>1, <4>2
    <3> QED
      BY <2>2, <2>3, <3>1, <3>2
  <2> QED
    BY <1>5, <2>3 DEF InOrder
<1>14. left' <= Announced(seg)' /\ pos' = Base(seg)' + 2 + 8 * Read(seg)'
  <2>1. Announced(seg)' = Announced(seg) /\ Base(seg)' = Base(seg)
    BY <1>1, <1>7
  <2>2. Read(seg)' = Read(seg) + 1
    <3>1. ~(seg > seg)
      BY <1>2
    <3> QED
      BY <1>1, <1>2, <1>3, <2>1, <3>1 DEF Read
  <2>3. Read(seg) \in Nat
    BY <1>2, <1>3
  <2> HIDE DEF Read, Announced, Base
  <2>4. left' <= Announced(seg)'
    BY <1>1, <1>2, <1>3, <2>1
  <2>5. pos' = Base(seg)' + 2 + 8 * Read(seg)'
    BY <1>1, <1>3, <2>1, <2>2, <2>3
  <2> QED
    BY <2>4, <2>5
<1> QED
  BY <1>1, <1>11, <1>12, <1>13, <1>14 DEF Filling

(* Every step of the relocation table fills it as TableComplete asks.      *)
LEMMA ParseFilling ==
  ASSUME DumpIInv, Filling,
         \/ RefuseFile \/ Locate \/ RefuseEntry \/ StartTable \/ DropTable
         \/ SkipSegment \/ OpenBlock \/ ReadEntry \/ CloseBlock
  PROVE  Filling'
<1>1. FileOK(file)
  BY DEF DumpIInv, DumpTypeOK
<1>2. CASE RefuseFile \/ RefuseEntry
  <2>1. PICK o \in Outcomes : End(o) /\ o # "ok"
    BY <1>2 DEF RefuseFile, RefuseEntry, Outcomes
  <2> QED
    BY <2>1, EndFilling
<1>3. CASE Locate
  <2>1. /\ phase = "locate" /\ UNCHANGED <<file, pos, left, entries, chains>>
        /\ \/ phase' = "segments" /\ seg' = 0
           \/ phase' = "panic" \/ phase' = "locate"
    BY <1>3 DEF Locate
  <2>2. entries' = <<>>
    BY <2>1 DEF Filling
  <2>3. CASE phase' = "panic"
    BY <2>3 DEF Filling
  <2> QED
    BY <1>1, <2>1, <2>2, <2>3, EmptyFilling
<1>4. CASE StartTable
  <2>1. phase = "locate" /\ phase' \in {"no_table", "segments"} /\ seg' = 0
        /\ UNCHANGED <<file, entries>>
    BY <1>4 DEF StartTable
  <2> QED
    BY <1>1, <2>1, EmptyFilling DEF Filling
<1>5. CASE DropTable
  BY <1>1, <1>5, EmptyFilling DEF DropTable
<1>6. CASE SkipSegment \/ CloseBlock
  BY <1>6, BetweenBlocksFilling
<1>7. CASE OpenBlock
  BY <1>7, OpenBlockFilling
<1>8. CASE ReadEntry
  BY <1>8, ReadEntryFilling
<1> QED
  BY <1>2, <1>3, <1>4, <1>5, <1>6, <1>7, <1>8

(* A listing of the table leaves it alone.                                 *)
LEMMA StutterFilling ==
  ASSUME Filling, UNCHANGED <<file, phase, seg, pos, left, entries>>
  PROVE  Filling'
<1>1. \A n : Read(n)' = Read(n)
  BY SameTable DEF Read
<1>2. \A n : Places(n, Read(n))' = Places(n, Read(n))
  BY <1>1, SameTable DEF Places
<1>3. Announced(seg)' = Announced(seg) /\ Base(seg)' = Base(seg) /\ Read(seg)' = Read(seg)
  BY <1>1, SameTable
<1> QED
  BY <1>2, <1>3, SameTable DEF Filling

LEMMA FillingComplete ==
  ASSUME DumpIInv, Filling
  PROVE  TableComplete
<1> SUFFICES ASSUME phase \in {"print", "ok"}
             PROVE  (\A n \in 1 .. SegCount : EntriesOf(n) = Places(n, Announced(n))) /\ InOrder
  BY DEF TableComplete
<1>1. seg = SegCount /\ SegCount \in Nat
  BY FileFacts DEF Filling, DumpIInv, DumpTypeOK
<1>2. \A n \in 1 .. SegCount : Read(n) = Announced(n)
  BY <1>1 DEF Read
<1> QED
  BY <1>2 DEF Filling

-----------------------------------------------------------------------------
(* The layout of the tables: natural numbers that follow from the file.    *)

LEMMA TableAtFacts ==
  ASSUME FileOK(file), NEW rel \in Nat
  PROVE  TableAt(rel) \in Nat
<1>1. \A a \in Nat, b \in Nat \ {0} : a % b \in Nat
  OBVIOUS
<1>2. file.lfanew + rel \in Nat
  BY DEF FileOK
<1> QED
  BY <1>1, <1>2, WordAssumption DEF TableAt

LEMMA HeaderFacts ==
  ASSUME FileOK(file)
  PROVE  /\ file.header.module_count \in Nat /\ file.header.entry_size \in Nat
         /\ file.header.names_size \in Nat /\ NamesAt \in Nat
<1>1. file.header \in Header
  BY DEF FileOK
<1>2. file.header.imports \in Nat
  BY <1>1 DEF Header
<1> QED
  BY <1>1, <1>2, TableAtFacts DEF Header, NamesAt

LEMMA StartFacts ==
  ASSUME FileOK(file), NEW t \in Tables
  PROVE  Start(t) \in Nat /\ FirstItem(t) \in Nat
<1>1. file.header \in Header
  BY DEF FileOK
<1>2. /\ file.header.resident \in Nat /\ file.header.names \in Nat /\ file.header.entries \in Nat
      /\ file.header.modules \in Nat /\ file.header.resources \in Nat
  BY <1>1 DEF Header
<1>3. /\ TableAt(file.header.resident) \in Nat /\ TableAt(file.header.entries) \in Nat
      /\ TableAt(file.header.modules) \in Nat /\ TableAt(file.header.resources) \in Nat
  BY <1>2, TableAtFacts
<1>4. Start(t) \in Nat
  BY <1>2, <1>3 DEF Start, Tables
<1> QED
  BY <1>4 DEF FirstItem

LEMMA ItemEndFacts ==
  ASSUME FileOK(file), NEW t \in Tables, NEW p \in Nat
  PROVE  /\ ItemEnd(t, p) \in Nat /\ p < ItemEnd(t, p)
         /\ t = "modules" => ItemEnd(t, p) = p + 2
         /\ t = "exports" => ItemEnd(t, p) = RecordEnd(p) /\ p + 2 <= ItemEnd(t, p)
<1>1. Byte(p) \in 0 .. 255 /\ U16(p + 2) \in Nat
  BY ByteFacts
<1>2. \A a \in Nat : p + 8 + 12 * a \in Nat /\ p < p + 8 + 12 * a
  OBVIOUS
<1>3. NameEnd(p) \in Nat /\ p < NameEnd(p) /\ TypeEnd(p) \in Nat /\ p < TypeEnd(p)
  BY <1>1, <1>2 DEF NameEnd, TypeEnd
<1>4. RecordEnd(p) \in Nat /\ p + 2 <= RecordEnd(p)
  <2>1. SlotSize(Byte(p + 1)) \in {0, 3, 6}
    BY DEF SlotSize
  <2>2. \A a \in 0 .. 255 :
          /\ p + 2 + a * 0 \in Nat /\ p + 2 + a * 3 \in Nat /\ p + 2 + a * 6 \in Nat
          /\ p + 2 <= p + 2 + a * 0 /\ p + 2 <= p + 2 + a * 3 /\ p + 2 <= p + 2 + a * 6
    OBVIOUS
  <2> QED
    BY <1>1, <2>1, <2>2 DEF RecordEnd
<1> QED
  BY <1>3, <1>4 DEF ItemEnd, Tables

(* The layout is that of the file, which does not change. *)
LEMMA SameLayout ==
  ASSUME UNCHANGED file
  PROVE  /\ NamesAt' = NamesAt /\ ExportsEnd' = ExportsEnd
         /\ \A r : TableAt(r)' = TableAt(r)
         /\ \A p : /\ Byte(p)' = Byte(p) /\ U16(p)' = U16(p) /\ RecordEnd(p)' = RecordEnd(p)
                   /\ Straddles(p)' = Straddles(p) /\ StringAt(p)' = StringAt(p)
                   /\ Text(p)' = Text(p)
         /\ \A p, n : Holds(p, n)' = Holds(p, n)
         /\ \A t : /\ Start(t)' = Start(t) /\ FirstItem(t)' = FirstItem(t)
                   /\ Absent(t)' = Absent(t)
         /\ \A t, p : /\ ItemEnd(t, p)' = ItemEnd(t, p) /\ Stops(t, p)' = Stops(t, p)
                      /\ ItemFits(t, p)' = ItemFits(t, p)
<1>1. /\ \A r : TableAt(r)' = TableAt(r) /\ Byte(r)' = Byte(r) /\ U16(r)' = U16(r)
      /\ \A p, n : Holds(p, n)' = Holds(p, n)
  BY DEF TableAt, Byte, U16, Holds
<1>2. /\ NamesAt' = NamesAt /\ \A t : Start(t)' = Start(t) /\ FirstItem(t)' = FirstItem(t)
  BY <1>1 DEF NamesAt, Start, FirstItem
<1>3. \A t : Absent(t)' = Absent(t)
  BY <1>2 DEF Absent
<1>4. ExportsEnd' = ExportsEnd
  BY <1>2 DEF ExportsEnd
<1>5. \A p : RecordEnd(p)' = RecordEnd(p) /\ NameEnd(p)' = NameEnd(p) /\ TypeEnd(p)' = TypeEnd(p)
  BY <1>1 DEF RecordEnd, NameEnd, TypeEnd
<1>6. \A p : Straddles(p)' = Straddles(p)
  BY <1>4 DEF Straddles
<1>7. \A p : StringAt(p)' = StringAt(p) /\ Text(p)' = Text(p)
  BY <1>1 DEF StringAt, Text
<1>8. \A t, p : ItemEnd(t, p)' = ItemEnd(t, p)
  BY <1>5 DEF ItemEnd
<1>9. \A t, p : Stops(t, p)' = Stops(t, p)
  BY <1>1, <1>2, <1>4 DEF Stops
<1>10. \A p : IdFits(p)' = IdFits(p) /\ RecordFits(p)' = RecordFits(p)
  BY <1>1, <1>2, <1>4, <1>5, <1>6 DEF IdFits, RecordFits
<1>11. \A p : TypeFits(p)' = TypeFits(p)
  BY <1>1, <1>5, <1>10 DEF TypeFits
<1>12. \A t, p : ItemFits(t, p)' = ItemFits(t, p)
  BY <1>1, <1>8, <1>10, <1>11 DEF ItemFits
<1> QED
  BY <1>1, <1>2, <1>3, <1>4, <1>5, <1>6, <1>7, <1>8, <1>9, <1>12
-----------------------------------------------------------------------------
(* The walks. *)

LEMMA WalkTypes ==
  ASSUME TablesTypeOK, NEW t \in Tables
  PROVE  /\ content[t] \in Seq(Nat) /\ Len(content[t]) \in Nat
         /\ \A k \in 1 .. Len(content[t]) : content[t][k] \in Nat
BY DEF TablesTypeOK

(* A table whose items are what they were is tiled as it was. *)
LEMMA KeepTiled ==
  ASSUME UNCHANGED file, NEW t \in Tables, content'[t] = content[t]
  PROVE  Tiled(t)' = Tiled(t) /\ EndOf(t)' = EndOf(t)
<1>1. Tiled(t)' = Tiled(t)
  BY SameLayout DEF Tiled
<1> QED
  BY <1>1, SameLayout DEF EndOf

LEMMA EmptyTiled ==
  ASSUME NEW t \in Tables, content[t] = <<>>
  PROVE  Tiled(t) /\ EndOf(t) = FirstItem(t)
BY DEF Tiled, EndOf

(* A step of the walk of t: what it owes for t alone. *)
LEMMA WalkStep ==
  ASSUME TablesIInv, UNCHANGED file, NEW t \in Tables, table \in {t, "none"},
         table' \in {t, "none"}, at' \in Nat, content'[t] \in Seq(Nat),
         verdict' = [verdict EXCEPT ![t] = verdict'[t]],
         verdict'[t] \in {"unread", "read", "error"},
         content' = [content EXCEPT ![t] = content'[t]],
         Tiled(t)',
         table' = t => at' = EndOf(t)' /\ verdict'[t] = "unread",
         table' # t /\ verdict'[t] \in {"unread", "error"} => content'[t] = <<>>,
         verdict'[t] = "read" => (Absent(t) /\ content'[t] = <<>>) \/ Stops(t, EndOf(t))'
  PROVE  TablesTypeOK' /\ Walking'
<1>1. TablesTypeOK'
  BY DEF TablesIInv, TablesTypeOK
<1>2. ASSUME NEW u \in Tables, u # t
      PROVE  content'[u] = content[u] /\ verdict'[u] = verdict[u] /\ u # table /\ u # table'
  BY <1>2 DEF TablesIInv, TablesTypeOK, Tables
<1>3. ASSUME NEW u \in Tables, u # t
      PROVE  /\ Tiled(u)'
             /\ u # table' /\ verdict'[u] \in {"unread", "error"} => content'[u] = <<>>
             /\ verdict'[u] = "read" =>
                  (Absent(u)' /\ content'[u] = <<>>) \/ Stops(u, EndOf(u))'
  BY <1>2, <1>3, KeepTiled, SameLayout DEF TablesIInv, Walking
<1> QED
  BY <1>1, <1>2, <1>3, SameLayout DEF Walking

(* The modules are as they were after a step of another table. *)
LEMMA OtherWalk ==
  ASSUME TablesIInv, UNCHANGED file, content'["modules"] = content["modules"],
         verdict'["modules"] = verdict["modules"], table' = "modules" => table = "modules"
  PROVE  ModulesWalk'
BY SameLayout DEF TablesIInv, ModulesWalk

LEMMA ModulesFacts ==
  ASSUME FileOK(file), TablesIInv
  PROVE  /\ Start("modules") \in Nat /\ FirstItem("modules") = Start("modules")
         /\ file.header.module_count \in Nat
         /\ content["modules"] \in Seq(Nat) /\ Len(content["modules"]) \in Nat
         /\ EndOf("modules") = Start("modules") + 2 * Len(content["modules"])
<1> DEFINE words == content["modules"]
           n == Len(words)
<1>1. /\ Start("modules") \in Nat /\ FirstItem("modules") = Start("modules")
      /\ file.header.module_count \in Nat /\ words \in Seq(Nat) /\ n \in Nat
  BY StartFacts, HeaderFacts, WalkTypes DEF TablesIInv, Tables, FirstItem
<1>2. CASE words = <<>>
  BY <1>1, <1>2 DEF EndOf
<1>3. CASE words # <<>>
  <2>1. n \in 1 .. n
    BY <1>1, <1>3
  <2>2. words[n] = Start("modules") + 2 * (n - 1) /\ words[n] \in Nat
    <3>1. \A k \in 1 .. n : words[k] = Start("modules") + 2 * (k - 1)
      BY DEF TablesIInv, ModulesWalk
    <3> HIDE DEF words, n
    <3>2. \A k \in 1 .. n : words[k] \in Nat
      BY <1>1 DEF n
    <3>3. words[n] = Start("modules") + 2 * (n - 1)
      BY <2>1, <3>1
    <3> QED
      BY <2>1, <3>2, <3>3
  <2>3. EndOf("modules") = words[n] + 2
    BY <1>3, <2>2, ItemEndFacts DEF EndOf, Tables
  <2> QED
    BY <1>1, <2>2, <2>3
<1> QED
  BY <1>1, <1>2, <1>3

LEMMA SkipTableIInv ==
  ASSUME FileOK(file), TablesIInv, UNCHANGED file, NEW t \in Tables, SkipTable(t)
  PROVE  TablesIInv'
<1>1. /\ table = "none" /\ verdict[t] = "unread" /\ Absent(t)
      /\ verdict' = [verdict EXCEPT ![t] = "read"] /\ UNCHANGED <<table, at, content>>
  BY DEF SkipTable
<1>2. /\ content[t] = <<>> /\ content \in [Tables -> Seq(Nat)] /\ at \in Nat
      /\ verdict'[t] = "read" /\ "none" \notin Tables
  BY <1>1 DEF TablesIInv, TablesTypeOK, Walking, Tables
<1>3. Tiled(t)'
  BY <1>1, <1>2, EmptyTiled, KeepTiled
<1>4. content' = [content EXCEPT ![t] = content'[t]] /\ content'[t] \in Seq(Nat)
  BY <1>1, <1>2
<1>5. TablesTypeOK' /\ Walking'
  BY <1>1, <1>2, <1>3, <1>4, WalkStep
<1>6. t # "modules"
  BY <1>1 DEF Absent
<1>7. verdict'["modules"] = verdict["modules"]
  BY <1>1, <1>6 DEF TablesIInv, TablesTypeOK, Tables
<1>8. ModulesWalk'
  BY <1>1, <1>7, OtherWalk
<1> QED
  BY <1>5, <1>8 DEF TablesIInv

LEMMA RefuseTableIInv ==
  ASSUME FileOK(file), TablesIInv, UNCHANGED file, NEW t \in Tables, RefuseTable(t)
  PROVE  TablesIInv'
<1>1. /\ table = "none" /\ verdict[t] = "unread" /\ Unreadable(t)
      /\ verdict' = [verdict EXCEPT ![t] = "error"] /\ UNCHANGED <<table, at, content>>
  BY DEF RefuseTable
<1>2. /\ content[t] = <<>> /\ content \in [Tables -> Seq(Nat)] /\ at \in Nat
      /\ verdict'[t] = "error" /\ "none" \notin Tables
  BY <1>1 DEF TablesIInv, TablesTypeOK, Walking, Tables
<1>3. Tiled(t)'
  BY <1>1, <1>2, EmptyTiled, KeepTiled
<1>4. content' = [content EXCEPT ![t] = content'[t]] /\ content'[t] \in Seq(Nat)
  BY <1>1, <1>2
<1>5. TablesTypeOK' /\ Walking'
  BY <1>1, <1>2, <1>3, <1>4, WalkStep
<1>6. CASE t = "modules"
  <2>1. Start("modules") = 0
    BY <1>1, <1>6 DEF Unreadable
  <2> QED
    BY <1>1, <1>2, <1>5, <1>6, <2>1, SameLayout DEF TablesIInv, ModulesWalk
<1>7. CASE t # "modules"
  <2>1. verdict'["modules"] = verdict["modules"]
    BY <1>1, <1>7 DEF TablesIInv, TablesTypeOK, Tables
  <2> QED
    BY <1>1, <1>5, <2>1, OtherWalk DEF TablesIInv
<1> QED
  BY <1>6, <1>7

LEMMA OpenTableIInv ==
  ASSUME FileOK(file), TablesIInv, UNCHANGED file, NEW t \in Tables, OpenTable(t)
  PROVE  TablesIInv'
<1>1. /\ table = "none" /\ verdict[t] = "unread" /\ ~Unreadable(t)
      /\ table' = t /\ at' = FirstItem(t) /\ UNCHANGED <<content, verdict>>
  BY DEF OpenTable
<1>2. /\ content[t] = <<>> /\ content \in [Tables -> Seq(Nat)]
      /\ verdict \in [Tables -> {"unread", "read", "error"}] /\ "none" \notin Tables
  BY <1>1 DEF TablesIInv, TablesTypeOK, Walking, Tables
<1>3. Tiled(t)' /\ at' = EndOf(t)' /\ at' \in Nat
  BY <1>1, <1>2, EmptyTiled, KeepTiled, StartFacts
<1>4. /\ content' = [content EXCEPT ![t] = content'[t]] /\ content'[t] \in Seq(Nat)
      /\ verdict' = [verdict EXCEPT ![t] = verdict'[t]] /\ verdict'[t] = "unread"
  BY <1>1, <1>2
<1>5. TablesTypeOK' /\ Walking'
  BY <1>1, <1>3, <1>4, WalkStep
<1>6. CASE t = "modules"
  <2>1. Start("modules") # 0
    BY <1>1, <1>6 DEF Unreadable
  <2> QED
    BY <1>1, <1>2, <1>5, <1>6, <2>1, SameLayout DEF TablesIInv, ModulesWalk
<1>7. CASE t # "modules"
  BY <1>1, <1>5, <1>7, OtherWalk DEF TablesIInv
<1> QED
  BY <1>6, <1>7

LEMMA ReadItemIInv ==
  ASSUME FileOK(file), TablesIInv, UNCHANGED file, ReadItem
  PROVE  TablesIInv'
<1> DEFINE s == content[table]
           n == Len(s)
<1>1. /\ table # "none" /\ ~Stops(table, at) /\ ItemFits(table, at)
      /\ content' = [content EXCEPT ![table] = Append(s, at)]
      /\ at' = ItemEnd(table, at) /\ UNCHANGED <<table, verdict>>
  BY DEF ReadItem
<1>2. /\ table \in Tables /\ at \in Nat /\ content \in [Tables -> Seq(Nat)]
      /\ verdict \in [Tables -> {"unread", "read", "error"}] /\ "none" \notin Tables
  BY <1>1 DEF TablesIInv, TablesTypeOK, Tables
<1>3. at = EndOf(table) /\ verdict[table] = "unread" /\ Tiled(table)
  BY <1>2 DEF TablesIInv, Walking
<1>4. /\ content'[table] = Append(s, at) /\ Append(s, at) \in Seq(Nat) /\ s \in Seq(Nat)
      /\ n \in Nat /\ Len(Append(s, at)) = n + 1 /\ Append(s, at)[n + 1] = at
      /\ \A k \in 1 .. n : Append(s, at)[k] = s[k] /\ s[k] \in Nat
  BY <1>1, <1>2
<1>5. at' \in Nat
  BY <1>1, <1>2, ItemEndFacts
<1>6. EndOf(table)' = at'
  <2>1. Append(s, at) # <<>>
    <3> HIDE DEF s, n
    <3>1. n + 1 # 0 /\ Len(<<>>) = 0
      BY <1>4
    <3> QED
      BY <1>4, <3>1
  <2> QED
    BY <1>1, <1>4, <2>1, SameLayout DEF EndOf
<1>7. Tiled(table)'
  <2> DEFINE q == Append(s, at)
  <2>1. ASSUME NEW k \in 1 .. n + 1
        PROVE  /\ q[k] = IF k = 1 THEN FirstItem(table) ELSE ItemEnd(table, q[k - 1])
               /\ FirstItem(table) <= q[k]
               /\ ~Stops(table, q[k]) /\ ItemFits(table, q[k])
    <3>1. CASE k \in 1 .. n
      <4>1. k # 1 => k - 1 \in 1 .. n
        BY <1>4, <3>1
      <4> QED
        BY <1>3, <1>4, <3>1, <4>1 DEF Tiled
    <3>2. CASE k = n + 1
      <4>1. n = 0 <=> s = <<>>
        BY <1>4
      <4>2. n # 0 => n \in 1 .. n /\ k - 1 = n
        BY <1>4, <3>2
      <4>3. k = 1 <=> n = 0
        BY <1>4, <3>2
      <4>4. n # 0 => FirstItem(table) <= s[n] /\ s[n] \in Nat
        BY <1>3, <1>4, <4>2 DEF Tiled
      <4>5. n # 0 => at = ItemEnd(table, s[n]) /\ s[n] < ItemEnd(table, s[n])
        BY <1>2, <1>3, <4>1, <4>4, ItemEndFacts DEF EndOf
      <4>6. FirstItem(table) \in Nat /\ (n = 0 => at = FirstItem(table))
        BY <1>2, <1>3, <4>1, StartFacts DEF EndOf
      <4>7. FirstItem(table) <= at
        <5> HIDE DEF s, n, q
        <5> QED
          BY <1>2, <1>4, <4>4, <4>5, <4>6
      <4> QED
        BY <1>1, <1>3, <1>4, <3>2, <4>1, <4>2, <4>3, <4>7 DEF EndOf
    <3> QED
      BY <1>4, <3>1, <3>2
  <2> QED
    BY <1>1, <1>4, <2>1, SameLayout DEF Tiled
<1>8. /\ content' = [content EXCEPT ![table] = content'[table]]
      /\ verdict' = [verdict EXCEPT ![table] = verdict'[table]]
  BY <1>1, <1>2, <1>4
<1>9. TablesTypeOK' /\ Walking'
  BY <1>1, <1>2, <1>3, <1>4, <1>5, <1>6, <1>7, <1>8, WalkStep
<1>10. CASE table = "modules"
  <2> DEFINE start == Start("modules")
             count == file.header.module_count
  <2>1. start \in Nat /\ count \in Nat /\ at = start + 2 * n /\ at' = at + 2
    BY <1>1, <1>2, <1>3, <1>10, ModulesFacts, ItemEndFacts
  <2>2. at # start + 2 * count /\ at + 2 <= file.len
    BY <1>1, <1>10, <2>1 DEF Stops, ItemFits
  <2>3. n <= count /\ start # 0 /\ \A k \in 1 .. n : s[k] = start + 2 * (k - 1)
    BY <1>10 DEF TablesIInv, ModulesWalk
  <2> HIDE DEF start, count, n
  <2>4. n + 1 <= count
    BY <1>4, <2>1, <2>2, <2>3
  <2>5. Holds(start, 2 * (n + 1))
    BY <1>4, <2>1, <2>2 DEF Holds
  <2>6. \A k \in 1 .. n + 1 : Append(s, at)[k] = start + 2 * (k - 1)
    <3>1. \A k \in 1 .. n + 1 : k \in 1 .. n \/ k = n + 1
      BY <1>4
    <3>2. at = start + 2 * ((n + 1) - 1)
      BY <1>4, <2>1
    <3> QED
      BY <1>4, <2>3, <3>1, <3>2
  <2> QED
    BY <1>1, <1>3, <1>4, <1>9, <1>10, <2>3, <2>4, <2>5, <2>6, SameLayout
       DEF TablesIInv, ModulesWalk, start, count, n
<1>11. CASE table # "modules"
  BY <1>1, <1>2, <1>9, <1>11, OtherWalk DEF TablesIInv
<1> QED
  BY <1>10, <1>11

LEMMA FailItemIInv ==
  ASSUME FileOK(file), TablesIInv, UNCHANGED file, FailItem
  PROVE  TablesIInv'
<1>1. PICK t \in Tables : t = table
  BY DEF FailItem, TablesIInv, TablesTypeOK
<1>2. /\ ~Stops(t, at) /\ ~(ItemFits(t, at) /\ ~Overflows)
      /\ verdict' = [verdict EXCEPT ![t] = "error"]
      /\ content' = [content EXCEPT ![t] = <<>>]
      /\ table' = "none" /\ UNCHANGED at
  BY <1>1 DEF FailItem
<1>3. /\ at \in Nat /\ content \in [Tables -> Seq(Nat)]
      /\ verdict \in [Tables -> {"unread", "read", "error"}] /\ t # "none"
      /\ verdict'[t] = "error" /\ content'[t] = <<>> /\ <<>> \in Seq(Nat)
  BY <1>2 DEF TablesIInv, TablesTypeOK, Tables
<1>4. Tiled(t)'
  BY <1>3 DEF Tiled
<1>5. /\ content' = [content EXCEPT ![t] = content'[t]]
      /\ verdict' = [verdict EXCEPT ![t] = verdict'[t]]
  BY <1>2, <1>3
<1>6. TablesTypeOK' /\ Walking'
  BY <1>1, <1>2, <1>3, <1>4, <1>5, WalkStep
<1>7. CASE t = "modules"
  <2> DEFINE start == Start("modules")
             count == file.header.module_count
             n == Len(content["modules"])
  <2>1. start \in Nat /\ count \in Nat /\ n \in Nat /\ at = start + 2 * n
    BY <1>1, <1>7, ModulesFacts DEF TablesIInv, Walking
  <2>2. at # start + 2 * count /\ ~(at + 2 <= file.len)
    BY <1>1, <1>2, <1>3, <1>7, <2>1, ItemEndFacts DEF Stops, ItemFits, Overflows
  <2>3. n <= count
    BY DEF TablesIInv, ModulesWalk
  <2> HIDE DEF start, count, n
  <2>4. count > 0 /\ ~Holds(start, 2 * count)
    <3>1. file.len \in Nat
      BY FileFacts
    <3>2. n < count
      BY <2>1, <2>2, <2>3
    <3>3. at + 2 <= start + 2 * count
      BY <2>1, <3>2
    <3> QED
      BY <2>1, <2>2, <3>1, <3>2, <3>3 DEF Holds
  <2> QED
    BY <1>2, <1>3, <1>6, <1>7, <2>1, <2>4, SameLayout
       DEF TablesIInv, ModulesWalk, start, count, n
<1>8. CASE t # "modules"
  <2>1. content'["modules"] = content["modules"] /\ verdict'["modules"] = verdict["modules"]
    BY <1>2, <1>3, <1>8 DEF Tables
  <2> QED
    BY <1>2, <1>6, <2>1, OtherWalk DEF TablesIInv
<1> QED
  BY <1>7, <1>8

LEMMA CloseTableIInv ==
  ASSUME FileOK(file), TablesIInv, UNCHANGED file, CloseTable
  PROVE  TablesIInv'
<1>1. PICK t \in Tables : t = table
  BY DEF CloseTable, TablesIInv, TablesTypeOK
<1>2. /\ Stops(t, at) /\ verdict' = [verdict EXCEPT ![t] = "read"]
      /\ table' = "none" /\ UNCHANGED <<at, content>>
  BY <1>1 DEF CloseTable
<1>3. /\ at \in Nat /\ content \in [Tables -> Seq(Nat)]
      /\ verdict \in [Tables -> {"unread", "read", "error"}] /\ t # "none"
      /\ verdict'[t] = "read"
  BY <1>2 DEF TablesIInv, TablesTypeOK, Tables
<1>4. Tiled(t) /\ at = EndOf(t)
  BY <1>1 DEF TablesIInv, Walking
<1>5. Tiled(t)' /\ EndOf(t)' = at
  BY <1>2, <1>4, KeepTiled
<1>6. Stops(t, EndOf(t))'
  BY <1>2, <1>5, SameLayout
<1>7. /\ content' = [content EXCEPT ![t] = content'[t]] /\ content'[t] \in Seq(Nat)
      /\ verdict' = [verdict EXCEPT ![t] = verdict'[t]]
  BY <1>2, <1>3
<1>8. TablesTypeOK' /\ Walking'
  BY <1>1, <1>2, <1>3, <1>5, <1>6, <1>7, WalkStep
<1>9. CASE t = "modules"
  <2>1. /\ Start("modules") \in Nat /\ file.header.module_count \in Nat
        /\ Len(content["modules"]) \in Nat
        /\ at = Start("modules") + 2 * Len(content["modules"])
        /\ at = Start("modules") + 2 * file.header.module_count
    BY <1>2, <1>4, <1>9, ModulesFacts DEF Stops
  <2>2. Len(content["modules"]) = file.header.module_count
    BY <2>1
  <2> QED
    BY <1>1, <1>2, <1>3, <1>8, <1>9, <2>2, SameLayout DEF TablesIInv, ModulesWalk
<1>10. CASE t # "modules"
  <2>1. verdict'["modules"] = verdict["modules"]
    BY <1>2, <1>3, <1>10 DEF Tables
  <2> QED
    BY <1>2, <1>8, <2>1, OtherWalk DEF TablesIInv
<1> QED
  BY <1>9, <1>10

LEMMA WalkedWhole ==
  ASSUME TablesIInv
  PROVE  WholeTables
<1> SUFFICES ASSUME NEW t \in Tables
             PROVE  /\ verdict[t] = "read" =>
                         \/ Absent(t) /\ content[t] = <<>>
                         \/ Tiled(t) /\ Stops(t, EndOf(t))
                    /\ verdict[t] = "error" => content[t] = <<>>
  BY DEF WholeTables
<1> QED
  BY DEF TablesIInv, Walking

-----------------------------------------------------------------------------
(* The course of a report. *)

ReportTypeOK ==
  /\ tool \in Tools /\ step \in 1 .. Len(Report[tool]) + 1
  /\ lines \in Seq(LineOK) /\ counts \subseteq [index : Nat, procs : Nat]

LEMMA ReportShape ==
  ASSUME ReportTypeOK
  PROVE  /\ tool \in Tools /\ step \in 1 .. Len(Report[tool]) + 1 /\ Len(Report[tool]) \in Nat
         /\ DOMAIN Report[tool] = 1 .. Len(Report[tool])
BY DEF ReportTypeOK, Report, Tools

(* What a step of the report comes after. *)
LEMMA DoingFacts ==
  ASSUME ReportTypeOK
  PROVE  /\ Doing("relocations") => ~After("relocations") /\ ~After("lines")
         /\ Doing("imports") => After("modules") /\ After("relocations") /\ ~After("lines")
         /\ Doing("lines") => After("modules") /\ After("relocations") /\ ~After("lines")
         /\ step \notin DOMAIN Report[tool] => After("lines") \/ ~After("relocations")
<1>1. tool \in Tools /\ step \in 1 .. Len(Report[tool]) + 1
  BY ReportShape
<1>2. CASE tool = "dump_relocs"
  <2>1. /\ DOMAIN Report[tool] = 1 .. 3 /\ Len(Report[tool]) = 3
        /\ Report[tool][1] = "relocations" /\ Report[tool][2] = "modules"
        /\ Report[tool][3] = "lines"
    BY <1>2 DEF Report
  <2>2. step \in 1 .. 4
    BY <1>1, <2>1
  <2>3. Doing("relocations") => step = 1
    BY <2>1, <2>2 DEF Doing
  <2>4. ~Doing("imports")
    BY <2>1, <2>2 DEF Doing
  <2>5. Doing("lines") => step = 3
    BY <2>1, <2>2 DEF Doing
  <2> QED
    BY <2>1, <2>2, <2>3, <2>4, <2>5 DEF After
<1>3. CASE tool = "winedump"
  <2>1. /\ DOMAIN Report[tool] = 1 .. 7 /\ Len(Report[tool]) = 7
        /\ Report[tool][1] = "resident" /\ Report[tool][2] = "nonresident"
        /\ Report[tool][3] = "resources" /\ Report[tool][4] = "exports"
        /\ Report[tool][5] = "relocations" /\ Report[tool][6] = "modules"
        /\ Report[tool][7] = "lines"
    BY <1>3 DEF Report
  <2>2. step \in 1 .. 8
    BY <1>1, <2>1
  <2>3. Doing("relocations") => step = 5
    BY <2>1, <2>2 DEF Doing
  <2>4. ~Doing("imports")
    BY <2>1, <2>2 DEF Doing
  <2>5. Doing("lines") => step = 7
    BY <2>1, <2>2 DEF Doing
  <2> QED
    BY <2>1, <2>2, <2>3, <2>4, <2>5 DEF After
<1>4. CASE tool = "detailed"
  <2>1. /\ DOMAIN Report[tool] = 1 .. 8 /\ Len(Report[tool]) = 8
        /\ Report[tool][1] = "exports" /\ Report[tool][2] = "resident"
        /\ Report[tool][3] = "nonresident" /\ Report[tool][4] = "modules"
        /\ Report[tool][5] = "relocations" /\ Report[tool][6] = "imports"
        /\ Report[tool][7] = "resources" /\ Report[tool][8] = "lines"
    BY <1>4 DEF Report
  <2>2. step \in 1 .. 9
    BY <1>1, <2>1
  <2>3. Doing("relocations") => step = 5
    BY <2>1, <2>2 DEF Doing
  <2>4. Doing("imports") => step = 6
    BY <2>1, <2>2 DEF Doing
  <2>5. Doing("lines") => step = 8
    BY <2>1, <2>2 DEF Doing
  <2> QED
    BY <2>1, <2>2, <2>3, <2>4, <2>5 DEF After
<1>5. CASE tool = "json"
  <2>1. /\ DOMAIN Report[tool] = 1 .. 3 /\ Len(Report[tool]) = 3
        /\ Report[tool][1] = "exports" /\ Report[tool][2] = "modules"
        /\ Report[tool][3] = "resources"
    BY <1>5 DEF Report
  <2>2. step \in 1 .. 4
    BY <1>1, <2>1
  <2>3. ~Doing("relocations")
    BY <2>1, <2>2 DEF Doing
  <2>4. ~Doing("imports")
    BY <2>1, <2>2 DEF Doing
  <2>5. ~Doing("lines")
    BY <2>1, <2>2 DEF Doing
  <2> QED
    BY <2>1, <2>2, <2>3, <2>4, <2>5 DEF After
<1> QED
  BY <1>1, <1>2, <1>3, <1>4, <1>5 DEF Tools

LEMMA DoneFacts ==
  ASSUME ReportTypeOK, NEW x, Done(x) \/ (Doing(x) /\ step' = step + 1 /\ UNCHANGED tool)
  PROVE  /\ \A y : After(y)' <=> After(y) \/ y = x
         /\ step' \in 1 .. Len(Report[tool]) + 1 /\ tool' = tool
<1>1. /\ tool \in Tools /\ step \in 1 .. Len(Report[tool]) + 1 /\ tool' = tool
      /\ step' = step + 1 /\ step \in DOMAIN Report[tool] /\ Report[tool][step] = x
  BY DEF ReportTypeOK, Done, Doing
<1>2. DOMAIN Report[tool] = 1 .. Len(Report[tool]) /\ Len(Report[tool]) \in Nat
  BY ReportShape
<1>3. \A i : i \in 1 .. step' - 1 <=> i \in 1 .. step - 1 \/ i = step
  BY <1>1, <1>2
<1> QED
  BY <1>1, <1>2, <1>3 DEF After
-----------------------------------------------------------------------------
(* What a line names. *)

LEMMA SameLines ==
  ASSUME UNCHANGED <<file, entries>>
  PROVE  \A k : ReferencedLine(k)' = ReferencedLine(k) /\ Imports(k)' = Imports(k)
                /\ Target1(k)' = Target1(k)
<1>1. \A k : Kind(k)' = Kind(k) /\ Target1(k)' = Target1(k) /\ Target2(k)' = Target2(k)
  BY SameLayout DEF Kind, Target1, Target2
<1>2. \A k : Imports(k)' = Imports(k)
  BY <1>1 DEF Imports
<1>3. \A i : ReferencedModule(i)' = ReferencedModule(i)
  BY SameLayout DEF ReferencedModule
<1> QED
  BY <1>1, <1>2, <1>3, SameLayout DEF ReferencedLine

LEMMA SameModules ==
  ASSUME UNCHANGED <<file, entries>>, content'["modules"] = content["modules"]
  PROVE  Cache' = Cache /\ \A k, i : Names(k, i)' = Names(k, i)
<1>1. \A i : ModuleString(i)' = ModuleString(i)
  BY SameLayout DEF ModuleString
<1>2. Cache' = Cache
  BY <1>1 DEF Cache
<1>3. \A k, i : /\ Text(ModuleString(Target1(k) - 1))' = Text(ModuleString(Target1(k) - 1))
                /\ Text(ModuleString(i))' = Text(ModuleString(i))
  BY <1>1, SameLines, SameLayout
<1> QED
  BY <1>2, <1>3, SameLines DEF Names

LEMMA StringFacts ==
  ASSUME NEW p \in Nat
  PROVE  StringAt(p) \in Nat \cup {Unnamed}
BY DEF StringAt

(* Both lookups find the module reference that the file has at the index.  *)
LEMMA ModuleReferenced ==
  ASSUME FileOK(file), TablesIInv, verdict["modules"] # "unread", NEW index \in Nat
  PROVE  /\ ModuleName(index) = ReferencedModule(index)
         /\ InspectModule(index) = ReferencedModule(index)
         /\ ReferencedModule(index) \in Nat \cup {Unnamed}
<1> DEFINE words == content["modules"]
           n == Len(words)
           start == Start("modules")
           count == file.header.module_count
<1>1. /\ words \in Seq(Nat) /\ n \in Nat /\ start \in Nat /\ count \in Nat /\ NamesAt \in Nat
      /\ start = TableAt(file.header.modules)
  BY ModulesFacts, HeaderFacts DEF Start
<1>2. verdict["modules"] \in {"read", "error"} /\ table # "modules"
  BY DEF TablesIInv, TablesTypeOK, Walking, Tables
<1>3. CASE index \in 1 .. n
  <2> DEFINE q == start + 2 * (index - 1)
  <2>1. words # <<>> /\ verdict["modules"] = "read"
    <3>1. words # <<>>
      BY <1>3
    <3> QED
      BY <1>2, <3>1 DEF TablesIInv, Walking, Tables
  <2>2. n = count /\ start # 0 /\ Holds(start, 2 * n) /\ words[index] = start + 2 * (index - 1)
    BY <1>3, <2>1 DEF TablesIInv, ModulesWalk
  <2>3. (index - 1) + 1 = index /\ index - 1 \in 0 .. n - 1
    <3> HIDE DEF n
    <3> QED
      BY <1>1, <1>3
  <2>4. ModuleString(index - 1) = StringAt(NamesAt + U16(q))
    BY <2>2, <2>3 DEF ModuleString
  <2>5. ReferencedModule(index) = StringAt(NamesAt + U16(q))
    BY <1>1, <1>3, <2>2 DEF ReferencedModule
  <2>6. NamesAt + U16(q) \in Nat
    <3> HIDE DEF start
    <3>1. q \in Int
      BY <1>1
    <3> HIDE DEF q
    <3>2. U16(q) \in Nat
      BY <3>1, ByteFacts
    <3>3. \A a, b \in Nat : a + b \in Nat
      OBVIOUS
    <3> QED
      BY <1>1, <3>2, <3>3
  <2>7. index - 1 \in Cache \/ StringAt(NamesAt + U16(q)) = Unnamed
    BY <2>3, <2>4 DEF Cache
  <2>8. DumpModule(index) = StringAt(NamesAt + U16(q))
    BY <1>3, <2>4 DEF DumpModule
  <2>9. InspectModule(index) = StringAt(NamesAt + U16(q))
    BY <2>4, <2>7 DEF InspectModule
  <2> QED
    BY <2>5, <2>6, <2>8, <2>9, StringFacts DEF ModuleName
<1>4. CASE index \notin 1 .. n
  <2>1. DumpModule(index) = Unnamed
    BY <1>4 DEF DumpModule
  <2>2. InspectModule(index) = Unnamed
    <3>1. index - 1 \notin 0 .. n - 1
      <4> HIDE DEF n
      <4> QED
        BY <1>1, <1>4
    <3> QED
      BY <3>1 DEF InspectModule, Cache
  <2>3. ReferencedModule(index) = Unnamed
    <3>1. CASE verdict["modules"] = "read"
      <4>1. n = count
        BY <3>1 DEF TablesIInv, ModulesWalk
      <4> QED
        BY <1>4, <4>1 DEF ReferencedModule
    <3>2. CASE verdict["modules"] = "error"
      <4>1. start = 0 \/ ~Holds(start, 2 * count)
        BY <3>2 DEF TablesIInv, ModulesWalk
      <4> QED
        BY <1>1, <4>1 DEF ReferencedModule
    <3> QED
      BY <1>2, <3>1, <3>2
  <2> QED
    BY <2>1, <2>2, <2>3 DEF ModuleName
<1> QED
  BY <1>3, <1>4

LEMMA LineReferenced ==
  ASSUME DumpTypeOK, TablesIInv, verdict["modules"] # "unread", NEW k \in 1 .. Len(entries)
  PROVE  Line(k) = ReferencedLine(k) /\ Line(k) \in LineOK
<1>1. entries[k] \in Entry /\ FileOK(file) /\ NamesAt \in Nat
  BY HeaderFacts DEF DumpTypeOK
<1>2. entries[k].at + 4 \in Int /\ entries[k].at + 6 \in Int
  BY <1>1 DEF Entry
<1>3. Target1(k) \in Nat /\ Target2(k) \in Nat
  BY <1>1, <1>2, ByteFacts DEF Target1, Target2
<1>4. /\ ModuleName(Target1(k)) = ReferencedModule(Target1(k))
      /\ ReferencedModule(Target1(k)) \in Nat \cup {Unnamed}
  BY <1>1, <1>3, ModuleReferenced
<1>5. StringAt(NamesAt + Target2(k)) \in Nat \cup {Unnamed}
  <2>1. NamesAt + Target2(k) \in Nat
    BY <1>1, <1>3
  <2> QED
    BY <2>1, StringFacts
<1>6. k \in Nat
  OBVIOUS
<1> QED
  BY <1>4, <1>5, <1>6 DEF Line, ReferencedLine, LineOK
-----------------------------------------------------------------------------
(* The invariant, in its three parts: a step of one leaves two alone. *)

ReportIInv == ReportTypeOK /\ Course /\ Lined

LEMMA Parts ==
  /\ IInv <=> DumpIInv /\ Filling /\ TablesIInv /\ ReportIInv
  /\ IInv' <=> DumpIInv' /\ Filling' /\ TablesIInv' /\ ReportIInv'
BY DEF IInv, TypeOK, DumpIInv, TablesIInv, ReportIInv, ReportTypeOK

LEMMA SameAfter ==
  ASSUME UNCHANGED <<tool, step>>
  PROVE  \A name : After(name)' = After(name)
BY DEF After

LEMMA TablesStay ==
  ASSUME TablesIInv, UNCHANGED file, UNCHANGED tableVars
  PROVE  TablesIInv'
<1>1. UNCHANGED <<table, at, content, verdict>>
  BY DEF tableVars
<1>2. \A t \in Tables : Tiled(t)' = Tiled(t) /\ EndOf(t)' = EndOf(t)
  BY <1>1, KeepTiled
<1>3. \A t \in Tables : Stops(t, EndOf(t))' = Stops(t, EndOf(t))
  BY <1>2, SameLayout
<1>4. Walking'
  BY <1>1, <1>2, <1>3, SameLayout DEF TablesIInv, Walking
<1>5. ModulesWalk'
  BY <1>1, OtherWalk
<1> QED
  BY <1>1, <1>4, <1>5 DEF TablesIInv, TablesTypeOK

LEMMA DumpStays ==
  ASSUME DumpIInv, Filling, UNCHANGED dumpVars
  PROVE  DumpIInv' /\ Filling'
<1>1. UNCHANGED <<file, phase, seg, pos, left, entries>>
  BY DEF dumpVars
<1> QED
  BY <1>1, StutterIInv, StutterFilling

(* The report is as it was while the relocation table is read or a program ends. *)
LEMMA ReportStays ==
  ASSUME DumpTypeOK', ReportIInv, UNCHANGED <<file, tableVars, reportVars>>,
         After("relocations") =>
           UNCHANGED entries /\ phase' \notin {"header", "locate", "segments", "entries"},
         ~After("relocations") => phase' \notin {"print", "ok"},
         phase' \in {"header", "locate"} /\ tool # "dump_relocs" => seg' = 0,
         phase' \in {"print", "ok"} => phase \in {"print", "ok"},
         phase' = "ok" => After("lines")
  PROVE  ReportIInv'
<1>1. UNCHANGED <<tool, step, lines, counts, table, at, content, verdict>>
  BY DEF tableVars, reportVars
<1>2. \A name : After(name)' = After(name)
  BY <1>1, SameAfter
<1>3. ReportTypeOK'
  BY <1>1 DEF ReportIInv, ReportTypeOK
<1>4. CASE ~After("relocations")
  <2>1. lines = <<>> /\ counts = {}
    BY <1>4 DEF ReportIInv, Course
  <2>2. Len(lines') = 0 /\ Len(entries') \in Nat
    BY <1>1, <2>1 DEF DumpTypeOK
  <2>3. Lined'
    BY <1>1, <2>1, <2>2 DEF Lined
  <2>4. Course'
    BY <1>1, <1>2, <1>4, <2>1 DEF ReportIInv, Course
  <2> QED
    BY <1>3, <2>3, <2>4 DEF ReportIInv
<1>5. CASE After("relocations")
  <2>1. UNCHANGED entries /\ \A c \in counts : c.index \in Cache' <=> c.index \in Cache
    BY <1>1, <1>5, SameModules
  <2>2. \A k, i : Names(k, i)' = Names(k, i)
    BY <1>1, <2>1, SameModules
  <2>3. \A c \in counts :
          {k \in 1 .. Len(entries) : Names(k, c.index)}' = {k \in 1 .. Len(entries) : Names(k, c.index)}
    BY <1>1, <2>1, <2>2
  <2>4. Lined'
    BY <1>1, <2>1, <2>2, <2>3, SameLines DEF ReportIInv, Lined
  <2>5. Course'
    BY <1>1, <1>2, <1>5, <2>1 DEF ReportIInv, Course
  <2> QED
    BY <1>3, <2>4, <2>5 DEF ReportIInv
<1> QED
  BY <1>4, <1>5

LEMMA EndStep ==
  ASSUME IInv, NEW o \in Outcomes, End(o), UNCHANGED <<tableVars, reportVars>>,
         o = "ok" => phase = "print" /\ After("lines"), ~After("relocations") => o # "ok"
  PROVE  IInv'
<1>1. DumpIInv /\ Filling /\ TablesIInv /\ ReportIInv
  BY Parts
<1>2. UNCHANGED <<file, seg, entries>> /\ phase' = o /\ phase' \notin Phases
  BY DEF End, Outcomes, Phases
<1>3. DumpIInv' /\ Filling'
  BY <1>1, EndIInv, EndFilling
<1>4. TablesIInv'
  BY <1>1, <1>2, TablesStay
<1>5. ReportIInv'
  BY <1>1, <1>2, <1>3, ReportStays DEF DumpIInv, Phases, Outcomes
<1> QED
  BY <1>3, <1>4, <1>5, Parts

LEMMA AcceptHeaderIInv ==
  ASSUME IInv, AcceptHeader
  PROVE  IInv'
<1>1. DumpIInv /\ Filling /\ TablesIInv /\ ReportIInv
  BY Parts
<1>2. /\ phase = "header" /\ phase' = "locate"
      /\ UNCHANGED <<file, seg, pos, left, entries, chains, tableVars, reportVars>>
  BY DEF AcceptHeader
<1>3. FileOK(file) /\ DumpTypeOK'
  BY <1>1, <1>2, SameFile DEF DumpIInv, DumpTypeOK, Phases
<1>4. DumpIInv'
  BY <1>1, <1>2, <1>3, QuietIInv
<1>5. Filling'
  BY <1>1, <1>2, <1>3, EmptyFilling DEF Filling
<1>6. TablesIInv'
  BY <1>1, <1>2, TablesStay
<1>7. ~After("relocations") /\ (tool # "dump_relocs" => seg' = 0)
  BY <1>1, <1>2 DEF ReportIInv, Course
<1>8. ReportIInv'
  BY <1>1, <1>2, <1>3, <1>7, ReportStays
<1> QED
  BY <1>4, <1>5, <1>6, <1>8, Parts

LEMMA ParseRelocationsIInv ==
  ASSUME IInv, ParseRelocations
  PROVE  IInv'
<1>1. DumpIInv /\ Filling /\ TablesIInv /\ ReportIInv
  BY Parts
<1>2. /\ Doing("relocations") /\ UNCHANGED <<tableVars, reportVars>>
      /\ \/ RefuseFile \/ Locate \/ RefuseEntry \/ StartTable \/ DropTable
         \/ SkipSegment \/ OpenBlock \/ ReadEntry \/ CloseBlock
  BY DEF ParseRelocations
<1>3. DumpIInv' /\ Filling'
  BY <1>1, <1>2, ParseIInv, ParseFilling
<1>4. /\ UNCHANGED file /\ phase' \notin {"header", "print", "ok"}
      /\ phase' = "locate" => tool = "dump_relocs"
  BY DEF ParseRelocations, RefuseFile, Locate, RefuseEntry, StartTable, DropTable,
         SkipSegment, OpenBlock, ReadEntry, CloseBlock, End
<1>5. TablesIInv'
  BY <1>1, <1>2, <1>4, TablesStay
<1>6. ~After("relocations")
  BY <1>1, <1>2, DoingFacts DEF ReportIInv
<1>7. ReportIInv'
  BY <1>1, <1>2, <1>3, <1>4, <1>6, ReportStays DEF DumpIInv
<1> QED
  BY <1>3, <1>5, <1>7, Parts

LEMMA TableStepIInv ==
  ASSUME IInv, UNCHANGED <<dumpVars, reportVars>>,
         \/ \E t \in Tables : SkipTable(t) \/ RefuseTable(t) \/ OpenTable(t)
         \/ ReadItem \/ FailItem \/ CloseTable
  PROVE  IInv'
<1>1. DumpIInv /\ Filling /\ TablesIInv /\ ReportIInv /\ FileOK(file)
  BY Parts DEF DumpIInv, DumpTypeOK
<1>2. /\ UNCHANGED <<file, phase, seg, pos, left, entries, chains>>
      /\ UNCHANGED <<tool, step, lines, counts>>
  BY DEF dumpVars, reportVars
<1>3. DumpIInv' /\ Filling'
  BY <1>1, DumpStays
<1>4. TablesIInv'
  BY <1>1, <1>2, SkipTableIInv, RefuseTableIInv, OpenTableIInv, ReadItemIInv, FailItemIInv,
     CloseTableIInv
<1>5. ASSUME verdict["modules"] # "unread"
      PROVE  content'["modules"] = content["modules"] /\ verdict'["modules"] # "unread"
  <2>1. table # "modules" /\ verdict \in [Tables -> {"unread", "read", "error"}]
        /\ content \in [Tables -> Seq(Nat)]
    BY <1>1, <1>5 DEF TablesIInv, TablesTypeOK, Walking, Tables
  <2> QED
    BY <1>5, <2>1 DEF SkipTable, RefuseTable, OpenTable, ReadItem, FailItem, CloseTable, Tables
<1>6. \A name : After(name)' = After(name)
  BY <1>2, SameAfter
<1>7. counts # {} => verdict["modules"] # "unread"
  BY <1>1 DEF ReportIInv, Course
<1>8. Course'
  BY <1>1, <1>2, <1>5, <1>6 DEF ReportIInv, Course
<1>9. Lined'
  <2>1. \A k \in 1 .. Len(lines) : lines'[k] = ReferencedLine(k)'
    BY <1>1, <1>2, SameLines DEF ReportIInv, Lined
  <2>2. ASSUME NEW c \in counts
        PROVE  /\ c.index \in Cache'
               /\ c.procs = Cardinality({k \in 1 .. Len(entries) : Names(k, c.index)})'
    <3>1. Cache' = Cache /\ \A k, i : Names(k, i)' = Names(k, i)
      BY <1>2, <1>5, <1>7, <2>2, SameModules
    <3>2. {k \in 1 .. Len(entries) : Names(k, c.index)}'
            = {k \in 1 .. Len(entries) : Names(k, c.index)}
      BY <1>2, <3>1
    <3> QED
      BY <1>1, <2>2, <3>1, <3>2 DEF ReportIInv, Lined
  <2> QED
    BY <1>1, <1>2, <2>1, <2>2 DEF ReportIInv, Lined
<1>10. ReportTypeOK'
  BY <1>1, <1>2 DEF ReportIInv, ReportTypeOK
<1> QED
  BY <1>3, <1>4, <1>8, <1>9, <1>10, Parts DEF ReportIInv

(* What was listed stays true when the report goes on with the next table. *)
LEMMA SameListing ==
  ASSUME Lined, UNCHANGED <<file, entries, lines, counts>>, UNCHANGED content
  PROVE  Lined'
<1>1. Cache' = Cache /\ \A k, i : Names(k, i)' = Names(k, i)
  BY SameModules
<1>2. \A c \in counts :
        {k \in 1 .. Len(entries) : Names(k, c.index)}' = {k \in 1 .. Len(entries) : Names(k, c.index)}
  BY <1>1
<1> QED
  BY <1>1, <1>2, SameLines DEF Lined

LEMMA EndTableIInv ==
  ASSUME IInv, NEW t \in Tables, EndTable(t)
  PROVE  IInv'
<1>1. DumpIInv /\ Filling /\ TablesIInv /\ ReportIInv
  BY Parts
<1>2. /\ Done(t) /\ (~Wanted(t) \/ verdict[t] # "unread")
      /\ UNCHANGED dumpVars /\ UNCHANGED tableVars
      /\ UNCHANGED <<file, phase, seg, entries, content, verdict, tool, lines, counts>>
  BY DEF EndTable, Done, dumpVars, tableVars
<1>3. DumpIInv' /\ Filling' /\ TablesIInv'
  BY <1>1, <1>2, DumpStays, TablesStay
<1>4. (\A y : After(y)' <=> After(y) \/ y = t) /\ step' \in 1 .. Len(Report[tool]) + 1
  BY <1>1, <1>2, DoneFacts DEF ReportIInv
<1>5. t = "modules" => verdict[t] # "unread"
  BY <1>2 DEF Wanted
<1>6. t \notin {"relocations", "lines"}
  BY DEF Tables
<1>7. Course'
  BY <1>1, <1>2, <1>4, <1>5, <1>6 DEF ReportIInv, Course
<1>8. Lined' /\ ReportTypeOK'
  BY <1>1, <1>2, <1>4, SameListing DEF ReportIInv, ReportTypeOK
<1> QED
  BY <1>3, <1>7, <1>8, Parts DEF ReportIInv

LEMMA EndRelocationsIInv ==
  ASSUME IInv, EndRelocations
  PROVE  IInv'
<1>1. DumpIInv /\ Filling /\ TablesIInv /\ ReportIInv
  BY Parts
<1>2. /\ Done("relocations") /\ Doing("relocations") /\ UNCHANGED tableVars
      /\ UNCHANGED <<file, entries, content, verdict, tool, lines, counts>>
      /\ StartPrint \/ (phase = "no_table" /\ UNCHANGED dumpVars)
      /\ phase' \in {"print", "no_table"}
  BY DEF EndRelocations, Done, dumpVars, tableVars, StartPrint
<1>3. DumpIInv' /\ Filling'
  BY <1>1, <1>2, DumpStays, BetweenBlocksIInv, BetweenBlocksFilling
<1>4. TablesIInv'
  BY <1>1, <1>2, TablesStay
<1>5. (\A y : After(y)' <=> After(y) \/ y = "relocations") /\ step' \in 1 .. Len(Report[tool]) + 1
  BY <1>1, <1>2, DoneFacts DEF ReportIInv
<1>6. ~After("relocations") /\ ~After("lines")
  BY <1>1, <1>2, DoingFacts DEF ReportIInv
<1>7. Course'
  BY <1>1, <1>2, <1>5, <1>6 DEF ReportIInv, Course
<1>8. Lined' /\ ReportTypeOK'
  BY <1>1, <1>2, <1>5, SameListing DEF ReportIInv, ReportTypeOK
<1> QED
  BY <1>3, <1>4, <1>7, <1>8, Parts DEF ReportIInv

LEMMA CountImportsIInv ==
  ASSUME IInv, CountImports
  PROVE  IInv'
<1>1. DumpIInv /\ Filling /\ TablesIInv /\ ReportIInv
  BY Parts
<1>2. /\ Doing("imports") /\ step' = step + 1 /\ UNCHANGED dumpVars /\ UNCHANGED tableVars
      /\ UNCHANGED <<file, phase, seg, entries, content, verdict, tool, lines>>
      /\ counts' = {[index |-> i, procs |-> Cardinality({k \in 1 .. Len(entries) : Names(k, i)})] :
                     i \in Cache}
  BY DEF CountImports, dumpVars, tableVars
<1>3. DumpIInv' /\ Filling' /\ TablesIInv'
  BY <1>1, <1>2, DumpStays, TablesStay
<1>4. (\A y : After(y)' <=> After(y) \/ y = "imports") /\ step' \in 1 .. Len(Report[tool]) + 1
  BY <1>1, <1>2, DoneFacts DEF ReportIInv
<1>5. After("modules") /\ After("relocations")
  BY <1>1, <1>2, DoingFacts DEF ReportIInv
<1>6. Course'
  BY <1>1, <1>2, <1>4, <1>5 DEF ReportIInv, Course
<1>7. Cache' = Cache /\ \A k, i : Names(k, i)' = Names(k, i)
  BY <1>2, SameModules
<1>8. Lined'
  <2>1. ASSUME NEW c \in counts'
        PROVE  /\ c.index \in Cache
               /\ c.procs = Cardinality({k \in 1 .. Len(entries) : Names(k, c.index)})
    <3>1. PICK i \in Cache :
             c = [index |-> i, procs |-> Cardinality({k \in 1 .. Len(entries) : Names(k, i)})]
      BY <1>2
    <3>2. c.index = i
      BY <3>1
    <3> QED
      BY <3>1, <3>2
  <2>2. \A i : {k \in 1 .. Len(entries) : Names(k, i)}' = {k \in 1 .. Len(entries) : Names(k, i)}
    BY <1>2, <1>7
  <2>3. \A c \in counts' :
          c.index \in Cache' /\ c.procs = Cardinality({k \in 1 .. Len(entries) : Names(k, c.index)})'
    BY <1>7, <2>1, <2>2
  <2> QED
    BY <1>1, <1>2, <2>3, SameLines DEF ReportIInv, Lined
<1>9. counts' \subseteq [index : Nat, procs : Nat]
  <2>1. ASSUME NEW i \in Cache
        PROVE  i \in Nat /\ Cardinality({k \in 1 .. Len(entries) : Names(k, i)}) \in Nat
    <3>1. Len(entries) \in Nat
      BY <1>1 DEF DumpIInv, DumpTypeOK
    <3>2. IsFiniteSet(1 .. Len(entries))
      BY <3>1, FS_Interval
    <3>3. IsFiniteSet({k \in 1 .. Len(entries) : Names(k, i)})
      BY <3>2, FS_Subset
    <3> QED
      BY <2>1, <3>3, FS_CardinalityType DEF Cache
  <2>2. ASSUME NEW c \in counts' PROVE c \in [index : Nat, procs : Nat]
    <3>1. PICK i \in Cache :
             c = [index |-> i, procs |-> Cardinality({k \in 1 .. Len(entries) : Names(k, i)})]
      BY <1>2
    <3>2. i \in Nat /\ Cardinality({k \in 1 .. Len(entries) : Names(k, i)}) \in Nat
      BY <2>1
    <3> QED
      BY <3>1, <3>2
  <2> QED
    BY <2>2
<1>10. ReportTypeOK'
  BY <1>1, <1>2, <1>4, <1>9 DEF ReportIInv, ReportTypeOK
<1> QED
  BY <1>3, <1>6, <1>8, <1>10, Parts DEF ReportIInv
-----------------------------------------------------------------------------
(* The order of the lines: by segments or by the table, it is the same.    *)

LEMMA ListingOrder ==
  ASSUME DumpIInv, Filling, phase = "print"
  PROVE  /\ \A k \in 1 .. Len(entries) : Listed(k)
         /\ \A j, k \in 1 .. Len(entries) : Before(j, k) <=> j < k
<1>1. ASSUME NEW k \in 1 .. Len(entries)
      PROVE  entries[k].segment \in Int /\ Listed(k)
  <2>1. entries[k] \in Entry /\ HasBlock(entries[k].segment)
    BY DEF DumpIInv, DumpTypeOK, FromBlocks
  <2> QED
    BY <2>1 DEF Entry, Listed, HasBlock
<1>2. ASSUME NEW j \in 1 .. Len(entries), NEW k \in 1 .. Len(entries)
      PROVE  Before(j, k) <=> j < k
  <2>1. entries[j].segment \in Int /\ entries[k].segment \in Int
    BY <1>1
  <2>2. /\ j < k => entries[j].segment <= entries[k].segment
        /\ k < j => entries[k].segment <= entries[j].segment
    BY <2>1 DEF Filling, InOrder
  <2>3. j < k \/ j = k \/ k < j
    OBVIOUS
  <2> QED
    BY <2>1, <2>2, <2>3 DEF Before
<1> QED
  BY <1>1, <1>2

LEMMA PendingFacts ==
  ASSUME DumpIInv, Filling, Lined, lines \in Seq(LineOK), phase = "print"
  PROVE  Pending = {k \in 1 .. Len(entries) : Len(lines) < k}
<1>1. Len(lines) \in Nat /\ Len(entries) \in Nat /\ Len(lines) <= Len(entries)
  BY DEF DumpIInv, DumpTypeOK, Lined
<1>2. CASE lines = <<>>
  <2>1. \A k \in 1 .. Len(entries) : Len(lines) < k
    BY <1>1, <1>2
  <2> QED
    BY <1>2, <2>1, ListingOrder DEF Pending
<1>3. CASE lines # <<>>
  <2>1. Len(lines) \in 1 .. Len(lines) /\ Len(lines) \in 1 .. Len(entries)
    BY <1>1, <1>3
  <2>2. lines[Len(lines)].entry = Len(lines)
    <3>1. \A k : ReferencedLine(k).entry = k
      BY DEF ReferencedLine
    <3>2. lines[Len(lines)] = ReferencedLine(Len(lines))
      BY <2>1 DEF Lined
    <3> QED
      BY <3>1, <3>2
  <2> QED
    BY <1>3, <2>1, <2>2, ListingOrder DEF Pending
<1> QED
  BY <1>2, <1>3

LEMMA NextIsNext ==
  ASSUME DumpIInv, Filling, Lined, lines \in Seq(LineOK), phase = "print",
         NEW k \in 1 .. Len(entries), NextLine(k)
  PROVE  k = Len(lines) + 1
<1>1. Len(lines) \in Nat /\ Len(lines) < k
  BY PendingFacts DEF NextLine
<1>2. ASSUME k # Len(lines) + 1 PROVE FALSE
  <2> DEFINE j == Len(lines) + 1
  <2>1. j \in 1 .. Len(entries) /\ Len(lines) < j /\ j < k
    BY <1>1, <1>2
  <2>2. j \in Pending \ {k}
    BY <2>1, PendingFacts
  <2>3. k < j
    BY <2>1, <2>2, ListingOrder DEF NextLine
  <2> QED
    BY <2>1, <2>3
<1> QED
  BY <1>2

LEMMA PrintLineIInv ==
  ASSUME IInv, PrintLine
  PROVE  IInv'
<1>1. DumpIInv /\ Filling /\ TablesIInv /\ ReportIInv
  BY Parts
<1>2. PICK k \in 1 .. Len(entries) : NextLine(k) /\ lines' = Append(lines, Line(k))
  BY DEF PrintLine
<1>3. /\ Doing("lines")
      /\ PrintEntry \/ UNCHANGED dumpVars
      /\ UNCHANGED tableVars /\ UNCHANGED <<table, at, content, verdict, tool, step, counts>>
      /\ UNCHANGED <<file, phase, seg, pos, left, entries>>
  BY DEF PrintLine, PrintEntry, dumpVars, tableVars
<1>4. After("modules") /\ After("relocations") /\ ~After("lines")
  BY <1>1, <1>3, DoingFacts DEF ReportIInv
<1>5. phase = "print"
  <2>1. phase \in {"print", "no_table"}
    BY <1>1, <1>3, <1>4 DEF ReportIInv, Course, Doing, Phases
  <2>2. phase = "no_table" => entries = <<>>
    BY <1>1 DEF Filling
  <2> QED
    BY <1>2, <2>1, <2>2
<1>6. DumpIInv' /\ Filling'
  BY <1>1, <1>3, PrintEntryIInv, DumpStays, StutterFilling
<1>7. TablesIInv'
  BY <1>1, <1>3, TablesStay
<1>8. lines \in Seq(LineOK) /\ k = Len(lines) + 1
  BY <1>1, <1>2, <1>5, NextIsNext DEF ReportIInv, ReportTypeOK
<1>9. Line(k) = ReferencedLine(k) /\ Line(k) \in LineOK
  BY <1>1, <1>4, LineReferenced DEF DumpIInv, ReportIInv, Course
<1>10. /\ lines' \in Seq(LineOK) /\ Len(lines') = k /\ lines'[k] = Line(k)
       /\ \A j \in 1 .. Len(lines) : lines'[j] = lines[j]
  BY <1>2, <1>8, <1>9
<1>11. ReportTypeOK'
  BY <1>1, <1>3, <1>10 DEF ReportIInv, ReportTypeOK
<1>12. \A name : After(name)' = After(name)
  BY <1>3, SameAfter
<1>13. Course'
  BY <1>1, <1>3, <1>4, <1>5, <1>12 DEF ReportIInv, Course
<1>14. Lined'
  <2>1. Len(lines') <= Len(entries)
    BY <1>10
  <2>2. \A j \in 1 .. Len(lines') : j \in 1 .. Len(lines) \/ j = k
    BY <1>8, <1>10
  <2>3. \A j \in 1 .. Len(lines') : lines'[j] = ReferencedLine(j)
    BY <1>1, <1>9, <1>10, <2>2 DEF ReportIInv, Lined
  <2>4. Cache' = Cache /\ \A j, i : Names(j, i)' = Names(j, i)
    BY <1>3, SameModules
  <2>5. \A c \in counts :
          {j \in 1 .. Len(entries) : Names(j, c.index)}' = {j \in 1 .. Len(entries) : Names(j, c.index)}
    BY <1>3, <2>4
  <2> QED
    BY <1>1, <1>3, <2>1, <2>3, <2>4, <2>5, SameLines DEF ReportIInv, Lined
<1> QED
  BY <1>6, <1>7, <1>11, <1>13, <1>14, Parts DEF ReportIInv

LEMMA EndLinesIInv ==
  ASSUME IInv, EndLines
  PROVE  IInv'
<1>1. DumpIInv /\ Filling /\ TablesIInv /\ ReportIInv
  BY Parts
<1>2. /\ Done("lines") /\ Doing("lines") /\ Pending = {} /\ UNCHANGED dumpVars /\ UNCHANGED tableVars
      /\ UNCHANGED <<file, phase, seg, entries, content, verdict, tool, lines, counts>>
  BY DEF EndLines, Done, dumpVars, tableVars
<1>3. DumpIInv' /\ Filling' /\ TablesIInv'
  BY <1>1, <1>2, DumpStays, TablesStay
<1>4. (\A y : After(y)' <=> After(y) \/ y = "lines") /\ step' \in 1 .. Len(Report[tool]) + 1
  BY <1>1, <1>2, DoneFacts DEF ReportIInv
<1>5. After("modules") /\ After("relocations")
  BY <1>1, <1>2, DoingFacts DEF ReportIInv
<1>6. phase = "print" => Len(lines) = Len(entries)
  <2> SUFFICES ASSUME phase = "print" PROVE Len(lines) = Len(entries)
    OBVIOUS
  <2>1. lines \in Seq(LineOK) /\ Len(lines) <= Len(entries) /\ Lined
    BY <1>1 DEF ReportIInv, ReportTypeOK, Lined
  <2>2. Len(lines) \in Nat /\ Len(entries) \in Nat
    BY <1>1, <2>1 DEF DumpIInv, DumpTypeOK
  <2>3. Len(lines) # Len(entries) => Len(entries) \in {k \in 1 .. Len(entries) : Len(lines) < k}
    BY <2>1, <2>2
  <2> QED
    BY <1>1, <1>2, <2>1, <2>3, PendingFacts
<1>7. phase # "ok"
  BY <1>2 DEF Doing, Phases
<1>8. Course'
  BY <1>1, <1>2, <1>4, <1>5, <1>6, <1>7 DEF ReportIInv, Course
<1>9. Lined' /\ ReportTypeOK'
  BY <1>1, <1>2, <1>4, SameListing DEF ReportIInv, ReportTypeOK
<1> QED
  BY <1>3, <1>8, <1>9, Parts DEF ReportIInv

LEMMA FinishIInv ==
  ASSUME IInv, Finish
  PROVE  IInv'
<1>1. ReportIInv
  BY Parts
<1>2. /\ step \notin DOMAIN Report[tool] /\ UNCHANGED <<tableVars, reportVars>>
      /\ End(IF phase = "print" THEN "ok" ELSE "reported")
  BY DEF Finish
<1>3. phase = "print" => After("relocations") /\ After("lines")
  BY <1>1, <1>2, DoingFacts DEF ReportIInv, Course
<1>4. CASE phase = "print"
  BY <1>2, <1>3, <1>4, EndStep DEF Outcomes
<1>5. CASE phase # "print"
  BY <1>2, <1>5, EndStep DEF Outcomes
<1> QED
  BY <1>4, <1>5

LEMMA InitIInv ==
  ASSUME Init
  PROVE  IInv
<1>1. /\ phase = "header" /\ seg = 0 /\ pos = 0 /\ left = 0 /\ entries = <<>> /\ chains = <<>>
      /\ table = "none" /\ at = 0 /\ content = [t \in Tables |-> <<>>]
      /\ verdict = [t \in Tables |-> "unread"] /\ step = 1 /\ lines = <<>> /\ counts = {}
      /\ tool \in Tools /\ file \in Files
  BY JobsAssumption DEF Init, TablesInit
<1>2. FileOK(file)
  BY <1>1, FilesAssumption
<1>3. SegCount \in Nat /\ file.len \in Nat
  BY <1>2, FileFacts
<1>4. DumpTypeOK
  BY <1>1, <1>2, <1>3 DEF DumpTypeOK, Phases
<1>5. FromBlocks /\ OwnBytes /\ Filling
  BY <1>1 DEF FromBlocks, OwnBytes, Filling
<1>6. TablesTypeOK
  BY <1>1 DEF TablesTypeOK
<1>7. Walking
  BY <1>1, EmptyTiled DEF Walking, Tables
<1>8. ModulesWalk
  <2>1. content["modules"] = <<>> /\ verdict["modules"] = "unread"
    BY <1>1 DEF Tables
  <2>2. file.header.module_count \in Nat
    BY <1>2, HeaderFacts
  <2> QED
    BY <1>1, <2>1, <2>2 DEF ModulesWalk
<1>9. Course
  <2>1. \A name : ~After(name)
    BY <1>1 DEF After
  <2> QED
    BY <1>1, <2>1 DEF Course
<1>10. Lined
  BY <1>1 DEF Lined
<1>11. ReportTypeOK
  <2>1. Len(Report[tool]) \in Nat
    BY <1>1 DEF Report, Tools
  <2> QED
    BY <1>1, <2>1 DEF ReportTypeOK
<1> QED
  BY <1>4, <1>5, <1>6, <1>7, <1>8, <1>9, <1>10, <1>11, Parts
     DEF DumpIInv, TablesIInv, ReportIInv

LEMMA StepIInv ==
  ASSUME IInv, [Next]_vars
  PROVE  IInv'
<1>1. CASE RefuseHeader
  BY <1>1, EndStep DEF RefuseHeader, Outcomes
<1>2. CASE ShiftPanics
  BY <1>2, EndStep DEF ShiftPanics, Outcomes
<1>3. CASE AcceptHeader
  BY <1>3, AcceptHeaderIInv
<1>4. CASE \E t \in Tables : BeginTable(t)
  <2>1. /\ UNCHANGED <<dumpVars, reportVars>>
        /\ \E t \in Tables : SkipTable(t) \/ RefuseTable(t) \/ OpenTable(t)
    BY <1>4 DEF BeginTable
  <2> QED
    BY <2>1, TableStepIInv
<1>5. CASE \E t \in Tables : EndTable(t)
  BY <1>5, EndTableIInv
<1>6. CASE WalkTable
  BY <1>6, TableStepIInv DEF WalkTable
<1>7. CASE WalkPanics
  BY <1>7, EndStep DEF WalkPanics, Outcomes
<1>8. CASE ParseRelocations
  BY <1>8, ParseRelocationsIInv
<1>9. CASE BlockPanics \/ EndRelocations
  <2>1. CASE BlockPanics
    BY <2>1, EndStep DEF BlockPanics, Outcomes
  <2> QED
    BY <1>9, <2>1, EndRelocationsIInv
<1>10. CASE CountImports
  BY <1>10, CountImportsIInv
<1>11. CASE PrintLine
  BY <1>11, PrintLineIInv
<1>12. CASE PanicIndex
  BY <1>12, EndStep DEF PanicIndex, Outcomes
<1>13. CASE EndLines
  BY <1>13, EndLinesIInv
<1>14. CASE Finish
  BY <1>14, FinishIInv
<1>15. CASE UNCHANGED vars
  <2>1. UNCHANGED dumpVars /\ UNCHANGED tableVars /\ UNCHANGED reportVars
    BY <1>15 DEF vars
  <2>2. /\ UNCHANGED <<file, phase, seg, entries, content, verdict>>
        /\ UNCHANGED <<tool, step, lines, counts>>
    BY <2>1 DEF dumpVars, tableVars, reportVars
  <2>3. DumpIInv /\ Filling /\ TablesIInv /\ ReportIInv
    BY Parts
  <2>4. DumpIInv' /\ Filling' /\ TablesIInv'
    BY <2>1, <2>2, <2>3, DumpStays, TablesStay
  <2>5. \A name : After(name)' = After(name)
    BY <2>2, SameAfter
  <2>6. Course' /\ ReportTypeOK'
    BY <2>2, <2>3, <2>5 DEF ReportIInv, Course, ReportTypeOK
  <2>7. Lined'
    BY <2>2, <2>3, SameListing DEF ReportIInv
  <2> QED
    BY <2>4, <2>6, <2>7, Parts DEF ReportIInv
<1> QED
  BY <1>1, <1>2, <1>3, <1>4, <1>5, <1>6, <1>7, <1>8, <1>9, <1>10, <1>11, <1>12, <1>13, <1>14,
     <1>15 DEF Next

(* The whole report of any file: the inductive invariant of the programs.  *)
THEOREM IInvInvariant == Spec => []IInv
<1>1. Init => IInv
  BY InitIInv
<1>2. IInv /\ [Next]_vars => IInv'
  BY StepIInv
<1> QED
  BY <1>1, <1>2, PTL DEF Spec

(* The state is typed: segments done, cursor and entries stay in the file. *)
THEOREM NeInspectTypeOK == Spec => []TypeOK
<1>1. IInv => TypeOK
  BY DEF IInv
<1> QED
  BY <1>1, IInvInvariant, PTL

(* print_entry walks a chain in the bytes of the entry's own segment.      *)
THEOREM ChainsInOwnBytes == Spec => []OwnBytes
<1>1. IInv => OwnBytes
  BY DEF IInv
<1> QED
  BY <1>1, IInvInvariant, PTL

(* RelocationTable::parse returns every entry the blocks announce, in the  *)
(* order of the segments.                                                  *)
THEOREM RelocationsComplete == Spec => []TableComplete
<1>1. IInv => TableComplete
  BY Parts, FillingComplete
<1> QED
  BY <1>1, IInvInvariant, PTL

(* A table in a report is whole or absent, and empty after an error.       *)
THEOREM TablesWhole == Spec => []WholeTables
<1>1. IInv => WholeTables
  BY Parts, WalkedWhole
<1> QED
  BY <1>1, IInvInvariant, PTL

(* Every program names an import by the file's own module reference, in    *)
(* the order of the table.                                                 *)
THEOREM LinesNamedByReference == Spec => []NamedByReference
<1>1. IInv => NamedByReference
  BY DEF IInv, Course, Lined, NamedByReference
<1> QED
  BY <1>1, IInvInvariant, PTL

LEMMA CountedLines ==
  ASSUME IInv
  PROVE  ImportsCounted
<1> SUFFICES ASSUME phase = "ok", NEW c \in counts
             PROVE  c.procs = Cardinality({k \in 1 .. Len(lines) :
                       /\ lines[k].module # Unnamed
                       /\ Text(lines[k].module) = Text(ModuleString(c.index))})
  BY DEF ImportsCounted
<1>1. DumpIInv /\ Filling /\ TablesIInv /\ ReportIInv /\ FileOK(file)
  BY Parts DEF DumpIInv, DumpTypeOK
<1>2. Len(lines) = Len(entries) /\ verdict["modules"] # "unread"
  BY <1>1 DEF ReportIInv, Course
<1>3. c.procs = Cardinality({k \in 1 .. Len(entries) : Names(k, c.index)})
  BY <1>1 DEF ReportIInv, Lined
<1>4. ASSUME NEW k \in 1 .. Len(lines)
      PROVE  Names(k, c.index) <=>
               /\ lines[k].module # Unnamed
               /\ Text(lines[k].module) = Text(ModuleString(c.index))
  <2>1. lines[k] = ReferencedLine(k)
    BY <1>1 DEF ReportIInv, Lined
  <2>2. lines[k].module = IF Imports(k) THEN ReferencedModule(Target1(k)) ELSE Unnamed
    BY <2>1 DEF ReferencedLine
  <2>3. Target1(k) \in Nat
    <3>1. entries[k] \in Entry
      BY <1>1, <1>2 DEF DumpIInv, DumpTypeOK
    <3>2. entries[k].at + 4 \in Int
      BY <3>1 DEF Entry
    <3> QED
      BY <1>1, <3>2, ByteFacts DEF Target1
  <2>4. ReferencedModule(Target1(k)) =
          IF Target1(k) - 1 \in Cache THEN ModuleString(Target1(k) - 1) ELSE Unnamed
    BY <1>1, <1>2, <2>3, ModuleReferenced DEF InspectModule
  <2>5. Target1(k) - 1 \in Cache => ModuleString(Target1(k) - 1) # Unnamed
    BY DEF Cache
  <2> QED
    BY <2>2, <2>4, <2>5 DEF Names
<1>5. {k \in 1 .. Len(entries) : Names(k, c.index)}
        = {k \in 1 .. Len(lines) : /\ lines[k].module # Unnamed
                                   /\ Text(lines[k].module) = Text(ModuleString(c.index))}
  BY <1>2, <1>4
<1> QED
  BY <1>3, <1>5

(* IMPORTS and RELOCATIONS of a detailed report count the same procedures. *)
THEOREM ImportsCountedAlike == Spec => []ImportsCounted
<1>1. IInv => ImportsCounted
  BY CountedLines
<1> QED
  BY <1>1, IInvInvariant, PTL
=============================================================================
