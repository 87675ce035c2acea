--------------------------- MODULE LeDisasm_proofs ---------------------------
(***************************************************************************)
(* The safety properties of a le-disasm run, for every file, module,       *)
(* command line and decoder.  Each stage of the run keeps its part of the  *)
(* inductive invariant IInv: the search and the entry table, the fixup     *)
(* maps, the choice of targets, the sweeps and the printing; the           *)
(* properties follow from it.                                              *)
(***************************************************************************)
EXTENDS LeDisasm, SequenceFacts

Note == Nat \X Nat

-----------------------------------------------------------------------------
(* The notes of a range are those of its parts, one behind the other.      *)

Cells(o, n) ==
  [i \in 1 .. n |-> IF o + i - 1 \in DOMAIN notes THEN notes[o + i - 1] ELSE <<>>]

LEMMA CellsType ==
  ASSUME NoteMap(notes), NEW o \in Nat, NEW n \in Nat
  PROVE  /\ Cells(o, n) \in Seq(Seq(Note)) /\ Len(Cells(o, n)) = n
         /\ NotesIn(o, n) = FlattenSeq(Cells(o, n)) /\ NotesIn(o, n) \in Seq(Note)
<1>1. \A a \in DOMAIN notes : notes[a] \in Seq(Note)
  BY DEF NoteMap, Note
<1>2. <<>> \in Seq(Note)
  BY EmptySeq
<1>3. Cells(o, n) \in [1 .. n -> Seq(Note)]
  BY <1>1, <1>2 DEF Cells
<1>4. Cells(o, n) \in Seq(Seq(Note))
  BY <1>3, SeqDef
<1>5. Len(Cells(o, n)) = n
  BY DEF Cells
<1>6. NotesIn(o, n) = FlattenSeq(Cells(o, n))
  BY DEF NotesIn, Cells
<1> QED
  BY <1>4, <1>5, <1>6, FlattenType

LEMMA NotesSplit ==
  ASSUME NoteMap(notes), NEW o \in Nat, NEW n \in Nat, NEW m \in Nat
  PROVE  NotesIn(o, n + m) = NotesIn(o, n) \o NotesIn(o + n, m)
<1> DEFINE s == Cells(o, n)
           t == Cells(o + n, m)
           u == Cells(o, n + m)
<1>1. /\ s \in Seq(Seq(Note)) /\ Len(s) = n /\ NotesIn(o, n) = FlattenSeq(s)
      /\ t \in Seq(Seq(Note)) /\ Len(t) = m /\ NotesIn(o + n, m) = FlattenSeq(t)
      /\ u \in Seq(Seq(Note)) /\ Len(u) = n + m /\ NotesIn(o, n + m) = FlattenSeq(u)
  <2>1. o + n \in Nat /\ n + m \in Nat
    OBVIOUS
  <2> QED
    BY <2>1, CellsType
<1>2. \A i \in 1 .. n : u[i] = s[i]
  BY DEF Cells
<1>3. ASSUME NEW i \in 1 .. n + m, ~(i <= n)
      PROVE  u[i] = t[i - n]
  <2>1. i - n \in 1 .. m /\ o + n + (i - n) - 1 = o + i - 1
    BY <1>3
  <2> QED
    BY <2>1 DEF Cells
<1> HIDE DEF s, t, u
<1>4. u = s \o t
  <2>1. /\ s \o t \in Seq(Seq(Note)) /\ Len(s \o t) = n + m
        /\ \A i \in 1 .. n + m : (s \o t)[i] = IF i <= n THEN s[i] ELSE t[i - n]
    BY <1>1, ConcatProperties
  <2>2. \A i \in 1 .. n + m : u[i] = (s \o t)[i]
    BY <1>2, <1>3, <2>1
  <2> QED
    BY <1>1, <2>1, <2>2, SeqEqual
<1> QED
  BY <1>1, <1>4, FlattenConcat

-----------------------------------------------------------------------------
(* The sweep *)

(* A sweep that begins has listed nothing and swept nothing. *)
LEMMA StartSweepInv ==
  ASSUME NEW first \in Nat, NEW len \in Nat, NEW map, StartSweep(first, len, map)
  PROVE  SweepInv'
<1>1. /\ start' = first /\ length' = len /\ off' = 0 /\ lines' = <<>>
  BY DEF StartSweep
<1>2. DOMAIN lines' = 1 .. 0 /\ Len(lines') = 0
  BY <1>1
<1>3. SweepTyped'
  BY <1>1 DEF SweepTyped
<1>4. EachByteOnOneLine'
  BY <1>1, <1>2 DEF EachByteOnOneLine
<1>5. (LineNotes = NotesIn(start, off))'
  <2>1. \A f : [i \in 1 .. 0 |-> f[i]] = <<>>
    OBVIOUS
  <2>2. LineNotes' = FlattenSeq(<<>>)
    BY <1>2 DEF LineNotes
  <2>3. NotesIn(start, off)' = FlattenSeq(<<>>)
    BY <1>1 DEF NotesIn
  <2> QED
    BY <2>2, <2>3
<1> QED
  BY <1>2, <1>3, <1>4, <1>5 DEF SweepInv

(* One more line, of the next len bytes. *)
LEMMA LineAdded ==
  ASSUME SweepInv, NoteMap(notes), NEW len \in 1 .. MaxInstruction, NEW data,
         len <= length - off, off' = off + len,
         lines' = Append(lines, Line(len, data)),
         UNCHANGED <<start, length, notes>>
  PROVE  SweepInv'
<1> DEFINE new == Line(len, data)
<1>0. MaxInstruction \in Nat
  BY MaxInstructionAssumption
<1>1. start \in Nat /\ length \in Nat /\ off \in 0 .. length
  BY DEF SweepInv, SweepTyped
<1>2. /\ lines \in Seq(ToSet(lines)) /\ EachByteOnOneLine
      /\ \A i \in 1 .. Len(lines) : LineOK(lines[i])
  BY DEF SweepInv
<1>3. PICK n \in Nat : n = Len(lines)
  BY <1>2
<1>4. /\ new.offset = start + off /\ new.len = len
      /\ new.notes = NotesIn(start + off, len) /\ new.notes \in Seq(Note)
  <2>1. start + off \in Nat /\ len \in Nat
    BY <1>0, <1>1
  <2> QED
    BY <2>1, CellsType DEF Line
<1> HIDE DEF new
<1>5. /\ Len(lines') = n + 1
      /\ \A i \in 1 .. n : lines'[i] = lines[i]
      /\ lines'[n + 1] = new
      /\ DOMAIN lines' = 1 .. n + 1
      /\ lines' \in [1 .. n + 1 -> ToSet(lines) \cup {new}]
  <2>1. /\ lines' = Append(lines, new) /\ lines \in Seq(ToSet(lines) \cup {new})
        /\ new \in ToSet(lines) \cup {new}
    BY <1>2, SeqMonotonic DEF new
  <2>2. lines' \in Seq(ToSet(lines) \cup {new}) /\ Len(lines') = n + 1
    BY <2>1, <1>3, AppendProperties
  <2>3. /\ \A i \in 1 .. n : lines'[i] = lines[i]
        /\ lines'[n + 1] = new
    BY <2>1, <1>3, AppendProperties
  <2>4. lines' \in [1 .. Len(lines') -> ToSet(lines) \cup {new}]
    BY <2>2, LenProperties
  <2> QED
    BY <2>2, <2>3, <2>4
<1>6. lines' \in Seq(ToSet(lines'))
  <2>1. lines' \in [1 .. n + 1 -> ToSet(lines')]
    BY <1>5 DEF ToSet
  <2>2. Seq(ToSet(lines')) = UNION {[1 .. m -> ToSet(lines')] : m \in Nat}
    BY SeqDef
  <2>3. n + 1 \in Nat
    BY <1>3
  <2> QED
    BY <2>1, <2>2, <2>3, Zenon
<1>7. SweepTyped'
  BY <1>0, <1>1 DEF SweepTyped
<1>8. \A i \in 1 .. Len(lines') : LineOK(lines[i])'
  <2> SUFFICES ASSUME NEW i \in 1 .. n + 1
               PROVE  LineOK(lines[i])'
    BY <1>5
  <2>1. CASE i \in 1 .. n
    <3>1. LineOK(lines[i]) /\ lines'[i] = lines[i]
      BY <2>1, <1>2, <1>3, <1>5
    <3>2. start' = start /\ start + off <= start' + off'
      BY <1>0, <1>1
    <3>3. start + off \in Nat /\ start' + off' \in Nat
      BY <1>0, <1>1
    <3> HIDE DEF Line
    <3> QED
      BY <3>1, <3>2, <3>3, <1>0 DEF LineOK
  <2>2. CASE i = n + 1
    <3>1. lines'[i] = new /\ start' = start /\ off' = off + len
      BY <2>2, <1>5
    <3> QED
      BY <3>1, <1>0, <1>1, <1>4, SMTT(30) DEF LineOK, Note
  <2> QED
    BY <2>1, <2>2, <1>3
<1>9. EachByteOnOneLine'
  <2>1. ASSUME NEW a \in start .. start + off - 1
        PROVE  \E i \in 1 .. n + 1 :
                 /\ Lists(i, a)'
                 /\ \A j \in 1 .. n + 1 : Lists(j, a)' => j = i
    <3>1. PICK i \in 1 .. n :
            Lists(i, a) /\ \A j \in 1 .. n : Lists(j, a) => j = i
      BY <1>2, <1>3 DEF EachByteOnOneLine
    <3>2. ~Lists(n + 1, a)'
      BY <1>1, <1>4, <1>5 DEF Lists
    <3>3. \A j \in 1 .. n : Lists(j, a)' <=> Lists(j, a)
      BY <1>5 DEF Lists
    <3> QED
      BY <3>1, <3>2, <3>3, SMTT(30)
  <2>2. ASSUME NEW a \in start + off .. start + off + len - 1
        PROVE  \E i \in 1 .. n + 1 :
                 /\ Lists(i, a)'
                 /\ \A j \in 1 .. n + 1 : Lists(j, a)' => j = i
    <3>1. Lists(n + 1, a)'
      BY <1>0, <1>1, <1>4, <1>5 DEF Lists
    <3>2. ASSUME NEW j \in 1 .. n
          PROVE  ~Lists(j, a)'
      <4>1. LineOK(lines[j]) /\ lines'[j] = lines[j]
        BY <1>2, <1>5
      <4> QED
        BY <4>1, <1>0, <1>1 DEF LineOK, Lists
    <3> QED
      BY <3>1, <3>2, <1>3
  <2>3. \A i \in 1 .. Len(lines') :
          /\ start' <= lines'[i].offset
          /\ lines'[i].offset + lines'[i].len <= start' + length'
    <3> SUFFICES ASSUME NEW i \in 1 .. Len(lines')
                 PROVE  /\ start' <= lines'[i].offset
                        /\ lines'[i].offset + lines'[i].len <= start' + length'
      OBVIOUS
    <3>1. LineOK(lines[i])'
      BY <1>8
    <3>2. /\ lines'[i].offset \in Nat /\ lines'[i].len \in Nat
          /\ start' <= lines'[i].offset
          /\ lines'[i].offset + lines'[i].len <= start' + off'
      BY <3>1, <1>0 DEF LineOK
    <3>3. start' \in Nat /\ length' \in Nat /\ off' \in 0 .. length'
      BY <1>7 DEF SweepTyped
    <3> QED
      BY <3>2, <3>3
  <2>4. start' .. start' + off' - 1 =
          (start .. start + off - 1) \cup (start + off .. start + off + len - 1)
    BY <1>0, <1>1
  <2> QED
    BY <2>1, <2>2, <2>3, <2>4, <1>5 DEF EachByteOnOneLine
<1>10. (LineNotes = NotesIn(start, off))'
  <2> DEFINE s == [i \in 1 .. n |-> lines[i].notes]
             t == [i \in 1 .. n + 1 |-> lines'[i].notes]
             x == new.notes
  <2>1. s \in Seq(Seq(Note)) /\ LineNotes = FlattenSeq(s) /\ LineNotes' = FlattenSeq(t)
    <3>1. s \in [1 .. n -> Seq(Note)]
      BY <1>2, <1>3 DEF LineOK, Note
    <3>2. n \in Nat
      BY <1>3
    <3> QED
      BY <1>3, <1>5, <3>1, <3>2, SeqDef DEF LineNotes
  <2>2. t = Append(s, x)
    <3>1. x \in Seq(Note) /\ Len(s) = n
      BY <1>4
    <3>2. t \in [1 .. n + 1 -> Seq(Note)]
      <4>1. \A i \in 1 .. n + 1 : lines'[i].notes \in Seq(Note)
        BY <1>5, <1>8 DEF LineOK, Note
      <4> QED
        BY <4>1
    <3>3. t \in Seq(Seq(Note)) /\ Len(t) = n + 1
      BY <1>3, <3>2, SeqDef
    <3>4. /\ Append(s, x) \in Seq(Seq(Note)) /\ Len(Append(s, x)) = n + 1
          /\ \A i \in 1 .. n : Append(s, x)[i] = s[i]
          /\ Append(s, x)[n + 1] = x
      <4> HIDE DEF s, x
      <4> QED
        BY <2>1, <3>1, AppendProperties
    <3>5. t[n + 1] = x /\ \A i \in 1 .. n : t[i] = s[i]
      BY <1>3, <1>5
    <3> DEFINE a == Append(s, x)
    <3> HIDE DEF s, t, x
    <3>6. \A i \in 1 .. n + 1 : t[i] = a[i]
      <4>1. /\ \A i \in 1 .. n : a[i] = s[i]
            /\ a[n + 1] = x
        BY <3>4
      <4> HIDE DEF a
      <4> QED
        BY <1>3, <3>5, <4>1
    <3> QED
      BY <3>3, <3>4, <3>6, SeqEqual
  <2>3. x \in Seq(Note) /\ x = NotesIn(start + off, len)
    BY <1>4
  <2> HIDE DEF s, t, x
  <2>4. LineNotes' = LineNotes \o x
    BY <2>1, <2>2, <2>3, FlattenAppend
  <2>5. LineNotes = NotesIn(start, off)
    BY DEF SweepInv
  <2>6. NotesIn(start, off + len) = NotesIn(start, off) \o NotesIn(start + off, len)
    <3>1. start \in Nat /\ off \in Nat /\ len \in Nat
      BY <1>0, <1>1
    <3> QED
      BY <3>1, NotesSplit
  <2>7. NotesIn(start, off)' = NotesIn(start, off + len)
    BY DEF NotesIn
  <2> QED
    BY <2>3, <2>4, <2>5, <2>6, <2>7
<1> QED
  BY <1>6, <1>7, <1>8, <1>9, <1>10 DEF SweepInv

LEMMA SweepStep ==
  ASSUME SweepInv, NoteMap(notes), SweepNext
  PROVE  SweepInv'
<1>1. MaxInstruction \in Nat \ {0} /\ length \in Nat /\ off \in 0 .. length
  BY MaxInstructionAssumption DEF SweepInv, SweepTyped
<1>2. CASE DataByte
  <2>1. 1 \in 1 .. MaxInstruction /\ 1 <= length - off
    BY <1>1, <1>2 DEF DataByte, Swept
  <2>2. /\ off' = off + 1 /\ lines' = Append(lines, Line(1, TRUE))
        /\ UNCHANGED <<start, length, notes>>
    BY <1>2 DEF DataByte
  <2> QED
    BY <2>1, <2>2, LineAdded
<1>3. ASSUME NEW len \in 1 .. MaxInstruction, Instruction(len)
      PROVE  SweepInv'
  BY <1>3, LineAdded DEF Instruction
<1> QED
  BY <1>2, <1>3 DEF SweepNext

LEMMA SweepStutter ==
  ASSUME SweepInv, UNCHANGED sweepVars
  PROVE  SweepInv'
BY DEF SweepInv, sweepVars, SweepTyped, EachByteOnOneLine, Lists, LineOK, LineNotes, NotesIn

-----------------------------------------------------------------------------
(* Files and their bytes *)

LEMMA ByteType ==
  ASSUME FileOK(file), NEW p
  PROVE  FileByte(p) \in 0 .. 255
BY DEF FileOK, FileByte

LEMMA WordType ==
  ASSUME FileOK(file), NEW p
  PROVE  Word(p) \in Nat /\ Dword(p) \in Nat
<1>1. FileByte(p) \in Nat /\ FileByte(p + 1) \in Nat
      /\ FileByte(p + 2) \in Nat /\ FileByte(p + 2 + 1) \in Nat
  BY ByteType
<1> QED
  BY <1>1 DEF Word, Dword

(* An image starts with the byte "L". *)
LEMMA ImageByte ==
  ASSUME FileOK(file), NEW p \in Nat, IsImageAt(p)
  PROVE  FileByte(p) = 76 /\ p + 176 <= file.len /\ Word(p) # DOS_SIGNATURE
<1>1. FileByte(p) \in 0 .. 255 /\ FileByte(p + 1) \in 0 .. 255
  BY ByteType
<1>2. Word(p) = 17740 \/ Word(p) = 22604
  BY DEF IsImageAt, LE_SIGNATURE, LX_SIGNATURE
<1>3. Word(p) = FileByte(p) + 256 * FileByte(p + 1)
  BY DEF Word
<1>5. FileByte(p) = 76
  <2> DEFINE a == FileByte(p)
             b == FileByte(p + 1)
  <2>1. a \in 0 .. 255 /\ b \in 0 .. 255
    BY <1>1
  <2>2. a + 256 * b = 17740 \/ a + 256 * b = 22604
    BY <1>2, <1>3
  <2> HIDE DEF a, b
  <2>3. a = 76
    BY <2>1, <2>2
  <2> QED
    BY <2>3 DEF a
<1> QED
  BY <1>2, <1>5 DEF IsImageAt, Holds, LE_HEADER_SIZE, DOS_SIGNATURE

(* bound.rs asks for e_lfanew above 0x3C and header_offset for 0x40 at     *)
(* least: between the two the image would lie on the field itself.         *)
LEMMA FrameAgrees ==
  ASSUME FileOK(file), NEW p \in Nat, NEW image \in Nat,
         Word(p) = DOS_SIGNATURE, p + Dword(p + 60) = image, image > p + 60,
         IsImageAt(image)
  PROVE  HeaderOffset(p) = image - p
<1> DEFINE lfanew == Dword(p + 60)
<1>1. lfanew \in Nat /\ file.len \in Nat /\ lfanew > 60
  BY WordType DEF FileOK
<1>2. FileByte(p + lfanew) = 76 /\ p + lfanew + 176 <= file.len
  BY <1>1, ImageByte
<1>3. lfanew >= 64
  <2> DEFINE a == FileByte(p + 60)
             b == FileByte(p + 61)
             c == FileByte(p + 62)
             d == FileByte(p + 63)
  <2>1. a \in 0 .. 255 /\ b \in 0 .. 255 /\ c \in 0 .. 255 /\ d \in 0 .. 255
    BY ByteType
  <2>2. /\ p + 60 + 1 = p + 61 /\ p + 60 + 2 = p + 62 /\ p + 60 + 2 + 1 = p + 63
    OBVIOUS
  <2>3. lfanew = a + 256 * b + 65536 * (c + 256 * d)
    BY <2>2 DEF Dword, Word
  <2>4. ASSUME lfanew \in 61 .. 63
        PROVE  b = 0 /\ c = 0 /\ d = 0
    <3> HIDE DEF a, b, c, d, lfanew
    <3> QED
      BY <2>1, <2>3, <2>4
  <2>5. lfanew # 61 /\ lfanew # 62 /\ lfanew # 63
    BY <1>2, <2>4
  <2> HIDE DEF lfanew
  <2> QED
    BY <1>1, <2>5
<1>4. Holds(p, 2) /\ Holds(p + DOS_E_LFANEW_OFFSET, 4) /\ p + lfanew < file.len
  BY <1>1, <1>2, <1>3 DEF Holds, DOS_E_LFANEW_OFFSET
<1>5. HeaderOffset(p) = lfanew
  BY <1>3, <1>4 DEF HeaderOffset, DOS_E_LFANEW_OFFSET
<1> QED
  BY <1>1, <1>5

LEMMA LocateFindsImage ==
  ASSUME FileOK(file), Locate
  PROVE  ViewFindsImage'
<1>1. SUFFICES HeaderOffset(location'.frame_at) = location'.header_at - location'.frame_at
  <2>1. file' = file
    BY DEF Locate, LocateTrusted, LocateAtStart, LocateByScan, Found
  <2> QED
    BY <2>1 DEF ViewFindsImage, HeaderOffset, Holds, Word, Dword, FileByte
<1>2. CASE LocateTrusted
  <2>1. /\ location'.frame_at = 0 /\ location'.header_at = Lfanew
        /\ Word(0) = DOS_SIGNATURE /\ Lfanew > 60 /\ IsImageAt(Lfanew)
    BY <1>2 DEF LocateTrusted, TrustedDos, Found, DOS_E_LFANEW_OFFSET
  <2>2. Lfanew \in Nat /\ Lfanew = Dword(0 + 60)
    BY WordType DEF Lfanew, DOS_E_LFANEW_OFFSET
  <2>3. HeaderOffset(0) = Lfanew - 0
    BY <2>1, <2>2, FrameAgrees
  <2> QED
    BY <2>1, <2>3
<1>3. CASE LocateAtStart
  <2>1. location'.frame_at = 0 /\ location'.header_at = 0 /\ Word(0) # DOS_SIGNATURE
    BY <1>3, ImageByte DEF LocateAtStart, Found
  <2> QED
    BY <2>1 DEF HeaderOffset
<1>4. CASE LocateByScan
  <2>1. PICK image \in Images : \E p \in Frames(image) :
          location'.frame_at = p /\ location'.header_at = image
    BY <1>4 DEF LocateByScan, Found
  <2>2. PICK p \in Frames(image) :
          location'.frame_at = p /\ location'.header_at = image
    BY <2>1
  <2>3. image \in Nat /\ IsImageAt(image)
    BY DEF Images, FileOK
  <2>4. /\ p \in Nat /\ image > p + 60
        /\ Word(p) = DOS_SIGNATURE /\ p + Dword(p + 60) = image
    BY <2>3 DEF Frames, DOS_E_LFANEW_OFFSET
  <2> QED
    BY <2>2, <2>3, <2>4, FrameAgrees
<1> QED
  BY <1>2, <1>3, <1>4 DEF Locate

LEMMA LocateInFile ==
  ASSUME FileOK(file), Locate
  PROVE  LocationOK'
<1>1. CASE LocateTrusted
  <2>1. Lfanew \in Nat
    BY WordType DEF Lfanew
  <2> QED
    BY <1>1, <2>1 DEF LocateTrusted, Found, LocationOK
<1>2. CASE LocateAtStart
  BY <1>2 DEF LocateAtStart, Found, LocationOK
<1>3. CASE LocateByScan
  <2>1. PICK image \in Images : \E p \in Frames(image) :
          location'.frame_at = p /\ location'.header_at = image
    BY <1>3 DEF LocateByScan, Found
  <2>2. image \in Nat
    BY DEF Images, FileOK
  <2> QED
    BY <2>1, <2>2 DEF Frames, DOS_E_LFANEW_OFFSET, LocationOK
<1> QED
  BY <1>1, <1>2, <1>3 DEF Locate

-----------------------------------------------------------------------------
(* Bundles, and the entries in front of each *)

Ahead(bs, b) == {e \in (1 .. b - 1) \X (1 .. 255) : e[2] <= bs[e[1]].count}

LEMMA AheadFinite ==
  ASSUME NEW bs, NEW b \in Nat
  PROVE  IsFiniteSet(Ahead(bs, b)) /\ Cardinality(Ahead(bs, b)) \in Nat
<1>1. IsFiniteSet(1 .. b - 1) /\ IsFiniteSet(1 .. 255)
  <2>1. b - 1 \in Int /\ 1 \in Int /\ 255 \in Int
    OBVIOUS
  <2> QED
    BY <2>1, FS_Interval, Zenon
<1>2. IsFiniteSet((1 .. b - 1) \X (1 .. 255))
  BY <1>1, FS_Product
<1>3. Ahead(bs, b) \subseteq (1 .. b - 1) \X (1 .. 255)
  BY DEF Ahead
<1>4. IsFiniteSet(Ahead(bs, b))
  BY <1>2, <1>3, FS_Subset
<1> QED
  BY <1>4, FS_CardinalityType

LEMMA AheadMore ==
  ASSUME NEW bs, NEW b \in Nat \ {0}, NEW n \in 0 .. 255, bs[b].count = n
  PROVE  Cardinality(Ahead(bs, b + 1)) = Cardinality(Ahead(bs, b)) + n
<1> DEFINE new == {b} \X (1 .. n)
<1>1. IsFiniteSet(new) /\ Cardinality(new) = n
  <2>1. n \in Nat
    OBVIOUS
  <2> QED
    BY <2>1, CountingOf
<1>2. Ahead(bs, b + 1) = Ahead(bs, b) \cup new
  <2>1. 1 .. b + 1 - 1 = (1 .. b - 1) \cup {b}
    OBVIOUS
  <2>2. 1 .. n = {j \in 1 .. 255 : j <= n}
    OBVIOUS
  <2> QED
    BY <2>1, <2>2 DEF Ahead
<1>3. Ahead(bs, b) \cap new = {}
  BY DEF Ahead
<1>4. IsFiniteSet(Ahead(bs, b))
  BY AheadFinite
<1> HIDE DEF new
<1> QED
  BY <1>1, <1>2, <1>3, <1>4, DisjointUnion

(* Later bundles have no fewer entries in front of them, and only these    *)
(* bundles matter.                                                         *)
LEMMA AheadGrows ==
  ASSUME NEW bs, NEW b \in Nat, NEW c \in Nat, b <= c
  PROVE  Cardinality(Ahead(bs, b)) <= Cardinality(Ahead(bs, c))
<1>1. Ahead(bs, b) \subseteq Ahead(bs, c)
  BY DEF Ahead
<1>2. IsFiniteSet(Ahead(bs, c))
  BY AheadFinite
<1> QED
  BY <1>1, <1>2, FS_Subset

LEMMA AheadSame ==
  ASSUME NEW bs, NEW cs, NEW b \in Nat, \A c \in 1 .. b - 1 : bs[c] = cs[c]
  PROVE  Ahead(bs, b) = Ahead(cs, b)
BY DEF Ahead

LEMMA BundleType ==
  ASSUME InputOK, next_ordinal \in Nat \ {0}
  PROVE  /\ Bundle \in BundleRecord /\ Bundle.first_ordinal = next_ordinal
         /\ Bundle.count = Count /\ Count \in 0 .. 255 /\ Len(Bundle.entries) <= Count
<1>1. FileOK(file)
  BY DEF InputOK
<1>2. \A p : U16(p) \in Nat /\ U32(p) \in Nat /\ ByteAt(p) \in 0 .. 255
  BY <1>1, WordType, ByteType DEF U16, U32, ByteAt
<1>3. KindHere \in DOMAIN EntrySize
  BY DEF KindHere, Kind, Kinds, EntrySize
<1>4. \A kind, p : Entry(kind, p) \in EntryPoint
  <2> TAKE kind, p
  <2>1. Entry(kind, p).exported \in BOOLEAN
    BY DEF Entry
  <2>2. U16(p + 1) \in Nat /\ U32(p + 1) \in Nat /\ U32(p + 3) \in Nat
    BY <1>2
  <2> QED
    BY <2>1, <2>2, Zenon DEF Entry, EntryPoint
<1>5. Bundle.entries \in Seq(EntryPoint) /\ Len(Bundle.entries) <= Count
  <2> DEFINE n == IF KindHere = "Unused" THEN 0 ELSE Count
  <2>1. n \in Nat /\ n <= Count
    BY <1>2 DEF Count
  <2>2. Bundle.entries \in [1 .. n -> EntryPoint]
    BY <1>4 DEF Bundle
  <2> HIDE DEF n
  <2>3. Bundle.entries \in Seq(EntryPoint)
    BY <2>1, <2>2, SeqDef
  <2>4. Len(Bundle.entries) = n
    BY <2>1, <2>2, <2>3, LenProperties
  <2> QED
    BY <2>1, <2>3, <2>4
<1>6. Bundle.kind = KindHere /\ Bundle.object \in Nat /\ Bundle.count = Count
      /\ Bundle.first_ordinal = next_ordinal
  BY <1>2 DEF Bundle
<1>7. Count \in 0 .. 255
  BY <1>2 DEF Count
<1>8. Bundle = [kind |-> Bundle.kind, object |-> Bundle.object, count |-> Bundle.count,
                first_ordinal |-> Bundle.first_ordinal, entries |-> Bundle.entries]
  BY DEF Bundle
<1> HIDE DEF Bundle
<1>9. Bundle \in BundleRecord
  <2>1. Bundle.count \in Nat
    BY <1>6, <1>7
  <2> QED
    BY <1>3, <1>5, <1>6, <1>8, <2>1 DEF BundleRecord
<1> QED
  BY <1>5, <1>6, <1>7, <1>9

(* A bundle more: it is numbered behind the entries of the others.         *)
LEMMA BundleAdded ==
  ASSUME InputOK, TableOK, ReadBundle, End \in Int
  PROVE  TableOK'
<1> DEFINE n == Len(bundles)
<1>1. /\ bundles \in Seq(BundleRecord) /\ next_ordinal \in Nat \ {0} /\ pos \in Nat
      /\ n \in Nat
  BY DEF TableOK
<1>2. /\ Bundle \in BundleRecord /\ Bundle.first_ordinal = next_ordinal
      /\ Bundle.count = Count /\ Count \in 0 .. 255 /\ Len(Bundle.entries) <= Count
  BY <1>1, BundleType
<1>3. /\ verdict = "walking" /\ verdict' = verdict /\ bundles' = Append(bundles, Bundle)
      /\ next_ordinal' = next_ordinal + Count /\ pos' = pos + Total
  BY DEF ReadBundle, AtBundle
<1>4. pos' \in Nat
  <2>1. Total \in Nat
    <3>1. KindHere \in DOMAIN EntrySize
      BY DEF KindHere, Kind, Kinds, EntrySize
    <3>2. EntrySize[KindHere] \in Nat /\ HeadSize(KindHere) \in Nat
      BY <3>1 DEF EntrySize, HeadSize
    <3>3. \A a, b, c \in Nat : a + b * c \in Nat
      OBVIOUS
    <3>4. Count \in Nat
      BY <1>2
    <3> QED
      BY <3>2, <3>3, <3>4 DEF Total
  <2> QED
    BY <1>1, <1>3, <2>1
<1>5. /\ bundles' \in Seq(BundleRecord) /\ Len(bundles') = n + 1
      /\ \A b \in 1 .. n : bundles'[b] = bundles[b]
      /\ bundles'[n + 1] = Bundle
  BY <1>1, <1>2, <1>3, AppendProperties
<1> DEFINE A(b) == Cardinality(Ahead(bundles, b))
           B(b) == Cardinality(Ahead(bundles', b))
<1>6. \A b \in 1 .. n + 1 : B(b) = A(b)
  <2> SUFFICES ASSUME NEW b \in 1 .. n + 1 PROVE Ahead(bundles', b) = Ahead(bundles, b)
    OBVIOUS
  <2>1. b \in Nat /\ \A c \in 1 .. b - 1 : bundles'[c] = bundles[c]
    BY <1>1, <1>5
  <2> QED
    BY <2>1, AheadSame
<1>7. /\ next_ordinal = 1 + A(n + 1)
      /\ \A b \in 1 .. n :
           /\ bundles[b].first_ordinal = 1 + A(b)
           /\ bundles[b].count <= 255 /\ Len(bundles[b].entries) <= bundles[b].count
  BY Zenon DEF TableOK, BundlesNumbered, Preceding, Ahead
<1>8. next_ordinal' = 1 + B(n + 2)
  <2>1. n + 1 \in Nat \ {0} /\ n + 1 + 1 = n + 2 /\ n + 1 \in 1 .. n + 1
    BY <1>1
  <2>2. B(n + 1 + 1) = B(n + 1) + Count
    BY <1>2, <1>5, <2>1, AheadMore
  <2>3. B(n + 1) = A(n + 1) /\ A(n + 1) \in Nat
    BY <1>6, <2>1, AheadFinite
  <2> HIDE DEF A, B
  <2> QED
    BY <1>2, <1>3, <1>7, <2>1, <2>2, <2>3
<1> HIDE DEF A, B
<1>9. BundlesNumbered'
  <2>1. ASSUME NEW b \in 1 .. n + 1
        PROVE  /\ bundles'[b].first_ordinal = 1 + B(b)
               /\ bundles'[b].count <= 255 /\ Len(bundles'[b].entries) <= bundles'[b].count
    <3>1. CASE b \in 1 .. n
      <4>1. bundles'[b] = bundles[b] /\ B(b) = A(b)
        BY <1>1, <1>5, <1>6, <3>1
      <4> HIDE DEF n
      <4> QED
        BY <1>7, <3>1, <4>1, Zenon
    <3>2. CASE b = n + 1
      <4>1. bundles'[b] = Bundle /\ B(b) = A(n + 1)
        BY <1>1, <1>5, <1>6, <3>2
      <4>2. Count <= 255
        BY <1>2
      <4> QED
        BY <1>2, <1>7, <4>1, <4>2, Zenon
    <3> QED
      BY <1>1, <3>1, <3>2
  <2>2. Len(bundles') = n + 1 /\ next_ordinal' = 1 + B(Len(bundles') + 1)
    <3>1. n + 1 + 1 = n + 2
      BY <1>1
    <3> QED
      BY <1>5, <1>8, <3>1, Zenon
  <2> HIDE DEF n
  <2> QED
    BY <2>1, <2>2, Zenon DEF BundlesNumbered, Preceding, Ahead, B
<1>10. next_ordinal' \in Nat \ {0}
  BY <1>1, <1>2, <1>3
<1> QED
  BY <1>3, <1>4, <1>5, <1>9, <1>10 DEF TableOK

(* The entry that is taken, and its place among all entries.               *)
LEMMA EntryTaken ==
  ASSUME InputOK, TableOK,
         NEW b \in 1 .. Len(bundles), NEW i \in 1 .. Len(bundles[b].entries),
         FirstLoadable(module.objects, b, i)
  PROVE  /\ EntryOfBundle(b, i) \in EntryRecord
         /\ EntryOfBundle(b, i).ordinal = Ordinal(b, i)
         /\ \A c \in 1 .. Len(bundles) : \A j \in 1 .. Len(bundles[c].entries) :
              Loadable(module.objects, c, j) => Ordinal(b, i) <= Ordinal(c, j)
<1>1. bundles \in Seq(BundleRecord) /\ Len(bundles) \in Nat
  BY DEF TableOK
<1> DEFINE A(c) == Cardinality(Ahead(bundles, c))
           count(c) == bundles[c].count
           size(c) == Len(bundles[c].entries)
<1>2. \A c \in 1 .. Len(bundles) :
        /\ bundles[c].first_ordinal = 1 + A(c) /\ A(c) \in Nat /\ bundles[c] \in BundleRecord
        /\ count(c) \in 0 .. 255 /\ size(c) \in Nat /\ size(c) <= count(c)
  <2> SUFFICES ASSUME NEW c \in 1 .. Len(bundles)
               PROVE  /\ bundles[c].first_ordinal = 1 + A(c) /\ A(c) \in Nat
                      /\ bundles[c] \in BundleRecord
                      /\ count(c) \in 0 .. 255 /\ size(c) \in Nat /\ size(c) <= count(c)
    OBVIOUS
  <2>1. bundles[c] \in BundleRecord
    BY <1>1, ElementOfSeq
  <2>2. count(c) \in Nat /\ size(c) \in Nat
    BY <2>1, LenProperties DEF BundleRecord
  <2>3. A(c) \in Nat
    BY <1>1, AheadFinite
  <2>4. /\ bundles[c].first_ordinal = 1 + A(c)
        /\ count(c) <= 255 /\ size(c) <= count(c)
    <3>1. BundlesNumbered
      BY DEF TableOK
    <3>2. Preceding(c) = Ahead(bundles, c)
      BY DEF Preceding, Ahead
    <3> QED
      BY <3>1, <3>2, Zenon DEF BundlesNumbered
  <2> HIDE DEF count, size, A
  <2>5. count(c) \in 0 .. 255
    <3>1. \A x \in Nat : x <= 255 => x \in 0 .. 255
      OBVIOUS
    <3> QED
      BY <2>2, <2>4, <3>1, Zenon
  <2> QED
    BY <2>1, <2>2, <2>3, <2>4, <2>5, Zenon
<1>0. \A c, j : Ordinal(c, j) = j + A(c)
  BY Zenon DEF Ordinal, Preceding, Ahead
<1>3. Loadable(module.objects, b, i) /\ bundles[b].object \in Objects
  BY DEF FirstLoadable, Loadable, Objects
<1>4. bundles[b].entries[i] \in EntryPoint
  <2>1. bundles[b].entries \in Seq(EntryPoint)
    BY <1>2 DEF BundleRecord
  <2> QED
    BY <2>1, ElementOfSeq
<1>5. i \in Nat \ {0} /\ i <= size(b)
  <2>1. size(b) \in Nat /\ i \in 1 .. size(b)
    BY <1>2
  <2> HIDE DEF size
  <2> QED
    BY <2>1
<1>6. EntryOfBundle(b, i).ordinal = Ordinal(b, i) /\ Ordinal(b, i) \in Nat \ {0}
  <2> DEFINE first == bundles[b].first_ordinal
  <2>1. EntryOfBundle(b, i).ordinal = first + i - 1
    BY DEF EntryOfBundle
  <2>2. first = 1 + A(b) /\ A(b) \in Nat
    BY <1>2
  <2> HIDE DEF first, A
  <2> QED
    BY <1>0, <1>5, <2>1, <2>2
<1>7. EntryOfBundle(b, i) \in EntryRecord
  BY <1>3, <1>4, <1>6 DEF EntryOfBundle, EntryRecord, EntryPoint
<1>8. ASSUME NEW c \in 1 .. Len(bundles), NEW j \in 1 .. Len(bundles[c].entries),
             Loadable(module.objects, c, j)
      PROVE  Ordinal(b, i) <= Ordinal(c, j)
  <2>1. ~(c \in 1 .. b /\ (c < b \/ j < i))
    BY <1>8 DEF FirstLoadable
  <2>2. /\ A(b) \in Nat /\ A(c) \in Nat /\ count(b) \in 0 .. 255 /\ size(b) \in Nat
        /\ size(b) <= count(b) /\ size(c) \in Nat /\ j \in 1 .. size(c)
    BY <1>2, Zenon
  <2>3. b \in Nat \ {0} /\ c \in Nat \ {0}
    BY <1>1
  <2>4. c # b => A(b) + count(b) <= A(c)
    <3> SUFFICES ASSUME c # b PROVE A(b) + count(b) <= A(c)
      OBVIOUS
    <3>1. b + 1 <= c /\ b + 1 \in Nat
      BY <2>1, <2>3
    <3>2. A(b + 1) = A(b) + count(b)
      BY <2>2, <2>3, AheadMore
    <3>3. A(b + 1) <= A(c)
      BY <2>3, <3>1, AheadGrows
    <3> HIDE DEF A
    <3> QED
      BY <3>2, <3>3
  <2> HIDE DEF A, count, size
  <2>5. i + A(b) <= j + A(c)
    <3>1. PICK x \in Nat, y \in Nat, u \in 0 .. 255, s \in Nat, t \in Nat :
            x = A(b) /\ y = A(c) /\ u = count(b) /\ s = size(b) /\ t = size(c)
      BY <2>2, Zenon
    <3>2. s <= u /\ j \in 1 .. t /\ i <= s /\ (c # b => x + u <= y) /\ (c = b => x = y)
      BY <1>5, <2>2, <2>4, <3>1, Zenon
    <3>3. i + x <= j + y
      BY <1>5, <2>1, <2>3, <3>2
    <3> QED
      BY <3>1, <3>3, Zenon
  <2> QED
    BY <1>0, <2>5
<1> QED
  BY <1>6, <1>7, <1>8

-----------------------------------------------------------------------------
(* The fixup maps *)

(* What the placing does not change, as it leaves the module alone.        *)
LEMMA MapsFrame ==
  ASSUME module' = module
  PROVE  /\ Objects' = Objects /\ AllSlots' = AllSlots
         /\ \A n : Home(n)' = Home(n) /\ Spot(n)' = Spot(n) /\ (Mapped(n)' <=> Mapped(n))
         /\ \A i : Record(i)' = Record(i) /\ Slots(i)' = Slots(i)
         /\ \A row : Owners(row)' = Owners(row)
<1>1. Objects' = Objects /\ \A i : Record(i)' = Record(i)
  BY DEF Objects, Record
<1>2. \A i : Slots(i)' = Slots(i)
  BY <1>1 DEF Slots
<1>3. AllSlots' = AllSlots
  BY <1>2 DEF AllSlots
<1>4. \A row : Owners(row)' = Owners(row)
  BY <1>1 DEF Owners, Rows
<1>5. \A n : Home(n)' = Home(n)
  BY <1>1, <1>4 DEF Home
<1>6. \A n : Spot(n)' = Spot(n)
  BY <1>1, <1>5 DEF Spot, ImageBase
<1>7. \A n : Mapped(n)' <=> Mapped(n)
  BY <1>1, <1>4, <1>5, <1>6 DEF Mapped
<1> QED
  BY <1>1, <1>2, <1>3, <1>4, <1>5, <1>6, <1>7

(* The source offsets and the row of a record.                             *)
Sources(i) == Record(i).sources
Row(i) == Record(i).page
Size(i) == Len(Sources(i))

LEMMA ModuleFacts ==
  ASSUME module \in Modules
  PROVE  /\ ModuleOK(module)
         /\ Len(module.objects) \in Nat /\ Len(module.records) \in Nat
         /\ \A k \in Objects : module.objects[k] \in ObjectRecord
<1>1. ModuleOK(module)
  BY ModulesAssumption
<1>2. module.objects \in Seq(ObjectRecord) /\ module.records \in Seq(FixupRecord)
  BY <1>1 DEF ModuleOK, TablesOK
<1>3. Len(module.objects) \in Nat /\ Len(module.records) \in Nat
  BY <1>2, LenProperties
<1>4. \A k \in Objects : module.objects[k] \in ObjectRecord
  BY <1>2, ElementOfSeq DEF Objects
<1> QED
  BY <1>1, <1>3, <1>4

LEMMA RecordFacts ==
  ASSUME module \in Modules, NEW i \in 1 .. Len(module.records)
  PROVE  /\ Record(i) \in FixupRecord /\ Sources(i) \in Seq(Nat)
         /\ Size(i) \in Nat /\ Row(i) \in Nat
         /\ \A j \in 1 .. Size(i) : Sources(i)[j] \in Nat
<1>1. module.records \in Seq(FixupRecord)
  BY ModulesAssumption DEF ModuleOK, TablesOK
<1>2. Record(i) \in FixupRecord
  BY <1>1, ElementOfSeq DEF Record
<1>3. Sources(i) \in Seq(Word16) /\ Row(i) \in Nat
  BY <1>2 DEF FixupRecord, Sources, Row
<1>4. Sources(i) \in Seq(Nat)
  <2>1. Word16 \subseteq Nat
    BY SMT DEF Word16
  <2> QED
    BY <1>3, <2>1, SeqMonotonic
<1>5. Size(i) \in Nat
  BY <1>4, LenProperties, Zenon DEF Size
<1>6. \A j \in 1 .. Size(i) : Sources(i)[j] \in Nat
  BY <1>4, ElementOfSeq, Zenon DEF Size
<1> QED
  BY <1>2, <1>3, <1>4, <1>5, <1>6, Zenon

LEMMA SlotsAre ==
  /\ \A i : Slots(i) = {i} \X (1 .. Size(i))
  /\ \A n : Spot(n) = ImageBase(Home(n), Row(n[1])) + Sources(n[1])[n[2]]
  /\ \A n : Home(n) = Min(Owners(Row(n[1])))
BY DEF Slots, Size, Sources, Spot, Row, Home

(* Which pairs are slots.                                                  *)
LEMMA SlotPairs ==
  ASSUME module \in Modules
  PROVE  /\ \A i \in 1 .. Len(module.records) : \A j \in 1 .. Size(i) : <<i, j>> \in AllSlots
         /\ \A n \in AllSlots : /\ n = <<n[1], n[2]>> /\ n[1] \in 1 .. Len(module.records)
                                /\ n[2] \in 1 .. Size(n[1])
<1>1. \A i : Slots(i) = {i} \X (1 .. Size(i))
  BY SlotsAre
<1>2. \A n \in AllSlots : \E i \in 1 .. Len(module.records) : \E j \in 1 .. Size(i) : n = <<i, j>>
  BY <1>1 DEF AllSlots
<1>3. \A i \in 1 .. Len(module.records) : \A j \in 1 .. Size(i) : <<i, j>> \in AllSlots
  BY <1>1 DEF AllSlots
<1> QED
  BY <1>2, <1>3

LEMMA SlotsFacts ==
  ASSUME module \in Modules
  PROVE  /\ \A i \in 1 .. Len(module.records) :
              IsFiniteSet(Slots(i)) /\ Cardinality(Slots(i)) = Size(i)
         /\ IsFiniteSet(AllSlots) /\ IsFiniteSet(Seen)
         /\ AllSlots \subseteq Note
<1>1. Len(module.records) \in Nat /\ \A i \in 1 .. Len(module.records) : Size(i) \in Nat
  BY ModuleFacts, RecordFacts
<1>2. \A i \in 1 .. Len(module.records) :
        IsFiniteSet(Slots(i)) /\ Cardinality(Slots(i)) = Size(i)
  BY <1>1, CountingOf, SlotsAre
<1>5. IsFiniteSet(AllSlots)
  <2> DEFINE N == Len(module.records)
             F == {Slots(i) : i \in 1 .. N}
             f == [i \in 1 .. N |-> Slots(i)]
  <2>1. f \in Surjection(1 .. N, F)
    BY DEF Surjection
  <2>2. IsFiniteSet(1 .. N)
    BY <1>1, Counting
  <2>3. IsFiniteSet(F)
    BY <2>1, <2>2, FS_Surjection
  <2>4. \A T \in F : IsFiniteSet(T)
    BY <1>2
  <2>5. IsFiniteSet(UNION F)
    BY <2>3, <2>4, FS_UNION
  <2> QED
    BY <2>5 DEF AllSlots
<1>6. IsFiniteSet(Seen)
  BY <1>5, FS_Subset DEF Seen
<1>7. AllSlots \subseteq Note
  <2>1. \A n \in AllSlots : n = <<n[1], n[2]>> /\ n[1] \in Nat /\ n[2] \in Nat
    BY <1>1, SlotPairs
  <2> QED
    BY <2>1 DEF Note
<1> QED
  BY <1>2, <1>5, <1>6, <1>7

(* The place of a slot whose row belongs to an object.                     *)
LEMMA SpotType ==
  ASSUME module \in Modules, NEW n \in AllSlots, Owners(Row(n[1])) # {}
  PROVE  Home(n) \in Objects /\ Row(n[1]) \in Rows(Home(n)) /\ Spot(n) \in Nat
<1>0. PICK i \in 1 .. Len(module.records) : \E j \in 1 .. Size(i) : n = <<i, j>>
  BY SlotPairs
<1>1. PICK j \in 1 .. Size(i) : n = <<i, j>>
  BY <1>0
<1>2. Row(i) \in Nat /\ Sources(i)[j] \in Nat
  BY RecordFacts
<1>3. Owners(Row(i)) \subseteq Nat /\ Owners(Row(i)) # {}
  BY <1>1, ModuleFacts DEF Owners, Objects
<1>4. Home(n) \in Owners(Row(i))
  BY <1>1, <1>3, MinFacts, SlotsAre
<1>5. Home(n) \in Objects /\ Row(i) \in Rows(Home(n))
  BY <1>4 DEF Owners
<1>6. ImageBase(Home(n), Row(i)) \in Nat
  <2>1. module.page_size \in Nat /\ module.objects[Home(n)] \in ObjectRecord
    BY <1>5, ModuleFacts DEF ModuleOK
  <2> DEFINE first == module.objects[Home(n)].first
  <2>2. first \in Nat
    BY <2>1 DEF ObjectRecord
  <2>3. Row(i) >= first - 1
    <3> DEFINE count == module.objects[Home(n)].count
    <3>1. Row(i) \in first - 1 .. first - 2 + count
      BY <1>5 DEF Rows
    <3>2. count \in Nat
      BY <2>1 DEF ObjectRecord
    <3> HIDE DEF first, count
    <3> QED
      BY <1>2, <2>2, <3>1, <3>2
  <2>4. ImageBase(Home(n), Row(i)) = (Row(i) - (first - 1)) * module.page_size
    BY DEF ImageBase
  <2> HIDE DEF first
  <2>5. Row(i) - (first - 1) \in Nat
    BY <1>2, <2>2, <2>3
  <2> QED
    BY <2>1, <2>4, <2>5
<1>7. Spot(n) = ImageBase(Home(n), Row(i)) + Sources(i)[j]
  BY <1>1, SlotsAre
<1> QED
  BY <1>1, <1>2, <1>5, <1>6, <1>7

(* The notes a map has at an offset.                                       *)
Had(map, at) == IF at \in DOMAIN map THEN map[at] ELSE <<>>

LEMMA WithNoteFacts ==
  ASSUME NEW map, NoteMap(map), NEW at \in Nat, NEW note \in Note
  PROVE  /\ NoteMap(WithNote(map, at, note))
         /\ DOMAIN WithNote(map, at, note) = DOMAIN map \cup {at}
         /\ \A a \in DOMAIN map : a # at => WithNote(map, at, note)[a] = map[a]
         /\ Had(map, at) \in Seq(Note)
         /\ WithNote(map, at, note)[at] = Append(Had(map, at), note)
<1> DEFINE new == WithNote(map, at, note)
<1>1. Had(map, at) \in Seq(Note)
  BY EmptySeq DEF NoteMap, Note, Had
<1>2. Append(Had(map, at), note) \in Seq(Note)
  BY <1>1, AppendProperties
<1>3. DOMAIN new = DOMAIN map \cup {at}
  BY DEF WithNote
<1>4. \A a \in DOMAIN map : a # at => new[a] = map[a]
  BY DEF WithNote
<1>5. new[at] = Append(Had(map, at), note)
  <2>1. new[at] = IF at \in DOMAIN map THEN Append(map[at], note) ELSE <<note>>
    BY DEF WithNote
  <2>2. Append(<<>>, note) = <<note>>
    OBVIOUS
  <2> HIDE DEF new
  <2> QED
    BY <2>1, <2>2 DEF Had
<1> HIDE DEF new
<1>6. NoteMap(new)
  <2>1. \A a \in DOMAIN new : new[a] \in Seq(Note)
    BY <1>2, <1>3, <1>4, <1>5 DEF NoteMap, Note
  <2> QED
    BY <1>3, <2>1 DEF NoteMap, Note
<1> QED
  BY <1>1, <1>3, <1>4, <1>5, <1>6 DEF new

(* The slots that are seen one step later.                                 *)
LEMMA SeenAfter ==
  ASSUME module \in Modules, MapsInv, MapsNext
  PROVE  /\ SkipRecord => Seen' = Seen \cup Slots(next) /\ Seen \cap Slots(next) = {}
         /\ PlaceSlot => Seen' = Seen \cup {<<next, slot>>} /\ <<next, slot>> \notin Seen
         /\ NextRecord => Seen' = Seen
<1>1. module' = module
  BY DEF MapsNext, SkipRecord, PlaceSlot, NextRecord
<1>2. AllSlots' = AllSlots
  BY <1>1, MapsFrame
<1>3. next \in 1 .. Len(module.records) /\ next \in Nat \ {0} /\ slot \in Nat \ {0}
      /\ Size(next) \in Nat
  <2> DEFINE N == Len(module.records)
  <2>1. N \in Nat /\ slot \in Nat \ {0} /\ next \in 1 .. N + 1
    BY ModuleFacts DEF MapsInv, MapsTyped
  <2>2. next <= N
    BY DEF MapsNext, SkipRecord, PlaceSlot, NextRecord, Placing
  <2> HIDE DEF N
  <2>3. next \in 1 .. N /\ next \in Nat \ {0} /\ slot \in Nat \ {0}
    BY <2>1, <2>2
  <2> QED
    BY <2>3, RecordFacts DEF N
<1>4. \A n \in AllSlots : /\ n = <<n[1], n[2]>> /\ n[1] \in Nat /\ n[2] \in Nat \ {0}
                          /\ n[1] = next => n[2] \in 1 .. Size(next)
  <2> SUFFICES ASSUME NEW n \in AllSlots
               PROVE  /\ n = <<n[1], n[2]>> /\ n[1] \in Nat /\ n[2] \in Nat \ {0}
                      /\ n[1] = next => n[2] \in 1 .. Size(next)
    OBVIOUS
  <2>0. PICK i \in 1 .. Len(module.records) : \E j \in 1 .. Size(i) : n = <<i, j>>
    BY SlotPairs
  <2>1. PICK j \in 1 .. Size(i) : n = <<i, j>>
    BY <2>0
  <2>2. Size(i) \in Nat /\ Len(module.records) \in Nat
    BY ModuleFacts, RecordFacts
  <2> QED
    BY <2>1, <2>2
<1>5. \A j \in 1 .. Size(next) : <<next, j>> \in AllSlots
  BY <1>3, SlotPairs
<1>6. Seen' = {n \in AllSlots : n[1] < next' \/ (n[1] = next' /\ n[2] < slot')}
  BY <1>2 DEF Seen
<1>7. ASSUME SkipRecord
      PROVE  Seen' = Seen \cup Slots(next) /\ Seen \cap Slots(next) = {}
  <2>1. next' = next + 1 /\ slot' = 1 /\ slot = 1
    BY <1>7 DEF SkipRecord, MapsInv, SlotCursor
  <2>2. Slots(next) = {n \in AllSlots : n[1] = next}
    <3>1. Slots(next) = {next} \X (1 .. Size(next))
      BY SlotsAre
    <3> QED
      BY <1>4, <1>5, <3>1
  <2>3. Seen = {n \in AllSlots : n[1] < next}
    BY <1>3, <1>4, <2>1 DEF Seen
  <2>4. Seen' = {n \in AllSlots : n[1] < next \/ n[1] = next}
    BY <1>3, <1>4, <1>6, <2>1
  <2> QED
    BY <1>3, <1>4, <2>2, <2>3, <2>4
<1>8. ASSUME PlaceSlot
      PROVE  Seen' = Seen \cup {<<next, slot>>} /\ <<next, slot>> \notin Seen
  <2>1. next' = next /\ slot' = slot + 1 /\ slot <= Size(next)
    BY <1>8 DEF PlaceSlot, Size, Sources
  <2>2. <<next, slot>> \in AllSlots
    BY <1>3, <1>5, <2>1
  <2>3. \A n \in AllSlots : n[1] = next /\ n[2] < slot + 1 <=>
                            (n[1] = next /\ n[2] < slot) \/ n = <<next, slot>>
    BY <1>3, <1>4
  <2>4. <<next, slot>> \notin Seen
    BY <1>3 DEF Seen
  <2> QED
    BY <1>6, <2>1, <2>2, <2>3, <2>4 DEF Seen
<1>9. ASSUME NextRecord
      PROVE  Seen' = Seen
  <2>1. next' = next + 1 /\ slot' = 1 /\ slot > Size(next)
    BY <1>9 DEF NextRecord, Size, Sources
  <2>3. \A n \in AllSlots : n[1] = next => n[2] < slot
    BY <1>3, <1>4, <2>1
  <2>4. \A n \in AllSlots : ~(n[1] = next + 1 /\ n[2] < 1)
    BY <1>4
  <2>5. \A n \in AllSlots : n[1] < next + 1 <=> n[1] < next \/ n[1] = next
    BY <1>3, <1>4
  <2> QED
    BY <1>6, <2>1, <2>3, <2>4, <2>5 DEF Seen
<1> QED
  BY <1>7, <1>8, <1>9

LEMMA InjectiveAppend ==
  ASSUME NEW T, NEW s \in Seq(T), NEW x \in T, IsInjective(s), x \notin ToSet(s)
  PROVE  IsInjective(Append(s, x)) /\ ToSet(Append(s, x)) = ToSet(s) \cup {x}
<1>1. Append(s, x) = s \o <<x>> /\ <<x>> \in Seq(T)
  BY AppendIsConcat
<1>2. IsInjective(<<x>>) /\ ToSet(<<x>>) = {x}
  BY DEF IsInjective, ToSet
<1>3. ToSet(s) \cap ToSet(<<x>>) = {}
  BY <1>2
<1>4. IsInjective(s \o <<x>>)
  BY <1>1, <1>2, <1>3, InjectiveConcat
<1>5. \A u, v \in Seq(T) : ToSet(u \o v) = ToSet(u) \cup ToSet(v)
  BY ToSetConcat
<1> QED
  BY <1>1, <1>2, <1>4, <1>5

LEMMA MapsInitInv ==
  ASSUME module \in Modules, MapsInit
  PROVE  MapsInv
<1>1. Len(module.records) \in Nat
  BY ModuleFacts
<1>2. \A k \in Objects : by_object[k] = [at \in {} |-> <<>>] /\ DOMAIN by_object[k] = {}
  BY DEF MapsInit
<1>3. MapsTyped
  <2>1. next = 1 /\ slot = 1 /\ unmapped = 0
    BY DEF MapsInit
  <2>2. \A k \in Objects : NoteMap(by_object[k])
    BY <1>2 DEF NoteMap
  <2>3. by_object = [k \in Objects |-> by_object[k]]
    BY DEF MapsInit
  <2>4. next \in 1 .. Len(module.records) + 1
    BY <1>1, <2>1
  <2> QED
    BY <2>1, <2>2, <2>3, <2>4 DEF MapsTyped
<1>4. SlotCursor
  <2>1. next = 1 /\ slot = 1
    BY DEF MapsInit
  <2>2. Placing => Size(1) \in Nat
    BY <1>1, <2>1, RecordFacts DEF Placing
  <2> QED
    BY <2>1, <2>2 DEF SlotCursor, Size, Sources
<1>5. Seen = {}
  <2>1. next = 1 /\ slot = 1
    BY DEF MapsInit
  <2>2. \A n \in AllSlots : n[1] \in Nat \ {0} /\ n[2] \in Nat \ {0}
    <3> SUFFICES ASSUME NEW n \in AllSlots
                 PROVE  n[1] \in Nat \ {0} /\ n[2] \in Nat \ {0}
      OBVIOUS
    <3>1. n[1] \in 1 .. Len(module.records) /\ n[2] \in 1 .. Size(n[1])
      BY SlotPairs
    <3>2. Size(n[1]) \in Nat
      BY <3>1, RecordFacts
    <3> QED
      BY <1>1, <3>1, <3>2
  <2> QED
    BY <2>1, <2>2 DEF Seen
<1>6. NotesPlaced /\ MappedNoted
  BY <1>2, <1>5 DEF NotesPlaced, MappedNoted
<1>7. UnmappedCounted
  <2>1. {n \in Seen : ~Mapped(n)} = {}
    BY <1>5
  <2> QED
    BY <2>1, FS_EmptySet DEF UnmappedCounted, MapsInit
<1> QED
  BY <1>3, <1>4, <1>6, <1>7 DEF MapsInv

(* What one step does, in the terms of the invariant.                      *)
LEMMA PlaceFacts ==
  ASSUME module \in Modules, MapsInv, PlaceSlot
  PROVE  LET note == <<next, slot>> IN
         /\ note \in AllSlots /\ note \in Note
         /\ Home(note) \in Objects /\ Spot(note) \in Nat
         /\ slot <= Size(next) /\ slot' = slot + 1 /\ next' = next /\ module' = module
         /\ IF Mapped(note)
              THEN /\ unmapped' = unmapped
                   /\ by_object' = [by_object EXCEPT
                        ![Home(note)] = WithNote(by_object[Home(note)], Spot(note), note)]
              ELSE unmapped' = unmapped + 1 /\ by_object' = by_object
<1> DEFINE note == <<next, slot>>
<1>0. slot <= Size(next) /\ slot' = slot + 1 /\ next' = next /\ module' = module
      /\ Owners(Row(next)) # {} /\ next <= Len(module.records)
  BY DEF PlaceSlot, Placing, Size, Sources, Row
<1>1. next \in 1 .. Len(module.records) /\ slot \in 1 .. Size(next)
  <2>1. next \in 1 .. Len(module.records) + 1 /\ slot \in Nat \ {0}
    BY DEF MapsInv, MapsTyped
  <2>2. Len(module.records) \in Nat
    BY ModuleFacts
  <2>3. next \in 1 .. Len(module.records)
    BY <1>0, <2>1, <2>2
  <2>4. Size(next) \in Nat
    BY <2>3, RecordFacts
  <2> QED
    BY <1>0, <2>1, <2>3, <2>4
<1>2. note \in AllSlots
  BY <1>1, SlotPairs
<1>3. Home(note) \in Objects /\ Spot(note) \in Nat
  BY <1>0, <1>2, SpotType
<1>4. note \in Note
  BY <1>2, SlotsFacts
<1>5. Home(note) = Min(Owners(Record(next).page))
      /\ Spot(note) = ImageBase(Home(note), Record(next).page) + Record(next).sources[slot]
  BY DEF Home, Spot
<1>6. Mapped(note) <=> ~(Spot(note) >= module.objects[Home(note)].vsize)
  <2>1. module.objects[Home(note)].vsize \in Nat
    BY <1>3, ModuleFacts DEF ObjectRecord
  <2>2. Mapped(note) <=> Spot(note) < module.objects[Home(note)].vsize
    BY <1>0 DEF Mapped, Row
  <2> QED
    BY <1>3, <2>1, <2>2
<1>7. IF Spot(note) >= module.objects[Home(note)].vsize
        THEN unmapped' = unmapped + 1 /\ by_object' = by_object
        ELSE /\ by_object' = [by_object EXCEPT
                   ![Home(note)] = WithNote(by_object[Home(note)], Spot(note), note)]
             /\ unmapped' = unmapped
  BY <1>5 DEF PlaceSlot
<1> QED
  BY <1>0, <1>2, <1>3, <1>4, <1>6, <1>7

(* A slot of a record that no object owns has no place.                    *)
LEMMA SkipFacts ==
  ASSUME SkipRecord
  PROVE  /\ \A n \in Slots(next) : ~Mapped(n)
         /\ slot' = slot /\ next' = next + 1 /\ module' = module
         /\ by_object' = by_object /\ unmapped' = unmapped + Size(next)
<1>1. \A n \in Slots(next) : n[1] = next
  BY SlotsAre
<1> QED
  BY <1>1 DEF SkipRecord, Mapped, Size, Sources

LEMMA MapsTypedStep ==
  ASSUME module \in Modules, MapsInv, MapsNext
  PROVE  MapsTyped' /\ SlotCursor'
<1> DEFINE N == Len(module.records)
<1>0. module' = module
  BY DEF MapsNext, SkipRecord, PlaceSlot, NextRecord
<1>1. Objects' = Objects /\ (\A i : Record(i)' = Record(i)) /\ (\A row : Owners(row)' = Owners(row))
  BY <1>0, MapsFrame
<1>2. N \in Nat /\ next \in 1 .. N + 1 /\ slot \in Nat \ {0} /\ unmapped \in Nat
  BY ModuleFacts DEF MapsInv, MapsTyped
<1>3. /\ by_object = [k \in Objects |-> by_object[k]]
      /\ \A k \in Objects : NoteMap(by_object[k])
  BY DEF MapsInv, MapsTyped
<1>4. next <= N
  BY DEF MapsNext, SkipRecord, PlaceSlot, NextRecord, Placing
<1>5. Size(next) \in Nat
  <2>1. next \in 1 .. N
    <3> HIDE DEF N
    <3> QED
      BY <1>2, <1>4
  <2> QED
    BY <2>1, RecordFacts
(* Behind a record the cursor stands on the first slot of the next one.    *)
<1>6. ASSUME next' = next + 1, slot' = 1
      PROVE  SlotCursor'
  <2>1. Placing' => Size(next + 1) \in Nat
    <3> SUFFICES ASSUME Placing'
                 PROVE  Size(next + 1) \in Nat
      OBVIOUS
    <3>1. next + 1 <= N
      BY <1>0, <1>6 DEF Placing
    <3>2. next + 1 \in 1 .. N
      <4> HIDE DEF N
      <4> QED
        BY <1>2, <3>1
    <3> QED
      BY <3>2, RecordFacts
  <2>2. Size(next + 1) = Len(Record(next)'.sources)
    BY <1>0, <1>6 DEF Size, Sources, Record
  <2>3. SlotCursor' <=> IF Placing' /\ (Owners(Record(next).page) # {})'
                          THEN slot' <= Len(Record(next)'.sources) + 1 ELSE slot' = 1
    BY DEF SlotCursor
  <2> DEFINE z == Len(Record(next)'.sources)
  <2>4. Placing' => 1 <= z + 1
    <3>1. Placing' => z \in Nat
      BY <2>1, <2>2
    <3> HIDE DEF z
    <3> QED
      BY <3>1
  <2> QED
    BY <1>6, <2>3, <2>4
<1>7. CASE SkipRecord
  <2>1. slot' = slot /\ next' = next + 1 /\ by_object' = by_object
        /\ unmapped' = unmapped + Size(next)
    BY <1>7, SkipFacts
  <2>2. slot = 1
    BY <1>7 DEF SkipRecord, MapsInv, SlotCursor
  <2>3. SlotCursor'
    BY <1>6, <2>1, <2>2
  <2>4. next' \in 1 .. N + 1 /\ unmapped' \in Nat
    <3> HIDE DEF N
    <3> QED
      BY <1>2, <1>4, <1>5, <2>1
  <2>5. MapsTyped'
    BY <1>0, <1>1, <1>2, <1>3, <2>1, <2>4 DEF MapsTyped
  <2> QED
    BY <2>3, <2>5
<1>8. CASE PlaceSlot
  <2> DEFINE note == <<next, slot>>
             k == Home(note)
             new == WithNote(by_object[k], Spot(note), note)
  <2>1. /\ note \in Note /\ k \in Objects /\ Spot(note) \in Nat
        /\ slot <= Size(next) /\ slot' = slot + 1 /\ next' = next
        /\ IF Mapped(note) THEN unmapped' = unmapped /\ by_object' = [by_object EXCEPT ![k] = new]
                           ELSE unmapped' = unmapped + 1 /\ by_object' = by_object
    BY <1>8, PlaceFacts
  <2>2. NoteMap(new)
    BY <1>3, <2>1, WithNoteFacts
  <2> HIDE DEF note, k, new
  <2>3. /\ by_object' = [l \in Objects |-> by_object'[l]]
        /\ \A l \in Objects : NoteMap(by_object'[l])
    BY <1>3, <2>1, <2>2
  <2>4. unmapped' \in Nat
    BY <1>2, <2>1
  <2>5. next' \in 1 .. N + 1 /\ slot' \in Nat \ {0}
    BY <1>2, <2>1
  <2>6. MapsTyped'
    BY <1>0, <1>1, <2>3, <2>4, <2>5 DEF MapsTyped
  <2>7. SlotCursor'
    <3>1. Placing' /\ (Owners(Record(next).page) # {})'
      BY <1>0, <1>8, <2>1 DEF PlaceSlot, Placing, Owners, Objects, Rows, Record
    <3>2. Record(next)' = Record(next)
      BY <1>0, <2>1 DEF Record
    <3>3. slot' <= Size(next) + 1
      BY <1>2, <1>5, <2>1
    <3> QED
      BY <3>1, <3>2, <3>3 DEF SlotCursor, Size, Sources
  <2> QED
    BY <2>6, <2>7
<1>9. CASE NextRecord
  <2>1. slot' = 1 /\ next' = next + 1 /\ by_object' = by_object /\ unmapped' = unmapped
    BY <1>9 DEF NextRecord
  <2>2. SlotCursor'
    BY <1>6, <2>1
  <2>3. next' \in 1 .. N + 1
    <3> HIDE DEF N
    <3> QED
      BY <1>2, <1>4, <2>1
  <2>4. MapsTyped'
    BY <1>0, <1>1, <1>2, <1>3, <2>1, <2>3 DEF MapsTyped
  <2> QED
    BY <2>2, <2>4
<1> QED
  BY <1>7, <1>8, <1>9 DEF MapsNext

(* When the maps stay as they are and nothing seen anew has a place.       *)
LEMMA NotesStay ==
  ASSUME module' = module, by_object' = by_object, MapsInv,
         Seen \subseteq Seen', \A n \in Seen' \ Seen : ~Mapped(n)
  PROVE  NotesPlaced' /\ MappedNoted'
<1>1. Objects' = Objects /\ \A n : Home(n)' = Home(n) /\ Spot(n)' = Spot(n) /\ (Mapped(n)' <=> Mapped(n))
  BY MapsFrame
<1>2. NotesPlaced'
  BY <1>1 DEF MapsInv, NotesPlaced
<1>3. MappedNoted'
  BY <1>1 DEF MapsInv, MappedNoted
<1> QED
  BY <1>2, <1>3

(* A slot with a place gets its note there, behind those of other slots.   *)
LEMMA NoteAdded ==
  ASSUME module \in Modules, MapsInv, PlaceSlot, Mapped(<<next, slot>>)
  PROVE  NotesPlaced' /\ MappedNoted'
<1> DEFINE note == <<next, slot>>
           k == Home(note)
           at == Spot(note)
           new == WithNote(by_object[k], at, note)
           old == Had(by_object[k], at)
           G(l, a) == /\ IsInjective(by_object'[l][a])
                      /\ \A n \in ToSet(by_object'[l][a]) :
                           n \in Seen' /\ Mapped(n) /\ l = Home(n) /\ a = Spot(n)
<1>0. Mapped(note)
  OBVIOUS
<1>1. /\ module' = module /\ note \in Note /\ k \in Objects /\ at \in Nat
      /\ by_object' = [by_object EXCEPT ![k] = new]
  BY PlaceFacts
<1>2. Seen' = Seen \cup {note} /\ note \notin Seen
  <2>1. MapsNext
    BY DEF MapsNext
  <2> QED
    BY <2>1, SeenAfter
<1>3. Objects' = Objects /\ \A n : Home(n)' = Home(n) /\ Spot(n)' = Spot(n) /\ (Mapped(n)' <=> Mapped(n))
  BY <1>1, MapsFrame
<1>4. /\ by_object = [l \in Objects |-> by_object[l]]
      /\ \A l \in Objects : NoteMap(by_object[l])
  BY DEF MapsInv, MapsTyped
<1>5. NotesPlaced /\ MappedNoted
  BY DEF MapsInv
<1> HIDE DEF note, k, at
<1>6. NoteMap(by_object[k])
  BY <1>1, <1>4
<1>7. /\ DOMAIN new = DOMAIN by_object[k] \cup {at}
      /\ \A a \in DOMAIN by_object[k] : a # at => new[a] = by_object[k][a]
      /\ old \in Seq(Note) /\ new[at] = Append(old, note)
  BY <1>1, <1>6, WithNoteFacts, Zenon
<1>8. IF at \in DOMAIN by_object[k] THEN old = by_object[k][at] ELSE old = <<>>
  BY DEF Had
<1> HIDE DEF old, new
<1>9. by_object'[k] = new /\ \A l \in Objects : l # k => by_object'[l] = by_object[l]
  BY <1>1, <1>4
<1>10. IsInjective(old) /\ \A n \in ToSet(old) : n \in Seen /\ Mapped(n) /\ k = Home(n) /\ at = Spot(n)
  <2>1. CASE at \in DOMAIN by_object[k]
    BY <1>1, <1>5, <1>8, <2>1 DEF NotesPlaced
  <2>2. CASE at \notin DOMAIN by_object[k]
    <3>1. old = <<>>
      BY <1>8, <2>2
    <3>2. IsInjective(<<>>) /\ ToSet(<<>>) = {}
      BY DEF IsInjective, ToSet
    <3> QED
      BY <3>1, <3>2
  <2> QED
    BY <2>1, <2>2
<1>11. IsInjective(new[at]) /\ ToSet(new[at]) = ToSet(old) \cup {note}
  <2>1. note \notin ToSet(old)
    BY <1>2, <1>10
  <2>2. IsInjective(Append(old, note)) /\ ToSet(Append(old, note)) = ToSet(old) \cup {note}
    BY <1>1, <1>7, <1>10, <2>1, InjectiveAppend
  <2> QED
    BY <1>7, <2>2
<1>12. NotesPlaced'
  <2>1. G(k, at)
    <3> SUFFICES ASSUME NEW n \in ToSet(old) \cup {note}
                 PROVE  n \in Seen' /\ Mapped(n) /\ k = Home(n) /\ at = Spot(n)
      BY <1>9, <1>11
    <3>1. CASE n \in ToSet(old)
      BY <1>2, <1>10, <3>1
    <3>2. CASE n = note
      BY <1>0, <1>2, <3>2 DEF k, at
    <3> QED
      BY <3>1, <3>2
  <2>2. ASSUME NEW l \in Objects, NEW a \in DOMAIN by_object'[l], l # k \/ a # at
        PROVE  G(l, a)
    <3>1. a \in DOMAIN by_object[l] /\ by_object'[l][a] = by_object[l][a]
      <4>1. CASE l # k
        BY <1>9, <4>1
      <4>2. CASE l = k
        BY <1>7, <1>9, <2>2, <4>2
      <4> QED
        BY <4>1, <4>2
    <3>2. /\ IsInjective(by_object[l][a])
          /\ \A n \in ToSet(by_object[l][a]) : n \in Seen /\ Mapped(n) /\ l = Home(n) /\ a = Spot(n)
      BY <1>5, <3>1 DEF NotesPlaced
    <3> QED
      BY <1>2, <3>1, <3>2
  <2>3. \A l \in Objects : \A a \in DOMAIN by_object'[l] : G(l, a)
    <3> HIDE DEF G
    <3> QED
      BY <2>1, <2>2
  <2> QED
    BY <1>3, <2>3 DEF NotesPlaced
<1>13. MappedNoted'
  <2> DEFINE There(n) == /\ Spot(n) \in DOMAIN by_object'[Home(n)]
                         /\ n \in ToSet(by_object'[Home(n)][Spot(n)])
  <2>1. There(note)
    BY <1>7, <1>9, <1>11 DEF k, at
  <2>2. ASSUME NEW n \in Seen, Mapped(n)
        PROVE  There(n)
    <3>1. Spot(n) \in DOMAIN by_object[Home(n)] /\ n \in ToSet(by_object[Home(n)][Spot(n)])
      BY <1>5, <2>2 DEF MappedNoted
    <3>2. CASE Home(n) = k /\ Spot(n) = at
      BY <1>7, <1>8, <1>9, <1>11, <3>1, <3>2
    <3>3. CASE Home(n) = k /\ Spot(n) # at
      BY <1>7, <1>9, <3>1, <3>3
    <3>4. CASE Home(n) # k
      <4>1. n \in AllSlots /\ Owners(Row(n[1])) # {}
        BY <2>2 DEF Seen, Mapped, Row
      <4>2. Home(n) \in Objects
        BY <4>1, SpotType
      <4> QED
        BY <1>9, <3>1, <3>4, <4>2
    <3> QED
      BY <3>2, <3>3, <3>4
  <2>3. \A n \in Seen' : Mapped(n) => There(n)
    <3> HIDE DEF There
    <3> QED
      BY <1>2, <2>1, <2>2
  <2> QED
    BY <1>3, <2>3 DEF MappedNoted
<1> QED
  BY <1>12, <1>13

(* One by one, the slots without a place are counted.                      *)
LEMMA UnmappedStep ==
  ASSUME module \in Modules, MapsInv, MapsNext
  PROVE  UnmappedCounted'
<1> DEFINE Lost == {n \in Seen : ~Mapped(n)}
           Lost1 == {n \in Seen' : ~Mapped(n)}
<1>0. module' = module
  BY DEF MapsNext, SkipRecord, PlaceSlot, NextRecord
<1>1. \A n : Mapped(n)' <=> Mapped(n)
  BY <1>0, MapsFrame
<1>2. IsFiniteSet(Lost) /\ unmapped = Cardinality(Lost)
  BY SlotsFacts, FS_Subset DEF MapsInv, UnmappedCounted
<1>3. UnmappedCounted' <=> unmapped' = Cardinality(Lost1)
  BY <1>1 DEF UnmappedCounted
<1>4. CASE SkipRecord
  <2>1. Seen' = Seen \cup Slots(next) /\ Seen \cap Slots(next) = {}
    BY <1>4, SeenAfter
  <2>2. (\A n \in Slots(next) : ~Mapped(n)) /\ unmapped' = unmapped + Size(next)
    BY <1>4, SkipFacts
  <2>3. Lost1 = Lost \cup Slots(next) /\ Lost \cap Slots(next) = {}
    BY <2>1, <2>2
  <2>4. next \in 1 .. Len(module.records)
    <3>1. Len(module.records) \in Nat /\ next \in 1 .. Len(module.records) + 1
      BY ModuleFacts DEF MapsInv, MapsTyped
    <3>2. next <= Len(module.records)
      BY <1>4 DEF SkipRecord, Placing
    <3> QED
      BY <3>1, <3>2
  <2>5. IsFiniteSet(Slots(next)) /\ Cardinality(Slots(next)) = Size(next)
    BY <2>4, SlotsFacts
  <2> HIDE DEF Lost, Lost1
  <2>6. Cardinality(Lost1) = Cardinality(Lost) + Cardinality(Slots(next))
    BY <1>2, <2>3, <2>5, DisjointUnion, Zenon
  <2> QED
    BY <1>2, <1>3, <2>2, <2>5, <2>6
<1>5. CASE PlaceSlot
  <2> DEFINE note == <<next, slot>>
  <2>1. Seen' = Seen \cup {note} /\ note \notin Seen
    BY <1>5, SeenAfter
  <2>2. IF Mapped(note) THEN unmapped' = unmapped ELSE unmapped' = unmapped + 1
    BY <1>5, PlaceFacts
  <2> HIDE DEF note
  <2>3. CASE Mapped(note)
    <3>1. Lost1 = Lost
      BY <2>1, <2>3
    <3> QED
      BY <1>2, <1>3, <2>2, <2>3, <3>1
  <2>4. CASE ~Mapped(note)
    <3>1. Lost1 = Lost \cup {note} /\ note \notin Lost
      BY <2>1, <2>4
    <3> HIDE DEF Lost, Lost1
    <3>2. Cardinality(Lost1) = Cardinality(Lost) + 1
      BY <1>2, <3>1, FS_AddElement
    <3> QED
      BY <1>2, <1>3, <2>2, <2>4, <3>2
  <2> QED
    BY <2>3, <2>4
<1>6. CASE NextRecord
  BY <1>2, <1>3, <1>6, SeenAfter DEF NextRecord
<1> QED
  BY <1>4, <1>5, <1>6 DEF MapsNext

LEMMA MapsStep ==
  ASSUME module \in Modules, MapsInv, MapsNext
  PROVE  MapsInv'
<1>1. MapsTyped' /\ SlotCursor'
  BY MapsTypedStep
<1>2. NotesPlaced' /\ MappedNoted'
  <2>1. CASE SkipRecord
    <3>1. Seen' = Seen \cup Slots(next) /\ \A n \in Slots(next) : ~Mapped(n)
      BY <2>1, SeenAfter, SkipFacts
    <3>2. module' = module /\ by_object' = by_object
      BY <2>1, SkipFacts
    <3>3. Seen \subseteq Seen' /\ \A n \in Seen' \ Seen : ~Mapped(n)
      BY <3>1
    <3> QED
      BY <3>2, <3>3, NotesStay
  <2>2. CASE PlaceSlot /\ ~Mapped(<<next, slot>>)
    <3>1. Seen' = Seen \cup {<<next, slot>>}
      BY <2>2, SeenAfter
    <3>2. module' = module /\ by_object' = by_object
      BY <2>2, PlaceFacts
    <3>3. Seen \subseteq Seen' /\ \A n \in Seen' \ Seen : ~Mapped(n)
      BY <2>2, <3>1
    <3> QED
      BY <3>2, <3>3, NotesStay
  <2>3. CASE PlaceSlot /\ Mapped(<<next, slot>>)
    BY <2>3, NoteAdded
  <2>4. CASE NextRecord
    <3>1. Seen' = Seen
      BY <2>4, SeenAfter
    <3>2. module' = module /\ by_object' = by_object
      BY <2>4 DEF NextRecord
    <3>3. Seen \subseteq Seen' /\ \A n \in Seen' \ Seen : ~Mapped(n)
      BY <3>1
    <3> QED
      BY <3>2, <3>3, NotesStay
  <2> QED
    BY <2>1, <2>2, <2>3, <2>4 DEF MapsNext
<1>3. UnmappedCounted'
  BY UnmappedStep
<1> QED
  BY <1>1, <1>2, <1>3 DEF MapsInv

LEMMA MapsStutter ==
  ASSUME MapsInv, UNCHANGED mapVars
  PROVE  MapsInv'
<1>1. module' = module /\ next' = next /\ slot' = slot /\ by_object' = by_object /\ unmapped' = unmapped
  BY DEF mapVars
<1>2. /\ Objects' = Objects /\ AllSlots' = AllSlots
      /\ \A n : Home(n)' = Home(n) /\ Spot(n)' = Spot(n) /\ (Mapped(n)' <=> Mapped(n))
  BY <1>1, MapsFrame
<1>3. Seen' = Seen
  BY <1>1, <1>2 DEF Seen
<1>4. MapsTyped'
  BY <1>1, <1>2 DEF MapsInv, MapsTyped
<1>5. SlotCursor'
  BY <1>1 DEF MapsInv, SlotCursor, Placing, Owners, Objects, Rows, Record
<1>6. NotesPlaced' /\ MappedNoted'
  BY <1>1, <1>3, NotesStay
<1>7. UnmappedCounted'
  <2>1. {n \in Seen' : ~Mapped(n)'} = {n \in Seen : ~Mapped(n)}
    BY <1>2, <1>3
  <2> QED
    BY <1>1, <2>1 DEF MapsInv, UnmappedCounted
<1> QED
  BY <1>4, <1>5, <1>6, <1>7 DEF MapsInv

(* What the invariant says of the notes: they are the slots with a place,  *)
(* those on an object the ones that have it there.                         *)
LEMMA NotesAre ==
  ASSUME module \in Modules, MapsInv
  PROVE  /\ Notes = {n \in Seen : Mapped(n)}
         /\ \A k \in Objects : NotesOn(k) = {n \in Seen : Mapped(n) /\ Home(n) = k}
<1>1. NotesPlaced /\ MappedNoted
  BY DEF MapsInv
<1>2. \A n \in Seen : Mapped(n) => Home(n) \in Objects
  BY SpotType DEF Seen, Mapped, Row
<1>3. ASSUME NEW k \in Objects
      PROVE  NotesOn(k) = {n \in Seen : Mapped(n) /\ Home(n) = k}
  <2>1. \A n \in NotesOn(k) : n \in Seen /\ Mapped(n) /\ Home(n) = k
    BY <1>1 DEF NotesOn, NotesPlaced
  <2>2. \A n \in Seen : Mapped(n) /\ Home(n) = k => n \in NotesOn(k)
    BY <1>1 DEF NotesOn, MappedNoted
  <2> QED
    BY <2>1, <2>2
<1>4. Notes = {n \in Seen : Mapped(n)}
  <2>1. \A n \in Notes : n \in Seen /\ Mapped(n)
    BY <1>3 DEF Notes
  <2>2. \A n \in Seen : Mapped(n) => n \in Notes
    BY <1>2, <1>3 DEF Notes
  <2> QED
    BY <2>1, <2>2
<1> QED
  BY <1>3, <1>4

LEMMA SlotsCounted ==
  ASSUME module \in Modules, MapsInv
  PROVE  EverySlotCounted
<1>1. NotedOnce
  <2> SUFFICES ASSUME NEW k \in Objects, NEW l \in Objects,
                      NEW a \in DOMAIN by_object[k], NEW b \in DOMAIN by_object[l],
                      NEW i \in DOMAIN by_object[k][a], NEW j \in DOMAIN by_object[l][b],
                      by_object[k][a][i] = by_object[l][b][j]
               PROVE  k = l /\ a = b /\ i = j
    BY DEF NotedOnce
  <2> DEFINE n == by_object[k][a][i]
  <2>1. n \in ToSet(by_object[k][a]) /\ n \in ToSet(by_object[l][b])
    BY DEF ToSet
  <2>2. k = Home(n) /\ a = Spot(n) /\ l = Home(n) /\ b = Spot(n) /\ IsInjective(by_object[k][a])
    BY <2>1 DEF MapsInv, NotesPlaced
  <2>3. k = l /\ a = b
    BY <2>2
  <2>4. i = j
    BY <2>2, <2>3 DEF IsInjective
  <2> QED
    BY <2>3, <2>4
<1> DEFINE Lost == {n \in Seen : ~Mapped(n)}
<1>2. Notes = {n \in Seen : Mapped(n)}
  BY NotesAre
<1>3. unmapped = Cardinality(Lost)
  BY DEF MapsInv, UnmappedCounted
<1>4. IsFiniteSet(Notes) /\ IsFiniteSet(Lost)
  BY <1>2, SlotsFacts, FS_Subset
<1>5. Notes \cap Lost = {} /\ Seen = Notes \cup Lost
  BY <1>2
<1> HIDE DEF Lost
<1>6. Cardinality(Notes) + unmapped = Cardinality(Seen)
  <2>1. Cardinality(Notes \cup Lost) = Cardinality(Notes) + Cardinality(Lost)
    BY <1>4, <1>5, DisjointUnion
  <2> QED
    BY <1>3, <1>5, <2>1
<1> QED
  BY <1>1, <1>2, <1>6 DEF EverySlotCounted

(* The bytes of an object image: the rows of its page block one after the  *)
(* other, each in full, and behind the last of them zeros.                 *)
LEMMA ImageShape ==
  ASSUME module \in Modules, NEW k \in Objects
  PROVE  \E pages \in Seq(Int \X Int) :
           /\ Len(pages) = module.objects[k].count * module.page_size
           /\ \A n \in 1 .. module.objects[k].count : \A m \in 1 .. module.page_size :
                /\ (n - 1) * module.page_size + m \in 1 .. Len(pages)
                /\ pages[(n - 1) * module.page_size + m] =
                     <<module.objects[k].first - 2 + n, m - 1>>
           /\ \A p \in 1 .. module.objects[k].vsize :
                ObjectImage(k)[p] = IF p <= Len(pages) THEN pages[p] ELSE Zero
<1> DEFINE T == Int \X Int
           first == module.objects[k].first
           count == module.objects[k].count
           vsize == module.objects[k].vsize
           size == module.page_size
           page(r) == [b \in 1 .. size |-> <<r, b - 1>>]
           ps == [i \in 1 .. count |-> page(first - 2 + i)]
           pages == FlattenSeq(ps)
           zeros == [i \in 1 .. vsize |-> Zero]
<1>1. first \in Nat \ {0} /\ count \in Nat /\ vsize \in Nat /\ size \in Nat \ {0}
  BY ModuleFacts DEF ModuleOK, ObjectRecord
<1>2. ObjectImage(k) = SubSeq(pages \o zeros, 1, vsize)
  BY DEF ObjectImage
<1> HIDE DEF first, count, vsize, size
<1>3. \A r \in Int : page(r) \in Seq(T) /\ Len(page(r)) = size
  BY <1>1
<1>4. ps \in Seq(Seq(T)) /\ Len(ps) = count /\ \A n \in 1 .. count : ps[n] = page(first - 2 + n)
  <2>1. \A n \in 1 .. count : first - 2 + n \in Int
    BY <1>1
  <2> HIDE DEF page
  <2> QED
    BY <1>1, <1>3, <2>1
<1>5. Uniform(ps, size)
  <2>1. \A n \in 1 .. count : Len(ps[n]) = size
    <3> HIDE DEF page, ps
    <3> QED
      BY <1>1, <1>3, <1>4
  <2> HIDE DEF ps
  <2> QED
    BY <1>4, <2>1 DEF Uniform
<1>6. /\ pages \in Seq(T) /\ Len(pages) = count * size
      /\ \A n \in 1 .. count : \A m \in 1 .. size :
           /\ (n - 1) * size + m \in 1 .. Len(pages)
           /\ pages[(n - 1) * size + m] = ps[n][m]
  <2> HIDE DEF ps
  <2>1. \A t \in Seq(Seq(T)) : Uniform(t, size) =>
          /\ Len(FlattenSeq(t)) = Len(t) * size
          /\ \A n \in 1 .. Len(t) : \A m \in 1 .. size :
                /\ (n - 1) * size + m \in 1 .. Len(t) * size
                /\ FlattenSeq(t)[(n - 1) * size + m] = t[n][m]
    BY <1>1, FlattenUniform
  <2>2. pages \in Seq(T)
    BY <1>4, FlattenType
  <2> QED
    BY <1>4, <1>5, <2>1, <2>2
<1>7. \A n \in 1 .. count : \A m \in 1 .. size : ps[n][m] = <<first - 2 + n, m - 1>>
  OBVIOUS
<1>8. zeros \in Seq(T) /\ Len(zeros) = vsize /\ \A i \in 1 .. vsize : zeros[i] = Zero
  BY <1>1 DEF Zero
<1> HIDE DEF page, ps, pages, zeros
<1>9. /\ pages \o zeros \in Seq(T) /\ Len(pages) \in Nat
      /\ Len(pages \o zeros) = Len(pages) + vsize
      /\ \A i \in 1 .. Len(pages) + vsize :
           (pages \o zeros)[i] = IF i <= Len(pages) THEN pages[i] ELSE zeros[i - Len(pages)]
  <2>1. \A v, w \in Seq(T) :
          /\ v \o w \in Seq(T) /\ Len(v \o w) = Len(v) + Len(w)
          /\ \A i \in 1 .. Len(v) + Len(w) :
               (v \o w)[i] = IF i <= Len(v) THEN v[i] ELSE w[i - Len(v)]
    BY ConcatProperties
  <2>2. Len(pages) \in Nat
    BY <1>6, LenProperties
  <2> QED
    BY <1>6, <1>8, <2>1, <2>2
<1> DEFINE u == pages \o zeros
           N == Len(pages)
<1>10. ASSUME NEW p \in 1 .. vsize
       PROVE  SubSeq(u, 1, vsize)[p] = IF p <= N THEN pages[p] ELSE Zero
  <2>1. u \in Seq(T) /\ N \in Nat /\ Len(u) = N + vsize
        /\ \A i \in 1 .. N + vsize : u[i] = IF i <= N THEN pages[i] ELSE zeros[i - N]
    BY <1>9
  <2> HIDE DEF u, N
  <2>2. SubSeq(u, 1, vsize)[p] = u[p]
    BY <1>1, <2>1, SubSeqProperties
  <2>3. p \in 1 .. N + vsize /\ (~(p <= N) => p - N \in 1 .. vsize)
    BY <1>1, <2>1
  <2> QED
    BY <1>8, <2>1, <2>2, <2>3
<1>11. \A p \in 1 .. vsize : ObjectImage(k)[p] = IF p <= Len(pages) THEN pages[p] ELSE Zero
  BY <1>2, <1>10
<1>12. \A n \in 1 .. count : \A m \in 1 .. size :
         /\ (n - 1) * size + m \in 1 .. Len(pages)
         /\ pages[(n - 1) * size + m] = <<first - 2 + n, m - 1>>
  BY <1>6, <1>7
<1>13. Len(pages) = module.objects[k].count * module.page_size
  BY <1>6 DEF count, size
<1>14. \A n \in 1 .. module.objects[k].count : \A m \in 1 .. module.page_size :
         /\ (n - 1) * module.page_size + m \in 1 .. Len(pages)
         /\ pages[(n - 1) * module.page_size + m] = <<module.objects[k].first - 2 + n, m - 1>>
  BY <1>12 DEF first, count, size
<1>15. \A p \in 1 .. module.objects[k].vsize :
         ObjectImage(k)[p] = IF p <= Len(pages) THEN pages[p] ELSE Zero
  BY <1>11 DEF vsize
<1>16. pages \in Seq(Int \X Int)
  BY <1>6
<1> QED
  BY <1>13, <1>14, <1>15, <1>16, Zenon

(* The byte at an offset of the image: by quotient and remainder of the    *)
(* page size, a row of the block and an offset in it.                      *)
LEMMA ImagePlaces ==
  ASSUME module \in Modules, NEW k \in Objects, NEW at \in Nat, at < module.objects[k].vsize
  PROVE  LET row == module.objects[k].first - 1 + at \div module.page_size
         IN ObjectImage(k)[at + 1] =
              IF row \in Rows(k) THEN <<row, at % module.page_size>> ELSE Zero
<1> DEFINE first == module.objects[k].first
           count == module.objects[k].count
           vsize == module.objects[k].vsize
           size == module.page_size
           q == at \div size
           r == at % size
<1>1. first \in Nat \ {0} /\ count \in Nat /\ vsize \in Nat /\ size \in Nat \ {0} /\ at < vsize
  BY ModuleFacts DEF ModuleOK, ObjectRecord
<1>2. Rows(k) = first - 1 .. first - 2 + count
  BY DEF Rows
<1>3. PICK pages \in Seq(Int \X Int) :
        /\ Len(pages) = count * size
        /\ \A n \in 1 .. count : \A m \in 1 .. size :
             (n - 1) * size + m \in 1 .. Len(pages)
             /\ pages[(n - 1) * size + m] = <<first - 2 + n, m - 1>>
        /\ \A p \in 1 .. vsize : ObjectImage(k)[p] = IF p <= Len(pages) THEN pages[p] ELSE Zero
  BY ImageShape
<1> HIDE DEF first, count, vsize, size
<1>4. q \in Nat /\ r \in 0 .. size - 1 /\ at = q * size + r
  BY <1>1, DivMod
<1> HIDE DEF q, r
<1>5. at + 1 \in 1 .. vsize
  BY <1>1
<1>6. CASE q < count
  <2>1. /\ q + 1 \in 1 .. count /\ r + 1 \in 1 .. size /\ (q + 1) - 1 = q /\ (r + 1) - 1 = r
        /\ first - 2 + (q + 1) = first - 1 + q /\ first - 1 + q \in Rows(k)
    <3>1. q \in Nat /\ q < count /\ r \in 0 .. size - 1
      BY <1>4, <1>6
    <3>2. q + 1 \in 1 .. count /\ (q + 1) - 1 = q
      BY <1>1, <3>1
    <3>3. r + 1 \in 1 .. size /\ (r + 1) - 1 = r
      BY <1>1, <3>1
    <3>4. first - 2 + (q + 1) = first - 1 + q /\ first - 1 + q \in first - 1 .. first - 2 + count
      <4>1. \A f, n, c \in Nat : n < c => f - 2 + (n + 1) = f - 1 + n
                                        /\ f - 1 + n \in f - 1 .. f - 2 + c
        OBVIOUS
      <4>2. first \in Nat /\ count \in Nat
        BY <1>1
      <4> QED
        BY <3>1, <4>1, <4>2, Zenon
    <3> QED
      BY <1>2, <3>2, <3>3, <3>4
  <2>2. q * size + (r + 1) = at + 1
    <3> DEFINE x == q * size
    <3>1. x \in Nat /\ at = x + r
      BY <1>1, <1>4
    <3> HIDE DEF x
    <3>2. x + (r + 1) = at + 1
      BY <1>4, <3>1
    <3> QED
      BY <3>2 DEF x
  <2>3. q * size + (r + 1) \in 1 .. Len(pages)
        /\ pages[q * size + (r + 1)] = <<first - 1 + q, r>>
    BY <1>3, <2>1
  <2>4. at + 1 \in 1 .. Len(pages) /\ pages[at + 1] = <<first - 1 + q, r>>
    BY <2>2, <2>3
  <2>5. ObjectImage(k)[at + 1] = <<first - 1 + q, r>>
    BY <1>3, <1>5, <2>4, LenProperties
  <2> QED
    BY <2>1, <2>5 DEF first, size, q, r
<1>7. CASE ~(q < count)
  <2>1. first - 1 + q \notin Rows(k)
    BY <1>1, <1>2, <1>4, <1>7
  <2>2. count * size \in Nat /\ count * size <= q * size
    BY <1>1, <1>4, <1>7
  <2>3. ~(at + 1 <= Len(pages))
    <3> DEFINE x == q * size
               y == count * size
    <3>1. x \in Nat /\ y \in Nat /\ y <= x /\ at = x + r /\ Len(pages) = y
      BY <1>1, <1>3, <1>4, <2>2
    <3> HIDE DEF x, y
    <3> QED
      BY <1>4, <3>1
  <2>4. ObjectImage(k)[at + 1] = Zero
    BY <1>3, <1>5, <2>3
  <2> QED
    BY <2>1, <2>4 DEF first, size, q
<1> QED
  BY <1>6, <1>7

LEMMA NotesPatch ==
  ASSUME module \in Modules, MapsInv
  PROVE  PatchedByte
<1> SUFFICES ASSUME NEW k \in Objects, NEW at \in DOMAIN by_object[k],
                    NEW c \in 1 .. Len(by_object[k][at])
             PROVE  LET n == by_object[k][at][c]
                        s == Sources(n[1])[n[2]]
                        row == Row(n[1]) + s \div module.page_size
                    IN ObjectImage(k)[at + 1] =
                         IF row \in Rows(k) THEN <<row, s % module.page_size>> ELSE Zero
  BY DEF PatchedByte, Sources, Row
<1> DEFINE n == by_object[k][at][c]
           s == Sources(n[1])[n[2]]
           row == Row(n[1])
           first == module.objects[k].first
           size == module.page_size
<1>1. n \in ToSet(by_object[k][at])
  <2>1. by_object[k][at] \in Seq(Note)
    BY DEF MapsInv, MapsTyped, NoteMap, Note
  <2> QED
    BY <2>1 DEF ToSet
<1>2. n \in Seen /\ Mapped(n) /\ k = Home(n) /\ at = Spot(n)
  BY <1>1 DEF MapsInv, NotesPlaced
<1> HIDE DEF n
<1>3. n \in AllSlots /\ Owners(Row(n[1])) # {}
  BY <1>2 DEF Seen, Mapped, Row
<1>4. row \in Rows(k) /\ at \in Nat
  BY <1>2, <1>3, SpotType
<1>5. s \in Nat /\ row \in Nat
  BY <1>3, SlotPairs, RecordFacts
<1>6. at = (row - (first - 1)) * size + s
  BY <1>2, SlotsAre DEF ImageBase
<1>7. at < module.objects[k].vsize
  BY <1>2 DEF Mapped
<1>8. first \in Nat \ {0} /\ size \in Nat \ {0} /\ row - (first - 1) \in Nat
  <2>1. first \in Nat \ {0} /\ size \in Nat \ {0} /\ module.objects[k].count \in Nat
    BY ModuleFacts DEF ModuleOK, ObjectRecord
  <2>2. row \in first - 1 .. first - 2 + module.objects[k].count
    BY <1>4 DEF Rows
  <2> HIDE DEF first, row, size
  <2> QED
    BY <1>5, <2>1, <2>2
<1> HIDE DEF s, row, first, size
<1>9. at \div size = (row - (first - 1)) + s \div size /\ at % size = s % size
  <2> DEFINE a == row - (first - 1)
             q == s \div size
             r == s % size
  <2>1. q \in Nat /\ r \in 0 .. size - 1 /\ s = q * size + r
    BY <1>5, <1>8, DivMod
  <2> HIDE DEF a, q, r
  <2>2. a \in Nat /\ at = a * size + (q * size + r)
    BY <1>6, <1>8, <2>1 DEF a
  <2>3. at = (a + q) * size + r
    <3>1. (a + q) * size = a * size + q * size
      BY <1>8, <2>1, <2>2
    <3>2. a * size \in Nat /\ q * size \in Nat
      BY <1>8, <2>1, <2>2
    <3> QED
      BY <2>1, <2>2, <3>1, <3>2
  <2>4. a + q \in Nat
    BY <2>1, <2>2
  <2>5. at \div size = a + q /\ at % size = r
    BY <1>8, <2>1, <2>3, <2>4, DivModUnique
  <2> QED
    BY <2>5 DEF a, q, r
<1>10. first - 1 + at \div size = row + s \div size
  <2>1. s \div size \in Nat
    BY <1>5, <1>8, DivMod
  <2> QED
    BY <1>5, <1>8, <1>9, <2>1
<1>11. ObjectImage(k)[at + 1] =
         IF first - 1 + at \div size \in Rows(k)
           THEN <<first - 1 + at \div size, at % size>> ELSE Zero
  BY <1>4, <1>7, ImagePlaces DEF first, size
<1> QED
  BY <1>9, <1>10, <1>11 DEF s, row, size, n

-----------------------------------------------------------------------------
(* The run, step by step *)

(* The inputs are the same in every state, and so is what is read of them. *)
LEMMA InputKept ==
  ASSUME InputOK, UNCHANGED <<file, header, module, request>>
  PROVE  InputOK'
<1>1. FileOK(file)' /\ RequestOK(request)'
  BY DEF InputOK, FileOK, RequestOK
<1>2. HeaderOK(header)'
  BY DEF InputOK, HeaderOK
<1> QED
  BY <1>1, <1>2 DEF InputOK

LEMMA ViewKept ==
  ASSUME UNCHANGED <<file, location>>
  PROVE  /\ LocationOK => LocationOK'
         /\ ViewFindsImage /\ (Located' => Located) => ViewFindsImage'
<1>1. HeaderOffset(location.frame_at)' = HeaderOffset(location.frame_at)
  BY DEF HeaderOffset, Holds, Word, Dword, FileByte
<1> QED
  BY <1>1 DEF LocationOK, ViewFindsImage

LEMMA TableKept ==
  ASSUME TableOK, UNCHANGED <<verdict, pos, next_ordinal, bundles>>
  PROVE  TableOK'
BY DEF TableOK, BundlesNumbered, Preceding

LEMMA EntryKept ==
  ASSUME EntryOK, UNCHANGED <<bundles, module, entry>>,
         phase' \in {"locate", "entry"} => phase \in {"locate", "entry"}
  PROVE  EntryOK'
<1>1. entry' \in EntryRecord' \cup {None}
  BY DEF EntryOK, EntryRecord, Objects
<1>2. \A b, i : Ordinal(b, i)' = Ordinal(b, i)
  BY DEF Ordinal, Preceding
<1>3. \A b, i : Loadable(module.objects, b, i)' <=> Loadable(module.objects, b, i)
  BY DEF Loadable
<1>4. EntryIsLowestExported'
  BY <1>2, <1>3 DEF EntryOK, EntryIsLowestExported
<1> QED
  BY <1>1, <1>4 DEF EntryOK

(* Where the table begins and ends depends on the inputs alone.            *)
LEMMA WalkKept ==
  ASSUME WalkInTable, UNCHANGED <<file, location, header, verdict, pos, bundles>>,
         phase' = "locate" => phase = "locate"
  PROVE  WalkInTable'
<1>1. Base' = Base /\ ViewEnd' = ViewEnd
  BY DEF Base, ViewEnd, HeaderOffset, Holds, Word, Dword, FileByte
<1>2. End' = End
  BY <1>1 DEF End, Start, TableEnd, NextTable, TablePointers
<1>3. Count' = Count
  BY DEF Count, ByteAt, FileByte
<1> QED
  BY <1>1, <1>2, <1>3 DEF WalkInTable

LEMMA FrontKept ==
  ASSUME FrontInv, UNCHANGED <<locateVars, entryVars, module, request, entry>>,
         Located' => Located, phase' = "locate" => phase = "locate",
         phase' \in {"locate", "entry"} => phase \in {"locate", "entry"}
  PROVE  FrontInv'
<1>1. UNCHANGED <<file, location, header, verdict, pos, next_ordinal, bundles, module, request, entry>>
  BY DEF locateVars, entryVars
<1>2. InputOK'
  BY <1>1, InputKept DEF FrontInv
<1>3. LocationOK' /\ ViewFindsImage'
  BY <1>1, ViewKept DEF FrontInv
<1>4. TableOK'
  BY <1>1, TableKept DEF FrontInv
<1>5. EntryOK'
  BY <1>1, EntryKept DEF FrontInv
<1>6. WalkInTable'
  BY <1>1, WalkKept DEF FrontInv
<1> QED
  BY <1>2, <1>3, <1>4, <1>5, <1>6 DEF FrontInv

(* What an imported name is shown as depends on the inputs alone.          *)
LEMMA NamesKept ==
  ASSUME UNCHANGED <<file, location, header, module>>
  PROVE  \A ns : References(ns)' = References(ns)
<1>1. Base' = Base /\ ViewEnd' = ViewEnd
  BY DEF Base, ViewEnd, HeaderOffset, Holds, Word, Dword, FileByte
<1>2. \A p : ByteAt(p)' = ByteAt(p)
  BY DEF ByteAt, FileByte
<1>3. \A p : CharLen(p)' = CharLen(p) /\ After(p)' = After(p) /\ Text(p)' = Text(p)
  BY <1>2 DEF CharLen, After, Text
<1>4. \A p : TableEnd(p)' = TableEnd(p)
  BY <1>1 DEF TableEnd, NextTable, TablePointers
<1>5. ModulesStart' = ModulesStart /\ ProceduresStart' = ProceduresStart
  BY <1>1 DEF ModulesStart, ProceduresStart
<1>6. ProceduresEnd' = ProceduresEnd
  BY <1>1, <1>4, <1>5 DEF ProceduresEnd
<1>7. \A first, limit : Names(first, limit)' = Names(first, limit)
  BY DEF Names, NameAt, CharLen, After, ByteAt, FileByte
<1>8. (HasModules' <=> HasModules) /\ (HasProcedures' <=> HasProcedures)
  BY DEF HasModules, HasProcedures
<1>9. (ModulesUnreadable' <=> ModulesUnreadable) /\ (ProceduresUnreadable' <=> ProceduresUnreadable)
  BY <1>1, <1>4, <1>5, <1>8 DEF ModulesUnreadable, ProceduresUnreadable
<1>10. ImportModules' = ImportModules
  BY <1>4, <1>5, <1>7, <1>8 DEF ImportModules
<1>11. FirstName' = FirstName
  BY <1>2, <1>5 DEF FirstName
<1>12. ImportProcedures' = ImportProcedures
  BY <1>6, <1>7, <1>8, <1>11 DEF ImportProcedures
<1>13. \A t : ModuleOf(t)' = ModuleOf(t) /\ ProcedureOf(t)' = ProcedureOf(t)
  BY <1>3, <1>5, <1>10, <1>12 DEF ModuleOf, ProcedureOf
<1>14. \A t : Reference(t)' = Reference(t)
  BY <1>9, <1>13 DEF Reference, Stored
<1>15. \A n : TargetOf(n)' = TargetOf(n)
  BY DEF TargetOf, Record
<1> QED
  BY <1>14, <1>15 DEF References

(* The notes on the objects listed so far.                                 *)
DoneNotes == UNION {NotesOn(k) : k \in 1 .. current - 1}

Early == phase \in {"locate", "entry", "maps", "targets"}

LEMMA SlotsKept ==
  ASSUME module' = module
  PROVE  /\ AllSlots' = AllSlots /\ Objects' = Objects
         /\ \A k : Vsize(k)' = Vsize(k)
BY MapsFrame DEF Vsize

(* Before anything is listed, nothing is printed.                          *)
LEMMA EarlyKept ==
  ASSUME IInv, Early, Early', UNCHANGED <<module, request, sweepVars, targetVars>>,
         phase' = "targets" /\ request.fixups => ~Placing'
  PROVE  TargetsOK' /\ SweepInv' /\ WindowOK' /\ PrintedOK'
<1>1. UNCHANGED <<module, request, notes, targets, current, printed, named>>
  BY DEF sweepVars, targetVars
<1>2. AllSlots' = AllSlots /\ Objects' = Objects
  BY <1>1, SlotsKept
<1>3. ~Chosen' /\ phase' # "sweep" /\ phase' # "done" /\ targets' = <<>>
  BY <1>1 DEF Early, Chosen, IInv, TargetsOK
<1>4. TargetsOK'
  BY <1>1, <1>2, <1>3 DEF IInv, TargetsOK, Early
<1>5. SweepInv'
  BY SweepStutter DEF IInv
<1>6. WindowOK'
  BY <1>1, <1>2, <1>3 DEF IInv, WindowOK, NoteMap
<1>7. PrintedOK'
  <2>1. printed = <<>> /\ named = References(printed)
    BY DEF IInv, PrintedOK, Early
  <2>2. printed' = <<>> /\ named' = <<>>
    BY <1>1, <2>1 DEF References
  <2>3. References(printed)' = <<>>
    BY <2>2 DEF References
  <2>4. printed' \in Seq(AllSlots')
    BY <2>2, EmptySeq
  <2> QED
    BY <1>3, <2>2, <2>3, <2>4 DEF PrintedOK
<1> QED
  BY <1>4, <1>5, <1>6, <1>7

LEMMA TargetsKept ==
  ASSUME TargetsOK, UNCHANGED <<module, next, request, targets, current>>,
         phase' = "sweep" => current <= Len(targets),
         phase' = "done" => current = Len(targets) + 1,
         Chosen' => Chosen, Early' => phase' = phase
  PROVE  TargetsOK'
<1>1. Objects' = Objects /\ (Placing' <=> Placing)
  BY DEF Objects, Placing
<1>2. Chosen' \/ phase' = "targets" => Chosen \/ phase = "targets"
  BY DEF Early
<1> QED
  BY <1>1, <1>2 DEF TargetsOK, Early

LEMMA PrintedKept ==
  ASSUME PrintedOK,
         UNCHANGED <<file, location, header, module, by_object, request, targets, current,
                     printed, named>>,
         Chosen' => Chosen, Early' => phase' = phase
  PROVE  PrintedOK'
<1>1. AllSlots' = AllSlots
  BY SlotsKept
<1>2. InFull' <=> InFull
  BY DEF InFull
<1>3. DoneNotes' = DoneNotes
  BY DEF DoneNotes, NotesOn
<1>4. /\ printed' \in Seq(AllSlots')
      /\ phase' \in {"locate", "entry", "maps", "targets"} => printed' = <<>>
  BY <1>1 DEF PrintedOK, Early
<1>5. named' = References(printed)'
  <2>1. \A ns : References(ns)' = References(ns)
    BY NamesKept
  <2> QED
    BY <2>1 DEF PrintedOK
<1>6. Chosen' /\ InFull' => IsInjective(printed') /\ ToSet(printed') = DoneNotes'
  BY <1>2, <1>3 DEF PrintedOK, DoneNotes
<1>7. Base' = Base
  BY DEF Base, HeaderOffset, Holds, Word, Dword, FileByte
<1>8. printed' # <<>> => Base' >= 0
  BY <1>7 DEF PrintedOK
<1> QED
  BY <1>4, <1>5, <1>6, <1>8 DEF PrintedOK, DoneNotes

(* A step that only ends the run, or does nothing.                         *)
LEMMA PhaseKept ==
  ASSUME IInv,
         UNCHANGED <<locateVars, entryVars, mapVars, sweepVars, request, entry, targetVars>>,
         \/ phase' = phase
         \/ phase' \in {"archive", "parse error"}
         \/ phase' \in Failures /\ Located
         \/ phase = "image" /\ phase' = "done" /\ current > Len(targets)
  PROVE  IInv'
<1>1. UNCHANGED <<file, location, header, module, next, slot, by_object, unmapped, start,
                  length, notes, off, lines, request, entry, targets, current, printed, named>>
  BY DEF locateVars, entryVars, mapVars, sweepVars, targetVars
<1>2. AllSlots' = AllSlots /\ Objects' = Objects /\ \A k : Vsize(k)' = Vsize(k)
  BY <1>1, SlotsKept
<1>4. /\ phase' = "sweep" => phase = "sweep"
      /\ phase' = "done" => phase = "done" \/ (phase = "image" /\ current > Len(targets))
      /\ Chosen' => Chosen /\ (phase' = "targets" => phase = "targets")
      /\ phase' \in {"locate", "entry", "maps", "targets"} => phase' = phase
      /\ Located' => Located
  BY <1>1 DEF Chosen, Failures, Located
<1>5. FrontInv'
  <2>1. /\ phase' \in {"locate", "entry"} => phase \in {"locate", "entry"}
        /\ phase' = "locate" => phase = "locate"
    BY <1>4
  <2> QED
    BY <1>1, <1>4, <2>1, FrontKept DEF IInv
<1>6. MapsInv'
  BY MapsStutter DEF IInv
<1>7. SweepInv'
  BY SweepStutter DEF IInv
<1>8. TargetsOK'
  <2>1. Len(targets) \in Nat /\ current \in 1 .. Len(targets) + 1
    BY LenProperties DEF IInv, TargetsOK
  <2>2. TargetsOK /\ (phase = "sweep" => current <= Len(targets))
        /\ (phase = "done" => current = Len(targets) + 1)
    BY DEF IInv, TargetsOK
  <2>3. phase' = "done" => current = Len(targets) + 1
    BY <1>4, <2>1, <2>2
  <2> QED
    BY <1>1, <1>4, <2>2, <2>3, TargetsKept DEF Early
<1>9. WindowOK'
  <2>1. WindowStart' = WindowStart /\ WindowLength' = WindowLength /\ Target' = Target
    BY <1>1 DEF WindowStart, WindowLength, Target, Vsize
  <2> QED
    BY <1>1, <1>2, <1>4, <2>1 DEF IInv, WindowOK, NoteMap
<1>10. PrintedOK'
  BY <1>1, <1>4, PrintedKept DEF IInv, Early
<1>11. phase' \in {"locate", "entry", "maps", "targets", "image", "sweep", "done"} \cup Failures
  BY DEF IInv, Failures
<1> QED
  BY <1>5, <1>6, <1>7, <1>8, <1>9, <1>10, <1>11 DEF IInv

LEMMA InitIInv ==
  ASSUME Init
  PROVE  IInv
<1>1. InputOK
  BY InputsAssumption DEF Init, InputOK
<1>2. LocationOK /\ ViewFindsImage
  <2>1. location.header_at = 0 /\ location.frame_at = 0
    BY DEF Init, LocateInit
  <2> QED
    BY <2>1 DEF LocationOK, ViewFindsImage, Located, Init
<1>3. TableOK
  <2>1. verdict = "unread" /\ pos = 0 /\ next_ordinal = 1 /\ bundles = <<>>
    BY DEF Init, EntryInit
  <2>2. Preceding(Len(bundles) + 1) = {}
    BY <2>1 DEF Preceding
  <2>3. BundlesNumbered
    <3>1. Cardinality(Preceding(Len(bundles) + 1)) = 0
      BY <2>2, FS_EmptySet
    <3> QED
      BY <2>1, <3>1 DEF BundlesNumbered
  <2> QED
    BY <2>1, <2>3 DEF TableOK
<1>4. EntryOK
  BY DEF Init, EntryOK, EntryIsLowestExported
<1>5. MapsInv
  BY <1>1, MapsInitInv DEF Init, InputOK
<1>6. TargetsOK
  <2>1. targets = <<>> /\ current = 1 /\ phase = "locate"
    BY DEF Init
  <2>2. targets \in Seq([object : Objects, offset : Nat])
    BY <2>1, EmptySeq
  <2> QED
    BY <2>1, <2>2 DEF TargetsOK, Chosen
<1>7. SweepInv
  <2>1. lines = <<>> /\ start = 0 /\ length = 0 /\ off = 0
    BY DEF Init
  <2>2. lines \in Seq(ToSet(lines)) /\ Len(lines) = 0
    BY <2>1, EmptySeq
  <2>3. LineNotes = <<>> /\ NotesIn(start, off) = <<>>
    <3>1. [i \in 1 .. Len(lines) |-> lines[i].notes] = <<>>
      BY <2>1
    <3>2. [i \in 1 .. off |-> IF start + i - 1 \in DOMAIN notes THEN notes[start + i - 1] ELSE <<>>] = <<>>
      BY <2>1
    <3> QED
      BY <3>1, <3>2, FlattenEmpty DEF LineNotes, NotesIn
  <2> QED
    BY <2>1, <2>2, <2>3 DEF SweepInv, SweepTyped, EachByteOnOneLine
<1>8. WindowOK
  <2>1. notes = [at \in {} |-> <<>>] /\ phase = "locate"
    BY DEF Init
  <2> QED
    BY <2>1 DEF WindowOK, NoteMap
<1>9. PrintedOK
  <2>1. printed = <<>> /\ named = <<>> /\ phase = "locate" /\ targets = <<>>
    BY DEF Init
  <2>2. printed \in Seq(AllSlots) /\ References(printed) = <<>>
    BY <2>1, EmptySeq DEF References
  <2> QED
    BY <2>1, <2>2 DEF PrintedOK, Chosen
<1>10. phase = "locate" /\ verdict = "unread" /\ bundles = <<>>
  BY DEF Init, EntryInit
<1>11. WalkInTable
  BY <1>10 DEF WalkInTable
<1> QED
  BY <1>1, <1>2, <1>3, <1>4, <1>5, <1>6, <1>7, <1>8, <1>9, <1>10, <1>11 DEF IInv, FrontInv

(* Offsets that may be counted from before the file's start.               *)
LEMMA LeastOf ==
  ASSUME NEW T, NEW v \in T, v \in Int, T \subseteq Nat \cup {v}
  PROVE  Min(T) \in T /\ (\A y \in T : Min(T) <= y) /\ Min(T) \in Int
<1> DEFINE m == Min(T)
<1>1. m \in T /\ \A y \in T : m <= y
  <2>1. CASE v \in Nat
    <3>1. T \subseteq Nat /\ T # {}
      BY <2>1
    <3> QED
      BY <3>1, MinFacts
  <2>2. CASE v \notin Nat
    <3>1. \A y \in T : v <= y
      BY <2>2
    <3> QED
      BY <3>1 DEF Min
  <2> QED
    BY <2>1, <2>2
<1> HIDE DEF m
<1>2. m \in Int
  BY <1>1
<1> QED
  BY <1>1, <1>2 DEF m

LEMMA BaseType ==
  ASSUME FileOK(file), LocationOK
  PROVE  Base \in Int /\ ViewEnd \in Int
<1>1. Dword(location.frame_at + DOS_E_LFANEW_OFFSET) \in Nat
  BY WordType
<1>2. Base \in Int
  BY <1>1 DEF Base, HeaderOffset
<1>3. ViewEnd \in Int
  BY DEF ViewEnd, FileOK, LocationOK
<1> QED
  BY <1>2, <1>3

LEMMA TableEndType ==
  ASSUME FileOK(file), HeaderOK(header), LocationOK, Base >= 0, NEW p
  PROVE  /\ TableEnd(p) \in Int /\ TableEnd(p) <= ViewEnd
         /\ TableEnd(p) \in Bounds /\ \A b \in Bounds : b > p => TableEnd(p) <= b
<1>1. Base \in Nat /\ ViewEnd \in Int
  BY BaseType
<1>2. TablePointers \subseteq Nat
  BY DEF TablePointers, HeaderOK
<1> DEFINE starts == {Base + rel : rel \in TablePointers \ {0}}
           T == {t \in starts : t > p} \cup {ViewEnd}
<1>3. starts \subseteq Nat
  <2>1. \A b, r \in Nat : b + r \in Nat
    OBVIOUS
  <2> QED
    BY <1>1, <1>2, <2>1, Zenon
<1>4. NextTable(p) = Min(T)
  BY DEF NextTable
<1>5. Min(T) \in T /\ \A y \in T : Min(T) <= y
  BY <1>1, <1>3, LeastOf
<1>6. NextTable(p) \in Nat \cup {ViewEnd}
  BY <1>3, <1>4, <1>5
<1> DEFINE U == {NextTable(p), ViewEnd} \cup (IF header.data_pages > p THEN {header.data_pages} ELSE {})
<1>7. U \subseteq Nat \cup {ViewEnd} /\ ViewEnd \in U
  BY <1>6 DEF HeaderOK
<1>8. TableEnd(p) = Min(U)
  BY DEF TableEnd
<1>9. Bounds = starts \cup {header.data_pages, ViewEnd} /\ header.data_pages \in Nat
  BY DEF Bounds, HeaderOK
<1>10. NextTable(p) \in Bounds /\ U \subseteq Bounds
  BY <1>4, <1>5, <1>9
<1>11. header.data_pages > p => header.data_pages \in U
  OBVIOUS
<1>12. NextTable(p) \in U
  OBVIOUS
<1>13. \A b \in starts : b > p => NextTable(p) <= b
  BY <1>4, <1>5
<1> HIDE DEF U, T
<1>14. Min(U) \in U /\ Min(U) \in Int /\ \A y \in U : Min(U) <= y
  BY <1>1, <1>7, LeastOf
<1>15. \A b \in starts : b > p => Min(U) <= b
  <2> SUFFICES ASSUME NEW b \in starts, b > p
               PROVE  Min(U) <= b
    OBVIOUS
  <2>1. b \in Nat /\ NextTable(p) <= b /\ Min(U) <= NextTable(p)
    BY <1>3, <1>12, <1>13, <1>14
  <2>2. NextTable(p) \in Int
    BY <1>1, <1>6
  <2> HIDE DEF starts
  <2> QED
    BY <1>14, <2>1, <2>2
<1> HIDE DEF starts
<1>16. \A b \in Bounds : b > p => Min(U) <= b
  BY <1>7, <1>9, <1>11, <1>14, <1>15
<1> QED
  BY <1>7, <1>8, <1>10, <1>14, <1>16

(* Walking the entry table keeps its part of the invariant.                *)
LEMMA TableStep ==
  ASSUME FrontInv, EntryPhase, EntryNext
  PROVE  TableOK'
<1>1. FileOK(file) /\ HeaderOK(header) /\ LocationOK /\ TableOK /\ InputOK
  BY DEF FrontInv, InputOK
<1>2. Base >= 0 /\ Base \in Int
  BY <1>1, BaseType DEF EntryPhase, Readable
<1>3. ASSUME NEW v \in {"unread", "walking", "read"} \cup TableErrors, Say(v)
      PROVE  TableOK'
  BY <1>1, <1>3 DEF Say, TableOK, BundlesNumbered, Preceding
<1>4. CASE NoTable
  <2>1. Say("read")
    BY <1>4 DEF NoTable
  <2> QED
    BY <1>3, <2>1
<1>5. CASE RefuseTable
  <2>1. Say("entry_table") /\ "entry_table" \in TableErrors
    BY <1>5 DEF RefuseTable, TableErrors
  <2> QED
    BY <1>3, <2>1
<1>6. CASE OpenTable
  <2>1. Start \in Nat
    BY <1>1, <1>2 DEF Start, HeaderOK
  <2>2. verdict' = "walking" /\ pos' = Start /\ next_ordinal' = next_ordinal /\ bundles' = bundles
    BY <1>6 DEF OpenTable
  <2> QED
    BY <1>1, <2>1, <2>2 DEF TableOK, BundlesNumbered, Preceding
<1>7. CASE RefuseBundle
  <2>1. Say("past_file") \/ Say("EntryTableCorrupt")
    BY <1>7 DEF RefuseBundle
  <2>2. "past_file" \in TableErrors /\ "EntryTableCorrupt" \in TableErrors
    BY DEF TableErrors
  <2> QED
    BY <1>3, <2>1, <2>2
<1>8. CASE ReadBundle
  <2>1. End \in Int
    BY <1>1, <1>2, TableEndType DEF End
  <2> QED
    BY <1>1, <1>8, <2>1, BundleAdded
<1>9. CASE EndTable
  <2>1. Say("read")
    BY <1>9 DEF EndTable
  <2> QED
    BY <1>3, <2>1
<1> QED
  BY <1>4, <1>5, <1>6, <1>7, <1>8, <1>9 DEF EntryNext

(* The walk stays between the start and the end of the table.              *)
LEMMA WalkStep ==
  ASSUME FrontInv, EntryPhase, EntryNext, phase' = phase, UNCHANGED <<file, location>>
  PROVE  WalkInTable'
<1>1. FileOK(file) /\ HeaderOK(header) /\ LocationOK /\ TableOK /\ WalkInTable
  BY DEF FrontInv, InputOK
<1>2. Base >= 0 /\ Base \in Int /\ phase = "entry"
  BY <1>1, BaseType DEF EntryPhase, Readable
<1>3. End \in Int /\ Start \in Int /\ pos \in Nat
  BY <1>1, <1>2, TableEndType DEF End, Start, HeaderOK, TableOK
<1>4. header' = header
  BY DEF EntryNext, NoTable, RefuseTable, OpenTable, RefuseBundle, ReadBundle, EndTable, Say
<1>5. Base' = Base /\ ViewEnd' = ViewEnd
  BY <1>4 DEF Base, ViewEnd, HeaderOffset, Holds, Word, Dword, FileByte
<1>6. End' = End
  BY <1>4, <1>5 DEF End, Start, TableEnd, NextTable, TablePointers
<1>7. pos' = pos => Count' = Count
  BY DEF Count, ByteAt, FileByte
<1>8. CASE NoTable \/ RefuseTable
  BY <1>1, <1>2, <1>4, <1>5, <1>8 DEF NoTable, RefuseTable, Say, WalkInTable
<1>9. CASE OpenTable
  BY <1>1, <1>2, <1>3, <1>5, <1>6, <1>9 DEF OpenTable, WalkInTable
<1>10. CASE RefuseBundle
  BY <1>1, <1>2, <1>5, <1>6, <1>10 DEF RefuseBundle, AtBundle, Say, WalkInTable
<1>11. CASE ReadBundle
  BY <1>1, <1>2, <1>5, <1>6, <1>11 DEF ReadBundle, AtBundle, WalkInTable
<1>12. CASE EndTable
  BY <1>1, <1>2, <1>3, <1>5, <1>6, <1>7, <1>12 DEF EndTable, AtBundle, Say, WalkInTable
<1> QED
  BY <1>8, <1>9, <1>10, <1>11, <1>12 DEF EntryNext

(* The steps up to the choice of targets leave the listing as it is.       *)
LEMMA FrontStep ==
  ASSUME IInv, phase \in {"locate", "entry"}, FrontInv', Before,
         phase' \in {"locate", "entry", "maps"} \/ (phase' = "targets" /\ ~request.fixups)
  PROVE  IInv'
<1>1. UNCHANGED <<module, request, mapVars, sweepVars, targetVars>>
  BY DEF Before, mapVars
<1>2. MapsInv'
  BY <1>1, MapsStutter DEF IInv
<1>3. TargetsOK' /\ SweepInv' /\ WindowOK' /\ PrintedOK'
  BY <1>1, EarlyKept DEF Early
<1> QED
  BY <1>2, <1>3 DEF IInv

LEMMA LocateStep ==
  ASSUME IInv, Locate
  PROVE  IInv'
<1>1. /\ Before /\ phase = "locate" /\ phase' = "entry" /\ file' = file
      /\ UNCHANGED <<header, verdict, pos, next_ordinal, bundles, entry, module, request>>
  BY DEF Locate, LocateTrusted, LocateAtStart, LocateByScan, Found, entryVars, Before, mapVars
<1>2. InputOK /\ TableOK /\ WalkInTable /\ EntryOK /\ FileOK(file)
  BY DEF IInv, FrontInv, InputOK
<1>3. LocationOK' /\ ViewFindsImage'
  BY <1>2, LocateInFile, LocateFindsImage
<1>4. InputOK'
  BY <1>1, <1>2, InputKept
<1>5. TableOK'
  BY <1>1, <1>2, TableKept
<1>6. EntryOK'
  BY <1>1, <1>2, EntryKept
<1>7. WalkInTable'
  BY <1>1, <1>2 DEF WalkInTable
<1>8. FrontInv'
  BY <1>3, <1>4, <1>5, <1>6, <1>7 DEF FrontInv
<1> QED
  BY <1>1, <1>8, FrontStep

LEMMA ReadEntryTableStep ==
  ASSUME IInv, ReadEntryTable
  PROVE  IInv'
<1>1. /\ Before /\ phase = "entry" /\ phase' = phase /\ entry' = entry
      /\ UNCHANGED <<file, location, header, module, request>>
  BY DEF ReadEntryTable, EntryPhase, locateVars, Before, mapVars, EntryNext, Say, NoTable,
         RefuseTable, OpenTable, RefuseBundle, ReadBundle, EndTable
<1>2. FrontInv
  BY DEF IInv
<1>3. LocationOK' /\ ViewFindsImage' /\ InputOK'
  BY <1>1, <1>2, ViewKept, InputKept DEF FrontInv, Located
<1>4. TableOK'
  BY <1>2, TableStep DEF ReadEntryTable
<1>5. EntryOK'
  <2>1. entry = None
    BY <1>1, <1>2 DEF FrontInv, EntryOK
  <2> QED
    BY <1>1, <2>1 DEF EntryOK, EntryIsLowestExported
<1>6. WalkInTable'
  BY <1>1, <1>2, WalkStep DEF ReadEntryTable
<1>7. FrontInv'
  BY <1>3, <1>4, <1>5, <1>6 DEF FrontInv
<1> QED
  BY <1>1, <1>7, FrontStep

(* The entry point found is one that EntryOK speaks of.                    *)
LEMMA AfterEntryStep ==
  ASSUME IInv, EntryPhase, NEW e, AfterEntry(e), EntryOK'
  PROVE  IInv'
<1>1. /\ Before /\ phase = "entry" /\ entry' = e
      /\ phase' = IF request.fixups THEN "maps" ELSE "targets"
      /\ UNCHANGED <<file, location, header, verdict, pos, next_ordinal, bundles, module, request>>
  BY DEF AfterEntry, EntryPhase, locateVars, entryVars, Before, mapVars
<1>2. FrontInv
  BY DEF IInv
<1>3. Located
  BY <1>1 DEF Located
<1>4. LocationOK' /\ ViewFindsImage' /\ InputOK' /\ TableOK'
  BY <1>1, <1>2, <1>3, ViewKept, InputKept, TableKept DEF FrontInv
<1>5. WalkInTable'
  BY <1>1, <1>2, WalkKept DEF FrontInv
<1>6. FrontInv'
  BY <1>4, <1>5 DEF FrontInv
<1> QED
  BY <1>1, <1>6, FrontStep

LEMMA EntryStep ==
  ASSUME IInv, EntryFromHeader \/ EntryFromTable \/ NoEntry
  PROVE  IInv'
<1> DEFINE head == [object |-> header.start_object, offset |-> header.eip, ordinal |-> None]
<1>1. InputOK /\ TableOK /\ HeaderOK(header)
  BY DEF IInv, FrontInv, InputOK
<1>2. EntryPhase
  BY DEF EntryFromHeader, EntryFromTable, NoEntry
<1>3. ASSUME NEW e, AfterEntry(e)
      PROVE  /\ entry' = e /\ phase' \notin {"locate", "entry"}
             /\ bundles' = bundles /\ module' = module /\ Objects' = Objects
             /\ \A b, i : Ordinal(b, i)' = Ordinal(b, i)
             /\ \A b, i : Loadable(module.objects, b, i)' <=> Loadable(module.objects, b, i)
  <2>1. entry' = e /\ phase' \notin {"locate", "entry"} /\ bundles' = bundles /\ module' = module
    BY <1>3 DEF AfterEntry, entryVars, Before, mapVars
  <2> QED
    BY <2>1 DEF Objects, Ordinal, Preceding, Loadable
<1>4. CASE EntryFromHeader
  <2>1. AfterEntry(head) /\ HeaderNames(module.objects)
    BY <1>4 DEF EntryFromHeader
  <2>2. head \in EntryRecord
    BY <1>1, <2>1 DEF HeaderNames, HeaderOK, EntryRecord, Objects
  <2>3. EntryOK'
    BY <1>3, <2>1, <2>2 DEF EntryOK, EntryIsLowestExported, EntryRecord
  <2> QED
    BY <1>2, <2>1, <2>3, AfterEntryStep
<1>5. CASE NoEntry
  <2>1. AfterEntry(None)
    BY <1>5 DEF NoEntry
  <2>2. EntryOK'
    BY <1>3, <2>1 DEF EntryOK, EntryIsLowestExported
  <2> QED
    BY <1>2, <2>1, <2>2, AfterEntryStep
<1>6. CASE EntryFromTable
  <2>1. PICK b \in 1 .. Len(bundles) : \E i \in 1 .. Len(bundles[b].entries) :
          FirstLoadable(module.objects, b, i) /\ AfterEntry(EntryOfBundle(b, i))
    BY <1>6 DEF EntryFromTable
  <2>2. PICK i \in 1 .. Len(bundles[b].entries) :
          FirstLoadable(module.objects, b, i) /\ AfterEntry(EntryOfBundle(b, i))
    BY <2>1
  <2> DEFINE e == EntryOfBundle(b, i)
  <2>3. /\ e \in EntryRecord /\ e.ordinal = Ordinal(b, i)
        /\ \A c \in 1 .. Len(bundles) : \A j \in 1 .. Len(bundles[c].entries) :
             Loadable(module.objects, c, j) => Ordinal(b, i) <= Ordinal(c, j)
    BY <1>1, <2>2, EntryTaken
  <2>4. /\ e = [object |-> bundles[b].object, ordinal |-> Ordinal(b, i),
                offset |-> bundles[b].entries[i].offset]
        /\ Loadable(module.objects, b, i)
    BY <2>2, <2>3 DEF EntryOfBundle, FirstLoadable
  <2> DEFINE X == {x \in (1 .. Len(bundles)) \X (1 .. 255) :
                     x[2] <= Len(bundles[x[1]].entries) /\ Loadable(module.objects, x[1], x[2])}
  <2>5. <<b, i>> \in X
    <3>1. i \in 1 .. 255
      <4>1. /\ bundles[b].count <= 255 /\ Len(bundles[b].entries) <= bundles[b].count
            /\ bundles[b] \in BundleRecord
        BY <1>1, ElementOfSeq DEF TableOK, BundlesNumbered
      <4> DEFINE n == Len(bundles[b].entries)
                 m == bundles[b].count
      <4>2. n \in Nat /\ m \in Nat
        BY <4>1, LenProperties DEF BundleRecord
      <4> HIDE DEF n, m
      <4>3. i \in 1 .. n /\ n <= m /\ m <= 255
        BY <4>1 DEF n, m
      <4> QED
        BY <4>2, <4>3
    <3>2. i <= Len(bundles[b].entries)
      OBVIOUS
    <3> QED
      BY <2>4, <3>1, <3>2
  <2>6. \A x \in X : Ordinal(b, i) <= Ordinal(x[1], x[2])
    <3> SUFFICES ASSUME NEW x \in X
                 PROVE  Ordinal(b, i) <= Ordinal(x[1], x[2])
      OBVIOUS
    <3> DEFINE n == Len(bundles[x[1]].entries)
    <3>1. /\ x[1] \in 1 .. Len(bundles) /\ x[2] \in 1 .. 255 /\ x[2] <= n
          /\ Loadable(module.objects, x[1], x[2])
      OBVIOUS
    <3>2. n \in Nat
      <4>1. bundles[x[1]] \in BundleRecord
        BY <1>1, <3>1, ElementOfSeq DEF TableOK
      <4> QED
        BY <4>1, LenProperties DEF BundleRecord
    <3> HIDE DEF n, X
    <3>3. x[2] \in 1 .. n
      <4>1. \A j \in 1 .. 255 : j <= n => j \in 1 .. n
        BY <3>2
      <4> QED
        BY <3>1, <4>1
    <3> QED
      BY <2>3, <3>1, <3>3 DEF n
  <2> HIDE DEF e
  <2>7. EntryIsLowestExported'
    <3>1. entry' = e /\ bundles' = bundles
          /\ (\A c, j : Ordinal(c, j)' = Ordinal(c, j))
          /\ \A c, j : Loadable(module.objects, c, j)' <=> Loadable(module.objects, c, j)
      BY <1>3, <2>2 DEF e
    <3>2. EntryIsLowestExported' <=>
            (entry' # None /\ entry'.ordinal # None =>
               \E x \in X :
                 /\ entry' = [object |-> bundles[x[1]].object, ordinal |-> Ordinal(x[1], x[2]),
                              offset |-> bundles[x[1]].entries[x[2]].offset]
                 /\ \A f \in X : entry'.ordinal <= Ordinal(f[1], f[2]))
      BY <3>1 DEF EntryIsLowestExported
    <3> QED
      BY <2>3, <2>4, <2>5, <2>6, <3>1, <3>2
  <2>8. EntryOK'
    <3>1. entry' = e /\ Objects' = Objects /\ phase' \notin {"locate", "entry"}
      BY <1>3, <2>2 DEF e
    <3> QED
      BY <2>3, <2>7, <3>1 DEF EntryOK, EntryRecord
  <2> QED
    BY <1>2, <2>2, <2>8, AfterEntryStep
<1> QED
  BY <1>4, <1>5, <1>6

(* Building the maps.                                                      *)
LEMMA BuildMapsStep ==
  ASSUME IInv, BuildMaps
  PROVE  IInv'
<1>1. /\ MapsNext /\ phase = "maps" /\ phase' = phase
      /\ UNCHANGED <<locateVars, entryVars, sweepVars, request, entry, targetVars>>
  BY DEF BuildMaps, runVars
<1>2. module' = module
  BY <1>1 DEF MapsNext, SkipRecord, PlaceSlot, NextRecord
<1>3. FrontInv'
  BY <1>1, <1>2, FrontKept DEF IInv, Located
<1>4. MapsInv'
  BY <1>1, MapsStep DEF IInv, FrontInv, InputOK
<1>5. TargetsOK' /\ SweepInv' /\ WindowOK' /\ PrintedOK'
  BY <1>1, <1>2, EarlyKept DEF Early
<1> QED
  BY <1>1, <1>3, <1>4, <1>5 DEF IInv

LEMMA MapsBuiltStep ==
  ASSUME IInv, MapsBuilt
  PROVE  IInv'
<1>1. /\ phase = "maps" /\ phase' = "targets" /\ ~Placing
      /\ UNCHANGED <<locateVars, entryVars, mapVars, sweepVars, request, entry, targetVars>>
  BY DEF MapsBuilt, Elsewhere
<1>2. module' = module /\ next' = next
  BY <1>1 DEF mapVars
<1>3. FrontInv'
  BY <1>1, <1>2, FrontKept DEF IInv, Located
<1>4. MapsInv'
  BY <1>1, MapsStutter DEF IInv
<1>5. ~Placing'
  BY <1>1, <1>2 DEF Placing
<1>6. TargetsOK' /\ SweepInv' /\ WindowOK' /\ PrintedOK'
  BY <1>1, <1>2, <1>5, EarlyKept DEF Early
<1> QED
  BY <1>1, <1>3, <1>4, <1>6 DEF IInv

(* Choosing targets: objects that exist, at offsets that are numbers.      *)
LEMMA ChosenTargets ==
  ASSUME IInv, NEW ts \in Seq([object : Objects, offset : Nat]), Choose(ts),
         phase = "targets", Elsewhere,
         request.all => Len(ts) = Len(module.objects) /\ \A k \in Objects : ts[k].object = k
  PROVE  IInv'
<1>1. /\ UNCHANGED <<locateVars, entryVars, mapVars, sweepVars, request, entry>>
      /\ UNCHANGED <<file, location, header, module, next, notes, current, printed, named>>
      /\ phase' = "image" /\ targets' = ts
  BY DEF Choose, Elsewhere, locateVars, entryVars, mapVars, sweepVars
<1>2. AllSlots' = AllSlots /\ Objects' = Objects
  BY <1>1, SlotsKept
<1>3. FrontInv'
  BY <1>1, FrontKept DEF IInv, Located
<1>4. MapsInv'
  BY <1>1, MapsStutter DEF IInv
<1>5. SweepInv'
  BY <1>1, SweepStutter DEF IInv
<1>6. current = 1 /\ (request.fixups => ~Placing) /\ printed = <<>> /\ named = References(printed)
  BY DEF IInv, TargetsOK, PrintedOK
<1>7. TargetsOK'
  <2>1. Len(ts) \in Nat
    BY LenProperties
  <2>2. 1 \in 1 .. Len(ts) + 1
    <3> DEFINE n == Len(ts)
    <3> HIDE DEF n
    <3>1. n \in Nat
      BY <2>1 DEF n
    <3>2. 1 \in 1 .. n + 1
      BY <3>1
    <3> QED
      BY <3>2 DEF n
  <2>3. Placing' = Placing
    BY <1>1 DEF Placing
  <2> QED
    BY <1>1, <1>2, <1>6, <2>2, <2>3 DEF TargetsOK
<1>8. WindowOK'
  BY <1>1, <1>2 DEF IInv, WindowOK, NoteMap
<1>9. PrintedOK'
  <2>1. current' = 1 /\ printed' = <<>> /\ named' = <<>>
    BY <1>1, <1>6 DEF References
  <2>2. printed' \in Seq(AllSlots')
    BY <2>1, EmptySeq
  <2>3. DoneNotes' = {}
    BY <2>1 DEF DoneNotes
  <2>4. IsInjective(printed') /\ ToSet(printed') = {}
    BY <2>1 DEF IsInjective, ToSet
  <2>5. References(printed)' = <<>>
    BY <2>1 DEF References
  <2> QED
    BY <1>1, <2>1, <2>2, <2>3, <2>4, <2>5 DEF PrintedOK, DoneNotes
<1> QED
  BY <1>1, <1>3, <1>4, <1>5, <1>7, <1>8, <1>9 DEF IInv

LEMMA FailStep ==
  ASSUME IInv, Elsewhere, NEW f \in Failures, Fail(f), f \in {"archive", "parse error"} \/ Located
  PROVE  IInv'
BY PhaseKept DEF Fail, Elsewhere

LEMMA ChooseStep ==
  ASSUME IInv, ChooseAll \/ ChooseObject \/ ChooseEntry
  PROVE  IInv'
<1>1. phase = "targets" /\ Located /\ Elsewhere
  BY DEF ChooseAll, ChooseObject, ChooseEntry, Located
<1>2. Len(module.objects) \in Nat /\ RequestOK(request)
  BY ModuleFacts DEF IInv, FrontInv, InputOK
<1>3. entry \in EntryRecord \cup {None}
  BY DEF IInv, FrontInv, EntryOK
<1>4. \A k : EntryOffset(k) \in Nat
  BY <1>3 DEF EntryOffset, EntryRecord
<1>5. "panic" \in Failures /\ "usage error" \in Failures
  BY DEF Failures
<1>6. \A k \in Objects : \A o \in Nat : <<[object |-> k, offset |-> o]>> \in Seq([object : Objects, offset : Nat])
  OBVIOUS
<1>7. CASE ChooseAll
  <2> DEFINE ts == [k \in Objects |-> [object |-> k, offset |-> EntryOffset(k)]]
  <2>1. ts \in Seq([object : Objects, offset : Nat]) /\ Len(ts) = Len(module.objects)
        /\ \A k \in Objects : ts[k].object = k
    BY <1>2, <1>4 DEF Objects
  <2>2. Choose(ts)
    BY <1>7 DEF ChooseAll
  <2> HIDE DEF ts
  <2> QED
    BY <1>1, <2>1, <2>2, ChosenTargets
<1>8. CASE ChooseObject
  <2> DEFINE k == request.object
             o == IF request.offset # None THEN request.offset ELSE EntryOffset(k)
  <2>1. /\ ~request.all
        /\ \/ Fail("panic") \/ Fail("usage error")
           \/ k \in Objects /\ Choose(<<[object |-> k, offset |-> o]>>)
    BY <1>8 DEF ChooseObject
  <2>2. o \in Nat
    BY <1>2, <1>4 DEF RequestOK
  <2> HIDE DEF k, o
  <2>3. CASE Fail("panic") \/ Fail("usage error")
    BY <1>1, <1>5, <2>3, FailStep
  <2>4. CASE k \in Objects /\ Choose(<<[object |-> k, offset |-> o]>>)
    BY <1>1, <1>6, <2>1, <2>2, <2>4, ChosenTargets
  <2> QED
    BY <2>1, <2>3, <2>4
<1>9. CASE ChooseEntry
  <2> DEFINE o == IF request.offset # None THEN request.offset ELSE entry.offset
  <2>1. /\ ~request.all
        /\ \/ Fail("usage error")
           \/ entry # None /\ Choose(<<[object |-> entry.object, offset |-> o]>>)
    BY <1>9 DEF ChooseEntry
  <2>2. entry # None => entry.object \in Objects /\ o \in Nat
    BY <1>2, <1>3 DEF RequestOK, EntryRecord
  <2> HIDE DEF o
  <2>3. CASE Fail("usage error")
    BY <1>1, <1>5, <2>3, FailStep
  <2>4. CASE entry # None /\ Choose(<<[object |-> entry.object, offset |-> o]>>)
    BY <1>1, <1>6, <2>1, <2>2, <2>4, ChosenTargets
  <2> QED
    BY <2>1, <2>3, <2>4
<1> QED
  BY <1>7, <1>8, <1>9

(* The window of a target: numbers, and within the object.                 *)
LEMMA WindowType ==
  ASSUME InputOK, targets \in Seq([object : Objects, offset : Nat]),
         current \in 1 .. Len(targets)
  PROVE  /\ Target.object \in Objects /\ Target.offset \in Nat
         /\ Vsize(Target.object) \in Nat
         /\ WindowStart \in Nat /\ WindowLength \in Nat
         /\ WindowStart + WindowLength <= Vsize(Target.object)
<1> DEFINE o == Target.offset
           v == Vsize(Target.object)
           c == request.count
<1>1. Target \in [object : Objects, offset : Nat]
  BY ElementOfSeq DEF Target
<1>2. Target.object \in Objects /\ o \in Nat
  BY <1>1
<1>3. v \in Nat
  BY <1>2, ModuleFacts DEF InputOK, Vsize, ObjectRecord
<1>4. c \in Nat \cup {None}
  BY DEF InputOK, RequestOK
<1>5. /\ WindowStart = IF o < v THEN o ELSE v
      /\ WindowLength = IF v - o <= 0 THEN 0
                        ELSE IF c # None /\ c < v - o THEN c ELSE v - o
  BY DEF WindowStart, WindowLength
<1> HIDE DEF o, v, c
<1>6. WindowStart \in Nat /\ WindowLength \in Nat /\ WindowStart + WindowLength <= v
  BY <1>2, <1>3, <1>4, <1>5
<1> QED
  BY <1>2, <1>3, <1>6 DEF o, v

LEMMA BeginListingStep ==
  ASSUME IInv, BeginListing
  PROVE  IInv'
<1> DEFINE map == IF request.fixups THEN by_object[Target.object] ELSE [at \in {} |-> <<>>]
<1>1. /\ phase = "image" /\ phase' = "sweep" /\ current <= Len(targets)
      /\ StartSweep(WindowStart, WindowLength, map)
      /\ UNCHANGED <<locateVars, entryVars, mapVars, request, entry, targetVars>>
  BY DEF BeginListing, Listing
<1>2. UNCHANGED <<file, location, header, module, next, by_object, request, targets, current,
                  printed, named>>
  BY <1>1 DEF locateVars, entryVars, mapVars, targetVars
<1>3. InputOK /\ TargetsOK /\ MapsInv /\ module \in Modules
  BY DEF IInv, FrontInv, InputOK
<1>4. current \in 1 .. Len(targets) /\ targets \in Seq([object : Objects, offset : Nat])
  <2>1. Len(targets) \in Nat /\ current \in 1 .. Len(targets) + 1
        /\ targets \in Seq([object : Objects, offset : Nat])
    BY <1>3, LenProperties DEF TargetsOK
  <2> DEFINE n == Len(targets)
  <2> HIDE DEF n
  <2>2. n \in Nat /\ current \in 1 .. n + 1 /\ current <= n
    BY <1>1, <2>1 DEF n
  <2>3. current \in 1 .. n
    BY <2>2
  <2> QED
    BY <2>1, <2>3 DEF n
<1>5. Target.object \in Objects /\ WindowStart \in Nat /\ WindowLength \in Nat
  BY <1>3, <1>4, WindowType
<1>6. NoteMap(map) /\ \A at \in DOMAIN map : ToSet(map[at]) \subseteq AllSlots
  <2>1. CASE request.fixups
    <3>1. NoteMap(by_object[Target.object])
      BY <1>3, <1>5 DEF MapsInv, MapsTyped
    <3>2. \A at \in DOMAIN by_object[Target.object] :
            \A n \in ToSet(by_object[Target.object][at]) : n \in AllSlots
      BY <1>3, <1>5 DEF MapsInv, NotesPlaced, Seen
    <3> QED
      BY <2>1, <3>1, <3>2
  <2>2. CASE ~request.fixups
    BY <2>2 DEF NoteMap
  <2> QED
    BY <2>1, <2>2
<1>7. FrontInv'
  BY <1>1, <1>2, FrontKept DEF IInv, Located
<1>8. MapsInv'
  BY <1>1, <1>3, MapsStutter
<1>9. SweepInv'
  BY <1>1, <1>5, StartSweepInv
<1>10. TargetsOK'
  BY <1>1, <1>2, <1>3, TargetsKept DEF Chosen, Early
<1>11. WindowOK'
  <2>1. start' = WindowStart /\ length' = WindowLength /\ notes' = map
    BY <1>1 DEF StartSweep
  <2>2. WindowStart' = WindowStart /\ WindowLength' = WindowLength /\ Target' = Target
    BY <1>2 DEF WindowStart, WindowLength, Target, Vsize
  <2>3. AllSlots' = AllSlots
    BY <1>2, SlotsKept
  <2>4. request.fixups => notes' = by_object[Target.object]
    BY <2>1
  <2> HIDE DEF map
  <2>5. NoteMap(notes)' /\ \A at \in DOMAIN notes' : ToSet(notes'[at]) \subseteq AllSlots'
    BY <1>6, <2>1, <2>3 DEF NoteMap
  <2> QED
    BY <1>2, <2>1, <2>2, <2>4, <2>5 DEF WindowOK
<1>12. PrintedOK'
  BY <1>1, <1>2, PrintedKept DEF IInv, Chosen, Early
<1> QED
  BY <1>1, <1>7, <1>8, <1>9, <1>10, <1>11, <1>12 DEF IInv

LEMMA SweepListingStep ==
  ASSUME IInv, Sweep
  PROVE  IInv'
<1>1. /\ phase = "sweep" /\ phase' = phase /\ SweepNext
      /\ UNCHANGED <<locateVars, entryVars, mapVars, request, entry, targetVars>>
  BY DEF Sweep, runVars
<1>2. UNCHANGED <<file, location, header, module, next, by_object, request, targets, current,
                  printed, named>>
  BY <1>1 DEF locateVars, entryVars, mapVars, targetVars
<1>3. UNCHANGED <<start, length, notes>>
  BY <1>1 DEF SweepNext, DataByte, Instruction
<1>4. FrontInv'
  BY <1>1, <1>2, FrontKept DEF IInv, Located
<1>5. MapsInv'
  BY <1>1, MapsStutter DEF IInv
<1>6. SweepInv'
  BY <1>1, SweepStep DEF IInv, WindowOK
<1>7. TargetsOK'
  BY <1>1, <1>2, TargetsKept DEF IInv, TargetsOK, Chosen, Early
<1>8. WindowOK'
  <2>1. WindowStart' = WindowStart /\ WindowLength' = WindowLength /\ Target' = Target
    BY <1>2 DEF WindowStart, WindowLength, Target, Vsize
  <2>2. AllSlots' = AllSlots
    BY <1>2, SlotsKept
  <2> QED
    BY <1>1, <1>2, <1>3, <2>1, <2>2 DEF IInv, WindowOK, NoteMap
<1>9. PrintedOK'
  BY <1>1, <1>2, PrintedKept DEF IInv, Chosen, Early
<1> QED
  BY <1>1, <1>4, <1>5, <1>6, <1>7, <1>8, <1>9 DEF IInv

(* What a finished sweep has to print.                                     *)
LEMMA ListedNotes ==
  ASSUME SweepInv, WindowOK, Swept
  PROVE  /\ LineNotes = NotesIn(start, length) /\ LineNotes \in Seq(AllSlots)
         /\ \A s \in {Cells(start, length)} :
              /\ s \in Seq(Seq(AllSlots)) /\ Len(s) = length /\ LineNotes = FlattenSeq(s)
<1>1. start \in Nat /\ length \in Nat /\ off \in 0 .. length /\ LineNotes = NotesIn(start, off)
  BY DEF SweepInv, SweepTyped
<1>2. off = length
  BY <1>1 DEF Swept
<1>3. NoteMap(notes) /\ \A at \in DOMAIN notes : ToSet(notes[at]) \subseteq AllSlots
  BY DEF WindowOK
<1> DEFINE s == Cells(start, length)
<1>4. s \in Seq(Seq(Note)) /\ Len(s) = length /\ NotesIn(start, length) = FlattenSeq(s)
  BY <1>1, <1>3, CellsType
<1>5. \A at \in DOMAIN notes : notes[at] \in Seq(AllSlots)
  <2> SUFFICES ASSUME NEW at \in DOMAIN notes
               PROVE  notes[at] \in Seq(AllSlots)
    OBVIOUS
  <2> DEFINE u == notes[at]
  <2>1. u \in Seq(Note) /\ ToSet(u) \subseteq AllSlots
    BY <1>3 DEF NoteMap, Note
  <2> HIDE DEF u
  <2>2. u \in [1 .. Len(u) -> AllSlots] /\ Len(u) \in Nat
    BY <2>1, LenProperties DEF ToSet
  <2>3. u \in Seq(AllSlots)
    BY <2>2, SeqDef
  <2> QED
    BY <2>3 DEF u
<1>6. s \in Seq(Seq(AllSlots))
  <2>1. s \in [1 .. length -> Seq(AllSlots)]
    BY <1>5, EmptySeq DEF Cells
  <2> QED
    BY <1>1, <2>1, SeqDef
<1> HIDE DEF s
<1>7. LineNotes = FlattenSeq(s) /\ LineNotes \in Seq(AllSlots)
  BY <1>1, <1>2, <1>4, <1>6, FlattenType
<1> QED
  BY <1>1, <1>2, <1>4, <1>6, <1>7 DEF s

(* Listed in full, an object's notes are printed once each.                *)
LEMMA FullListing ==
  ASSUME module \in Modules, MapsInv, SweepInv, WindowOK, Swept,
         NEW k \in Objects, notes = by_object[k], start = 0, length = Vsize(k)
  PROVE  IsInjective(LineNotes) /\ ToSet(LineNotes) = NotesOn(k)
<1> DEFINE s == Cells(start, length)
<1>1. s \in Seq(Seq(AllSlots)) /\ Len(s) = length /\ LineNotes = FlattenSeq(s)
  BY ListedNotes
<1>2. length \in Nat
  BY DEF SweepInv, SweepTyped
<1>3. \A i \in 1 .. length : s[i] = IF i - 1 \in DOMAIN notes THEN notes[i - 1] ELSE <<>>
  BY DEF Cells
<1>4. \A at \in DOMAIN notes :
        /\ IsInjective(notes[at])
        /\ \A n \in ToSet(notes[at]) : n \in Seen /\ Mapped(n) /\ k = Home(n) /\ at = Spot(n)
  BY DEF MapsInv, NotesPlaced
<1>5. IsInjective(<<>>) /\ ToSet(<<>>) = {}
  BY DEF IsInjective, ToSet
<1> HIDE DEF s
<1>6. Disjoint(s)
  <2>1. \A i \in 1 .. length : /\ IsInjective(s[i])
                               /\ \A n \in ToSet(s[i]) : i - 1 = Spot(n)
    BY <1>3, <1>4, <1>5
  <2>2. ASSUME NEW i \in 1 .. length, NEW j \in 1 .. length, i # j
        PROVE  ToSet(s[i]) \cap ToSet(s[j]) = {}
    <3> SUFFICES ASSUME NEW n \in ToSet(s[i]), n \in ToSet(s[j])
                 PROVE  FALSE
      OBVIOUS
    <3>1. i - 1 = Spot(n) /\ j - 1 = Spot(n)
      BY <2>1
    <3> DEFINE at == Spot(n)
    <3> HIDE DEF at
    <3>2. i - 1 = at /\ j - 1 = at
      BY <3>1 DEF at
    <3>3. i = j
      BY <3>2
    <3> QED
      BY <2>2, <3>3
  <2> QED
    BY <1>1, <2>1, <2>2 DEF Disjoint
<1>7. IsInjective(LineNotes)
  BY <1>1, <1>6, FlattenInjective
<1>8. ToSet(LineNotes) = UNION {ToSet(s[i]) : i \in 1 .. Len(s)}
  BY <1>1, FlattenMembers
<1>9. ASSUME NEW n \in ToSet(LineNotes)
      PROVE  n \in NotesOn(k)
  <2>1. PICK i \in 1 .. length : n \in ToSet(s[i])
    BY <1>1, <1>8
  <2>2. i - 1 \in DOMAIN notes /\ n \in ToSet(notes[i - 1])
    BY <1>3, <1>5, <2>1
  <2> QED
    BY <2>2 DEF NotesOn
<1>10. ASSUME NEW n \in NotesOn(k)
       PROVE  n \in ToSet(LineNotes)
  <2>1. PICK at \in DOMAIN notes : n \in ToSet(notes[at])
    BY DEF NotesOn
  <2>2. at = Spot(n) /\ Mapped(n) /\ k = Home(n)
    BY <1>4, <2>1
  <2>3. at < length
    BY <2>2 DEF Mapped, Vsize
  <2>4. at \in Nat
    BY DEF WindowOK, NoteMap
  <2>5. at + 1 \in 1 .. length /\ (at + 1) - 1 = at
    BY <1>2, <2>3, <2>4
  <2>6. s[at + 1] = notes[at]
    BY <1>3, <2>5
  <2> QED
    BY <1>1, <1>8, <2>1, <2>5, <2>6
<1> QED
  BY <1>7, <1>9, <1>10

LEMMA ReferencesConcat ==
  ASSUME NEW T, NEW s \in Seq(T), NEW t \in Seq(T)
  PROVE  References(s \o t) = References(s) \o References(t)
<1> DEFINE N == Len(s)
           M == Len(t)
           u == s \o t
<1>1. /\ N \in Nat /\ M \in Nat /\ Len(u) = N + M
      /\ \A i \in 1 .. N + M : u[i] = IF i <= N THEN s[i] ELSE t[i - N]
  BY ConcatProperties, LenProperties
<1> DEFINE f == References(s)
           g == References(t)
<1>2. /\ f = [i \in 1 .. N |-> Reference(TargetOf(s[i]))] /\ Len(f) = N
      /\ g = [i \in 1 .. M |-> Reference(TargetOf(t[i]))] /\ Len(g) = M
  BY <1>1 DEF References
<1>3. References(u) = [i \in 1 .. N + M |-> Reference(TargetOf(u[i]))]
  BY <1>1 DEF References
<1> HIDE DEF u, f, g, N, M
<1>4. f \o g = [i \in 1 .. N + M |-> IF i <= N THEN f[i] ELSE g[i - N]]
  BY <1>1, <1>2
<1>5. ASSUME NEW i \in 1 .. N + M
      PROVE  Reference(TargetOf(u[i])) = IF i <= N THEN f[i] ELSE g[i - N]
  <2>1. CASE i <= N
    BY <1>1, <1>2, <2>1
  <2>2. CASE ~(i <= N)
    <3>1. i - N \in 1 .. M
      BY <1>1, <2>2
    <3> QED
      BY <1>1, <1>2, <2>2, <3>1
  <2> QED
    BY <2>1, <2>2
<1>6. References(u) = f \o g
  BY <1>3, <1>4, <1>5
<1> QED
  BY <1>6 DEF u, f, g

LEMMA EndListingStep ==
  ASSUME IInv, EndListing
  PROVE  IInv'
<1> DEFINE N == Len(printed)
           M == Len(LineNotes)
<1>1. /\ phase = "sweep" /\ Swept /\ phase' = "image" /\ current' = current + 1
      /\ printed' = printed \o LineNotes /\ named' = named \o References(LineNotes)
      /\ UNCHANGED <<locateVars, entryVars, mapVars, sweepVars, request, entry, targets>>
  BY DEF EndListing, Elsewhere
<1>2. UNCHANGED <<file, location, header, module, next, by_object, request, targets,
                  start, length, notes>>
  BY <1>1 DEF locateVars, entryVars, mapVars, sweepVars
<1>3. /\ InputOK /\ TargetsOK /\ MapsInv /\ module \in Modules /\ SweepInv /\ WindowOK /\ PrintedOK
      /\ RequestOK(request)
  BY DEF IInv, FrontInv, InputOK
<1>4. AllSlots' = AllSlots /\ Objects' = Objects /\ (Placing' <=> Placing)
  BY <1>2, SlotsKept DEF Placing
<1>5. /\ Len(targets) \in Nat /\ current \in Nat \ {0} /\ current <= Len(targets)
      /\ targets \in Seq([object : Objects, offset : Nat])
  BY <1>1, <1>3, LenProperties DEF TargetsOK
<1>6. current \in 1 .. Len(targets) /\ current' \in 1 .. Len(targets) + 1
  <2> DEFINE n == Len(targets)
  <2> HIDE DEF n
  <2>1. n \in Nat /\ current \in Nat \ {0} /\ current <= n
    BY <1>5 DEF n
  <2>2. current \in 1 .. n /\ current + 1 \in 1 .. n + 1
    BY <2>1
  <2> QED
    BY <1>1, <2>2 DEF n
<1>7. FrontInv'
  BY <1>1, <1>2, FrontKept DEF IInv, Located
<1>8. MapsInv'
  BY <1>1, <1>3, MapsStutter
<1>9. SweepInv'
  BY <1>1, <1>3, SweepStutter
<1>10. TargetsOK'
  BY <1>1, <1>2, <1>3, <1>4, <1>5, <1>6 DEF TargetsOK, Chosen
<1>11. WindowOK'
  BY <1>1, <1>2, <1>3, <1>4 DEF WindowOK, NoteMap
<1>12. printed \in Seq(AllSlots) /\ LineNotes \in Seq(AllSlots) /\ N \in Nat /\ M \in Nat
  BY <1>1, <1>3, ListedNotes, LenProperties DEF PrintedOK
<1>13. printed' \in Seq(AllSlots)
  BY <1>1, <1>12, ConcatProperties
<1>14. named' = References(printed')
  BY <1>1, <1>3, <1>12, ReferencesConcat DEF PrintedOK
<1>15. PrintedOK'
  <2>1. \A ns : References(ns)' = References(ns)
    BY <1>2, NamesKept
  <2>2. named' = References(printed)'
    BY <1>14, <2>1
  <2>3. InFull' <=> InFull
    BY <1>2 DEF InFull
  <2>4. ASSUME InFull
        PROVE  IsInjective(printed') /\ ToSet(printed') = DoneNotes'
    <3>1. /\ IsInjective(printed) /\ ToSet(printed) = DoneNotes
          /\ \A k \in Objects : targets[k].object = k
          /\ Len(targets) = Len(module.objects)
      BY <1>1, <1>3, <2>4 DEF PrintedOK, TargetsOK, Chosen, InFull, DoneNotes
    <3>2. current \in Objects /\ Target.object = current /\ Target.offset = 0
      BY <1>6, <2>4, <3>1 DEF Objects, Target, InFull
    <3>3. Vsize(current) \in Nat
      BY <1>3, <1>5, <1>6, <3>2, WindowType
    <3>4. start = 0 /\ length = Vsize(current) /\ notes = by_object[current]
      <4> DEFINE v == Vsize(current)
      <4>1. /\ start = WindowStart /\ length = WindowLength
            /\ notes = by_object[current] /\ request.count = None
        BY <1>1, <1>3, <2>4, <3>2 DEF WindowOK, InFull
      <4>2. /\ WindowStart = IF 0 < v THEN 0 ELSE v
            /\ WindowLength = IF v - 0 <= 0 THEN 0 ELSE v - 0
        BY <3>2, <4>1 DEF WindowStart, WindowLength
      <4> HIDE DEF v
      <4>3. v \in Nat
        BY <3>3 DEF v
      <4>4. WindowStart = 0 /\ WindowLength = v
        BY <4>2, <4>3
      <4> QED
        BY <4>1, <4>4 DEF v
    <3>5. IsInjective(LineNotes) /\ ToSet(LineNotes) = NotesOn(current)
      BY <1>1, <1>3, <3>2, <3>4, FullListing
    <3>6. ToSet(printed) \cap ToSet(LineNotes) = {}
      <4>1. \A k \in 1 .. current - 1 : k \in Objects /\ k # current
        BY <3>2, <1>3, ModuleFacts DEF Objects
      <4>2. \A k \in Objects : NotesOn(k) = {n \in Seen : Mapped(n) /\ Home(n) = k}
        BY <1>3, NotesAre
      <4>3. \A k \in 1 .. current - 1 : NotesOn(k) \cap NotesOn(current) = {}
        BY <3>2, <4>1, <4>2
      <4> QED
        BY <3>1, <3>5, <4>3 DEF DoneNotes
    <3>7. IsInjective(printed')
      BY <1>1, <1>12, <3>1, <3>5, <3>6, InjectiveConcat
    <3>8. ToSet(printed') = ToSet(printed) \cup ToSet(LineNotes)
      BY <1>1, <1>12, ToSetConcat
    <3>9. DoneNotes' = DoneNotes \cup NotesOn(current)
      <4>1. DoneNotes' = UNION {NotesOn(k) : k \in 1 .. current}
        <5>1. \A k : NotesOn(k)' = NotesOn(k)
          BY <1>2 DEF NotesOn
        <5>2. current' - 1 = current
          BY <1>1, <1>5
        <5> QED
          BY <5>1, <5>2 DEF DoneNotes
      <4>2. 1 .. current = (1 .. current - 1) \cup {current}
        BY <1>5
      <4> QED
        BY <4>1, <4>2 DEF DoneNotes
    <3> QED
      BY <3>1, <3>5, <3>7, <3>8, <3>9
  <2>5. Base' >= 0
    <3>1. Base' = Base
      BY <1>2 DEF Base, HeaderOffset, Holds, Word, Dword, FileByte
    <3>2. Base = location.header_at - location.frame_at
      BY <1>1 DEF IInv, FrontInv, ViewFindsImage, Located, Base
    <3> QED
      BY <3>1, <3>2 DEF IInv, FrontInv, LocationOK
  <2> QED
    BY <1>1, <1>4, <1>13, <2>2, <2>3, <2>4, <2>5 DEF PrintedOK, DoneNotes
<1> QED
  BY <1>1, <1>7, <1>8, <1>9, <1>10, <1>11, <1>15 DEF IInv

-----------------------------------------------------------------------------
(* IInv is invariant: the steps above are all there are.                   *)

LEMMA NextIInv ==
  ASSUME IInv, [Next]_vars
  PROVE  IInv'
<1>1. CASE RefuseFile
  <2>1. Elsewhere /\ (Fail("archive") \/ Fail("parse error"))
    BY <1>1 DEF RefuseFile
  <2>2. "archive" \in Failures /\ "parse error" \in Failures
    BY DEF Failures
  <2> QED
    BY <2>1, <2>2, FailStep
<1>2. CASE RefuseTables \/ MapsFail \/ ImageFails
  <2>1. Elsewhere /\ Fail("parse error")
    BY <1>2 DEF RefuseTables, MapsFail, ImageFails
  <2>2. "parse error" \in Failures
    BY DEF Failures
  <2> QED
    BY <2>1, <2>2, FailStep
<1>3. CASE PrintingPanics
  <2>1. Elsewhere /\ Fail("panic") /\ Located
    BY <1>3 DEF PrintingPanics, Located
  <2>2. "panic" \in Failures
    BY DEF Failures
  <2> QED
    BY <2>1, <2>2, FailStep
<1>4. CASE Locate
  BY <1>4, LocateStep
<1>5. CASE ReadEntryTable
  BY <1>5, ReadEntryTableStep
<1>6. CASE EntryFromHeader \/ EntryFromTable \/ NoEntry
  BY <1>6, EntryStep
<1>7. CASE BuildMaps
  BY <1>7, BuildMapsStep
<1>8. CASE MapsBuilt
  BY <1>8, MapsBuiltStep
<1>9. CASE ChooseAll \/ ChooseObject \/ ChooseEntry
  BY <1>9, ChooseStep
<1>10. CASE BeginListing
  BY <1>10, BeginListingStep
<1>11. CASE Sweep
  BY <1>11, SweepListingStep
<1>12. CASE EndListing
  BY <1>12, EndListingStep
<1>13. CASE Finish
  BY <1>13, PhaseKept DEF Finish, Elsewhere
<1>14. CASE UNCHANGED vars
  BY <1>14, PhaseKept DEF vars, runVars
<1> QED
  BY <1>1, <1>2, <1>3, <1>4, <1>5, <1>6, <1>7, <1>8, <1>9, <1>10, <1>11, <1>12, <1>13,
     <1>14 DEF Next

(* The run keeps IInv, whatever it is given to list.                       *)
THEOREM Invariance == Spec => []IInv
<1>1. Init => IInv
  BY InitIInv
<1>2. IInv /\ [Next]_vars => IInv'
  BY NextIInv
<1> QED
  BY <1>1, <1>2, PTL DEF Spec

-----------------------------------------------------------------------------
(* The names of a table: where the walk of Names goes.                     *)

(* The names found from p on, a name's length behind the other.            *)
Walk(p, limit, s) ==
  /\ s \in Seq(Nat)
  /\ NameAt(p, limit) => Len(s) >= 1
  /\ Len(s) >= 1 => s[1] = p
  /\ \A j \in 1 .. Len(s) : NameAt(s[j], limit) /\ s[j] >= p
  /\ \A j \in 1 .. Len(s) : j + 1 <= Len(s) => s[j + 1] = After(s[j])
  /\ \A j, k \in 1 .. Len(s) : j < k => s[k] >= After(s[j])
  /\ \A j \in 1 .. Len(s) : NameAt(After(s[j]), limit) => j + 1 <= Len(s)

LEMMA AfterType ==
  ASSUME FileOK(file)
  PROVE  \A p \in Nat : CharLen(p) \in Nat /\ After(p) \in Nat /\ After(p) > p
<1> SUFFICES ASSUME NEW p \in Nat
             PROVE  CharLen(p) \in Nat /\ After(p) \in Nat /\ After(p) > p
  OBVIOUS
<1>1. ByteAt(p) \in 0 .. 255
  BY ByteType DEF ByteAt
<1>2. CharLen(p) \in Nat
  BY <1>1 DEF CharLen
<1> QED
  BY <1>2 DEF After

LEMMA WalkEnds ==
  ASSUME NEW p, NEW limit, ~NameAt(p, limit)
  PROVE  Walk(p, limit, <<>>)
<1>1. <<>> \in Seq(Nat) /\ Len(<<>>) = 0
  BY EmptySeq
<1> QED
  BY <1>1 DEF Walk

LEMMA WalkGoesOn ==
  ASSUME FileOK(file), NEW p \in Nat, NEW limit \in Int, NameAt(p, limit),
         NEW t, Walk(After(p), limit, t)
  PROVE  Walk(p, limit, <<p>> \o t)
<1> DEFINE s == <<p>> \o t
           q == After(p)
           n == Len(t)
<1>1. /\ t \in Seq(Nat) /\ n \in Nat /\ q \in Nat /\ q > p
      /\ NameAt(q, limit) => n >= 1
      /\ n >= 1 => t[1] = q
      /\ \A j \in 1 .. n : NameAt(t[j], limit) /\ t[j] >= q
      /\ \A j \in 1 .. n : j + 1 <= n => t[j + 1] = After(t[j])
      /\ \A j, k \in 1 .. n : j < k => t[k] >= After(t[j])
      /\ \A j \in 1 .. n : NameAt(After(t[j]), limit) => j + 1 <= n
  BY AfterType, LenProperties DEF Walk
<1>2. <<p>> \in Seq(Nat) /\ Len(<<p>>) = 1 /\ <<p>>[1] = p
  OBVIOUS
<1>3. /\ s \in Seq(Nat) /\ Len(s) = n + 1 /\ s[1] = p
      /\ \A j \in 1 .. n : s[j + 1] = t[j]
  <2>1. \A u, v \in Seq(Nat) :
          /\ u \o v \in Seq(Nat) /\ Len(u \o v) = Len(u) + Len(v)
          /\ \A i \in 1 .. Len(u) + Len(v) : (u \o v)[i] = IF i <= Len(u) THEN u[i] ELSE v[i - Len(u)]
    BY ConcatProperties
  <2>2. /\ s \in Seq(Nat) /\ Len(s) = 1 + n
        /\ \A i \in 1 .. 1 + n : s[i] = IF i <= 1 THEN <<p>>[i] ELSE t[i - 1]
    BY <1>1, <1>2, <2>1
  <2> HIDE DEF s, n
  <2>3. s[1] = p
    BY <1>1, <1>2, <2>2
  <2>4. ASSUME NEW j \in 1 .. n
        PROVE  s[j + 1] = t[j]
    <3>1. j + 1 \in 1 .. 1 + n /\ ~(j + 1 <= 1) /\ (j + 1) - 1 = j
      BY <1>1
    <3> QED
      BY <2>2, <3>1
  <2> QED
    BY <1>1, <2>2, <2>3, <2>4
<1> HIDE DEF s, q, n
<1>4. \A j \in 1 .. n + 1 : j = 1 \/ \E i \in 1 .. n : j = i + 1
  <2> SUFFICES ASSUME NEW j \in 1 .. n + 1, j # 1
               PROVE  \E i \in 1 .. n : j = i + 1
    OBVIOUS
  <2>1. j - 1 \in 1 .. n /\ j = (j - 1) + 1
    BY <1>1
  <2> QED
    BY <2>1
<1>5. \A j \in 1 .. n + 1 : NameAt(s[j], limit) /\ s[j] >= p
  <2> SUFFICES ASSUME NEW j \in 1 .. n + 1
               PROVE  NameAt(s[j], limit) /\ s[j] >= p
    OBVIOUS
  <2>1. CASE j = 1
    BY <1>3, <2>1
  <2>2. ASSUME NEW i \in 1 .. n, j = i + 1
        PROVE  NameAt(s[j], limit) /\ s[j] >= p
    <3>1. s[j] = t[i] /\ t[i] \in Nat
      BY <1>1, <1>3, <2>2, ElementOfSeq DEF n
    <3>2. NameAt(t[i], limit) /\ t[i] >= q
      BY <1>1
    <3> QED
      BY <1>1, <3>1, <3>2
  <2> QED
    BY <1>4, <2>1, <2>2
<1>6. \A j \in 1 .. n + 1 : j + 1 <= n + 1 => s[j + 1] = After(s[j])
  <2> SUFFICES ASSUME NEW j \in 1 .. n + 1, j + 1 <= n + 1
               PROVE  s[j + 1] = After(s[j])
    OBVIOUS
  <2>1. j \in 1 .. n /\ s[j + 1] = t[j]
    BY <1>1, <1>3
  <2>2. CASE j = 1
    BY <1>1, <1>3, <2>1, <2>2 DEF q
  <2>3. ASSUME NEW i \in 1 .. n, j = i + 1
        PROVE  s[j + 1] = After(s[j])
    <3>1. s[j] = t[i]
      BY <1>3, <2>3
    <3>2. t[i + 1] = After(t[i])
      BY <1>1, <2>1, <2>3
    <3> QED
      BY <2>1, <2>3, <3>1, <3>2
  <2> QED
    BY <1>4, <2>2, <2>3
<1>7. \A j, k \in 1 .. n + 1 : j < k => s[k] >= After(s[j])
  <2> SUFFICES ASSUME NEW j \in 1 .. n + 1, NEW k \in 1 .. n + 1, j < k
               PROVE  s[k] >= After(s[j])
    OBVIOUS
  <2>1. PICK m \in 1 .. n : k = m + 1
    BY <1>1, <1>4
  <2>2. s[k] = t[m]
    BY <1>3, <2>1
  <2>3. CASE j = 1
    BY <1>1, <1>3, <2>2, <2>3 DEF q
  <2>4. ASSUME NEW i \in 1 .. n, j = i + 1
        PROVE  s[k] >= After(s[j])
    <3>1. s[j] = t[i] /\ i < m
      BY <1>3, <2>1, <2>4
    <3>2. t[m] >= After(t[i])
      BY <1>1, <3>1
    <3> QED
      BY <2>2, <3>1, <3>2
  <2> QED
    BY <1>4, <2>3, <2>4
<1>8. \A j \in 1 .. n + 1 : NameAt(After(s[j]), limit) => j + 1 <= n + 1
  <2> SUFFICES ASSUME NEW j \in 1 .. n + 1, NameAt(After(s[j]), limit)
               PROVE  j + 1 <= n + 1
    OBVIOUS
  <2>1. CASE j = 1
    <3>1. NameAt(q, limit)
      BY <1>3, <2>1 DEF q
    <3> QED
      BY <1>1, <2>1, <3>1
  <2>2. ASSUME NEW i \in 1 .. n, j = i + 1
        PROVE  j + 1 <= n + 1
    <3>1. s[j] = t[i]
      BY <1>3, <2>2
    <3>2. i + 1 <= n
      BY <1>1, <3>1
    <3> QED
      BY <1>1, <2>2, <3>2
  <2> QED
    BY <1>4, <2>1, <2>2
<1>9. Len(s) >= 1
  BY <1>1, <1>3
<1>10. Walk(p, limit, s)
  BY <1>3, <1>5, <1>6, <1>7, <1>8, <1>9 DEF Walk
<1> QED
  BY <1>10 DEF s

(***************************************************************************)
(* The recursion of Names has a solution: after as many rounds as limit    *)
(* the functions that unroll it no longer change.                          *)
(***************************************************************************)
NamesFrom(f, p, limit) == IF NameAt(p, limit) THEN <<p>> \o f[After(p)] ELSE <<>>

LEMMA NamesDefined ==
  ASSUME FileOK(file), NEW limit \in Nat
  PROVE  \E f : f = [p \in Nat |-> NamesFrom(f, p, limit)]
<1> DEFINE V == [Nat -> Seq(Nat)]
           c == [p \in Nat |-> <<>>]
           Round(h) == [p \in Nat |-> NamesFrom(h, p, limit)]
           F == [e \in Nat \X V |-> Round(e[2])]
<1>1. \A p \in Nat : After(p) \in Nat /\ After(p) > p
  BY AfterType
<1>2. c \in V
  BY EmptySeq
<1>3. ASSUME NEW h \in V
      PROVE  Round(h) \in V
  <2> SUFFICES ASSUME NEW p \in Nat
               PROVE  NamesFrom(h, p, limit) \in Seq(Nat)
    OBVIOUS
  <2>1. h[After(p)] \in Seq(Nat) /\ <<p>> \in Seq(Nat)
    BY <1>1
  <2> DEFINE u == <<p>>
             v == h[After(p)]
  <2> HIDE DEF u, v
  <2>2. u \o v \in Seq(Nat)
    BY <2>1, ConcatProperties DEF u, v
  <2> QED
    BY <2>2, EmptySeq DEF NamesFrom, u, v
<1>4. F \in [Nat \X V -> V]
  BY <1>3
<1> HIDE DEF V, c, F, Round
<1>5. PICK g : Steps(g, c, F, V)
  BY <1>2, <1>4, Recursion
<1>6. g \in [Nat -> V] /\ g[0] = c /\ \A n \in Nat : g[n + 1] = Round(g[n])
  BY <1>5 DEF Steps, F
<1> DEFINE S == {n \in Nat : \A p \in Nat : p + n >= limit => g[n + 1][p] = g[n][p]}
<1>7. \A n \in Nat : \A p \in Nat : g[n + 1][p] = NamesFrom(g[n], p, limit)
  BY <1>6 DEF Round
<1>8. 0 \in S
  <2> SUFFICES ASSUME NEW p \in Nat, p + 0 >= limit
               PROVE  g[0 + 1][p] = g[0][p]
    OBVIOUS
  <2>1. ~NameAt(p, limit)
    BY DEF NameAt
  <2>2. g[0 + 1][p] = <<>>
    BY <1>7, <2>1 DEF NamesFrom
  <2> QED
    BY <1>6, <2>2 DEF c
<1>9. ASSUME NEW n \in Nat, n \in S
      PROVE  n + 1 \in S
  <2> SUFFICES ASSUME NEW p \in Nat, p + (n + 1) >= limit
               PROVE  g[(n + 1) + 1][p] = g[n + 1][p]
    BY DEF S
  <2>1. g[(n + 1) + 1][p] = NamesFrom(g[n + 1], p, limit) /\ g[n + 1][p] = NamesFrom(g[n], p, limit)
    BY <1>7
  <2> DEFINE q == After(p)
  <2> HIDE DEF q
  <2>2. q \in Nat /\ q + n >= limit
    BY <1>1 DEF q
  <2>3. g[n + 1][q] = g[n][q]
    BY <1>9, <2>2
  <2> QED
    BY <2>1, <2>3 DEF NamesFrom, q
<1>10. limit \in S
  <2> HIDE DEF S
  <2> QED
    BY <1>8, <1>9, Induction
<1>11. \A p \in Nat : g[limit + 1][p] = g[limit][p]
  BY <1>10
<1>12. g[limit] = [p \in Nat |-> NamesFrom(g[limit], p, limit)]
  <2>1. g[limit] \in [Nat -> Seq(Nat)]
    BY <1>6 DEF V
  <2>2. \A p \in Nat : g[limit][p] = NamesFrom(g[limit], p, limit)
    BY <1>7, <1>11
  <2> QED
    BY <2>1, <2>2
<1> QED
  BY <1>12

LEMMA NamesWalk ==
  ASSUME FileOK(file), NEW first \in Nat, NEW limit \in Int
  PROVE  Walk(first, limit, Names(first, limit))
<1> DEFINE Eq(f) == f = [p \in Nat |-> NamesFrom(f, p, limit)]
           from == CHOOSE f : Eq(f)
<1>1. Names(first, limit) = from[first]
  BY DEF Names, NamesFrom
<1>2. \E f : Eq(f)
  <2>1. CASE limit \in Nat
    BY <2>1, NamesDefined
  <2>2. CASE limit \notin Nat
    <3>1. \A p \in Nat : ~NameAt(p, limit)
      BY <2>2 DEF NameAt
    <3> DEFINE none == [p \in Nat |-> <<>>]
    <3>2. \A p \in Nat : NamesFrom(none, p, limit) = <<>>
      BY <3>1 DEF NamesFrom
    <3>3. Eq(none)
      BY <3>2
    <3> QED
      BY <3>3
  <2> QED
    BY <2>1, <2>2
<1>3. Eq(from)
  <2> HIDE DEF Eq
  <2> QED
    BY <1>2
<1>4. \A p \in Nat : from[p] = NamesFrom(from, p, limit)
  <2>1. from = [p \in Nat |-> NamesFrom(from, p, limit)]
    BY <1>3
  <2> HIDE DEF from
  <2> QED
    BY <2>1
<1> HIDE DEF from
<1>5. \A p \in Nat : After(p) \in Nat /\ After(p) > p
  BY AfterType
<1> DEFINE S == {n \in Nat : \A p \in Nat : p + n >= limit => Walk(p, limit, from[p])}
<1>6. \A p \in Nat : ~NameAt(p, limit) => Walk(p, limit, from[p])
  BY <1>4, WalkEnds DEF NamesFrom
<1>7. 0 \in S
  <2>1. \A p \in Nat : p + 0 >= limit => ~NameAt(p, limit)
    BY DEF NameAt
  <2> QED
    BY <1>6, <2>1
<1>8. ASSUME NEW n \in Nat, n \in S
      PROVE  n + 1 \in S
  <2> SUFFICES ASSUME NEW p \in Nat, p + (n + 1) >= limit, NameAt(p, limit)
               PROVE  Walk(p, limit, from[p])
    BY <1>6
  <2> DEFINE q == After(p)
  <2> HIDE DEF q
  <2>1. q \in Nat /\ q + n >= limit
    BY <1>5 DEF q
  <2>2. Walk(q, limit, from[q])
    BY <1>8, <2>1
  <2>3. Walk(p, limit, <<p>> \o from[q])
    BY <2>2, WalkGoesOn DEF q
  <2>4. from[p] = <<p>> \o from[q]
    BY <1>4 DEF NamesFrom, q
  <2> QED
    BY <2>3, <2>4
<1>9. \A n \in Nat : n \in S
  <2> HIDE DEF S
  <2> QED
    BY <1>7, <1>8, Induction
<1>10. PICK n \in Nat : first + n >= limit
  <2>1. CASE limit \in Nat
    <3>1. first + limit >= limit
      BY <2>1
    <3> QED
      BY <2>1, <3>1
  <2>2. CASE limit \notin Nat
    <3>1. first + 0 >= limit
      BY <2>2
    <3> QED
      BY <3>1
  <2> QED
    BY <2>1, <2>2
<1>11. Walk(first, limit, from[first])
  BY <1>9, <1>10
<1> QED
  BY <1>1, <1>11

-----------------------------------------------------------------------------
(* The names that are shown *)

(* The names of the two import tables, where the walks start and end.      *)
LEMMA TablesWalk ==
  ASSUME FileOK(file), HeaderOK(header), LocationOK, Base >= 0
  PROVE  /\ ModulesStart \in Nat /\ ProceduresStart \in Nat
         /\ \E limit \in Int : HasModules => Walk(ModulesStart, limit, ImportModules)
         /\ FirstName \in Nat
         /\ HasProcedures => Walk(FirstName, ProceduresEnd, ImportProcedures)
<1>1. Base \in Int /\ ViewEnd \in Int
  BY BaseType
<1>2. ModulesStart \in Nat /\ ProceduresStart \in Nat
  BY <1>1 DEF ModulesStart, ProceduresStart, HeaderOK
<1>3. \A p : TableEnd(p) \in Int
  BY TableEndType
<1>4. ProceduresEnd \in Int
  BY <1>1, <1>3 DEF ProceduresEnd, HeaderOK
<1>5. FirstName \in Nat
  BY <1>2 DEF FirstName
<1>6. Walk(ModulesStart, TableEnd(ModulesStart), Names(ModulesStart, TableEnd(ModulesStart)))
  BY <1>2, <1>3, NamesWalk
<1>7. HasModules => Walk(ModulesStart, TableEnd(ModulesStart), ImportModules)
  BY <1>6 DEF ImportModules
<1>8. HasProcedures => Walk(FirstName, ProceduresEnd, ImportProcedures)
  BY <1>4, <1>5, NamesWalk DEF ImportProcedures
<1> QED
  BY <1>2, <1>3, <1>5, <1>7, <1>8

(* A shown module is the text of the name its ordinal counts to, a shown   *)
(* procedure the one at its offset.                                        *)
LEMMA ShownAre ==
  ASSUME NEW ns, NEW i \in 1 .. Len(ns), References(ns)[i].resolved
  PROVE  LET t == TargetOf(ns[i])
             r == References(ns)[i]
         IN /\ r.module = ModuleOf(t) /\ r.procedure = ProcedureOf(t)
            /\ r.module # Unnamed =>
                 t.module \in DOMAIN ImportModules /\ r.module = ImportModules[t.module]
            /\ r.procedure # Unnamed =>
                 /\ t.kind = "name" /\ ProceduresStart + t.value \in ToSet(ImportProcedures)
                 /\ r.procedure = ProceduresStart + t.value
<1> DEFINE t == TargetOf(ns[i])
           r == References(ns)[i]
<1>1. r = Reference(t)
  BY DEF References
<1>2. r.module = ModuleOf(t) /\ r.procedure = ProcedureOf(t)
  BY <1>1 DEF Reference, Stored
<1>3. \A p : Text(p) # Unnamed => Text(p) = p
  BY DEF Text
<1> HIDE DEF r, t
<1>4. r.module # Unnamed => t.module \in DOMAIN ImportModules /\ r.module = ImportModules[t.module]
  BY <1>2, <1>3 DEF ModuleOf
<1>5. r.procedure # Unnamed =>
        /\ t.kind = "name" /\ ProceduresStart + t.value \in ToSet(ImportProcedures)
        /\ r.procedure = ProceduresStart + t.value
  BY <1>2, <1>3 DEF ProcedureOf
<1> QED
  BY <1>2, <1>4, <1>5 DEF r, t

LEMMA ModulesShown ==
  ASSUME IInv
  PROVE  ModulesByOrdinal
<1> SUFFICES ASSUME NEW i \in 1 .. Len(named), NEW j \in 1 .. Len(named), Shown(i)
             PROVE  LET m == TargetOf(printed[i]).module
                        p == named[i].module
                    IN /\ m = 1 => p = ModulesStart
                       /\ Shown(j) /\ TargetOf(printed[j]).module = m + 1
                            => named[j].module = After(p)
  BY DEF ModulesByOrdinal
<1> DEFINE mod(l) == TargetOf(printed[l]).module
<1>1. named = References(printed) /\ printed \in Seq(AllSlots) /\ (printed # <<>> => Base >= 0)
  BY DEF IInv, PrintedOK
<1>2. Len(named) = Len(printed) /\ Len(printed) \in Nat
  BY <1>1, LenProperties DEF References
<1>3. printed # <<>>
  BY <1>2
<1>4. PICK limit \in Int : HasModules => Walk(ModulesStart, limit, ImportModules)
  BY <1>1, <1>3, TablesWalk DEF IInv, FrontInv, InputOK
<1> DEFINE s == ImportModules
<1>5. \A l \in 1 .. Len(named) : Shown(l) => mod(l) \in DOMAIN s /\ named[l].module = s[mod(l)]
  BY <1>1, <1>2, ShownAre DEF Shown
<1>6. HasModules
  <2>1. mod(i) \in DOMAIN s
    BY <1>5
  <2> QED
    BY <2>1 DEF ImportModules
<1> HIDE DEF s
<1>7. /\ s \in Seq(Nat) /\ Len(s) \in Nat /\ DOMAIN s = 1 .. Len(s)
      /\ Len(s) >= 1 => s[1] = ModulesStart
      /\ \A a \in 1 .. Len(s) : a + 1 <= Len(s) => s[a + 1] = After(s[a])
  <2>1. Walk(ModulesStart, limit, s)
    BY <1>4, <1>6 DEF s
  <2> QED
    BY <2>1, LenProperties DEF Walk
<1>8. mod(i) \in 1 .. Len(s) /\ named[i].module = s[mod(i)]
  BY <1>5, <1>7
<1>9. Shown(j) => mod(j) \in 1 .. Len(s) /\ named[j].module = s[mod(j)]
  BY <1>5, <1>7
<1> HIDE DEF mod
<1>10. mod(i) = 1 => named[i].module = ModulesStart
  BY <1>7, <1>8
<1>11. Shown(j) /\ mod(j) = mod(i) + 1 => named[j].module = After(named[i].module)
  <2> SUFFICES ASSUME Shown(j), mod(j) = mod(i) + 1
               PROVE  named[j].module = After(named[i].module)
    OBVIOUS
  <2>1. mod(i) + 1 <= Len(s)
    BY <1>7, <1>9
  <2>2. s[mod(i) + 1] = After(s[mod(i)])
    BY <1>7, <1>8, <2>1
  <2> QED
    BY <1>8, <1>9, <2>2
<1> QED
  BY <1>10, <1>11 DEF mod

(* The same without the indices: what the set of the names found holds.    *)
LEMMA NamesApart ==
  ASSUME FileOK(file), NEW p \in Nat, NEW limit, NEW s, Walk(p, limit, s)
  PROVE  /\ \A q \in ToSet(s) : q \in Nat /\ NameAt(q, limit) /\ q >= p
         /\ NameAt(p, limit) => p \in ToSet(s)
         /\ \A q \in ToSet(s) : NameAt(After(q), limit) => After(q) \in ToSet(s)
         /\ \A q, r \in ToSet(s) : r > q => r >= After(q)
<1>1. s \in Seq(Nat)
  BY DEF Walk
<1>2. Len(s) \in Nat /\ \A a \in 1 .. Len(s) : s[a] \in Nat
  BY <1>1, LenProperties, ElementOfSeq
<1>3. \A q : q \in ToSet(s) <=> \E a \in 1 .. Len(s) : q = s[a]
  BY <1>1 DEF ToSet
<1>4. \A q \in ToSet(s) : q \in Nat /\ NameAt(q, limit) /\ q >= p
  BY <1>2, <1>3 DEF Walk
<1>5. NameAt(p, limit) => p \in ToSet(s)
  <2> SUFFICES ASSUME NameAt(p, limit)
               PROVE  p \in ToSet(s)
    OBVIOUS
  <2>1. 1 \in 1 .. Len(s) /\ s[1] = p
    BY <1>2 DEF Walk
  <2> QED
    BY <1>3, <2>1
<1>6. ASSUME NEW q \in ToSet(s), NameAt(After(q), limit)
      PROVE  After(q) \in ToSet(s)
  <2>1. PICK a \in 1 .. Len(s) : q = s[a]
    BY <1>3
  <2>2. a + 1 <= Len(s)
    BY <1>6, <2>1 DEF Walk
  <2>3. a + 1 \in 1 .. Len(s)
    BY <1>2, <2>2
  <2>4. s[a + 1] = After(q)
    BY <2>1, <2>2 DEF Walk
  <2> QED
    BY <1>3, <2>3, <2>4
<1>7. ASSUME NEW q \in ToSet(s), NEW r \in ToSet(s), r > q
      PROVE  r >= After(q)
  <2>1. PICK a \in 1 .. Len(s) : q = s[a]
    BY <1>3
  <2>2. PICK b \in 1 .. Len(s) : r = s[b]
    BY <1>3
  <2>3. q \in Nat /\ r \in Nat
    BY <1>2, <2>1, <2>2
  <2>4. After(r) \in Nat /\ After(r) > r
    BY <2>3, AfterType
  <2>5. b < a => q >= After(r)
    BY <2>1, <2>2 DEF Walk
  <2>6. ~(b < a) /\ a # b
    BY <1>7, <2>1, <2>2, <2>3, <2>4, <2>5
  <2>7. a < b
    BY <1>2, <2>6
  <2> QED
    BY <2>1, <2>2, <2>7 DEF Walk
<1> QED
  BY <1>4, <1>5, <1>6, <1>7

LEMMA ProceduresShown ==
  ASSUME IInv
  PROVE  ProceduresByOffset /\ FirstProcedure
<1> DEFINE to(l) == TargetOf(printed[l])
           place(l) == ProceduresStart + to(l).value
           s == ImportProcedures
<1>1. named = References(printed) /\ printed \in Seq(AllSlots) /\ (printed # <<>> => Base >= 0)
      /\ module \in Modules
  BY DEF IInv, PrintedOK, FrontInv, InputOK
<1>2. Len(named) = Len(printed) /\ Len(printed) \in Nat
  BY <1>1, LenProperties DEF References
<1>3. FileOK(file) /\ HeaderOK(header) /\ LocationOK
  BY DEF IInv, FrontInv, InputOK
<1>4. \A l \in 1 .. Len(named) : named[l].resolved =>
        /\ named[l].procedure = ProcedureOf(to(l))
        /\ named[l].procedure # Unnamed =>
             to(l).kind = "name" /\ place(l) \in ToSet(s) /\ named[l].procedure = place(l)
  BY <1>1, <1>2, ShownAre
<1>5. ASSUME NEW i \in 1 .. Len(named)
      PROVE  ProceduresStart \in Nat /\ FirstName \in Nat
             /\ (HasProcedures => Walk(FirstName, ProceduresEnd, s))
  <2>1. printed # <<>>
    BY <1>2
  <2> QED
    BY <1>1, <1>3, <2>1, TablesWalk
<1>6. ASSUME NEW i \in 1 .. Len(named), Called(i)
      PROVE  /\ HasProcedures /\ to(i).kind = "name"
             /\ named[i].procedure = place(i) /\ place(i) \in ToSet(s)
  <2>1. to(i).kind = "name" /\ place(i) \in ToSet(s) /\ named[i].procedure = place(i)
    BY <1>4, <1>6 DEF Called
  <2>2. s # <<>>
    <3>1. ToSet(<<>>) = {}
      BY DEF ToSet
    <3> QED
      BY <2>1, <3>1
  <2>3. HasProcedures
    BY <2>2 DEF ImportProcedures
  <2> QED
    BY <2>1, <2>3
<1> HIDE DEF s
<1>7. ASSUME NEW i \in 1 .. Len(named), HasProcedures
      PROVE  /\ \A q \in ToSet(s) : q \in Nat /\ NameAt(q, ProceduresEnd) /\ q >= FirstName
             /\ NameAt(FirstName, ProceduresEnd) => FirstName \in ToSet(s)
             /\ \A q \in ToSet(s) : NameAt(After(q), ProceduresEnd) => After(q) \in ToSet(s)
             /\ \A q, r \in ToSet(s) : r > q => r >= After(q)
  <2>1. FirstName \in Nat /\ Walk(FirstName, ProceduresEnd, s)
    BY <1>5, <1>7
  <2> QED
    BY <1>3, <2>1, NamesApart
<1> HIDE DEF place, to
<1>8. ProceduresByOffset
  <2> SUFFICES ASSUME NEW i \in 1 .. Len(named), NEW j \in 1 .. Len(named), Called(i)
               PROVE  LET p == named[i].procedure
                          o == to(j)
                      IN /\ to(i).kind = "name" /\ p = place(i)
                         /\ CharLen(p) # 0 /\ After(p) <= ProceduresEnd
                         /\ Called(j) /\ named[j].procedure > p => named[j].procedure >= After(p)
                         /\ named[j].resolved /\ o.kind = "name" /\ place(j) = After(p)
                              /\ NameAt(After(p), ProceduresEnd)
                              => named[j].procedure = Text(After(p))
    BY DEF ProceduresByOffset, to, place
  <2> DEFINE p == named[i].procedure
  <2>1. HasProcedures /\ to(i).kind = "name" /\ p = place(i) /\ p \in ToSet(s)
    BY <1>6
  <2> HIDE DEF p
  <2>2. NameAt(p, ProceduresEnd)
    BY <1>7, <2>1
  <2>3. CharLen(p) # 0 /\ After(p) <= ProceduresEnd
    BY <2>2 DEF NameAt
  <2>4. ASSUME Called(j), named[j].procedure > p
        PROVE  named[j].procedure >= After(p)
    <3>1. named[j].procedure \in ToSet(s)
      BY <1>6, <2>4
    <3> QED
      BY <1>7, <2>1, <2>4, <3>1
  <2>5. ASSUME named[j].resolved, to(j).kind = "name", place(j) = After(p),
               NameAt(After(p), ProceduresEnd)
        PROVE  named[j].procedure = Text(After(p))
    <3>1. place(j) \in ToSet(s)
      BY <1>7, <2>1, <2>5
    <3>2. named[j].procedure = ProcedureOf(to(j))
      BY <1>4, <2>5
    <3> QED
      BY <2>5, <3>1, <3>2 DEF ProcedureOf, place, s
  <2> QED
    BY <2>1, <2>3, <2>4, <2>5 DEF p
<1>9. FirstProcedure
  <2> SUFFICES ASSUME NEW i \in 1 .. Len(named), named[i].resolved, to(i).kind = "name",
                      HasProcedures, ByteAt(ProceduresStart) = 0
               PROVE  /\ to(i).value = 0 => named[i].procedure = Unnamed
                      /\ to(i).value = 1 /\ NameAt(ProceduresStart + 1, ProceduresEnd)
                           => named[i].procedure = Text(ProceduresStart + 1)
    BY DEF FirstProcedure, to
  <2>1. FirstName = ProceduresStart + 1 /\ ProceduresStart \in Nat
    BY <1>5 DEF FirstName
  <2>2. named[i].procedure = ProcedureOf(to(i))
    BY <1>4
  <2>3. ASSUME to(i).value = 0
        PROVE  named[i].procedure = Unnamed
    <3>1. ProceduresStart + 0 \notin ToSet(s)
      <4>1. \A q \in ToSet(s) : q \in Nat /\ q >= ProceduresStart + 1
        BY <1>7, <2>1
      <4> QED
        BY <2>1, <4>1
    <3> QED
      BY <2>2, <2>3, <3>1 DEF ProcedureOf, s
  <2>4. ASSUME to(i).value = 1, NameAt(ProceduresStart + 1, ProceduresEnd)
        PROVE  named[i].procedure = Text(ProceduresStart + 1)
    <3>1. ProceduresStart + 1 \in ToSet(s)
      BY <1>7, <2>1, <2>4
    <3> QED
      BY <2>2, <2>4, <3>1 DEF ProcedureOf, s
  <2> QED
    BY <2>3, <2>4
<1> QED
  BY <1>8, <1>9

-----------------------------------------------------------------------------
(* What a completed listing has printed.                                   *)

LEMMA SlotsReported ==
  ASSUME IInv
  PROVE  EverySlotReported
<1> SUFFICES ASSUME phase = "done" \/ targets # <<>>, InFull
             PROVE  /\ IsInjective(printed) /\ ToSet(printed) \cap Unlisted = {}
                    /\ Len(printed) + Cardinality(Unlisted) + unmapped = Cardinality(AllSlots)
  BY DEF EverySlotReported
<1>1. module \in Modules /\ MapsInv /\ TargetsOK /\ PrintedOK
  BY DEF IInv, FrontInv, InputOK
<1>2. Chosen /\ request.all /\ request.fixups
  BY DEF Chosen, InFull
<1> DEFINE N == Len(module.objects)
<1>3. N \in Nat /\ Len(targets) = N /\ current \in 1 .. N + 1 /\ Objects = 1 .. N
  BY <1>1, <1>2, ModuleFacts DEF TargetsOK, Objects
<1>4. IsInjective(printed) /\ ToSet(printed) = DoneNotes
  BY <1>1, <1>2 DEF PrintedOK, DoneNotes
<1>5. \A k \in 1 .. N : NotesOn(k) = {n \in Seen : Mapped(n) /\ Home(n) = k}
  BY <1>1, <1>3, NotesAre
<1>6. Unlisted = UNION {NotesOn(k) : k \in current .. N}
  BY <1>3 DEF Unlisted
<1> HIDE DEF N
<1>7. DoneNotes \cap Unlisted = {}
  <2> SUFFICES ASSUME NEW n \in DoneNotes, n \in Unlisted
               PROVE  FALSE
    OBVIOUS
  <2>1. PICK k \in 1 .. current - 1 : n \in NotesOn(k)
    BY DEF DoneNotes
  <2>2. PICK l \in current .. N : n \in NotesOn(l)
    BY <1>6
  <2>3. k \in 1 .. N /\ l \in 1 .. N /\ k # l
    BY <1>3
  <2> QED
    BY <1>5, <2>1, <2>2, <2>3
<1>8. DoneNotes \cup Unlisted = Notes
  <2>1. \A k \in 1 .. N : k \in 1 .. current - 1 \/ k \in current .. N
    BY <1>3
  <2>2. \A k \in (1 .. current - 1) \cup (current .. N) : k \in 1 .. N
    BY <1>3
  <2> QED
    BY <1>3, <1>6, <2>1, <2>2, Zenon DEF DoneNotes, Notes
<1>9. IsFiniteSet(DoneNotes) /\ IsFiniteSet(Unlisted)
  <2>1. Notes \subseteq Seen /\ IsFiniteSet(Seen)
    BY <1>1, SlotsFacts, SlotsCounted DEF EverySlotCounted
  <2> QED
    BY <1>8, <2>1, FS_Subset
<1>10. /\ Cardinality(DoneNotes) \in Nat /\ Cardinality(Unlisted) \in Nat
       /\ Cardinality(Notes) = Cardinality(DoneNotes) + Cardinality(Unlisted)
  <2> HIDE DEF Unlisted
  <2> QED
    BY <1>7, <1>8, <1>9, DisjointUnion
<1>11. Cardinality(ToSet(printed)) = Len(printed)
  BY <1>1, <1>4, InjectiveLength DEF PrintedOK
<1>12. Cardinality(Notes) + unmapped = Cardinality(Seen)
  BY <1>1, SlotsCounted DEF EverySlotCounted
<1>13. Seen = AllSlots
  <2>1. ~Placing
    BY <1>1, <1>2 DEF TargetsOK
  <2>2. next > Len(module.records) /\ next \in Nat
    BY <1>1, <2>1, ModuleFacts DEF Placing, MapsInv, MapsTyped
  <2>3. \A n \in AllSlots : n[1] \in 1 .. Len(module.records)
    BY <1>1, SlotPairs
  <2>4. \A n \in AllSlots : n[1] < next
    BY <1>1, <2>2, <2>3, ModuleFacts
  <2> QED
    BY <2>4 DEF Seen
<1> QED
  BY <1>4, <1>7, <1>10, <1>11, <1>12, <1>13

(* Where the walk of the entry table ends.                                 *)
LEMMA WalkEnd ==
  ASSUME IInv
  PROVE  BundlesInTable
<1>1. /\ FileOK(file) /\ HeaderOK(header) /\ LocationOK /\ WalkInTable /\ pos \in Nat
  BY DEF IInv, FrontInv, InputOK, TableOK
<1>2. ASSUME verdict # "unread"
      PROVE  End \in Int /\ End \in Bounds /\ \A b \in Bounds : b > Start => End <= b
  BY <1>1, <1>2, TableEndType DEF WalkInTable, End
<1>3. ASSUME bundles # <<>>, NEW b \in Bounds, b > Start
      PROVE  pos <= b
  <2>1. verdict # "unread" /\ pos <= End
    BY <1>1, <1>3 DEF WalkInTable
  <2>2. Bounds \subseteq Int
    <3>1. Base \in Int /\ ViewEnd \in Int
      BY <1>1, BaseType
    <3>2. TablePointers \subseteq Nat /\ header.data_pages \in Nat
      BY <1>1 DEF TablePointers, HeaderOK
    <3> QED
      BY <3>1, <3>2 DEF Bounds
  <2> QED
    BY <1>1, <1>2, <1>3, <2>1, <2>2
<1>4. verdict = "read" /\ header.entry_table # 0 => pos \in Bounds \/ Count = 0
  BY <1>1, <1>2 DEF WalkInTable
<1> QED
  BY <1>3, <1>4 DEF BundlesInTable

LEMMA RunTyped ==
  ASSUME IInv
  PROVE  TypeOK
<1>1. FileOK(file) /\ HeaderOK(header) /\ RequestOK(request) /\ module \in Modules
  BY DEF IInv, FrontInv, InputOK
<1>2. location.header_at \in Nat /\ location.frame_at \in 0 .. location.header_at
  BY DEF IInv, FrontInv, LocationOK
<1>3. /\ verdict \in {"unread", "walking", "read"} \cup TableErrors
      /\ pos \in Nat /\ next_ordinal \in Nat \ {0} /\ bundles \in Seq(BundleRecord)
  BY DEF IInv, FrontInv, TableOK
<1>4. entry \in EntryRecord \cup {None}
  BY DEF IInv, FrontInv, EntryOK
<1>5. ModuleOK(module)
  BY <1>1, ModuleFacts
<1>6. /\ next \in 1 .. Len(module.records) + 1 /\ slot \in Nat \ {0} /\ unmapped \in Nat
      /\ DOMAIN by_object = Objects /\ \A k \in Objects : NoteMap(by_object[k])
  <2>1. MapsTyped
    BY DEF IInv, MapsInv
  <2> QED
    BY <2>1 DEF MapsTyped
<1>7. targets \in Seq([object : Objects, offset : Nat]) /\ current \in 1 .. Len(targets) + 1
  BY DEF IInv, TargetsOK
<1>8. printed \in Seq(Nat \X Nat) /\ Len(named) = Len(printed)
  <2>1. printed \in Seq(AllSlots) /\ named = References(printed)
    BY DEF IInv, PrintedOK
  <2>2. AllSlots \subseteq Nat \X Nat
    BY <1>1, SlotsFacts DEF Note
  <2>3. Len(printed) \in Nat
    BY <2>1, LenProperties
  <2>4. \A i \in 1 .. Len(printed) : printed[i] \in Nat \X Nat
    BY <2>1, <2>2, ElementOfSeq
  <2>5. printed \in Seq(Nat \X Nat)
    BY <2>1, <2>2, SeqMonotonic
  <2>6. Len(named) = Len(printed)
    BY <2>1, <2>3 DEF References
  <2> QED
    BY <2>5, <2>6
<1>9. start \in Nat /\ length \in Nat /\ off \in 0 .. length /\ NoteMap(notes)
  BY DEF IInv, SweepInv, SweepTyped, WindowOK
<1> QED
  BY <1>1, <1>2, <1>3, <1>4, <1>5, <1>6, <1>7, <1>8, <1>9 DEF IInv, TypeOK

LEMMA WindowWithin ==
  ASSUME IInv
  PROVE  WindowInsideImage
<1> SUFFICES ASSUME phase = "sweep"
             PROVE  start + length <= Vsize(Target.object)
  BY DEF WindowInsideImage
<1>1. InputOK /\ TargetsOK /\ WindowOK
  BY DEF IInv, FrontInv
<1>2. targets \in Seq([object : Objects, offset : Nat]) /\ current \in 1 .. Len(targets)
  BY <1>1, LenProperties DEF TargetsOK
<1>3. start = WindowStart /\ length = WindowLength
  BY <1>1 DEF WindowOK
<1> QED
  BY <1>1, <1>2, <1>3, WindowType

-----------------------------------------------------------------------------
(* The properties, for every input.                                        *)

(***************************************************************************)
(* Every value a run computes is of the kind the code gives it: offsets    *)
(* and counters are numbers, targets and entry points name objects of the  *)
(* module, the maps hold notes under numeric offsets, and each note that   *)
(* is printed comes with its names.                                        *)
(***************************************************************************)
THEOREM TypeCorrect == Spec => []TypeOK
<1>1. IInv => TypeOK
  BY RunTyped
<1> QED
  BY <1>1, Invariance, PTL

(***************************************************************************)
(* bound::locate and LE::header_offset agree, for every file: whichever    *)
(* way the image was found, parsing its view lands on it.                  *)
(***************************************************************************)
THEOREM ViewIsTheImage == Spec => []ViewFindsImage
<1>1. IInv => ViewFindsImage
  BY DEF IInv, FrontInv
<1> QED
  BY <1>1, Invariance, PTL

(***************************************************************************)
(* LE::entry_point, for every entry table: an entry point taken from the   *)
(* table is the exported code entry of least ordinal, ordinals counted     *)
(* over all bundles, the unused ones included.                             *)
(***************************************************************************)
THEOREM LowestExport == Spec => []EntryIsLowestExported
<1>1. IInv => EntryIsLowestExported
  BY DEF IInv, FrontInv, EntryOK
<1> QED
  BY <1>1, Invariance, PTL

(***************************************************************************)
(* LE::get_entry_table with table_end, for every file and header: no       *)
(* bundle that was read runs into a later table, the page area or behind   *)
(* the view, and the walk stops short of these only at a zero count.       *)
(***************************************************************************)
THEOREM BundlesEndInTable == Spec => []BundlesInTable
<1>1. IInv => BundlesInTable
  BY WalkEnd
<1> QED
  BY <1>1, Invariance, PTL

(***************************************************************************)
(* build_fixup_maps, for every object table and record sequence: at every  *)
(* moment each source offset read so far is one note in one place or one   *)
(* unmapped slot, however the objects overlap.                             *)
(***************************************************************************)
THEOREM SlotsAccountedFor == Spec => []EverySlotCounted
<1>1. IInv => EverySlotCounted
  BY SlotsCounted DEF IInv, FrontInv, InputOK
<1> QED
  BY <1>1, Invariance, PTL

(***************************************************************************)
(* The image offset of a note and the bytes of object_image are computed   *)
(* in one frame, for every page size and page block and every u16 source   *)
(* offset: the byte a note sits on is the one its record patches, counted  *)
(* through the rows of the object's block, or a zero behind the last row.  *)
(***************************************************************************)
THEOREM NotesOnPatchedBytes == Spec => []PatchedByte
<1>1. IInv => PatchedByte
  BY NotesPatch DEF IInv, FrontInv, InputOK
<1> QED
  BY <1>1, Invariance, PTL

(***************************************************************************)
(* list_code covers its window byte by byte: at every moment of a sweep    *)
(* the bytes passed are on exactly one line each, whatever the decoder     *)
(* answers and wherever the window ends.                                   *)
(***************************************************************************)
THEOREM BytesOnOneLine == Spec => []EachByteOnOneLine
<1>1. IInv => EachByteOnOneLine
  BY DEF IInv, SweepInv
<1> QED
  BY <1>1, Invariance, PTL

(***************************************************************************)
(* The lines of a finished sweep carry the notes of its window, each once  *)
(* and in offset order, wherever the instruction boundaries fell.          *)
(***************************************************************************)
THEOREM NotesOnLines == Spec => []NotesListedOnce
<1>1. IInv => NotesListedOnce
  <2> SUFFICES ASSUME IInv, Swept
               PROVE  LineNotes = NotesIn(start, length)
    BY DEF NotesListedOnce
  <2>1. length \in Nat /\ off \in 0 .. length /\ LineNotes = NotesIn(start, off)
    BY DEF IInv, SweepInv, SweepTyped
  <2>2. off = length
    BY <2>1 DEF Swept
  <2> QED
    BY <2>1, <2>2
<1> QED
  BY <1>1, Invariance, PTL

(***************************************************************************)
(* le-disasm never hands list_code bytes outside the object image, for any *)
(* --object, --offset and --count and any entry point.                     *)
(***************************************************************************)
THEOREM SweepsInsideImage == Spec => []WindowInsideImage
<1>1. IInv => WindowInsideImage
  BY WindowWithin
<1> QED
  BY <1>1, Invariance, PTL

(***************************************************************************)
(* le-disasm --all --fixups, end to end: a listing in full, complete or    *)
(* ended by an image that fails, has printed each source offset of each    *)
(* fixup record once, except those on the objects it did not come to and   *)
(* those counted as lying outside every image.                             *)
(***************************************************************************)
THEOREM NoSlotLost == Spec => []EverySlotReported
<1>1. IInv => EverySlotReported
  BY SlotsReported
<1> QED
  BY <1>1, Invariance, PTL

(***************************************************************************)
(* The names printed with an import are those its record refers to, for    *)
(* every pair of name tables: modules by ordinal, procedures by offset     *)
(* from the null entry, no two names sharing a byte.                       *)
(***************************************************************************)
THEOREM ImportsShownByName == Spec => []ImportsNamed
<1>1. IInv => ImportsNamed
  BY ModulesShown, ProceduresShown DEF ImportsNamed
<1> QED
  BY <1>1, Invariance, PTL
=============================================================================
