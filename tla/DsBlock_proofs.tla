--------------------------- MODULE DsBlock_proofs ---------------------------
(***************************************************************************)
(* For every file: what W4Archive::parse accepts, W4Archive::decompress    *)
(* can take apart, and what it decodes are bytes, whatever the bits say.   *)
(***************************************************************************)
EXTENDS DsBlock, SequenceFacts

LEMMA FileFacts ==
  ASSUME file \in Files
  PROVE  /\ file.header \in HeaderErrors \cup {"ok"} /\ file.size \in Nat
         /\ file.table \in Seq(Int) /\ file.data \in Seq(Byte)
         /\ Len(file.data) \in Nat /\ Len(file.table) \in Nat
<1>1. FileOK(file)
  BY FilesAssumption
<1>2. file.table \in Seq(Int) /\ file.data \in Seq(Byte)
  BY <1>1 DEF FileOK
<1>3. Len(file.data) \in Nat /\ Len(file.table) \in Nat
  BY <1>2
<1> QED
  BY <1>1, <1>2, <1>3 DEF FileOK

LEMMA ModRange ==
  ASSUME NEW w \in Nat \ {0}, NEW x \in Int
  PROVE  x % w \in 0 .. w - 1
OBVIOUS

LEMMA DivRange ==
  ASSUME NEW w \in Nat \ {0}, NEW x \in Nat
  PROVE  x \div w \in Nat
OBVIOUS

LEMMA SubSeqBytes ==
  ASSUME NEW s \in Seq(Byte), NEW a \in Nat, NEW b \in Nat, a <= b, b <= Len(s)
  PROVE  SubSeq(s, a + 1, b) \in Seq(Byte)
OBVIOUS

LEMMA ConcatBytes ==
  ASSUME NEW s \in Seq(Byte), NEW t \in Seq(Byte)
  PROVE  s \o t \in Seq(Byte) /\ Len(s \o t) = Len(s) + Len(t)
OBVIOUS

LEMMA AppendByte ==
  ASSUME NEW s \in Seq(Byte), NEW b \in Byte
  PROVE  /\ Append(s, b) \in Seq(Byte) /\ Len(Append(s, b)) = Len(s) + 1
         /\ Len(s) \in Nat
OBVIOUS

LEMMA PowerFacts ==
  ASSUME NEW n \in 0 .. 12
  PROVE  Pow2[n + 1] \in Nat \ {0}
<1>1. n \in {0, 1, 2, 3, 4, 5, 6, 7, 8, 9, 10, 11, 12}
  OBVIOUS
<1> QED
  BY <1>1 DEF Pow2
-----------------------------------------------------------------------------
(* The bits. *)

LEMMA LoadedFacts ==
  ASSUME NEW a \in Byte, NEW b \in Byte, NEW c \in Byte
  PROVE  a + 256 * b + 65536 * c \in Nat
BY DEF Byte

LEMMA SpanFacts ==
  ASSUME IInv, index < Len(chunk_offsets)
  PROVE  /\ Start \in Nat /\ Stop \in Nat /\ Start <= Stop /\ Stop <= Len(file.data)
         /\ Span \in Nat /\ Span = Stop - Start /\ InFile
<1>1. /\ index \in Nat /\ Len(chunk_offsets) \in Nat /\ Len(file.data) \in Nat
      /\ \A i \in 1 .. Len(chunk_offsets) : chunk_offsets[i] \in 0 .. Len(file.data)
  BY FileFacts, SMTT(30) DEF IInv, TypeOK
<1>2. index + 1 \in 1 .. Len(chunk_offsets)
  BY <1>1
<1>3. Start \in 0 .. Len(file.data)
  BY <1>1, <1>2 DEF Start
<1>4. Stop \in 0 .. Len(file.data) /\ Start <= Stop
  <2>1. CASE index + 1 < Len(chunk_offsets)
    <3>1. index + 2 \in 1 .. Len(chunk_offsets) /\ index + 1 < index + 2
      BY <2>1, <1>1
    <3>2. chunk_offsets[index + 1] <= chunk_offsets[index + 2]
      BY <3>1, <1>2 DEF IInv, Ascending
    <3> QED
      BY <2>1, <3>1, <3>2, <1>1 DEF Start, Stop
  <2>2. CASE ~(index + 1 < Len(chunk_offsets))
    BY <2>2, <1>1, <1>3 DEF Stop
  <2> QED
    BY <2>1, <2>2
<1> QED
  BY <1>1, <1>3, <1>4 DEF Span, InFile

LEMMA ByteFacts ==
  ASSUME IInv, index < Len(chunk_offsets), NEW k \in Nat
  PROVE  ByteOf(k) \in Byte
<1>1. Start \in Nat /\ Span = Stop - Start /\ Stop <= Len(file.data) /\ Stop \in Nat
      /\ file.data \in Seq(Byte)
  BY SpanFacts, FileFacts DEF IInv, TypeOK
<1>2. CASE k < Span
  <2>1. Start + k + 1 \in 1 .. Len(file.data)
    BY <1>1, <1>2
  <2> QED
    BY <1>1, <1>2, <2>1 DEF ByteOf
<1>3. CASE ~(k < Span)
  BY <1>3 DEF ByteOf, Byte
<1> QED
  BY <1>2, <1>3

LEMMA PeekFacts ==
  ASSUME IInv, index < Len(chunk_offsets), NEW q \in Nat, NEW count \in 0 .. 12
  PROVE  Peek(q, count) \in 0 .. Pow2[count + 1] - 1
<1> DEFINE k == q \div 8
           loaded == ByteOf(k) + 256 * ByteOf(k + 1) + 65536 * ByteOf(k + 2)
           power == Pow2[(q % 8) + 1]
<1>1. k \in Nat /\ q % 8 \in 0 .. 7
  BY DivRange, ModRange
<1>2. loaded \in Nat
  <2>1. ByteOf(k) \in Byte /\ ByteOf(k + 1) \in Byte /\ ByteOf(k + 2) \in Byte
    BY <1>1, ByteFacts
  <2> HIDE DEF k
  <2> QED
    BY <2>1, LoadedFacts
<1>3. power \in Nat \ {0}
  <2>1. q % 8 \in 0 .. 12
    BY <1>1
  <2> QED
    BY <2>1, PowerFacts
<1>4. Peek(q, count) = (loaded \div power) % Pow2[count + 1]
  BY DEF Peek
<1> HIDE DEF loaded, power
<1>5. loaded \div power \in Nat
  BY <1>2, <1>3, DivRange
<1>6. Pow2[count + 1] \in Nat \ {0}
  BY PowerFacts
<1> DEFINE value == loaded \div power
           modulus == Pow2[count + 1]
<1>7. Peek(q, count) = value % modulus /\ value \in Int /\ modulus \in Nat \ {0}
  BY <1>4, <1>5, <1>6
<1>8. Peek(q, count) \in 0 .. modulus - 1
  <2> HIDE DEF value, modulus
  <2> QED
    BY <1>7, ModRange
<1> QED
  BY <1>8

LEMMA PowerTable ==
  /\ Pow2[1] = 1 /\ Pow2[2] = 2 /\ Pow2[3] = 4 /\ Pow2[4] = 8 /\ Pow2[5] = 16
  /\ Pow2[6] = 32 /\ Pow2[7] = 64 /\ Pow2[8] = 128 /\ Pow2[9] = 256
BY DEF Pow2

(* The counts that the decoder uses. *)
LEMMA PeekRanges ==
  ASSUME IInv, index < Len(chunk_offsets), NEW q \in Nat
  PROVE  /\ Peek(q, 1) \in 0 .. 1 /\ Peek(q, 2) \in 0 .. 3 /\ Peek(q, 7) \in 0 .. 127
         /\ Peek(q, 6) \in Nat /\ Peek(q, 8) \in Nat /\ Peek(q, 12) \in Nat
<1>1. Pow2[1 + 1] = 2 /\ Pow2[2 + 1] = 4 /\ Pow2[7 + 1] = 128
  BY PowerTable
<1>2. \A count \in 0 .. 12 : Peek(q, count) \in 0 .. Pow2[count + 1] - 1
  BY PeekFacts
<1>3. /\ Peek(q, 1) \in 0 .. Pow2[1 + 1] - 1 /\ Peek(q, 2) \in 0 .. Pow2[2 + 1] - 1
      /\ Peek(q, 7) \in 0 .. Pow2[7 + 1] - 1
  BY <1>2
<1>4. Peek(q, 1) \in 0 .. 1 /\ Peek(q, 2) \in 0 .. 3 /\ Peek(q, 7) \in 0 .. 127
  BY <1>1, <1>3
<1>5. Peek(q, 6) \in Nat /\ Peek(q, 8) \in Nat /\ Peek(q, 12) \in Nat
  BY <1>2
<1> QED
  BY <1>4, <1>5

(* A run of zeros ends at a one, or it is nine long. *)
LEMMA FirstOne ==
  ASSUME NEW f \in [0 .. 8 -> 0 .. 1]
  PROVE  \E z \in 0 .. 9 : (z < 9 => f[z] = 1) /\ \A y \in 0 .. z - 1 : f[y] = 0
<1> DEFINE first ==
      IF f[0] = 1 THEN 0 ELSE IF f[1] = 1 THEN 1 ELSE IF f[2] = 1 THEN 2 ELSE
      IF f[3] = 1 THEN 3 ELSE IF f[4] = 1 THEN 4 ELSE IF f[5] = 1 THEN 5 ELSE
      IF f[6] = 1 THEN 6 ELSE IF f[7] = 1 THEN 7 ELSE IF f[8] = 1 THEN 8 ELSE 9
<1>1. \A y \in 0 .. 8 : f[y] = 0 \/ f[y] = 1
  OBVIOUS
<1>2. \A y \in 0 .. 8 : y \in {0, 1, 2, 3, 4, 5, 6, 7, 8}
  OBVIOUS
<1>3. first \in 0 .. 9 /\ (first < 9 => f[first] = 1)
  OBVIOUS
<1>4. ASSUME NEW y \in 0 .. first - 1
      PROVE  f[y] = 0
  <2>1. y \in {0, 1, 2, 3, 4, 5, 6, 7, 8} /\ y < first
    BY <1>2, <1>3
  <2> QED
    BY <2>1, <1>1
<1> QED
  BY <1>3, <1>4

LEMMA RunFacts ==
  ASSUME IInv, index < Len(chunk_offsets), NEW q \in Nat
  PROVE  Zeroes(q) \in 0 .. 9 /\ (Zeroes(q) < 9 => Peek(q + Zeroes(q), 1) = 1)
<1> DEFINE f == [z \in 0 .. 8 |-> Peek(q + z, 1)]
<1>1. \A z \in 0 .. 8 : Peek(q + z, 1) \in 0 .. 1
  BY PeekRanges
<1>2. f \in [0 .. 8 -> 0 .. 1]
  BY <1>1
<1>3. PICK z \in 0 .. 9 : (z < 9 => f[z] = 1) /\ \A y \in 0 .. z - 1 : f[y] = 0
  <2> HIDE DEF f
  <2> QED
    BY <1>2, FirstOne
<1>4. (z < 9 => Peek(q + z, 1) = 1) /\ \A y \in 0 .. z - 1 : Peek(q + y, 1) = 0
  <2>1. \A y \in 0 .. 8 : f[y] = Peek(q + y, 1)
    OBVIOUS
  <2>2. (z < 9 => z \in 0 .. 8) /\ \A y \in 0 .. z - 1 : y \in 0 .. 8
    OBVIOUS
  <2> HIDE DEF f
  <2> QED
    BY <1>3, <2>1, <2>2
<1> QED
  BY <1>4 DEF Zeroes

LEMMA LiteralByte ==
  ASSUME NEW b \in 0 .. 127, NEW P
  PROVE  (IF P THEN 128 ELSE 0) + b \in Byte
BY DEF Byte

LEMMA LengthRange ==
  ASSUME NEW r \in 0 .. 8, NEW b \in 0 .. Pow2[r + 1] - 1
  PROVE  Pow2[r + 1] + b + 1 \in 2 .. 512
<1>1. Pow2[r + 1] \in 1 .. 256
  <2>1. r + 1 \in {1, 2, 3, 4, 5, 6, 7, 8, 9}
    OBVIOUS
  <2> QED
    BY <2>1, PowerTable
<1> DEFINE power == Pow2[r + 1]
<1>2. power \in 1 .. 256 /\ b \in 0 .. power - 1
  BY <1>1
<1> HIDE DEF power
<1>3. power + b + 1 \in 2 .. 512
  BY <1>2
<1> QED
  BY <1>3 DEF power

(* What one token can say. *)
LEMMA TokenFacts ==
  ASSUME IInv, index < Len(chunk_offsets)
  PROVE  /\ TokenBits \in {8, 9, 11, 15}
         /\ Distance \in Nat
         /\ (IF Tag = 1 THEN 128 ELSE 0) + Peek(position + 2, 7) \in Byte
         /\ Run \in 0 .. 9
         /\ Run < 9 => MatchLength \in 2 .. 512
<1>1. position \in Nat
  BY DEF IInv, TypeOK
<1>2. TokenBits \in {8, 9, 11, 15}
  <2>1. Tag \in 0 .. 3
    BY <1>1, PeekRanges DEF Tag
  <2> QED
    BY <2>1 DEF TokenBits, IsLiteral
<1>3. Distance \in Nat
  <2>1. position + 2 \in Nat /\ position + 3 \in Nat
    BY <1>1
  <2>2. Peek(position + 2, 6) \in Nat
    BY <2>1, PeekRanges
  <2>3. Peek(position + 3, 8) \in Nat /\ Peek(position + 3, 12) \in Nat
    BY <2>1, PeekRanges
  <2> QED
    BY <2>2, <2>3 DEF Distance
<1>4. (IF Tag = 1 THEN 128 ELSE 0) + Peek(position + 2, 7) \in Byte
  <2>1. position + 2 \in Nat
    BY <1>1
  <2>2. Peek(position + 2, 7) \in 0 .. 127
    BY <2>1, PeekRanges
  <2> QED
    BY <2>2, LiteralByte
<1>5. GammaStart \in Nat
  BY <1>1, <1>2 DEF GammaStart
<1>6. Run \in 0 .. 9
  BY <1>5, RunFacts DEF Run
<1>7. ASSUME Run < 9
      PROVE  MatchLength \in 2 .. 512
  <2>1. Run \in 0 .. 8 /\ GammaStart + Run + 1 \in Nat
    BY <1>5, <1>6, <1>7
  <2>2. Peek(GammaStart + Run + 1, Run) \in 0 .. Pow2[Run + 1] - 1
    <3>1. \A count \in 0 .. 12 : Peek(GammaStart + Run + 1, count) \in 0 .. Pow2[count + 1] - 1
      BY <2>1, PeekFacts
    <3>2. Run \in 0 .. 12
      BY <2>1
    <3> HIDE DEF Run
    <3> QED
      BY <3>1, <3>2
  <2> HIDE DEF Run
  <2> QED
    BY <2>1, <2>2, LengthRange DEF MatchLength
<1> QED
  BY <1>2, <1>3, <1>4, <1>6, <1>7
-----------------------------------------------------------------------------
(* The steps. *)

LEMMA InitHolds == Init => IInv
<1> SUFFICES ASSUME Init
             PROVE  IInv
  OBVIOUS
<1>1. TypeOK
  BY FileFacts DEF Init, TypeOK, Byte
<1>2. Ascending /\ InChunk /\ SpansExist
  BY DEF Init, Ascending, InChunk, SpansExist
<1> QED
  BY <1>1, <1>2 DEF IInv

LEMMA SameHolds == ASSUME IInv, UNCHANGED vars PROVE IInv'
BY DEF IInv, TypeOK, Ascending, InChunk, SpansExist, vars, cursorVars

(* A verdict that is not one of the two, or the first chunk. *)
LEMMA FailHolds ==
  ASSUME IInv, NEW reason, Fail(reason),
         reason \in {"chunks", "ok"} \cup (Failures \ {"negative_span", "chunk_slice"})
  PROVE  IInv'
<1>1. TypeOK'
  BY DEF IInv, TypeOK, Fail, cursorVars
<1>2. Ascending'
  BY DEF IInv, Ascending, Fail
<1>3. InChunk'
  BY DEF InChunk, Fail, Failures, HeaderErrors
<1>4. SpansExist'
  BY DEF SpansExist, Fail
<1> QED
  BY <1>1, <1>2, <1>3, <1>4 DEF IInv

LEMMA RefuseHeaderHolds == ASSUME IInv, RefuseHeader PROVE IInv'
<1>1. file.header \in HeaderErrors
  BY FileFacts DEF IInv, TypeOK, RefuseHeader
<1>2. file.header \in Failures \ {"negative_span", "chunk_slice"} /\ Fail(file.header)
  BY <1>1 DEF RefuseHeader, Failures, HeaderErrors
<1> QED
  BY <1>2, FailHolds

LEMMA StartBodyHolds == ASSUME IInv, StartBody PROVE IInv'
<1> DEFINE reason == CASE ~file.ds              -> "UnsupportedCodec"
                       [] file.ds /\ file.size = 0 -> "w4_chunk_size"
                       [] OTHER                 -> "chunks"
<1>1. reason \in {"chunks", "ok"} \cup (Failures \ {"negative_span", "chunk_slice"})
  BY DEF Failures
<1>2. Fail(reason)
  BY DEF StartBody
<1> HIDE DEF reason
<1> QED
  BY <1>1, <1>2, FailHolds

LEMMA FinishHolds == ASSUME IInv, Finish PROVE IInv'
BY FailHolds DEF Finish

LEMMA CorruptMatchHolds == ASSUME IInv, CorruptMatch PROVE IInv'
<1>1. \E reason \in {"elias_gamma_decode", "ds_underflow", "ds_chunk_overflow"} : Fail(reason)
  BY DEF CorruptMatch
<1>2. {"elias_gamma_decode", "ds_underflow", "ds_chunk_overflow"}
        \subseteq Failures \ {"negative_span", "chunk_slice"}
  BY DEF Failures
<1> QED
  BY <1>1, <1>2, FailHolds

(* An offset is accepted behind its predecessor. *)
LEMMA ReadOffsetHolds == ASSUME IInv, ReadOffset PROVE IInv'
<1> DEFINE n == Len(chunk_offsets)
           limit == Len(file.data)
<1>1. CASE /\ InData /\ InOrder /\ chunk_offsets' = Append(chunk_offsets, Raw)
           /\ UNCHANGED <<file, phase, index, out, cursorVars>>
  <2>1. /\ chunk_offsets \in Seq(0 .. limit) /\ n \in Nat /\ limit \in Nat
        /\ Raw \in 0 .. limit /\ index = 0
    BY <1>1, FileFacts DEF IInv, TypeOK, InData, InChunk, ReadOffset, Parsing
  <2>2. /\ chunk_offsets' \in Seq(0 .. limit) /\ Len(chunk_offsets') = n + 1
        /\ chunk_offsets'[n + 1] = Raw
        /\ \A i \in 1 .. n : chunk_offsets'[i] = chunk_offsets[i]
    BY <1>1, <2>1
  <2>3. TypeOK'
    <3>1. index' \in 0 .. Len(chunk_offsets') /\ chunk_offsets' \in Seq(0 .. Len(file'.data))
      BY <1>1, <2>1, <2>2
    <3> QED
      BY <1>1, <3>1 DEF IInv, TypeOK, cursorVars
  <2>4. Ascending'
    <3> SUFFICES ASSUME NEW i \in 1 .. n + 1, NEW j \in 1 .. n + 1, i < j
                 PROVE  chunk_offsets'[i] <= chunk_offsets'[j]
      BY <2>2 DEF Ascending
    <3>1. i \in 1 .. n
      BY <2>1
    <3>2. CASE j \in 1 .. n
      BY <2>2, <3>1, <3>2 DEF IInv, Ascending
    <3>3. CASE j = n + 1
      <4>1. chunk_offsets # <<>> /\ n \in 1 .. n
        BY <2>1, <3>1
      <4>2. chunk_offsets[n] <= Raw
        BY <1>1, <4>1 DEF InOrder
      <4>3. chunk_offsets[i] <= chunk_offsets[n]
        <5>1. CASE i = n
          BY <5>1, <2>1, <4>1
        <5>2. CASE i < n
          BY <5>2, <3>1, <4>1 DEF IInv, Ascending
        <5> QED
          BY <5>1, <5>2, <3>1, <2>1
      <4>4. chunk_offsets[i] \in Int /\ chunk_offsets[n] \in Int /\ Raw \in Int
        BY <2>1, <3>1, <4>1
      <4>5. chunk_offsets[i] <= Raw
        BY <4>2, <4>3, <4>4
      <4> QED
        BY <2>2, <3>1, <3>3, <4>5
    <3> QED
      BY <3>2, <3>3, <2>1
  <2>5. InChunk' /\ SpansExist'
    BY <1>1, <2>1 DEF InChunk, SpansExist, IInv, ReadOffset, Parsing
  <2> QED
    BY <2>3, <2>4, <2>5 DEF IInv
<1>2. CASE \/ ~InData /\ Fail("w4_chunk_data")
           \/ InData /\ ~InOrder /\ Fail("w4_chunk_order")
  BY <1>2, FailHolds DEF Failures
<1> QED
  BY <1>1, <1>2 DEF ReadOffset

(* Neither of the two errors of OpenChunk can be taken. *)
LEMMA OpenChunkHolds == ASSUME IInv, OpenChunk PROVE IInv'
<1>1. index < Len(chunk_offsets) /\ phase = "chunks"
  BY DEF OpenChunk, AtChunk
<1>2. Span \in Nat /\ InFile /\ Start \in Nat /\ Stop \in Nat /\ Start <= Stop
      /\ Stop <= Len(file.data)
  BY <1>1, SpanFacts
<1>3. index \in Nat /\ Len(chunk_offsets) \in Nat /\ index + 1 \in 0 .. Len(chunk_offsets)
  BY <1>1 DEF IInv, TypeOK
<1>4. CASE /\ out' = out \o Stored /\ index' = index + 1
           /\ UNCHANGED <<file, phase, chunk_offsets, cursorVars>>
  <2>1. Stored \in Seq(Byte)
    BY <1>2, FileFacts, SubSeqBytes DEF Stored, IInv, TypeOK
  <2>2. out' \in Seq(Byte) /\ Len(out') = Len(out) + Len(Stored)
        /\ Len(Stored) \in Nat /\ Len(out) \in Nat
    BY <1>4, <2>1, ConcatBytes DEF IInv, TypeOK
  <2>3. TypeOK'
    <3>1. block_start' \in 0 .. Len(out')
      BY <1>4, <2>2 DEF IInv, TypeOK, cursorVars
    <3> QED
      BY <1>3, <1>4, <2>2, <3>1 DEF IInv, TypeOK, cursorVars
  <2>4. Ascending' /\ InChunk' /\ SpansExist'
    BY <1>1, <1>4 DEF IInv, Ascending, InChunk, SpansExist
  <2> QED
    BY <2>3, <2>4 DEF IInv
<1>5. CASE /\ block_start' = Len(out) /\ position' = 0 /\ phase' = "block"
           /\ UNCHANGED <<file, chunk_offsets, index, out, distance, length, copied>>
  <2>1. Len(out) \in Nat
    BY DEF IInv, TypeOK
  <2>2. TypeOK'
    BY <1>5, <2>1 DEF IInv, TypeOK
  <2>3. Ascending' /\ InChunk' /\ SpansExist'
    BY <1>1, <1>5 DEF IInv, Ascending, InChunk, SpansExist
  <2> QED
    BY <2>2, <2>3 DEF IInv
<1>6. ~(Span < 0)
  BY <1>2
<1> QED
  BY <1>2, <1>4, <1>5, <1>6 DEF OpenChunk

LEMMA BlockFacts ==
  ASSUME IInv, phase = "block"
  PROVE  /\ index < Len(chunk_offsets) /\ index + 1 \in 0 .. Len(chunk_offsets)
         /\ position \in Nat /\ position + TokenBits \in Nat
         /\ out \in Seq(Byte) /\ Len(out) \in Nat /\ block_start \in 0 .. Len(out)
<1>1. index < Len(chunk_offsets)
  BY DEF IInv, InChunk
<1>2. TokenBits \in Nat
  BY <1>1, TokenFacts
<1>3. /\ index \in 0 .. Len(chunk_offsets) /\ Len(chunk_offsets) \in Nat /\ position \in Nat
      /\ out \in Seq(Byte) /\ Len(out) \in Nat /\ block_start \in 0 .. Len(out)
  BY DEF IInv, TypeOK
<1> QED
  BY <1>1, <1>2, <1>3

LEMMA LiteralHolds == ASSUME IInv, Literal PROVE IInv'
<1> DEFINE byte == (IF Tag = 1 THEN 128 ELSE 0) + Peek(position + 2, 7)
<1>1. phase = "block"
  BY DEF Literal, AtToken
<1>2. byte \in Byte
  BY <1>1, BlockFacts, TokenFacts
<1>3. /\ out' = Append(out, byte) /\ position' \in Nat
      /\ UNCHANGED <<file, phase, chunk_offsets, index, block_start, distance, length, copied>>
  BY <1>1, BlockFacts DEF Literal
<1> HIDE DEF byte
<1>4. out' \in Seq(Byte) /\ Len(out') = Len(out) + 1
  BY <1>1, <1>2, <1>3, BlockFacts, AppendByte
<1>5. block_start' \in 0 .. Len(out')
  BY <1>1, <1>3, <1>4, BlockFacts
<1>6. TypeOK'
  BY <1>3, <1>4, <1>5 DEF IInv, TypeOK
<1>7. Ascending' /\ InChunk' /\ SpansExist'
  BY <1>1, <1>3 DEF IInv, Ascending, InChunk, SpansExist
<1> QED
  BY <1>6, <1>7 DEF IInv

LEMMA EndBlockHolds == ASSUME IInv, phase = "block", EndBlock PROVE IInv'
<1>1. position' \in Nat /\ index' \in 0 .. Len(chunk_offsets)
  BY BlockFacts DEF EndBlock
<1>2. TypeOK'
  BY <1>1 DEF IInv, TypeOK, EndBlock
<1>3. Ascending' /\ InChunk' /\ SpansExist'
  BY DEF IInv, Ascending, InChunk, SpansExist, EndBlock
<1> QED
  BY <1>2, <1>3 DEF IInv

LEMMA SectorBreakHolds == ASSUME IInv, SectorBreak PROVE IInv'
<1>1. phase = "block"
  BY DEF SectorBreak, AtToken
<1>2. position' \in Nat
  BY <1>1, BlockFacts DEF SectorBreak
<1>3. TypeOK'
  BY <1>2 DEF IInv, TypeOK, SectorBreak
<1>4. Ascending' /\ InChunk' /\ SpansExist'
  BY <1>1 DEF IInv, Ascending, InChunk, SpansExist, SectorBreak
<1> QED
  BY <1>3, <1>4 DEF IInv

LEMMA StartMatchHolds == ASSUME IInv, StartMatch PROVE IInv'
<1>1. phase = "block" /\ Distance # 0 /\ Run < 9 /\ ~(Distance > Len(out) - block_start)
  BY DEF StartMatch, AtMatch, AtToken, Underflow, Produced
<1>2. Distance \in Nat /\ Run \in 0 .. 9 /\ MatchLength \in 2 .. 512
  BY <1>1, BlockFacts, TokenFacts
<1>3. Distance \in 1 .. Len(out)
  BY <1>1, <1>2, BlockFacts
<1>4. /\ distance' = Distance /\ length' = MatchLength /\ copied' = 0 /\ phase' = "copy"
      /\ position' = GammaStart + 2 * Run + 1
      /\ UNCHANGED <<file, chunk_offsets, index, out, block_start>>
  BY DEF StartMatch
<1>5. position' \in Nat
  <2>1. GammaStart \in Nat
    BY <1>1, BlockFacts DEF GammaStart
  <2> QED
    BY <1>2, <1>4, <2>1
<1>6. length' \in 0 .. 512 /\ copied' \in 0 .. length' /\ distance' \in 1 .. Len(out')
  BY <1>2, <1>3, <1>4
<1>7. distance' \in Nat
  BY <1>2, <1>4
<1>8. TypeOK'
  BY <1>4, <1>5, <1>6, <1>7 DEF IInv, TypeOK
<1>9. Ascending' /\ InChunk' /\ SpansExist'
  <2>1. index < Len(chunk_offsets)
    BY <1>1, BlockFacts
  <2> QED
    BY <1>4, <1>6, <2>1 DEF IInv, Ascending, InChunk, SpansExist
<1> QED
  BY <1>8, <1>9 DEF IInv

LEMMA CopyByteHolds == ASSUME IInv, CopyByte PROVE IInv'
<1>1. /\ phase = "copy" /\ copied < length /\ out' = Append(out, Source)
      /\ copied' = copied + 1
      /\ UNCHANGED <<file, phase, chunk_offsets, index, block_start, position, distance, length>>
  BY DEF CopyByte
<1>2. /\ out \in Seq(Byte) /\ Len(out) \in Nat /\ block_start \in 0 .. Len(out)
      /\ length \in 0 .. 512 /\ copied \in 0 .. length /\ distance \in 1 .. Len(out)
  BY <1>1 DEF IInv, TypeOK, InChunk
<1>3. Source \in Byte
  <2>1. Len(out) - distance + 1 \in 1 .. Len(out)
    BY <1>2
  <2> QED
    BY <1>2, <2>1 DEF Source
<1>4. out' \in Seq(Byte) /\ Len(out') = Len(out) + 1
  BY <1>1, <1>2, <1>3, AppendByte
<1>5. block_start' \in 0 .. Len(out') /\ distance' \in 1 .. Len(out')
  BY <1>1, <1>2, <1>4
<1>6. copied' \in 0 .. length'
  BY <1>1, <1>2
<1>7. TypeOK'
  BY <1>1, <1>4, <1>5, <1>6 DEF IInv, TypeOK
<1>8. Ascending' /\ InChunk' /\ SpansExist'
  BY <1>1, <1>5 DEF IInv, Ascending, InChunk, SpansExist
<1> QED
  BY <1>7, <1>8 DEF IInv

LEMMA EndMatchHolds == ASSUME IInv, EndMatch PROVE IInv'
<1>1. TypeOK'
  BY DEF IInv, TypeOK, EndMatch
<1>2. Ascending' /\ InChunk' /\ SpansExist'
  BY DEF IInv, Ascending, InChunk, SpansExist, EndMatch
<1> QED
  BY <1>1, <1>2 DEF IInv
-----------------------------------------------------------------------------
LEMMA Inductive == IInv /\ [Next]_vars => IInv'
<1> SUFFICES ASSUME IInv, [Next]_vars
             PROVE  IInv'
  OBVIOUS
<1>1. CASE RefuseHeader
  BY <1>1, RefuseHeaderHolds
<1>2. CASE ReadOffset
  BY <1>2, ReadOffsetHolds
<1>3. CASE StartBody
  BY <1>3, StartBodyHolds
<1>4. CASE OpenChunk
  BY <1>4, OpenChunkHolds
<1>5. CASE Finish
  BY <1>5, FinishHolds
<1>6. CASE Literal
  BY <1>6, LiteralHolds
<1>7. CASE EndMarker
  BY <1>7, EndBlockHolds DEF EndMarker, AtToken
<1>8. CASE ChunkFull
  BY <1>8, EndBlockHolds DEF ChunkFull
<1>9. CASE SectorBreak
  BY <1>9, SectorBreakHolds
<1>10. CASE CorruptMatch
  BY <1>10, CorruptMatchHolds
<1>11. CASE StartMatch
  BY <1>11, StartMatchHolds
<1>12. CASE CopyByte
  BY <1>12, CopyByteHolds
<1>13. CASE EndMatch
  BY <1>13, EndMatchHolds
<1>14. CASE UNCHANGED vars
  BY <1>14, SameHolds
<1> QED
  BY <1>1, <1>2, <1>3, <1>4, <1>5, <1>6, <1>7, <1>8, <1>9, <1>10, <1>11, <1>12, <1>13, <1>14
     DEF Next

LEMMA AlwaysIInv == Spec => []IInv
<1> QED
  BY InitHolds, Inductive, PTL DEF Spec

(***************************************************************************)
(* The state stays well-typed: whatever bits a chunk holds, what is decoded *)
(* from it are bytes, the cursor is a natural number, and a match is at    *)
(* most 512 bytes long (ds_decompress, elias_gamma_decode).                *)
(***************************************************************************)
THEOREM TypeCorrect == Spec => []TypeOK
<1>1. IInv => TypeOK
  BY DEF IInv
<1> QED
  BY <1>1, AlwaysIInv, PTL

(***************************************************************************)
(* What parse accepts decompress can take apart, for every table and every *)
(* file: neither the subtraction of two offsets nor the slice of the file  *)
(* between them fails (W4Archive::stored_chunk_size, get_slice).           *)
(***************************************************************************)
THEOREM SpansAlwaysExist == Spec => []SpansExist
<1>1. IInv => SpansExist
  BY DEF IInv
<1> QED
  BY <1>1, AlwaysIInv, PTL

-----------------------------------------------------------------------------
(* Behind the chunk there are only zeros.                                  *)

LEMMA SmallerParts ==
  ASSUME NEW w \in Nat \ {0}, NEW x \in Nat
  PROVE  /\ x \div w \in 0 .. x /\ x % w \in 0 .. x
         /\ x = 0 => x \div w = 0 /\ x % w = 0
<1>1. /\ x \div w \in Nat /\ x % w \in 0 .. w - 1
      /\ x = (x \div w) * w + (x % w)
  BY DivMod
<1> DEFINE q == x \div w
           r == x % w
<1>2. q \in Nat /\ r \in Nat /\ x = q * w + r
  BY <1>1
<1> HIDE DEF q, r
<1>3. q * w >= q
  BY <1>2
<1>4. q \in 0 .. x /\ r \in 0 .. x
  BY <1>2, <1>3
<1>5. x = 0 => q = 0 /\ r = 0
  BY <1>4
<1> QED
  BY <1>4, <1>5 DEF q, r

LEMMA PeekBehind ==
  ASSUME IInv, index < Len(chunk_offsets), NEW q \in Nat, NEW count \in 0 .. 12
  PROVE  /\ q >= 8 * Span => Peek(q, count) = 0
         /\ q + 8 > 8 * Span => Peek(q, count) <= 255
<1> DEFINE k == q \div 8
           sum(x, y, z) == x + 256 * y + 65536 * z
           loaded == sum(ByteOf(k), ByteOf(k + 1), ByteOf(k + 2))
           power == Pow2[(q % 8) + 1]
           modulus == Pow2[count + 1]
<1>1. k \in Nat /\ q % 8 \in 0 .. 7 /\ q = k * 8 + (q % 8)
  BY DivMod
<1>2. power \in Nat \ {0} /\ modulus \in Nat \ {0}
  <2>1. q % 8 \in 0 .. 12
    BY <1>1
  <2> QED
    BY <2>1, PowerFacts
<1>3. Peek(q, count) = (loaded \div power) % modulus
  BY DEF Peek
<1>4. \A x \in Nat : /\ (x \div power) % modulus \in 0 .. x
                     /\ x = 0 => (x \div power) % modulus = 0
  <2> SUFFICES ASSUME NEW x \in Nat
               PROVE  /\ (x \div power) % modulus \in 0 .. x
                      /\ x = 0 => (x \div power) % modulus = 0
    OBVIOUS
  <2> HIDE DEF power, modulus
  <2>1. x \div power \in 0 .. x /\ (x = 0 => x \div power = 0)
    BY <1>2, SmallerParts
  <2> DEFINE y == x \div power
  <2>2. y \in Nat
    BY <2>1
  <2>3. y % modulus \in 0 .. y /\ (y = 0 => y % modulus = 0)
    <3> HIDE DEF y
    <3> QED
      BY <1>2, <2>2, SmallerParts
  <2> QED
    BY <2>1, <2>3
<1>5. Span \in Nat /\ ByteOf(k) \in 0 .. 255
  BY <1>1, SpanFacts, ByteFacts DEF Byte
<1>0. \A i : ~(i < Span) => ByteOf(i) = 0
  BY DEF ByteOf
<1>9. \A x \in 0 .. 255 : sum(x, 0, 0) = x
  BY SMT
<1> HIDE DEF k, power, modulus, sum
<1>6. ASSUME q >= 8 * Span
      PROVE  Peek(q, count) = 0
  <2>1. ~(k < Span) /\ ~(k + 1 < Span) /\ ~(k + 2 < Span)
    BY <1>1, <1>5, <1>6
  <2>2. ByteOf(k) = 0 /\ ByteOf(k + 1) = 0 /\ ByteOf(k + 2) = 0
    BY <1>0, <2>1, Zenon
  <2>3. loaded = ByteOf(k)
    BY <1>5, <1>9, <2>2, ZenonT(30)
  <2>4. loaded = 0 /\ loaded \in Nat
    BY <2>2, <2>3
  <2> QED
    BY <1>3, <1>4, <2>4, Zenon
<1>7. ASSUME q + 8 > 8 * Span
      PROVE  Peek(q, count) <= 255
  <2>1. ~(k + 1 < Span) /\ ~(k + 2 < Span)
    BY <1>1, <1>5, <1>7
  <2>2. ByteOf(k + 1) = 0 /\ ByteOf(k + 2) = 0
    BY <1>0, <2>1, Zenon
  <2>3. loaded = ByteOf(k)
    BY <1>5, <1>9, <2>2, Zenon
  <2> HIDE DEF loaded
  <2>4. loaded \in Nat /\ loaded \in 0 .. 255
    <3>1. loaded \in 0 .. 255
      BY <1>5, <2>3, Zenon
    <3> QED
      BY <3>1
  <2>5. Peek(q, count) \in 0 .. loaded
    BY <1>3, <1>4, <2>4, Zenon
  <2> QED
    BY <2>4, <2>5
<1> QED
  BY <1>6, <1>7

(* Where a token of a block that goes on can end.                          *)
LEMMA TokenEnds ==
  ASSUME IInv, OverrunBounded, phase = "block"
  PROVE  /\ Span \in Nat
         /\ IsLiteral => position + TokenBits <= 8 * Span + MaxOverrun
         /\ ~IsLiteral /\ Distance = DS_SECTOR_BREAK
              => position + TokenBits <= 8 * Span + MaxOverrun
         /\ Run < 9 => GammaStart + 2 * Run + 1 <= 8 * Span + MaxOverrun
<1>1. position \in Nat /\ index < Len(chunk_offsets) /\ Span \in Nat
  BY BlockFacts, SpanFacts
<1>2. TokenBits \in {8, 9, 11, 15} /\ Run \in 0 .. 9
  BY <1>1, TokenFacts
<1>3. \A q \in Nat : \A count \in 0 .. 12 :
        /\ q >= 8 * Span => Peek(q, count) = 0
        /\ q + 8 > 8 * Span => Peek(q, count) <= 255
  BY <1>1, PeekBehind
<1> DEFINE s == 8 * Span
<1>4. s \in Nat
  BY <1>1
<1>5. ASSUME IsLiteral
      PROVE  position + TokenBits <= s + MaxOverrun
  <2>1. Tag # 0
    BY <1>5 DEF IsLiteral
  <2>2. ~(position >= s)
    BY <1>1, <1>3, <2>1 DEF Tag
  <2>3. TokenBits = 9
    BY <1>5, <2>1 DEF TokenBits, IsLiteral
  <2> HIDE DEF s
  <2> QED
    BY <1>1, <1>4, <2>2, <2>3 DEF MaxOverrun
<1>6. ASSUME ~IsLiteral, Distance = DS_SECTOR_BREAK
      PROVE  position + TokenBits <= s + MaxOverrun
  <2>1. /\ Peek(position + 2, 6) \in 0 .. 63 /\ Peek(position + 3, 8) \in 0 .. 255
        /\ Peek(position + 3, 12) \in Nat
    <3>1. position + 2 \in Nat /\ position + 3 \in Nat
      BY <1>1
    <3>2. /\ Peek(position + 2, 6) \in 0 .. Pow2[6 + 1] - 1
          /\ Peek(position + 3, 8) \in 0 .. Pow2[8 + 1] - 1
      <4>1. \A q \in Nat : \A count \in 0 .. 12 : Peek(q, count) \in 0 .. Pow2[count + 1] - 1
        BY <1>1, PeekFacts
      <4>2. 6 \in 0 .. 12 /\ 8 \in 0 .. 12
        OBVIOUS
      <4> QED
        BY <3>1, <4>1, <4>2, Zenon
    <3>3. Peek(position + 3, 12) \in Nat
      BY <1>1, <3>1, PeekRanges
    <3>4. Pow2[6 + 1] = 64 /\ Pow2[8 + 1] = 256
      BY PowerTable
    <3> QED
      BY <3>2, <3>3, <3>4
  <2>2. Distance = 320 + Peek(position + 3, 12)
    BY <1>6, <2>1 DEF Distance, DS_SECTOR_BREAK
  <2>3. ~(Peek(position + 3, 12) <= 255)
    BY <1>6, <2>1, <2>2 DEF DS_SECTOR_BREAK
  <2>4. ~(position + 3 + 8 > s)
    BY <1>1, <1>3, <2>3
  <2> HIDE DEF s
  <2> QED
    BY <1>1, <1>2, <1>4, <2>4 DEF MaxOverrun
<1>7. ASSUME Run < 9
      PROVE  GammaStart + 2 * Run + 1 <= s + MaxOverrun
  <2>1. GammaStart \in Nat
    BY <1>1, <1>2 DEF GammaStart
  <2>2. Peek(GammaStart + Run, 1) = 1
    BY <1>1, <1>7, <2>1, RunFacts DEF Run
  <2>3. ~(GammaStart + Run >= s)
    <3>1. GammaStart + Run \in Nat
      BY <1>2, <2>1
    <3> QED
      BY <1>3, <2>2, <3>1
  <2> HIDE DEF s
  <2> QED
    BY <1>2, <1>4, <1>7, <2>1, <2>3 DEF MaxOverrun
<1> QED
  BY <1>1, <1>5, <1>6, <1>7

LEMMA OverrunStep ==
  ASSUME IInv, OverrunBounded, Next
  PROVE  OverrunBounded'
<1> SUFFICES ASSUME phase' \in {"block", "copy"}
             PROVE  position' <= 8 * Span' + MaxOverrun
  BY DEF OverrunBounded
<1>1. ASSUME phase \in {"block", "copy"}, UNCHANGED <<file, chunk_offsets, index>>,
             position' <= 8 * Span + MaxOverrun
      PROVE  position' <= 8 * Span' + MaxOverrun
  <2>1. Span' = Span
    BY <1>1 DEF Span, Start, Stop
  <2> QED
    BY <1>1, <2>1
<1>2. phase \in {"block", "copy"} => position <= 8 * Span + MaxOverrun
  BY DEF OverrunBounded
<1>3. phase = "block" =>
        /\ IsLiteral => position + TokenBits <= 8 * Span + MaxOverrun
        /\ ~IsLiteral /\ Distance = DS_SECTOR_BREAK
             => position + TokenBits <= 8 * Span + MaxOverrun
        /\ Run < 9 => GammaStart + 2 * Run + 1 <= 8 * Span + MaxOverrun
  BY TokenEnds
<1>4. CASE OpenChunk
  <2>1. phase = "chunks" /\ index < Len(chunk_offsets)
    BY <1>4 DEF OpenChunk, AtChunk
  <2>2. position' = 0 /\ UNCHANGED <<file, chunk_offsets, index>>
    BY <1>4, <2>1 DEF OpenChunk, Fail
  <2>3. Span \in Nat /\ Span' = Span
    BY <2>1, <2>2, SpanFacts DEF Span, Start, Stop
  <2> QED
    BY <2>2, <2>3 DEF MaxOverrun
<1>5. CASE Literal
  <2>1. /\ phase = "block" /\ IsLiteral /\ position' = position + TokenBits
        /\ UNCHANGED <<file, chunk_offsets, index>>
    BY <1>5 DEF Literal, AtToken
  <2> QED
    BY <1>1, <1>3, <2>1
<1>6. CASE SectorBreak
  <2>1. /\ phase = "block" /\ ~IsLiteral /\ Distance = DS_SECTOR_BREAK
        /\ position' = position + TokenBits /\ UNCHANGED <<file, chunk_offsets, index>>
    BY <1>6 DEF SectorBreak, AtToken
  <2> QED
    BY <1>1, <1>3, <2>1
<1>7. CASE StartMatch
  <2>1. /\ phase = "block" /\ Run < 9 /\ position' = GammaStart + 2 * Run + 1
        /\ UNCHANGED <<file, chunk_offsets, index>>
    BY <1>7 DEF StartMatch, AtMatch, AtToken
  <2> QED
    BY <1>1, <1>3, <2>1
<1>8. CASE CopyByte \/ EndMatch
  <2>1. phase = "copy" /\ UNCHANGED <<file, chunk_offsets, index, position>>
    BY <1>8 DEF CopyByte, EndMatch
  <2> QED
    BY <1>1, <1>2, <2>1
<1>9. CASE EndMarker \/ ChunkFull
  BY <1>9 DEF EndMarker, ChunkFull, EndBlock
<1>10. CASE RefuseHeader \/ StartBody \/ Finish \/ CorruptMatch
  <2>1. file \in Files
    BY DEF IInv, TypeOK
  <2> QED
    BY <1>10, <2>1, FileFacts
    DEF RefuseHeader, StartBody, Finish, CorruptMatch, Fail, HeaderErrors
<1>11. CASE ReadOffset
  BY <1>11 DEF ReadOffset, Parsing, Fail
<1> QED
  BY <1>4, <1>5, <1>6, <1>7, <1>8, <1>9, <1>10, <1>11 DEF Next

-----------------------------------------------------------------------------
(* A match repeats what lies in front of it.                               *)

LEMMA StartMatchCopying ==
  ASSUME IInv, Copying, StartMatch
  PROVE  Copying'
<1>1. phase = "block" /\ Distance # 0 /\ Run < 9 /\ ~Underflow /\ ~Overflow
  BY DEF StartMatch, AtMatch, AtToken
<1>2. Distance \in Nat /\ MatchLength \in 2 .. 512
  BY <1>1, BlockFacts, TokenFacts
<1>3. /\ distance' = Distance /\ length' = MatchLength /\ copied' = 0 /\ phase' = "copy"
      /\ UNCHANGED <<file, out, block_start>>
  BY DEF StartMatch
<1>4. file.size \in Nat /\ Len(out) \in Nat /\ block_start \in 0 .. Len(out)
  BY <1>1, FileFacts, BlockFacts DEF IInv, TypeOK
<1>5. Distance \in 1 .. Len(out) - block_start
      /\ Len(out) - block_start + MatchLength <= file.size
  BY <1>1, <1>2, <1>4 DEF Underflow, Overflow, Produced
<1>6. MatchBegan' = Len(out)
  BY <1>3, <1>4 DEF MatchBegan
<1> QED
  BY <1>2, <1>3, <1>5, <1>6 DEF Copying

LEMMA CopyByteCopying ==
  ASSUME IInv, Copying, CopyByte
  PROVE  Copying'
<1> DEFINE L == Len(out)
           B == MatchBegan
           d == distance
<1>1. /\ phase = "copy" /\ copied < length /\ out' = Append(out, Source)
      /\ copied' = copied + 1
      /\ UNCHANGED <<file, phase, chunk_offsets, index, block_start, position, distance, length>>
  BY DEF CopyByte
<1>2. /\ out \in Seq(Byte) /\ L \in Nat /\ block_start \in 0 .. L
      /\ length \in 2 .. 512 /\ copied \in 0 .. length /\ d \in 1 .. B - block_start
      /\ B = L - copied /\ B - block_start + length <= file.size
      /\ \A j \in 1 .. copied : out[B + j] = out[B - d + 1 + ((j - 1) % d)]
  BY <1>1 DEF IInv, TypeOK, Copying, MatchBegan
<1>3. B \in Nat /\ copied \in Nat /\ d \in Nat \ {0} /\ d <= B /\ L = B + copied
  BY <1>2
<1>4. Source = out[L - d + 1]
  BY DEF Source
<1>5. Source = out[B - d + 1 + (copied % d)]
  <2>1. CASE copied < d
    <3>1. copied % d = copied
      BY <1>3, <2>1
    <3>2. L - d + 1 = B - d + 1 + copied
      BY <1>3
    <3> QED
      BY <1>4, <3>1, <3>2
  <2>2. CASE copied >= d
    <3> DEFINE j == copied - d + 1
               a == copied - d
    <3>1. j \in 1 .. copied /\ a \in Nat /\ j - 1 = a /\ a + d = copied /\ B + j = L - d + 1
      BY <1>3, <2>2
    <3>2. out[B + j] = out[B - d + 1 + ((j - 1) % d)]
      BY <1>2, <3>1
    <3>3. (a + d) % d = a % d
      <4> HIDE DEF a, d
      <4> QED
        BY <1>3, <3>1, ModShift
    <3> QED
      BY <1>4, <3>1, <3>2, <3>3
  <2> QED
    BY <1>3, <2>1, <2>2
<1>6. Source \in Byte
  <2>1. L - d + 1 \in 1 .. L
    BY <1>2, <1>3
  <2> QED
    BY <1>2, <1>4, <2>1
<1>7. Len(out') = L + 1 /\ out'[L + 1] = Source /\ \A i \in 1 .. L : out'[i] = out[i]
  BY <1>1, <1>2, <1>6
<1>8. MatchBegan' = B
  BY <1>1, <1>3, <1>7 DEF MatchBegan
<1> HIDE DEF B
<1>9. ASSUME NEW j \in 1 .. copied + 1
      PROVE  out'[B + j] = out'[B - d + 1 + ((j - 1) % d)]
  <2>1. (j - 1) % d \in 0 .. d - 1 /\ (j - 1) % d <= j - 1
    <3>1. j - 1 \in Nat
      BY <1>3
    <3> DEFINE a == j - 1
    <3> HIDE DEF a, d
    <3>2. a \in Nat
      BY <3>1 DEF a
    <3>3. a % d \in 0 .. d - 1
      BY <1>3, <3>2, DivMod
    <3>4. a % d \in 0 .. a
      BY <1>3, <3>2, SmallerParts
    <3>5. a % d <= a
      BY <3>2, <3>4
    <3> QED
      BY <3>3, <3>5 DEF a, d
  <2>2. B - d + 1 + ((j - 1) % d) \in 1 .. L
    BY <1>3, <2>1
  <2>3. out'[B - d + 1 + ((j - 1) % d)] = out[B - d + 1 + ((j - 1) % d)]
    BY <1>7, <2>2
  <2>4. CASE j \in 1 .. copied
    <3>1. B + j \in 1 .. L
      BY <1>3, <2>4
    <3> QED
      BY <1>2, <1>7, <2>3, <2>4, <3>1
  <2>5. CASE j = copied + 1
    <3>1. B + j = L + 1 /\ j - 1 = copied
      BY <1>3, <2>5
    <3> QED
      BY <1>5, <1>7, <2>3, <3>1
  <2> QED
    BY <1>3, <2>4, <2>5
<1> QED
  BY <1>1, <1>2, <1>8, <1>9 DEF Copying

LEMMA CopyingStep ==
  ASSUME IInv, Copying, Next
  PROVE  Copying'
<1>1. CASE StartMatch
  BY <1>1, StartMatchCopying
<1>2. CASE CopyByte
  BY <1>2, CopyByteCopying
<1>3. CASE EndMatch
  BY <1>3 DEF EndMatch, Copying
<1>4. ASSUME phase # "copy", phase' # "copy", copied' = copied
      PROVE  Copying'
  BY <1>4 DEF Copying
<1>5. CASE RefuseHeader \/ StartBody \/ Finish \/ CorruptMatch
  <2>1. file.header # "copy"
    BY FileFacts DEF IInv, TypeOK, HeaderErrors
  <2>2. phase # "copy" /\ phase' # "copy" /\ copied' = copied
    BY <1>5, <2>1
    DEF RefuseHeader, StartBody, Finish, CorruptMatch, Parsing, AtMatch, AtToken, Fail, cursorVars
  <2> QED
    BY <1>4, <2>2
<1>6. CASE ReadOffset
  BY <1>4, <1>6 DEF ReadOffset, Parsing, Fail, cursorVars
<1>7. CASE OpenChunk
  BY <1>4, <1>7 DEF OpenChunk, AtChunk, Fail, cursorVars
<1>8. CASE Literal \/ SectorBreak
  BY <1>4, <1>8 DEF Literal, SectorBreak, AtToken
<1>9. CASE EndMarker \/ ChunkFull
  BY <1>4, <1>9 DEF EndMarker, ChunkFull, AtToken, EndBlock
<1> QED
  BY <1>1, <1>2, <1>3, <1>5, <1>6, <1>7, <1>8, <1>9 DEF Next

LEMMA AlwaysLzInv == Spec => []LzInv
<1>1. Init => LzInv
  <2> SUFFICES ASSUME Init
               PROVE  LzInv
    OBVIOUS
  <2>1. OverrunBounded /\ Copying
    BY DEF Init, OverrunBounded, Copying
  <2> QED
    BY <2>1, InitHolds DEF LzInv
<1>2. LzInv /\ [Next]_vars => LzInv'
  <2> SUFFICES ASSUME LzInv, [Next]_vars
               PROVE  LzInv'
    OBVIOUS
  <2>1. IInv /\ OverrunBounded /\ Copying
    BY DEF LzInv
  <2>2. IInv'
    BY <2>1, Inductive
  <2>3. CASE Next
    BY <2>1, <2>2, <2>3, OverrunStep, CopyingStep DEF LzInv
  <2>4. CASE UNCHANGED vars
    <3>1. OverrunBounded'
      BY <2>1, <2>4 DEF OverrunBounded, Span, Start, Stop, vars, cursorVars
    <3>2. Copying'
      BY <2>1, <2>4 DEF Copying, MatchBegan, vars, cursorVars
    <3> QED
      BY <2>2, <3>1, <3>2 DEF LzInv
  <2> QED
    BY <2>3, <2>4
<1> QED
  BY <1>1, <1>2, PTL DEF Spec

(***************************************************************************)
(* BitStream, for every chunk: the cursor of a block that goes on is never *)
(* more than eight bits behind the stored bytes, since the zeros there end *)
(* the block.                                                              *)
(***************************************************************************)
THEOREM OverrunAlwaysBounded == Spec => []OverrunBounded
<1>1. LzInv => OverrunBounded
  BY DEF LzInv
<1> QED
  BY <1>1, AlwaysLzInv, PTL

-----------------------------------------------------------------------------
(* The decoder implements LzStream: what each step is to the reader of the *)
(* output, with the match that is being copied not yet in it.              *)

Output == SubSeq(out, 1, Len(out) - copied)

Opened == IF phase \in {"block", "copy"} THEN block_start ELSE Len(out)

Verdict == CASE phase = "ok" -> "done" [] phase \in Failures -> "failed"
             [] OTHER -> "decoding"

LEMMA TheWhole ==
  ASSUME NEW s \in Seq(Byte)
  PROVE  SubSeq(s, 1, Len(s) - 0) = s
OBVIOUS

LEMMA PromiseInit == Init => Promise!LzInit
<1> SUFFICES ASSUME Init
             PROVE  Promise!LzInit
  OBVIOUS
<1>1. out = <<>> /\ copied = 0 /\ phase = "parse"
  BY DEF Init
<1>2. SubSeq(out, 1, Len(out) - copied) = <<>>
  BY <1>1
<1>3. phase \notin Failures /\ Len(out) = 0
  BY <1>1 DEF Failures, HeaderErrors
<1> QED
  BY <1>1, <1>2, <1>3 DEF Promise!LzInit

(* The actions of the promise, in these three.                             *)
LEMMA PromiseActions ==
  /\ \A bytes : Promise!Grow(bytes) <=>
       /\ Verdict = "decoding" /\ Len(Output) - Opened + Len(bytes) <= file.size
       /\ Output' = Output \o bytes
       /\ file'.size = file.size /\ Opened' = Opened /\ Verdict' = Verdict
  /\ Promise!RawChunk <=>
       /\ Verdict = "decoding" /\ Len(Output) - Opened = 0
       /\ IsPrefix(Output, Output') /\ Len(Output') = Len(Output) + file.size
       /\ Opened' = Len(Output')
       /\ file'.size = file.size /\ Verdict' = Verdict
  /\ Promise!CloseChunk <=>
       /\ Verdict = "decoding" /\ Opened' = Len(Output)
       /\ file'.size = file.size /\ Output' = Output /\ Verdict' = Verdict
  /\ Promise!GiveVerdict <=>
       /\ Verdict = "decoding" /\ Verdict' \in {"done", "failed"} /\ Opened' = Len(Output)
       /\ file'.size = file.size /\ Output' = Output
  /\ \A d, n : Promise!Periodic(d, n) =
       [j \in 1 .. n |-> Output[Len(Output) - d + 1 + ((j - 1) % d)]]
  /\ Promise!Match <=>
       /\ Len(Output') - Len(Output) \in 2 .. 512
       /\ \E d \in 1 .. Len(Output) - Opened :
            Promise!Grow(Promise!Periodic(d, Len(Output') - Len(Output)))
  /\ UNCHANGED Promise!lzVars <=>
       file'.size = file.size /\ Output' = Output /\ Opened' = Opened /\ Verdict' = Verdict
<1>1. \A bytes : Promise!Grow(bytes) <=>
       /\ Verdict = "decoding" /\ Len(Output) - Opened + Len(bytes) <= file.size
       /\ Output' = Output \o bytes
       /\ file'.size = file.size /\ Opened' = Opened /\ Verdict' = Verdict
  BY Zenon DEF Promise!Grow, Promise!Produced, Output, Opened, Verdict
<1>2. Promise!RawChunk <=>
       /\ Verdict = "decoding" /\ Len(Output) - Opened = 0
       /\ IsPrefix(Output, Output') /\ Len(Output') = Len(Output) + file.size
       /\ Opened' = Len(Output')
       /\ file'.size = file.size /\ Verdict' = Verdict
  BY Zenon DEF Promise!RawChunk, Promise!Produced, Promise!IsPrefix, IsPrefix, Output, Opened, Verdict
<1>3. Promise!CloseChunk <=>
       /\ Verdict = "decoding" /\ Opened' = Len(Output)
       /\ file'.size = file.size /\ Output' = Output /\ Verdict' = Verdict
  BY Zenon DEF Promise!CloseChunk, Output, Opened, Verdict
<1>4. Promise!GiveVerdict <=>
       /\ Verdict = "decoding" /\ Verdict' \in {"done", "failed"} /\ Opened' = Len(Output)
       /\ file'.size = file.size /\ Output' = Output
  BY Zenon DEF Promise!GiveVerdict, Output, Opened, Verdict
<1>5. \A d, n : Promise!Periodic(d, n) =
       [j \in 1 .. n |-> Output[Len(Output) - d + 1 + ((j - 1) % d)]]
  BY Zenon DEF Promise!Periodic, Output
<1>6. Promise!Match <=>
       /\ Len(Output') - Len(Output) \in 2 .. 512
       /\ \E d \in 1 .. Len(Output) - Opened :
            Promise!Grow(Promise!Periodic(d, Len(Output') - Len(Output)))
  BY Zenon DEF Promise!Match, Promise!Produced, Output, Opened, Promise!MinMatch, Promise!MaxMatch
<1>7. UNCHANGED Promise!lzVars <=>
       file'.size = file.size /\ Output' = Output /\ Opened' = Opened /\ Verdict' = Verdict
  BY Zenon DEF Promise!lzVars, Output, Opened, Verdict
<1> QED
  BY <1>1, <1>2, <1>3, <1>4, <1>5, <1>6, <1>7

Running == phase \notin {"ok"} \cup Failures

VerdictOK ==
  /\ phase = "ok" => Verdict = "done"
  /\ phase \in Failures => Verdict = "failed"
  /\ Running => Verdict = "decoding"

LEMMA VerdictIs == VerdictOK
BY Zenon DEF VerdictOK, Verdict, Running, Failures, HeaderErrors

Views ==
  /\ out \in Seq(Byte) /\ Len(out) \in Nat /\ block_start \in 0 .. Len(out)
  /\ file \in Files /\ file.size \in Nat
  /\ phase # "copy" => Output = out
  /\ phase = "copy" => Len(Output) = MatchBegan /\ MatchBegan \in block_start .. Len(out)

LEMMA ViewsHold == LzInv => Views
<1> SUFFICES ASSUME LzInv
             PROVE  Views
  OBVIOUS
<1>1. /\ out \in Seq(Byte) /\ Len(out) \in Nat /\ block_start \in 0 .. Len(out)
      /\ file \in Files /\ copied \in 0 .. length /\ length \in Nat /\ Copying
  BY DEF LzInv, IInv, TypeOK
<1>2. file.size \in Nat
  BY <1>1, FileFacts
<1>3. ASSUME phase # "copy"
      PROVE  Output = out
  <2>1. Output = SubSeq(out, 1, Len(out) - 0)
    BY <1>1, <1>3 DEF Copying, Output
  <2> QED
    BY <1>1, <2>1, TheWhole
<1>4. ASSUME phase = "copy"
      PROVE  Len(Output) = MatchBegan /\ MatchBegan \in block_start .. Len(out)
  <2>1. distance \in 1 .. MatchBegan - block_start /\ MatchBegan = Len(out) - copied
    BY <1>1, <1>4 DEF Copying, MatchBegan
  <2>2. MatchBegan \in block_start .. Len(out)
    BY <1>1, <2>1
  <2> QED
    BY <1>1, <2>1, <2>2 DEF Output
<1> QED
  BY <1>1, <1>2, <1>3, <1>4 DEF Views

(* A step that ends the run.                                               *)
LEMMA VerdictGiven ==
  ASSUME Views, Views', VerdictOK, VerdictOK', Running, phase # "copy",
         NEW reason \in {"ok"} \cup Failures, Fail(reason)
  PROVE  Promise!GiveVerdict
<1>1. file' = file /\ out' = out /\ phase' = reason
  BY DEF Fail
<1>2. reason \notin {"block", "copy"}
  BY DEF Failures, HeaderErrors
<1>3. Output = out /\ Output' = out
  BY <1>1, <1>2 DEF Views
<1>4. Opened' = Len(Output)
  BY <1>1, <1>2, <1>3 DEF Opened
<1>5. Verdict = "decoding" /\ Verdict' \in {"done", "failed"}
  BY <1>1 DEF VerdictOK
<1> QED
  BY <1>1, <1>3, <1>4, <1>5, PromiseActions

(* Within a block, and between the chunks, the output is all there is.     *)
LEMMA OutsideMatch ==
  ASSUME Views, VerdictOK, phase \in {"parse", "chunks", "block"}
  PROVE  /\ Output = out /\ Verdict = "decoding"
         /\ Opened = IF phase = "block" THEN block_start ELSE Len(out)
<1>1. Running
  BY DEF Running, Failures, HeaderErrors
<1> QED
  BY <1>1 DEF Views, VerdictOK, Opened

LEMMA ConcatPrefix ==
  ASSUME NEW s \in Seq(Byte), NEW u \in Seq(Byte)
  PROVE  Len(s \o u) = Len(s) + Len(u) /\ IsPrefix(s, s \o u)
<1>1. Len(s \o u) = Len(s) + Len(u) /\ Len(s) \in Nat /\ Len(u) \in Nat
  OBVIOUS
<1>2. SubSeq(s, 1, Len(s)) = s /\ SubSeq(s \o u, 1, Len(s)) = s
  OBVIOUS
<1> QED
  BY <1>1, <1>2 DEF IsPrefix

LEMMA ChunkSteps ==
  ASSUME LzInv, Views, Views', VerdictOK, VerdictOK', OpenChunk
  PROVE  Promise!RawChunk \/ UNCHANGED Promise!lzVars
<1>1. phase = "chunks" /\ index < Len(chunk_offsets) /\ IInv
  BY DEF OpenChunk, AtChunk, LzInv
<1>2. Span \in Nat /\ InFile /\ Start \in Nat /\ Stop \in Nat /\ Start <= Stop
      /\ Stop <= Len(file.data) /\ Span = Stop - Start
  BY <1>1, SpanFacts
<1>3. Output = out /\ Verdict = "decoding" /\ Opened = Len(out)
  BY <1>1, OutsideMatch
<1>4. CASE /\ Span = file.size /\ out' = out \o Stored /\ index' = index + 1
           /\ UNCHANGED <<file, phase, chunk_offsets, cursorVars>>
  <2>1. Stored \in Seq(Byte) /\ Len(Stored) = Span
    <3>1. file.data \in Seq(Byte)
      BY FileFacts DEF Views
    <3> QED
      BY <1>2, <3>1, SubSeqBytes DEF Stored
  <2>2. Output' = out' /\ Verdict' = "decoding" /\ Opened' = Len(out')
    BY <1>1, <1>4 DEF Views, VerdictOK, Running, Opened, Failures, HeaderErrors
  <2>3. Len(out') = Len(out) + file.size /\ IsPrefix(out, out')
    BY <1>4, <2>1, ConcatPrefix DEF Views
  <2>4. Len(Output) - Opened = 0
    BY <1>3 DEF Views
  <2> QED
    BY <1>3, <1>4, <2>2, <2>3, <2>4, PromiseActions
<1>5. CASE /\ block_start' = Len(out) /\ position' = 0 /\ phase' = "block"
           /\ UNCHANGED <<file, chunk_offsets, index, out, distance, length, copied>>
  <2>1. Output' = out /\ Verdict' = "decoding" /\ Opened' = Len(out)
    BY <1>5 DEF Views, VerdictOK, Running, Opened, Failures, HeaderErrors
  <2> QED
    BY <1>3, <1>5, <2>1, PromiseActions
<1> QED
  BY <1>2, <1>4, <1>5 DEF OpenChunk

LEMMA TokenSteps ==
  ASSUME LzInv, Views, Views', VerdictOK, VerdictOK'
  PROVE  /\ Literal => Promise!Literal
         /\ EndMarker \/ ChunkFull => Promise!CloseChunk
         /\ SectorBreak \/ StartMatch => UNCHANGED Promise!lzVars
<1>1. ASSUME phase = "block"
      PROVE  Output = out /\ Verdict = "decoding" /\ Opened = block_start
  BY <1>1, OutsideMatch
<1>2. ASSUME Literal
      PROVE  Promise!Literal
  <2> DEFINE byte == (IF Tag = 1 THEN 128 ELSE 0) + Peek(position + 2, 7)
  <2>1. /\ phase = "block" /\ Len(out) - block_start < file.size /\ out' = Append(out, byte)
        /\ UNCHANGED <<file, phase, block_start>>
    BY <1>2 DEF Literal, AtToken, Produced
  <2>2. byte \in 0 .. 255
    <3>1. index < Len(chunk_offsets) /\ IInv
      BY <2>1, BlockFacts DEF LzInv
    <3> QED
      BY <3>1, TokenFacts DEF Byte
  <2> HIDE DEF byte
  <2>3. out' = out \o <<byte>> /\ Len(<<byte>>) = 1
    BY <2>1, <2>2 DEF Views, Byte
  <2>4. Output' = out' /\ Verdict' = "decoding" /\ Opened' = block_start
    BY <2>1 DEF Views, VerdictOK, Running, Opened, Failures, HeaderErrors
  <2>5. Len(out) - block_start + Len(<<byte>>) <= file.size
    BY <2>1, <2>3 DEF Views
  <2>6. Promise!Grow(<<byte>>)
    BY <1>1, <2>1, <2>3, <2>4, <2>5, PromiseActions
  <2> QED
    BY <2>2, <2>6 DEF Promise!Literal
<1>3. ASSUME EndMarker \/ ChunkFull
      PROVE  Promise!CloseChunk
  <2>1. /\ phase = "block" /\ phase' = "chunks" /\ UNCHANGED <<file, out>>
    BY <1>3 DEF EndMarker, ChunkFull, AtToken, EndBlock
  <2>2. Output' = out /\ Verdict' = "decoding" /\ Opened' = Len(out)
    BY <2>1 DEF Views, VerdictOK, Running, Opened, Failures, HeaderErrors
  <2> QED
    BY <1>1, <2>1, <2>2, PromiseActions
<1>4. ASSUME SectorBreak
      PROVE  UNCHANGED Promise!lzVars
  <2>1. /\ phase = "block" /\ UNCHANGED <<file, phase, out, block_start>>
    BY <1>4 DEF SectorBreak, AtToken
  <2>2. Output' = out /\ Verdict' = "decoding" /\ Opened' = block_start
    BY <2>1 DEF Views, VerdictOK, Running, Opened, Failures, HeaderErrors
  <2> QED
    BY <1>1, <2>1, <2>2, PromiseActions
<1>5. ASSUME StartMatch
      PROVE  UNCHANGED Promise!lzVars
  <2>1. /\ phase = "block" /\ phase' = "copy" /\ copied' = 0 /\ UNCHANGED <<file, out, block_start>>
    BY <1>5 DEF StartMatch, AtMatch, AtToken
  <2>2. Output' = SubSeq(out, 1, Len(out) - 0)
    BY <2>1 DEF Output
  <2>3. Output' = out
    BY <2>2, TheWhole DEF Views
  <2>4. Verdict' = "decoding" /\ Opened' = block_start
    BY <2>1 DEF VerdictOK, Running, Opened, Failures, HeaderErrors
  <2> QED
    BY <1>1, <2>1, <2>3, <2>4, PromiseActions
<1> QED
  BY <1>2, <1>3, <1>4, <1>5

(* A byte copied is not in the output yet.                                 *)
LEMMA CopyByteHidden ==
  ASSUME LzInv, Views, Views', VerdictOK, VerdictOK', CopyByte
  PROVE  UNCHANGED Promise!lzVars
<1>1. /\ phase = "copy" /\ out' = Append(out, Source) /\ copied' = copied + 1
      /\ UNCHANGED <<file, phase, block_start>>
  BY DEF CopyByte
<1>2. out \in Seq(Byte) /\ Len(out) \in Nat /\ copied \in 0 .. Len(out)
  <2>1. copied \in Nat /\ MatchBegan = Len(out) - copied
    BY DEF LzInv, IInv, TypeOK, MatchBegan
  <2>2. MatchBegan \in block_start .. Len(out) /\ block_start \in Nat
    BY <1>1 DEF Views
  <2> QED
    BY <2>1, <2>2 DEF Views
<1>3. Len(out') = Len(out) + 1 /\ out' \in Seq(Byte)
      /\ \A i \in 1 .. Len(out) : out'[i] = out[i]
  <2>1. Len(out') = Len(out) + 1 /\ \A i \in 1 .. Len(out) : out'[i] = out[i]
    BY <1>1, <1>2
  <2> QED
    BY <2>1 DEF Views
<1>4. Output' = Output
  <2> DEFINE n == Len(out) - copied
  <2>1. n \in 0 .. Len(out) /\ Len(out') - copied' = n
    BY <1>1, <1>2, <1>3
  <2> HIDE DEF n
  <2>2. SubSeq(out', 1, n) = SubSeq(out, 1, n)
    BY <1>2, <1>3, <2>1
  <2> QED
    BY <2>1, <2>2 DEF Output, n
<1>5. Opened' = Opened /\ Verdict' = Verdict
  BY <1>1 DEF Opened, VerdictOK, Running, Failures, HeaderErrors
<1> QED
  BY <1>1, <1>4, <1>5, PromiseActions

(* The match appears at once when it is complete, and repeats periodically *)
(* what the output ended with.                                             *)
LEMMA EndMatchShown ==
  ASSUME LzInv, Views, Views', VerdictOK, VerdictOK', EndMatch
  PROVE  Promise!Match
<1> DEFINE B == MatchBegan
           d == distance
           n == length
<1>1. /\ phase = "copy" /\ copied = n /\ phase' = "block" /\ copied' = 0
      /\ UNCHANGED <<file, out, block_start>>
  BY DEF EndMatch
<1>2. /\ out \in Seq(Byte) /\ Len(out) = B + n /\ B \in Nat /\ block_start \in 0 .. B
      /\ n \in 2 .. 512 /\ d \in 1 .. B - block_start /\ B - block_start + n <= file.size
      /\ file.size \in Nat
      /\ \A j \in 1 .. n : out[B + j] = out[B - d + 1 + ((j - 1) % d)]
  <2>1. Copying /\ B = Len(out) - n
    BY <1>1 DEF LzInv, MatchBegan
  <2> HIDE DEF B
  <2>2. /\ n \in 2 .. 512 /\ d \in 1 .. B - block_start /\ B - block_start + n <= file.size
        /\ \A j \in 1 .. n : out[B + j] = out[B - d + 1 + ((j - 1) % d)]
    BY <1>1, <2>1 DEF Copying, B
  <2>3. /\ out \in Seq(Byte) /\ Len(out) \in Nat /\ block_start \in 0 .. Len(out)
        /\ file.size \in Nat
    BY DEF Views
  <2>4. Len(out) = B + n /\ B \in Nat /\ block_start \in 0 .. B
    BY <2>1, <2>2, <2>3
  <2> QED
    BY <2>2, <2>3, <2>4
<1>3. /\ Output = SubSeq(out, 1, B) /\ Len(Output) = B /\ Output' = out
      /\ Opened = block_start /\ Opened' = block_start
      /\ Verdict = "decoding" /\ Verdict' = "decoding"
  <2>1. Output = SubSeq(out, 1, B)
    BY DEF Output, MatchBegan
  <2>2. Running /\ Running'
    BY <1>1 DEF Running, Failures, HeaderErrors
  <2> QED
    BY <1>1, <2>1, <2>2 DEF Views, Opened, VerdictOK
<1> HIDE DEF B
<1>4. \A i \in 1 .. B : Output[i] = out[i]
  BY <1>2, <1>3
<1> DEFINE P == [j \in 1 .. n |-> Output[B - d + 1 + ((j - 1) % d)]]
<1>5. ASSUME NEW j \in 1 .. n
      PROVE  P[j] = out[B + j]
  <2>1. (j - 1) % d \in 0 .. d - 1
    <3> DEFINE a == j - 1
    <3>1. a \in Nat /\ d \in Nat \ {0}
      BY <1>2
    <3> HIDE DEF a, d
    <3>2. a % d \in 0 .. d - 1
      BY <3>1, DivMod
    <3> QED
      BY <3>2 DEF a, d
  <2>2. B - d + 1 + ((j - 1) % d) \in 1 .. B
    BY <1>2, <2>1
  <2> QED
    BY <1>2, <1>4, <2>2
<1>6. P = SubSeq(out, B + 1, B + n)
  <2> DEFINE S == SubSeq(out, B + 1, B + n)
  <2>1. Len(S) = n /\ S = [j \in 1 .. n |-> out[B + j]]
    BY <1>2
  <2> QED
    BY <1>5, <2>1
<1>7. out = Output \o P /\ Len(P) = n
  <2>1. out = SubSeq(out, 1, B) \o SubSeq(out, B + 1, B + n)
    BY <1>2
  <2>2. Len(SubSeq(out, B + 1, B + n)) = n
    BY <1>2
  <2> QED
    BY <1>3, <1>6, <2>1, <2>2
<1>8. P = Promise!Periodic(d, n)
  BY <1>3, PromiseActions
<1> HIDE DEF P
<1>9. Promise!Grow(Promise!Periodic(d, n))
  <2>1. file'.size = file.size /\ Opened' = Opened /\ Verdict' = Verdict
        /\ Verdict = "decoding" /\ Output' = Output \o P
    BY <1>1, <1>3, <1>7
  <2>2. Len(Output) - Opened + Len(P) <= file.size
    BY <1>2, <1>3, <1>7
  <2>3. Promise!Grow(P)
    BY <2>1, <2>2, PromiseActions, Zenon
  <2> QED
    BY <1>8, <2>3
<1>10. Len(Output') - Len(Output) = n /\ d \in 1 .. Len(Output) - Opened
  BY <1>2, <1>3
<1> QED
  BY <1>2, <1>9, <1>10, PromiseActions

LEMMA PromiseStep ==
  ASSUME LzInv, LzInv', [Next]_vars
  PROVE  Promise!LzNext \/ UNCHANGED Promise!lzVars
<1>1. Views /\ Views' /\ VerdictOK /\ VerdictOK'
  BY ViewsHold, VerdictIs, PTL
<1>2. ASSUME NEW reason \in {"ok"} \cup Failures, Fail(reason),
             phase \in {"parse", "chunks", "block"}
      PROVE  Promise!LzNext
  <2>1. Running /\ phase # "copy"
    BY <1>2 DEF Running, Failures, HeaderErrors
  <2> QED
    BY <1>1, <1>2, <2>1, VerdictGiven DEF Promise!LzNext
<1>3. CASE RefuseHeader \/ Finish \/ CorruptMatch
  <2>1. file.header # "ok" => file.header \in Failures
    BY <1>1, FileFacts DEF Views, Failures
  <2>2. \E reason \in {"ok"} \cup Failures :
          Fail(reason) /\ phase \in {"parse", "chunks", "block"}
    BY <1>3, <2>1 DEF RefuseHeader, Finish, CorruptMatch, AtMatch, AtToken, Failures
  <2> QED
    BY <1>2, <2>2
<1>4. ASSUME phase = "parse", UNCHANGED <<file, out>>, phase' \in {"parse", "chunks"}
      PROVE  UNCHANGED Promise!lzVars
  <2>1. Running /\ Running'
    BY <1>4 DEF Running, Failures, HeaderErrors
  <2>2. Output' = Output /\ Opened' = Opened /\ Verdict' = Verdict
    BY <1>1, <1>4, <2>1 DEF Views, VerdictOK, Opened
  <2> QED
    BY <1>4, <2>2, PromiseActions
<1>5. CASE ReadOffset
  <2>1. CASE UNCHANGED <<file, phase, index, out, cursorVars>>
    BY <1>4, <1>5, <2>1 DEF ReadOffset, Parsing
  <2>2. CASE Fail("w4_chunk_data") \/ Fail("w4_chunk_order")
    BY <1>2, <1>5, <2>2 DEF ReadOffset, Parsing, Failures
  <2> QED
    BY <1>5, <2>1, <2>2 DEF ReadOffset
<1>6. CASE StartBody
  <2>1. Fail("UnsupportedCodec") \/ Fail("w4_chunk_size") \/ Fail("chunks")
    BY <1>6, Zenon DEF StartBody
  <2>2. CASE Fail("UnsupportedCodec") \/ Fail("w4_chunk_size")
    BY <1>2, <1>6, <2>2 DEF StartBody, Parsing, Failures
  <2>3. CASE Fail("chunks")
    BY <1>4, <1>6, <2>3 DEF StartBody, Parsing, Fail
  <2> QED
    BY <2>1, <2>2, <2>3
<1>7. CASE OpenChunk
  BY <1>1, <1>7, ChunkSteps DEF Promise!LzNext
<1>8. CASE Literal \/ EndMarker \/ ChunkFull \/ SectorBreak \/ StartMatch
  BY <1>1, <1>8, TokenSteps DEF Promise!LzNext
<1>9. CASE CopyByte
  BY <1>1, <1>9, CopyByteHidden
<1>10. CASE EndMatch
  BY <1>1, <1>10, EndMatchShown DEF Promise!LzNext
<1>11. CASE UNCHANGED vars
  BY <1>11, PromiseActions DEF vars, cursorVars, Output, Opened, Verdict
<1> QED
  BY <1>3, <1>5, <1>6, <1>7, <1>8, <1>9, <1>10, <1>11 DEF Next

(***************************************************************************)
(* W4Archive::decompress and ds_decompress do what LzStream promises, for  *)
(* every archive: chunks of at most the chunk size, made of literals and   *)
(* of matches that repeat the end of their own chunk periodically, though  *)
(* the code copies them byte by byte over a distance that may be shorter   *)
(* than the match; and one verdict.                                        *)
(***************************************************************************)
THEOREM DecodesLz == Spec => ImplementsLz
<1>1. Init => Promise!LzInit
  BY PromiseInit
<1>2. LzInv /\ LzInv' /\ [Next]_vars => [Promise!LzNext]_(Promise!lzVars)
  BY PromiseStep
<1> QED
  BY <1>1, <1>2, AlwaysLzInv, PTL DEF Spec, ImplementsLz, Promise!LzSpec
-----------------------------------------------------------------------------
(* The work that is left. *)

Unread == Len(file.table) - Len(chunk_offsets)

Sizes ==
  /\ phase = "parse" => Unread \in Nat
  /\ phase \in {"chunks", "block", "copy"} => ChunksLeft \in Nat
  /\ phase \in {"block", "copy"} => ChunksLeft >= 1 /\ BitsLeft \in Nat
  /\ length - copied \in Nat

LEMMA SizesHold == LzInv => Sizes
<1> SUFFICES ASSUME LzInv
             PROVE  Sizes
  OBVIOUS
<1>1. IInv /\ file \in Files
  BY DEF LzInv, IInv, TypeOK
<1>2. /\ Len(chunk_offsets) \in Nat /\ index \in 0 .. Len(chunk_offsets)
      /\ position \in Nat /\ length \in Nat /\ copied \in 0 .. length
  BY <1>1 DEF IInv, TypeOK
<1>3. phase = "parse" => Unread \in Nat
  BY <1>1, <1>2, FileFacts DEF IInv, InChunk, Unread
<1>4. ChunksLeft \in Nat
  BY <1>2 DEF ChunksLeft
<1>5. ASSUME phase \in {"block", "copy"}
      PROVE  ChunksLeft >= 1 /\ BitsLeft \in Nat
  <2>1. index < Len(chunk_offsets)
    BY <1>1, <1>5 DEF IInv, InChunk
  <2>2. Span \in Nat
    BY <1>1, <2>1, SpanFacts
  <2>3. position <= 8 * Span + MaxOverrun
    BY <1>5 DEF LzInv, OverrunBounded
  <2> QED
    BY <1>2, <2>1, <2>2, <2>3 DEF ChunksLeft, BitsLeft, MaxOverrun
<1>6. length - copied \in Nat
  BY <1>2
<1> QED
  BY <1>3, <1>4, <1>5, <1>6 DEF Sizes

LEMMA SizesNext == LzInv' => Sizes'
BY SizesHold, PTL

Values ==
  /\ phase = "parse" => WorkLeft = <<2, Unread, 0, 0>>
  /\ phase = "chunks" => WorkLeft = <<1, 2 * ChunksLeft, 0, 0>>
  /\ phase = "block" => WorkLeft = <<1, 2 * ChunksLeft - 1, BitsLeft, 0>>
  /\ phase = "copy" => WorkLeft = <<1, 2 * ChunksLeft - 1, BitsLeft, length - copied + 1>>
  /\ phase \notin {"parse", "chunks", "block", "copy"} => WorkLeft = <<0, 0, 0, 0>>

LEMMA WorkValues == Values
<1>1. phase = "parse" => WorkLeft = <<2, Unread, 0, 0>>
  BY Zenon DEF WorkLeft, Unread
<1>2. phase = "chunks" => WorkLeft = <<1, 2 * ChunksLeft, 0, 0>>
  BY Zenon DEF WorkLeft
<1>3. phase = "block" => WorkLeft = <<1, 2 * ChunksLeft - 1, BitsLeft, 0>>
  BY Zenon DEF WorkLeft
<1>4. phase = "copy" => WorkLeft = <<1, 2 * ChunksLeft - 1, BitsLeft, length - copied + 1>>
  BY Zenon DEF WorkLeft
<1>5. phase \notin {"parse", "chunks", "block", "copy"} => WorkLeft = <<0, 0, 0, 0>>
  BY Zenon DEF WorkLeft
<1> QED
  BY <1>1, <1>2, <1>3, <1>4, <1>5 DEF Values

(* The places of the measure before a step. *)
LEMMA PlacesNow ==
  ASSUME Sizes, Values, phase \in {"parse", "chunks", "block", "copy"}
  PROVE  \E x, y, z, w \in Nat :
           /\ WorkLeft = <<x, y, z, w>>
           /\ phase = "parse" => x = 2 /\ y = Unread
           /\ phase # "parse" => x = 1
           /\ phase = "chunks" => y = 2 * ChunksLeft
           /\ phase \in {"block", "copy"} => y = 2 * ChunksLeft - 1 /\ z = BitsLeft
           /\ phase = "block" => w = 0
           /\ phase = "copy" => w = length - copied + 1
<1>1. 0 \in Nat /\ 1 \in Nat /\ 2 \in Nat
  OBVIOUS
<1>2. CASE phase = "parse"
  BY <1>1, <1>2 DEF Sizes, Values
<1>3. CASE phase = "chunks"
  <2>1. 2 * ChunksLeft \in Nat
    BY <1>3 DEF Sizes
  <2> QED
    BY <1>1, <1>3, <2>1 DEF Values
<1>4. CASE phase \in {"block", "copy"}
  <2>1. 2 * ChunksLeft - 1 \in Nat /\ BitsLeft \in Nat /\ length - copied + 1 \in Nat
    BY <1>4 DEF Sizes
  <2> QED
    BY <1>1, <1>4, <2>1 DEF Values
<1> QED
  BY <1>2, <1>3, <1>4

(* A token is consumed: the cursor moves on within the block. *)
LEMMA CursorMoves ==
  ASSUME LzInv, Literal \/ SectorBreak \/ StartMatch
  PROVE  /\ phase = "block" /\ position \in Nat /\ position' \in Nat /\ position < position'
         /\ UNCHANGED <<file, chunk_offsets, index>>
         /\ Literal \/ SectorBreak => phase' = "block"
         /\ StartMatch => phase' = "copy"
<1>1. IInv /\ phase = "block"
  BY DEF LzInv, Literal, SectorBreak, StartMatch, AtMatch, AtToken
<1>2. position \in Nat /\ TokenBits \in {8, 9, 11, 15} /\ Run \in 0 .. 9
  BY <1>1, BlockFacts, TokenFacts
<1>3. CASE Literal \/ SectorBreak
  <2>1. /\ position' = position + TokenBits /\ phase' = "block"
        /\ UNCHANGED <<file, chunk_offsets, index>>
    BY <1>1, <1>3 DEF Literal, SectorBreak
  <2>2. position' \in Nat /\ position < position'
    BY <1>2, <2>1
  <2> QED
    BY <1>1, <1>2, <2>1, <2>2 DEF StartMatch
<1>4. CASE StartMatch
  <2>1. /\ position' = position + TokenBits + 2 * Run + 1 /\ phase' = "copy"
        /\ UNCHANGED <<file, chunk_offsets, index>>
    BY <1>4 DEF StartMatch, GammaStart
  <2>2. position' \in Nat /\ position < position'
    BY <1>2, <2>1
  <2> QED
    BY <1>1, <1>2, <2>1, <2>2 DEF Literal, SectorBreak
<1> QED
  BY <1>3, <1>4

(***************************************************************************)
(* An iteration of parse, decompress or ds_decompress leaves less to do,   *)
(* also one whose token produces nothing (a sector break) and one whose    *)
(* chunk decodes to nothing; so none is without effect.                    *)
(***************************************************************************)
THEOREM StepShrinks ==
  ASSUME LzInv, LzInv', Next
  PROVE  Descends(4, WorkLeft', WorkLeft)
<1>1. Sizes /\ Sizes' /\ Values /\ Values'
  BY SizesHold, SizesNext, WorkValues, PTL
<1>2. /\ index \in Nat /\ Len(chunk_offsets) \in Nat /\ position \in Nat
      /\ length \in Nat /\ copied \in Nat /\ Len(file.table) \in Nat /\ IInv
      /\ file \in Files /\ chunk_offsets \in Seq(0 .. Len(file.data))
  BY FileFacts DEF LzInv, IInv, TypeOK
<1>3. phase \in {"parse", "chunks", "block", "copy"}
  BY DEF Next, RefuseHeader, ReadOffset, StartBody, Parsing, OpenChunk, AtChunk, Finish,
         Literal, EndMarker, ChunkFull, SectorBreak, CorruptMatch, StartMatch, AtMatch,
         AtToken, CopyByte, EndMatch
<1>4. PICK x, y, z, w \in Nat :
        /\ WorkLeft = <<x, y, z, w>>
        /\ phase = "parse" => x = 2 /\ y = Unread
        /\ phase # "parse" => x = 1
        /\ phase = "chunks" => y = 2 * ChunksLeft
        /\ phase \in {"block", "copy"} => y = 2 * ChunksLeft - 1 /\ z = BitsLeft
        /\ phase = "block" => w = 0
        /\ phase = "copy" => w = length - copied + 1
  BY <1>1, <1>3, PlacesNow
<1>5. \A a, b, c, d \in Nat :
        \/ a < x
        \/ a = x /\ b < y
        \/ a = x /\ b = y /\ c < z
        \/ a = x /\ b = y /\ c = z /\ d < w
        => Descends(4, <<a, b, c, d>>, WorkLeft)
  <2> SUFFICES ASSUME NEW a \in Nat, NEW b \in Nat, NEW c \in Nat, NEW d \in Nat,
                      \/ a < x
                      \/ a = x /\ b < y
                      \/ a = x /\ b = y /\ c < z
                      \/ a = x /\ b = y /\ c = z /\ d < w
               PROVE  Descends(4, <<a, b, c, d>>, WorkLeft)
    OBVIOUS
  <2>1. Descends(4, <<a, b, c, d>>, <<x, y, z, w>>)
    BY Descends4
  <2> QED
    BY <1>4, <2>1
<1>6. x \in {1, 2} /\ 0 \in Nat /\ 1 \in Nat /\ 2 \in Nat
  BY <1>3, <1>4
<1>7. CASE phase' \notin {"parse", "chunks", "block", "copy"}
  <2>1. WorkLeft' = <<0, 0, 0, 0>>
    BY <1>1, <1>7 DEF Values
  <2> QED
    BY <1>5, <1>6, <2>1
<1>8. ASSUME NEW reason \in {"ok"} \cup Failures, Fail(reason)
      PROVE  phase' \notin {"parse", "chunks", "block", "copy"}
  BY <1>8 DEF Fail, Failures, HeaderErrors
<1>9. ASSUME UNCHANGED <<file, chunk_offsets, index>>
      PROVE  Span' = Span /\ ChunksLeft' = ChunksLeft
  BY <1>9 DEF Span, Start, Stop, ChunksLeft
<1>10. CASE phase \in {"chunks", "block"} /\ phase' = "chunks" /\ index' = index + 1
            /\ chunk_offsets' = chunk_offsets
  <2>1. ChunksLeft' = ChunksLeft - 1
    BY <1>2, <1>10 DEF ChunksLeft
  <2>2. WorkLeft' = <<1, 2 * ChunksLeft', 0, 0>>
    BY <1>1, <1>10 DEF Values
  <2>3. ChunksLeft \in Nat /\ ChunksLeft' \in Nat /\ x = 1
    BY <1>1, <1>4, <1>10 DEF Sizes
  <2>4. 2 * ChunksLeft' \in Nat /\ 2 * ChunksLeft' < y
    BY <1>4, <1>10, <2>1, <2>3
  <2> QED
    BY <1>5, <1>6, <2>2, <2>3, <2>4
<1>11. CASE ReadOffset
  <2>1. phase = "parse"
    BY <1>11 DEF ReadOffset, Parsing
  <2>2. CASE chunk_offsets' = Append(chunk_offsets, Raw)
             /\ UNCHANGED <<file, phase, index, out, cursorVars>>
    <3>1. Len(chunk_offsets') = Len(chunk_offsets) + 1
      BY <1>2, <2>2
    <3>2. Unread' = Unread - 1 /\ Unread \in Nat /\ Unread' \in Nat
      BY <1>1, <1>2, <2>1, <2>2, <3>1 DEF Unread, Sizes
    <3>3. WorkLeft' = <<2, Unread', 0, 0>>
      BY <1>1, <2>1, <2>2 DEF Values
    <3>4. x = 2 /\ Unread' < y
      BY <1>4, <2>1, <3>2
    <3> QED
      BY <1>5, <1>6, <3>2, <3>3, <3>4
  <2>3. CASE Fail("w4_chunk_data") \/ Fail("w4_chunk_order")
    BY <1>7, <1>8, <2>3 DEF Failures
  <2> QED
    BY <1>11, <2>2, <2>3 DEF ReadOffset
<1>12. CASE StartBody
  <2>1. Fail("UnsupportedCodec") \/ Fail("w4_chunk_size") \/ Fail("chunks")
    BY <1>12, Zenon DEF StartBody
  <2>2. CASE Fail("UnsupportedCodec") \/ Fail("w4_chunk_size")
    BY <1>7, <1>8, <2>2 DEF Failures
  <2>3. CASE Fail("chunks")
    <3>1. phase = "parse" /\ phase' = "chunks"
      BY <1>12, <2>3 DEF StartBody, Parsing, Fail
    <3>2. WorkLeft' = <<1, 2 * ChunksLeft', 0, 0>> /\ 2 * ChunksLeft' \in Nat /\ x = 2
      BY <1>1, <1>4, <3>1 DEF Values, Sizes
    <3> QED
      BY <1>5, <1>6, <3>2
  <2> QED
    BY <2>1, <2>2, <2>3
<1>13. CASE OpenChunk
  <2>1. phase = "chunks"
    BY <1>13 DEF OpenChunk, AtChunk
  <2>2. CASE Fail("negative_span") \/ Fail("chunk_slice")
    BY <1>7, <1>8, <2>2 DEF Failures
  <2>3. CASE index' = index + 1 /\ UNCHANGED <<file, phase, chunk_offsets, cursorVars>>
    BY <1>10, <2>1, <2>3
  <2>4. CASE phase' = "block" /\ UNCHANGED <<file, chunk_offsets, index>>
    <3>1. ChunksLeft' = ChunksLeft
      BY <1>9, <2>4
    <3>2. WorkLeft' = <<1, 2 * ChunksLeft' - 1, BitsLeft', 0>>
      BY <1>1, <2>4 DEF Values
    <3>3. ChunksLeft' \in Nat /\ ChunksLeft' >= 1 /\ BitsLeft' \in Nat
      BY <1>1, <2>4 DEF Sizes
    <3>4. 2 * ChunksLeft' - 1 \in Nat /\ 2 * ChunksLeft' - 1 < y /\ x = 1
      BY <1>4, <2>1, <3>1, <3>3
    <3> QED
      BY <1>5, <1>6, <3>2, <3>3, <3>4
  <2> QED
    BY <1>13, <2>2, <2>3, <2>4 DEF OpenChunk
<1>14. CASE EndMarker \/ ChunkFull
  BY <1>10, <1>14 DEF EndMarker, ChunkFull, AtToken, EndBlock
<1>15. CASE Literal \/ SectorBreak \/ StartMatch
  <2>1. /\ phase = "block" /\ position \in Nat /\ position' \in Nat /\ position < position'
        /\ UNCHANGED <<file, chunk_offsets, index>> /\ phase' \in {"block", "copy"}
    BY <1>15, CursorMoves
  <2>2. Span' = Span /\ ChunksLeft' = ChunksLeft
    BY <1>9, <2>1
  <2>3. Span \in Nat
    BY <1>2, <2>1, BlockFacts, SpanFacts
  <2>4. BitsLeft' < BitsLeft
    <3>1. BitsLeft = 8 * Span + 8 - position /\ BitsLeft' = 8 * Span + 8 - position'
      BY <2>2 DEF BitsLeft, MaxOverrun
    <3>2. \A s, p, q \in Nat : p < q => 8 * s + 8 - q < 8 * s + 8 - p
      OBVIOUS
    <3>3. position \in Nat /\ position' \in Nat /\ position < position'
      BY <2>1
    <3>4. 8 * Span + 8 - position' < 8 * Span + 8 - position
      BY <2>3, <3>2, <3>3
    <3> QED
      BY <3>1, <3>4, Zenon
  <2>5. 2 * ChunksLeft' - 1 = y /\ BitsLeft' < z /\ BitsLeft' \in Nat /\ x = 1
    BY <1>1, <1>4, <2>1, <2>2, <2>4 DEF Sizes
  <2>6. length' - copied' + 1 \in Nat
    BY <1>1 DEF Sizes
  <2>7. \E d \in Nat : WorkLeft' = <<1, y, BitsLeft', d>>
    BY <1>1, <1>6, <2>1, <2>5, <2>6 DEF Values
  <2> QED
    BY <1>4, <1>5, <1>6, <2>5, <2>7
<1>16. CASE CopyByte \/ EndMatch
  <2>1. /\ phase = "copy" /\ UNCHANGED <<file, chunk_offsets, index, position>>
        /\ \/ phase' = "block"
           \/ phase' = "copy" /\ copied' = copied + 1 /\ length' = length
    BY <1>16 DEF CopyByte, EndMatch
  <2>2. Span' = Span /\ ChunksLeft' = ChunksLeft
    BY <1>9, <2>1
  <2>3. BitsLeft' = BitsLeft
    BY <2>1, <2>2 DEF BitsLeft, MaxOverrun
  <2>4. 2 * ChunksLeft' - 1 = y /\ BitsLeft' = z /\ x = 1 /\ w = length - copied + 1
    BY <1>4, <2>1, <2>2, <2>3
  <2>5. length - copied \in Nat /\ length' - copied' \in Nat
    BY <1>1 DEF Sizes
  <2>6. CASE phase' = "block"
    <3>1. WorkLeft' = <<1, y, z, 0>>
      BY <1>1, <2>4, <2>6 DEF Values
    <3> QED
      BY <1>4, <1>5, <1>6, <2>4, <2>5, <3>1
  <2>7. CASE phase' = "copy" /\ copied' = copied + 1 /\ length' = length
    <3>1. WorkLeft' = <<1, y, z, length' - copied' + 1>>
      BY <1>1, <2>4, <2>7 DEF Values
    <3>2. length' - copied' + 1 \in Nat /\ length' - copied' + 1 < w
      BY <1>2, <2>4, <2>5, <2>7
    <3> QED
      BY <1>4, <1>5, <1>6, <2>4, <3>1, <3>2
  <2> QED
    BY <2>1, <2>6, <2>7
<1>17. CASE RefuseHeader \/ Finish \/ CorruptMatch
  <2>1. file.header # "ok" => file.header \in Failures
    BY <1>2, FileFacts DEF Failures
  <2>2. \E reason \in {"ok"} \cup Failures : Fail(reason)
    BY <1>17, <2>1 DEF RefuseHeader, Finish, CorruptMatch, Failures
  <2> QED
    BY <1>7, <1>8, <2>2
<1> QED
  BY <1>11, <1>12, <1>13, <1>14, <1>15, <1>16, <1>17 DEF Next

(***************************************************************************)
(* The work left by an archive only ever shrinks: by StepShrinks and       *)
(* NoEndlessDescent parse, decompress and ds_decompress make finitely many *)
(* iterations, for every chunk table and every bit pattern.                *)
(***************************************************************************)
THEOREM DecodingShrinks == Spec => WorkShrinks
<1>1. LzInv /\ LzInv' /\ [Next]_vars => [Descends(4, WorkLeft', WorkLeft)]_vars
  BY StepShrinks
<1> QED
  BY <1>1, AlwaysLzInv, PTL DEF Spec, WorkShrinks
=============================================================================
