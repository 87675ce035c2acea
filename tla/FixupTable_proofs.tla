------------------------- MODULE FixupTable_proofs --------------------------
(***************************************************************************)
(* Proofs about the fixup record walk, for every set of images: a record   *)
(* read without error has a positive size and its overrun is bounded, the  *)
(* walk is type correct, and the records tile the spans of the fixup page  *)
(* table.                                                                  *)
(***************************************************************************)
EXTENDS FixupTable, SequenceFacts

(* The two bits of arithmetic the record length is built from. *)
LEMMA FieldSizes ==
  ASSUME NEW b \in Byte, NEW source \in 0 .. 15
  PROVE  /\ TargetSize(source, b) \in 1 .. 6
         /\ AdditiveSize(b) \in 0 .. 4
<1>1. \A w \in {16, 32} : Width(b, w) \in {2, 4}
  BY DEF Width
<1>2. IndexSize(b) \in {1, 2}
  BY DEF IndexSize
<1>3. b % 4 \in {0, 1, 2, 3}
  BY DEF Byte
<1>4. TargetSize(source, b) \in 1 .. 6
  BY <1>1, <1>2, <1>3 DEF TargetSize
<1>5. AdditiveSize(b) \in 0 .. 4
  BY <1>1 DEF AdditiveSize
<1> QED BY <1>4, <1>5

(* A record that read_fixup_record returns takes at least four bytes, lies *)
(* inside the file, and passes the sentinel by at most its target and      *)
(* additive fields.                                                        *)
LEMMA RecordSizes ==
  ASSUME ImageOK(image), Sentinel <= Len(image.bytes),
         NEW p \in Nat, ReadResult(p) = "ok"
  PROVE  /\ RecordSize(p) \in Nat
         /\ RecordSize(p) >= 4
         /\ Sources(p) \in Seq(Nat)
         /\ p + RecordSize(p) <= Len(image.bytes)
         /\ p + RecordSize(p) <= Sentinel + MaxTargetSize
<1>1. Sentinel \in Nat /\ p + 2 <= Sentinel /\ Fits(p)
  BY DEF ImageOK, Sentinel, ReadResult
<1>2. /\ \A q \in Nat : q < Len(image.bytes) => ByteAt(q) \in Byte
      /\ Len(image.bytes) \in Nat
  BY DEF ImageOK, ByteAt
<1>3. ByteAt(p) \in Byte /\ ByteAt(p + 1) \in Byte
  BY <1>1, <1>2
<1>4. SourceType(p) \in 0 .. 15
  <2>1. \A b \in Byte : b % 16 \in 0 .. 15
    BY DEF Byte
  <2> QED BY <2>1, <1>3 DEF SourceType
<1>5. /\ TargetSize(SourceType(p), ByteAt(p + 1)) \in 1 .. 6
      /\ AdditiveSize(ByteAt(p + 1)) \in 0 .. 4
  BY <1>3, <1>4, FieldSizes
<1>6. FixedSize(p) \in 4 .. 14 /\ (Listed(p) => FixedSize(p) \in 4 .. 13)
  BY <1>5, SMTT(30) DEF FixedSize
<1>7. ByteAt(p + 2) \in Byte
  BY <1>1, <1>2, <1>6 DEF Fits
<1>8. ListSize(p) \in Nat /\ (~Listed(p) => ListSize(p) = 0)
  <2>1. \A b \in Byte : 2 * b \in Nat
    BY DEF Byte
  <2> QED BY <2>1, <1>7 DEF ListSize
<1>9. RecordSize(p) \in Nat /\ RecordSize(p) >= 4
  BY <1>6, <1>8 DEF RecordSize
<1>10. p + RecordSize(p) <= Len(image.bytes)
  BY <1>1 DEF Fits
<1>11. p + RecordSize(p) <= Sentinel + MaxTargetSize
  <2>1. CASE Listed(p)
    <3>1. p + 3 + ListSize(p) <= Sentinel /\ FixedSize(p) <= 13
      BY <2>1, <1>1, <1>6 DEF Fits
    <3>2. FixedSize(p) \in Int /\ ListSize(p) \in Int /\ Sentinel \in Int
      BY <1>1, <1>6, <1>8
    <3>3. \A f, l, s \in Int :
             f <= 13 /\ p + 3 + l <= s => p + (f + l) <= s + 10
      OBVIOUS
    <3> QED BY <3>1, <3>2, <3>3 DEF RecordSize, MaxTargetSize
  <2>2. CASE ~Listed(p)
    BY <2>2, <1>1, <1>6, <1>8 DEF Fits, RecordSize, MaxTargetSize
  <2> QED BY <2>1, <2>2
<1>12. Sources(p) \in Seq(Nat)
  <2>1. CASE Listed(p)
    <3> DEFINE n == ByteAt(p + 2)
               base == p + FixedSize(p)
    <3>1. n \in Nat /\ base \in Nat
      <4>1. \A b \in Byte : b \in Nat
        BY DEF Byte
      <4>2. n \in Nat
        BY <4>1, <1>7
      <4>3. \A f \in 4 .. 14 : p + f \in Nat
        OBVIOUS
      <4> QED BY <4>2, <4>3, <1>6
    <3>2. base + 2 * n <= Len(image.bytes)
      <4>1. p + (FixedSize(p) + 2 * n) <= Len(image.bytes)
        BY <2>1, <1>10 DEF RecordSize, ListSize
      <4>2. \A f, k \in Int : p + (f + k) = (p + f) + k
        OBVIOUS
      <4>3. FixedSize(p) \in Int /\ 2 * n \in Int
        BY <3>1, <1>6
      <4> QED BY <4>1, <4>2, <4>3
    <3> HIDE DEF n, base
    <3>3. \A q \in Nat : q + 1 < Len(image.bytes) => Word(q) \in Nat
      <4> SUFFICES ASSUME NEW q \in Nat, q + 1 < Len(image.bytes)
                   PROVE  Word(q) \in Nat
        OBVIOUS
      <4>1. ByteAt(q) \in Byte /\ ByteAt(q + 1) \in Byte
        BY <1>2
      <4>2. \A a, b \in Byte : a + 256 * b \in Nat
        BY DEF Byte
      <4> QED BY <4>1, <4>2 DEF Word
    <3>4. \A i \in 1 .. n : Word(base + 2 * (i - 1)) \in Nat
      <4> SUFFICES ASSUME NEW i \in 1 .. n
                   PROVE  Word(base + 2 * (i - 1)) \in Nat
        OBVIOUS
      <4>1. /\ base + 2 * (i - 1) \in Nat
            /\ base + 2 * (i - 1) + 1 < Len(image.bytes)
        BY <3>1, <3>2, <1>2
      <4> QED BY <4>1, <3>3
    <3>5. [i \in 1 .. n |-> Word(base + 2 * (i - 1))] \in Seq(Nat)
      BY <3>1, <3>4
    <3> QED BY <3>5, <2>1 DEF Sources, n, base
  <2>2. CASE ~Listed(p)
    <3>1. ByteAt(p + 2 + 1) \in Byte
      BY <1>1, <1>2, <1>6 DEF Fits
    <3>2. \A a, b \in Byte : a + 256 * b \in Nat
      BY DEF Byte
    <3>3. Word(p + 2) \in Nat
      BY <3>1, <3>2, <1>7 DEF Word
    <3> QED BY <3>3, <2>2 DEF Sources
  <2> QED BY <2>1, <2>2
<1> QED BY <1>9, <1>10, <1>11, <1>12
-----------------------------------------------------------------------------
(* What a page-table row's span is, whatever the table holds. *)
LEMMA Spans ==
  ASSUME ImageOK(image), NEW r \in Nat, r < image.rows
  PROVE  /\ SpanStart(r) \in Nat /\ SpanStop(r) \in Nat
         /\ SpanStart(r + 1) \in Nat
         /\ SpanStart(r) <= SpanStop(r)
BY DEF ImageOK, SpanStart, SpanStop

LEMMA InitIInv == Init => IInv
<1> SUFFICES ASSUME Init PROVE IInv
  OBVIOUS
<1>1. ImageOK(image)
  BY ImagesAssumption DEF Init
<1>2. TypeOK
  BY <1>1 DEF Init, TypeOK, ImageOK
<1> QED
  BY <1>2 DEF Init, IInv, Cursor, RowsReached, Opened, SpansTiled,
              NoRowSkipped, OverrunBounded

(* Opening the table reads no record. *)
LEMMA OpenIInv == IInv /\ Open => IInv'
<1> SUFFICES ASSUME IInv, Open PROVE IInv'
  OBVIOUS
<1> USE DEF IInv
<1>1. /\ image' = image /\ row' = 0 /\ row = 0 /\ records' = <<>>
      /\ records = <<>> /\ pos' = SpanStart(0) /\ outcome' = OpenResult
  BY DEF Open, Opened
<1>2. OpenResult \in {"ok", "walking"} \cup Errors
  BY DEF OpenResult, Errors
<1>3. OpenResult = "walking" => Sentinel <= Len(image.bytes)
  <2>1. Sentinel \in Nat /\ Len(image.bytes) \in Nat
    BY DEF TypeOK, ImageOK, Sentinel
  <2> QED BY <2>1 DEF OpenResult
<1>4. SpanStart(0) \in Nat
  <2>1. image.rows \in Nat /\ image.pages \in [0 .. image.rows -> Nat]
    BY DEF TypeOK, ImageOK
  <2>2. 0 \in 0 .. image.rows
    BY <2>1
  <2> QED BY <2>1, <2>2 DEF SpanStart
<1>5. TypeOK'
  BY <1>1, <1>2, <1>4 DEF TypeOK, ImageOK, Errors
<1>6. (RowsReached /\ SpansTiled /\ NoRowSkipped /\ OverrunBounded)'
  BY <1>1 DEF RowsReached, SpansTiled, NoRowSkipped, OverrunBounded
<1>7. Cursor'
  BY <1>1 DEF Cursor, SpanStart
<1>8. Opened'
  BY <1>1, <1>2, <1>3 DEF Opened, Sentinel, Errors
<1> QED BY <1>5, <1>6, <1>7, <1>8

(* An error ends the walk and changes nothing else. *)
LEMMA RefuseIInv == IInv /\ Refuse => IInv'
<1> SUFFICES ASSUME IInv, Refuse PROVE IInv'
  OBVIOUS
<1>1. /\ image' = image /\ row' = row /\ pos' = pos /\ records' = records
      /\ outcome = "walking" /\ outcome' \in Errors
  BY DEF Refuse, InSpan, ReadResult, Errors
<1> QED
  BY <1>1 DEF IInv, TypeOK, Cursor, RowsReached, Opened, SpansTiled,
              NoRowSkipped, OverrunBounded, Errors, RecordEnd, FirstOfRow,
              LastOfRow, SpanStart, SpanStop, Sentinel

LEMMA FinishIInv == IInv /\ Finish => IInv'
<1> SUFFICES ASSUME IInv, Finish PROVE IInv'
  OBVIOUS
<1>1. /\ image' = image /\ row' = row /\ pos' = pos /\ records' = records
      /\ outcome = "walking" /\ outcome' = "ok"
  BY DEF Finish
<1> QED
  BY <1>1 DEF IInv, TypeOK, Cursor, RowsReached, Opened, SpansTiled,
              NoRowSkipped, OverrunBounded, Errors, RecordEnd, FirstOfRow,
              LastOfRow, SpanStart, SpanStop, Sentinel

(* A record is appended: only the record that was the last one until now   *)
(* and the new one can be disturbed.                                       *)
LEMMA DecodeIInv == IInv /\ Decode => IInv'
<1> SUFFICES ASSUME IInv, Decode PROVE IInv'
  OBVIOUS
<1> DEFINE n == Len(records)
           new == RecordAt(pos)
<1>1. /\ outcome = "walking" /\ row < image.rows /\ pos < SpanStop(row)
      /\ ReadResult(pos) = "ok"
      /\ records' = Append(records, new)
      /\ pos' = pos + RecordSize(pos)
      /\ image' = image /\ outcome' = outcome /\ row' = row
  BY DEF Decode, InSpan
<1>2. /\ ImageOK(image) /\ row \in Nat /\ pos \in Nat /\ image.rows \in Nat
      /\ records \in Seq(Record)
      /\ n \in Nat
  BY DEF IInv, TypeOK, ImageOK
<1>3. /\ RecordSize(pos) \in Nat /\ RecordSize(pos) >= 4
      /\ Sources(pos) \in Seq(Nat)
      /\ pos + RecordSize(pos) <= Len(image.bytes)
      /\ pos + RecordSize(pos) <= Sentinel + MaxTargetSize
  BY <1>1, <1>2, RecordSizes DEF IInv, Opened
<1>4. /\ new \in Record
      /\ new.page = row /\ new.offset = pos /\ new.size = RecordSize(pos)
  BY <1>2, <1>3 DEF RecordAt, Record
<1>20. PICK m \in Nat : m = n + 1
  BY <1>2
<1>5. /\ records' \in Seq(Record)
      /\ Len(records') = m /\ records'[m] = new
      /\ \A i \in 1 .. n : records'[i] = records[i]
      /\ 1 .. m = (1 .. n) \cup {m} /\ m >= 1 /\ m \notin 1 .. n
  BY <1>1, <1>2, <1>4, <1>20
<1>21. \A i \in 1 .. n : records[i].offset \in Nat /\ records[i].size \in Nat
  <2>1. \A i \in 1 .. n : records[i] \in Record
    BY <1>2
  <2> QED BY <2>1 DEF Record
<1> HIDE DEF n, new
<1>6. \A r : SpanStart(r)' = SpanStart(r) /\ SpanStop(r)' = SpanStop(r)
  BY <1>1 DEF SpanStart, SpanStop
<1>7. /\ SpanStart(row) \in Nat /\ SpanStop(row) \in Nat
      /\ SpanStart(row) <= SpanStop(row)
  BY <1>1, <1>2, Spans
<1>8. Sentinel' = Sentinel
  BY <1>1 DEF Sentinel
<1>9. \A i \in 1 .. n : RecordEnd(i)' = RecordEnd(i)
  BY <1>5 DEF RecordEnd
<1>10. RecordEnd(m)' = pos + RecordSize(pos)
  BY <1>4, <1>5 DEF RecordEnd
<1>11. TypeOK'
  BY <1>1, <1>2, <1>3, <1>5 DEF IInv, TypeOK
<1>12. Cursor'
  <2>1. records' # <<>> /\ records'[Len(records')].page = row'
    BY <1>1, <1>4, <1>5
  <2>2. RecordEnd(Len(records))' = pos'
    BY <1>1, <1>5, <1>10 DEF RecordEnd
  <2> QED BY <2>1, <2>2 DEF Cursor
<1>13. RowsReached'
  <2> SUFFICES ASSUME NEW i \in 1 .. m
               PROVE  records'[i].page <= row /\ records'[i].page < image.rows
    BY <1>1, <1>5 DEF RowsReached
  <2>1. CASE i \in 1 .. n
    BY <2>1, <1>5 DEF IInv, RowsReached, n
  <2>2. CASE i = m
    BY <2>2, <1>1, <1>2, <1>4, <1>5
  <2> QED BY <2>1, <2>2, <1>5
<1>14. Opened'
  BY <1>1, <1>8 DEF IInv, Opened
<1>15. SpansTiled'
  <2> SUFFICES ASSUME NEW i \in 1 .. m
      PROVE /\ SpanStart(records'[i].page) <= records'[i].offset
            /\ records'[i].offset < SpanStop(records'[i].page)
            /\ records'[i].offset = IF FirstOfRow(i)'
                 THEN SpanStart(records'[i].page) ELSE RecordEnd(i - 1)'
            /\ i > 1 => records'[i - 1].page <= records'[i].page
            /\ LastOfRow(i)' /\ records'[i].page < row'
                 => RecordEnd(i)' >= SpanStop(records'[i].page)
    BY <1>5, <1>6 DEF SpansTiled
  <2>1. CASE i \in 1 .. n
    <3>1. /\ FirstOfRow(i)' = FirstOfRow(i)
          /\ i > 1 => RecordEnd(i - 1)' = RecordEnd(i - 1)
          /\ i > 1 => records'[i - 1] = records[i - 1]
      <4>1. i = 1 \/ i - 1 \in 1 .. n
        BY <2>1, <1>2
      <4> QED BY <4>1, <2>1, <1>5, <1>9 DEF FirstOfRow
    <3>2. LastOfRow(i)' /\ records[i].page < row => LastOfRow(i)
      <4>1. CASE i = n
        BY <4>1 DEF LastOfRow, n
      <4>2. CASE i + 1 \in 1 .. n
        BY <4>2, <2>1, <1>2, <1>5 DEF LastOfRow, n
      <4>3. i = n \/ i + 1 \in 1 .. n
        BY <2>1, <1>2
      <4> QED BY <4>1, <4>2, <4>3
    <3>3. /\ SpanStart(records[i].page) <= records[i].offset
          /\ records[i].offset < SpanStop(records[i].page)
          /\ records[i].offset = IF FirstOfRow(i)
               THEN SpanStart(records[i].page) ELSE RecordEnd(i - 1)
          /\ i > 1 => records[i - 1].page <= records[i].page
          /\ LastOfRow(i) /\ records[i].page < row
               => RecordEnd(i) >= SpanStop(records[i].page)
      BY <2>1 DEF IInv, SpansTiled, n
    <3>4. FirstOfRow(i) \/ i > 1
      BY <2>1 DEF FirstOfRow
    <3> QED BY <3>1, <3>2, <3>3, <3>4, <2>1, <1>1, <1>5, <1>9
  <2>2. CASE i = m
    <3>1. records'[i].page = row /\ records'[i].offset = pos
      BY <2>2, <1>4, <1>5
    <3>2. CASE n = 0
      <4>1. records = <<>>
        BY <3>2, <1>2 DEF n
      <4>2. pos = SpanStart(row) /\ FirstOfRow(i)'
        BY <4>1, <3>2, <2>2, <1>1, <1>20 DEF IInv, Cursor, FirstOfRow
      <4>3. ~(i > 1) /\ ~(row < row)
        BY <3>2, <2>2, <1>2, <1>20
      <4> QED BY <3>1, <4>2, <4>3, <1>1, <1>7
    <3>3. CASE n > 0
      <4>1. n \in 1 .. n /\ i - 1 = n /\ records # <<>> /\ i # 1
        BY <3>3, <2>2, <1>2, <1>20 DEF n
      <4>6. ~(row < row)
        BY <1>2
      <4>2. records'[i - 1] = records[n] /\ RecordEnd(i - 1)' = RecordEnd(n)
        BY <4>1, <1>5, <1>9
      <4>3. records[n].page <= row
        BY <4>1 DEF IInv, RowsReached, n
      <4>4. CASE records[n].page = row
        <5>1. pos = RecordEnd(n)
          BY <4>1, <4>4, <1>1 DEF IInv, Cursor, n
        <5>2. ~FirstOfRow(i)'
          BY <4>1, <4>2, <4>4, <3>1 DEF FirstOfRow
        <5>3. SpanStart(row) <= pos
          <6>1. SpanStart(row) <= records[n].offset
            BY <4>1, <4>4 DEF IInv, SpansTiled, n
          <6>2. records[n].offset \in Nat /\ records[n].size \in Nat
            BY <4>1, <1>21
          <6> QED BY <6>1, <6>2, <5>1, <1>7 DEF RecordEnd
        <5> QED BY <5>1, <5>2, <5>3, <4>2, <4>3, <4>6, <3>1, <1>1
      <4>5. CASE records[n].page # row
        <5>1. pos = SpanStart(row)
          BY <4>1, <4>5, <1>1 DEF IInv, Cursor, n
        <5>2. FirstOfRow(i)'
          BY <4>2, <4>5, <3>1 DEF FirstOfRow
        <5> QED BY <5>1, <5>2, <4>2, <4>3, <4>6, <3>1, <1>1, <1>7
      <4> QED BY <4>4, <4>5
    <3> QED BY <3>2, <3>3, <1>2
  <2> QED BY <2>1, <2>2, <1>5
<1>16. NoRowSkipped'
  <2> SUFFICES ASSUME NEW r \in 0 .. row - 1, SpanStart(r) < SpanStop(r)
               PROVE  \E i \in 1 .. m : records'[i].page = r
    BY <1>1, <1>5, <1>6 DEF NoRowSkipped
  <2>1. PICK i \in 1 .. n : records[i].page = r
    BY <1>1 DEF IInv, NoRowSkipped, n
  <2> QED BY <2>1, <1>2, <1>5
<1>17. OverrunBounded'
  <2> SUFFICES ASSUME NEW i \in 1 .. m
               PROVE  /\ RecordEnd(i)' <= Len(image.bytes)
                      /\ RecordEnd(i)' <= Sentinel + MaxTargetSize
    BY <1>1, <1>5, <1>8 DEF OverrunBounded, MaxTargetSize
  <2>1. CASE i \in 1 .. n
    BY <2>1, <1>9 DEF IInv, OverrunBounded, n
  <2>2. CASE i = m
    BY <2>2, <1>3, <1>10
  <2> QED BY <2>1, <2>2, <1>5
<1> QED
  BY <1>11, <1>12, <1>13, <1>14, <1>15, <1>16, <1>17 DEF IInv

(* The walk leaves a row: its last record has reached the span's end, and  *)
(* a row without a record had an empty span.                               *)
LEMMA NextRowIInv == IInv /\ NextRow => IInv'
<1> SUFFICES ASSUME IInv, NextRow PROVE IInv'
  OBVIOUS
<1> DEFINE n == Len(records)
<1>1. /\ outcome = "walking" /\ row < image.rows /\ pos >= SpanStop(row)
      /\ row' = row + 1 /\ pos' = SpanStart(row + 1)
      /\ image' = image /\ outcome' = outcome /\ records' = records
  <2>1. row \in Nat /\ image.rows \in Nat /\ pos \in Nat
    BY DEF IInv, TypeOK, ImageOK
  <2>2. row < image.rows /\ outcome = "walking" /\ ~(pos < SpanStop(row))
    BY DEF NextRow, InSpan
  <2>3. SpanStop(row) \in Nat
    BY <2>1, <2>2, Spans DEF IInv, TypeOK
  <2> QED BY <2>1, <2>2, <2>3 DEF NextRow
<1>2. /\ ImageOK(image) /\ row \in Nat /\ pos \in Nat /\ image.rows \in Nat
      /\ n \in Nat
      /\ \A i \in 1 .. n : records[i].page \in Nat
  <2>1. records \in Seq(Record)
    BY DEF IInv, TypeOK
  <2>2. \A i \in 1 .. n : records[i] \in Record
    BY <2>1
  <2>3. \A e \in Record : e.page \in Nat
    BY DEF Record
  <2>4. ImageOK(image) /\ row \in Nat /\ pos \in Nat
    BY DEF IInv, TypeOK
  <2>5. image.rows \in Nat
    BY <2>4 DEF ImageOK
  <2>6. n \in Nat
    BY <2>1
  <2> QED BY <2>2, <2>3, <2>4, <2>5, <2>6
<1>3. /\ SpanStart(row) \in Nat /\ SpanStop(row) \in Nat
      /\ SpanStart(row + 1) \in Nat
  BY <1>1, <1>2, Spans
<1>4. PICK next \in Nat : next = row + 1
  BY <1>2
<1>5. \A i \in 1 .. n :
         /\ RecordEnd(i)' = RecordEnd(i) /\ FirstOfRow(i)' = FirstOfRow(i)
         /\ LastOfRow(i)' = LastOfRow(i)
  BY <1>1 DEF RecordEnd, FirstOfRow, LastOfRow
<1>6. \A r : SpanStart(r)' = SpanStart(r) /\ SpanStop(r)' = SpanStop(r)
  BY <1>1 DEF SpanStart, SpanStop
<1>7. \A i \in 1 .. n : records[i].page <= row /\ records[i].page < image.rows
  BY DEF IInv, RowsReached
<1>8. TypeOK'
  BY <1>1, <1>2, <1>3 DEF IInv, TypeOK
<1>9. RowsReached'
  BY <1>1, <1>2, <1>7 DEF RowsReached
<1>10. Opened' /\ OverrunBounded'
  BY <1>1 DEF IInv, Opened, OverrunBounded, Sentinel, RecordEnd
<1>11. Cursor'
  <2>1. ~(records # <<>> /\ records[n].page = row + 1)
    <3> SUFFICES ASSUME records # <<>> PROVE records[n].page # row + 1
      OBVIOUS
    <3>1. n \in 1 .. n
      BY <1>2
    <3> QED BY <3>1, <1>2, <1>7
  <2> QED BY <2>1, <1>1, <1>6 DEF Cursor
(* The record that the row ends with, when the row has one. *)
<1>12. ASSUME NEW i \in 1 .. n, records[i].page = row, LastOfRow(i)
       PROVE  i = n
  <2> SUFFICES ASSUME i # n PROVE FALSE
    OBVIOUS
  <2>1. i + 1 \in 1 .. n /\ i + 1 > 1 /\ (i + 1) - 1 = i
    BY <1>2
  <2>2. \A j \in 1 .. n : j > 1 => records[j - 1].page <= records[j].page
    BY DEF IInv, SpansTiled
  <2>3. records[i].page <= records[i + 1].page
    BY <2>1, <2>2
  <2>4. records[i + 1].page <= row /\ records[i + 1].page \in Nat
    BY <2>1, <1>2, <1>7
  <2>5. records[i + 1].page = row
    BY <2>3, <2>4, <1>12, <1>2
  <2> QED BY <2>5, <1>12 DEF LastOfRow
<1>13. n > 0 /\ records[n].page = row => RecordEnd(n) = pos
  BY <1>1, <1>2 DEF IInv, Cursor
<1>14. SpansTiled'
  <2> SUFFICES ASSUME NEW i \in 1 .. n, LastOfRow(i), records[i].page < row + 1
               PROVE  RecordEnd(i) >= SpanStop(records[i].page)
    BY <1>1, <1>5, <1>6 DEF IInv, SpansTiled, RecordEnd, FirstOfRow, LastOfRow
  <2>1. CASE records[i].page < row
    BY <2>1 DEF IInv, SpansTiled
  <2>2. CASE records[i].page = row
    <3>1. i = n
      BY <2>2, <1>12
    <3> QED BY <3>1, <2>2, <1>1, <1>2, <1>13
  <2> QED BY <2>1, <2>2, <1>2
<1>15. NoRowSkipped'
  <2> SUFFICES ASSUME NEW r \in 0 .. row, SpanStart(r) < SpanStop(r)
               PROVE  \E i \in 1 .. n : records[i].page = r
    BY <1>1, <1>2, <1>6 DEF NoRowSkipped
  <2>1. CASE r \in 0 .. row - 1
    BY <2>1, <1>1 DEF IInv, NoRowSkipped
  <2>2. CASE r = row
    <3>1. records # <<>> /\ records[n].page = row
      BY <2>2, <1>1, <1>2, <1>3 DEF IInv, Cursor
    <3>2. n \in 1 .. n
      BY <3>1, <1>2
    <3> QED BY <3>1, <3>2, <2>2
  <2> QED BY <2>1, <2>2, <1>2
<1> QED
  BY <1>8, <1>9, <1>10, <1>11, <1>14, <1>15 DEF IInv

LEMMA StutterIInv == IInv /\ UNCHANGED vars => IInv'
BY DEF IInv, TypeOK, Cursor, RowsReached, Opened, SpansTiled, NoRowSkipped,
       OverrunBounded, vars, RecordEnd, FirstOfRow, LastOfRow, SpanStart,
       SpanStop, Sentinel

LEMMA Inductive == Spec => []IInv
<1>1. IInv /\ [Next]_vars => IInv'
  BY OpenIInv, DecodeIInv, RefuseIInv, NextRowIInv, FinishIInv, StutterIInv
     DEF Next
<1> QED BY InitIInv, <1>1, PTL DEF Spec
-----------------------------------------------------------------------------
(* The cursor, the row and the records keep their types: in particular the *)
(* cursor never goes below the table's first byte.                         *)
THEOREM TypeCorrect == Spec => []TypeOK
<1>1. IInv => TypeOK
  BY DEF IInv
<1> QED BY <1>1, Inductive, PTL

(* The records tile the spans of the fixup page table.                     *)
THEOREM RecordsTileSpans == Spec => []SpansTiled
<1>1. IInv => SpansTiled
  BY DEF IInv
<1> QED BY <1>1, Inductive, PTL

(* No page with bytes in its span is left without a record.                *)
THEOREM EveryRowRead == Spec => []NoRowSkipped
<1>1. IInv => NoRowSkipped
  BY DEF IInv
<1> QED BY <1>1, Inductive, PTL

(* A record never leaves the file, and passes the sentinel by at most the  *)
(* ten bytes of the largest target and additive fields.                    *)
THEOREM OverrunIsBounded == Spec => []OverrunBounded
<1>1. IInv => OverrunBounded
  BY DEF IInv
<1> QED BY <1>1, Inductive, PTL
-----------------------------------------------------------------------------
(* The work that is left. *)

Rest == IF InSpan THEN SpanStop(row) - pos ELSE 0

Values ==
  /\ outcome = "start" => WorkLeft = <<image.rows + 2, 0>>
  /\ outcome = "walking" => WorkLeft = <<image.rows - row + 1, Rest>>
  /\ outcome \notin {"start", "walking"} => WorkLeft = <<0, 0>>

LEMMA WorkValues == Values
<1>1. outcome = "start" => WorkLeft = <<image.rows + 2, 0>>
  BY Zenon DEF WorkLeft
<1>2. outcome = "walking" => WorkLeft = <<image.rows - row + 1, Rest>>
  BY Zenon DEF WorkLeft, Rest
<1>3. outcome \notin {"start", "walking"} => WorkLeft = <<0, 0>>
  BY Zenon DEF WorkLeft
<1> QED
  BY <1>1, <1>2, <1>3 DEF Values

LEMMA RestFacts ==
  IInv => Rest \in Nat /\ (InSpan => Rest = SpanStop(row) - pos /\ Rest > 0)
<1> SUFFICES ASSUME IInv
             PROVE  Rest \in Nat /\ (InSpan => Rest = SpanStop(row) - pos /\ Rest > 0)
  OBVIOUS
<1>1. ImageOK(image) /\ row \in Nat /\ pos \in Nat
  BY DEF IInv, TypeOK, ImageOK
<1>2. CASE InSpan
  <2>1. row < image.rows /\ pos < SpanStop(row)
    BY <1>2 DEF InSpan
  <2>2. SpanStop(row) \in Nat
    BY <1>1, <2>1, Spans
  <2> QED
    BY <1>1, <1>2, <2>1, <2>2 DEF Rest
<1>3. CASE ~InSpan
  BY <1>3 DEF Rest
<1> QED
  BY <1>2, <1>3

RestOK == Rest \in Nat

LEMMA RestNext == IInv' => Rest' \in Nat
<1>1. IInv => RestOK
  BY RestFacts DEF RestOK
<1>2. IInv' => RestOK'
  BY <1>1, PTL
<1> QED
  BY <1>2 DEF RestOK

(* Decoding a record lessens the bytes of the row's span. *)
LEMMA DecodeShrinks ==
  ASSUME IInv, IInv', Decode
  PROVE  Rest' < Rest
<1>1. /\ InSpan /\ pos' = pos + RecordSize(pos) /\ UNCHANGED <<image, outcome, row>>
      /\ ReadResult(pos) = "ok" /\ outcome = "walking"
  BY DEF Decode, InSpan
<1>2. RecordSize(pos) \in Nat /\ RecordSize(pos) >= 4
  BY <1>1, RecordSizes DEF IInv, TypeOK, Opened
<1>3. Rest = SpanStop(row) - pos /\ Rest > 0 /\ Rest \in Nat /\ Rest' \in Nat
  <2>1. Rest = SpanStop(row) - pos /\ Rest > 0 /\ Rest \in Nat
    BY <1>1, RestFacts
  <2>2. Rest' \in Nat
    BY RestNext
  <2> QED
    BY <2>1, <2>2
<1>4. SpanStop(row)' = SpanStop(row) /\ pos \in Nat /\ SpanStop(row) \in Nat
  <2>1. ImageOK(image) /\ row \in Nat /\ pos \in Nat /\ row < image.rows
    BY <1>1 DEF IInv, TypeOK, ImageOK, InSpan
  <2>2. SpanStop(row)' = SpanStop(row)
    BY <1>1 DEF SpanStop
  <2> QED
    BY <2>1, <2>2, Spans
<1>5. Rest' = 0 \/ Rest' = SpanStop(row) - pos'
  BY <1>1, <1>4 DEF Rest
<1> QED
  BY <1>1, <1>2, <1>3, <1>4, <1>5

(***************************************************************************)
(* An iteration of get_fixup_records leaves less to do: a record is never  *)
(* empty, and leaving a row takes one; so none is without effect.          *)
(***************************************************************************)
THEOREM StepShrinks ==
  ASSUME IInv, IInv', Next
  PROVE  Descends(2, WorkLeft', WorkLeft)
<1>1. row \in 0 .. image.rows /\ image.rows \in Nat /\ Rest \in Nat
  <2>1. row \in 0 .. image.rows /\ image.rows \in Nat
    BY DEF IInv, TypeOK, ImageOK
  <2> QED
    BY <2>1, RestFacts
<1>2. Rest' \in Nat
  BY RestNext
<1>3. Values /\ Values'
  BY WorkValues, PTL
<1>4. outcome \in {"start", "walking"}
  BY DEF Next, Open, Decode, Refuse, NextRow, Finish, InSpan
<1>5. PICK x \in Nat, y \in Nat :
        /\ WorkLeft = <<x, y>> /\ x >= 1
        /\ outcome = "start" => x = image.rows + 2 /\ y = 0
        /\ outcome = "walking" => x = image.rows - row + 1 /\ y = Rest
  <2>1. CASE outcome = "start"
    <3>1. image.rows + 2 \in Nat /\ image.rows + 2 >= 1 /\ 0 \in Nat
      BY <1>1
    <3>2. WorkLeft = <<image.rows + 2, 0>>
      BY <1>3, <2>1 DEF Values
    <3> QED
      BY <2>1, <3>1, <3>2
  <2>2. CASE outcome = "walking"
    <3>1. image.rows - row + 1 \in Nat /\ image.rows - row + 1 >= 1
      BY <1>1
    <3>2. WorkLeft = <<image.rows - row + 1, Rest>>
      BY <1>3, <2>2 DEF Values
    <3> QED
      BY <1>1, <2>2, <3>1, <3>2
  <2> QED
    BY <1>4, <2>1, <2>2
<1>6. \A a, b \in Nat : a < x \/ (a = x /\ b < y) => Descends(2, <<a, b>>, WorkLeft)
  BY <1>5, Descends2
<1>7. CASE outcome' \notin {"start", "walking"}
  <2>1. WorkLeft' = <<0, 0>>
    BY <1>3, <1>7 DEF Values
  <2> QED
    BY <1>5, <1>6, <2>1
<1>8. CASE Open /\ outcome' = "walking"
  <2>1. outcome = "start" /\ image' = image /\ row' = row
    BY <1>8 DEF Open
  <2>2. WorkLeft' = <<image.rows - row + 1, Rest'>>
    BY <1>3, <1>8, <2>1 DEF Values
  <2>3. image.rows - row + 1 \in Nat /\ image.rows - row + 1 < x
    BY <1>1, <1>5, <2>1
  <2> QED
    BY <1>2, <1>6, <2>2, <2>3
<1>9. CASE Decode
  <2>1. outcome = "walking" /\ outcome' = "walking" /\ image' = image /\ row' = row
    BY <1>9 DEF Decode, InSpan
  <2>2. WorkLeft' = <<x, Rest'>>
    BY <1>3, <1>5, <2>1 DEF Values
  <2> QED
    BY <1>2, <1>5, <1>6, <1>9, <2>1, <2>2, DecodeShrinks
<1>10. CASE NextRow
  <2>1. /\ outcome = "walking" /\ outcome' = "walking" /\ image' = image
        /\ row' = row + 1 /\ row < image.rows
    BY <1>10 DEF NextRow
  <2>2. WorkLeft' = <<image.rows - (row + 1) + 1, Rest'>>
    BY <1>3, <2>1 DEF Values
  <2>3. image.rows - (row + 1) + 1 \in Nat /\ image.rows - (row + 1) + 1 < x
    BY <1>1, <1>5, <2>1
  <2> QED
    BY <1>2, <1>6, <2>2, <2>3
<1>11. CASE Refuse \/ Finish
  <2>1. outcome' \notin {"start", "walking"}
    BY <1>11 DEF Refuse, Finish, ReadResult
  <2> QED
    BY <1>7, <2>1
<1>12. Open => outcome' # "start"
  BY DEF Open, OpenResult
<1> QED
  BY <1>7, <1>8, <1>9, <1>10, <1>11, <1>12 DEF Next

(***************************************************************************)
(* The work left only ever shrinks: by StepShrinks and NoEndlessDescent    *)
(* get_fixup_records makes finitely many iterations, whatever the page     *)
(* table says and however its spans overlap.                               *)
(***************************************************************************)
THEOREM WalkShrinks == Spec => WorkShrinks
<1>1. IInv /\ IInv' /\ [Next]_vars => [Descends(2, WorkLeft', WorkLeft)]_vars
  BY StepShrinks
<1> QED
  BY <1>1, Inductive, PTL DEF Spec, WorkShrinks
-----------------------------------------------------------------------------
(***************************************************************************)
(* The table read as one stream.  A record that is read whole leads from   *)
(* its own boundary to the next one, so the boundaries form a chain.       *)
(***************************************************************************)
Continues(p) ==
  p < Sentinel /\ ReadResult(p) = "ok" /\ p + RecordSize(p) <= Sentinel

BoundsFrom(f, p) ==
  {p} \cup (IF Continues(p) THEN f[p + RecordSize(p)] ELSE {})

Chain(p, B) ==
  /\ B \subseteq p .. Sentinel /\ p \in B
  /\ \A b \in B : Continues(b) => b + RecordSize(b) \in B
  /\ \A b, c \in B : b < c => Continues(b) /\ b + RecordSize(b) <= c
  /\ \A c \in B : c = p \/ \E b \in B : Continues(b) /\ c = b + RecordSize(b)

TableOK == ImageOK(image) /\ Sentinel <= Len(image.bytes)

LEMMA StreamSteps ==
  ASSUME TableOK, NEW p \in Nat, Continues(p)
  PROVE  /\ RecordSize(p) \in Nat /\ Sentinel \in Nat
         /\ p + RecordSize(p) \in 0 .. Sentinel /\ p + RecordSize(p) > p
<1>1. RecordSize(p) \in Nat /\ RecordSize(p) >= 4
  BY RecordSizes DEF TableOK, Continues
<1>2. Sentinel \in Nat
  BY DEF TableOK, ImageOK, Sentinel
<1> QED
  BY <1>1, <1>2 DEF Continues

(* The recursion of Boundaries has a solution, since a record takes bytes. *)
LEMMA BoundariesDefined ==
  ASSUME TableOK
  PROVE  \E f : f = [p \in 0 .. Sentinel |-> BoundsFrom(f, p)]
<1> DEFINE N == Sentinel
           G == {p \in 0 .. N : Continues(p)}
           V == SUBSET (0 .. N)
           stop == [p \in 0 .. N |-> {p}]
           next == [p \in G |-> p + RecordSize(p)]
           step == [e \in G \X V |-> {e[1]} \cup e[2]]
<1>1. N \in Nat
  BY DEF TableOK, ImageOK, Sentinel
<1>2. \A p \in G : p + RecordSize(p) \in 0 .. N /\ p + RecordSize(p) > p
  BY <1>1, StreamSteps
<1>3. G \in SUBSET (0 .. N) /\ stop \in [0 .. N -> V]
  OBVIOUS
<1>4. next \in [G -> 0 .. N] /\ \A p \in G : next[p] > p
  BY <1>2
<1>5. step \in [G \X V -> V]
  <2>1. ASSUME NEW e \in G \X V
        PROVE  {e[1]} \cup e[2] \in V
    BY <1>3
  <2> QED
    BY <2>1
<1> HIDE DEF N, G, V, stop, next, step
<1>6. PICK f \in [0 .. N -> V] :
        \A p \in 0 .. N : f[p] = IF p \in G THEN step[<<p, f[next[p]]>>] ELSE stop[p]
  <2> DEFINE Solves(D, a, b, c) ==
        \E f \in [0 .. N -> V] :
          \A p \in 0 .. N : f[p] = IF p \in D THEN c[<<p, f[b[p]]>>] ELSE a[p]
  <2>1. \A D \in SUBSET (0 .. N), a \in [0 .. N -> V] :
          \A b \in [D -> 0 .. N], c \in [D \X V -> V] :
            (\A p \in D : b[p] > p) => Solves(D, a, b, c)
    BY <1>1, Upward
  <2> HIDE DEF Solves
  <2>2. Solves(G, stop, next, step)
    BY <1>3, <1>4, <1>5, <2>1
  <2> QED
    BY <2>2 DEF Solves
<1>7. ASSUME NEW p \in 0 .. N
      PROVE  f[p] = BoundsFrom(f, p)
  <2>1. CASE p \in G
    <3>1. next[p] = p + RecordSize(p) /\ next[p] \in 0 .. N /\ Continues(p)
      BY <1>4, <2>1 DEF next, G
    <3>2. <<p, f[next[p]]>> \in G \X V
      BY <1>6, <2>1, <3>1
    <3>3. step[<<p, f[next[p]]>>] = {p} \cup f[next[p]]
      BY <3>2 DEF step
    <3> QED
      BY <1>6, <2>1, <3>1, <3>3 DEF BoundsFrom
  <2>2. CASE p \notin G
    <3>1. ~Continues(p) /\ stop[p] = {p}
      BY <1>7, <2>2 DEF G, stop
    <3> QED
      BY <1>6, <2>2, <3>1 DEF BoundsFrom
  <2> QED
    BY <2>1, <2>2
<1>8. f = [p \in 0 .. N |-> BoundsFrom(f, p)]
  BY <1>6, <1>7
<1> QED
  BY <1>8 DEF N

LEMMA ChainEnds ==
  ASSUME Sentinel \in Nat, NEW p \in 0 .. Sentinel, ~Continues(p)
  PROVE  Chain(p, {p})
BY DEF Chain

LEMMA ChainGoesOn ==
  ASSUME TableOK, NEW p \in Nat, Continues(p),
         NEW B, Chain(p + RecordSize(p), B)
  PROVE  Chain(p, {p} \cup B)
<1> DEFINE q == p + RecordSize(p)
           C == {p} \cup B
<1>1. q \in 0 .. Sentinel /\ q > p /\ Sentinel \in Nat
  BY StreamSteps
<1>2. /\ B \subseteq q .. Sentinel /\ q \in B
      /\ \A b \in B : Continues(b) => b + RecordSize(b) \in B
      /\ \A b, c \in B : b < c => Continues(b) /\ b + RecordSize(b) <= c
      /\ \A c \in B : c = q \/ \E b \in B : Continues(b) /\ c = b + RecordSize(b)
  BY DEF Chain
<1>3. C \subseteq p .. Sentinel /\ p \in C
  BY <1>1, <1>2
<1>4. \A b \in C : Continues(b) => b + RecordSize(b) \in C
  BY <1>2
<1>5. ASSUME NEW b \in C, NEW c \in C, b < c
      PROVE  Continues(b) /\ b + RecordSize(b) <= c
  <2>1. c \in B /\ c >= q
    BY <1>1, <1>2, <1>5
  <2>2. CASE b = p
    BY <2>1, <2>2
  <2>3. CASE b \in B
    BY <1>2, <1>5, <2>1, <2>3
  <2> QED
    BY <2>2, <2>3
<1>6. ASSUME NEW c \in C
      PROVE  c = p \/ \E b \in C : Continues(b) /\ c = b + RecordSize(b)
  BY <1>2
<1> QED
  BY <1>3, <1>4, <1>5, <1>6 DEF Chain

LEMMA BoundariesChain ==
  ASSUME TableOK
  PROVE  Chain(0, Boundaries)
<1> DEFINE Eq(f) == f = [p \in 0 .. Sentinel |-> BoundsFrom(f, p)]
           from == CHOOSE f : Eq(f)
<1>1. Boundaries = from[0]
  BY DEF Boundaries, BoundsFrom, Continues
<1>2. Eq(from)
  <2>1. \E f : Eq(f)
    BY BoundariesDefined
  <2> HIDE DEF Eq
  <2> QED
    BY <2>1
<1>3. \A p \in 0 .. Sentinel : from[p] = BoundsFrom(from, p)
  <2>1. from = [p \in 0 .. Sentinel |-> BoundsFrom(from, p)]
    BY <1>2
  <2> HIDE DEF from
  <2> QED
    BY <2>1
<1> HIDE DEF from
<1>4. Sentinel \in Nat
  BY DEF TableOK, ImageOK, Sentinel
<1> DEFINE S == {n \in Nat : \A p \in 0 .. Sentinel : p + n >= Sentinel => Chain(p, from[p])}
<1>5. ASSUME NEW p \in 0 .. Sentinel, ~Continues(p)
      PROVE  Chain(p, from[p])
  <2>1. from[p] = {p}
    BY <1>3, <1>5 DEF BoundsFrom
  <2> QED
    BY <1>4, <1>5, <2>1, ChainEnds
<1>6. 0 \in S
  <2>1. \A p \in 0 .. Sentinel : p + 0 >= Sentinel => ~Continues(p)
    BY <1>4 DEF Continues
  <2> QED
    BY <1>5, <2>1
<1>7. ASSUME NEW n \in Nat, n \in S
      PROVE  n + 1 \in S
  <2> SUFFICES ASSUME NEW p \in 0 .. Sentinel, p + (n + 1) >= Sentinel, Continues(p)
               PROVE  Chain(p, from[p])
    BY <1>5
  <2> DEFINE q == p + RecordSize(p)
  <2>1. q \in 0 .. Sentinel /\ q > p
    BY <1>4, StreamSteps
  <2> HIDE DEF q
  <2>2. Chain(q, from[q])
    BY <1>4, <1>7, <2>1
  <2>3. from[p] = {p} \cup from[q]
    BY <1>3 DEF BoundsFrom, q
  <2>4. p \in Nat
    BY <1>4
  <2>5. Chain(p, {p} \cup from[q])
    BY <2>2, <2>4, ChainGoesOn DEF q
  <2> QED
    BY <2>3, <2>5
<1>8. \A n \in Nat : n \in S
  <2> HIDE DEF S
  <2> QED
    BY <1>6, <1>7, Induction
<1>9. Chain(0, from[0])
  BY <1>4, <1>8
<1> QED
  BY <1>1, <1>9

(* From one place there is only one chain. *)
LEMMA OneChain ==
  ASSUME TableOK, NEW B, NEW C, Chain(0, B), Chain(0, C)
  PROVE  B \subseteq C
<1> DEFINE S == {n \in Nat : n \in B => n \in C}
<1>1. \A n \in B : n \in Nat
  BY DEF TableOK, ImageOK, Sentinel, Chain
<1>2. ASSUME NEW n \in Nat, \A k \in 0 .. n - 1 : k \in S
      PROVE  n \in S
  <2> SUFFICES ASSUME n \in B, n # 0
               PROVE  n \in C
    BY DEF Chain
  <2>1. PICK b \in B : Continues(b) /\ n = b + RecordSize(b)
    BY DEF Chain
  <2>2. b \in Nat /\ b < n
    BY <1>1, <2>1, StreamSteps
  <2>3. b \in C
    BY <1>2, <2>2
  <2> QED
    BY <2>1, <2>3 DEF Chain
<1> HIDE DEF S
<1>3. \A n \in Nat : n \in S
  BY <1>2, StrongInduction
<1> QED
  BY <1>1, <1>3 DEF S
-----------------------------------------------------------------------------
(* What a well-formed image's page table says, and that no step changes it. *)
LEMMA WellFormedFacts ==
  ASSUME IInv, WellFormed
  PROVE  /\ TableOK /\ Sentinel \in Nat /\ image.rows \in Nat
         /\ image.pages[0] = 0 /\ image.pages[image.rows] = Sentinel
         /\ \A r \in 0 .. image.rows : image.pages[r] \in Nat /\ image.pages[r] \in Boundaries
         /\ \A r \in 0 .. image.rows - 1 :
              /\ image.pages[r] <= image.pages[r + 1]
              /\ SpanStart(r) = image.pages[r] /\ SpanStop(r) = image.pages[r + 1]
         /\ SpanStart(image.rows) = Sentinel
<1>1. ImageOK(image) /\ image.rows \in Nat /\ image.pages \in [0 .. image.rows -> Nat]
  BY DEF IInv, TypeOK, ImageOK
<1>2. TableOK /\ Sentinel \in Nat /\ image.pages[image.rows] = Sentinel
  BY <1>1 DEF TableOK, WellFormed, Sentinel
<1>3. \A r \in 0 .. image.rows : image.pages[r] \in Nat
  BY <1>1
<1>4. ASSUME NEW r \in 0 .. image.rows - 1
      PROVE  /\ image.pages[r] <= image.pages[r + 1]
             /\ SpanStart(r) = image.pages[r] /\ SpanStop(r) = image.pages[r + 1]
  <2>1. image.pages[r] <= image.pages[r + 1]
    BY <1>4 DEF WellFormed
  <2>2. image.pages[r] \in Nat /\ image.pages[r + 1] \in Nat
    BY <1>1, <1>3
  <2> QED
    BY <2>1, <2>2 DEF SpanStart, SpanStop
<1> QED
  BY <1>1, <1>2, <1>3, <1>4 DEF WellFormed, SpanStart

LEMMA SameTable ==
  ASSUME image' = image
  PROVE  /\ Sentinel' = Sentinel /\ TableOK' = TableOK
         /\ \A p : RecordSize(p)' = RecordSize(p) /\ Continues(p)' = Continues(p)
         /\ \A B : Chain(0, B)' = Chain(0, B)
<1>1. Sentinel' = Sentinel /\ TableOK' = TableOK
  BY DEF Sentinel, TableOK
<1>2. \A p : ByteAt(p)' = ByteAt(p)
  BY DEF ByteAt
<1>3. \A p : RecordSize(p)' = RecordSize(p) /\ FixedSize(p)' = FixedSize(p)
             /\ ListSize(p)' = ListSize(p) /\ Listed(p)' = Listed(p)
             /\ SourceType(p)' = SourceType(p)
  BY <1>2, Zenon DEF RecordSize, FixedSize, ListSize, Listed, SourceType
<1>4. \A p : ReadResult(p)' = ReadResult(p)
  BY <1>1, <1>3, Zenon DEF ReadResult, Fits
<1>5. \A p : Continues(p)' = Continues(p)
  BY <1>1, <1>3, <1>4, Zenon DEF Continues
<1>6. \A B : Chain(0, B)' = Chain(0, B)
  BY <1>1, <1>3, <1>5 DEF Chain
<1> QED
  BY <1>1, <1>3, <1>5, <1>6

LEMMA ChainHolds == TableOK => Chain(0, Boundaries)
BY BoundariesChain

LEMMA SameBoundaries ==
  ASSUME TableOK, image' = image
  PROVE  Boundaries' = Boundaries
<1>1. TableOK' /\ Chain(0, Boundaries)
  BY SameTable, ChainHolds
<1>2. TableOK' => Chain(0, Boundaries)'
  BY ChainHolds, PTL
<1>3. Chain(0, Boundaries)' = (\E B : B = Boundaries' /\ Chain(0, B)')
  BY DEF Chain
<1>4. Chain(0, Boundaries')
  BY <1>1, <1>2, <1>3, SameTable
<1> QED
  BY <1>1, <1>4, OneChain

LEMMA SameShape ==
  ASSUME IInv, image' = image
  PROVE  WellFormed' <=> WellFormed
<1>1. ASSUME TableOK
      PROVE  WellFormed' <=> WellFormed
  BY <1>1, SameBoundaries, SameTable, Zenon DEF WellFormed
<1>2. ASSUME ~TableOK
      PROVE  ~WellFormed /\ ~WellFormed'
  <2>1. ImageOK(image) /\ ~TableOK'
    BY <1>2, SameTable DEF IInv, TypeOK
  <2> QED
    BY <1>2, <2>1 DEF WellFormed, TableOK, Sentinel
<1> QED
  BY <1>1, <1>2

LEMMA OnStreamInit == Init => OnStream
BY DEF Init, OnStream

LEMMA OnStreamOpens ==
  ASSUME IInv, Open
  PROVE  OnStream'
<1> SUFFICES ASSUME WellFormed, outcome' = "walking"
             PROVE  /\ pos' = StreamEnd' /\ pos' \in Boundaries'
                    /\ IF row' < image'.rows THEN pos' <= image'.pages[row' + 1]
                                             ELSE pos' = Sentinel'
  <2>1. image' = image
    BY DEF Open
  <2>2. WellFormed' <=> WellFormed
    BY <2>1, SameShape
  <2> QED
    BY <2>2 DEF OnStream
<1>1. image' = image /\ pos' = SpanStart(0) /\ records' = <<>> /\ row' = 0
  BY DEF Open, IInv, Opened
<1>2. TableOK /\ image.pages[0] = 0 /\ image.pages[0] \in Boundaries /\ image.rows \in Nat
  BY WellFormedFacts
<1>3. pos' = 0 /\ pos' = StreamEnd' /\ pos' \in Boundaries' /\ Sentinel' = Sentinel
  BY <1>1, <1>2, SameBoundaries, SameTable DEF SpanStart, StreamEnd
<1>4. CASE image.rows > 0
  <2>1. image.pages[1] \in Nat
    BY <1>2, <1>4, WellFormedFacts
  <2> QED
    BY <1>1, <1>3, <1>4, <2>1
<1>5. CASE image.rows = 0
  BY <1>1, <1>2, <1>3, <1>5, WellFormedFacts
<1> QED
  BY <1>2, <1>4, <1>5

(* A record decoded on the stream, where it begins, and where it ends. *)
LEMMA OnStreamRecord ==
  ASSUME IInv, OnStream, WellFormed, Decode
  PROVE  /\ row \in 0 .. image.rows - 1 /\ pos = StreamEnd /\ pos \in Boundaries /\ pos \in Nat
         /\ Continues(pos) /\ pos + RecordSize(pos) <= image.pages[row + 1]
         /\ pos + RecordSize(pos) \in Boundaries
<1>1. /\ outcome = "walking" /\ row < image.rows /\ pos < SpanStop(row)
  BY DEF Decode, InSpan
<1>2. row \in 0 .. image.rows - 1 /\ pos \in Nat /\ image.rows \in Nat
  BY <1>1 DEF IInv, TypeOK, ImageOK
<1>3. pos = StreamEnd /\ pos \in Boundaries
  BY <1>1 DEF OnStream
<1>4. image.pages[row + 1] \in Boundaries /\ pos < image.pages[row + 1]
  BY <1>1, <1>2, WellFormedFacts
<1>5. Chain(0, Boundaries)
  BY WellFormedFacts, ChainHolds
<1>6. /\ Continues(pos) /\ pos + RecordSize(pos) <= image.pages[row + 1]
      /\ pos + RecordSize(pos) \in Boundaries
  BY <1>3, <1>4, <1>5 DEF Chain
<1> QED
  BY <1>2, <1>3, <1>6

LEMMA OnStreamDecodes ==
  ASSUME IInv, OnStream, Decode
  PROVE  OnStream'
<1>1. image' = image /\ row' = row /\ pos' = pos + RecordSize(pos)
      /\ records' = Append(records, RecordAt(pos)) /\ outcome = "walking"
  BY DEF Decode, InSpan
<1> SUFFICES ASSUME WellFormed
             PROVE  /\ pos' = StreamEnd' /\ pos' \in Boundaries'
                    /\ IF row' < image'.rows THEN pos' <= image'.pages[row' + 1]
                                             ELSE pos' = Sentinel'
  BY <1>1, SameShape DEF OnStream
<1>2. /\ row \in 0 .. image.rows - 1 /\ pos' \in Boundaries /\ pos' <= image.pages[row + 1]
      /\ image.rows \in Nat
  BY <1>1, OnStreamRecord, WellFormedFacts
<1>3. pos' \in Boundaries'
  BY <1>1, <1>2, SameBoundaries, WellFormedFacts
<1>4. records \in Seq(Record)
  BY DEF IInv, TypeOK
<1>5. records' # <<>> /\ records'[Len(records')] = RecordAt(pos)
  BY <1>1, <1>4
<1>6. pos' = StreamEnd'
  BY <1>1, <1>5 DEF StreamEnd, RecordEnd, RecordAt
<1> QED
  BY <1>1, <1>2, <1>3, <1>6

(* The next row starts where the last one ended. *)
LEMMA OnStreamNextRow ==
  ASSUME IInv, OnStream, NextRow
  PROVE  OnStream'
<1>1. image' = image /\ row' = row + 1 /\ pos' = SpanStart(row + 1)
      /\ records' = records /\ outcome = "walking" /\ row < image.rows /\ ~InSpan
  BY DEF NextRow
<1> SUFFICES ASSUME WellFormed
             PROVE  /\ pos' = StreamEnd' /\ pos' \in Boundaries'
                    /\ IF row' < image'.rows THEN pos' <= image'.pages[row' + 1]
                                             ELSE pos' = Sentinel'
  BY <1>1, SameShape DEF OnStream
<1>2. row \in 0 .. image.rows - 1 /\ pos \in Nat /\ image.rows \in Nat
  BY <1>1 DEF IInv, TypeOK, ImageOK
<1>3. /\ pos = StreamEnd /\ pos <= image.pages[row + 1]
  BY <1>1 DEF OnStream
<1>4. /\ image.pages[row + 1] \in Nat /\ image.pages[row + 1] \in Boundaries
      /\ SpanStop(row) = image.pages[row + 1]
  BY <1>2, WellFormedFacts
<1>5. pos' = image.pages[row + 1] /\ pos' = pos
  BY <1>1, <1>2, <1>3, <1>4 DEF InSpan, SpanStart
<1>6. StreamEnd' = StreamEnd /\ pos' \in Boundaries' /\ Sentinel' = Sentinel
  BY <1>1, <1>4, <1>5, SameBoundaries, SameTable, WellFormedFacts DEF StreamEnd, RecordEnd
<1>7. CASE row + 1 < image.rows
  <2>1. row + 1 \in 0 .. image.rows - 1
    BY <1>2, <1>7
  <2>2. image.pages[row + 1] <= image.pages[(row + 1) + 1]
    BY <2>1, WellFormedFacts
  <2> QED
    BY <1>1, <1>3, <1>5, <1>6, <1>7, <2>2
<1>8. CASE row + 1 = image.rows
  BY <1>1, <1>3, <1>5, <1>6, <1>8, WellFormedFacts
<1> QED
  BY <1>2, <1>7, <1>8

LEMMA OnStreamInductive ==
  ASSUME IInv, OnStream, [Next]_vars
  PROVE  OnStream'
<1>1. CASE Refuse \/ Finish
  BY <1>1 DEF Refuse, Finish, OnStream, ReadResult
<1>2. CASE UNCHANGED vars
  <2>1. image' = image /\ row' = row /\ pos' = pos /\ records' = records /\ outcome' = outcome
    BY <1>2 DEF vars
  <2>2. StreamEnd' = StreamEnd /\ Sentinel' = Sentinel
    BY <2>1, SameTable DEF StreamEnd, RecordEnd
  <2>3. WellFormed => Boundaries' = Boundaries
    BY <2>1, SameBoundaries, WellFormedFacts
  <2> QED
    BY <2>1, <2>2, <2>3, SameShape DEF OnStream
<1> QED
  BY <1>1, <1>2, OnStreamOpens, OnStreamDecodes, OnStreamNextRow DEF Next

LEMMA AlwaysOnStream == Spec => [](IInv /\ OnStream)
<1>1. Init => IInv /\ OnStream
  BY InitIInv, OnStreamInit
<1>2. IInv /\ OnStream /\ [Next]_vars => (IInv /\ OnStream)'
  <2>1. IInv /\ [Next]_vars => IInv'
    BY OpenIInv, DecodeIInv, RefuseIInv, NextRowIInv, FinishIInv, StutterIInv DEF Next
  <2> QED
    BY <2>1, OnStreamInductive
<1> QED
  BY <1>1, <1>2, PTL DEF Spec

-----------------------------------------------------------------------------
(***************************************************************************)
(* The refinement.  What the stream's four variables are, and what its     *)
(* actions say of them.                                                    *)
(***************************************************************************)
Shown(s) ==
  [i \in DOMAIN s |-> [page |-> s[i].page, offset |-> s[i].offset, size |-> s[i].size]]

Recs == IF WellFormed THEN Shown(records) ELSE <<>>

Closed == WellFormed /\ outcome = "ok"

LEMMA StreamActions ==
  /\ Stream!Init <=> /\ Sentinel \in Nat /\ image.rows \in Nat
                     /\ Recs = <<>> /\ Closed = FALSE
  /\ Stream!End = IF Recs = <<>> THEN 0 ELSE Recs[Len(Recs)].offset + Recs[Len(Recs)].size
  /\ Stream!LastPage = IF Recs = <<>> THEN 0 ELSE Recs[Len(Recs)].page
  /\ Stream!Deliver <=>
       /\ ~Closed
       /\ \E n \in 1 .. (Sentinel - Stream!End), p \in Stream!LastPage .. (image.rows - 1) :
            Recs' = Append(Recs, [page |-> p, offset |-> Stream!End, size |-> n])
       /\ UNCHANGED <<Sentinel, image.rows, Closed>>
  /\ Stream!Close <=>
       /\ ~Closed /\ Stream!End = Sentinel /\ Closed' = TRUE
       /\ UNCHANGED <<Sentinel, image.rows, Recs>>
  /\ UNCHANGED Stream!vars <=> UNCHANGED <<Sentinel, image.rows, Recs, Closed>>
<1>1. Stream!Init <=> /\ Sentinel \in Nat /\ image.rows \in Nat
                      /\ Recs = <<>> /\ Closed = FALSE
  BY Zenon DEF Stream!Init, Recs, Shown, Closed
<1>2. Stream!End = IF Recs = <<>> THEN 0 ELSE Recs[Len(Recs)].offset + Recs[Len(Recs)].size
  BY Zenon DEF Stream!End, Recs, Shown
<1>3. Stream!LastPage = IF Recs = <<>> THEN 0 ELSE Recs[Len(Recs)].page
  BY Zenon DEF Stream!LastPage, Recs, Shown
<1>4. Stream!Deliver <=>
       /\ ~Closed
       /\ \E n \in 1 .. (Sentinel - Stream!End), p \in Stream!LastPage .. (image.rows - 1) :
            Recs' = Append(Recs, [page |-> p, offset |-> Stream!End, size |-> n])
       /\ UNCHANGED <<Sentinel, image.rows, Closed>>
  BY Zenon DEF Stream!Deliver, Recs, Shown, Closed
<1>5. Stream!Close <=>
       /\ ~Closed /\ Stream!End = Sentinel /\ Closed' = TRUE
       /\ UNCHANGED <<Sentinel, image.rows, Recs>>
  BY Zenon DEF Stream!Close, Recs, Shown, Closed
<1>6. UNCHANGED Stream!vars <=> UNCHANGED <<Sentinel, image.rows, Recs, Closed>>
  BY Zenon DEF Stream!vars, Recs, Shown, Closed
<1> QED
  BY <1>1, <1>2, <1>3, <1>4, <1>5, <1>6

(* The records as the stream shows them. *)
LEMMA ShownFacts ==
  ASSUME NEW s \in Seq(Record)
  PROVE  /\ (Shown(s) = <<>>) <=> (s = <<>>)
         /\ s # <<>> =>
              /\ Len(Shown(s)) = Len(s)
              /\ Shown(s)[Len(s)].page = s[Len(s)].page
              /\ Shown(s)[Len(s)].offset = s[Len(s)].offset
              /\ Shown(s)[Len(s)].size = s[Len(s)].size
         /\ \A r \in Record :
              Shown(Append(s, r)) =
                Append(Shown(s), [page |-> r.page, offset |-> r.offset, size |-> r.size])
<1> DEFINE View(r) == [page |-> r.page, offset |-> r.offset, size |-> r.size]
           V == [page : Nat, offset : Nat, size : Nat]
<1>1. \A t \in Seq(Record) : /\ Len(t) \in Nat /\ DOMAIN t = 1 .. Len(t)
                             /\ \A i \in 1 .. Len(t) : t[i] \in Record
  OBVIOUS
<1>2. \A r \in Record : View(r) \in V
  BY DEF Record
<1>3. ASSUME NEW t \in Seq(Record)
      PROVE  /\ Shown(t) = [i \in 1 .. Len(t) |-> View(t[i])]
             /\ Shown(t) \in Seq(V) /\ Len(Shown(t)) = Len(t)
             /\ \A i \in 1 .. Len(t) : Shown(t)[i] = View(t[i])
  <2>1. Shown(t) = [i \in 1 .. Len(t) |-> View(t[i])]
    BY <1>1 DEF Shown
  <2>2. \A i \in 1 .. Len(t) : View(t[i]) \in V
    BY <1>1, <1>2
  <2> HIDE DEF View, V
  <2> QED
    BY <1>1, <2>1, <2>2
<1>4. ASSUME NEW r \in Record
      PROVE  Shown(Append(s, r)) = Append(Shown(s), View(r))
  <2> DEFINE t == Append(s, r)
             u == Append(Shown(s), View(r))
  <2>1. t \in Seq(Record) /\ Len(t) = Len(s) + 1 /\ t[Len(s) + 1] = r
        /\ \A i \in 1 .. Len(s) : t[i] = s[i]
    OBVIOUS
  <2>2. View(r) \in V /\ Shown(s) \in Seq(V) /\ Len(Shown(s)) = Len(s)
    BY <1>2, <1>3
  <2> HIDE DEF View, V
  <2>3. u \in Seq(V) /\ Len(u) = Len(s) + 1 /\ u[Len(s) + 1] = View(r)
        /\ \A i \in 1 .. Len(s) : u[i] = Shown(s)[i]
    BY <2>2
  <2> HIDE DEF t, u
  <2>4. Shown(t) \in Seq(V) /\ Len(Shown(t)) = Len(s) + 1
        /\ \A i \in 1 .. Len(s) + 1 : Shown(t)[i] = View(t[i])
    BY <1>3, <2>1
  <2>5. \A i \in 1 .. Len(s) : Shown(s)[i] = View(s[i])
    BY <1>3
  <2>6. Len(s) \in Nat
    BY <1>1
  <2>7. \A i \in 1 .. Len(s) + 1 : Shown(t)[i] = u[i]
    <3> SUFFICES ASSUME NEW i \in 1 .. Len(s) + 1
                 PROVE  Shown(t)[i] = u[i]
      OBVIOUS
    <3>1. CASE i \in 1 .. Len(s)
      BY <2>1, <2>3, <2>4, <2>5, <3>1
    <3>2. CASE i = Len(s) + 1
      BY <2>1, <2>3, <2>4, <3>2
    <3> QED
      BY <2>6, <3>1, <3>2
  <2> QED
    BY <2>3, <2>4, <2>7, SeqEqual DEF t, u
<1>5. (Shown(s) = <<>>) <=> (s = <<>>)
  <2>1. Len(Shown(s)) = Len(s) /\ Shown(s) \in Seq(V)
    BY <1>3
  <2> HIDE DEF V
  <2> QED
    BY <2>1
<1>6. s # <<>> => Len(s) \in 1 .. Len(s)
  BY <1>1
<1> QED
  BY <1>3, <1>4, <1>5, <1>6

(* Between the stream's steps nothing it shows changes. *)
LEMMA StreamStutters ==
  ASSUME IInv, image' = image, records' = records, Closed' <=> Closed
  PROVE  UNCHANGED Stream!vars
<1>1. Sentinel' = Sentinel /\ (WellFormed' <=> WellFormed)
  BY SameTable, SameShape
<1>2. Recs' = Recs
  BY <1>1 DEF Recs, Shown
<1>3. Closed' = Closed
  BY DEF Closed
<1> QED
  BY <1>1, <1>2, <1>3, StreamActions

LEMMA StreamDelivers ==
  ASSUME IInv, OnStream, Decode, WellFormed
  PROVE  Stream!Deliver
<1>1. image' = image /\ outcome = "walking" /\ outcome' = "walking"
      /\ records' = Append(records, RecordAt(pos)) /\ ReadResult(pos) = "ok"
  BY DEF Decode, InSpan
<1>2. records \in Seq(Record) /\ row \in Nat /\ image.rows \in Nat
  BY DEF IInv, TypeOK, ImageOK
<1>3. /\ row \in 0 .. image.rows - 1 /\ pos = StreamEnd /\ pos \in Nat
      /\ Continues(pos)
  BY OnStreamRecord
<1>4. RecordSize(pos) \in Nat /\ RecordSize(pos) >= 4 /\ Sources(pos) \in Seq(Nat)
      /\ TableOK /\ Sentinel \in Nat
  <2>1. TableOK /\ Sentinel \in Nat
    BY WellFormedFacts
  <2> QED
    BY <1>1, <1>3, <2>1, RecordSizes DEF TableOK
<1>5. RecordSize(pos) \in 1 .. Sentinel - pos
  BY <1>3, <1>4 DEF Continues
<1>6. RecordAt(pos) \in Record
  BY <1>2, <1>3, <1>4 DEF RecordAt, Record
<1>7. Recs = Shown(records) /\ (WellFormed' <=> WellFormed) /\ Recs' = Shown(records')
  <2>1. WellFormed' <=> WellFormed
    BY <1>1, SameShape
  <2> QED
    BY <2>1 DEF Recs, Shown
<1>8. Recs' = Append(Recs, [page |-> row, offset |-> pos, size |-> RecordSize(pos)])
  <2> DEFINE r == RecordAt(pos)
  <2>1. r.page = row /\ r.offset = pos /\ r.size = RecordSize(pos) /\ r \in Record
    BY <1>6 DEF RecordAt
  <2> HIDE DEF r
  <2>2. Shown(Append(records, r))
          = Append(Shown(records), [page |-> r.page, offset |-> r.offset, size |-> r.size])
    BY <1>2, <2>1, ShownFacts
  <2> QED
    BY <1>1, <1>7, <2>1, <2>2 DEF r
<1>9. Stream!End = pos
  BY <1>2, <1>3, <1>7, ShownFacts, StreamActions DEF StreamEnd, RecordEnd
<1>10. Stream!LastPage \in Nat /\ Stream!LastPage <= row
  <2>1. records # <<>> => /\ records[Len(records)].page <= row
                          /\ records[Len(records)].page \in Nat
    <3>1. records # <<>> => Len(records) \in 1 .. Len(records) /\ records[Len(records)] \in Record
      BY <1>2
    <3> QED
      BY <3>1 DEF IInv, RowsReached, Record
  <2> QED
    BY <1>2, <1>3, <1>7, <2>1, ShownFacts, StreamActions
<1>11. row \in Stream!LastPage .. (image.rows - 1)
  BY <1>2, <1>3, <1>10
<1>12. ~Closed /\ UNCHANGED <<Sentinel, image.rows, Closed>>
  <2>1. ~Closed /\ ~Closed'
    BY <1>1 DEF Closed
  <2>2. Closed' = Closed
    BY <2>1 DEF Closed
  <2> QED
    BY <1>1, <2>1, <2>2, SameTable
<1> QED
  BY <1>5, <1>8, <1>9, <1>11, <1>12, StreamActions

(* The walk of a well-formed image ends on the table's last byte. *)
LEMMA StreamCloses ==
  ASSUME IInv, OnStream, WellFormed, Finish \/ (Open /\ outcome' = "ok")
  PROVE  Stream!Close
<1>1. image' = image /\ records' = records /\ outcome # "ok" /\ outcome' = "ok"
  BY DEF Finish, Open
<1>2. records \in Seq(Record)
  BY DEF IInv, TypeOK
<1>3. StreamEnd = Sentinel
  <2>1. CASE Finish
    BY <2>1, WellFormedFacts DEF Finish, OnStream
  <2>2. CASE Open /\ outcome' = "ok"
    <3>1. records = <<>> /\ OpenResult = "ok"
      BY <2>2 DEF Open, IInv, Opened
    <3>2. Sentinel = 0
      BY <3>1 DEF OpenResult, WellFormed
    <3> QED
      BY <3>1, <3>2 DEF StreamEnd
  <2> QED
    BY <2>1, <2>2
<1>4. (WellFormed' <=> WellFormed) /\ Sentinel' = Sentinel
  BY <1>1, SameShape, SameTable
<1>5. Recs = Shown(records) /\ Recs' = Recs
  BY <1>1, <1>4 DEF Recs, Shown
<1>6. Stream!End = Sentinel
  BY <1>2, <1>3, <1>5, ShownFacts, StreamActions DEF StreamEnd, RecordEnd
<1>7. ~Closed /\ Closed' = TRUE
  BY <1>1, <1>4 DEF Closed
<1> QED
  BY <1>1, <1>4, <1>5, <1>6, <1>7, StreamActions

LEMMA StreamStep ==
  ASSUME IInv, OnStream, [Next]_vars
  PROVE  Stream!Next \/ UNCHANGED Stream!vars
<1>1. image' = image
  BY DEF Next, vars, Open, Decode, Refuse, NextRow, Finish
<1>2. WellFormed' <=> WellFormed
  BY <1>1, SameShape
<1>3. CASE ~WellFormed
  <2>1. Recs = <<>> /\ Recs' = <<>> /\ ~Closed /\ ~Closed'
    BY <1>2, <1>3 DEF Recs, Closed
  <2>2. Closed' = Closed
    BY <2>1 DEF Closed
  <2> QED
    BY <1>1, <2>1, <2>2, SameTable, StreamActions
<1>4. CASE WellFormed /\ Decode
  BY <1>4, StreamDelivers DEF Stream!Next
<1>5. CASE WellFormed /\ (Finish \/ (Open /\ outcome' = "ok"))
  BY <1>5, StreamCloses DEF Stream!Next
<1>6. CASE Open /\ outcome' # "ok"
  <2>1. records' = records /\ ~Closed /\ ~Closed'
    BY <1>6 DEF Open, Closed
  <2> QED
    BY <1>1, <2>1, StreamStutters
<1>7. CASE Refuse
  <2>1. records' = records /\ ~Closed /\ ~Closed'
    BY <1>7 DEF Refuse, InSpan, ReadResult, Closed
  <2> QED
    BY <1>1, <2>1, StreamStutters
<1>8. CASE NextRow
  <2>1. records' = records /\ ~Closed /\ ~Closed'
    BY <1>8 DEF NextRow, Closed
  <2> QED
    BY <1>1, <2>1, StreamStutters
<1>9. CASE UNCHANGED vars
  <2>1. records' = records /\ (Closed' <=> Closed)
    BY <1>2, <1>9 DEF vars, Closed
  <2> QED
    BY <1>1, <2>1, StreamStutters
<1> QED
  BY <1>3, <1>4, <1>5, <1>6, <1>7, <1>8, <1>9 DEF Next

LEMMA StreamInit ==
  ASSUME Init
  PROVE  Stream!Init
<1>1. ImageOK(image) /\ records = <<>> /\ outcome = "start"
  BY ImagesAssumption DEF Init
<1>2. Sentinel \in Nat /\ image.rows \in Nat
  BY <1>1 DEF ImageOK, Sentinel
<1>3. Recs = <<>>
  <2>1. <<>> \in Seq(Record)
    OBVIOUS
  <2> QED
    BY <1>1, <2>1, ShownFacts DEF Recs
<1>4. Closed = FALSE
  BY <1>1 DEF Closed
<1> QED
  BY <1>2, <1>3, <1>4, StreamActions

(***************************************************************************)
(* For every image whose page table is well formed, the span-by-span walk  *)
(* of get_fixup_records delivers the record table as one stream: each      *)
(* record begins where the previous one ended, on no earlier page, and the *)
(* walk ends with success only on the table's last byte.                   *)
(***************************************************************************)
THEOREM WalksTheStream == Spec => ImplementsStream
<1>1. Init => Stream!Init
  BY StreamInit
<1>2. IInv /\ OnStream /\ [Next]_vars => [Stream!Next]_(Stream!vars)
  BY StreamStep
<1> QED
  BY <1>1, <1>2, AlwaysOnStream, PTL DEF Spec, ImplementsStream, Stream!Spec
=============================================================================
