-------------------------- MODULE PageImage_proofs --------------------------
(***************************************************************************)
(* For every file and object number the image under construction is a      *)
(* whole number of pages, a page being decoded never outgrows its frame,   *)
(* and an accepted object record names only rows that exist.               *)
(***************************************************************************)
EXTENDS PageImage, SequenceFacts

LEMMA FileFacts ==
  ASSUME file \in Files
  PROVE  /\ PageSize \in Nat /\ PageSize > 0
         /\ file.objects \in Seq(ObjectRecord) /\ file.pages \in Seq(PageEntry)
         /\ file.data \in Seq(Byte)
         /\ \A k \in 1 .. Len(file.objects) :
              file.objects[k] \in ObjectRecord
BY FilesAssumption DEF GeometryOK, ContentsOK, PageSize

LEMMA ObjectFacts ==
  ASSUME NEW o \in ObjectRecord
  PROVE  o.first \in Nat /\ o.count \in Nat /\ o.vsize \in Nat
BY DEF ObjectRecord

LEMMA ResizeFacts ==
  ASSUME NEW s \in Seq(Byte), NEW n \in Nat
  PROVE  Resize(s, n) \in Seq(Byte) /\ Len(Resize(s, n)) = n
<1>1. 0 \in Byte
  BY DEF Byte
<1> QED
  BY <1>1 DEF Resize

LEMMA OnePageMore ==
  ASSUME NEW d \in Nat, NEW size \in Nat
  PROVE  (d + 1) * size = d * size + size
OBVIOUS

LEMMA WordFacts ==
  ASSUME NEW s \in Seq(Byte), NEW i \in Nat, i + 2 <= Len(s)
  PROVE  WordOf(s, i) \in Nat
<1>1. s[i + 1] \in Byte /\ s[i + 2] \in Byte
  OBVIOUS
<1>2. \A b \in Byte : b \in Nat
  BY DEF Byte
<1> QED
  BY <1>1, <1>2 DEF WordOf

LEMMA SubSeqFacts ==
  ASSUME NEW s \in Seq(Byte), NEW a \in Nat, NEW b \in Nat, b <= Len(s)
  PROVE  /\ SubSeq(s, a + 1, b) \in Seq(Byte)
         /\ Len(SubSeq(s, a + 1, b)) = IF a <= b THEN b - a ELSE 0
OBVIOUS

LEMMA AppendFacts ==
  ASSUME NEW s \in Seq(Byte), NEW t \in Seq(Byte)
  PROVE  s \o t \in Seq(Byte) /\ Len(s \o t) = Len(s) + Len(t)
OBVIOUS

(* The object table does not change. *)
LEMMA SameObjects ==
  ASSUME UNCHANGED <<file, number>>
  PROVE  ObjectsOK' = ObjectsOK /\ Object' = Object /\ file'.objects = file.objects
BY DEF ObjectsOK, RecordOK, ModulePages, Object

LEMMA ObjectOfBlock ==
  ASSUME IInv, phase \in {"pages", "blocks", "repeat"}
  PROVE  /\ Object \in ObjectRecord /\ RecordOK(Object)
         /\ number \in 1 .. Len(file.objects) /\ done <= Object.count
BY FileFacts DEF IInv, TypeOK, InBlock, Object, ObjectsOK

LEMMA InitIInv ==
  ASSUME Init
  PROVE  IInv
<1>1. TypeOK
  BY NumbersAssumption DEF Init, TypeOK
<1> QED
  BY <1>1 DEF Init, IInv, InBlock, PageFrame, RowsExist

(* A step that only settles the outcome. *)
LEMMA EndIInv ==
  ASSUME IInv, NEW o \in Failures, o # "PageNotFound", End(o)
  PROVE  IInv'
BY DEF IInv, TypeOK, InBlock, PageFrame, RowsExist, End, Failures, decodeVars

(* A page of any stored length joins the image as one full page. *)
LEMMA AddPageIInv ==
  ASSUME IInv, NEW bytes \in Seq(Byte), AddPage(bytes),
         phase \in {"pages", "blocks"}, done < Object.count
  PROVE  IInv'
<1>1. image' = image \o Resize(bytes, PageSize) /\ done' = done + 1
      /\ phase' = "pages" /\ UNCHANGED <<file, number, src, p, block, left, page>>
  BY DEF AddPage, decodeVars
<1>2. file \in Files /\ done \in Nat /\ image \in Seq(Byte)
  BY DEF IInv, TypeOK
<1>3. PageSize \in Nat /\ PageSize' = PageSize
  BY <1>1, <1>2, FileFacts DEF PageSize
<1>4. Resize(bytes, PageSize) \in Seq(Byte) /\ Len(Resize(bytes, PageSize)) = PageSize
  BY <1>3, ResizeFacts
<1>5. image' \in Seq(Byte) /\ Len(image') = Len(image) + PageSize
  <2>1. \A s, t \in Seq(Byte) : s \o t \in Seq(Byte) /\ Len(s \o t) = Len(s) + Len(t)
    BY AppendFacts
  <2> DEFINE R == Resize(bytes, PageSize)
  <2>2. image \o R \in Seq(Byte) /\ Len(image \o R) = Len(image) + Len(R)
    BY <1>2, <1>4, <2>1, Zenon
  <2>3. image' = image \o R /\ Len(R) = PageSize
    BY <1>1, <1>4
  <2> HIDE DEF R
  <2> QED
    BY <2>2, <2>3
<1>6. TypeOK'
  BY <1>1, <1>2, <1>5 DEF IInv, TypeOK
<1>7. InBlock'
  <2>1. Object \in ObjectRecord /\ Object' = Object
    BY <1>1, ObjectOfBlock DEF Object
  <2>2. done + 1 <= Object.count
    BY <1>2, <2>1, ObjectFacts
  <2> QED
    BY <1>1, <2>1, <2>2, SameObjects DEF IInv, InBlock
<1>8. PageFrame'
  <2>1. Len(image) = done * PageSize /\ Len(page) <= PageSize
    BY DEF IInv, PageFrame
  <2>2. Len(image') = (done + 1) * PageSize
    BY <1>2, <1>3, <1>5, <2>1, OnePageMore
  <2> QED
    BY <1>1, <1>3, <2>1, <2>2 DEF PageFrame
<1>9. RowsExist'
  BY <1>1 DEF RowsExist
<1> QED
  BY <1>6, <1>7, <1>8, <1>9 DEF IInv

(* The row of the next page is a row of the page table. *)
LEMMA RowInTable ==
  ASSUME IInv, Reading
  PROVE  Row \in Nat /\ Row < ModulePages /\ done < Object.count
<1>1. Object \in ObjectRecord /\ RecordOK(Object) /\ done < Object.count
  BY ObjectOfBlock DEF Reading
<1>2. done \in Nat /\ file \in Files
  BY DEF IInv, TypeOK
<1>3. ModulePages \in Nat
  BY <1>2, FileFacts DEF ModulePages
<1> QED
  BY <1>1, <1>2, <1>3, ObjectFacts DEF Row, RecordOK

(* What a stored page reads. *)
LEMMA RawFacts ==
  ASSUME IInv, Reading, Stored
  PROVE  Raw \in Seq(Byte)
<1>1. file \in Files /\ GeometryOK(file)
  BY FilesAssumption DEF IInv, TypeOK
<1>2. Entry \in PageEntry
  BY <1>1, RowInTable, FileFacts DEF Entry, ModulePages
<1>3. Entry.slot \in Nat /\ Entry.size \in Nat
  BY <1>2 DEF PageEntry
<1>4. OnDisk \in Nat
  BY <1>1, <1>3 DEF OnDisk, GeometryOK, Least, PageSize
<1>5. Offset \in Nat
  <2>1. CASE file.lx
    BY <1>1, <1>3, <2>1 DEF Offset, GeometryOK
  <2>2. CASE ~file.lx
    <3>1. Entry.slot - 1 \in Nat /\ PageSize \in Nat
      BY <1>1, <1>3, <2>2, FileFacts DEF Stored, Unnumbered
    <3> QED
      BY <2>2, <3>1 DEF Offset
  <2> QED
    BY <2>1, <2>2
<1>6. Offset + OnDisk \in Nat /\ Offset + OnDisk <= Len(file.data)
  BY <1>4, <1>5 DEF Stored
<1>7. file.data \in Seq(Byte)
  BY <1>1, FileFacts
<1> QED
  BY <1>5, <1>6, <1>7, SubSeqFacts DEF Raw

LEMMA IteratedIInv ==
  ASSUME IInv, IteratedPage
  PROVE  IInv'
<1>1. Reading /\ Stored /\ src' = Raw /\ p' = 0 /\ block' = <<>> /\ left' = 0
      /\ page' = <<>> /\ phase' = "blocks" /\ UNCHANGED <<file, number, done, image>>
  BY DEF IteratedPage
<1>2. TypeOK'
  BY <1>1, RawFacts DEF IInv, TypeOK
<1>3. InBlock'
  BY <1>1, SameObjects DEF IInv, InBlock, Reading
<1>4. PageFrame'
  <2>1. PageSize \in Nat /\ PageSize' = PageSize
    BY <1>1, FileFacts DEF IInv, TypeOK, PageSize
  <2>2. Len(image) = done * PageSize
    BY <1>1 DEF IInv, PageFrame, Reading
  <2> QED
    BY <1>1, <2>1, <2>2 DEF PageFrame
<1> QED
  BY <1>1, <1>2, <1>3, <1>4 DEF IInv, RowsExist

(* The blocks of an iterated page leave the image and the row alone. *)
LEMMA DecodeIInv ==
  ASSUME IInv, TypeOK', phase \in {"blocks", "repeat"},
         phase' \in {"blocks", "repeat"}, Len(page') <= PageSize,
         UNCHANGED <<file, number, done, image>>
  PROVE  IInv'
<1>1. InBlock'
  BY SameObjects DEF IInv, InBlock
<1>2. PageFrame'
  BY DEF IInv, PageFrame, PageSize
<1> QED
  BY <1>1, <1>2 DEF IInv, RowsExist

LEMMA ReadBlockIInv ==
  ASSUME IInv, ReadBlock
  PROVE  IInv'
<1>1. /\ phase = "blocks" /\ p + 4 <= Len(src)
      /\ p + 4 + Length <= Len(src)
      /\ block' = SubSeq(src, p + 5, p + 4 + Length)
      /\ left' = Iterations /\ p' = p + 4 + Length /\ phase' = "repeat"
      /\ UNCHANGED <<file, number, done, image, src, page>>
  BY DEF ReadBlock, AtBlock, BlockOK
<1>2. src \in Seq(Byte) /\ p \in Nat /\ file \in Files
  BY DEF IInv, TypeOK
<1>3. Length \in Nat /\ Iterations \in Nat
  <2>1. p + 2 \in Nat /\ p + 2 <= Len(src) /\ p + 2 + 2 <= Len(src)
    BY <1>1, <1>2
  <2> QED
    BY <1>2, <2>1, WordFacts DEF Length, Iterations
<1>4. block' \in Seq(Byte) /\ p' \in Nat
  <2>1. p + 4 \in Nat /\ p + 4 + Length \in Nat /\ p + 5 = (p + 4) + 1
    BY <1>2, <1>3
  <2> QED
    BY <1>1, <1>2, <2>1, SubSeqFacts
<1>5. TypeOK'
  BY <1>1, <1>3, <1>4 DEF IInv, TypeOK
<1>6. Len(page') <= PageSize
  BY <1>1 DEF IInv, PageFrame
<1> QED
  BY <1>1, <1>5, <1>6, DecodeIInv

LEMMA RepeatIInv ==
  ASSUME IInv, Repeat
  PROVE  IInv'
<1>1. /\ phase = "repeat" /\ UNCHANGED <<file, number, done, image, src, p, block>>
      /\ phase' \in {"blocks", "repeat"}
  BY DEF Repeat
<1>2. /\ page \in Seq(Byte) /\ block \in Seq(Byte) /\ left \in Nat
      /\ Len(page) <= PageSize /\ PageSize \in Nat
  BY <1>1, FileFacts DEF IInv, TypeOK, PageFrame
<1>3. CASE left = 0 \/ Len(page) >= PageSize
  <2>1. UNCHANGED <<left, page>> /\ phase' = "blocks"
    BY <1>3 DEF Repeat
  <2>2. TypeOK'
    BY <1>1, <2>1 DEF IInv, TypeOK
  <2> QED
    BY <1>1, <1>2, <2>1, <2>2, DecodeIInv
<1>4. CASE ~(left = 0 \/ Len(page) >= PageSize)
  <2> DEFINE take == Least(Len(block), PageSize - Len(page))
  <2>1. page' = page \o SubSeq(block, 1, take) /\ left' = left - 1 /\ phase' = "repeat"
    BY <1>1, <1>4 DEF Repeat
  <2>2. take \in Nat /\ take <= Len(block) /\ take <= PageSize - Len(page)
    BY <1>2, <1>4 DEF Least
  <2>3. SubSeq(block, 1, take) \in Seq(Byte) /\ Len(SubSeq(block, 1, take)) = take
    BY <1>2, <2>2
  <2> HIDE DEF take
  <2>4. page' \in Seq(Byte) /\ Len(page') = Len(page) + take
    BY <1>2, <2>1, <2>2, <2>3
  <2>5. left' \in Nat
    BY <1>2, <1>4, <2>1
  <2>6. TypeOK'
    BY <1>1, <2>1, <2>4, <2>5 DEF IInv, TypeOK
  <2>7. Len(page') <= PageSize
    BY <1>2, <2>2, <2>4
  <2> QED
    BY <1>1, <2>6, <2>7, DecodeIInv
<1> QED
  BY <1>3, <1>4

LEMMA FindObjectIInv ==
  ASSUME IInv, FindObject
  PROVE  IInv'
<1>1. /\ phase = "start" /\ phase' = "pages" /\ ObjectsOK
      /\ number \in 1 .. Len(file.objects)
      /\ UNCHANGED <<file, number, done, image, src, p, block, left, page>>
  BY DEF FindObject, End, decodeVars
<1>2. done = 0 /\ image = <<>> /\ page = <<>>
  BY <1>1 DEF IInv, InBlock
<1>3. TypeOK'
  BY <1>1 DEF IInv, TypeOK
<1>4. InBlock'
  <2>1. Object \in ObjectRecord
    BY <1>1, FileFacts DEF IInv, TypeOK, Object
  <2> QED
    BY <1>1, <1>2, <2>1, ObjectFacts, SameObjects DEF InBlock
<1>5. PageFrame'
  <2>1. PageSize \in Nat /\ PageSize' = PageSize
    BY <1>1, FileFacts DEF IInv, TypeOK, PageSize
  <2>2. 0 * PageSize = 0
    BY <2>1
  <2> QED
    BY <1>1, <1>2, <2>1, <2>2 DEF PageFrame
<1> QED
  BY <1>1, <1>3, <1>4, <1>5 DEF IInv, RowsExist

(* The finished image is as long as the object, whatever its pages hold.   *)
LEMMA CloseIInv ==
  ASSUME IInv, CloseImage
  PROVE  IInv'
<1>1. phase = "pages" /\ phase' = "ok" /\ image' = Resize(image, Object.vsize)
      /\ UNCHANGED <<file, number, done, src, p, block, left, page>>
  BY DEF CloseImage, decodeVars
<1>2. image' \in Seq(Byte)
  BY <1>1, ObjectOfBlock, ObjectFacts, ResizeFacts DEF IInv, TypeOK
<1>3. TypeOK'
  BY <1>1, <1>2 DEF IInv, TypeOK
<1> QED
  BY <1>1, <1>3 DEF IInv, InBlock, PageFrame, RowsExist

LEMMA StepIInv ==
  ASSUME IInv, Next
  PROVE  IInv'
<1>1. CASE RefuseObjects
  BY <1>1, EndIInv DEF RefuseObjects, Failures
<1>2. CASE NoSuchObject
  BY <1>2, EndIInv DEF NoSuchObject, Failures
<1>3. CASE FindObject
  BY <1>3, FindObjectIInv
<1>4. CASE ZeroPage
  <2>1. <<>> \in Seq(Byte)
    OBVIOUS
  <2> QED
    BY <1>4, <2>1, RowInTable, AddPageIInv DEF ZeroPage, Reading
<1>5. CASE LegalPage
  BY <1>5, RawFacts, RowInTable, AddPageIInv DEF LegalPage, Reading
<1>6. CASE IteratedPage
  BY <1>6, IteratedIInv
<1>7. CASE RefusePage
  <2>1. Row < ModulePages
    BY <1>7, RowInTable DEF RefusePage
  <2>2. \E o \in Failures \ {"PageNotFound"} : End(o)
    BY <1>7, <2>1 DEF RefusePage, Found, Failures
  <2> QED
    BY <2>2, EndIInv
<1>8. CASE ReadBlock
  BY <1>8, ReadBlockIInv
<1>9. CASE CorruptBlock
  BY <1>9, EndIInv DEF CorruptBlock, Failures
<1>10. CASE Repeat
  BY <1>10, RepeatIInv
<1>11. CASE EndPage
  BY <1>11, AddPageIInv DEF EndPage, IInv, TypeOK, InBlock
<1>12. CASE CloseImage
  BY <1>12, CloseIInv
<1> QED
  BY <1>1, <1>2, <1>3, <1>4, <1>5, <1>6, <1>7, <1>8, <1>9, <1>10, <1>11, <1>12 DEF Next

LEMMA StutterIInv ==
  ASSUME IInv, UNCHANGED vars
  PROVE  IInv'
<1>1. UNCHANGED <<file, number, phase, done, image, src, p, block, left, page>>
  BY DEF vars, decodeVars
<1>2. TypeOK' /\ RowsExist'
  BY <1>1 DEF IInv, TypeOK, RowsExist
<1>3. InBlock'
  BY <1>1, SameObjects DEF IInv, InBlock
<1>4. PageFrame'
  BY <1>1 DEF IInv, PageFrame, PageSize
<1> QED
  BY <1>2, <1>3, <1>4 DEF IInv

LEMMA Inductive == Spec => []IInv
<1>1. Init => IInv
  BY InitIInv
<1>2. IInv /\ [Next]_vars => IInv'
  BY StepIInv, StutterIInv
<1> QED
  BY <1>1, <1>2, PTL DEF Spec

(* Every step keeps the types: offsets and counts never go below zero and  *)
(* the image holds bytes (object_image, read_page, decode_iterated).       *)
THEOREM TypeCorrect == Spec => []TypeOK
BY Inductive, PTL DEF IInv

(* After k pages the image is k pages long, whatever each page stores, and *)
(* an iterated page never outgrows its frame (read_page).                  *)
THEOREM WholePages == Spec => []PageFrame
BY Inductive, PTL DEF IInv

(* No object record that get_object_table accepts names a missing row, so  *)
(* object_image never fails with PageNotFound.                             *)
THEOREM NoMissingRow == Spec => []RowsExist
BY Inductive, PTL DEF IInv
-----------------------------------------------------------------------------
(* Places in a row of n parts of width w. *)
LEMMA PlaceInParts ==
  ASSUME NEW n \in Nat, NEW w \in Nat \ {0}, NEW j \in Nat, NEW b \in 0 .. w - 1
  PROVE  /\ j * w \in Nat /\ n * w \in Nat
         /\ j < n => j * w + b + 1 \in 1 .. n * w
         /\ j >= n => j * w + b + 1 > n * w
<1>1. j * w \in Nat /\ n * w \in Nat
  OBVIOUS
<1>2. CASE j < n
  <2>1. PICK k \in Nat : n = j + 1 + k
    <3>1. n - (j + 1) \in Nat /\ n = j + 1 + (n - (j + 1))
      BY <1>2
    <3> QED
      BY <3>1
  <2>2. n * w = j * w + w + k * w /\ k * w \in Nat
    BY <2>1
  <2> QED
    BY <1>1, <1>2, <2>2
<1>3. CASE j >= n
  <2>1. PICK k \in Nat : j = n + k
    <3>1. j - n \in Nat /\ j = n + (j - n)
      BY <1>3
    <3> QED
      BY <3>1
  <2>2. j * w = n * w + k * w /\ k * w \in Nat
    BY <2>1
  <2> QED
    BY <1>1, <1>3, <2>2
<1> QED
  BY <1>2, <1>3

(* A block repeated: nothing, and once more. *)
LEMMA RoundsType ==
  ASSUME NEW s \in Seq(Byte), NEW n \in Nat
  PROVE  /\ Rounds(s, n) \in Seq(Byte) /\ Len(Rounds(s, n)) = n * Len(s)
         /\ \A j \in 1 .. n * Len(s) : Rounds(s, n)[j] = s[((j - 1) % Len(s)) + 1]
<1> DEFINE w == Len(s)
           m == n * w
<1>1. w \in Nat /\ m \in Nat
  OBVIOUS
<1>2. \A k \in 1 .. w : s[k] \in Byte
  OBVIOUS
<1> HIDE DEF w
<1>3. w = 0 => m = 0
  BY <1>1
<1> HIDE DEF m
<1>4. ASSUME NEW j \in 1 .. m
      PROVE  s[((j - 1) % w) + 1] \in Byte
  <2> DEFINE a == j - 1
  <2>1. a \in Nat /\ w \in Nat \ {0}
    BY <1>1, <1>3, <1>4
  <2> HIDE DEF a
  <2>2. a % w \in 0 .. w - 1
    BY <2>1, DivMod
  <2>3. (a % w) + 1 \in 1 .. w
    BY <1>1, <2>2
  <2> QED
    BY <1>2, <2>3 DEF a
<1>5. Rounds(s, n) = [j \in 1 .. m |-> s[((j - 1) % w) + 1]]
  BY DEF Rounds, m, w
<1> DEFINE At(j) == s[((j - 1) % w) + 1]
<1>6. \A j \in 1 .. m : At(j) \in Byte
  BY <1>4
<1>7. Rounds(s, n) = [j \in 1 .. m |-> At(j)]
  BY <1>5
<1> HIDE DEF At
<1>8. /\ Rounds(s, n) \in Seq(Byte) /\ Len(Rounds(s, n)) = m
      /\ \A j \in 1 .. m : Rounds(s, n)[j] = At(j)
  BY <1>1, <1>6, <1>7
<1> QED
  BY <1>8 DEF At, m, w

LEMMA RoundsNone ==
  ASSUME NEW s \in Seq(Byte)
  PROVE  Rounds(s, 0) = <<>>
<1>1. 0 * Len(s) = 0
  OBVIOUS
<1>2. Len(Rounds(s, 0)) = 0 /\ Rounds(s, 0) \in Seq(Byte)
  BY <1>1, RoundsType
<1> QED
  BY <1>2

LEMMA RoundsMore ==
  ASSUME NEW s \in Seq(Byte), s # <<>>, NEW n \in Nat
  PROVE  Rounds(s, n + 1) = s \o Rounds(s, n)
<1> DEFINE w == Len(s)
           m == n * w
           u == Rounds(s, n)
           v == Rounds(s, n + 1)
           t == s \o u
<1>1. w \in Nat \ {0} /\ m \in Nat /\ (n + 1) * w = m + w
  <2>1. Len(s) \in Nat \ {0}
    OBVIOUS
  <2> QED
    BY <2>1, OneMore
<1>2. u \in Seq(Byte) /\ Len(u) = m /\ \A j \in 1 .. m : u[j] = s[((j - 1) % w) + 1]
  BY RoundsType
<1>3. v \in Seq(Byte) /\ Len(v) = m + w /\ \A j \in 1 .. m + w : v[j] = s[((j - 1) % w) + 1]
  <2>1. n + 1 \in Nat
    OBVIOUS
  <2> QED
    BY <1>1, <2>1, RoundsType
<1>4. Len(s) = w
  OBVIOUS
<1> HIDE DEF w, m, u, v
<1>5. t \in Seq(Byte) /\ Len(t) = m + w
      /\ \A j \in 1 .. m + w : t[j] = IF j <= w THEN s[j] ELSE u[j - w]
  <2>1. /\ t \in Seq(Byte) /\ Len(t) = Len(s) + Len(u)
        /\ \A j \in 1 .. Len(s) + Len(u) : t[j] = IF j <= Len(s) THEN s[j] ELSE u[j - Len(s)]
    BY <1>2, ConcatProperties
  <2> HIDE DEF t
  <2>2. Len(s) + Len(u) = m + w
    BY <1>1, <1>2, <1>4
  <2> QED
    BY <1>4, <2>1, <2>2
<1> HIDE DEF t
<1>6. ASSUME NEW j \in 1 .. m + w
      PROVE  v[j] = t[j]
  <2>1. CASE j <= w
    <3> DEFINE a == j - 1
    <3>1. a \in 0 .. w - 1 /\ w \in Nat \ {0} /\ a + 1 = j
      BY <1>1, <1>6, <2>1
    <3> HIDE DEF a
    <3>2. a % w = a
      BY <3>1
    <3>3. v[j] = s[(a % w) + 1]
      BY <1>3, <1>6 DEF a
    <3> QED
      BY <1>5, <1>6, <2>1, <3>1, <3>2, <3>3
  <2>2. CASE j > w
    <3> DEFINE a == (j - w) - 1
    <3>1. a \in Nat /\ a + w = j - 1 /\ j - w \in 1 .. m
      BY <1>1, <1>6, <2>2
    <3>2. u[j - w] = s[(a % w) + 1]
      BY <1>2, <3>1
    <3> HIDE DEF a
    <3>3. (a + w) % w = a % w
      BY <1>1, <3>1, ModShift
    <3>4. v[j] = s[((a + w) % w) + 1]
      BY <1>3, <1>6, <3>1
    <3> QED
      BY <1>1, <1>5, <1>6, <2>2, <3>2, <3>3, <3>4
  <2> QED
    BY <1>1, <1>6, <2>1, <2>2
<1>7. v = t
  BY <1>3, <1>5, <1>6, SeqEqual
<1> QED
  BY <1>7 DEF u, v, t

(* One block of stored bytes. *)
LEMMA BlockFacts ==
  ASSUME NEW s \in Seq(Byte), NEW i \in Nat, WholeBlock(s, i)
  PROVE  /\ WordOf(s, i) \in Nat \ {0} /\ WordOf(s, i + 2) \in Nat \ {0}
         /\ i + 4 + WordOf(s, i + 2) \in 0 .. Len(s)
         /\ i + 4 + WordOf(s, i + 2) > i
         /\ BlockBytes(s, i) \in Seq(Byte) /\ Len(BlockBytes(s, i)) = WordOf(s, i + 2)
         /\ Rounds(BlockBytes(s, i), WordOf(s, i)) \in Seq(Byte)
<1> DEFINE n == WordOf(s, i)
           w == WordOf(s, i + 2)
<1>1. i + 4 <= Len(s) /\ n # 0 /\ w # 0 /\ i + 4 + w <= Len(s)
  BY DEF WholeBlock
<1>2. n \in Nat /\ w \in Nat
  <2>1. i + 2 \in Nat /\ i + 2 <= Len(s) /\ (i + 2) + 2 <= Len(s)
    BY <1>1
  <2> QED
    BY <2>1, WordFacts
<1> HIDE DEF n, w
<1>3. SubSeq(s, i + 5, i + 4 + w) \in Seq(Byte) /\ Len(SubSeq(s, i + 5, i + 4 + w)) = w
  <2> DEFINE a == i + 4
             b == i + 4 + w
  <2>1. a \in Nat /\ b \in Nat /\ a + 1 = i + 5 /\ b - a = w /\ a <= b /\ b <= Len(s)
    BY <1>1, <1>2
  <2> HIDE DEF a, b
  <2>2. SubSeq(s, a + 1, b) \in Seq(Byte) /\ Len(SubSeq(s, a + 1, b)) = b - a
    BY <2>1, SubSeqFacts
  <2> QED
    BY <2>1, <2>2 DEF b
<1>4. BlockBytes(s, i) = SubSeq(s, i + 5, i + 4 + w)
  BY DEF BlockBytes, w
<1>5. Rounds(BlockBytes(s, i), n) \in Seq(Byte)
  BY <1>2, <1>3, <1>4, RoundsType
<1>6. i + 4 + w \in 0 .. Len(s) /\ i + 4 + w > i
  BY <1>1, <1>2
<1> QED
  BY <1>1, <1>2, <1>3, <1>4, <1>5, <1>6 DEF n, w

After(s, i) == i + 4 + WordOf(s, i + 2)

Expanded(s, i) == Rounds(BlockBytes(s, i), WordOf(s, i))

Unrolled(f, s, i) == IF WholeBlock(s, i) THEN Expanded(s, i) \o f[After(s, i)] ELSE <<>>

(* The recursion of the expansion has a solution: every block takes bytes. *)
LEMMA ExpansionDefined ==
  ASSUME NEW s \in Seq(Byte)
  PROVE  \E f : f = [i \in 0 .. Len(s) |-> Unrolled(f, s, i)]
<1> DEFINE N == Len(s)
           V == Seq(Byte)
           G == {i \in 0 .. N : WholeBlock(s, i)}
           stop == [i \in 0 .. N |-> <<>>]
           next == [i \in G |-> After(s, i)]
           step == [e \in G \X V |-> Expanded(s, e[1]) \o e[2]]
<1>1. N \in Nat
  OBVIOUS
<1>2. \A i \in G : After(s, i) \in 0 .. N /\ After(s, i) > i /\ Expanded(s, i) \in V
  BY <1>1, BlockFacts DEF After, Expanded
<1>3. G \in SUBSET (0 .. N) /\ stop \in [0 .. N -> V]
  OBVIOUS
<1>4. next \in [G -> 0 .. N] /\ \A i \in G : next[i] > i
  BY <1>2
<1>5. step \in [G \X V -> V]
  <2>1. ASSUME NEW e \in G \X V
        PROVE  Expanded(s, e[1]) \o e[2] \in V
    <3>1. Expanded(s, e[1]) \in Seq(Byte) /\ e[2] \in Seq(Byte)
      BY <1>2
    <3> QED
      BY <3>1, ConcatProperties
  <2> QED
    BY <2>1
<1> HIDE DEF N, G, V, stop, next, step
<1>6. PICK f \in [0 .. N -> V] :
        \A i \in 0 .. N : f[i] = IF i \in G THEN step[<<i, f[next[i]]>>] ELSE stop[i]
  <2> DEFINE Solves(D, a, b, c) ==
        \E f \in [0 .. N -> V] :
          \A i \in 0 .. N : f[i] = IF i \in D THEN c[<<i, f[b[i]]>>] ELSE a[i]
  <2>1. \A D \in SUBSET (0 .. N), a \in [0 .. N -> V] :
          \A b \in [D -> 0 .. N], c \in [D \X V -> V] :
            (\A i \in D : b[i] > i) => Solves(D, a, b, c)
    BY <1>1, Upward
  <2> HIDE DEF Solves
  <2>2. Solves(G, stop, next, step)
    BY <1>3, <1>4, <1>5, <2>1
  <2> QED
    BY <2>2 DEF Solves
<1>7. ASSUME NEW i \in 0 .. N
      PROVE  f[i] = Unrolled(f, s, i)
  <2>1. CASE i \in G
    <3>1. next[i] = After(s, i) /\ next[i] \in 0 .. N /\ WholeBlock(s, i)
      BY <1>4, <2>1 DEF next, G
    <3>2. <<i, f[next[i]]>> \in G \X V
      BY <1>6, <2>1, <3>1
    <3>3. step[<<i, f[next[i]]>>] = Expanded(s, i) \o f[next[i]]
      BY <3>2 DEF step
    <3> QED
      BY <1>6, <2>1, <3>1, <3>3 DEF Unrolled
  <2>2. CASE i \notin G
    <3>1. ~WholeBlock(s, i) /\ stop[i] = <<>>
      BY <1>7, <2>2 DEF G, stop
    <3> QED
      BY <1>6, <2>2, <3>1 DEF Unrolled
  <2> QED
    BY <2>1, <2>2
<1>8. f = [i \in 0 .. N |-> Unrolled(f, s, i)]
  BY <1>6, <1>7
<1> QED
  BY <1>8 DEF N

(* What is still to be read: a block and what follows it, or nothing. *)
LEMMA ExpansionUnfolds ==
  ASSUME NEW s \in Seq(Byte), NEW k \in 0 .. Len(s)
  PROVE  /\ ExpansionFrom(s, k) \in Seq(Byte)
         /\ ExpansionFrom(s, k) = IF WholeBlock(s, k)
                                    THEN Expanded(s, k) \o ExpansionFrom(s, After(s, k))
                                    ELSE <<>>
<1> DEFINE Eq(f) == f = [i \in 0 .. Len(s) |-> Unrolled(f, s, i)]
           from == CHOOSE f : Eq(f)
<1>1. \A i : ExpansionFrom(s, i) = from[i]
  BY DEF ExpansionFrom, Unrolled, Expanded, After
<1>2. Eq(from)
  <2>1. \E f : Eq(f)
    BY ExpansionDefined
  <2> HIDE DEF Eq
  <2> QED
    BY <2>1
<1>3. \A i \in 0 .. Len(s) : from[i] = Unrolled(from, s, i)
  <2>1. from = [i \in 0 .. Len(s) |-> Unrolled(from, s, i)]
    BY <1>2
  <2> HIDE DEF from
  <2> QED
    BY <2>1
<1> HIDE DEF from
<1> DEFINE N == Len(s)
           S == {n \in Nat : \A i \in 0 .. N : i + n >= N => from[i] \in Seq(Byte)}
<1>4. N \in Nat
  OBVIOUS
<1> HIDE DEF N
<1>5. ASSUME NEW i \in 0 .. N, ~WholeBlock(s, i)
      PROVE  from[i] \in Seq(Byte)
  BY <1>3, <1>5, EmptySeq DEF Unrolled, N
<1>6. 0 \in S
  <2>1. \A i \in 0 .. N : i + 0 >= N => ~WholeBlock(s, i)
    BY <1>4 DEF WholeBlock, N
  <2> QED
    BY <1>5, <2>1
<1>7. ASSUME NEW n \in Nat, n \in S
      PROVE  n + 1 \in S
  <2> SUFFICES ASSUME NEW i \in 0 .. N, i + (n + 1) >= N, WholeBlock(s, i)
               PROVE  from[i] \in Seq(Byte)
    BY <1>5
  <2> DEFINE q == After(s, i)
  <2>1. q \in 0 .. N /\ q > i /\ Expanded(s, i) \in Seq(Byte)
    BY <1>4, BlockFacts DEF After, Expanded, N
  <2> HIDE DEF q
  <2>2. from[q] \in Seq(Byte)
    BY <1>4, <1>7, <2>1
  <2>3. from[i] = Expanded(s, i) \o from[q]
    BY <1>3 DEF Unrolled, q, N
  <2> QED
    BY <2>1, <2>2, <2>3, ConcatProperties
<1>8. \A n \in Nat : n \in S
  <2> HIDE DEF S
  <2> QED
    BY <1>6, <1>7, Induction
<1>9. \A i \in 0 .. N : from[i] \in Seq(Byte)
  BY <1>4, <1>8
<1> QED
  BY <1>1, <1>3, <1>9 DEF Unrolled, N

-----------------------------------------------------------------------------
(* The row being read, and the bytes its slot holds. *)
LEMMA EntryFacts ==
  ASSUME IInv, phase \in {"pages", "blocks", "repeat"}, done < Object.count
  PROVE  /\ Entry = file.pages[Object.first + done] /\ Entry \in PageEntry
         /\ Object.first \in Nat /\ done \in Nat
<1>1. Object \in ObjectRecord /\ RecordOK(Object)
  BY ObjectOfBlock
<1>2. done \in Nat /\ file \in Files
  BY DEF IInv, TypeOK
<1>3. ModulePages \in Nat /\ file.pages \in Seq(PageEntry)
  BY <1>2, FileFacts DEF ModulePages
<1>4. Object.first \in Nat \ {0} /\ Object.count \in Nat /\ Object.first + Object.count - 1 <= ModulePages
  BY <1>1, ObjectFacts DEF RecordOK
<1>5. Row + 1 = Object.first + done /\ Object.first + done \in 1 .. ModulePages
  BY <1>2, <1>3, <1>4 DEF Row
<1>6. Entry = file.pages[Object.first + done]
  BY <1>5 DEF Entry
<1>7. Entry \in PageEntry
  BY <1>3, <1>5, <1>6 DEF ModulePages
<1> QED
  BY <1>2, <1>4, <1>6, <1>7

LEMMA SlotIsRaw ==
  ASSUME IInv, Reading, Stored
  PROVE  SlotBytes(Entry) = Raw
<1>1. Entry \in PageEntry
  BY EntryFacts DEF Reading
<1>2. Entry.slot \in Nat /\ Entry.size \in Nat
  BY <1>1 DEF PageEntry
<1>3. CASE file.lx
  BY <1>3, Zenon DEF SlotBytes, Raw, Offset, OnDisk
<1>4. CASE ~file.lx
  <2>1. Entry.slot - 1 \in Nat /\ PageSize \in Nat /\ ModulePages \in Nat
    BY <1>2, <1>4, FileFacts DEF IInv, TypeOK, Stored, Unnumbered, ModulePages
  <2>2. ((Entry.slot - 1) + 1) * PageSize = (Entry.slot - 1) * PageSize + PageSize
    BY <2>1, OnePageMore
  <2>3. (Entry.slot - 1) + 1 = Entry.slot
    BY <1>2
  <2>4. Entry.slot * PageSize = (Entry.slot - 1) * PageSize + PageSize
    BY <2>2, <2>3
  <2>5. (Entry.slot < ModulePages \/ Entry.slot > ModulePages) <=> Entry.slot # ModulePages
    BY <1>2, <2>1
  <2> QED
    BY <1>4, <2>4, <2>5, Zenon DEF SlotBytes, Raw, Offset, OnDisk
<1> QED
  BY <1>3, <1>4

(* What a page of each type holds. *)
LEMMA PageBytesByType ==
  ASSUME NEW e
  PROVE  /\ e.flags % 4 = 0 => PageBytes(e) = SlotBytes(e)
         /\ e.flags % 4 = 1 => PageBytes(e) = Expansion(SlotBytes(e))
         /\ e.flags % 4 = 3 => PageBytes(e) = <<>>
<1> DEFINE t == e.flags % 4
<1>1. PageBytes(e) = CASE t = 0 -> SlotBytes(e) [] t = 1 -> Expansion(SlotBytes(e)) [] OTHER -> <<>>
  BY Zenon DEF PageBytes
<1>2. 0 # 1 /\ 3 # 0 /\ 3 # 1
  OBVIOUS
<1> HIDE DEF t
<1>3. t = 0 => PageBytes(e) = SlotBytes(e)
  BY <1>1, <1>2, Zenon
<1>4. t = 1 => PageBytes(e) = Expansion(SlotBytes(e))
  BY <1>1, <1>2, Zenon
<1>5. t = 3 => PageBytes(e) = <<>>
  BY <1>1, <1>2, Zenon
<1> QED
  BY <1>3, <1>4, <1>5 DEF t

LEMMA SamePages ==
  ASSUME UNCHANGED <<file, number>>
  PROVE  /\ PageSize' = PageSize /\ Object' = Object /\ file'.pages = file.pages
         /\ \A e : SlotBytes(e)' = SlotBytes(e) /\ PageBytes(e)' = PageBytes(e)
<1>1. PageSize' = PageSize /\ Object' = Object /\ ModulePages' = ModulePages
  BY DEF PageSize, Object, ModulePages
<1>2. \A e : SlotBytes(e)' = SlotBytes(e)
  BY <1>1, Zenon DEF SlotBytes
<1>3. \A e : PageBytes(e)' = PageBytes(e)
  BY <1>2, Zenon DEF PageBytes
<1> QED
  BY <1>1, <1>2, <1>3

LEMMA SameEntry ==
  ASSUME UNCHANGED <<file, number, done>>
  PROVE  Entry' = Entry /\ Type' = Type /\ SlotBytes(Entry)' = SlotBytes(Entry)
<1>1. Entry' = Entry
  BY SamePages DEF Entry, Row
<1>2. Type' = Type
  BY <1>1 DEF Type
<1>3. SlotBytes(Entry)' = SlotBytes(Entry)
  BY <1>1, Zenon DEF SlotBytes, PageSize, ModulePages
<1> QED
  BY <1>1, <1>2, <1>3

(* The decoding of one page. *)
LEMMA IteratedDecodes ==
  ASSUME IInv, IteratedPage
  PROVE  DecodedSoFar'
<1>1. Reading /\ Stored /\ Type = 1 /\ src' = Raw /\ p' = 0 /\ page' = <<>> /\ phase' = "blocks"
      /\ UNCHANGED <<file, number, done, image>>
  BY DEF IteratedPage
<1>2. Raw \in Seq(Byte) /\ SlotBytes(Entry) = Raw
  BY <1>1, RawFacts, SlotIsRaw
<1>3. Type' = 1 /\ src' = SlotBytes(Entry)' /\ PageSize' = PageSize /\ PageSize > 0
  BY <1>1, <1>2, SameEntry, SamePages, FileFacts DEF IInv, TypeOK
<1>4. p' <= Len(src') /\ 0 \in 0 .. Len(src')
  BY <1>1, <1>2
<1>5. Expansion(src') = page' \o Unread'
  <2>1. Unread' = ExpansionFrom(src', 0) /\ Expansion(src') = ExpansionFrom(src', 0)
    BY <1>1 DEF Unread, Expansion
  <2>2. ExpansionFrom(src', 0) \in Seq(Byte)
    BY <1>1, <1>2, <1>4, ExpansionUnfolds
  <2>3. <<>> \o ExpansionFrom(src', 0) = ExpansionFrom(src', 0)
    BY <2>2, ConcatEmptySeq
  <2> QED
    BY <1>1, <2>1, <2>3, Zenon
<1> QED
  BY <1>1, <1>3, <1>4, <1>5 DEF DecodedSoFar

LEMMA ReadBlockDecodes ==
  ASSUME IInv, DecodedSoFar, ReadBlock
  PROVE  DecodedSoFar'
<1>1. /\ phase = "blocks" /\ p + 4 <= Len(src) /\ Len(page) < PageSize
      /\ Iterations # 0 /\ Length # 0 /\ p + 4 + Length <= Len(src)
      /\ block' = SubSeq(src, p + 5, p + 4 + Length)
      /\ left' = Iterations /\ p' = p + 4 + Length /\ phase' = "repeat"
      /\ UNCHANGED <<file, number, done, image, src, page>>
  BY DEF ReadBlock, AtBlock, BlockOK
<1>2. src \in Seq(Byte) /\ p \in Nat /\ p \in 0 .. Len(src)
  BY <1>1 DEF IInv, TypeOK, DecodedSoFar
<1>3. WholeBlock(src, p)
  BY <1>1 DEF WholeBlock, Iterations, Length
<1>4. p' = After(src, p) /\ block' = BlockBytes(src, p) /\ left' = WordOf(src, p)
  BY <1>1 DEF After, BlockBytes, Iterations, Length
<1>5. Unread = Rounds(block', left') \o Unread'
  <2>1. Unread' = ExpansionFrom(src, After(src, p))
    BY <1>1, <1>4 DEF Unread
  <2>2. Unread = Expanded(src, p) \o ExpansionFrom(src, After(src, p))
    BY <1>2, <1>3, ExpansionUnfolds DEF Unread
  <2>3. Expanded(src, p) = Rounds(block', left')
    BY <1>4, Zenon DEF Expanded
  <2> QED
    BY <2>1, <2>2, <2>3, Zenon
<1>6. Expansion(src) = page \o Unread /\ Type = 1 /\ src = SlotBytes(Entry)
  BY <1>1 DEF DecodedSoFar
<1>7. Expansion(src') = page' \o (Rounds(block', left') \o Unread')
  BY <1>1, <1>5, <1>6
<1>8. block' # <<>> /\ p' <= Len(src')
  <2>1. Len(BlockBytes(src, p)) # 0 /\ After(src, p) <= Len(src)
    BY <1>2, <1>3, BlockFacts DEF After
  <2>2. BlockBytes(src, p) # <<>>
    BY <2>1
  <2>3. p' <= Len(src')
    BY <1>1, <1>4, <2>1, Zenon
  <2> QED
    BY <1>4, <2>2, <2>3, Zenon
<1>9. Type' = 1 /\ src' = SlotBytes(Entry)' /\ PageSize' = PageSize
  BY <1>1, <1>6, SameEntry, SamePages
<1> QED
  BY <1>1, <1>7, <1>8, <1>9 DEF DecodedSoFar

(* A page that takes the beginning of what is still to come. *)
LEMMA TakeOne ==
  ASSUME NEW x \in Seq(Byte), NEW s \in Seq(Byte), NEW r \in Seq(Byte),
         NEW t \in 0 .. Len(s)
  PROVE  /\ IsPrefix(x \o SubSeq(s, 1, t), x \o (s \o r))
         /\ t = Len(s) => x \o (s \o r) = (x \o SubSeq(s, 1, t)) \o r
<1> DEFINE u == SubSeq(s, 1, t)
           y == x \o u
           z == x \o (s \o r)
<1>1. u \in Seq(Byte) /\ Len(u) = t /\ \A i \in 1 .. t : u[i] = s[i]
  OBVIOUS
<1>2. Len(x) \in Nat /\ Len(s) \in Nat /\ Len(r) \in Nat
  OBVIOUS
<1> HIDE DEF u
<1>3. y \in Seq(Byte) /\ Len(y) = Len(x) + t
      /\ \A i \in 1 .. Len(x) + t : y[i] = IF i <= Len(x) THEN x[i] ELSE u[i - Len(x)]
  BY <1>1, ConcatProperties
<1>4. s \o r \in Seq(Byte) /\ Len(s \o r) = Len(s) + Len(r)
      /\ \A i \in 1 .. Len(s) + Len(r) : (s \o r)[i] = IF i <= Len(s) THEN s[i] ELSE r[i - Len(s)]
  BY ConcatProperties
<1> DEFINE v == s \o r
<1> HIDE DEF v
<1>5. z \in Seq(Byte) /\ Len(z) = Len(x) + Len(v)
      /\ \A i \in 1 .. Len(x) + Len(v) : z[i] = IF i <= Len(x) THEN x[i] ELSE v[i - Len(x)]
  BY <1>4, ConcatProperties DEF v
<1> HIDE DEF y, z
<1>6. Len(y) <= Len(z) /\ Len(y) \in Nat
  BY <1>2, <1>3, <1>4, <1>5 DEF v
<1>7. \A i \in 1 .. Len(y) : y[i] = z[i]
  <2> SUFFICES ASSUME NEW i \in 1 .. Len(y)
               PROVE  y[i] = z[i]
    OBVIOUS
  <2>1. i \in 1 .. Len(x) + t /\ i \in 1 .. Len(x) + Len(v)
    BY <1>3, <1>5, <1>6
  <2>2. CASE i <= Len(x)
    BY <1>3, <1>5, <2>1, <2>2
  <2>3. CASE i > Len(x)
    <3>1. i - Len(x) \in 1 .. t /\ i - Len(x) \in 1 .. Len(s) + Len(r) /\ i - Len(x) <= Len(s)
      BY <1>2, <2>1, <2>3
    <3>2. y[i] = s[i - Len(x)] /\ z[i] = s[i - Len(x)]
      BY <1>1, <1>2, <1>3, <1>4, <1>5, <2>1, <2>3, <3>1 DEF v
    <3> QED
      BY <3>2
  <2> QED
    BY <1>2, <2>1, <2>2, <2>3
<1>8. IsPrefix(y, z)
  <2>1. SubSeq(y, 1, Len(y)) = SubSeq(z, 1, Len(y))
    BY <1>3, <1>5, <1>6, <1>7
  <2> QED
    BY <1>6, <2>1 DEF IsPrefix
<1>9. ASSUME t = Len(s)
      PROVE  z = y \o r
  <2>1. u = s
    <3>1. SubSeq(s, 1, Len(s)) = s
      BY SubSeqFull
    <3> QED
      BY <1>9, <3>1 DEF u
  <2>2. (x \o s) \o r = x \o (s \o r)
    BY ConcatAssociative, SMTT(30)
  <2> QED
    BY <2>1, <2>2 DEF y, z
<1> QED
  BY <1>8, <1>9 DEF u, y, z

LEMMA RepeatDecodes ==
  ASSUME IInv, DecodedSoFar, Repeat
  PROVE  DecodedSoFar'
<1> DEFINE E == Expansion(src)
<1>1. /\ phase = "repeat" /\ UNCHANGED <<file, number, done, image, src, p, block>>
      /\ phase' \in {"blocks", "repeat"}
  BY DEF Repeat
<1>2. /\ page \in Seq(Byte) /\ block \in Seq(Byte) /\ left \in Nat /\ src \in Seq(Byte)
      /\ Len(page) <= PageSize /\ PageSize \in Nat /\ p \in 0 .. Len(src)
  BY <1>1, FileFacts DEF IInv, TypeOK, PageFrame, DecodedSoFar
<1>3. Type' = 1 /\ src' = SlotBytes(Entry)' /\ PageSize' = PageSize /\ p' <= Len(src')
      /\ Unread' = Unread /\ Expansion(src') = E /\ block # <<>> /\ block' = block
  <2>1. Type = 1 /\ src = SlotBytes(Entry) /\ block # <<>> /\ p <= Len(src)
    BY <1>1 DEF DecodedSoFar
  <2> QED
    BY <1>1, <2>1, SameEntry, SamePages DEF Unread
<1>4. Unread \in Seq(Byte)
  BY <1>2, ExpansionUnfolds DEF Unread
<1>5. /\ Len(page) < PageSize => E = page \o (Rounds(block, left) \o Unread)
      /\ ~(Len(page) < PageSize) => IsPrefix(page, E)
  BY <1>1 DEF DecodedSoFar
<1> HIDE DEF E
<1>6. CASE left = 0 \/ Len(page) >= PageSize
  <2>1. UNCHANGED <<left, page>> /\ phase' = "blocks"
    BY <1>6 DEF Repeat
  <2>2. ASSUME Len(page) < PageSize
        PROVE  E = page \o Unread
    <3>1. left = 0
      BY <1>2, <1>6, <2>2
    <3>2. Rounds(block, left) = <<>>
      BY <1>2, <3>1, RoundsNone
    <3>3. <<>> \o Unread = Unread
      BY <1>4, ConcatEmptySeq
    <3> QED
      BY <1>5, <2>2, <3>2, <3>3
  <2> QED
    BY <1>3, <1>5, <2>1, <2>2 DEF DecodedSoFar
<1>7. CASE ~(left = 0 \/ Len(page) >= PageSize)
  <2> DEFINE take == Least(Len(block), PageSize - Len(page))
             rest == Rounds(block, left - 1) \o Unread
  <2>1. page' = page \o SubSeq(block, 1, take) /\ left' = left - 1 /\ phase' = "repeat"
    BY <1>1, <1>7 DEF Repeat
  <2>2. take \in 0 .. Len(block) /\ (take = Len(block) \/ take = PageSize - Len(page))
    BY <1>2, <1>7 DEF Least
  <2> HIDE DEF take
  <2>3. Rounds(block, left - 1) \in Seq(Byte) /\ Rounds(block, left) = block \o Rounds(block, left - 1)
    <3>1. left - 1 \in Nat /\ (left - 1) + 1 = left
      BY <1>2, <1>7
    <3> QED
      BY <1>2, <1>3, <3>1, RoundsMore, RoundsType
  <2>4. rest \in Seq(Byte)
    BY <1>4, <2>3, ConcatProperties
  <2>5. E = page \o (block \o rest)
    <3>1. Rounds(block, left) \o Unread = block \o rest
      <4> DEFINE R == Rounds(block, left - 1)
      <4> HIDE DEF R
      <4>1. R \in Seq(Byte) /\ Rounds(block, left) = block \o R /\ rest = R \o Unread
        BY <2>3 DEF R
      <4>2. (block \o R) \o Unread = block \o (R \o Unread)
        <5>1. \A x, y, z \in Seq(Byte) : (x \o y) \o z = x \o (y \o z)
          BY ConcatAssociative
        <5>2. block \in Seq(Byte) /\ R \in Seq(Byte) /\ Unread \in Seq(Byte)
          BY <1>2, <1>4, <4>1
        <5> QED
          BY <5>1, <5>2, Zenon
      <4> QED
        BY <4>1, <4>2, Zenon
    <3>2. Len(page) < PageSize
      BY <1>2, <1>7
    <3> QED
      BY <1>5, <3>1, <3>2
  <2> HIDE DEF rest
  <2>6. IsPrefix(page', E) /\ (take = Len(block) => E = page' \o rest)
    <3>1. \A x, s, r \in Seq(Byte) : \A t \in 0 .. Len(s) :
            /\ IsPrefix(x \o SubSeq(s, 1, t), x \o (s \o r))
            /\ t = Len(s) => x \o (s \o r) = (x \o SubSeq(s, 1, t)) \o r
      BY TakeOne
    <3> DEFINE y == page \o SubSeq(block, 1, take)
    <3>2. /\ IsPrefix(y, page \o (block \o rest))
          /\ take = Len(block) => page \o (block \o rest) = y \o rest
      <4>1. page \in Seq(Byte) /\ block \in Seq(Byte) /\ take \in 0 .. Len(block)
        BY <1>2, <2>2
      <4> QED
        BY <4>1, <2>4, <3>1, Zenon
    <3> HIDE DEF y
    <3> QED
      BY <2>1, <2>5, <3>2 DEF y
  <2>7. Len(page') < PageSize => take = Len(block)
    <3>1. SubSeq(block, 1, take) \in Seq(Byte) /\ Len(SubSeq(block, 1, take)) = take
      BY <1>2, <2>2
    <3>2. Len(page') = Len(page) + take
      BY <1>2, <2>1, <3>1, ConcatProperties
    <3> QED
      BY <1>2, <2>2, <3>2
  <2>8. Len(page') < PageSize => E = page' \o (Rounds(block, left') \o Unread)
    BY <2>1, <2>6, <2>7 DEF rest
  <2> QED
    BY <1>3, <2>1, <2>6, <2>8 DEF DecodedSoFar
<1> QED
  BY <1>6, <1>7

(* The finished page begins as the expansion of its stored bytes does. *)
LEMMA PageDecoded ==
  ASSUME IInv, DecodedSoFar, EndPage, NEW b \in 0 .. PageSize - 1
  PROVE  ByteOf(page, b) = ByteOf(PageBytes(Entry), b)
<1> DEFINE E == Expansion(src)
<1>1. phase = "blocks" /\ (AtBlock => Iterations = 0) /\ Type = 1 /\ src = SlotBytes(Entry)
  BY DEF EndPage, DecodedSoFar
<1>2. /\ page \in Seq(Byte) /\ src \in Seq(Byte) /\ PageSize \in Nat
      /\ Len(page) <= PageSize /\ p \in 0 .. Len(src)
  BY <1>1, FileFacts DEF IInv, TypeOK, PageFrame, DecodedSoFar
<1>3. PageBytes(Entry) = E
  BY <1>1, PageBytesByType DEF Type
<1>4. E \in Seq(Byte)
  <2>1. 0 \in 0 .. Len(src)
    BY <1>2
  <2> QED
    BY <1>2, <2>1, ExpansionUnfolds DEF Expansion
<1>5. CASE Len(page) < PageSize
  <2>1. ~WholeBlock(src, p)
    BY <1>1, <1>5 DEF AtBlock, Iterations, WholeBlock
  <2>2. Unread = <<>>
    BY <1>2, <2>1, ExpansionUnfolds DEF Unread
  <2>3. E = page \o Unread
    BY <1>1, <1>5 DEF DecodedSoFar
  <2>4. page \o <<>> = page
    BY <1>2, ConcatEmptySeq
  <2> QED
    BY <1>3, <2>2, <2>3, <2>4
<1>6. CASE ~(Len(page) < PageSize)
  <2>1. IsPrefix(page, E)
    BY <1>1, <1>6 DEF DecodedSoFar
  <2> HIDE DEF E
  <2>2. Len(page) = PageSize /\ Len(page) <= Len(E) /\ Len(E) \in Nat /\ Len(page) \in Nat
    BY <1>2, <1>4, <1>6, <2>1 DEF IsPrefix
  <2>3. SubSeq(page, 1, Len(page)) = SubSeq(E, 1, Len(page))
    BY <2>1 DEF IsPrefix
  <2>4. \A i \in 1 .. Len(page) : page[i] = SubSeq(page, 1, Len(page))[i] /\ E[i] = SubSeq(E, 1, Len(page))[i]
    BY <1>2, <1>4, <2>2
  <2>5. b < Len(page) /\ b < Len(E) /\ b + 1 \in 1 .. Len(page)
    BY <2>2
  <2>6. page[b + 1] = E[b + 1]
    BY <2>3, <2>4, <2>5
  <2> QED
    BY <1>3, <2>5, <2>6 DEF ByteOf
<1> QED
  BY <1>5, <1>6

(* A page appended is the page its row stands for. *)
LEMMA AddPageShows ==
  ASSUME IInv, PagesSoFar, NEW bytes \in Seq(Byte), AddPage(bytes),
         phase \in {"pages", "blocks"}, done < Object.count,
         \A b \in 0 .. PageSize - 1 : ByteOf(bytes, b) = ByteOf(PageBytes(Entry), b)
  PROVE  PagesSoFar' /\ DecodedSoFar' /\ ImageIsPages'
<1> DEFINE w == PageSize
           R == Resize(bytes, w)
<1>1. image' = image \o R /\ done' = done + 1 /\ phase' = "pages"
      /\ UNCHANGED <<file, number>>
  BY DEF AddPage
<1>2. file \in Files /\ done \in Nat /\ image \in Seq(Byte) /\ Len(image) = done * w
      /\ w \in Nat \ {0}
  BY FileFacts DEF IInv, TypeOK, PageFrame
<1>3. R \in Seq(Byte) /\ Len(R) = w /\ \A b \in 0 .. w - 1 : R[b + 1] = ByteOf(bytes, b)
  <2>1. R \in Seq(Byte) /\ Len(R) = w
    BY <1>2, ResizeFacts
  <2>2. ASSUME NEW b \in 0 .. w - 1
        PROVE  R[b + 1] = ByteOf(bytes, b)
    <3>1. b + 1 \in 1 .. w /\ Len(bytes) \in Nat /\ (b + 1 <= Len(bytes) <=> ~(b >= Len(bytes)))
      BY <1>2
    <3> QED
      BY <3>1 DEF Resize, ByteOf
  <2> QED
    BY <2>1, <2>2
<1>4. Entry = file.pages[Object.first + done]
  BY EntryFacts
<1>5. PageSize' = w /\ Object' = Object /\ file'.pages = file.pages
      /\ \A e : PageBytes(e)' = PageBytes(e)
  BY <1>1, SamePages
<1>6. \A j \in 0 .. done - 1, b \in 0 .. w - 1 :
        image[j * w + b + 1] = ByteOf(PageBytes(file.pages[Object.first + j]), b)
  BY DEF IInv, PagesSoFar
<1> HIDE DEF w, R
<1>7. \A i \in 1 .. Len(image) + w :
        image'[i] = IF i <= Len(image) THEN image[i] ELSE R[i - Len(image)]
  BY <1>1, <1>2, <1>3, ConcatProperties
<1>8. ASSUME NEW j \in 0 .. done, NEW b \in 0 .. w - 1
      PROVE  image'[j * w + b + 1] = ByteOf(PageBytes(file.pages[Object.first + j]), b)
  <2> DEFINE n == j * w
             m == done * w
  <2>1. n \in Nat /\ m \in Nat
    BY <1>2
  <2>2. CASE j < done
    <3>1. n + b + 1 \in 1 .. m
      BY <1>2, <1>8, <2>2, PlaceInParts
    <3> HIDE DEF n, m
    <3>2. n + b + 1 \in 1 .. Len(image) + w /\ n + b + 1 <= Len(image)
      BY <1>2, <2>1, <3>1 DEF m
    <3>3. image'[n + b + 1] = image[n + b + 1]
      BY <1>7, <3>2
    <3>4. j \in 0 .. done - 1
      BY <1>2, <1>8, <2>2
    <3> QED
      BY <1>6, <1>8, <3>3, <3>4 DEF n
  <2>3. CASE j = done
    <3>1. n = m
      BY <2>3
    <3> HIDE DEF n, m
    <3>2. n + b + 1 \in 1 .. Len(image) + w /\ ~(n + b + 1 <= Len(image))
          /\ (n + b + 1) - Len(image) = b + 1
      BY <1>2, <1>8, <2>1, <3>1 DEF m
    <3>3. image'[n + b + 1] = R[b + 1]
      BY <1>7, <3>2
    <3>4. ByteOf(bytes, b) = ByteOf(PageBytes(Entry), b)
      BY <1>8 DEF w
    <3> QED
      BY <1>3, <1>4, <1>8, <2>3, <3>3, <3>4 DEF n
  <2> QED
    BY <1>2, <1>8, <2>2, <2>3
<1>9. PagesSoFar'
  <2>1. 0 .. done' - 1 = 0 .. done
    BY <1>1, <1>2
  <2> QED
    BY <1>1, <1>5, <1>8, <2>1 DEF PagesSoFar
<1>10. DecodedSoFar' /\ ImageIsPages'
  BY <1>1 DEF DecodedSoFar, ImageIsPages
<1> QED
  BY <1>9, <1>10

(* The image cut or extended to the object's size. *)
LEMMA CloseShows ==
  ASSUME IInv, PagesSoFar, CloseImage
  PROVE  ImageIsPages'
<1> DEFINE w == PageSize
           v == Object.vsize
           c == Object.count
<1>1. phase = "pages" /\ phase' = "ok" /\ done = c /\ image' = Resize(image, v)
      /\ UNCHANGED <<file, number>>
  BY DEF CloseImage
<1>2. v \in Nat /\ c \in Nat
  BY <1>1, ObjectOfBlock, ObjectFacts
<1>3. image \in Seq(Byte) /\ Len(image) = c * w /\ w \in Nat \ {0}
  BY <1>1, FileFacts DEF IInv, TypeOK, PageFrame
<1>4. image' \in Seq(Byte) /\ Len(image') = v
      /\ \A i \in 1 .. v : image'[i] = IF i <= Len(image) THEN image[i] ELSE 0
  <2>1. image' \in Seq(Byte) /\ Len(image') = v
    BY <1>1, <1>2, <1>3, ResizeFacts
  <2> QED
    BY <1>1, <2>1 DEF Resize
<1>5. PageSize' = w /\ Object' = Object /\ file'.pages = file.pages
      /\ \A e : PageBytes(e)' = PageBytes(e)
  BY <1>1, SamePages
<1>6. \A j \in 0 .. c - 1, b \in 0 .. w - 1 :
        image[j * w + b + 1] = ByteOf(PageBytes(file.pages[Object.first + j]), b)
  BY <1>1 DEF PagesSoFar
<1> HIDE DEF w, v, c
<1>7. ASSUME NEW at \in 0 .. v - 1
      PROVE  image'[at + 1] = IF at \div w >= c THEN 0
                ELSE ByteOf(PageBytes(file.pages[Object.first + (at \div w)]), at % w)
  <2> DEFINE j == at \div w
             b == at % w
             m == c * w
             n == j * w
  <2>1. at \in Nat /\ at + 1 \in 1 .. v
    BY <1>2
  <2>2. j \in Nat /\ b \in 0 .. w - 1 /\ at = n + b
    BY <1>3, <2>1, DivMod
  <2> HIDE DEF j, b
  <2>3. n \in Nat /\ m \in Nat
        /\ (j < c => n + b + 1 \in 1 .. m) /\ (j >= c => n + b + 1 > m)
    BY <1>2, <1>3, <2>2, PlaceInParts
  <2>4. Len(image) = m
    BY <1>3
  <2> HIDE DEF n, m
  <2>5. CASE j >= c
    <3>1. at + 1 > Len(image)
      BY <2>2, <2>3, <2>4, <2>5
    <3>2. image'[at + 1] = 0
      BY <1>4, <2>1, <2>3, <2>4, <3>1
    <3> QED
      BY <2>5, <3>2 DEF j
  <2>6. CASE j < c
    <3>1. at + 1 <= Len(image) /\ j \in 0 .. c - 1 /\ at + 1 = n + b + 1
      BY <1>2, <2>2, <2>3, <2>4, <2>6
    <3>2. image'[at + 1] = image[n + b + 1]
      BY <1>4, <2>1, <3>1
    <3>3. image[n + b + 1] = ByteOf(PageBytes(file.pages[Object.first + j]), b)
      BY <1>6, <2>2, <3>1 DEF n
    <3>4. ~(j >= c)
      BY <1>2, <2>2, <2>6
    <3> QED
      BY <3>2, <3>3, <3>4 DEF j, b
  <2> QED
    BY <1>2, <2>2, <2>5, <2>6
<1>8. Object'.vsize = v /\ Object'.count = c
  BY <1>5 DEF v, c
<1> QED
  BY <1>1, <1>4, <1>5, <1>7, <1>8 DEF ImageIsPages, w

(* A failed or untouched step keeps what has been shown so far. *)
LEMMA NothingNewShown ==
  ASSUME UNCHANGED <<file, number, done, image>>,
         phase' \notin {"pages", "blocks", "repeat", "ok"}
  PROVE  PagesSoFar' /\ DecodedSoFar' /\ ImageIsPages'
BY DEF PagesSoFar, DecodedSoFar, ImageIsPages

LEMMA SameImageShown ==
  ASSUME PagesSoFar, UNCHANGED <<file, number, done, image>>,
         phase \in {"pages", "blocks", "repeat"}, phase' \in {"blocks", "repeat"}
  PROVE  PagesSoFar' /\ ImageIsPages'
<1>1. PagesSoFar'
  BY SamePages DEF PagesSoFar
<1> QED
  BY <1>1 DEF ImageIsPages

LEMMA StepShows ==
  ASSUME PageInv, Next
  PROVE  PagesSoFar' /\ DecodedSoFar' /\ ImageIsPages'
<1> USE DEF PageInv
<1>1. ASSUME NEW o \in Failures, End(o)
      PROVE  PagesSoFar' /\ DecodedSoFar' /\ ImageIsPages'
  BY <1>1, NothingNewShown DEF End, Failures
<1>2. CASE RefuseObjects \/ NoSuchObject \/ RefusePage \/ CorruptBlock
  <2>1. \E o \in Failures : End(o)
    BY <1>2 DEF RefuseObjects, NoSuchObject, RefusePage, CorruptBlock, Failures
  <2> QED
    BY <1>1, <2>1
<1>3. CASE FindObject
  <2>1. phase' = "pages" /\ done' = 0
    BY <1>3 DEF FindObject, End, IInv, InBlock
  <2> QED
    BY <2>1 DEF PagesSoFar, DecodedSoFar, ImageIsPages
<1>4. CASE ZeroPage
  <2>1. Type = 3 /\ AddPage(<<>>) /\ Reading
    BY <1>4 DEF ZeroPage
  <2>2. PageBytes(Entry) = <<>> /\ <<>> \in Seq(Byte)
    BY <2>1, PageBytesByType DEF Type
  <2> QED
    BY <2>1, <2>2, AddPageShows DEF Reading
<1>5. CASE LegalPage
  <2>1. Type = 0 /\ AddPage(Raw) /\ Reading /\ Stored
    BY <1>5 DEF LegalPage
  <2>2. PageBytes(Entry) = Raw /\ Raw \in Seq(Byte)
    BY <2>1, PageBytesByType, RawFacts, SlotIsRaw DEF Type
  <2> QED
    BY <2>1, <2>2, AddPageShows DEF Reading
<1>6. CASE IteratedPage
  BY <1>6, IteratedDecodes, SameImageShown DEF IteratedPage, Reading
<1>7. CASE ReadBlock
  BY <1>7, ReadBlockDecodes, SameImageShown DEF ReadBlock, AtBlock
<1>8. CASE Repeat
  BY <1>8, RepeatDecodes, SameImageShown DEF Repeat
<1>9. CASE EndPage
  <2>1. AddPage(page) /\ phase = "blocks" /\ page \in Seq(Byte) /\ done < Object.count
    BY <1>9 DEF EndPage, IInv, TypeOK, InBlock
  <2> QED
    BY <1>9, <2>1, PageDecoded, AddPageShows
<1>10. CASE CloseImage
  BY <1>10, CloseShows DEF CloseImage, PagesSoFar, DecodedSoFar
<1> QED
  BY <1>2, <1>3, <1>4, <1>5, <1>6, <1>7, <1>8, <1>9, <1>10 DEF Next

LEMMA StutterShows ==
  ASSUME PageInv, UNCHANGED vars
  PROVE  PagesSoFar' /\ DecodedSoFar' /\ ImageIsPages'
<1>1. UNCHANGED <<file, number, phase, done, image, src, p, block, left, page>>
  BY DEF vars, decodeVars
<1>2. PagesSoFar'
  BY <1>1, SamePages DEF PageInv, PagesSoFar
<1>3. DecodedSoFar'
  BY <1>1, SameEntry, SamePages DEF PageInv, DecodedSoFar, Unread
<1>4. ImageIsPages'
  BY <1>1, SamePages DEF PageInv, ImageIsPages
<1> QED
  BY <1>2, <1>3, <1>4

LEMMA AlwaysPageInv == Spec => []PageInv
<1>1. Init => PageInv
  BY InitIInv DEF Init, PageInv, PagesSoFar, DecodedSoFar, ImageIsPages
<1>2. PageInv /\ [Next]_vars => PageInv'
  BY StepIInv, StutterIInv, StepShows, StutterShows DEF PageInv
<1> QED
  BY <1>1, <1>2, PTL DEF Spec

(***************************************************************************)
(* object_image returns the object's bytes: page after page, each one zero *)
(* for a zero-filled page, the stored bytes for a plain one and the blocks *)
(* repeated in full for an iterated one, padded to a whole page, and the   *)
(* whole cut or zero-extended to the virtual size.                         *)
(***************************************************************************)
THEOREM ImageOfObject == Spec => []ImageIsPages
BY AlwaysPageInv, PTL DEF PageInv
-----------------------------------------------------------------------------
(* The work that is left. *)

Missing == Object.count - done

Unexpanded == Len(src) - p

Sizes ==
  /\ phase \in {"pages", "blocks", "repeat"} => Missing \in Nat
  /\ phase \in {"blocks", "repeat"} => Missing >= 1 /\ Unexpanded \in Nat /\ left \in Nat

LEMMA SizesHold == PageInv => Sizes
<1> SUFFICES ASSUME PageInv
             PROVE  Sizes
  OBVIOUS
<1>1. ASSUME phase \in {"pages", "blocks", "repeat"}
      PROVE  Missing \in Nat
  <2>1. done \in Nat /\ Object.count \in Nat /\ done <= Object.count
    BY <1>1, ObjectOfBlock, ObjectFacts DEF PageInv, IInv, TypeOK
  <2> QED
    BY <2>1 DEF Missing
<1>2. ASSUME phase \in {"blocks", "repeat"}
      PROVE  Missing >= 1 /\ Unexpanded \in Nat /\ left \in Nat
  <2>1. done \in Nat /\ Object.count \in Nat /\ done < Object.count
    BY <1>2, ObjectOfBlock, ObjectFacts DEF PageInv, IInv, TypeOK, InBlock
  <2>2. p \in Nat /\ left \in Nat /\ Len(src) \in Nat /\ p <= Len(src)
    BY <1>2 DEF PageInv, IInv, TypeOK, DecodedSoFar
  <2> QED
    BY <2>1, <2>2 DEF Missing, Unexpanded
<1> QED
  BY <1>1, <1>2 DEF Sizes

LEMMA SizesNext == PageInv' => Sizes'
BY SizesHold, PTL

Values ==
  /\ phase = "start" => WorkLeft = <<2, 0, 0, 0>>
  /\ phase = "pages" => WorkLeft = <<1, 2 * Missing, 0, 0>>
  /\ phase = "blocks" => WorkLeft = <<1, 2 * Missing - 1, Unexpanded, 0>>
  /\ phase = "repeat" => WorkLeft = <<1, 2 * Missing - 1, Unexpanded, left + 1>>
  /\ phase \notin {"start", "pages", "blocks", "repeat"} => WorkLeft = <<0, 0, 0, 0>>

LEMMA WorkValues == Values
<1>1. phase = "start" => WorkLeft = <<2, 0, 0, 0>>
  BY Zenon DEF WorkLeft
<1>2. phase = "pages" => WorkLeft = <<1, 2 * Missing, 0, 0>>
  BY Zenon DEF WorkLeft, Missing
<1>3. phase = "blocks" => WorkLeft = <<1, 2 * Missing - 1, Unexpanded, 0>>
  BY Zenon DEF WorkLeft, Missing, Unexpanded
<1>4. phase = "repeat" => WorkLeft = <<1, 2 * Missing - 1, Unexpanded, left + 1>>
  BY Zenon DEF WorkLeft, Missing, Unexpanded
<1>5. phase \notin {"start", "pages", "blocks", "repeat"} => WorkLeft = <<0, 0, 0, 0>>
  BY Zenon DEF WorkLeft
<1> QED
  BY <1>1, <1>2, <1>3, <1>4, <1>5 DEF Values

(* The places of the measure before a step. *)
LEMMA PlacesNow ==
  ASSUME Sizes, Values, phase \in {"start", "pages", "blocks", "repeat"}
  PROVE  \E x, y, z, w \in Nat :
           /\ WorkLeft = <<x, y, z, w>>
           /\ phase = "start" => x = 2
           /\ phase # "start" => x = 1
           /\ phase = "pages" => y = 2 * Missing
           /\ phase \in {"blocks", "repeat"} => y = 2 * Missing - 1 /\ z = Unexpanded
           /\ phase = "blocks" => w = 0
           /\ phase = "repeat" => w = left + 1
<1>1. 0 \in Nat /\ 1 \in Nat /\ 2 \in Nat
  OBVIOUS
<1>2. CASE phase = "start"
  BY <1>1, <1>2 DEF Values
<1>3. CASE phase = "pages"
  <2>1. 2 * Missing \in Nat
    BY <1>3 DEF Sizes
  <2> QED
    BY <1>1, <1>3, <2>1 DEF Values
<1>4. CASE phase \in {"blocks", "repeat"}
  <2>1. 2 * Missing - 1 \in Nat /\ Unexpanded \in Nat /\ left + 1 \in Nat
    BY <1>4 DEF Sizes
  <2> QED
    BY <1>1, <1>4, <2>1 DEF Values
<1> QED
  BY <1>2, <1>3, <1>4

(***************************************************************************)
(* An iteration of object_image or decode_iterated leaves less to do, also *)
(* one that adds no byte (a block of length zero or repeated no time); so  *)
(* none is without effect.                                                 *)
(***************************************************************************)
THEOREM StepShrinks ==
  ASSUME PageInv, PageInv', Next
  PROVE  Descends(4, WorkLeft', WorkLeft)
<1>1. Sizes /\ Sizes' /\ Values /\ Values'
  BY SizesHold, SizesNext, WorkValues, PTL
<1>2. phase \in {"start", "pages", "blocks", "repeat"}
  BY DEF Next, RefuseObjects, NoSuchObject, FindObject, ZeroPage, LegalPage, IteratedPage,
         RefusePage, Reading, ReadBlock, CorruptBlock, AtBlock, Repeat, EndPage, CloseImage
<1>3. PICK x, y, z, w \in Nat :
        /\ WorkLeft = <<x, y, z, w>>
        /\ phase = "start" => x = 2
        /\ phase # "start" => x = 1
        /\ phase = "pages" => y = 2 * Missing
        /\ phase \in {"blocks", "repeat"} => y = 2 * Missing - 1 /\ z = Unexpanded
        /\ phase = "blocks" => w = 0
        /\ phase = "repeat" => w = left + 1
  BY <1>1, <1>2, PlacesNow
<1>4. \A a, b, c, d \in Nat :
        \/ a < x
        \/ a = x /\ b < y
        \/ a = x /\ b = y /\ c < z
        \/ a = x /\ b = y /\ c = z /\ d < w
        => Descends(4, <<a, b, c, d>>, WorkLeft)
  <2> SUFFICES ASSUME NEW a \in Nat, NEW b \in Nat, NEW c \in Nat, NEW d \in Nat,
                      \/ a < x
                      \/ a = x /\ b < y
                      \/ a = x /\ b = y /\ c < z
                      \/ a = x /\ b = y /\ c = z /\ d < w
               PROVE  Descends(4, <<a, b, c, d>>, WorkLeft)
    OBVIOUS
  <2>1. Descends(4, <<a, b, c, d>>, <<x, y, z, w>>)
    BY Descends4
  <2> QED
    BY <1>3, <2>1
<1>5. x \in {1, 2} /\ 0 \in Nat /\ 1 \in Nat
  BY <1>3
<1>6. CASE phase' \notin {"start", "pages", "blocks", "repeat"}
  <2>1. WorkLeft' = <<0, 0, 0, 0>>
    BY <1>1, <1>6 DEF Values
  <2> QED
    BY <1>4, <1>5, <2>1
<1>7. CASE phase = "start" /\ phase' = "pages"
  <2>1. WorkLeft' = <<1, 2 * Missing', 0, 0>>
    BY <1>1, <1>7 DEF Values
  <2>2. 2 * Missing' \in Nat /\ 1 < x
    BY <1>1, <1>3, <1>7 DEF Sizes
  <2> QED
    BY <1>4, <1>5, <2>1, <2>2
<1>8. ASSUME UNCHANGED <<file, number>>
      PROVE  Object' = Object
  BY <1>8, SameObjects
<1>9. CASE phase \in {"pages", "blocks"} /\ (\E bytes : AddPage(bytes))
  <2>1. phase' = "pages" /\ done' = done + 1 /\ UNCHANGED <<file, number>>
    BY <1>9 DEF AddPage
  <2>2. done \in Nat /\ Object.count \in Nat
    BY <1>9, ObjectOfBlock, ObjectFacts DEF PageInv, IInv, TypeOK
  <2>3. Missing' = Missing - 1
    BY <1>8, <2>1, <2>2 DEF Missing
  <2>4. WorkLeft' = <<1, 2 * Missing', 0, 0>>
    BY <1>1, <2>1 DEF Values
  <2>5. 2 * Missing' \in Nat /\ 2 * Missing' < y /\ x = 1
    BY <1>1, <1>3, <1>9, <2>1, <2>3 DEF Sizes
  <2> QED
    BY <1>4, <1>5, <2>4, <2>5
<1>10. CASE IteratedPage
  <2>1. phase = "pages" /\ phase' = "blocks" /\ UNCHANGED <<file, number, done>>
    BY <1>10 DEF IteratedPage, Reading
  <2>2. Missing' = Missing
    BY <1>8, <2>1 DEF Missing
  <2>3. WorkLeft' = <<1, 2 * Missing' - 1, Unexpanded', 0>>
    BY <1>1, <2>1 DEF Values
  <2>4. 2 * Missing' - 1 \in Nat /\ 2 * Missing' - 1 < y /\ Unexpanded' \in Nat /\ x = 1
    BY <1>1, <1>3, <2>1, <2>2 DEF Sizes
  <2> QED
    BY <1>4, <1>5, <2>3, <2>4
<1>11. CASE ReadBlock
  <2>1. /\ phase = "blocks" /\ phase' = "repeat" /\ UNCHANGED <<file, number, done, src>>
        /\ p' = p + 4 + Length /\ p + 4 <= Len(src)
    BY <1>11 DEF ReadBlock, AtBlock
  <2>2. Missing' = Missing
    BY <1>8, <2>1 DEF Missing
  <2>3. p \in Nat /\ Len(src) \in Nat /\ Length \in Nat
    <3>1. p \in Nat /\ src \in Seq(Byte)
      BY DEF PageInv, IInv, TypeOK
    <3>2. p + 2 \in Nat /\ p + 2 + 2 <= Len(src)
      BY <2>1, <3>1
    <3> QED
      BY <3>1, <3>2, WordFacts DEF Length
  <2>4. WorkLeft' = <<1, 2 * Missing' - 1, Unexpanded', left' + 1>>
    BY <1>1, <2>1 DEF Values
  <2>5. Unexpanded' \in Nat /\ left' + 1 \in Nat /\ 2 * Missing' - 1 = y /\ x = 1
    BY <1>1, <1>3, <2>1, <2>2 DEF Sizes
  <2>6. Unexpanded' < z
    BY <1>3, <2>1, <2>3 DEF Unexpanded
  <2> QED
    BY <1>4, <1>5, <2>4, <2>5, <2>6
<1>12. CASE Repeat
  <2>1. /\ phase = "repeat" /\ UNCHANGED <<file, number, done, src, p>>
        /\ \/ phase' = "blocks"
           \/ phase' = "repeat" /\ left' = left - 1
    BY <1>12 DEF Repeat
  <2>2. Missing' = Missing /\ Unexpanded' = Unexpanded
    BY <1>8, <2>1 DEF Missing, Unexpanded
  <2>3. 2 * Missing' - 1 = y /\ Unexpanded' = z /\ x = 1 /\ w = left + 1 /\ left \in Nat
    BY <1>1, <1>3, <2>1, <2>2 DEF Sizes
  <2>4. CASE phase' = "blocks"
    <3>1. WorkLeft' = <<1, y, z, 0>>
      BY <1>1, <2>3, <2>4 DEF Values
    <3> QED
      BY <1>3, <1>4, <1>5, <2>3, <3>1
  <2>5. CASE phase' = "repeat" /\ left' = left - 1
    <3>1. WorkLeft' = <<1, y, z, left' + 1>>
      BY <1>1, <2>3, <2>5 DEF Values
    <3>2. left' + 1 \in Nat /\ left' + 1 < w
      BY <1>1, <2>3, <2>5 DEF Sizes
    <3> QED
      BY <1>3, <1>4, <1>5, <2>3, <3>1, <3>2
  <2> QED
    BY <2>1, <2>4, <2>5
<1>13. CASE RefuseObjects \/ NoSuchObject \/ RefusePage \/ CorruptBlock \/ CloseImage
  <2>1. phase' \notin {"start", "pages", "blocks", "repeat"}
    BY <1>13 DEF RefuseObjects, NoSuchObject, RefusePage, CorruptBlock, CloseImage, End
  <2> QED
    BY <1>6, <2>1
<1>14. CASE FindObject
  BY <1>7, <1>14 DEF FindObject, End
<1>15. CASE ZeroPage \/ LegalPage \/ EndPage
  BY <1>9, <1>15 DEF ZeroPage, LegalPage, EndPage, Reading
<1> QED
  BY <1>10, <1>11, <1>12, <1>13, <1>14, <1>15 DEF Next

(***************************************************************************)
(* The work left only ever shrinks: by StepShrinks and NoEndlessDescent    *)
(* object_image makes finitely many iterations, whatever counts and        *)
(* lengths the blocks of an iterated page hold.                            *)
(***************************************************************************)
THEOREM DecodingShrinks == Spec => WorkShrinks
<1>1. PageInv /\ PageInv' /\ [Next]_vars => [Descends(4, WorkLeft', WorkLeft)]_vars
  BY StepShrinks
<1> QED
  BY <1>1, AlwaysPageInv, PTL DEF Spec, WorkShrinks
=============================================================================
