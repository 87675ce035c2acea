--------------------------- MODULE Extract_proofs ---------------------------
(***************************************************************************)
(* For every container, mode and selection: spans partition the body, no   *)
(* complete file is written again, and whatever ends the run leaves whole  *)
(* files of a prefix of the selection and one torn file at most.           *)
(***************************************************************************)
EXTENDS Extract, FunctionTheorems, FiniteSetTheorems, TLAPS

(***************************************************************************)
(* A set of natural numbers has a least element.  Of the initial parts     *)
(* T \cap (0 .. n), n in T, one has none of the others as a strict subset, *)
(* by the well-foundedness of inclusion on finite sets.                    *)
(***************************************************************************)
LEMMA Smallest ==
  ASSUME NEW T, T \subseteq Nat, T # {}
  PROVE  \E m \in T : \A y \in T : m <= y
<1> DEFINE Family == {T \cap (0 .. n) : n \in T}
           Sub == StrictSubsetOrdering(Nat)
           Finite == FiniteSubsetsOf(Nat)
<1>1. IsWellFoundedOn(Sub, Finite)
  BY FS_StrictSubsetOrderingWellFounded
<1>2. ASSUME NEW n \in T
      PROVE  T \cap (0 .. n) \in Finite
  <2>1. T \cap (0 .. n) \in SUBSET Nat /\ n \in Nat
        /\ \A s \in T \cap (0 .. n) : s <= n
    OBVIOUS
  <2>2. IsFiniteSet(T \cap (0 .. n))
    BY <2>1, FS_BoundedSetOfNaturals
  <2> QED
    BY <2>1, <2>2 DEF FiniteSubsetsOf
<1>3. Family \subseteq Finite /\ Family # {}
  BY <1>2
<1>4. PICK X \in Family : \A Y \in Family : ~(<<Y, X>> \in Sub)
  <2> HIDE DEF Family, Sub, Finite
  <2> QED
    BY <1>1, <1>3, WFMin
<1>5. PICK m \in T : X = T \cap (0 .. m)
  OBVIOUS
<1>6. ASSUME NEW y \in T, y < m
      PROVE  FALSE
  <2>1. T \cap (0 .. y) \in Family
    OBVIOUS
  <2>2. T \cap (0 .. y) \subseteq X /\ m \in X /\ m \notin T \cap (0 .. y)
    BY <1>5, <1>6
  <2>3. X \in SUBSET Nat /\ T \cap (0 .. y) \in SUBSET Nat
    BY <1>5
  <2>4. <<T \cap (0 .. y), X>> \in Sub
    BY <2>2, <2>3 DEF StrictSubsetOrdering
  <2> QED
    BY <2>1, <2>4, <1>4
<1> QED
  BY <1>6

LEMMA MinFacts ==
  ASSUME NEW T, T \subseteq Nat, T # {}
  PROVE  Min(T) \in T /\ \A y \in T : Min(T) <= y
BY Smallest DEF Min

LEMMA ModRange ==
  ASSUME NEW w \in Nat \ {0}, NEW x \in Int
  PROVE  x % w \in 0 .. w - 1
OBVIOUS

LEMMA ModSmall ==
  ASSUME NEW w \in Nat \ {0}, NEW x \in 0 .. w - 1
  PROVE  x % w = x
OBVIOUS
-----------------------------------------------------------------------------
(* The arguments, and what the types say of them. *)

LEMMA FileFacts ==
  ASSUME file \in Files
  PROVE  /\ file.len \in Nat /\ file.len \in Word /\ file.at \in Nat /\ Base \in Nat
         /\ file.members \in Seq(Member)
         /\ file.image \in [0 .. file.len -> ImageHead]
         /\ Len(file.members) <= Len(Numbered)
BY ArgumentsAssumption DEF FileOK, Word, Base

LEMMA MemberFacts ==
  ASSUME TypeOK, NEW i \in 1 .. Len(members)
  PROVE  /\ members[i] \in Member /\ members[i].file_offset \in Nat
         /\ At(i) \in 0 .. file.len /\ At(i) = members[i].file_offset - Base
<1>1. members[i] \in Member
  BY DEF TypeOK
<1>2. members[i].file_offset \in Word /\ WordSize \in Nat
  BY <1>1, SizesAssumption DEF Member
<1>3. At(i) \in 0 .. file.len
  BY DEF TypeOK
<1> QED
  BY <1>1, <1>2, <1>3 DEF Word, At

(* Everything that is derived from the table is unchanged with it. *)
LEMMA SameTable ==
  ASSUME UNCHANGED <<file, members>>
  PROVE  /\ Base' = Base /\ OutputRecord' = OutputRecord
         /\ \A i : At(i)' = At(i) /\ SpanStop(i)' = SpanStop(i)
                   /\ FileName(i)' = FileName(i)
BY DEF Base, OutputRecord, At, SpanStop, FileName

LEMMA SameSelection ==
  ASSUME UNCHANGED <<file, members, selected>>
  PROVE  SameName' = SameName
BY DEF SameName, FileName

LEMMA NameInPaths ==
  ASSUME TypeOK, Untouched, NEW i \in 1 .. Len(members)
  PROVE  FileName(i) \in Paths
<1>1. i \in 1 .. Len(Numbered) /\ Numbered \in Seq(STRING)
  BY FileFacts, ArgumentsAssumption DEF TypeOK, Untouched
<1>2. Numbered[i] \in ToSet(Numbered)
  BY <1>1 DEF ToSet
<1>3. members[i].stem \in Stems \cup {""}
  BY MemberFacts DEF Member
<1> QED
  BY <1>2, <1>3 DEF FileName, Paths
-----------------------------------------------------------------------------
(* The spans. *)

LEMMA SpanFacts ==
  ASSUME TypeOK, NEW i \in 1 .. Len(members)
  PROVE  /\ SpanStop(i) \in 0 .. file.len
         /\ \A j \in 1 .. Len(members) : At(j) > At(i) => SpanStop(i) <= At(j)
         /\ SpanStop(i) = file.len
            \/ \E j \in 1 .. Len(members) : At(j) > At(i) /\ SpanStop(i) = At(j)
<1> DEFINE behind == {k \in 1 .. Len(members) : At(k) > At(i)}
           stops == {file.len} \cup {At(j) : j \in behind}
<1>1. file.len \in Nat
  BY FileFacts DEF TypeOK
<1>2. \A j \in behind : At(j) \in 0 .. file.len
  BY MemberFacts
<1>3. stops \subseteq Nat /\ stops # {} /\ \A x \in stops : x \in 0 .. file.len
  BY <1>1, <1>2
<1>4. SpanStop(i) = Min(stops)
  BY DEF SpanStop
<1>5. SpanStop(i) \in stops /\ \A y \in stops : SpanStop(i) <= y
  <2> HIDE DEF stops
  <2> QED
    BY <1>3, <1>4, MinFacts
<1> QED
  BY <1>3, <1>5

(* A byte behind some start belongs to the member with the last such start. *)
LEMMA Covered ==
  ASSUME TypeOK, NEW b \in 0 .. file.len - 1,
         NEW i \in 1 .. Len(members), At(i) <= b
  PROVE  \E j \in 1 .. Len(members) : At(j) <= b /\ b < SpanStop(j)
<1> DEFINE upTo == {j \in 1 .. Len(members) : At(j) <= b}
           gaps == {b - At(j) : j \in upTo}
<1>1. file.len \in Nat /\ b \in Nat
  BY FileFacts DEF TypeOK
<1>2. \A j \in 1 .. Len(members) : At(j) \in Nat
  BY MemberFacts, <1>1
<1>3. gaps \subseteq Nat /\ gaps # {}
  BY <1>1, <1>2
<1>4. PICK m \in gaps : \A y \in gaps : m <= y
  <2> HIDE DEF gaps
  <2> QED
    BY <1>3, Smallest
<1>5. PICK j \in upTo : m = b - At(j)
  OBVIOUS
<1>6. ASSUME NEW k \in 1 .. Len(members), At(k) > At(j)
      PROVE  At(k) > b
  <2>1. CASE k \in upTo
    <3>1. m <= b - At(k)
      BY <2>1, <1>4
    <3> QED
      BY <3>1, <1>1, <1>2, <1>5, <1>6
  <2>2. CASE k \notin upTo
    BY <2>2, <1>1, <1>2
  <2> QED
    BY <2>1, <2>2
<1>7. b < SpanStop(j)
  <2>1. j \in 1 .. Len(members) /\ SpanStop(j) \in Nat
        /\ (SpanStop(j) = file.len
            \/ \E k \in 1 .. Len(members) : At(k) > At(j) /\ SpanStop(j) = At(k))
    BY <1>1, <1>5, SpanFacts
  <2> QED
    BY <2>1, <1>1, <1>6
<1> QED
  BY <1>5, <1>7

(* A torn file differs from the whole one in being torn. *)
LEMMA TornRecord ==
  ASSUME NEW r \in OutputRecord
  PROVE  LET torn == [r EXCEPT !.complete = FALSE]
         IN /\ torn \in OutputRecord /\ torn.complete = FALSE
            /\ torn.prefix = r.prefix /\ torn.from = r.from
            /\ torn.to = r.to /\ torn.data_pages = r.data_pages
BY DEF OutputRecord

(* What a member is written as. *)
LEMMA OutputFacts ==
  ASSUME TypeOK, NEW i \in 1 .. Len(members)
  PROVE  /\ Output(i) \in OutputRecord
         /\ [Output(i) EXCEPT !.complete = FALSE] \in OutputRecord
<1>1. /\ At(i) \in 0 .. file.len /\ SpanStop(i) \in 0 .. file.len
      /\ members[i].file_offset \in Nat
  BY MemberFacts, SpanFacts
<1>2. ImageAt(i) \in ImageHead
  BY <1>1, FileFacts DEF TypeOK, ImageAt
<1>3. ImageAt(i).data_pages \in Word
  BY <1>2 DEF ImageHead
<1>4. mode.prefix \in Word /\ WordSize \in Nat \ {0}
  BY ArgumentsAssumption, SizesAssumption DEF TypeOK
<1>5. Moved(i, ImageAt(i).data_pages) \in Word
  <2>1. ImageAt(i).data_pages - Shift(i) \in Int
    BY <1>1, <1>3, <1>4 DEF Shift, Word
  <2> QED
    BY <2>1, <1>4, ModRange DEF Moved, Word
<1>6. 0 \in Word
  BY <1>4 DEF Word
<1> DEFINE pre == IF mode.raw THEN 0 ELSE mode.prefix
           pages == IF mode.raw THEN ImageAt(i).data_pages
                                ELSE Moved(i, ImageAt(i).data_pages)
<1>7. pre \in Word /\ pages \in Word
  BY <1>3, <1>4, <1>5, <1>6
<1>8. Output(i) = [complete |-> TRUE, prefix |-> pre, from |-> At(i),
                   to |-> SpanStop(i), data_pages |-> pages]
  BY DEF Output
<1> HIDE DEF pre, pages
<1>10. Output(i) \in OutputRecord
  BY <1>1, <1>7, <1>8 DEF OutputRecord
<1>11. [Output(i) EXCEPT !.complete = FALSE] \in OutputRecord
  BY <1>10, TornRecord
<1> QED
  BY <1>10, <1>11
-----------------------------------------------------------------------------
(* The names of the selection, and the files that are whole. *)

NameOf(k) == FileName(selected[k])
FirstNames(n) == {NameOf(k) : k \in 1 .. n}
Whole == {path \in DOMAIN disk : disk[path].complete}

LEMMA Apart ==
  ASSUME TypeOK, ~SameName,
         NEW j \in 1 .. Len(selected), NEW k \in 1 .. Len(selected), j # k
  PROVE  NameOf(j) # NameOf(k)
<1>1. Len(selected) \in Nat
  BY DEF TypeOK
<1>2. j < k \/ k < j
  BY <1>1
<1> QED
  BY <1>2 DEF SameName, NameOf

LEMMA CountNames ==
  ASSUME TypeOK, ~SameName, NEW n \in 0 .. Len(selected)
  PROVE  Cardinality(FirstNames(n)) = n
<1> DEFINE f == [k \in 1 .. n |-> NameOf(k)]
<1>1. Len(selected) \in Nat /\ n \in Nat
  BY DEF TypeOK
<1>2. f \in [1 .. n -> FirstNames(n)]
  BY DEF FirstNames
<1>3. \A t \in FirstNames(n) : \E k \in 1 .. n : f[k] = t
  BY DEF FirstNames
<1>4. f \in Surjection(1 .. n, FirstNames(n))
  BY <1>2, <1>3, Fun_IsSurj
<1>5. \A j, k \in 1 .. n : f[j] = f[k] => j = k
  BY <1>1, Apart
<1>6. f \in Injection(1 .. n, FirstNames(n))
  BY <1>2, <1>5, Fun_IsInj
<1>7. IsFiniteSet(1 .. n) /\ Cardinality(1 .. n) = n
  BY <1>1, FS_Interval
<1> QED
  BY <1>4, <1>6, <1>7, FS_Surjection

(* The invariant, with the two sets named, of a state and of the next one. *)
Partial ==
  /\ Whole = FirstNames(next)
  /\ Cardinality(Whole) = next
  /\ (\E path \in DOMAIN disk : ~disk[path].complete) => phase = "io"
  /\ phase = "ok" => next = Len(selected)
  /\ phase \in {"past_table", "same_name"} => DOMAIN disk = {}

LEMMA PartialMeans ==
  (PartialIsPrefix <=> Partial) /\ (PartialIsPrefix' <=> Partial')
BY DEF PartialIsPrefix, Partial, Whole, FirstNames, NameOf

LEMMA SameFiles ==
  ASSUME UNCHANGED <<file, members, selected, next, disk>>
  PROVE  /\ Whole' = Whole /\ FirstNames(next)' = FirstNames(next)
         /\ SameName' = SameName
BY SameSelection DEF Whole, FirstNames, NameOf, FileName
-----------------------------------------------------------------------------
(* The steps. *)

LEMMA InitIInv ==
  ASSUME Init
  PROVE  IInv
<1>1. DOMAIN disk = {} /\ members = <<>> /\ selected = <<>> /\ next = 0
  BY DEF Init
<1>2. file \in Files /\ Len(file.members) \in Nat
  BY FileFacts DEF Init
<1>3. TypeOK
  BY <1>1 DEF Init, TypeOK
<1>4. Untouched
  BY <1>1, <1>2 DEF Init, Untouched
<1>5. NamesApart
  BY <1>1 DEF Init, NamesApart
<1>6. Whole = {} /\ FirstNames(next) = {}
  BY <1>1 DEF Whole, FirstNames
<1>7. PartialIsPrefix
  BY <1>1, <1>6, FS_EmptySet, PartialMeans DEF Init, Partial
<1> QED
  BY <1>3, <1>4, <1>5, <1>7 DEF IInv

(* A step that only changes the phase. *)
LEMMA QuietIInv ==
  ASSUME IInv, UNCHANGED <<args, members, selected, next, disk>>,
         phase \in {"members", "names", "write"},
         phase' \in Outcomes \cup {"write"},
         phase' = "write" => ~SameName,
         phase' = "ok" => next = Len(selected),
         phase' \in {"past_table", "same_name"} => phase # "write"
  PROVE  IInv'
<1>1. UNCHANGED <<file, mode, pick>> /\ phase' \notin {"members", "names"}
  BY DEF args, Outcomes, ExitCode, Refusals, HeaderErrors
<1>2. Outcomes' = Outcomes
  BY DEF Outcomes, ExitCode
<1>3. TypeOK'
  BY <1>1, <1>2, SameTable DEF IInv, TypeOK
<1>4. Untouched'
  BY <1>1 DEF IInv, Untouched
<1>5. NamesApart'
  BY <1>1, SameFiles DEF IInv, NamesApart
<1>6. phase # "write" => DOMAIN disk = {}
  BY DEF IInv, Untouched
<1>7. PartialIsPrefix'
  BY <1>1, <1>6, SameFiles, PartialMeans DEF IInv, Partial
<1> QED
  BY <1>3, <1>4, <1>5, <1>7 DEF IInv

LEMMA EndIInv ==
  ASSUME IInv, NEW o \in Outcomes, End(o),
         phase \in {"members", "names", "write"},
         o = "ok" => next = Len(selected),
         o \in {"past_table", "same_name"} => phase # "write"
  PROVE  IInv'
<1>1. UNCHANGED <<args, members, selected, next, disk>> /\ phase' = o
  BY DEF End
<1>2. o # "write"
  BY DEF Outcomes, ExitCode, Refusals, HeaderErrors
<1> QED
  BY <1>1, <1>2, QuietIInv

(* An accepted member: the table grows by an entry that lies in the body. *)
LEMMA AcceptIInv ==
  ASSUME IInv, Parsing, Len(members) < Len(file.members),
         Entry.file_offset - Base >= 0, InBody,
         members' = Append(members, Entry),
         UNCHANGED <<args, phase, selected, next, disk>>
  PROVE  IInv'
<1> DEFINE n == Len(members)
<1>1. /\ phase = "members" /\ UNCHANGED <<file, mode, pick>>
      /\ disk = [path \in {} |-> <<>>] /\ next = 0 /\ selected = <<>>
  BY DEF IInv, Untouched, Parsing, args
<1>2. /\ members \in Seq(Member) /\ n \in Nat
      /\ file.members \in Seq(Member) /\ Base \in Nat /\ file.len \in Nat
  BY FileFacts DEF IInv, TypeOK
<1>3. Entry = file.members[n + 1] /\ Entry \in Member
  BY <1>2 DEF Entry
<1>4. Entry.file_offset \in Nat /\ Entry.size \in Nat
  <2>1. Entry.file_offset \in Word /\ Entry.size \in Word /\ WordSize \in Nat
    BY <1>3, SizesAssumption DEF Member
  <2> QED
    BY <2>1 DEF Word
<1>5. Entry.file_offset - Base \in 0 .. file.len
  BY <1>2, <1>4 DEF InBody
<1>6. /\ members' \in Seq(Member) /\ Len(members') = n + 1
      /\ members'[n + 1] = Entry /\ \A i \in 1 .. n : members'[i] = members[i]
  BY <1>2, <1>3
<1>7. Base' = Base
  BY <1>1 DEF Base
<1>8. ASSUME NEW i \in 1 .. n + 1
      PROVE  members'[i].file_offset - Base \in 0 .. file.len
  <2>1. CASE i \in 1 .. n
    BY <2>1, <1>6 DEF IInv, TypeOK, At
  <2>2. CASE i = n + 1
    BY <2>2, <1>5, <1>6
  <2> QED
    BY <2>1, <2>2, <1>2
<1>9. \A i \in 1 .. Len(members') : At(i)' \in 0 .. file.len
  BY <1>6, <1>7, <1>8 DEF At
<1>10. TypeOK'
  <2>1. DOMAIN disk' = {} /\ selected' = <<>> /\ next' = 0 /\ phase' = phase
    BY <1>1
  <2>2. /\ file' \in Files /\ mode' \in Modes /\ pick' \in Picks
        /\ phase' \in {"members", "names", "write"} \cup Outcomes
    BY <1>1, <2>1 DEF IInv, TypeOK
  <2> QED
    BY <1>1, <1>6, <1>9, <2>1, <2>2 DEF TypeOK, Outcomes, ExitCode
<1>11. Untouched'
  BY <1>1, <1>2, <1>6 DEF Untouched
<1>12. NamesApart'
  BY <1>1 DEF NamesApart
<1>13. Whole' = {} /\ FirstNames(next)' = {}
  BY <1>1 DEF Whole, FirstNames
<1>14. PartialIsPrefix'
  BY <1>1, <1>13, FS_EmptySet, PartialMeans DEF Partial
<1> QED
  BY <1>10, <1>11, <1>12, <1>14 DEF IInv

LEMMA ReadMemberIInv ==
  ASSUME IInv, ReadMember
  PROVE  IInv'
<1> DEFINE start == Entry.file_offset - Base
<1>1. Parsing /\ phase = "members" /\ Len(members) < Len(file.members)
  BY DEF ReadMember, Parsing
<1>2. CASE End("w3_member_offset") \/ End("w3_member_size") \/ End("w3_member_data")
  <2>1. {"w3_member_offset", "w3_member_size", "w3_member_data"} \subseteq Outcomes
    BY DEF Outcomes, ExitCode, Refusals
  <2> QED
    BY <1>1, <1>2, <2>1, EndIInv
<1>3. CASE /\ start >= 0 /\ InBody
           /\ members' = Append(members, Entry)
           /\ UNCHANGED <<args, phase, selected, next, disk>>
  BY <1>1, <1>3, AcceptIInv
<1> QED
  BY <1>2, <1>3 DEF ReadMember

LEMMA SelectIInv ==
  ASSUME IInv, Select
  PROVE  IInv'
<1>1. phase = "members" /\ DOMAIN disk = {} /\ next = 0
  BY DEF Select, Parsing, IInv, Untouched
<1>2. CASE End("past_table")
  <2>1. "past_table" \in Outcomes
    BY DEF Outcomes, ExitCode
  <2> QED
    BY <1>1, <1>2, <2>1, EndIInv
<1>3. CASE /\ \A k \in 1 .. Len(pick) : pick[k] <= Len(members)
           /\ selected' = IF pick = <<>> THEN [i \in 1 .. Len(members) |-> i] ELSE pick
           /\ phase' = "names" /\ UNCHANGED <<args, members, next, disk>>
  <2>1. UNCHANGED <<file, mode, pick, members, next, disk>>
    BY <1>3 DEF args
  <2>2. members \in Seq(Member) /\ Len(members) \in Nat /\ pick \in Seq(Nat \ {0})
    BY ArgumentsAssumption DEF IInv, TypeOK
  <2>3. selected' \in Seq(1 .. Len(members))
    <3>1. CASE pick = <<>>
      BY <3>1, <1>3, <2>2
    <3>2. CASE pick # <<>>
      <4>1. \A k \in 1 .. Len(pick) : pick[k] \in 1 .. Len(members)
        BY <1>3, <2>2
      <4> QED
        BY <3>2, <4>1, <1>3, <2>2
    <3> QED
      BY <3>1, <3>2
  <2>4. TypeOK'
    BY <1>1, <1>3, <2>1, <2>3, SameTable DEF IInv, TypeOK
  <2>5. Untouched'
    BY <1>1, <1>3, <2>1 DEF IInv, Untouched
  <2>6. NamesApart'
    BY <1>1, <1>3, <2>1 DEF NamesApart
  <2>7. Whole' = {} /\ FirstNames(next)' = {} /\ ~(\E path \in DOMAIN disk' : TRUE)
    BY <1>1, <2>1 DEF Whole, FirstNames
  <2>8. PartialIsPrefix'
    BY <1>1, <1>3, <2>1, <2>7, FS_EmptySet, PartialMeans DEF Partial
  <2> QED
    BY <2>4, <2>5, <2>6, <2>8 DEF IInv
<1>4. CASE \A k \in 1 .. Len(pick) : ~(pick[k] > Len(members))
  <2>1. members \in Seq(Member) /\ pick \in Seq(Nat \ {0})
    BY ArgumentsAssumption DEF IInv, TypeOK
  <2>2. \A k \in 1 .. Len(pick) : pick[k] <= Len(members)
    BY <2>1, <1>4
  <2> QED
    BY <2>2, <1>3, <1>4 DEF Select
<1> QED
  BY <1>2, <1>4 DEF Select

LEMMA CheckNamesIInv ==
  ASSUME IInv, CheckNames
  PROVE  IInv'
<1>1. phase = "names"
  BY DEF CheckNames
<1>2. {"same_name", "io"} \subseteq Outcomes
  BY DEF Outcomes, ExitCode, Refusals
<1>3. CASE SameName /\ End("same_name")
  BY <1>1, <1>2, <1>3, EndIInv
<1>4. CASE /\ ~SameName /\ phase' \in {"write", "io"}
           /\ UNCHANGED <<args, members, selected, next, disk>>
  BY <1>1, <1>2, <1>4, QuietIInv
<1> QED
  BY <1>3, <1>4 DEF CheckNames

LEMMA OtherEndsIInv ==
  ASSUME IInv, RefuseContainer \/ RefuseMember \/ Finish
  PROVE  IInv'
<1>1. CASE RefuseContainer
  <2>1. phase = "members"
    BY <1>1 DEF RefuseContainer
  <2>2. "no_container" \in Outcomes
        /\ "no_container" \notin {"ok", "past_table", "same_name"}
    BY DEF Outcomes, ExitCode, Refusals
  <2>3. CASE End("no_container")
    BY <2>1, <2>2, <2>3, EndIInv
  <2>4. CASE file.header # "ok" /\ End(file.header)
    <3>1. file.header \in HeaderErrors
      BY <2>4, ArgumentsAssumption DEF IInv, TypeOK, FileOK
    <3>2. file.header \in Outcomes /\ file.header \notin {"ok", "past_table", "same_name"}
      BY <3>1 DEF Outcomes, ExitCode, Refusals, HeaderErrors
    <3> QED
      BY <2>1, <2>4, <3>2, EndIInv
  <2> QED
    BY <1>1, <2>3, <2>4 DEF RefuseContainer
<1>2. CASE RefuseMember
  <2>1. phase = "write"
    BY <1>2 DEF RefuseMember, Writing
  <2>2. /\ {"panic", "w3_member_header", "InvalidSignature"} \subseteq Outcomes
        /\ \A o \in {"panic", "w3_member_header", "InvalidSignature"} :
             o \notin {"ok", "past_table", "same_name"}
    BY DEF Outcomes, ExitCode, Refusals
  <2>3. End("panic") \/ End("w3_member_header") \/ End("InvalidSignature")
    BY <1>2 DEF RefuseMember
  <2> QED
    BY <2>1, <2>2, <2>3, EndIInv
<1>3. CASE Finish
  <2>1. phase = "write" /\ next = Len(selected) /\ End("ok") /\ "ok" \in Outcomes
    BY <1>3 DEF Finish, Outcomes, ExitCode
  <2> QED
    BY <2>1, EndIInv
<1> QED
  BY <1>1, <1>2, <1>3

(* What a writing step finds: an unwritten member, its name not on disk.   *)
LEMMA AtWrite ==
  ASSUME IInv, Writing
  PROVE  /\ phase = "write" /\ ~SameName
         /\ Len(selected) \in Nat /\ next \in Nat /\ next + 1 \in 1 .. Len(selected)
         /\ Current \in 1 .. Len(members)
         /\ FileName(Current) = NameOf(next + 1) /\ FileName(Current) \in Paths
         /\ \A path \in DOMAIN disk : disk[path].complete
         /\ DOMAIN disk = FirstNames(next)
         /\ FileName(Current) \notin DOMAIN disk
<1>1. phase = "write" /\ next < Len(selected) /\ ~SameName
  BY DEF Writing, IInv, NamesApart
<1>2. Len(selected) \in Nat /\ next \in Nat /\ next + 1 \in 1 .. Len(selected)
  BY <1>1 DEF IInv, TypeOK
<1>3. Current \in 1 .. Len(members) /\ FileName(Current) = NameOf(next + 1)
  BY <1>2 DEF IInv, TypeOK, Current, NameOf
<1>4. FileName(Current) \in Paths
  BY <1>3, NameInPaths DEF IInv
<1>5. /\ \A path \in DOMAIN disk : disk[path].complete
      /\ Whole = FirstNames(next)
  BY <1>1, PartialMeans DEF IInv, Partial
<1>6. DOMAIN disk = FirstNames(next)
  BY <1>5 DEF Whole
<1>7. \A k \in 1 .. next : NameOf(k) # NameOf(next + 1)
  BY <1>1, <1>2, Apart DEF IInv
<1>8. FileName(Current) \notin DOMAIN disk
  BY <1>3, <1>6, <1>7 DEF FirstNames
<1> QED
  BY <1>1, <1>2, <1>3, <1>4, <1>5, <1>6, <1>8

LEMMA HoldingFacts ==
  ASSUME NEW output
  PROVE  /\ DOMAIN Holding(output) = DOMAIN disk \cup {FileName(Current)}
         /\ Holding(output)[FileName(Current)] = output
         /\ \A path \in DOMAIN disk :
              path # FileName(Current) => Holding(output)[path] = disk[path]
BY DEF Holding

LEMMA HoldingTyped ==
  ASSUME IInv, Writing, NEW output \in OutputRecord
  PROVE  /\ DOMAIN Holding(output) \subseteq Paths
         /\ \A path \in DOMAIN Holding(output) : Holding(output)[path] \in OutputRecord
<1> DEFINE h == Holding(output)
<1>1. DOMAIN disk \subseteq Paths /\ \A path \in DOMAIN disk : disk[path] \in OutputRecord
  BY DEF IInv, TypeOK
<1>2. /\ DOMAIN h = DOMAIN disk \cup {FileName(Current)}
      /\ h[FileName(Current)] = output
      /\ \A path \in DOMAIN disk : path # FileName(Current) => h[path] = disk[path]
  BY HoldingFacts
<1> HIDE DEF h
<1>3. DOMAIN h \subseteq Paths /\ \A path \in DOMAIN h : h[path] \in OutputRecord
  BY <1>1, <1>2, AtWrite
<1> QED
  BY <1>3 DEF h

LEMMA WrittenIInv ==
  ASSUME IInv, Writing, disk' = Holding(Output(Current)), next' = next + 1,
         UNCHANGED <<phase, args, members, selected>>
  PROVE  IInv'
<1>1. UNCHANGED <<file, mode, pick, phase, members, selected>>
  BY DEF args
<1>2. Output(Current) \in OutputRecord /\ Output(Current).complete = TRUE
  BY AtWrite, OutputFacts DEF IInv, Output
<1>3. /\ DOMAIN disk' \subseteq Paths
      /\ \A path \in DOMAIN disk' : disk'[path] \in OutputRecord
  BY <1>2, HoldingTyped
<1>4. next' \in 0 .. Len(selected)
  BY AtWrite
<1>5. TypeOK'
  BY <1>1, <1>3, <1>4, SameTable DEF IInv, TypeOK, Outcomes, ExitCode
<1>6. Untouched'
  BY <1>1, AtWrite DEF IInv, Untouched
<1>7. NamesApart'
  BY <1>1, AtWrite, SameSelection DEF NamesApart
<1>8. /\ DOMAIN disk' = FirstNames(next) \cup {NameOf(next + 1)}
      /\ \A path \in DOMAIN disk' : disk'[path].complete
  <2>1. /\ DOMAIN disk' = DOMAIN disk \cup {FileName(Current)}
        /\ disk'[FileName(Current)] = Output(Current)
        /\ \A path \in DOMAIN disk : path # FileName(Current) => disk'[path] = disk[path]
    BY HoldingFacts
  <2> QED
    BY <2>1, <1>2, AtWrite
<1>9. FirstNames(next + 1) = FirstNames(next) \cup {NameOf(next + 1)}
  BY AtWrite DEF FirstNames
<1>10. FirstNames(next)' = FirstNames(next + 1)
  BY <1>1 DEF FirstNames, NameOf, FileName
<1>11. Whole' = FirstNames(next + 1)
  BY <1>8, <1>9 DEF Whole
<1>12. Cardinality(FirstNames(next + 1)) = next + 1
  BY AtWrite, CountNames DEF IInv
<1>13. PartialIsPrefix'
  BY <1>1, <1>8, <1>10, <1>11, <1>12, AtWrite, PartialMeans DEF Partial
<1> QED
  BY <1>5, <1>6, <1>7, <1>13 DEF IInv

LEMMA TornIInv ==
  ASSUME IInv, Writing,
         disk' \in {disk, Holding([Output(Current) EXCEPT !.complete = FALSE])},
         phase' = "io", UNCHANGED <<next, args, members, selected>>
  PROVE  IInv'
<1> DEFINE torn == [Output(Current) EXCEPT !.complete = FALSE]
<1>1. UNCHANGED <<file, mode, pick, next, members, selected>> /\ phase' = "io"
  BY DEF args
<1>2. torn \in OutputRecord /\ torn.complete = FALSE
  BY AtWrite, OutputFacts, TornRecord DEF IInv
<1>3. /\ DOMAIN disk' \subseteq Paths
      /\ \A path \in DOMAIN disk' : disk'[path] \in OutputRecord
  <2>1. CASE disk' = disk
    BY <2>1 DEF IInv, TypeOK
  <2>2. CASE disk' = Holding(torn)
    <3> HIDE DEF torn
    <3> QED
      BY <2>2, <1>2, HoldingTyped
  <2> QED
    BY <2>1, <2>2
<1>4. TypeOK'
  <2>1. "io" \in Outcomes /\ Outcomes' = Outcomes
    BY DEF Outcomes, ExitCode, Refusals
  <2> QED
    BY <1>1, <1>3, <2>1, SameTable DEF IInv, TypeOK
<1>5. Untouched'
  BY <1>1 DEF IInv, Untouched
<1>6. NamesApart'
  BY <1>1, AtWrite, SameSelection DEF NamesApart
<1>7. Whole' = DOMAIN disk
  <2>1. CASE disk' = disk
    BY <2>1, AtWrite DEF Whole
  <2>2. CASE disk' = Holding(torn)
    <3>1. /\ DOMAIN disk' = DOMAIN disk \cup {FileName(Current)}
          /\ disk'[FileName(Current)] = torn
          /\ \A path \in DOMAIN disk : path # FileName(Current) => disk'[path] = disk[path]
      BY <2>2, HoldingFacts
    <3> HIDE DEF torn
    <3> QED
      BY <3>1, <1>2, AtWrite DEF Whole
  <2> QED
    BY <2>1, <2>2
<1>8. FirstNames(next)' = FirstNames(next)
  BY <1>1 DEF FirstNames, NameOf, FileName
<1>9. Cardinality(FirstNames(next)) = next
  BY AtWrite, CountNames DEF IInv, TypeOK
<1>10. PartialIsPrefix'
  BY <1>1, <1>7, <1>8, <1>9, AtWrite, PartialMeans DEF Partial
<1> QED
  BY <1>4, <1>5, <1>6, <1>10 DEF IInv

LEMMA WriteMemberIInv ==
  ASSUME IInv, WriteMember
  PROVE  IInv'
<1>1. Writing /\ UNCHANGED <<args, members, selected>>
  BY DEF WriteMember
<1>2. CASE disk' = Holding(Output(Current)) /\ next' = next + 1 /\ UNCHANGED phase
  BY <1>1, <1>2, WrittenIInv
<1>3. CASE /\ disk' \in {disk, Holding([Output(Current) EXCEPT !.complete = FALSE])}
           /\ phase' = "io" /\ UNCHANGED next
  BY <1>1, <1>3, TornIInv
<1> QED
  BY <1>2, <1>3 DEF WriteMember

LEMMA StutterIInv ==
  ASSUME IInv, UNCHANGED vars
  PROVE  IInv'
<1>1. UNCHANGED <<file, mode, pick, phase, members, selected, next, disk>>
  BY DEF vars
<1>2. TypeOK'
  BY <1>1, SameTable DEF IInv, TypeOK, Outcomes, ExitCode
<1>3. Untouched' /\ NamesApart'
  BY <1>1, SameSelection DEF IInv, Untouched, NamesApart
<1>4. PartialIsPrefix'
  BY <1>1, SameFiles, PartialMeans DEF IInv, Partial
<1> QED
  BY <1>2, <1>3, <1>4 DEF IInv

LEMMA Inductive == Spec => []IInv
<1>1. Init => IInv
  BY InitIInv
<1>2. IInv /\ [Next]_vars => IInv'
  BY ReadMemberIInv, SelectIInv, CheckNamesIInv, OtherEndsIInv, WriteMemberIInv,
     StutterIInv DEF Next
<1> QED
  BY <1>1, <1>2, PTL DEF Spec

(* The state keeps its types: a member that is accepted starts in the body *)
(* and what is written for it is a part of the body, with fields that are  *)
(* words again after the move.                                             *)
THEOREM TypeCorrect == Spec => []TypeOK
<1>1. IInv => TypeOK
  BY DEF IInv
<1> QED
  BY <1>1, Inductive, PTL

(* What is on disk after any number of steps, failures included, is whole  *)
(* files of a prefix of the selection and at most one torn file more.      *)
THEOREM PrefixOnDisk == Spec => []PartialIsPrefix
<1>1. IInv => PartialIsPrefix
  BY DEF IInv
<1> QED
  BY <1>1, Inductive, PTL

(* The spans of any accepted table, in any order, partition the body       *)
(* behind its first member.                                                *)
THEOREM SpansPartition == Spec => []SpansApart
<1>1. ASSUME TypeOK
      PROVE  SpansApart
  BY <1>1, SpanFacts, Covered DEF SpansApart
<1> QED
  BY <1>1, TypeCorrect, PTL

(* No step writes to a file that is complete.                              *)
THEOREM NoFileTwice == Spec => WrittenOnce
<1> DEFINE Kept == \A path \in DOMAIN disk :
                     disk[path].complete => disk'[path] = disk[path]
<1>1. ASSUME IInv, Next
      PROVE  Kept
  <2>1. CASE disk' = disk
    BY <2>1
  <2>2. CASE \E output : Writing /\ disk' = Holding(output)
    BY <2>2, <1>1, AtWrite, HoldingFacts
  <2>3. CASE WriteMember
    BY <2>1, <2>2, <2>3 DEF WriteMember
  <2>4. CASE ~WriteMember
    BY <1>1, <2>1, <2>4 DEF Next, RefuseContainer, ReadMember, Select, CheckNames,
                            RefuseMember, Finish, End
  <2> QED
    BY <2>3, <2>4
<1>2. IInv /\ [Next]_vars => [Kept]_vars
  BY <1>1
<1> QED
  BY <1>2, Inductive, PTL DEF Spec, WrittenOnce
-----------------------------------------------------------------------------
(* The moved fields. *)

(* The files that are written are smaller than a word can count. *)
OutputsFit == \A f \in Files, m \in Modes : f.len + m.prefix < WordSize

Follows(written) ==
  LET named == file.image[written.from].data_pages - Base
  IN ~mode.raw /\ named \in written.from .. written.to - 1 =>
       written.data_pages = written.prefix + (named - written.from)

LEMMA PagesMeans == PagesFollow <=> \A path \in DOMAIN disk : Follows(disk[path])
BY DEF PagesFollow, Follows

LEMMA OutputFollows ==
  ASSUME TypeOK, OutputsFit, NEW i \in 1 .. Len(members)
  PROVE  /\ Follows(Output(i))
         /\ Follows([Output(i) EXCEPT !.complete = FALSE])
<1> DEFINE D == ImageAt(i).data_pages
           torn == [Output(i) EXCEPT !.complete = FALSE]
<1>1. /\ At(i) \in 0 .. file.len /\ At(i) = members[i].file_offset - Base
      /\ members[i].file_offset \in Nat /\ Base \in Nat /\ file.len \in Nat
      /\ SpanStop(i) \in 0 .. file.len
  BY MemberFacts, SpanFacts, FileFacts DEF TypeOK
<1>2. /\ mode.prefix \in Nat /\ WordSize \in Nat \ {0}
      /\ file.len + mode.prefix < WordSize
  BY ArgumentsAssumption, SizesAssumption DEF TypeOK, OutputsFit, Word
<1>3. D \in Nat
  <2>1. ImageAt(i) \in ImageHead
    BY <1>1, FileFacts DEF TypeOK, ImageAt
  <2>2. D \in Word
    BY <2>1 DEF ImageHead
  <2> QED
    BY <2>2, <1>2 DEF Word
<1>4. ASSUME D - Base \in At(i) .. SpanStop(i) - 1
      PROVE  Moved(i, D) = mode.prefix + ((D - Base) - At(i))
  <2> DEFINE x == mode.prefix + ((D - Base) - At(i))
  <2>1. D - Shift(i) = x
    BY <1>1, <1>2, <1>3, SMTT(30) DEF Shift
  <2> HIDE DEF D
  <2>2. x \in 0 .. WordSize - 1
    <3>1. 0 <= (D - Base) - At(i) /\ (D - Base) - At(i) < file.len
      BY <1>1, <1>3, <1>4
    <3>2. (D - Base) - At(i) \in Int
      BY <1>1, <1>3
    <3> QED
      BY <3>1, <3>2, <1>1, <1>2, SMTT(30)
  <2> HIDE DEF x
  <2>3. x % WordSize = x
    BY <2>2, <1>2, ModSmall
  <2>4. Moved(i, D) = x
    BY <2>1, <2>3 DEF Moved
  <2> QED
    BY <2>4 DEF x
<1>5. /\ Output(i).from = At(i) /\ Output(i).to = SpanStop(i)
      /\ ~mode.raw => Output(i).prefix = mode.prefix /\ Output(i).data_pages = Moved(i, D)
      /\ D = file.image[At(i)].data_pages
  BY DEF Output, ImageAt
<1>6. /\ torn.from = Output(i).from /\ torn.to = Output(i).to
      /\ torn.prefix = Output(i).prefix /\ torn.data_pages = Output(i).data_pages
  BY OutputFacts, TornRecord
<1> HIDE DEF D, torn
<1>7. Follows(Output(i)) /\ Follows(torn)
  BY <1>4, <1>5, <1>6 DEF Follows
<1> QED
  BY <1>7 DEF torn

(* A rebased file finds its pages: what is stored for a member keeps the   *)
(* page area that the container's frame named, whatever the bases, spans   *)
(* and prefixes are, as long as the file is smaller than a word can count. *)
THEOREM PagesFound ==
  ASSUME OutputsFit
  PROVE  Spec => []PagesFollow
<1>1. Init => PagesFollow
  BY DEF Init, PagesFollow
<1>2. ASSUME IInv, PagesFollow, [Next]_vars
      PROVE  PagesFollow'
  <2>1. UNCHANGED <<file, mode>>
    BY <1>2 DEF Next, RefuseContainer, ReadMember, Select, CheckNames, RefuseMember,
                WriteMember, Finish, End, args, vars
  <2>2. CASE disk' = disk
    BY <2>1, <2>2, <1>2 DEF PagesFollow, Base
  <2>3. ASSUME Writing, NEW output, Follows(output), disk' = Holding(output)
        PROVE  PagesFollow'
    <3>1. /\ DOMAIN disk' = DOMAIN disk \cup {FileName(Current)}
          /\ disk'[FileName(Current)] = output
          /\ \A path \in DOMAIN disk : path # FileName(Current) => disk'[path] = disk[path]
      BY <2>3, HoldingFacts
    <3>2. \A path \in DOMAIN disk' : Follows(disk'[path])
      BY <3>1, <2>3, <1>2, PagesMeans
    <3> QED
      BY <3>2, <2>1 DEF PagesFollow, Follows, Base
  <2>4. CASE WriteMember
    <3>1. Writing /\ Current \in 1 .. Len(members)
      BY <2>4, <1>2, AtWrite DEF WriteMember
    <3>2. /\ Follows(Output(Current))
          /\ Follows([Output(Current) EXCEPT !.complete = FALSE])
      BY <3>1, <1>2, OutputFollows DEF IInv
    <3> QED
      BY <2>2, <2>3, <2>4, <3>1, <3>2 DEF WriteMember
  <2>5. CASE ~WriteMember
    BY <1>2, <2>2, <2>5 DEF Next, RefuseContainer, ReadMember, Select, CheckNames,
                            RefuseMember, Finish, End, vars
  <2> QED
    BY <2>4, <2>5
<1> QED
  BY <1>1, <1>2, Inductive, PTL DEF Spec
=============================================================================
