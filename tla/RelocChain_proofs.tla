-------------------------- MODULE RelocChain_proofs --------------------------
(***************************************************************************)
(* For every segment and every starting offset, resolve_chain returns      *)
(* distinct positions of the segment and reports every chain that meets    *)
(* itself as corrupt.                                                      *)
(***************************************************************************)
EXTENDS RelocChain, TLAPS, SequenceTheorems

LEMMA TwoBytes ==
  ASSUME NEW a \in Int, NEW b \in Int, 0 <= a, a <= 255, 0 <= b, b <= 255
  PROVE  0 <= a + 256 * b /\ a + 256 * b <= LastLink
BY DEF LastLink

(* A word read from inside a segment is a segment offset. *)
LEMMA WordIsOffset ==
  ASSUME data \in Seq(Byte), NEW p \in Offset, Inside(p)
  PROVE  WordAt(p) \in Offset
<1>1. data[p + 1] \in Byte /\ data[p + 2] \in Byte
  BY DEF Inside, Offset
<1>2. \A x \in Byte : x \in Int /\ 0 <= x /\ x <= 255
  BY DEF Byte
<1>3. 0 <= WordAt(p) /\ WordAt(p) <= LastLink
  BY <1>1, <1>2, TwoBytes DEF WordAt
<1>4. \A x \in Int : 0 <= x /\ x <= LastLink => x \in Offset
  <2>1. LastLink \in Int
    BY DEF LastLink
  <2> QED
    BY <2>1 DEF Offset
<1>5. WordAt(p) \in Int
  BY <1>1, <1>2 DEF WordAt
<1> QED
  BY <1>3, <1>4, <1>5

(* A link is any offset but the terminator. *)
LEMMA Links == LastLink \notin Link /\ \A x \in Offset : x # LastLink => x \in Link
<1>1. LastLink \in Int
  BY DEF LastLink
<1> QED
  BY <1>1 DEF Offset, Link

LEMMA InitIInv ==
  ASSUME Init
  PROVE  IInv
<1>1. TypeOK
  BY SegmentsAssumption, StartsAssumption DEF Init, TypeOK
<1>2. links = <<>> /\ Len(links) = 0
  BY DEF Init
<1>3. Len(data) \in Nat
  BY <1>1 DEF TypeOK
<1> QED
  BY <1>1, <1>2, <1>3
  DEF IInv, LinksAreChain, WorkBounded, Periodic, RepeatIsCorrupt, Distinct

(* A step that only settles the outcome. *)
LEMMA EndIInv ==
  ASSUME IInv, Done \/ Corrupt \/ OutOfBounds
  PROVE  IInv'
<1>1. UNCHANGED <<data, pos, links>> /\ outcome = "walking"
  BY DEF Done, Corrupt, OutOfBounds
<1>2. TypeOK'
  BY DEF IInv, TypeOK, Errors, Done, Corrupt, OutOfBounds
<1>3. LinksAreChain' /\ WorkBounded' /\ Periodic'
  BY <1>1 DEF IInv, LinksAreChain, WorkBounded, Periodic, Inside, WordAt
(* A repetition leaves pos on a link, so inside the segment and not at     *)
(* the terminator.                                                         *)
<1>4. ASSUME ~Distinct(links)
      PROVE  outcome' = "RelocationChainCorrupt"
  <2>1. PICK i, j \in 1 .. Len(links) : i < j /\ links[i] = links[j]
    <3>1. PICK k, l \in 1 .. Len(links) : links[k] = links[l] /\ k # l
      BY <1>4 DEF Distinct
    <3>2. Len(links) \in Nat
      BY DEF IInv, TypeOK
    <3>3. k < l \/ l < k
      BY <3>1, <3>2
    <3> QED
      BY <3>1, <3>3
  <2>2. Len(links) \in Nat /\ Len(data) \in Nat
    BY DEF IInv, TypeOK
  <2>3. PICK m \in 1 .. Len(links) : m = Len(links) + 1 - (j - i)
    <3>1. Len(links) + 1 - (j - i) \in 1 .. Len(links)
      BY <2>1, <2>2
    <3> QED
      BY <3>1
  <2>4. pos = links[m]
    BY <2>1, <2>3 DEF IInv, Periodic
  <2>5. Inside(pos)
    BY <2>4 DEF IInv, LinksAreChain
  <2>6. pos # LastLink
    BY <2>3, <2>4, Links DEF IInv, TypeOK
  <2> QED
    BY <2>5, <2>6 DEF Done, Corrupt, OutOfBounds
<1>5. RepeatIsCorrupt'
  BY <1>1, <1>4 DEF RepeatIsCorrupt, Distinct
<1> QED
  BY <1>2, <1>3, <1>5 DEF IInv

(***************************************************************************)
(* One more link.  With n links, a repetition links[i] = links[j] of the   *)
(* old ones moves on to links[n + 1] = links[n + 1 - (j - i)], whose word  *)
(* is the new pos; a repetition of the new link makes the new pos the link *)
(* after the old occurrence.                                               *)
(***************************************************************************)
LEMMA FollowIInv ==
  ASSUME IInv, Follow
  PROVE  IInv'
<1>1. /\ links' = Append(links, pos) /\ pos' = WordAt(pos)
      /\ UNCHANGED <<data, outcome>> /\ outcome = "walking"
      /\ Inside(pos) /\ ~Runaway /\ pos # LastLink
  BY DEF Follow
<1>2. /\ data \in Seq(Byte) /\ pos \in Offset /\ links \in Seq(Link)
      /\ Len(data) \in Nat
  BY DEF IInv, TypeOK
<1>3. PICK n \in Nat : n = Len(links)
  BY <1>2
<1>4. /\ Len(links') = n + 1 /\ links' \in Seq(Link)
      /\ links'[n + 1] = pos
      /\ \A i \in 1 .. n : links'[i] = links[i]
  <2>1. pos \in Link
    BY <1>1, <1>2, Links
  <2> QED
    BY <1>1, <1>2, <1>3, <2>1, AppendProperties
<1>5. TypeOK'
  BY <1>1, <1>2, <1>4, WordIsOffset DEF TypeOK, IInv
<1>6. ASSUME NEW i \in 1 .. n + 1
      PROVE  /\ Inside(links'[i])
             /\ WordAt(links'[i]) = IF i = n + 1 THEN pos' ELSE links'[i + 1]
  <2>1. CASE i = n + 1
    BY <2>1, <1>1, <1>4
  <2>2. CASE i \in 1 .. n
    <3>1. Inside(links[i]) /\ WordAt(links[i]) = IF i = n THEN pos ELSE links[i + 1]
      BY <2>2, <1>3 DEF IInv, LinksAreChain
    <3>2. i = n \/ i + 1 \in 1 .. n
      BY <2>2
    <3> QED
      BY <2>2, <3>1, <3>2, <1>4
  <2> QED
    BY <2>1, <2>2
<1>7. LinksAreChain'
  <2>1. \A p : Inside(p)' <=> Inside(p)
    BY <1>1 DEF Inside
  <2>2. \A p : WordAt(p)' = WordAt(p)
    BY <1>1 DEF WordAt
  <2> QED
    BY <1>4, <1>6, <2>1, <2>2 DEF LinksAreChain
<1>8. WorkBounded'
  BY <1>1, <1>2, <1>3, <1>4 DEF WorkBounded, Runaway
<1>9. Periodic'
  <2> SUFFICES ASSUME NEW i \in 1 .. n + 1, NEW j \in 1 .. n + 1,
                      i < j, links'[i] = links'[j]
               PROVE  pos' = links'[(n + 1) + 1 - (j - i)]
    BY <1>4 DEF Periodic
  <2>1. PICK m \in 1 .. n : m = n + 1 - (j - i)
    <3>1. n + 1 - (j - i) \in 1 .. n
      OBVIOUS
    <3> QED
      BY <3>1
  <2>2. links[m] = pos
    <3>1. CASE j = n + 1
      BY <3>1, <2>1, <1>4
    <3>2. CASE j \in 1 .. n
      BY <3>2, <2>1, <1>3, <1>4 DEF IInv, Periodic
    <3> QED
      BY <3>1, <3>2
  <2>3. WordAt(links[m]) = links'[m + 1]
    BY <2>1, <1>4, <1>6
  <2>4. m + 1 = (n + 1) + 1 - (j - i)
    BY <2>1
  <2> QED
    BY <2>2, <2>3, <2>4, <1>1
<1>10. RepeatIsCorrupt'
  BY <1>1 DEF RepeatIsCorrupt
<1> QED
  BY <1>5, <1>7, <1>8, <1>9, <1>10 DEF IInv

LEMMA Inductive ==
  ASSUME IInv, [Next]_chainVars
  PROVE  IInv'
<1>1. CASE UNCHANGED chainVars
  BY <1>1 DEF IInv, chainVars, TypeOK, LinksAreChain, WorkBounded, Periodic,
              RepeatIsCorrupt, Distinct, Inside, WordAt
<1> QED
  BY <1>1, EndIInv, FollowIInv DEF Next

THEOREM Invariance == Spec => []IInv
<1>1. Init => IInv
  BY InitIInv
<1>2. IInv /\ [Next]_chainVars => IInv'
  BY Inductive
<1> QED
  BY <1>1, <1>2, PTL DEF Spec

(***************************************************************************)
(* resolve_chain never returns a repeated link: a chain that meets itself  *)
(* ends as RelocationChainCorrupt, whatever the segment's bytes are.       *)
(***************************************************************************)
THEOREM RepeatReported == Spec => []RepeatIsCorrupt
<1>1. IInv => RepeatIsCorrupt
  BY DEF IInv
<1> QED
  BY <1>1, Invariance, PTL

(***************************************************************************)
(* The links are positions of the segment, each of which holds the next.   *)
(***************************************************************************)
THEOREM ChainFollowed == Spec => []LinksAreChain
<1>1. IInv => LinksAreChain
  BY DEF IInv
<1> QED
  BY <1>1, Invariance, PTL

(***************************************************************************)
(* The guard stops the walk after at most half the segment's bytes.        *)
(***************************************************************************)
THEOREM WorkIsBounded == Spec => []WorkBounded
<1>1. IInv => WorkBounded
  BY DEF IInv
<1> QED
  BY <1>1, Invariance, PTL

(***************************************************************************)
(* An iteration of resolve_chain leaves less to do: the guard turns a      *)
(* chain down before the measure is used up; so none is without effect.    *)
(***************************************************************************)
THEOREM StepShrinks ==
  ASSUME IInv, Next
  PROVE  Descends(1, WorkLeft', WorkLeft)
<1> DEFINE n == Len(links)
           N == Len(data)
<1>1. n \in Nat /\ N \in Nat /\ 2 * n <= N + 2 /\ links \in Seq(Link)
  BY DEF IInv, TypeOK, WorkBounded
<1>2. outcome = "walking" /\ WorkLeft = <<N + 3 - 2 * n>>
  BY DEF Next, Done, Corrupt, OutOfBounds, Follow, WorkLeft
<1>3. PICK b \in Nat : b = N + 3 - 2 * n /\ b > 0
  <2> HIDE DEF n, N
  <2> QED
    BY <1>1
<1>4. \E a \in Nat : a < b /\ WorkLeft' = <<a>>
  <2>1. CASE Follow
    <3>1. /\ ~Runaway /\ data' = data /\ links' = Append(links, pos)
          /\ outcome' = outcome
      BY <2>1 DEF Follow
    <3>2. Len(links') = n + 1
      BY <1>1, <3>1
    <3>3. N + 3 - 2 * (n + 1) \in Nat /\ N + 3 - 2 * (n + 1) < b
      BY <1>1, <1>3, <3>1 DEF Runaway
    <3>4. WorkLeft' = <<N + 3 - 2 * (n + 1)>>
      BY <1>2, <3>1, <3>2 DEF WorkLeft
    <3> QED
      BY <3>3, <3>4
  <2>2. CASE Done \/ Corrupt \/ OutOfBounds
    <3>1. outcome' # "walking"
      BY <2>2 DEF Done, Corrupt, OutOfBounds
    <3>2. WorkLeft' = <<0>>
      BY <3>1 DEF WorkLeft
    <3> QED
      BY <1>3, <3>2
  <2> QED
    BY <2>1, <2>2 DEF Next
<1>5. \A x, y \in Nat : x < y => Descends(1, <<x>>, <<y>>)
  BY DEF Descends, Below, Measures
<1> QED
  BY <1>2, <1>3, <1>4, <1>5

(***************************************************************************)
(* The work left only ever shrinks: by StepShrinks and NoEndlessDescent    *)
(* resolve_chain makes finitely many iterations, wherever the words of the *)
(* segment point.                                                          *)
(***************************************************************************)
THEOREM WalkShrinks == Spec => WorkShrinks
<1>1. IInv /\ [Next]_chainVars => [Descends(1, WorkLeft', WorkLeft)]_chainVars
  BY StepShrinks
<1> QED
  BY <1>1, Invariance, PTL DEF Spec, WorkShrinks

(* Links, position and outcome keep their types. *)
THEOREM TypeCorrect == Spec => []TypeOK
<1>1. IInv => TypeOK
  BY DEF IInv
<1> QED
  BY <1>1, Invariance, PTL
=============================================================================
