---------------------------- MODULE SequenceFacts ----------------------------
(***************************************************************************)
(* Facts about natural numbers, recursive functions and sequences that the *)
(* proofs of several components rest on.  Induction is stated for sets,    *)
(* not for predicates, and recursion for functions, not for operators.     *)
(***************************************************************************)
EXTENDS Integers, Sequences, SequencesExt, Descent,
        FiniteSetTheorems, SequenceTheorems, TLAPS

(***************************************************************************)
(* A set of natural numbers has a least element.  Of the initial parts     *)
(* T \cap (0 .. n), n in T, one has none of the others as a strict subset, *)
(* by the well-foundedness of inclusion on finite sets.                    *)
(***************************************************************************)
LEMMA Smallest ==
  ASSUME NEW T, T \subseteq Nat, T # {}
  PROVE  \E m \in T : \A y \in T : m <= y
<1> DEFINE Family == {T \cap (0 .. n) : n \in T}
           Sub == StrictSubsetOrdering(Nat)
           Finite == FiniteSubsetsOf(Nat)
<1>1. IsWellFoundedOn(Sub, Finite)
  BY FS_StrictSubsetOrderingWellFounded
<1>2. ASSUME NEW n \in T
      PROVE  T \cap (0 .. n) \in Finite
  <2>1. T \cap (0 .. n) \in SUBSET Nat /\ n \in Nat
        /\ \A s \in T \cap (0 .. n) : s <= n
    OBVIOUS
  <2>2. IsFiniteSet(T \cap (0 .. n))
    BY <2>1, FS_BoundedSetOfNaturals
  <2> QED
    BY <2>1, <2>2 DEF FiniteSubsetsOf
<1>3. Family \subseteq Finite /\ Family # {}
  BY <1>2
<1>4. PICK X \in Family : \A Y \in Family : ~(<<Y, X>> \in Sub)
  <2> HIDE DEF Family, Sub, Finite
  <2> QED
    BY <1>1, <1>3, WFMin
<1>5. PICK m \in T : X = T \cap (0 .. m)
  OBVIOUS
<1>6. ASSUME NEW y \in T, y < m
      PROVE  FALSE
  <2>1. T \cap (0 .. y) \in Family
    OBVIOUS
  <2>2. T \cap (0 .. y) \subseteq X /\ m \in X /\ m \notin T \cap (0 .. y)
    BY <1>5, <1>6
  <2>3. X \in SUBSET Nat /\ T \cap (0 .. y) \in SUBSET Nat
    BY <1>5
  <2>4. <<T \cap (0 .. y), X>> \in Sub
    BY <2>2, <2>3 DEF StrictSubsetOrdering
  <2> QED
    BY <2>1, <2>4, <1>4
<1> QED
  BY <1>6

LEMMA MinFacts ==
  ASSUME NEW T, T \subseteq Nat, T # {}
  PROVE  Min(T) \in T /\ \A y \in T : Min(T) <= y
BY Smallest DEF Min

(* Induction, and course-of-values induction, on the numbers in a set. *)
LEMMA Induction ==
  ASSUME NEW S, 0 \in S, \A n \in Nat : n \in S => n + 1 \in S
  PROVE  \A n \in Nat : n \in S
<1> SUFFICES ASSUME Nat \ S # {} PROVE FALSE
  OBVIOUS
<1>1. PICK m \in Nat \ S : \A y \in Nat \ S : m <= y
  BY Smallest
<1>2. m - 1 \in Nat /\ m - 1 \in S
  BY <1>1
<1> QED
  BY <1>1, <1>2

LEMMA StrongInduction ==
  ASSUME NEW S, \A n \in Nat : (\A k \in 0 .. n - 1 : k \in S) => n \in S
  PROVE  \A n \in Nat : n \in S
<1> SUFFICES ASSUME Nat \ S # {} PROVE FALSE
  OBVIOUS
<1>1. PICK m \in Nat \ S : \A y \in Nat \ S : m <= y
  BY Smallest
<1>2. \A k \in 0 .. m - 1 : k \in S
  BY <1>1
<1> QED
  BY <1>1, <1>2

(* The numbers up to n, and as many of one kind.                           *)
LEMMA Counting ==
  \A n \in Nat : IsFiniteSet(1 .. n) /\ Cardinality(1 .. n) = n
<1> SUFFICES ASSUME NEW n \in Nat
             PROVE  IsFiniteSet(1 .. n) /\ Cardinality(1 .. n) = n
  OBVIOUS
<1>1. 1 \in Int /\ n \in Int
  OBVIOUS
<1>2. IsFiniteSet(1 .. n) /\ Cardinality(1 .. n) = IF 1 > n THEN 0 ELSE n - 1 + 1
  BY <1>1, FS_Interval, Zenon
<1> QED
  BY <1>2

LEMMA CountingOf ==
  ASSUME NEW x, NEW n \in Nat
  PROVE  IsFiniteSet({x} \X (1 .. n)) /\ Cardinality({x} \X (1 .. n)) = n
<1>1. IsFiniteSet({x}) /\ Cardinality({x}) = 1
  BY FS_Singleton, Zenon
<1>2. IsFiniteSet(1 .. n) /\ Cardinality(1 .. n) = n
  BY Counting
<1>3. /\ IsFiniteSet({x} \X (1 .. n))
      /\ Cardinality({x} \X (1 .. n)) = Cardinality({x}) * Cardinality(1 .. n)
  BY <1>1, <1>2, FS_Product, Zenon
<1> QED
  BY <1>1, <1>2, <1>3

(* Finite sets without a common element.                                   *)
LEMMA DisjointUnion ==
  ASSUME NEW A, NEW B, IsFiniteSet(A), IsFiniteSet(B), A \cap B = {}
  PROVE  /\ IsFiniteSet(A \cup B)
         /\ Cardinality(A) \in Nat /\ Cardinality(B) \in Nat
         /\ Cardinality(A \cup B) = Cardinality(A) + Cardinality(B)
<1>1. Cardinality(A) \in Nat /\ Cardinality(B) \in Nat
  BY FS_CardinalityType, Zenon
<1>2. /\ IsFiniteSet(A \cup B)
      /\ Cardinality(A \cup B) = Cardinality(A) + Cardinality(B) - Cardinality(A \cap B)
  BY FS_Union, Zenon
<1>3. Cardinality(A \cap B) = 0
  BY FS_EmptySet
<1> QED
  BY <1>1, <1>2, <1>3

(* Quotient and remainder by any positive number. *)
LEMMA DivMod ==
  ASSUME NEW n \in Nat \ {0}, NEW a \in Nat
  PROVE  /\ a \div n \in Nat /\ a % n \in 0 .. n - 1
         /\ a = (a \div n) * n + (a % n)
<1>1. a \div n \in Int /\ a % n \in 0 .. n - 1
  OBVIOUS
<1>2. a = (a \div n) * n + (a % n)
  OBVIOUS
<1>3. a \div n \in Nat
  OBVIOUS
<1> QED
  BY <1>1, <1>2, <1>3

LEMMA DivModUnique ==
  ASSUME NEW n \in Nat \ {0}, NEW q \in Nat, NEW r \in 0 .. n - 1
  PROVE  (q * n + r) \div n = q /\ (q * n + r) % n = r
OBVIOUS

LEMMA ModShift ==
  ASSUME NEW n \in Nat \ {0}, NEW a \in Nat
  PROVE  (a + n) % n = a % n
<1> DEFINE q == a \div n
           r == a % n
<1>1. q \in Nat /\ r \in 0 .. n - 1 /\ a = q * n + r
  BY DivMod
<1> HIDE DEF q, r
<1>2. a + n = (q + 1) * n + r
  BY <1>1
<1>3. (a + n) % n = r /\ a % n = r
  BY <1>1, <1>2, DivModUnique
<1> QED
  BY <1>3
-----------------------------------------------------------------------------
(* Recursion: a sequence of values, each computed from the one before it.  *)

Approx(c, F, V, n) ==
  {h \in [0 .. n -> V] : h[0] = c /\ \A i \in 0 .. n - 1 : h[i + 1] = F[<<i, h[i]>>]}

LEMMA ApproxExists ==
  ASSUME NEW V, NEW c \in V, NEW F \in [Nat \X V -> V], NEW n \in Nat
  PROVE  Approx(c, F, V, n) # {}
<1> DEFINE S == {k \in Nat : Approx(c, F, V, k) # {}}
<1>1. 0 \in S
  <2>1. [i \in 0 .. 0 |-> c] \in Approx(c, F, V, 0)
    BY DEF Approx
  <2> QED
    BY <2>1
<1>2. ASSUME NEW k \in Nat, k \in S
      PROVE  k + 1 \in S
  <2>1. PICK h \in Approx(c, F, V, k) : TRUE
    BY <1>2
  <2> DEFINE g == [i \in 0 .. k + 1 |-> IF i <= k THEN h[i] ELSE F[<<k, h[k]>>]]
  <2>2. h \in [0 .. k -> V] /\ h[0] = c /\ \A i \in 0 .. k - 1 : h[i + 1] = F[<<i, h[i]>>]
    BY <2>1 DEF Approx
  <2>3. F[<<k, h[k]>>] \in V
    BY <2>2
  <2>4. g \in [0 .. k + 1 -> V]
    BY <2>2, <2>3
  <2>5. ASSUME NEW i \in 0 .. k
        PROVE  g[i + 1] = F[<<i, g[i]>>]
    <3>1. CASE i = k
      <4>1. g[k] = h[k] /\ g[k + 1] = F[<<k, h[k]>>]
        OBVIOUS
      <4> QED
        BY <3>1, <4>1
    <3>2. CASE i # k
      <4>1. i \in 0 .. k - 1 /\ g[i + 1] = h[i + 1] /\ g[i] = h[i]
        BY <3>2
      <4> QED
        BY <4>1, <2>2
    <3> QED
      BY <3>1, <3>2
  <2>6. g \in Approx(c, F, V, k + 1)
    <3>1. g[0] = c /\ k + 1 - 1 = k
      BY <2>2
    <3> HIDE DEF g
    <3> QED
      BY <2>4, <2>5, <3>1 DEF Approx
  <2> QED
    BY <2>6
<1> HIDE DEF S
<1>3. n \in S
  BY <1>1, <1>2, Induction
<1> QED
  BY <1>3 DEF S

LEMMA ApproxUnique ==
  ASSUME NEW V, NEW c \in V, NEW F \in [Nat \X V -> V],
         NEW m \in Nat, NEW n \in Nat,
         NEW g \in Approx(c, F, V, m), NEW h \in Approx(c, F, V, n)
  PROVE  \A i \in Nat : i <= m /\ i <= n => g[i] = h[i]
<1> DEFINE S == {i \in Nat : i <= m /\ i <= n => g[i] = h[i]}
<1>1. 0 \in S
  BY DEF Approx
<1>2. ASSUME NEW i \in Nat, i \in S
      PROVE  i + 1 \in S
  <2>1. CASE i + 1 <= m /\ i + 1 <= n
    <3>1. i \in 0 .. m - 1 /\ i \in 0 .. n - 1 /\ g[i] = h[i]
      BY <1>2, <2>1
    <3>2. g[i + 1] = F[<<i, g[i]>>] /\ h[i + 1] = F[<<i, h[i]>>]
      BY <3>1 DEF Approx
    <3> QED
      BY <3>1, <3>2
  <2>2. CASE ~(i + 1 <= m /\ i + 1 <= n)
    BY <2>2
  <2> QED
    BY <2>1, <2>2
<1> HIDE DEF S
<1>3. \A i \in Nat : i \in S
  BY <1>1, <1>2, Induction
<1> QED
  BY <1>3 DEF S

Steps(g, c, F, V) ==
  g \in [Nat -> V] /\ g[0] = c /\ \A n \in Nat : g[n + 1] = F[<<n, g[n]>>]

LEMMA Recursion ==
  ASSUME NEW V, NEW c \in V, NEW F \in [Nat \X V -> V]
  PROVE  \E g : Steps(g, c, F, V)
<1> DEFINE H(n) == CHOOSE h \in Approx(c, F, V, n) : TRUE
           g == [n \in Nat |-> H(n)[n]]
<1>1. \A n \in Nat : H(n) \in Approx(c, F, V, n)
  BY ApproxExists
<1> HIDE DEF H
<1>2. \A n \in Nat : H(n) \in [0 .. n -> V] /\ H(n)[0] = c
                     /\ \A i \in 0 .. n - 1 : H(n)[i + 1] = F[<<i, H(n)[i]>>]
  BY <1>1 DEF Approx
<1>3. g \in [Nat -> V] /\ g[0] = c
  BY <1>2
<1>4. ASSUME NEW n \in Nat
      PROVE  g[n + 1] = F[<<n, g[n]>>]
  <2>1. H(n + 1)[n] = H(n)[n]
    BY <1>1, ApproxUnique
  <2>2. H(n + 1)[n + 1] = F[<<n, H(n + 1)[n]>>]
    BY <1>2
  <2> QED
    BY <2>1, <2>2
<1> HIDE DEF g
<1>5. Steps(g, c, F, V)
  BY <1>3, <1>4 DEF Steps
<1> QED
  BY <1>5
(***************************************************************************)
(* A function on 0 .. N whose value at p comes from its value at a later   *)
(* place: where p is in G, from the one at next[p].                        *)
(***************************************************************************)
LEMMA Upward ==
  ASSUME NEW N \in Nat, NEW V, NEW G \in SUBSET (0 .. N), NEW stop \in [0 .. N -> V],
         NEW next \in [G -> 0 .. N], NEW step \in [G \X V -> V],
         \A p \in G : next[p] > p
  PROVE  \E f \in [0 .. N -> V] :
           \A p \in 0 .. N : f[p] = IF p \in G THEN step[<<p, f[next[p]]>>] ELSE stop[p]
<1> DEFINE W == [0 .. N -> V]
           Value(h, p) == IF p \in G THEN step[<<p, h[next[p]]>>] ELSE stop[p]
           Round(h) == [p \in 0 .. N |-> Value(h, p)]
           F == [e \in Nat \X W |-> Round(e[2])]
<1>1. \A p \in G : p \in 0 .. N /\ next[p] \in 0 .. N
  OBVIOUS
<1>2. ASSUME NEW h \in W
      PROVE  Round(h) \in W
  <2>1. \A p \in G : step[<<p, h[next[p]]>>] \in V
    BY <1>1
  <2>2. \A p \in 0 .. N : Value(h, p) \in V
    BY <2>1
  <2> HIDE DEF Value
  <2> QED
    BY <2>2
<1>3. F \in [Nat \X W -> W] /\ stop \in W
  BY <1>2
<1> HIDE DEF W, F, Round
<1>4. PICK g : Steps(g, stop, F, W)
  BY <1>3, Recursion
<1>5. g \in [Nat -> W] /\ g[0] = stop /\ \A n \in Nat : g[n + 1] = Round(g[n])
  BY <1>4 DEF Steps, F
<1> DEFINE Stable(n) == \A p \in 0 .. N : p + n >= N => g[n + 1][p] = g[n][p]
           S == {n \in Nat : Stable(n)}
<1>6. \A n \in Nat : \A p \in 0 .. N : g[n + 1][p] = Value(g[n], p)
  <2> HIDE DEF Value
  <2>1. \A h : \A p \in 0 .. N : Round(h)[p] = Value(h, p)
    BY DEF Round
  <2> QED
    BY <1>5, <2>1, Zenon
<1>7. Stable(0)
  <2> SUFFICES ASSUME NEW p \in 0 .. N, p + 0 >= N
               PROVE  g[0 + 1][p] = g[0][p]
    OBVIOUS
  <2>1. p = N
    OBVIOUS
  <2>2. p \notin G
    BY <1>1, <2>1
  <2>3. g[0 + 1][p] = stop[p]
    BY <1>6, <2>2
  <2> QED
    BY <1>5, <2>3
<1>8. ASSUME NEW n \in Nat, Stable(n)
      PROVE  Stable(n + 1)
  <2> SUFFICES ASSUME NEW p \in 0 .. N, p + (n + 1) >= N
               PROVE  g[(n + 1) + 1][p] = g[n + 1][p]
    OBVIOUS
  <2>1. g[(n + 1) + 1][p] = Value(g[n + 1], p) /\ g[n + 1][p] = Value(g[n], p)
    BY <1>6
  <2>2. CASE p \in G
    <3> DEFINE q == next[p]
    <3>1. q \in 0 .. N /\ q > p
      BY <2>2
    <3> HIDE DEF q
    <3>2. q + n >= N
      BY <3>1
    <3>3. g[n + 1][q] = g[n][q]
      BY <1>8, <3>1, <3>2
    <3> QED
      BY <2>1, <3>3 DEF q
  <2>3. CASE p \notin G
    BY <2>1, <2>3
  <2> QED
    BY <2>2, <2>3
<1>9. N \in S
  <2> HIDE DEF Stable
  <2>1. 0 \in S /\ \A n \in Nat : n \in S => n + 1 \in S
    BY <1>7, <1>8
  <2> HIDE DEF S
  <2> QED
    BY <2>1, Induction
<1>10. \A p \in 0 .. N : g[N + 1][p] = g[N][p]
  BY <1>9
<1>11. \A p \in 0 .. N : g[N][p] = Value(g[N], p)
  BY <1>6, <1>10
<1>12. g[N] \in [0 .. N -> V]
  BY <1>5 DEF W
<1> QED
  BY <1>11, <1>12
-----------------------------------------------------------------------------
(* FlattenSeq of the community modules, a recursive function over 1 .. n.  *)

Flattens(f, s, T) ==
  /\ f \in [1 .. Len(s) -> Seq(T)] /\ f[1] = s[1]
  /\ \A i \in 1 .. Len(s) - 1 : f[i + 1] = f[i] \o s[i + 1]

LEMMA FlattenExists ==
  ASSUME NEW T, NEW s \in Seq(Seq(T)), s # <<>>
  PROVE  \E f : Flattens(f, s, T)
<1> DEFINE n == Len(s)
           F == [e \in Nat \X Seq(T) |-> IF e[1] + 2 \in 1 .. n THEN e[2] \o s[e[1] + 2] ELSE e[2]]
<1>1. n \in Nat \ {0} /\ \A i \in 1 .. n : s[i] \in Seq(T)
  BY EmptySeq, ElementOfSeq
<1> HIDE DEF n
<1>2. F \in [Nat \X Seq(T) -> Seq(T)]
  BY <1>1, ConcatProperties
<1>3. \E g : Steps(g, s[1], F, Seq(T))
  <2> HIDE DEF F
  <2>1. s[1] \in Seq(T)
    BY <1>1
  <2> QED
    BY <1>2, <2>1, Recursion
<1>4. PICK g \in [Nat -> Seq(T)] : g[0] = s[1] /\ \A k \in Nat : g[k + 1] = F[<<k, g[k]>>]
  <2> HIDE DEF F
  <2> QED
    BY <1>3 DEF Steps
<1> DEFINE f == [i \in 1 .. n |-> g[i - 1]]
<1>5. f \in [1 .. n -> Seq(T)] /\ f[1] = s[1]
  <2>1. \A i \in 1 .. n : i - 1 \in Nat
    BY <1>1
  <2>2. f[1] = g[1 - 1] /\ 1 - 1 = 0
    BY <1>1
  <2> QED
    BY <2>1, <2>2, <1>4
<1>7. ASSUME NEW i \in 1 .. n - 1
      PROVE  f[i + 1] = f[i] \o s[i + 1]
  <2>1. PICK k \in Nat : k + 1 = i /\ k + 2 = i + 1 /\ i + 1 - 1 = i /\ i - 1 = k
    BY <1>1
  <2>2. f[i] = g[k] /\ f[i + 1] = g[i] /\ i + 1 \in 1 .. n
    BY <1>1, <2>1
  <2>3. g[i] = F[<<k, g[k]>>]
    BY <1>4, <2>1
  <2>4. <<k, g[k]>> \in Nat \X Seq(T) /\ g[k] \in Seq(T)
    BY <1>4
  <2>5. F[<<k, g[k]>>] = g[k] \o s[k + 2]
    BY <2>1, <2>2, <2>4
  <2> QED
    BY <2>1, <2>2, <2>3, <2>5
<1>6. Flattens(f, s, T)
  BY <1>5, <1>7 DEF Flattens, n
<1> QED
  BY <1>6

LEMMA FlattenIs ==
  ASSUME NEW T, NEW s \in Seq(Seq(T)), s # <<>>
  PROVE  \E f : Flattens(f, s, T) /\ FlattenSeq(s) = f[Len(s)]
<1> DEFINE Eq(f) == f = [i \in 1 .. Len(s) |-> IF i = 1 THEN s[i] ELSE f[i - 1] \o s[i]]
           c == CHOOSE f : Eq(f)
<1>1. Len(s) \in Nat \ {0} /\ \A i \in 1 .. Len(s) : s[i] \in Seq(T)
  BY EmptySeq, ElementOfSeq
<1>2. FlattenSeq(s) = c[Len(s)]
  BY <1>1 DEF FlattenSeq
<1>3. PICK f : Flattens(f, s, T)
  BY FlattenExists
<1>4. Eq(f)
  <2>1. ASSUME NEW i \in 1 .. Len(s)
        PROVE  f[i] = IF i = 1 THEN s[i] ELSE f[i - 1] \o s[i]
    <3>1. CASE i = 1
      BY <3>1, <1>3 DEF Flattens
    <3>2. CASE i # 1
      <4>1. PICK j \in 1 .. Len(s) - 1 : j + 1 = i /\ i - 1 = j
        BY <1>1, <3>2
      <4>2. f[j + 1] = f[j] \o s[j + 1]
        BY <1>3, <4>1 DEF Flattens
      <4> QED
        BY <3>2, <4>1, <4>2
    <3> QED
      BY <3>1, <3>2
  <2>2. f \in [1 .. Len(s) -> Seq(T)]
    BY <1>3 DEF Flattens
  <2> QED
    BY <2>1, <2>2
<1>5. Eq(c)
  <2> HIDE DEF Eq
  <2> QED
    BY <1>4
<1> HIDE DEF c
<1>6. \A i \in 1 .. Len(s) : c[i] = IF i = 1 THEN s[i] ELSE c[i - 1] \o s[i]
  BY <1>5
<1>10. ASSUME NEW j \in 1 .. Len(s) - 1
       PROVE  c[j + 1] = c[j] \o s[j + 1]
  <2>1. PICK i \in 1 .. Len(s) : i = j + 1 /\ i # 1 /\ i - 1 = j
    BY <1>1
  <2>2. c[i] = c[i - 1] \o s[i]
    BY <1>6, <2>1
  <2> QED
    BY <2>1, <2>2
<1>7. DOMAIN c = 1 .. Len(s) /\ c = [i \in 1 .. Len(s) |-> c[i]]
  BY <1>5
<1>8. \A i \in 1 .. Len(s) : c[i] \in Seq(T)
  <2> DEFINE S == {k \in Nat : k + 1 \in 1 .. Len(s) => c[k + 1] \in Seq(T)}
  <2>1. 0 \in S
    BY <1>1, <1>6
  <2>2. ASSUME NEW k \in Nat, k \in S
        PROVE  k + 1 \in S
    <3>1. CASE k + 1 + 1 \in 1 .. Len(s)
      <4>1. c[k + 1] \in Seq(T) /\ s[k + 1 + 1] \in Seq(T)
        BY <1>1, <2>2, <3>1
      <4>2. c[k + 1 + 1] = c[k + 1] \o s[k + 1 + 1]
        <5>1. k + 1 \in 1 .. Len(s) - 1
          BY <1>1, <3>1
        <5> QED
          BY <5>1, <1>10
      <4>3. c[k + 1] \o s[k + 1 + 1] \in Seq(T)
        BY <4>1, ConcatProperties
      <4>4. c[k + 1 + 1] \in Seq(T)
        BY <4>2, <4>3
      <4> HIDE DEF c
      <4> QED
        BY <4>4
    <3> QED
      BY <3>1
  <2> HIDE DEF S
  <2>3. \A k \in Nat : k \in S
    BY <2>1, <2>2, Induction
  <2>4. ASSUME NEW i \in 1 .. Len(s)
        PROVE  c[i] \in Seq(T)
    <3>1. i - 1 \in Nat /\ i - 1 + 1 = i
      BY <1>1
    <3> QED
      BY <2>3, <3>1 DEF S
  <2> QED
    BY <2>4
<1>9. Flattens(c, s, T)
  <2>1. c[1] = s[1]
    BY <1>1, <1>6
  <2>2. c \in [1 .. Len(s) -> Seq(T)]
    BY <1>7, <1>8
  <2> QED
    BY <2>1, <2>2, <1>10 DEF Flattens
<1> QED
  BY <1>2, <1>9

LEMMA FlattenEmpty == FlattenSeq(<<>>) = <<>>
BY DEF FlattenSeq

LEMMA FlattenType ==
  ASSUME NEW T, NEW s \in Seq(Seq(T))
  PROVE  FlattenSeq(s) \in Seq(T)
<1>1. CASE s = <<>>
  BY <1>1, FlattenEmpty, EmptySeq
<1>2. CASE s # <<>>
  <2>1. Len(s) \in Nat \ {0}
    BY <1>2, EmptySeq
  <2>2. PICK f : Flattens(f, s, T) /\ FlattenSeq(s) = f[Len(s)]
    BY <1>2, FlattenIs
  <2>3. f[Len(s)] \in Seq(T)
    BY <2>1, <2>2, SMTT(30) DEF Flattens
  <2> QED
    BY <2>2, <2>3
<1> QED
  BY <1>1, <1>2

(* The two solutions for a sequence and for its extension agree.           *)
LEMMA FlattenAppend ==
  ASSUME NEW T, NEW s \in Seq(Seq(T)), NEW x \in Seq(T)
  PROVE  FlattenSeq(Append(s, x)) = FlattenSeq(s) \o x
<1> DEFINE t == Append(s, x)
           n == Len(s)
<1>1. /\ n \in Nat /\ t \in Seq(Seq(T)) /\ t # <<>> /\ Len(t) = n + 1
      /\ \A i \in 1 .. n : t[i] = s[i]
      /\ t[n + 1] = x
  BY AppendProperties
<1> HIDE DEF t, n
<1>2. PICK g : Flattens(g, t, T) /\ FlattenSeq(t) = g[n + 1]
  BY <1>1, FlattenIs
<1>3. CASE s = <<>>
  <2>1. n = 0
    BY <1>3 DEF n
  <2>2. g[1] = x
    BY <1>1, <1>2, <2>1 DEF Flattens
  <2>3. FlattenSeq(s) \o x = x
    BY <1>3, FlattenEmpty, ConcatEmptySeq
  <2> QED
    BY <1>2, <2>1, <2>2, <2>3 DEF t
<1>4. CASE s # <<>>
  <2>1. n \in Nat \ {0}
    BY <1>4, EmptySeq DEF n
  <2>2. PICK f : Flattens(f, s, T) /\ FlattenSeq(s) = f[n]
    BY <1>4, FlattenIs DEF n
  <2> DEFINE S == {k \in Nat : k + 1 \in 1 .. n => g[k + 1] = f[k + 1]}
  <2>3. 0 \in S
    BY <1>1, <1>2, <2>1, <2>2 DEF Flattens
  <2>4. ASSUME NEW k \in Nat, k \in S
        PROVE  k + 1 \in S
    <3>1. CASE k + 1 + 1 \in 1 .. n
      <4>1. k + 1 \in 1 .. n - 1 /\ k + 1 \in 1 .. n + 1 - 1 /\ k + 1 \in 1 .. n
        BY <2>1, <3>1
      <4>2. f[k + 1 + 1] = f[k + 1] \o s[k + 1 + 1]
        BY <2>2, <4>1 DEF Flattens, n
      <4>3. g[k + 1 + 1] = g[k + 1] \o t[k + 1 + 1]
        <5>1. k + 1 \in 1 .. Len(t) - 1
          BY <1>1, <4>1
        <5> QED
          BY <1>2, <5>1 DEF Flattens
      <4>4. t[k + 1 + 1] = s[k + 1 + 1] /\ g[k + 1] = f[k + 1]
        BY <1>1, <2>4, <3>1, <4>1
      <4>5. g[k + 1 + 1] = f[k + 1 + 1]
        BY <4>2, <4>3, <4>4
      <4> QED
        BY <4>5
    <3> QED
      BY <3>1
  <2> HIDE DEF S
  <2>5. n - 1 \in S
    BY <2>1, <2>3, <2>4, Induction, SMTT(30)
  <2>6. g[n] = f[n]
    BY <2>1, <2>5 DEF S
  <2>7. g[n + 1] = g[n] \o t[n + 1]
    <3>1. n \in 1 .. Len(t) - 1
      BY <1>1, <2>1
    <3> QED
      BY <1>2, <3>1 DEF Flattens
  <2> QED
    BY <1>1, <1>2, <2>2, <2>6, <2>7 DEF t
<1> QED
  BY <1>3, <1>4
-----------------------------------------------------------------------------
(* Induction on the sequences over a set, an element added at a time.      *)
LEMMA SeqInduction ==
  ASSUME NEW T, NEW S, <<>> \in S,
         \A s \in Seq(T) : \A x \in T : s \in S => Append(s, x) \in S
  PROVE  \A s \in Seq(T) : s \in S
<1> DEFINE P == {n \in Nat : \A s \in Seq(T) : Len(s) = n => s \in S}
<1>1. 0 \in P
  BY EmptySeq
<1>2. ASSUME NEW n \in Nat, n \in P
      PROVE  n + 1 \in P
  <2> SUFFICES ASSUME NEW s \in Seq(T), Len(s) = n + 1
               PROVE  s \in S
    OBVIOUS
  <2>1. s # <<>>
    BY <1>2, EmptySeq
  <2>2. PICK t \in Seq(T), x \in T : s = Append(t, x)
    BY <2>1, SequenceEmptyOrAppend
  <2>3. Len(t) \in Nat /\ Len(s) = Len(t) + 1
    BY <2>2, AppendProperties, LenProperties
  <2>4. Len(t) = n
    BY <2>3
  <2>5. t \in S
    BY <1>2, <2>4
  <2> QED
    BY <2>2, <2>5
<1> HIDE DEF P
<1>3. \A n \in Nat : n \in P
  BY <1>1, <1>2, Induction
<1> QED
  BY <1>3, LenProperties DEF P

LEMMA ToSetConcat ==
  ASSUME NEW T, NEW s \in Seq(T), NEW t \in Seq(T)
  PROVE  ToSet(s \o t) = ToSet(s) \cup ToSet(t)
<1> DEFINE u == s \o t
<1>1. /\ Len(s) \in Nat /\ DOMAIN s = 1 .. Len(s) /\ Len(t) \in Nat /\ DOMAIN t = 1 .. Len(t)
  BY LenProperties
<1>2. /\ u \in Seq(T) /\ Len(u) = Len(s) + Len(t)
      /\ \A i \in 1 .. Len(s) + Len(t) : u[i] = IF i <= Len(s) THEN s[i] ELSE t[i - Len(s)]
  BY ConcatProperties
<1>3. DOMAIN u = 1 .. Len(s) + Len(t)
  BY <1>2, LenProperties
<1> HIDE DEF u
<1>4. \A i \in DOMAIN u : u[i] \in ToSet(s) \cup ToSet(t)
  <2> SUFFICES ASSUME NEW i \in DOMAIN u PROVE u[i] \in ToSet(s) \cup ToSet(t)
    OBVIOUS
  <2>1. CASE i <= Len(s)
    <3>1. i \in DOMAIN s /\ u[i] = s[i]
      BY <1>1, <1>2, <1>3, <2>1
    <3> QED
      BY <3>1 DEF ToSet
  <2>2. CASE ~(i <= Len(s))
    <3>1. i - Len(s) \in DOMAIN t /\ u[i] = t[i - Len(s)]
      BY <1>1, <1>2, <1>3, <2>2
    <3> QED
      BY <3>1 DEF ToSet
  <2> QED
    BY <2>1, <2>2
<1>5. \A i \in DOMAIN s : s[i] \in ToSet(u)
  <2> SUFFICES ASSUME NEW i \in DOMAIN s PROVE s[i] \in ToSet(u)
    OBVIOUS
  <2>1. i \in DOMAIN u /\ u[i] = s[i]
    BY <1>1, <1>2, <1>3
  <2> QED
    BY <2>1 DEF ToSet
<1>6. \A i \in DOMAIN t : t[i] \in ToSet(u)
  <2> SUFFICES ASSUME NEW i \in DOMAIN t PROVE t[i] \in ToSet(u)
    OBVIOUS
  <2>1. PICK j \in DOMAIN u : j = Len(s) + i /\ ~(j <= Len(s)) /\ j - Len(s) = i
    BY <1>1, <1>3
  <2>2. u[j] = t[i]
    BY <1>2, <1>3, <2>1
  <2> QED
    BY <2>2 DEF ToSet
<1>7. ToSet(u) \subseteq ToSet(s) \cup ToSet(t)
  BY <1>4 DEF ToSet
<1>8. ToSet(s) \subseteq ToSet(u) /\ ToSet(t) \subseteq ToSet(u)
  <2> DEFINE V == ToSet(u)
  <2>1. (\A i \in DOMAIN s : s[i] \in V) /\ \A i \in DOMAIN t : t[i] \in V
    BY <1>5, <1>6
  <2> HIDE DEF V
  <2>2. ToSet(s) \subseteq V /\ ToSet(t) \subseteq V
    BY <2>1 DEF ToSet
  <2> QED
    BY <2>2 DEF V
<1> QED
  BY <1>7, <1>8 DEF u

LEMMA InjectiveConcat ==
  ASSUME NEW T, NEW s \in Seq(T), NEW t \in Seq(T),
         IsInjective(s), IsInjective(t), ToSet(s) \cap ToSet(t) = {}
  PROVE  IsInjective(s \o t)
<1> DEFINE u == s \o t
<1>1. /\ Len(s) \in Nat /\ DOMAIN s = 1 .. Len(s) /\ Len(t) \in Nat /\ DOMAIN t = 1 .. Len(t)
  BY LenProperties
<1>2. /\ u \in Seq(T) /\ Len(u) = Len(s) + Len(t)
      /\ \A i \in 1 .. Len(s) + Len(t) : u[i] = IF i <= Len(s) THEN s[i] ELSE t[i - Len(s)]
  BY ConcatProperties
<1>3. DOMAIN u = 1 .. Len(s) + Len(t)
  BY <1>2, LenProperties
<1> HIDE DEF u
<1>4. \A i \in DOMAIN u :
        \/ i \in DOMAIN s /\ u[i] = s[i]
        \/ i - Len(s) \in DOMAIN t /\ u[i] = t[i - Len(s)]
  BY <1>1, <1>2, <1>3
<1>5. \A x \in DOMAIN s, y \in DOMAIN t : s[x] # t[y]
  BY DEF ToSet
<1> SUFFICES ASSUME NEW i \in DOMAIN u, NEW j \in DOMAIN u, u[i] = u[j]
             PROVE  i = j
  BY DEF IsInjective, u
<1>6. CASE i \in DOMAIN s /\ u[i] = s[i]
  <2>1. j \in DOMAIN s /\ u[j] = s[j]
    BY <1>4, <1>5, <1>6
  <2> QED
    BY <1>6, <2>1 DEF IsInjective
<1>7. CASE i - Len(s) \in DOMAIN t /\ u[i] = t[i - Len(s)]
  <2>1. j - Len(s) \in DOMAIN t /\ u[j] = t[j - Len(s)]
    BY <1>4, <1>5, <1>7
  <2>2. i - Len(s) = j - Len(s)
    BY <1>7, <2>1 DEF IsInjective
  <2> QED
    BY <1>1, <1>3, <2>2
<1> QED
  BY <1>4, <1>6, <1>7

LEMMA ToSetAppend ==
  ASSUME NEW T, NEW s \in Seq(T), NEW x \in T
  PROVE  ToSet(Append(s, x)) = ToSet(s) \cup {x}
<1>1. Append(s, x) = s \o <<x>> /\ <<x>> \in Seq(T)
  BY AppendIsConcat
<1>2. DOMAIN <<x>> = {1} /\ <<x>>[1] = x
  OBVIOUS
<1>3. ToSet(<<x>>) = {x}
  BY <1>2 DEF ToSet
<1>4. ToSet(s \o <<x>>) = ToSet(s) \cup ToSet(<<x>>)
  <2>1. \A u \in Seq(T) : ToSet(s \o u) = ToSet(s) \cup ToSet(u)
    BY ToSetConcat
  <2> QED
    BY <1>1, <2>1, Zenon
<1> QED
  BY <1>1, <1>3, <1>4

(* A sequence without repetitions is as long as it has elements.           *)
LEMMA InjectiveLength ==
  ASSUME NEW T, NEW s \in Seq(T), IsInjective(s)
  PROVE  IsFiniteSet(ToSet(s)) /\ Cardinality(ToSet(s)) = Len(s)
<1>1. Len(s) \in Nat /\ DOMAIN s = 1 .. Len(s) /\ s \in [1 .. Len(s) -> T]
  BY LenProperties
<1>2. s \in [1 .. Len(s) -> ToSet(s)] /\ \A y \in ToSet(s) : \E i \in 1 .. Len(s) : s[i] = y
  BY <1>1 DEF ToSet
<1>3. s \in Bijection(1 .. Len(s), ToSet(s))
  BY <1>1, <1>2, Zenon DEF Bijection, Injection, Surjection, IsInjective
<1>4. ExistsBijection(1 .. Len(s), ToSet(s))
  BY <1>3 DEF ExistsBijection
<1> QED
  BY <1>1, <1>4, FS_NatBijection, FS_CountingElements
-----------------------------------------------------------------------------
(* More of FlattenSeq: its elements, repetitions, and its parts.           *)

LEMMA FlattenMembers ==
  ASSUME NEW T
  PROVE  \A s \in Seq(Seq(T)) : ToSet(FlattenSeq(s)) = UNION {ToSet(s[i]) : i \in 1 .. Len(s)}
<1> DEFINE U(s) == UNION {ToSet(s[i]) : i \in 1 .. Len(s)}
           S == {s \in Seq(Seq(T)) : ToSet(FlattenSeq(s)) = U(s)}
<1>1. <<>> \in S
  <2>1. ToSet(<<>>) = {}
    BY DEF ToSet
  <2>2. U(<<>>) = {}
    OBVIOUS
  <2>3. <<>> \in Seq(Seq(T)) /\ FlattenSeq(<<>>) = <<>>
    BY EmptySeq, FlattenEmpty
  <2> QED
    BY <2>1, <2>2, <2>3, Zenon
<1>2. ASSUME NEW s \in Seq(Seq(T)), NEW x \in Seq(T), s \in S
      PROVE  Append(s, x) \in S
  <2> DEFINE t == Append(s, x)
  <2>1. /\ t \in Seq(Seq(T)) /\ Len(t) = Len(s) + 1 /\ Len(s) \in Nat
        /\ \A i \in 1 .. Len(s) : t[i] = s[i]
        /\ t[Len(s) + 1] = x
    BY AppendProperties, LenProperties
  <2>2. FlattenSeq(s) \in Seq(T) /\ FlattenSeq(t) = FlattenSeq(s) \o x
    BY FlattenType, FlattenAppend
  <2>3. ToSet(FlattenSeq(t)) = U(s) \cup ToSet(x)
    <3>1. ToSet(FlattenSeq(s)) = U(s)
      BY <1>2
    <3> HIDE DEF U, t
    <3> QED
      BY <2>2, <3>1, ToSetConcat
  <2>4. U(t) = U(s) \cup ToSet(x)
    <3>1. 1 .. Len(t) = (1 .. Len(s)) \cup {Len(s) + 1}
      BY <2>1
    <3> HIDE DEF t
    <3> QED
      BY <2>1, <3>1
  <2> HIDE DEF U, t
  <2>5. t \in S
    BY <2>1, <2>3, <2>4
  <2> QED
    BY <2>5 DEF t
<1> HIDE DEF S
<1>3. \A s \in Seq(Seq(T)) : s \in S
  BY <1>1, <1>2, SeqInduction
<1> QED
  BY <1>3 DEF S

(* The parts have no repetitions and no common elements.                   *)
Disjoint(s) ==
  /\ \A i \in 1 .. Len(s) : IsInjective(s[i])
  /\ \A i, j \in 1 .. Len(s) : i # j => ToSet(s[i]) \cap ToSet(s[j]) = {}

LEMMA FlattenInjective ==
  ASSUME NEW T
  PROVE  \A s \in Seq(Seq(T)) : Disjoint(s) => IsInjective(FlattenSeq(s))
<1> DEFINE S == {s \in Seq(Seq(T)) : Disjoint(s) => IsInjective(FlattenSeq(s))}
<1>1. <<>> \in S
  <2>1. IsInjective(<<>>)
    BY DEF IsInjective
  <2>2. <<>> \in Seq(Seq(T)) /\ FlattenSeq(<<>>) = <<>>
    BY EmptySeq, FlattenEmpty
  <2> QED
    BY <2>1, <2>2
<1>2. ASSUME NEW s \in Seq(Seq(T)), NEW x \in Seq(T), s \in S
      PROVE  Append(s, x) \in S
  <2> DEFINE t == Append(s, x)
  <2>1. /\ t \in Seq(Seq(T)) /\ Len(t) = Len(s) + 1 /\ Len(s) \in Nat
        /\ \A i \in 1 .. Len(s) : t[i] = s[i]
        /\ t[Len(s) + 1] = x
    BY AppendProperties, LenProperties
  <2>2. FlattenSeq(s) \in Seq(T) /\ FlattenSeq(t) = FlattenSeq(s) \o x
    BY FlattenType, FlattenAppend
  <2> HIDE DEF t
  <2>3. ASSUME Disjoint(t) PROVE IsInjective(FlattenSeq(t))
    <3>1. \A i \in 1 .. Len(s) : i \in 1 .. Len(t) /\ i # Len(s) + 1
      BY <2>1
    <3>2. Len(s) + 1 \in 1 .. Len(t)
      BY <2>1
    <3>3. Disjoint(s)
      <4>1. ASSUME NEW i \in 1 .. Len(s) PROVE IsInjective(s[i])
        BY <2>1, <2>3, <3>1, Zenon DEF Disjoint
      <4>2. ASSUME NEW i \in 1 .. Len(s), NEW j \in 1 .. Len(s), i # j
            PROVE  ToSet(s[i]) \cap ToSet(s[j]) = {}
        BY <2>1, <2>3, <3>1, <4>2, Zenon DEF Disjoint
      <4> QED
        BY <4>1, <4>2 DEF Disjoint
    <3>4. IsInjective(FlattenSeq(s)) /\ IsInjective(x)
      <4>1. IsInjective(x)
        BY <2>1, <2>3, <3>2, Zenon DEF Disjoint
      <4> QED
        BY <1>2, <3>3, <4>1
    <3>5. ToSet(FlattenSeq(s)) \cap ToSet(x) = {}
      <4>1. \A i \in 1 .. Len(s) : ToSet(s[i]) \cap ToSet(x) = {}
        BY <2>1, <2>3, <3>1, <3>2, Zenon DEF Disjoint
      <4>2. ToSet(FlattenSeq(s)) = UNION {ToSet(s[i]) : i \in 1 .. Len(s)}
        BY FlattenMembers
      <4> QED
        BY <4>1, <4>2
    <3> QED
      BY <2>2, <3>4, <3>5, InjectiveConcat
  <2>4. t \in S
    BY <2>1, <2>3
  <2> QED
    BY <2>4 DEF t
<1> HIDE DEF S
<1>3. \A s \in Seq(Seq(T)) : s \in S
  BY <1>1, <1>2, SeqInduction
<1> QED
  BY <1>3 DEF S

LEMMA FlattenConcat ==
  ASSUME NEW T, NEW s \in Seq(Seq(T))
  PROVE  \A t \in Seq(Seq(T)) : FlattenSeq(s \o t) = FlattenSeq(s) \o FlattenSeq(t)
<1> DEFINE S == {t \in Seq(Seq(T)) : FlattenSeq(s \o t) = FlattenSeq(s) \o FlattenSeq(t)}
<1>0. FlattenSeq(s) \in Seq(T)
  BY FlattenType
<1>1. <<>> \in S
  <2>1. s \o <<>> = s /\ <<>> \in Seq(Seq(T))
    BY ConcatEmptySeq, EmptySeq
  <2>2. FlattenSeq(s) \o FlattenSeq(<<>>) = FlattenSeq(s)
    BY <1>0, FlattenEmpty, ConcatEmptySeq
  <2> QED
    BY <2>1, <2>2
<1>2. ASSUME NEW t \in Seq(Seq(T)), NEW x \in Seq(T), t \in S
      PROVE  Append(t, x) \in S
  <2>1. Append(t, x) \in Seq(Seq(T)) /\ s \o t \in Seq(Seq(T)) /\ FlattenSeq(t) \in Seq(T)
    BY AppendProperties, ConcatProperties, FlattenType
  <2>2. s \o Append(t, x) = Append(s \o t, x)
    <3>1. <<x>> \in Seq(Seq(T))
      OBVIOUS
    <3>2. Append(t, x) = t \o <<x>> /\ Append(s \o t, x) = (s \o t) \o <<x>>
      BY <2>1, AppendIsConcat
    <3> QED
      BY <3>1, <3>2, ConcatAssociative
  <2>3. FlattenSeq(Append(s \o t, x)) = FlattenSeq(s \o t) \o x
    BY <2>1, FlattenAppend
  <2>4. FlattenSeq(Append(t, x)) = FlattenSeq(t) \o x
    BY FlattenAppend
  <2>5. (FlattenSeq(s) \o FlattenSeq(t)) \o x = FlattenSeq(s) \o (FlattenSeq(t) \o x)
    BY <1>0, <2>1, ConcatAssociative
  <2>6. FlattenSeq(s \o t) = FlattenSeq(s) \o FlattenSeq(t)
    BY <1>2
  <2>7. FlattenSeq(s \o Append(t, x)) = FlattenSeq(s) \o FlattenSeq(Append(t, x))
    BY <2>2, <2>3, <2>4, <2>5, <2>6
  <2> QED
    BY <2>1, <2>7
<1> HIDE DEF S
<1>3. \A t \in Seq(Seq(T)) : t \in S
  BY <1>1, <1>2, SeqInduction
<1> QED
  BY <1>3 DEF S

(* Parts of one length: element j of part i is found by multiplication.    *)
Uniform(s, w) == \A i \in 1 .. Len(s) : Len(s[i]) = w

LEMMA OneMore ==
  ASSUME NEW n \in Nat, NEW w \in Nat
  PROVE  n * w \in Nat /\ (n + 1) * w = n * w + w
OBVIOUS

LEMMA FlattenUniform ==
  ASSUME NEW T, NEW w \in Nat
  PROVE  \A s \in Seq(Seq(T)) : Uniform(s, w) =>
           /\ Len(FlattenSeq(s)) = Len(s) * w
           /\ \A i \in 1 .. Len(s) : \A j \in 1 .. w :
                /\ (i - 1) * w + j \in 1 .. Len(s) * w
                /\ FlattenSeq(s)[(i - 1) * w + j] = s[i][j]
<1> DEFINE Found(s) == /\ Len(FlattenSeq(s)) = Len(s) * w
                       /\ \A i \in 1 .. Len(s) : \A j \in 1 .. w :
                            /\ (i - 1) * w + j \in 1 .. Len(s) * w
                            /\ FlattenSeq(s)[(i - 1) * w + j] = s[i][j]
           S == {s \in Seq(Seq(T)) : Uniform(s, w) => Found(s)}
<1>1. <<>> \in S
  <2>1. <<>> \in Seq(Seq(T)) /\ FlattenSeq(<<>>) = <<>> /\ Len(<<>>) = 0 /\ 0 * w = 0
    BY EmptySeq, FlattenEmpty
  <2>2. Found(<<>>)
    BY <2>1
  <2> HIDE DEF Found
  <2> QED
    BY <2>1, <2>2
<1>2. ASSUME NEW s \in Seq(Seq(T)), NEW x \in Seq(T), s \in S
      PROVE  Append(s, x) \in S
  <2> DEFINE t == Append(s, x)
             n == Len(s)
  <2>1. /\ t \in Seq(Seq(T)) /\ Len(t) = n + 1 /\ n \in Nat
        /\ \A i \in 1 .. n : t[i] = s[i]
        /\ t[n + 1] = x
    BY AppendProperties, LenProperties
  <2>2. FlattenSeq(s) \in Seq(T) /\ FlattenSeq(t) = FlattenSeq(s) \o x
    BY FlattenType, FlattenAppend
  <2> HIDE DEF t
  <2>3. ASSUME Uniform(t, w) PROVE Found(t)
    <3>1. Uniform(s, w) /\ Len(x) = w
      BY <2>1, <2>3 DEF Uniform
    <3>2. Found(s)
      BY <1>2, <3>1
    <3> DEFINE f == FlattenSeq(s)
    <3>3. /\ Len(f) = n * w /\ f \in Seq(T)
          /\ \A i \in 1 .. n : \A j \in 1 .. w :
               (i - 1) * w + j \in 1 .. n * w /\ f[(i - 1) * w + j] = s[i][j]
      BY <2>2, <3>2
    <3> HIDE DEF f, n
    <3> DEFINE m == n * w
    <3>4. m \in Nat /\ (n + 1) * w = m + w /\ (n + 1 - 1) * w = m
      <4>1. n \in Nat /\ n + 1 - 1 = n
        BY <2>1 DEF n
      <4> QED
        BY <4>1, OneMore
    <3> DEFINE u == f \o x
    <3>5. /\ Len(u) = m + w
          /\ \A i \in 1 .. m + w : u[i] = IF i <= m THEN f[i] ELSE x[i - m]
      <4>1. Len(f) = m /\ Len(x) = w /\ f \in Seq(T)
        BY <3>1, <3>3
      <4> HIDE DEF m
      <4> QED
        BY <4>1, ConcatProperties
    <3>6. \A i \in 1 .. n : \A j \in 1 .. w :
            (i - 1) * w + j \in 1 .. m /\ f[(i - 1) * w + j] = s[i][j]
      BY <3>3
    <3> HIDE DEF m, u
    <3>7. ASSUME NEW i \in 1 .. n + 1, NEW j \in 1 .. w
          PROVE  /\ (i - 1) * w + j \in 1 .. m + w
                 /\ u[(i - 1) * w + j] = t[i][j]
      <4> DEFINE p == (i - 1) * w + j
      <4>1. CASE i = n + 1
        <5>1. p = m + j
          BY <2>1, <3>4, <4>1
        <5> HIDE DEF p
        <5>2. p \in 1 .. m + w /\ ~(p <= m) /\ p - m = j
          BY <3>4, <5>1
        <5>3. u[p] = x[j] /\ t[i] = x
          BY <2>1, <3>5, <4>1, <5>2
        <5> QED
          BY <5>2, <5>3 DEF p
      <4>2. CASE i # n + 1
        <5>1. i \in 1 .. n
          BY <2>1, <4>2
        <5>2. p \in 1 .. m /\ f[p] = s[i][j]
          BY <3>6, <5>1
        <5> HIDE DEF p
        <5>3. p \in 1 .. m + w /\ p <= m
          BY <3>4, <5>2
        <5>4. u[p] = s[i][j]
          BY <3>5, <5>2, <5>3
        <5> QED
          BY <2>1, <5>1, <5>3, <5>4 DEF p
      <4> QED
        BY <4>1, <4>2
    <3>8. Len(t) * w = m + w /\ Len(t) = n + 1
      BY <2>1, <3>4
    <3>9. FlattenSeq(t) = u
      BY <2>2 DEF f, u
    <3> QED
      BY <3>5, <3>7, <3>8, <3>9
  <2> HIDE DEF Found
  <2>4. t \in S
    BY <2>1, <2>3
  <2> QED
    BY <2>4 DEF t
<1> HIDE DEF S
<1>3. \A s \in Seq(Seq(T)) : s \in S
  BY <1>1, <1>2, SeqInduction
<1> QED
  BY <1>3 DEF S
-----------------------------------------------------------------------------
(* A sequence of natural numbers that no longer rises settles.             *)
LEMMA Settles ==
  ASSUME NEW g \in [Nat -> Nat], NEW m \in Nat,
         \A k \in Nat : k >= m => g[k + 1] <= g[k]
  PROVE  \E t \in Nat : t >= m /\ \A k \in Nat : k >= t => g[k] = g[t]
<1> DEFINE T == {g[k] : k \in {j \in Nat : j >= m}}
<1>1. T \subseteq Nat /\ g[m] \in T
  OBVIOUS
<1>2. PICK x \in T : \A y \in T : x <= y
  <2> HIDE DEF T
  <2> QED
    BY <1>1, Smallest
<1>3. PICK t \in Nat : t >= m /\ x = g[t]
  BY <1>2
<1> DEFINE S == {n \in Nat : g[t + n] = g[t]}
<1>4. 0 \in S
  <2>1. t + 0 = t
    OBVIOUS
  <2> QED
    BY <2>1
<1>5. ASSUME NEW n \in Nat, n \in S
      PROVE  n + 1 \in S
  <2>1. t + n \in Nat /\ t + n >= m /\ t + (n + 1) = (t + n) + 1
    BY <1>3
  <2> DEFINE k == t + n
  <2>2. g[t] = g[k]
    BY <1>5
  <2> HIDE DEF k
  <2>3. g[k + 1] <= g[k] /\ g[k + 1] \in T /\ g[k + 1] \in Nat /\ g[t] \in Nat
    BY <1>3, <2>1 DEF k
  <2>4. g[t] <= g[k + 1]
    BY <1>2, <1>3, <2>3
  <2>5. g[k + 1] = g[t]
    BY <2>2, <2>3, <2>4
  <2> QED
    BY <2>1, <2>5 DEF k
<1>6. \A n \in Nat : n \in S
  <2> HIDE DEF S
  <2> QED
    BY <1>4, <1>5, Induction
<1>7. ASSUME NEW k \in Nat, k >= t
      PROVE  g[k] = g[t]
  <2>1. k - t \in Nat /\ t + (k - t) = k
    BY <1>3, <1>7
  <2> QED
    BY <1>6, <2>1
<1> QED
  BY <1>3, <1>7

(***************************************************************************)
(* Measures descend only so often: there is no endless sequence of them,   *)
(* each below the one before it.  Place by place from the first, each      *)
(* settles once those in front of it have.                                 *)
(***************************************************************************)
THEOREM NoEndlessDescent ==
  ASSUME NEW n \in Nat, NEW f \in [Nat -> Measures(n)],
         \A k \in Nat : Descends(n, f[k + 1], f[k])
  PROVE  FALSE
<1> DEFINE E(k, j) == f[k][j]
<1>1. \A k \in Nat : \A j \in 1 .. n : E(k, j) \in Nat
  BY DEF Measures
<1>2. \A k \in Nat : \E l \in 1 .. n :
        E(k + 1, l) < E(k, l) /\ \A j \in 1 .. l - 1 : E(k + 1, j) = E(k, j)
  BY DEF Descends, Below
<1> HIDE DEF E
<1> DEFINE Fixed(i, t) == \A k \in Nat : k >= t => \A j \in 1 .. i : E(k, j) = E(t, j)
           Settled(i) == i <= n => \E t \in Nat : Fixed(i, t)
           S == {i \in Nat : Settled(i)}
<1>3. Settled(0)
  <2>1. Fixed(0, 0)
    OBVIOUS
  <2> HIDE DEF Fixed
  <2> QED
    BY <2>1
<1>4. ASSUME NEW i \in Nat, Settled(i)
      PROVE  Settled(i + 1)
  <2> SUFFICES ASSUME i + 1 <= n
               PROVE  \E t \in Nat : Fixed(i + 1, t)
    BY Zenon
  <2>1. i <= n /\ i + 1 \in 1 .. n /\ i + 1 \in Nat
    OBVIOUS
  <2>2. PICK m \in Nat : Fixed(i, m)
    <3> HIDE DEF Fixed
    <3> QED
      BY <1>4, <2>1
  <2> DEFINE g == [k \in Nat |-> E(k, i + 1)]
  <2>3. g \in [Nat -> Nat] /\ \A k \in Nat : g[k] = E(k, i + 1)
    BY <1>1, <2>1
  <2> HIDE DEF g
  <2>4. ASSUME NEW k \in Nat, k >= m
        PROVE  g[k + 1] <= g[k]
    <3>1. PICK l \in 1 .. n :
            E(k + 1, l) < E(k, l) /\ \A j \in 1 .. l - 1 : E(k + 1, j) = E(k, j)
      BY <1>2
    <3>2. k + 1 \in Nat /\ k + 1 >= m
      BY <2>4
    <3>3. \A j \in 1 .. i : E(k + 1, j) = E(k, j)
      BY <2>2, <2>4, <3>2
    <3>4. E(k + 1, l) \in Nat /\ E(k, l) \in Nat
      BY <1>1, <3>2
    <3>5. l > i
      BY <3>3, <3>1, <3>4
    <3>6. E(k + 1, i + 1) \in Nat /\ E(k, i + 1) \in Nat
      BY <1>1, <2>1, <3>2
    <3>7. E(k + 1, i + 1) <= E(k, i + 1)
      <4>1. CASE l = i + 1
        BY <3>1, <3>6, <4>1
      <4>2. CASE i + 1 \in 1 .. l - 1
        BY <3>1, <3>6, <4>2
      <4> QED
        BY <3>5, <4>1, <4>2
    <3> QED
      BY <2>3, <3>2, <3>7
  <2>5. PICK t \in Nat : t >= m /\ \A k \in Nat : k >= t => g[k] = g[t]
    BY <2>3, <2>4, Settles
  <2>6. Fixed(i + 1, t)
    <3> SUFFICES ASSUME NEW k \in Nat, k >= t, NEW j \in 1 .. i + 1
                 PROVE  E(k, j) = E(t, j)
      OBVIOUS
    <3>1. CASE j = i + 1
      BY <2>3, <2>5, <3>1
    <3>2. CASE j \in 1 .. i
      <4>1. k >= m
        BY <2>5
      <4> QED
        BY <2>2, <2>5, <3>2, <4>1
    <3> QED
      BY <3>1, <3>2
  <2> HIDE DEF Fixed
  <2> QED
    BY <2>6
<1>5. n \in S
  <2> HIDE DEF Settled
  <2>1. 0 \in S /\ \A i \in Nat : i \in S => i + 1 \in S
    BY <1>3, <1>4
  <2> HIDE DEF S
  <2> QED
    BY <2>1, Induction
<1>6. PICK t \in Nat : Fixed(n, t)
  <2> HIDE DEF Fixed
  <2> QED
    BY <1>5
<1>7. t + 1 \in Nat /\ t + 1 >= t
  OBVIOUS
<1>8. PICK l \in 1 .. n : E(t + 1, l) < E(t, l)
  BY <1>2
<1>9. E(t + 1, l) = E(t, l) /\ E(t, l) \in Nat
  BY <1>1, <1>6, <1>7
<1> QED
  BY <1>8, <1>9
(* The measures of the loops: two and four numbers.                        *)
LEMMA Descends2 ==
  ASSUME NEW a \in Nat, NEW b \in Nat, NEW x \in Nat, NEW y \in Nat,
         a < x \/ (a = x /\ b < y)
  PROVE  Descends(2, <<a, b>>, <<x, y>>)
<1> DEFINE u == <<a, b>>
           v == <<x, y>>
<1>1. u \in Measures(2) /\ v \in Measures(2)
  BY DEF Measures
<1>2. u[1] = a /\ u[2] = b /\ v[1] = x /\ v[2] = y
  OBVIOUS
<1> HIDE DEF u, v
<1>3. \E i \in 1 .. 2 : u[i] < v[i] /\ \A k \in 1 .. i - 1 : u[k] = v[k]
  <2>1. CASE a < x
    BY <1>2, <2>1
  <2>2. CASE a = x /\ b < y
    BY <1>2, <2>2
  <2> QED
    BY <2>1, <2>2
<1> QED
  BY <1>1, <1>3 DEF Descends, Below, u, v

LEMMA Descends4 ==
  ASSUME NEW a \in Nat, NEW b \in Nat, NEW c \in Nat, NEW d \in Nat,
         NEW x \in Nat, NEW y \in Nat, NEW z \in Nat, NEW w \in Nat,
         \/ a < x
         \/ a = x /\ b < y
         \/ a = x /\ b = y /\ c < z
         \/ a = x /\ b = y /\ c = z /\ d < w
  PROVE  Descends(4, <<a, b, c, d>>, <<x, y, z, w>>)
<1> DEFINE u == <<a, b, c, d>>
           v == <<x, y, z, w>>
<1>1. u \in Measures(4) /\ v \in Measures(4)
  BY DEF Measures
<1>2. /\ u[1] = a /\ u[2] = b /\ u[3] = c /\ u[4] = d
      /\ v[1] = x /\ v[2] = y /\ v[3] = z /\ v[4] = w
  OBVIOUS
<1> HIDE DEF u, v
<1>3. \E i \in 1 .. 4 : u[i] < v[i] /\ \A k \in 1 .. i - 1 : u[k] = v[k]
  <2>1. CASE a < x
    BY <1>2, <2>1
  <2>2. CASE a = x /\ b < y
    <3>1. \A k \in 1 .. 2 - 1 : u[k] = v[k]
      BY <1>2, <2>2
    <3> QED
      BY <1>2, <2>2, <3>1
  <2>3. CASE a = x /\ b = y /\ c < z
    <3>1. \A k \in 1 .. 3 - 1 : u[k] = v[k]
      BY <1>2, <2>3
    <3> QED
      BY <1>2, <2>3, <3>1
  <2>4. CASE a = x /\ b = y /\ c = z /\ d < w
    <3>1. \A k \in 1 .. 4 - 1 : u[k] = v[k]
      BY <1>2, <2>4
    <3> QED
      BY <1>2, <2>4, <3>1
  <2> QED
    BY <2>1, <2>2, <2>3, <2>4
<1> QED
  BY <1>1, <1>3 DEF Descends, Below, u, v
=============================================================================
