----------------------------- MODULE DataLemmas -----------------------------
(***************************************************************************)
(* Facts about data that the proofs of several components rest on.         *)
(*                                                                         *)
(* Induction over the natural numbers, with sets in place of predicates,   *)
(* and what it gives about functions defined by recursion: a loop over a   *)
(* queue is such a function of the number of its rounds.                   *)
(*                                                                         *)
(* Counting: how many elements of a sequence are in a set, and how that    *)
(* number changes when one is appended or taken out.                       *)
(***************************************************************************)
EXTENDS Naturals, Sequences, SequencesExt, SequenceTheorems, FiniteSetTheorems,
        FunctionTheorems, WellFoundedInduction, TLAPS

-----------------------------------------------------------------------------
(* Induction.                                                              *)

\* Every set of natural numbers that is not empty has a least element.
LEMMA LeastNatural ==
  ASSUME NEW T, T \subseteq Nat, T # {}
  PROVE  \E m \in T : \A k \in T : m <= k
<1> DEFINE R == {p \in Nat \X Nat : p[1] < p[2]}
<1>1. OpToRel(<, Nat) = R
  BY Zenon DEF OpToRel
<1>2. IsWellFoundedOn(R, Nat)
  BY <1>1, NatLessThanWellFounded, Zenon
<1>3. \A k, m \in Nat : k < m => <<k, m>> \in R
  OBVIOUS
<1> HIDE DEF R
<1>4. PICK m \in T : \A k \in T : ~ (<<k, m>> \in R)
  BY <1>2, WFMin
<1>5. ASSUME NEW k \in T
      PROVE  m <= k
  <2>1. m \in Nat /\ k \in Nat /\ ~ (k < m)
    BY <1>3, <1>4
  <2> QED BY <2>1
<1> QED BY <1>5

\* A set with 0 and with the successor of each of its numbers has them all.
LEMMA InductionOnSet ==
  ASSUME NEW T, 0 \in T, \A n \in Nat : n \in T => n + 1 \in T
  PROVE  \A n \in Nat : n \in T
<1> SUFFICES ASSUME NEW n \in Nat, n \notin T PROVE FALSE
  OBVIOUS
<1>1. PICK m \in Nat \ T : \A k \in Nat \ T : m <= k
  BY LeastNatural
<1>2. m # 0 /\ m - 1 \in Nat /\ ~ (m <= m - 1)
  BY <1>1
<1>3. m - 1 \in T
  BY <1>1, <1>2
<1> QED BY <1>1, <1>2, <1>3

\* The induction may stop at a bound.
LEMMA InductionUpTo ==
  ASSUME NEW N \in Nat, NEW T, 0 \in T, \A n \in 0 .. N - 1 : n \in T => n + 1 \in T
  PROVE  \A n \in 0 .. N : n \in T
<1> DEFINE U == {n \in Nat : n <= N => n \in T}
<1>1. 0 \in U
  OBVIOUS
<1>2. \A n \in Nat : n \in U => n + 1 \in U
  OBVIOUS
<1> HIDE DEF U
<1>3. \A n \in Nat : n \in U
  BY <1>1, <1>2, InductionOnSet
<1> QED BY <1>3 DEF U

\* f has the values of a loop after each of its N rounds.
IsLoop(f, N, S, start, Round) ==
  /\ f \in [0 .. N -> S]
  /\ f[0] = start
  /\ \A k \in 1 .. N : f[k] = Round[k][f[k - 1]]

\* A function of the rounds of a loop exists: each round takes the value of the
\* last one to a value of the same set.
LEMMA LoopExists ==
  ASSUME NEW N \in Nat, NEW S, NEW start \in S, NEW Round \in [1 .. N -> [S -> S]]
  PROVE  \E f : IsLoop(f, N, S, start, Round)
<1> DEFINE Upto(n) == \E f : IsLoop(f, n, S, start, Round)
           T == {n \in 0 .. N : Upto(n)}
<1>1. 0 \in T
  <2> DEFINE g == [k \in 0 .. 0 |-> start]
  <2>1. g \in [0 .. 0 -> S] /\ g[0] = start /\ \A k \in 1 .. 0 : FALSE
    OBVIOUS
  <2>2. 0 \in 0 .. N
    OBVIOUS
  <2> HIDE DEF g
  <2>3. Upto(0)
    BY <2>1 DEF IsLoop
  <2> QED BY <2>2, <2>3
<1>2. ASSUME NEW n \in 0 .. N - 1, n \in T
      PROVE  n + 1 \in T
  <2>1. PICK f : IsLoop(f, n, S, start, Round)
    BY <1>2
  <2> HIDE DEF T
  <2> DEFINE next == Round[n + 1][f[n]]
             g == [k \in 0 .. n + 1 |-> IF k = n + 1 THEN next ELSE f[k]]
  <2>0. /\ f \in [0 .. n -> S] /\ f[0] = start
        /\ \A k \in 1 .. n : f[k] = Round[k][f[k - 1]]
    BY <2>1 DEF IsLoop
  <2>2. n \in Nat /\ n + 1 \in 1 .. N /\ n + 1 \in 0 .. N
    OBVIOUS
  <2>3. f[n] \in S
    BY <2>0, <2>2
  <2>4. next \in S
    BY <2>2, <2>3
  <2> HIDE DEF next
  <2>5. g \in [0 .. n + 1 -> S]
    BY <2>0, <2>2, <2>4
  <2>6. g[0] = start
    <3>1. 0 \in 0 .. n + 1 /\ 0 # n + 1
      BY <2>2
    <3>2. g[0] = f[0]
      BY <3>1
    <3> QED BY <2>0, <3>2
  <2>7. ASSUME NEW k \in 1 .. n + 1
        PROVE  g[k] = Round[k][g[k - 1]]
    <3>1. CASE k = n + 1
      <4>1. g[k] = next /\ g[k - 1] = f[n]
        BY <2>2, <3>1
      <4> QED BY <3>1, <4>1 DEF next
    <3>2. CASE k # n + 1
      <4>1. k \in 1 .. n /\ k - 1 \in 0 .. n
        BY <2>2, <3>2
      <4>2. g[k] = f[k] /\ g[k - 1] = f[k - 1]
        BY <2>2, <3>2, <4>1
      <4> QED BY <2>0, <4>1, <4>2
    <3> QED BY <3>1, <3>2
  <2> HIDE DEF g
  <2>8. Upto(n + 1)
    BY <2>5, <2>6, <2>7 DEF IsLoop
  <2> QED BY <2>2, <2>8 DEF T
<1> HIDE DEF T
<1>3. N \in T
  <2> HIDE DEF Upto
  <2>1. \A n \in 0 .. N - 1 : n \in T => n + 1 \in T
    BY <1>2
  <2>2. \A n \in 0 .. N : n \in T
    BY <1>1, <2>1, InductionUpTo, Zenon
  <2> QED BY <2>2
<1> QED BY <1>3 DEF T

-----------------------------------------------------------------------------
(* Removing an element of a sequence.                                      *)

\* The elements of a sequence after one is removed.
LEMMA RemoveAtTyped ==
  ASSUME NEW S, NEW s \in Seq(S), NEW k \in 1 .. Len(s)
  PROVE  /\ RemoveAt(s, k) \in Seq(S)
         /\ Len(RemoveAt(s, k)) = Len(s) - 1
         /\ \A i \in 1 .. Len(s) - 1 :
              RemoveAt(s, k)[i] = IF i < k THEN s[i] ELSE s[i + 1]
<1> DEFINE a == SubSeq(s, 1, k - 1)
           b == SubSeq(s, k + 1, Len(s))
<1>1. /\ a \in Seq(S) /\ Len(a) = k - 1
      /\ \A i \in 1 .. k - 1 : a[i] = s[i]
  BY SubSeqProperties
<1>2. /\ b \in Seq(S) /\ Len(b) = Len(s) - k
      /\ \A i \in 1 .. Len(s) - k : b[i] = s[k + i]
  BY SubSeqProperties
<1> HIDE DEF a, b
<1>0. Len(s) \in Nat /\ k \in Nat /\ k - 1 + (Len(s) - k) = Len(s) - 1
  OBVIOUS
<1>3. /\ a \o b \in Seq(S) /\ Len(a \o b) = Len(s) - 1
      /\ \A i \in 1 .. Len(s) - 1 :
           (a \o b)[i] = IF i <= k - 1 THEN a[i] ELSE b[i - (k - 1)]
  <2>1. /\ a \o b \in Seq(S) /\ Len(a \o b) = Len(a) + Len(b)
        /\ \A i \in 1 .. Len(a) + Len(b) :
             (a \o b)[i] = IF i <= Len(a) THEN a[i] ELSE b[i - Len(a)]
    BY <1>1, <1>2, ConcatProperties
  <2>2. Len(a) + Len(b) = Len(s) - 1
    BY <1>0, <1>1, <1>2
  <2> QED BY <2>1, <2>2, <1>1
<1>4. RemoveAt(s, k) = a \o b
  BY DEF RemoveAt, a, b
<1>5. \A i \in 1 .. Len(s) - 1 : i >= k => b[i - (k - 1)] = s[i + 1]
  BY <1>2
<1> QED BY <1>1, <1>3, <1>4, <1>5

-----------------------------------------------------------------------------
(* Counting.                                                               *)

PlacesIn(q, A) == {i \in DOMAIN q : q[i] \in A}
CountIn(q, A) == Cardinality(PlacesIn(q, A))
One(b) == IF b THEN 1 ELSE 0

\* There are finitely many places, at most as many as the sequence is long.
LEMMA PlacesFinite ==
  ASSUME NEW S, NEW q \in Seq(S), NEW A
  PROVE  IsFiniteSet(PlacesIn(q, A)) /\ CountIn(q, A) \in Nat /\ CountIn(q, A) <= Len(q)
<1>1. IsFiniteSet(1 .. Len(q)) /\ Cardinality(1 .. Len(q)) = Len(q)
  <2>1. 1 \in Int /\ Len(q) \in Int /\ Len(q) >= 0
    OBVIOUS
  <2> QED BY <2>1, FS_Interval
<1>2. PlacesIn(q, A) \in SUBSET (1 .. Len(q))
  BY DEF PlacesIn
<1> QED BY <1>1, <1>2, FS_Subset, FS_CardinalityType DEF CountIn

\* Nothing is counted if and only if nothing is there.
LEMMA CountNothing ==
  ASSUME NEW S, NEW q \in Seq(S), NEW A
  PROVE  CountIn(q, A) = 0 <=> \A i \in DOMAIN q : q[i] \notin A
<1>1. CountIn(q, A) = 0 <=> PlacesIn(q, A) = {}
  BY PlacesFinite, FS_EmptySet DEF CountIn
<1> QED BY <1>1 DEF PlacesIn

\* Everything is counted if everything is in the set.
LEMMA CountEverything ==
  ASSUME NEW A, NEW q \in Seq(A)
  PROVE  CountIn(q, A) = Len(q)
<1>1. IsFiniteSet(1 .. Len(q)) /\ Cardinality(1 .. Len(q)) = Len(q)
  <2>1. 1 \in Int /\ Len(q) \in Int /\ Len(q) >= 0
    OBVIOUS
  <2> QED BY <2>1, FS_Interval
<1>2. PlacesIn(q, A) = 1 .. Len(q)
  BY DEF PlacesIn
<1> QED BY <1>1, <1>2 DEF CountIn

\* The count grows with the set.
LEMMA CountMonotone ==
  ASSUME NEW S, NEW q \in Seq(S), NEW A, NEW B, A \subseteq B
  PROVE  CountIn(q, A) <= CountIn(q, B)
<1>1. PlacesIn(q, A) \in SUBSET PlacesIn(q, B)
  BY DEF PlacesIn
<1> QED BY <1>1, PlacesFinite, FS_Subset DEF CountIn

\* An element appended is one more if it is in the set.
LEMMA CountAppend ==
  ASSUME NEW S, NEW q \in Seq(S), NEW e \in S, NEW A
  PROVE  /\ Append(q, e) \in Seq(S)
         /\ CountIn(Append(q, e), A) = CountIn(q, A) + One(e \in A)
<1> DEFINE n == Len(q) + 1
           r == Append(q, e)
<1>1. r \in Seq(S) /\ Len(r) = n /\ n \in Nat /\ r[n] = e
  OBVIOUS
<1>2. \A i \in 1 .. Len(q) : r[i] = q[i]
  OBVIOUS
<1>3. DOMAIN q = 1 .. Len(q) /\ DOMAIN r = 1 .. n /\ 1 .. n = 1 .. Len(q) \cup {n}
      /\ n \notin 1 .. Len(q)
  BY <1>1
<1> HIDE DEF r, n
<1>4. PlacesIn(r, A) = IF e \in A THEN PlacesIn(q, A) \cup {n} ELSE PlacesIn(q, A)
  BY <1>1, <1>2, <1>3 DEF PlacesIn
<1>5. n \notin PlacesIn(q, A)
  BY <1>3 DEF PlacesIn
<1>6. CASE e \in A
  <2>1. CountIn(r, A) = Cardinality(PlacesIn(q, A) \cup {n})
    BY <1>4, <1>6 DEF CountIn
  <2>2. CountIn(r, A) = CountIn(q, A) + 1
    BY <2>1, <1>5, PlacesFinite, FS_AddElement DEF CountIn
  <2>3. One(e \in A) = 1
    BY <1>6 DEF One
  <2> QED BY <1>1, <2>2, <2>3 DEF r
<1>7. CASE e \notin A
  <2>1. CountIn(r, A) = CountIn(q, A)
    BY <1>4, <1>7 DEF CountIn
  <2>2. One(e \in A) = 0
    BY <1>7 DEF One
  <2>3. CountIn(q, A) + 0 = CountIn(q, A)
    BY PlacesFinite
  <2> QED BY <1>1, <2>1, <2>2, <2>3 DEF r
<1> QED BY <1>6, <1>7

\* An element taken out, at any place, is one less if it was in the set.
LEMMA CountRemove ==
  ASSUME NEW S, NEW q \in Seq(S), NEW k \in 1 .. Len(q), NEW A
  PROVE  /\ RemoveAt(q, k) \in Seq(S)
         /\ CountIn(q, A) = CountIn(RemoveAt(q, k), A) + One(q[k] \in A)
<1> DEFINE r == RemoveAt(q, k)
           I == PlacesIn(q, A)
           J == PlacesIn(r, A)
           g == [j \in J |-> IF j < k THEN j ELSE j + 1]
<1>1. /\ r \in Seq(S) /\ Len(r) = Len(q) - 1
      /\ \A i \in 1 .. Len(q) - 1 : r[i] = IF i < k THEN q[i] ELSE q[i + 1]
  BY RemoveAtTyped
<1>0. DOMAIN r = 1 .. Len(q) - 1 /\ DOMAIN q = 1 .. Len(q) /\ Len(q) \in Nat
  BY <1>1
<1> HIDE DEF r
<1>2. g \in [J -> I \ {k}]
  <2> SUFFICES ASSUME NEW j \in J PROVE (IF j < k THEN j ELSE j + 1) \in I \ {k}
    OBVIOUS
  <2> QED BY <1>0, <1>1 DEF PlacesIn
<1>3. \A a, b \in J : g[a] = g[b] => a = b
  BY <1>0 DEF PlacesIn
<1>4. ASSUME NEW i \in I \ {k}
      PROVE  \E j \in J : g[j] = i
  <2>1. CASE i < k
    BY <1>0, <1>1, <2>1 DEF PlacesIn
  <2>2. CASE i > k
    <3>1. i - 1 \in 1 .. Len(q) - 1 /\ ~ (i - 1 < k) /\ i - 1 + 1 = i
      BY <1>0, <2>2 DEF PlacesIn
    <3>2. i - 1 \in J
      BY <1>0, <1>1, <3>1 DEF PlacesIn
    <3> QED BY <3>1, <3>2
  <2>3. i < k \/ i > k
    BY <1>0 DEF PlacesIn
  <2> QED BY <2>1, <2>2, <2>3
<1> HIDE DEF g
<1>5. g \in Bijection(J, I \ {k})
  BY <1>2, <1>3, <1>4, Fun_IsBij
<1>6. ExistsBijection(J, I \ {k})
  BY <1>5, Fun_ExistsBij
<1> HIDE DEF I, J
<1>7. IsFiniteSet(I) /\ IsFiniteSet(J) /\ Cardinality(I) \in Nat /\ Cardinality(J) \in Nat
  BY <1>1, PlacesFinite DEF I, J, CountIn
<1>8. Cardinality(I \ {k}) = Cardinality(J)
  BY <1>6, <1>7, FS_Bijection
<1>9. Cardinality(I \ {k}) = IF k \in I THEN Cardinality(I) - 1 ELSE Cardinality(I)
  BY <1>7, FS_RemoveElement
<1>10. k \in I <=> q[k] \in A
  BY <1>0 DEF I, PlacesIn
<1>11. Cardinality(I) = Cardinality(J) + IF q[k] \in A THEN 1 ELSE 0
  BY <1>7, <1>8, <1>9, <1>10
<1> QED BY <1>1, <1>11 DEF CountIn, r, I, J, One

\* The head of a sequence is counted before it leaves.
LEMMA CountTail ==
  ASSUME NEW S, NEW q \in Seq(S), NEW A, q # <<>>
  PROVE  /\ Tail(q) \in Seq(S) /\ Head(q) \in S
         /\ CountIn(q, A) = CountIn(Tail(q), A) + One(Head(q) \in A)
<1>1. 1 \in 1 .. Len(q) /\ Head(q) = q[1]
  BY EmptySeq
<1>2. Tail(q) = RemoveAt(q, 1)
  <2>1. /\ Tail(q) \in Seq(S) /\ Len(Tail(q)) = Len(q) - 1
        /\ \A i \in 1 .. Len(q) - 1 : Tail(q)[i] = q[i + 1]
    BY HeadTailProperties
  <2>2. /\ RemoveAt(q, 1) \in Seq(S) /\ Len(RemoveAt(q, 1)) = Len(q) - 1
        /\ \A i \in 1 .. Len(q) - 1 : RemoveAt(q, 1)[i] = IF i < 1 THEN q[i] ELSE q[i + 1]
    BY <1>1, RemoveAtTyped
  <2>3. \A i \in 1 .. Len(q) - 1 : Tail(q)[i] = RemoveAt(q, 1)[i]
    BY <2>1, <2>2
  <2> QED BY <2>1, <2>2, <2>3, SeqEqual
<1>3. q[1] \in S
  BY <1>1
<1> QED BY <1>1, <1>2, <1>3, CountRemove
=============================================================================
