-------------------------- MODULE BmmTransmitProofs --------------------------
(***************************************************************************)
(* What is proved of the transmit path of an offloaded socket: it accounts *)
(* for every segment while its channel is there, and confirms no request   *)
(* twice.                                                                  *)
(***************************************************************************)
EXTENDS BmmTransmit, SequenceTheorems, DataLemmas, TLAPS

-----------------------------------------------------------------------------
(* Sums.                                                                   *)

\* A sum is what a loop over the sequence ends with.
LEMMA TotalIs ==
  ASSUME NEW s \in Seq(Int), NEW f,
         IsLoop(f, Len(s), Int, 0, [k \in 1 .. Len(s) |-> [n \in Int |-> n + s[k]]])
  PROVE  Total(s) = f[Len(s)] /\ Total(s) \in Int
<1> DEFINE N == Len(s)
           F(g) == [k \in 0 .. N |-> IF k = 0 THEN 0 ELSE g[k - 1] + s[k]]
           h == CHOOSE g : g = F(g)
<1>1. N \in Nat /\ \A k \in 1 .. N : s[k] \in Int
  OBVIOUS
<1>2. Total(s) = h[N]
  BY Zenon DEF Total
<1> DEFINE Round == [k \in 1 .. N |-> [n \in Int |-> n + s[k]]]
<1>3. IsLoop(f, N, Int, 0, Round)
  OBVIOUS
<1> HIDE DEF N
<1>4. f = F(f)
  <2>1. ASSUME NEW k \in 0 .. N
        PROVE  f[k] = IF k = 0 THEN 0 ELSE f[k - 1] + s[k]
    <3>1. CASE k = 0
      BY <1>3, <3>1 DEF IsLoop
    <3>2. CASE k # 0
      <4>1. k \in 1 .. N /\ k - 1 \in 0 .. N
        BY <1>1, <3>2
      <4>2. f[k] = Round[k][f[k - 1]] /\ f[k - 1] \in Int
        BY <1>3, <4>1 DEF IsLoop
      <4> QED BY <3>2, <4>1, <4>2
    <3> QED BY <3>1, <3>2
  <2>2. f \in [0 .. N -> Int]
    BY <1>3 DEF IsLoop
  <2> QED BY <2>1, <2>2
<1> HIDE DEF F, Round
<1>5. h = F(h)
  BY <1>4, Zenon
<1> HIDE DEF h
<1> DEFINE T == {k \in Nat : h[k] = f[k]}
<1>6. 0 \in T
  BY <1>1, <1>4, <1>5 DEF F
<1>7. \A k \in 0 .. N - 1 : k \in T => k + 1 \in T
  <2> SUFFICES ASSUME NEW k \in 0 .. N - 1, k \in T PROVE k + 1 \in T
    OBVIOUS
  <2>1. k + 1 \in 0 .. N /\ k + 1 # 0 /\ (k + 1) - 1 = k /\ k + 1 \in Nat
    BY <1>1
  <2>2. F(h)[k + 1] = h[k] + s[k + 1] /\ F(f)[k + 1] = f[k] + s[k + 1]
    BY <2>1 DEF F
  <2> QED BY <1>4, <1>5, <2>1, <2>2
<1> HIDE DEF T
<1>8. N \in T
  <2>1. \A k \in 0 .. N : k \in T
    BY <1>1, <1>6, <1>7, InductionUpTo, Zenon
  <2> QED BY <1>1, <2>1
<1>9. f[N] \in Int
  BY <1>1, <1>3 DEF IsLoop
<1> QED BY <1>2, <1>8, <1>9 DEF T, N

\* The same, said of the function's values.
LEMMA TotalIsSum ==
  ASSUME NEW s \in Seq(Int), NEW f \in [0 .. Len(s) -> Int],
         f[0] = 0, \A k \in 1 .. Len(s) : f[k] = f[k - 1] + s[k]
  PROVE  Total(s) = f[Len(s)] /\ Total(s) \in Int
<1> DEFINE Round == [k \in 1 .. Len(s) |-> [n \in Int |-> n + s[k]]]
<1>1. ASSUME NEW k \in 1 .. Len(s)
      PROVE  f[k] = Round[k][f[k - 1]]
  <2>1. k - 1 \in 0 .. Len(s) /\ s[k] \in Int
    OBVIOUS
  <2>2. f[k - 1] \in Int
    BY <2>1
  <2>3. Round[k][f[k - 1]] = f[k - 1] + s[k]
    BY <2>1, <2>2
  <2> QED BY <2>3
<1>2. IsLoop(f, Len(s), Int, 0, Round)
  BY <1>1 DEF IsLoop
<1> QED BY <1>2, TotalIs

\* Every sum has such a function.
LEMMA TotalSum ==
  ASSUME NEW s \in Seq(Int)
  PROVE  \E f \in [0 .. Len(s) -> Int] :
            /\ f[0] = 0
            /\ \A k \in 1 .. Len(s) : f[k] = f[k - 1] + s[k]
            /\ Total(s) = f[Len(s)]
            /\ Total(s) \in Int
<1> DEFINE N == Len(s)
           Round == [k \in 1 .. N |-> [n \in Int |-> n + s[k]]]
<1>1. N \in Nat /\ \A k \in 1 .. N : s[k] \in Int
  OBVIOUS
<1> HIDE DEF N
<1>2. Round \in [1 .. N -> [Int -> Int]]
  BY <1>1
<1>3. \A k \in 1 .. N : \A n \in Int : Round[k][n] = n + s[k]
  OBVIOUS
<1> HIDE DEF Round
<1>4. PICK f : IsLoop(f, N, Int, 0, Round)
  BY <1>1, <1>2, 0 \in Int, LoopExists, Zenon
<1>5. f \in [0 .. N -> Int] /\ f[0] = 0
  BY <1>4 DEF IsLoop
<1>6. ASSUME NEW k \in 1 .. N
      PROVE  f[k] = f[k - 1] + s[k]
  <2>1. k - 1 \in 0 .. N
    BY <1>1
  <2>2. f[k] = Round[k][f[k - 1]] /\ f[k - 1] \in Int
    BY <1>4, <1>5, <2>1 DEF IsLoop
  <2> QED BY <1>3, <2>2
<1>7. Total(s) = f[N] /\ Total(s) \in Int
  BY <1>5, <1>6, TotalIsSum DEF N
<1> QED BY <1>5, <1>6, <1>7 DEF N

\* The sum of nothing.
LEMMA TotalNothing == Total(<<>>) = 0
<1>1. <<>> \in Seq(Int) /\ Len(<<>>) = 0
  BY EmptySeq
<1>2. PICK f \in [0 .. Len(<<>>) -> Int] : f[0] = 0 /\ Total(<<>>) = f[Len(<<>>)]
  BY <1>1, TotalSum
<1> QED BY <1>1, <1>2

\* A number appended is added.
LEMMA TotalAppend ==
  ASSUME NEW s \in Seq(Int), NEW n \in Int
  PROVE  Total(Append(s, n)) = Total(s) + n
<1> DEFINE t == Append(s, n)
<1>1. PICK f \in [0 .. Len(s) -> Int] :
            /\ f[0] = 0
            /\ \A k \in 1 .. Len(s) : f[k] = f[k - 1] + s[k]
            /\ Total(s) = f[Len(s)]
            /\ Total(s) \in Int
  BY TotalSum
<1> DEFINE N == Len(s)
           g == [k \in 0 .. N + 1 |-> IF k = N + 1 THEN f[N] + n ELSE f[k]]
<1>2. N \in Nat /\ t \in Seq(Int) /\ Len(t) = N + 1 /\ t[N + 1] = n
      /\ \A k \in 1 .. N : t[k] = s[k]
  BY AppendProperties
<1>3. f \in [0 .. N -> Int] /\ f[0] = 0 /\ Total(s) = f[N] /\ n \in Int
      /\ \A k \in 1 .. N : f[k] = f[k - 1] + s[k]
  BY <1>1
<1> HIDE DEF N, t
<1>4. g \in [0 .. N + 1 -> Int] /\ g[0] = 0 /\ g[N + 1] = f[N] + n
  BY <1>2, <1>3
<1>5. \A k \in 1 .. N + 1 : g[k] = g[k - 1] + t[k]
  BY SMTT(30), <1>2, <1>3
<1> HIDE DEF g
<1>6. Total(t) = g[N + 1]
  BY <1>2, <1>4, <1>5, TotalIsSum
<1> QED BY <1>3, <1>4, <1>6 DEF t

\* The head is part of the sum.
LEMMA TotalTail ==
  ASSUME NEW s \in Seq(Int), s # <<>>
  PROVE  Total(s) = Head(s) + Total(Tail(s))
<1> DEFINE t == Tail(s)
<1>1. PICK f \in [0 .. Len(s) -> Int] :
            /\ f[0] = 0
            /\ \A k \in 1 .. Len(s) : f[k] = f[k - 1] + s[k]
            /\ Total(s) = f[Len(s)]
            /\ Total(s) \in Int
  BY TotalSum
<1> DEFINE N == Len(s) - 1
           g == [k \in 0 .. N |-> f[k + 1] - s[1]]
<1>2. N \in Nat /\ t \in Seq(Int) /\ Len(t) = N /\ Head(s) = s[1] /\ s[1] \in Int
      /\ \A k \in 1 .. N : t[k] = s[k + 1]
  BY HeadTailProperties, EmptySeq
<1>3. /\ f \in [0 .. N + 1 -> Int] /\ f[0] = 0 /\ Total(s) = f[N + 1]
      /\ \A k \in 1 .. N + 1 : f[k] = f[k - 1] + s[k]
  BY <1>1, <1>2
<1>4. \A k \in 1 .. N + 1 : s[k] \in Int
  BY <1>2
<1> HIDE DEF N, t
<1>5. g \in [0 .. N -> Int] /\ g[N] = f[N + 1] - s[1]
  <2>1. \A k \in 0 .. N : k + 1 \in 0 .. N + 1
    BY <1>2
  <2>2. \A k \in 0 .. N : f[k + 1] \in Int
    BY <1>3, <2>1
  <2>3. \A k \in 0 .. N : f[k + 1] - s[1] \in Int
    BY <1>2, <2>2
  <2>4. N \in 0 .. N
    BY <1>2
  <2> QED BY <2>3, <2>4
<1>6. g[0] = 0
  BY <1>2, <1>3
<1>7. ASSUME NEW k \in 1 .. N
      PROVE  g[k] = g[k - 1] + t[k]
  <2>1. k + 1 \in 1 .. N + 1 /\ (k + 1) - 1 = k /\ (k - 1) + 1 = k /\ k - 1 \in 0 .. N
        /\ k \in 0 .. N + 1
    BY <1>2
  <2>2. f[k + 1] = f[k] + s[k + 1] /\ f[k] \in Int
    BY <1>3, <2>1
  <2>3. g[k] = f[k + 1] - s[1] /\ g[k - 1] = f[k] - s[1]
    BY <1>2, <2>1
  <2>4. t[k] = s[k + 1] /\ s[1] \in Int /\ s[k + 1] \in Int
    BY <1>2, <1>4, <2>1
  <2> HIDE DEF g
  <2> QED BY <2>2, <2>3, <2>4
<1> HIDE DEF g
<1>8. Total(t) = g[N]
  BY <1>2, <1>5, <1>6, <1>7, TotalIsSum
<1>9. f[N + 1] \in Int
  BY <1>2, <1>3
<1> QED BY <1>2, <1>3, <1>5, <1>8, <1>9 DEF t

\* Natural numbers have a natural number as their sum.
LEMMA TotalNatural ==
  ASSUME NEW s \in Seq(Nat)
  PROVE  Total(s) \in Nat
<1>1. PICK f \in [0 .. Len(s) -> Int] :
            /\ f[0] = 0
            /\ \A k \in 1 .. Len(s) : f[k] = f[k - 1] + s[k]
            /\ Total(s) = f[Len(s)]
  <2>1. s \in Seq(Int)
    BY SeqMonotonic
  <2> QED BY <2>1, TotalSum
<1> DEFINE T == {k \in Nat : f[k] \in Nat}
<1>2. 0 \in T
  BY <1>1
<1>3. \A k \in 0 .. Len(s) - 1 : k \in T => k + 1 \in T
  <2> SUFFICES ASSUME NEW k \in 0 .. Len(s) - 1, k \in T PROVE k + 1 \in T
    OBVIOUS
  <2>1. k + 1 \in 1 .. Len(s) /\ (k + 1) - 1 = k /\ s[k + 1] \in Nat
    OBVIOUS
  <2>2. f[k + 1] = f[k] + s[k + 1]
    BY <1>1, <2>1
  <2> QED BY <2>1, <2>2
<1> HIDE DEF T
<1>4. Len(s) \in T
  <2>1. Len(s) \in Nat
    OBVIOUS
  <2>2. \A k \in 0 .. Len(s) : k \in T
    BY <1>2, <1>3, <2>1, InductionUpTo, Zenon
  <2> QED BY <2>1, <2>2
<1> QED BY <1>1, <1>4 DEF T

-----------------------------------------------------------------------------
(* The length of what is in a queue, for a measure of its elements.        *)

Measured(q, g) == Total([k \in DOMAIN q |-> g[q[k]]])

\* The measure of an empty queue.
LEMMA MeasuredNothing == \A g : Measured(<<>>, g) = 0
<1> SUFFICES ASSUME NEW g PROVE Measured(<<>>, g) = 0
  OBVIOUS
<1>1. [k \in DOMAIN <<>> |-> g[<<>>[k]]] = <<>>
  OBVIOUS
<1> QED BY <1>1, TotalNothing DEF Measured

\* How the measure of a queue changes with an element that comes or goes.
LEMMA MeasuredQueue ==
  ASSUME NEW S, NEW q \in Seq(S), NEW g \in [S -> Nat]
  PROVE  /\ Measured(q, g) \in Nat
         /\ \A e \in S : Measured(Append(q, e), g) = Measured(q, g) + g[e]
         /\ q # <<>> => Measured(q, g) = g[Head(q)] + Measured(Tail(q), g)
<1> DEFINE M(r) == [k \in DOMAIN r |-> g[r[k]]]
<1>1. ASSUME NEW r \in Seq(S)
      PROVE  /\ M(r) \in Seq(Nat) /\ Len(M(r)) = Len(r)
             /\ \A k \in 1 .. Len(r) : M(r)[k] = g[r[k]]
  <2>1. DOMAIN r = 1 .. Len(r) /\ Len(r) \in Nat /\ \A k \in 1 .. Len(r) : r[k] \in S
    OBVIOUS
  <2> QED BY <2>1
<1>2. \A r : Measured(r, g) = Total(M(r))
  BY DEF Measured
<1> HIDE DEF M
<1>3. Measured(q, g) \in Nat
  BY <1>1, <1>2, TotalNatural
<1>4. ASSUME NEW e \in S
      PROVE  Measured(Append(q, e), g) = Measured(q, g) + g[e]
  <2>1. Append(q, e) \in Seq(S) /\ Len(Append(q, e)) = Len(q) + 1
        /\ Append(q, e)[Len(q) + 1] = e
        /\ \A k \in 1 .. Len(q) : Append(q, e)[k] = q[k]
    BY AppendProperties
  <2>2. g[e] \in Nat /\ Len(q) \in Nat
    OBVIOUS
  <2>3. /\ Append(M(q), g[e]) \in Seq(Nat) /\ Len(Append(M(q), g[e])) = Len(q) + 1
        /\ Append(M(q), g[e])[Len(q) + 1] = g[e]
        /\ \A k \in 1 .. Len(q) : Append(M(q), g[e])[k] = M(q)[k]
    <3>1. M(q) \in Seq(Nat) /\ Len(M(q)) = Len(q)
      BY <1>1
    <3> QED BY <3>1, <2>2, AppendProperties
  <2>4. M(Append(q, e)) = Append(M(q), g[e])
    <3> DEFINE a == M(Append(q, e))
               b == Append(M(q), g[e])
    <3>1. a \in Seq(Nat) /\ Len(a) = Len(q) + 1
          /\ \A k \in 1 .. Len(q) + 1 : a[k] = g[Append(q, e)[k]]
      BY <1>1, <2>1
    <3>2. b \in Seq(Nat) /\ Len(b) = Len(q) + 1
      BY <2>3
    <3>3. ASSUME NEW k \in 1 .. Len(q) + 1
          PROVE  a[k] = b[k]
      <4>1. CASE k = Len(q) + 1
        BY <2>1, <2>3, <3>1, <4>1
      <4>2. CASE k \in 1 .. Len(q)
        <5>1. M(q)[k] = g[q[k]]
          BY <1>1, <4>2
        <5> QED BY <2>1, <2>3, <3>1, <4>2, <5>1
      <4>3. k = Len(q) + 1 \/ k \in 1 .. Len(q)
        BY <2>2
      <4> QED BY <4>1, <4>2, <4>3
    <3> HIDE DEF a, b
    <3>4. a = b
      <4>1. Len(a) = Len(b) /\ \A k \in 1 .. Len(a) : a[k] = b[k]
        BY <3>1, <3>2, <3>3
      <4> QED BY <3>1, <3>2, <4>1, SeqEqual
    <3> QED BY <3>4 DEF a, b
  <2>5. Total(Append(M(q), g[e])) = Total(M(q)) + g[e]
    BY <1>1, <2>2, TotalAppend
  <2> QED BY <1>2, <2>4, <2>5
<1>5. ASSUME q # <<>>
      PROVE  Measured(q, g) = g[Head(q)] + Measured(Tail(q), g)
  <2>1. /\ Tail(q) \in Seq(S) /\ Len(Tail(q)) = Len(q) - 1 /\ Head(q) = q[1]
        /\ Len(q) \in Nat \ {0}
        /\ \A k \in 1 .. Len(q) - 1 : Tail(q)[k] = q[k + 1]
    BY <1>5, HeadTailProperties, EmptySeq
  <2> DEFINE a == M(q)
             b == M(Tail(q))
  <2>2. a \in Seq(Nat) /\ Len(a) = Len(q) /\ \A k \in 1 .. Len(q) : a[k] = g[q[k]]
    BY <1>1
  <2>3. b \in Seq(Nat) /\ Len(b) = Len(q) - 1
        /\ \A k \in 1 .. Len(q) - 1 : b[k] = g[Tail(q)[k]]
    BY <1>1, <2>1
  <2> HIDE DEF a, b
  <2>4. a # <<>>
    BY <2>1, <2>2, EmptySeq
  <2>5. /\ Tail(a) \in Seq(Nat) /\ Len(Tail(a)) = Len(a) - 1 /\ Head(a) = a[1]
        /\ \A k \in 1 .. Len(a) - 1 : Tail(a)[k] = a[k + 1]
    BY <2>2, <2>4, HeadTailProperties
  <2>6. ASSUME NEW k \in 1 .. Len(q) - 1
        PROVE  Tail(a)[k] = b[k]
    <3>1. k + 1 \in 1 .. Len(q)
      BY <2>1
    <3> QED BY <2>1, <2>2, <2>3, <2>5, <3>1
  <2>7. Tail(a) = b
    <3>1. Len(Tail(a)) = Len(b) /\ \A k \in 1 .. Len(b) : Tail(a)[k] = b[k]
      BY <2>2, <2>3, <2>5, <2>6
    <3> QED BY <2>3, <2>5, <3>1, SeqEqual
  <2>8. Head(a) = g[Head(q)]
    BY <2>1, <2>2, <2>5
  <2>9. Total(a) = Head(a) + Total(Tail(a))
    BY <2>2, <2>4, TotalTail
  <2> QED BY <1>2, <2>7, <2>8, <2>9 DEF a, b
<1> QED BY <1>3, <1>4, <1>5

-----------------------------------------------------------------------------
(* The entry of the socket: its slots as a ring.                           *)

Entries ==
  [proto : Protos, state : {"CONNECTED", "IN_ERROR", "CLOSED"},
   txCount : 0 .. MaxTxCount,
   pending : {NoRequest} \cup Request,
   segInfo : [Slot -> [pduSize : Nat, lengthCfd : Nat]],
   enqueueIdx : Slot, dequeueIdx : Slot]

\* What the fields of an entry are.
LEMMA EntryFields ==
  ASSUME NEW e \in Entries
  PROVE  /\ e.proto \in {"RFCOMM", "LECOC"} /\ e.proto \in Protos
         /\ e.state \in {"CONNECTED", "IN_ERROR", "CLOSED"}
         /\ e.txCount \in Nat /\ e.txCount \in 0 .. MaxTxCount
         /\ e.pending \in {NoRequest} \cup Request
         /\ e.segInfo \in [Slot -> [pduSize : Nat, lengthCfd : Nat]]
         /\ \A k \in Slot : e.segInfo[k].pduSize \in Nat /\ e.segInfo[k].lengthCfd \in Nat
         /\ e.enqueueIdx \in Slot /\ e.dequeueIdx \in Slot
<1>1. \A A, B, C, D, E, F :
        e \in [proto : A, state : B, txCount : C, pending : D, segInfo : E,
              enqueueIdx : F, dequeueIdx : F]
          => /\ e.proto \in A /\ e.state \in B /\ e.txCount \in C /\ e.pending \in D
             /\ e.segInfo \in E /\ e.enqueueIdx \in F /\ e.dequeueIdx \in F
  OBVIOUS
<1>2. /\ e.proto \in Protos /\ e.state \in {"CONNECTED", "IN_ERROR", "CLOSED"}
      /\ e.txCount \in 0 .. MaxTxCount /\ e.pending \in {NoRequest} \cup Request
      /\ e.segInfo \in [Slot -> [pduSize : Nat, lengthCfd : Nat]]
      /\ e.enqueueIdx \in Slot /\ e.dequeueIdx \in Slot
  BY <1>1, Zenon DEF Entries
<1>3. e.proto \in {"RFCOMM", "LECOC"}
  BY <1>2, ProtosAssumption
<1>4. e.txCount \in Nat
  <2>1. MaxTxCount \in Nat
    BY DEF MaxTxCount
  <2> QED BY <1>2, <2>1
<1>5. \A k \in Slot : e.segInfo[k].pduSize \in Nat /\ e.segInfo[k].lengthCfd \in Nat
  <2>1. \A k \in Slot : e.segInfo[k] \in [pduSize : Nat, lengthCfd : Nat]
    BY <1>2, Zenon
  <2>2. \A r \in [pduSize : Nat, lengthCfd : Nat] : r.pduSize \in Nat /\ r.lengthCfd \in Nat
    OBVIOUS
  <2> QED BY <2>1, <2>2, Zenon
<1> QED BY <1>2, <1>3, <1>4, <1>5

\* The window is a positive number that txCount can reach and come back from.
LEMMA WindowIs ==
  /\ Window \in Nat \ {0} /\ Window <= MaxTxCount /\ MaxTxCount \in Nat
  /\ \A n \in 1 .. Window : Decrement(n) = n - 1
  /\ \A n \in Int : Decrement(n) \in 0 .. MaxTxCount
<1>1. MaxTxCount \in Nat
  BY DEF MaxTxCount
<1>2. Window \in Nat \ {0} /\ Window <= MaxTxCount
  BY <1>1, WindowAssumption
<1>3. \A n \in 0 .. MaxTxCount : n % (MaxTxCount + 1) = n
  BY <1>1
<1>4. ASSUME NEW n \in 1 .. Window
      PROVE  Decrement(n) = n - 1
  <2>1. n - 1 \in 0 .. MaxTxCount
    BY <1>1, <1>2
  <2> QED BY <1>3, <2>1 DEF Decrement
<1>5. \A n \in Int : Decrement(n) \in 0 .. MaxTxCount
  BY <1>1 DEF Decrement
<1> QED BY <1>1, <1>2, <1>4, <1>5

\* The slot that is k after slot d.
After(d, k) == (d + k) % Window

RestAt(e, k) == e.segInfo[After(e.dequeueIdx, k)].pduSize
                  - e.segInfo[After(e.dequeueIdx, k)].lengthCfd

\* What is left of each request under way.
Rests(e) == [k \in 1 .. e.txCount |-> RestAt(e, k - 1)]

Owed(e) == IF e.proto = "RFCOMM" THEN e.txCount ELSE Total(Rests(e))

\* The slots in use are those from dequeueIdx up to enqueueIdx, and none of
\* their requests is confirmed to its end.
RingOf(e) ==
  /\ e.txCount <= Window
  /\ e.proto = "LECOC" =>
       /\ e.enqueueIdx = After(e.dequeueIdx, e.txCount)
       /\ \A k \in 0 .. e.txCount - 1 : RestAt(e, k) > 0

\* Going round.
LEMMA AfterIs ==
  ASSUME NEW d \in Slot, NEW k \in 0 .. Window
  PROVE  /\ After(d, k) = IF d + k < Window THEN d + k ELSE d + k - Window
         /\ After(d, k) \in Slot
<1>1. Window \in Nat \ {0} /\ d \in 0 .. Window - 1
  BY WindowIs DEF Slot
<1>2. (d + k) % Window = IF d + k < Window THEN d + k ELSE d + k - Window
  BY <1>1
<1> QED BY <1>1, <1>2 DEF After, Slot

\* Different places within the ring are different slots.
LEMMA AfterDiffers ==
  ASSUME NEW d \in Slot, NEW k \in 0 .. Window - 1, NEW j \in 0 .. Window - 1, k # j
  PROVE  After(d, k) # After(d, j)
<1>1. Window \in Nat \ {0} /\ d \in 0 .. Window - 1
  BY WindowIs DEF Slot
<1>2. /\ After(d, k) = IF d + k < Window THEN d + k ELSE d + k - Window
      /\ After(d, j) = IF d + j < Window THEN d + j ELSE d + j - Window
  <2>1. k \in 0 .. Window /\ j \in 0 .. Window
    BY <1>1
  <2> QED BY <2>1, AfterIs
<1> QED BY <1>1, <1>2

\* The next slot is one further round.
LEMMA AfterNext ==
  ASSUME NEW d \in Slot
  PROVE  /\ NextSlot(d) \in Slot
         /\ After(d, 0) = d
         /\ \A k \in 0 .. Window - 1 : After(NextSlot(d), k) = After(d, k + 1)
         /\ \A k \in 0 .. Window - 1 : NextSlot(After(d, k)) = After(d, k + 1)
<1>1. Window \in Nat \ {0} /\ d \in 0 .. Window - 1
  BY WindowIs DEF Slot
<1>2. \A c \in Slot : NextSlot(c) = After(c, 1)
  BY DEF NextSlot, After
<1>3. 1 \in 0 .. Window /\ 0 \in 0 .. Window
  BY <1>1
<1>4. \A c \in Slot : /\ c \in 0 .. Window - 1
                      /\ NextSlot(c) = IF c + 1 < Window THEN c + 1 ELSE c + 1 - Window
                      /\ NextSlot(c) \in Slot
  BY <1>2, <1>3, AfterIs DEF Slot
<1>5. After(d, 0) = d
  BY <1>1, <1>3, AfterIs
<1>6. ASSUME NEW k \in 0 .. Window - 1
      PROVE  After(NextSlot(d), k) = After(d, k + 1) /\ NextSlot(After(d, k)) = After(d, k + 1)
  <2>1. k \in 0 .. Window /\ k + 1 \in 0 .. Window
    BY <1>1
  <2>2. After(d, k + 1) = IF d + (k + 1) < Window THEN d + (k + 1) ELSE d + (k + 1) - Window
    BY <2>1, AfterIs
  <2>3. /\ After(d, k) = IF d + k < Window THEN d + k ELSE d + k - Window
        /\ After(d, k) \in Slot
    BY <2>1, AfterIs
  <2>4. LET c == NextSlot(d)
        IN  /\ After(c, k) = IF c + k < Window THEN c + k ELSE c + k - Window
            /\ c = IF d + 1 < Window THEN d + 1 ELSE d + 1 - Window
    BY <1>4, <2>1, AfterIs
  <2>5. LET c == After(d, k)
        IN NextSlot(c) = IF c + 1 < Window THEN c + 1 ELSE c + 1 - Window
    BY <1>4, <2>3
  <2>6. After(NextSlot(d), k) = After(d, k + 1)
    BY <1>1, <2>1, <2>2, <2>4
  <2>7. NextSlot(After(d, k)) = After(d, k + 1)
    BY <1>1, <2>1, <2>2, <2>3, <2>5
  <2> QED BY <2>6, <2>7
<1> QED BY <1>4, <1>5, <1>6

\* What is left of the requests under way is a sequence of positive numbers.
LEMMA RestsTyped ==
  ASSUME NEW e \in Entries, RingOf(e), e.proto = "LECOC"
  PROVE  /\ Rests(e) \in Seq(Nat) /\ Len(Rests(e)) = e.txCount
         /\ \A k \in 1 .. e.txCount : Rests(e)[k] = RestAt(e, k - 1) /\ Rests(e)[k] > 0
<1>1. e.txCount \in Nat /\ e.txCount <= Window /\ Window \in Nat
  BY WindowIs, EntryFields DEF RingOf
<1>2. ASSUME NEW k \in 1 .. e.txCount
      PROVE  RestAt(e, k - 1) \in Nat /\ RestAt(e, k - 1) > 0
  <2>1. k - 1 \in 0 .. e.txCount - 1 /\ k - 1 \in 0 .. Window
    BY <1>1
  <2>2. After(e.dequeueIdx, k - 1) \in Slot
    BY <2>1, AfterIs, EntryFields
  <2>4. RestAt(e, k - 1) \in Int
    BY <2>2, EntryFields DEF RestAt
  <2>5. RestAt(e, k - 1) > 0
    BY <2>1 DEF RingOf
  <2> QED BY <2>4, <2>5
<1> DEFINE N == e.txCount
           r == [k \in 1 .. N |-> RestAt(e, k - 1)]
<1>3. Rests(e) = r
  BY Zenon DEF Rests
<1>4. \A k \in 1 .. N : r[k] = RestAt(e, k - 1)
  OBVIOUS
<1>5. \A k \in 1 .. N : RestAt(e, k - 1) \in Nat /\ RestAt(e, k - 1) > 0
  BY <1>2, Zenon
<1>6. r \in [1 .. N -> Nat]
  BY <1>5, Zenon
<1>7. r \in Seq(Nat) /\ Len(r) = N
  <2> HIDE DEF r, N
  <2>1. N \in Nat
    BY <1>1 DEF N
  <2> QED BY <1>6, <2>1
<1>8. \A k \in 1 .. N : r[k] > 0
  BY <1>4, <1>5, Zenon
<1> QED BY <1>3, <1>4, <1>7, <1>8, Zenon

\* The BMM expects no negative number of segments.
LEMMA OwedTyped ==
  ASSUME NEW e \in Entries, RingOf(e)
  PROVE  Owed(e) \in Nat /\ (e.txCount = 0 => Owed(e) = 0)
<1>0. e.txCount \in Nat /\ e.proto \in {"RFCOMM", "LECOC"}
  BY EntryFields
<1>1. CASE e.proto = "RFCOMM"
  BY <1>0, <1>1 DEF Owed
<1>2. CASE e.proto = "LECOC"
  <2>1. Rests(e) \in Seq(Nat) /\ Len(Rests(e)) = e.txCount
    BY <1>2, RestsTyped
  <2>2. Owed(e) = Total(Rests(e))
    BY <1>2 DEF Owed
  <2>3. e.txCount = 0 => Rests(e) = <<>>
    BY <2>1, EmptySeq
  <2> QED BY <2>1, <2>2, <2>3, TotalNatural, TotalNothing
<1> QED BY <1>0, <1>1, <1>2

With(e, c, p, si, q, d) ==
  [e EXCEPT !.txCount = c, !.pending = p, !.segInfo = si, !.enqueueIdx = q, !.dequeueIdx = d]

MayBe(c, p, si, q, d) ==
  /\ c \in 0 .. MaxTxCount
  /\ p \in {NoRequest} \cup Request
  /\ si \in [Slot -> [pduSize : Nat, lengthCfd : Nat]]
  /\ q \in Slot /\ d \in Slot

\* An entry is made of its fields.
LEMMA EntryOf ==
  ASSUME NEW e \in Entries, NEW c, NEW p, NEW si, NEW q, NEW d, MayBe(c, p, si, q, d),
         NEW v, v = With(e, c, p, si, q, d)
  PROVE  /\ v \in Entries
         /\ v.proto = e.proto /\ v.state = e.state /\ v.txCount = c /\ v.pending = p
         /\ v.segInfo = si /\ v.enqueueIdx = q /\ v.dequeueIdx = d
<1> DEFINE C == 0 .. MaxTxCount
           P == {NoRequest} \cup Request
           I == [Slot -> [pduSize : Nat, lengthCfd : Nat]]
           R == {"CONNECTED", "IN_ERROR", "CLOSED"}
<1>1. e \in [proto : Protos, state : R, txCount : C, pending : P, segInfo : I,
             enqueueIdx : Slot, dequeueIdx : Slot]
  BY DEF Entries
<1>2. c \in C /\ p \in P /\ si \in I /\ q \in Slot /\ d \in Slot
  BY DEF MayBe
<1>3. Entries = [proto : Protos, state : R, txCount : C, pending : P, segInfo : I,
                 enqueueIdx : Slot, dequeueIdx : Slot]
  BY DEF Entries
<1> HIDE DEF C, P, I, R
<1>4. v = [proto |-> e.proto, state |-> e.state, txCount |-> c, pending |-> p,
           segInfo |-> si, enqueueIdx |-> q, dequeueIdx |-> d]
  BY <1>1 DEF With
<1>5. e.proto \in Protos /\ e.state \in R
  BY <1>1
<1>6. v \in [proto : Protos, state : R, txCount : C, pending : P, segInfo : I,
             enqueueIdx : Slot, dequeueIdx : Slot]
  BY <1>2, <1>4, <1>5
<1> QED BY <1>3, <1>4, <1>6

\* The entry once a request of n segments is taken, with p the request that waits.
WithTaken(e, n, p) ==
  [e EXCEPT
     !.txCount = @ + 1,
     !.pending = p,
     !.segInfo = IF e.proto = "LECOC"
                 THEN [@ EXCEPT ![e.enqueueIdx] = [pduSize |-> n, lengthCfd |-> 0]]
                 ELSE @,
     !.enqueueIdx = IF e.proto = "LECOC" THEN NextSlot(@) ELSE @]

\* Taking a request adds its segments to what is expected.
LEMMA TakenOwes ==
  ASSUME NEW e \in Entries, RingOf(e), e.txCount < Window,
         NEW n \in Nat \ {0}, e.proto = "RFCOMM" => n = 1,
         NEW p \in {NoRequest} \cup Request,
         NEW v, v = WithTaken(e, n, p)
  PROVE  /\ v \in Entries /\ RingOf(v) /\ Owed(v) = Owed(e) + n
         /\ v.txCount = e.txCount + 1 /\ v.pending = p
         /\ v.state = e.state /\ v.proto = e.proto
<1> DEFINE c == e.txCount
           d == e.dequeueIdx
           si == IF e.proto = "LECOC"
                 THEN [e.segInfo EXCEPT ![e.enqueueIdx] = [pduSize |-> n, lengthCfd |-> 0]]
                 ELSE e.segInfo
           q == IF e.proto = "LECOC" THEN NextSlot(e.enqueueIdx) ELSE e.enqueueIdx
<1>1. v = With(e, c + 1, p, si, q, d)
  BY Zenon DEF WithTaken, With, Entries
<1>2. c \in Nat /\ c < Window /\ c + 1 \in 0 .. MaxTxCount /\ Window \in Nat \ {0}
      /\ d \in Slot /\ e.enqueueIdx \in Slot
  BY EntryFields, WindowIs
<1>3. si \in [Slot -> [pduSize : Nat, lengthCfd : Nat]]
  <2>1. e.segInfo \in [Slot -> [pduSize : Nat, lengthCfd : Nat]]
    BY EntryFields
  <2>2. [pduSize |-> n, lengthCfd |-> 0] \in [pduSize : Nat, lengthCfd : Nat]
    OBVIOUS
  <2> QED BY <2>1, <2>2
<1>4. q \in Slot
  BY <1>2, AfterNext
<1> HIDE DEF si, q, d
<1>5. /\ v \in Entries
      /\ v.proto = e.proto /\ v.state = e.state /\ v.txCount = c + 1 /\ v.pending = p
      /\ v.segInfo = si /\ v.enqueueIdx = q /\ v.dequeueIdx = d
  <2> DEFINE x == c + 1
  <2>1. x \in 0 .. MaxTxCount /\ d \in Slot
    BY <1>2
  <2>2. v = With(e, x, p, si, q, d)
    BY <1>1, Zenon
  <2> HIDE DEF x
  <2>3. /\ v \in Entries
        /\ v.proto = e.proto /\ v.state = e.state /\ v.txCount = x /\ v.pending = p
        /\ v.segInfo = si /\ v.enqueueIdx = q /\ v.dequeueIdx = d
    <3>1. MayBe(x, p, si, q, d)
      BY <1>3, <1>4, <2>1 DEF MayBe
    <3> QED BY <2>2, <3>1, EntryOf
  <2> QED BY <2>3 DEF x
<1>6. CASE e.proto # "LECOC"
  <2>1. e.proto = "RFCOMM" /\ n = 1
    BY <1>6, EntryFields
  <2> QED BY <1>2, <1>5, <1>6, <2>1 DEF RingOf, Owed
<1>7. CASE e.proto = "LECOC"
  <2>1. e.enqueueIdx = After(d, c)
    BY <1>7 DEF RingOf, d
  <2>2. si = [e.segInfo EXCEPT ![After(d, c)] = [pduSize |-> n, lengthCfd |-> 0]]
        /\ q = NextSlot(After(d, c))
    BY <1>7, <2>1 DEF si, q
  <2>3. v.enqueueIdx = After(v.dequeueIdx, v.txCount)
    <3>1. c \in 0 .. Window - 1
      BY <1>2
    <3>2. NextSlot(After(d, c)) = After(d, c + 1)
      BY <1>2, <3>1, AfterNext
    <3> QED BY <1>5, <2>2, <3>2
  <2>4. ASSUME NEW k \in 0 .. c - 1
        PROVE  RestAt(v, k) = RestAt(e, k) /\ RestAt(e, k) > 0
    <3>1. k \in 0 .. Window - 1 /\ c \in 0 .. Window - 1 /\ k # c
      BY <1>2
    <3>2. After(d, k) # After(d, c)
      BY <1>2, <3>1, AfterDiffers
    <3>3. si[After(d, k)] = e.segInfo[After(d, k)]
      <4>1. k \in 0 .. Window
        BY <1>2, <3>1
      <4>2. After(d, k) \in Slot
        BY <1>2, <4>1, AfterIs
      <4> QED BY <2>2, <3>2, <4>2, EntryFields
    <3>4. RestAt(e, k) > 0
      BY <1>7 DEF RingOf
    <3> QED BY <1>5, <3>3, <3>4 DEF RestAt, d
  <2>5. RestAt(v, c) = n
    <3>1. c \in 0 .. Window
      BY <1>2
    <3>2. After(d, c) \in Slot
      BY <1>2, <3>1, AfterIs
    <3>3. si[After(d, c)] = [pduSize |-> n, lengthCfd |-> 0]
      BY <2>2, <3>2, EntryFields
    <3>4. si[After(d, c)].pduSize = n /\ si[After(d, c)].lengthCfd = 0
      BY <3>3
    <3> QED BY <1>5, <3>4 DEF RestAt
  <2>6. RingOf(v)
    <3>1. \A k \in 0 .. v.txCount - 1 : k = c \/ k \in 0 .. c - 1
      BY <1>2, <1>5
    <3>2. \A k \in 0 .. v.txCount - 1 : RestAt(v, k) > 0
      <4>1. n > 0
        OBVIOUS
      <4> QED BY <2>4, <2>5, <3>1, <4>1
    <3> QED BY <1>2, <1>5, <2>3, <3>2 DEF RingOf
  <2>7. Rests(v) = Append(Rests(e), n)
    <3> DEFINE a == Rests(v)
               b == Rests(e)
    <3>1. a \in Seq(Nat) /\ Len(a) = c + 1
          /\ \A k \in 1 .. c + 1 : a[k] = RestAt(v, k - 1)
      BY <1>5, <1>7, <2>6, RestsTyped
    <3>2. b \in Seq(Nat) /\ Len(b) = c
          /\ \A k \in 1 .. c : b[k] = RestAt(e, k - 1)
      BY <1>7, RestsTyped
    <3> HIDE DEF a, b, c
    <3>0. n \in Nat
      OBVIOUS
    <3>3. Append(b, n) \in Seq(Nat) /\ Len(Append(b, n)) = c + 1 /\ Append(b, n)[c + 1] = n
          /\ \A k \in 1 .. c : Append(b, n)[k] = b[k]
      BY <3>0, <3>2, AppendProperties
    <3>4. ASSUME NEW k \in 1 .. c + 1
          PROVE  a[k] = Append(b, n)[k]
      <4>1. CASE k = c + 1
        <5>1. k - 1 = c
          BY <1>2, <4>1
        <5> QED BY <2>5, <3>1, <3>3, <4>1, <5>1
      <4>2. CASE k # c + 1
        <5>1. k \in 1 .. c /\ k - 1 \in 0 .. c - 1
          BY <1>2, <4>2
        <5> QED BY <2>4, <3>1, <3>2, <3>3, <5>1
      <4> QED BY <4>1, <4>2
    <3>5. Len(a) = Len(Append(b, n)) /\ \A k \in 1 .. Len(a) : a[k] = Append(b, n)[k]
      BY <3>1, <3>3, <3>4
    <3>6. a = Append(b, n)
      BY <3>1, <3>3, <3>5, SeqEqual
    <3> QED BY <3>6 DEF a, b
  <2>8. Total(Append(Rests(e), n)) = Total(Rests(e)) + n
    <3>1. Rests(e) \in Seq(Int) /\ n \in Int
      <4>1. Rests(e) \in Seq(Nat)
        BY <1>7, RestsTyped
      <4> QED BY <4>1, SeqMonotonic
    <3> QED BY <3>1, TotalAppend
  <2>9. Owed(v) = Total(Rests(v)) /\ Owed(e) = Total(Rests(e))
    BY <1>5, <1>7 DEF Owed
  <2> QED BY <1>5, <2>6, <2>7, <2>8, <2>9
<1> QED BY <1>6, <1>7

\* The entry with n segments of the oldest request confirmed.
WithPart(e, n) == [e EXCEPT !.segInfo[e.dequeueIdx].lengthCfd = n]

\* A segment that is not the last of its request is expected no longer.
LEMMA PartOwes ==
  ASSUME NEW e \in Entries, e.proto = "LECOC", NEW n \in Nat, NEW v, v = WithPart(e, n)
  PROVE  /\ v \in Entries
         /\ v.txCount = e.txCount /\ v.pending = e.pending
         /\ v.state = e.state /\ v.proto = e.proto
         /\ RingOf(e) /\ e.txCount > 0 /\ n = e.segInfo[e.dequeueIdx].lengthCfd + 1
              /\ n # e.segInfo[e.dequeueIdx].pduSize
              => RingOf(v) /\ Owed(v) = Owed(e) - 1
<1> DEFINE c == e.txCount
           d == e.dequeueIdx
           p == e.pending
           q == e.enqueueIdx
           si == [e.segInfo EXCEPT ![d].lengthCfd = n]
<1>1. v = With(e, c, p, si, q, d)
  BY Zenon DEF WithPart, With, Entries
<1>2. /\ c \in Nat /\ c \in 0 .. MaxTxCount /\ Window \in Nat \ {0}
      /\ d \in Slot /\ q \in Slot /\ p \in {NoRequest} \cup Request
  BY EntryFields, WindowIs
<1>3. /\ si \in [Slot -> [pduSize : Nat, lengthCfd : Nat]]
      /\ si[d].pduSize = e.segInfo[d].pduSize /\ si[d].lengthCfd = n
      /\ \A k \in Slot : k # d => si[k] = e.segInfo[k]
  <2>1. e.segInfo \in [Slot -> [pduSize : Nat, lengthCfd : Nat]]
    BY EntryFields
  <2> QED BY <1>2, <2>1
<1> HIDE DEF si, q, d, p, c
<1>5. /\ v \in Entries
      /\ v.proto = e.proto /\ v.state = e.state /\ v.txCount = c /\ v.pending = p
      /\ v.segInfo = si /\ v.enqueueIdx = q /\ v.dequeueIdx = d
  <2>1. MayBe(c, p, si, q, d)
    BY <1>2, <1>3 DEF MayBe
  <2> QED BY <1>1, <2>1, EntryOf
<1>6. ASSUME RingOf(e), c > 0, n = e.segInfo[d].lengthCfd + 1, n # e.segInfo[d].pduSize
      PROVE  RingOf(v) /\ Owed(v) = Owed(e) - 1
  <2>0. c <= Window /\ q = After(d, c) /\ \A k \in 0 .. c - 1 : RestAt(e, k) > 0
    BY <1>6 DEF RingOf, c, d, q
  <2>1. ASSUME NEW k \in 1 .. c - 1
        PROVE  RestAt(v, k) = RestAt(e, k)
    <3>1. k \in 0 .. Window - 1 /\ 0 \in 0 .. Window - 1 /\ k # 0 /\ k \in 0 .. Window
      BY <1>2, <2>0
    <3>2. After(d, k) # After(d, 0) /\ After(d, 0) = d /\ After(d, k) \in Slot
      BY <1>2, <3>1, AfterDiffers, AfterNext, AfterIs
    <3> QED BY <1>3, <1>5, <3>2 DEF RestAt, d
  <2>2. RestAt(v, 0) = RestAt(e, 0) - 1 /\ RestAt(v, 0) > 0 /\ RestAt(e, 0) \in Nat
    <3>1. After(d, 0) = d
      BY <1>2, AfterNext
    <3>2. RestAt(e, 0) = e.segInfo[d].pduSize - e.segInfo[d].lengthCfd
          /\ RestAt(v, 0) = e.segInfo[d].pduSize - n
      BY <1>3, <1>5, <3>1 DEF RestAt, d
    <3>3. RestAt(e, 0) > 0
      <4>1. 0 \in 0 .. c - 1
        BY <1>2, <1>6
      <4> QED BY <2>0, <4>1
    <3>4. e.segInfo[d].pduSize \in Nat /\ e.segInfo[d].lengthCfd \in Nat
      BY <1>2, EntryFields
    <3> QED BY <1>6, <3>2, <3>3, <3>4
  <2>3. RingOf(v)
    <3>1. \A k \in 0 .. c - 1 : k = 0 \/ k \in 1 .. c - 1
      BY <1>2
    <3>2. \A k \in 0 .. v.txCount - 1 : RestAt(v, k) > 0
      <4>1. ASSUME NEW k \in 0 .. c - 1 PROVE RestAt(v, k) > 0
        BY <2>0, <2>1, <2>2, <3>1
      <4> QED BY <1>5, <4>1
    <3> QED BY <1>5, <2>0, <3>2 DEF RingOf
  <2> DEFINE a == Rests(v)
             b == Rests(e)
  <2>4. a \in Seq(Nat) /\ Len(a) = c /\ \A k \in 1 .. c : a[k] = RestAt(v, k - 1)
    BY <1>5, <2>3, RestsTyped
  <2>5. b \in Seq(Nat) /\ Len(b) = c /\ \A k \in 1 .. c : b[k] = RestAt(e, k - 1)
    BY <1>6, RestsTyped DEF c
  <2>6. Owed(v) = Total(a) /\ Owed(e) = Total(b)
    BY <1>5 DEF Owed
  <2> HIDE DEF a, b
  <2>7. a \in Seq(Int) /\ b \in Seq(Int) /\ a # <<>> /\ b # <<>>
    <3>1. a # <<>> /\ b # <<>>
      BY <1>6, <2>4, <2>5, EmptySeq
    <3> QED BY <2>4, <2>5, <3>1, SeqMonotonic
  <2>8. Total(a) = Head(a) + Total(Tail(a)) /\ Total(b) = Head(b) + Total(Tail(b))
    BY <2>7, TotalTail
  <2>9. Head(a) = RestAt(v, 0) /\ Head(b) = RestAt(e, 0)
    <3>1. 1 \in 1 .. c /\ 1 - 1 = 0
      BY <1>2, <1>6
    <3>2. a[1] = RestAt(v, 0) /\ b[1] = RestAt(e, 0)
      BY <2>4, <2>5, <3>1
    <3> QED BY <2>4, <2>5, <2>7, <3>2
  <2>10. Tail(a) = Tail(b)
    <3>1. /\ Tail(a) \in Seq(Nat) /\ Len(Tail(a)) = c - 1
          /\ \A k \in 1 .. c - 1 : Tail(a)[k] = a[k + 1]
      BY <2>4, <2>7, HeadTailProperties
    <3>2. /\ Tail(b) \in Seq(Nat) /\ Len(Tail(b)) = c - 1
          /\ \A k \in 1 .. c - 1 : Tail(b)[k] = b[k + 1]
      BY <2>5, <2>7, HeadTailProperties
    <3>3. ASSUME NEW k \in 1 .. c - 1
          PROVE  Tail(a)[k] = Tail(b)[k]
      <4>1. k + 1 \in 1 .. c /\ (k + 1) - 1 = k
        BY <1>2
      <4>2. a[k + 1] = RestAt(v, k) /\ b[k + 1] = RestAt(e, k)
        BY <2>4, <2>5, <4>1
      <4> QED BY <2>1, <3>1, <3>2, <4>2
    <3> QED BY <3>1, <3>2, <3>3, SeqEqual
  <2>11. Total(Tail(a)) \in Int
    <3>1. Tail(a) \in Seq(Nat)
      BY <2>4, <2>7, HeadTailProperties
    <3>2. Total(Tail(a)) \in Nat
      BY <3>1, TotalNatural, Zenon
    <3> QED BY <3>2
  <2>12. Total(a) = Total(b) - 1
    <3> DEFINE z == Total(Tail(a))
    <3>1. Total(a) = RestAt(v, 0) + z /\ Total(b) = RestAt(e, 0) + z
      BY <2>8, <2>9, <2>10, Zenon
    <3>2. z \in Int
      BY <2>11, Zenon
    <3> HIDE DEF z
    <3> QED BY <2>2, <3>1, <3>2
  <2> QED BY <2>3, <2>6, <2>12, Zenon
<1> QED BY <1>5, <1>6 DEF c, p, d

\* The entry once n segments are all of the oldest request, with p the request
\* that waits.
WithWhole(e, n, p) ==
  [e EXCEPT
     !.segInfo[e.dequeueIdx].lengthCfd = n,
     !.dequeueIdx = NextSlot(@),
     !.txCount = Decrement(@),
     !.pending = p]

\* The last segment of a request is expected no longer, and its slot is free.
LEMMA WholeOwes ==
  ASSUME NEW e \in Entries, e.proto = "LECOC", NEW n \in Nat,
         NEW p \in {NoRequest} \cup Request,
         NEW v, v = WithWhole(e, n, p)
  PROVE  /\ v \in Entries
         /\ v.pending = p /\ v.state = e.state /\ v.proto = e.proto
         /\ RingOf(e) /\ e.txCount > 0 /\ n = e.segInfo[e.dequeueIdx].lengthCfd + 1
              /\ n = e.segInfo[e.dequeueIdx].pduSize
              => RingOf(v) /\ Owed(v) = Owed(e) - 1 /\ v.txCount = e.txCount - 1
<1> DEFINE c == e.txCount
           b == Decrement(c)
           d == e.dequeueIdx
           f == NextSlot(d)
           q == e.enqueueIdx
           si == [e.segInfo EXCEPT ![d].lengthCfd = n]
<1>1. v = With(e, b, p, si, q, f)
  BY Zenon DEF WithWhole, With, Entries
<1>2. /\ c \in Nat /\ c \in 0 .. MaxTxCount /\ Window \in Nat \ {0}
      /\ d \in Slot /\ q \in Slot /\ f \in Slot /\ b \in 0 .. MaxTxCount
  <2>1. c \in Nat /\ c \in 0 .. MaxTxCount /\ d \in Slot /\ q \in Slot
    BY EntryFields
  <2>2. f \in Slot
    BY <2>1, AfterNext
  <2>3. b \in 0 .. MaxTxCount
    BY <2>1, WindowIs
  <2> QED BY <2>1, <2>2, <2>3, WindowIs
<1>3. /\ si \in [Slot -> [pduSize : Nat, lengthCfd : Nat]]
      /\ \A k \in Slot : k # d => si[k] = e.segInfo[k]
  <2>1. e.segInfo \in [Slot -> [pduSize : Nat, lengthCfd : Nat]]
    BY EntryFields
  <2> QED BY <1>2, <2>1
<1>4. 0 < c /\ c <= Window => b = c - 1
  BY <1>2, WindowIs
<1> HIDE DEF si, q, d, f, b, c
<1>5. /\ v \in Entries
      /\ v.proto = e.proto /\ v.state = e.state /\ v.txCount = b /\ v.pending = p
      /\ v.segInfo = si /\ v.enqueueIdx = q /\ v.dequeueIdx = f
  <2>1. MayBe(b, p, si, q, f)
    BY <1>2, <1>3 DEF MayBe
  <2> QED BY <1>1, <2>1, EntryOf
<1>6. ASSUME RingOf(e), c > 0, n = e.segInfo[d].lengthCfd + 1, n = e.segInfo[d].pduSize
      PROVE  RingOf(v) /\ Owed(v) = Owed(e) - 1 /\ v.txCount = c - 1
  <2>0. c <= Window /\ q = After(d, c) /\ b = c - 1 /\ \A k \in 0 .. c - 1 : RestAt(e, k) > 0
    BY <1>4, <1>6 DEF RingOf, c, d, q
  <2>1. ASSUME NEW k \in 0 .. c - 2
        PROVE  RestAt(v, k) = RestAt(e, k + 1)
    <3>1. k + 1 \in 0 .. Window - 1 /\ 0 \in 0 .. Window - 1 /\ k + 1 # 0
          /\ k \in 0 .. Window - 1 /\ k + 1 \in 0 .. Window
      BY <1>2, <2>0
    <3>2. After(d, k + 1) # After(d, 0) /\ After(d, 0) = d /\ After(d, k + 1) \in Slot
          /\ After(f, k) = After(d, k + 1)
      <4> DEFINE j == k + 1
      <4>1. j \in 0 .. Window - 1 /\ j \in 0 .. Window /\ j # 0
        BY <3>1
      <4>2. After(f, k) = After(d, j) /\ After(d, 0) = d
        BY <1>2, <3>1, AfterNext DEF f
      <4> HIDE DEF j
      <4>3. After(d, j) # After(d, 0) /\ After(d, j) \in Slot
        BY <1>2, <3>1, <4>1, AfterDiffers, AfterIs
      <4> QED BY <4>2, <4>3 DEF j
    <3> QED BY <1>3, <1>5, <3>2 DEF RestAt, d
  <2>2. RestAt(e, 0) = 1
    <3>1. After(d, 0) = d
      BY <1>2, AfterNext
    <3>2. RestAt(e, 0) = e.segInfo[d].pduSize - e.segInfo[d].lengthCfd
      BY <3>1 DEF RestAt, d
    <3>4. e.segInfo[d].pduSize \in Nat /\ e.segInfo[d].lengthCfd \in Nat
      BY <1>2, EntryFields
    <3> QED BY <1>6, <3>2, <3>4
  <2>3. RingOf(v)
    <3>1. ASSUME NEW k \in 0 .. v.txCount - 1 PROVE RestAt(v, k) > 0
      <4>1. k \in 0 .. c - 2 /\ k + 1 \in 0 .. c - 1
        BY <1>2, <1>5, <2>0
      <4> QED BY <2>0, <2>1, <4>1
    <3>2. q = After(f, b)
      <4>1. b \in 0 .. Window - 1 /\ b + 1 = c
        BY <1>2, <1>6, <2>0
      <4>2. After(f, b) = After(d, b + 1)
        BY <1>2, <4>1, AfterNext DEF f
      <4> QED BY <2>0, <4>1, <4>2
    <3>3. b <= Window
      BY <1>2, <2>0
    <3> QED BY <1>5, <3>1, <3>2, <3>3 DEF RingOf
  <2> DEFINE a == Rests(v)
             o == Rests(e)
  <2>4. a \in Seq(Nat) /\ Len(a) = c - 1 /\ \A k \in 1 .. c - 1 : a[k] = RestAt(v, k - 1)
    BY <1>5, <2>0, <2>3, RestsTyped
  <2>5. o \in Seq(Nat) /\ Len(o) = c /\ \A k \in 1 .. c : o[k] = RestAt(e, k - 1)
    BY <1>6, RestsTyped DEF c
  <2>6. Owed(v) = Total(a) /\ Owed(e) = Total(o)
    BY <1>5 DEF Owed
  <2> HIDE DEF a, o
  <2>7. o \in Seq(Int) /\ o # <<>>
    <3>1. o # <<>>
      BY <1>6, <2>5, EmptySeq
    <3> QED BY <2>5, <3>1, SeqMonotonic
  <2>8. Total(o) = Head(o) + Total(Tail(o))
    BY <2>7, TotalTail
  <2>9. Head(o) = 1
    <3>1. 1 \in 1 .. c /\ 1 - 1 = 0
      BY <1>2, <1>6
    <3>2. o[1] = RestAt(e, 0)
      BY <2>5, <3>1
    <3> QED BY <2>2, <2>5, <2>7, <3>2
  <2>10. Tail(o) = a
    <3>2. /\ Tail(o) \in Seq(Nat) /\ Len(Tail(o)) = c - 1
          /\ \A k \in 1 .. c - 1 : Tail(o)[k] = o[k + 1]
      BY <2>5, <2>7, HeadTailProperties
    <3>3. ASSUME NEW k \in 1 .. c - 1
          PROVE  Tail(o)[k] = a[k]
      <4>1. k + 1 \in 1 .. c /\ (k + 1) - 1 = k /\ k - 1 \in 0 .. c - 2 /\ (k - 1) + 1 = k
        BY <1>2
      <4>2. o[k + 1] = RestAt(e, k) /\ a[k] = RestAt(v, k - 1)
        BY <2>4, <2>5, <4>1
      <4>3. RestAt(v, k - 1) = RestAt(e, k)
        BY <2>1, <4>1
      <4> QED BY <3>2, <4>2, <4>3
    <3> QED BY <2>4, <3>2, <3>3, SeqEqual
  <2>11. Total(a) \in Int
    <3>1. Total(a) \in Nat
      BY <2>4, TotalNatural, Zenon
    <3> QED BY <3>1
  <2>12. Total(a) = Total(o) - 1
    <3> DEFINE z == Total(a)
    <3>1. Total(o) = 1 + z
      BY <2>8, <2>9, <2>10, Zenon
    <3>2. z \in Int
      BY <2>11, Zenon
    <3> HIDE DEF z
    <3>3. z = Total(o) - 1
      BY <3>1, <3>2
    <3> QED BY <3>3 DEF z
  <2> QED BY <1>5, <2>0, <2>3, <2>6, <2>12
<1> QED BY <1>5, <1>6 DEF c, d

-----------------------------------------------------------------------------
(* Types.                                                                  *)

L2capReq == [req : Request, size : Sizes]

\* What a message to the BMM carries.
LEMMA MessageFields ==
  ASSUME NEW m \in BmmMsg
  PROVE  /\ m.type \in {"DATA_REQ", "WRITE_CFM", "PENDING_CFM", "DISCONNECT_IND", "CLOSE_REQ"}
         /\ m.type = "DATA_REQ" => m.req \in Request /\ m.size \in Sizes /\ m.size \in Nat \ {0}
         /\ m.type = "WRITE_CFM" => m.length \in Nat
<1>1. m.type = "DATA_REQ" => m.size \in Nat \ {0} \/ m.size \notin Sizes
  BY SizesAssumption
<1> QED BY <1>1 DEF BmmMsg

\* What can be sent to the BMM.
LEMMA MessagesTyped ==
  /\ \A n \in Nat : WriteCfm(n) \in BmmMsg
  /\ \A r \in Request, n \in Sizes :
       [type |-> "DATA_REQ", req |-> r, size |-> n] \in BmmMsg
  /\ [type |-> "DISCONNECT_IND"] \in BmmMsg /\ [type |-> "CLOSE_REQ"] \in BmmMsg
  /\ [type |-> "PENDING_CFM"] \in BmmMsg
  BY DEF WriteCfm, BmmMsg

\* The segments of a request.
LEMMA SegmentsTyped ==
  ASSUME NEW m \in L2capReq
  PROVE  Segments(m) \in Seq(Segment) /\ Len(Segments(m)) = m.size
<1>1. m.size \in Sizes /\ m.size \in Nat \ {0} /\ m.req \in Request
  BY SizesAssumption DEF L2capReq
<1>2. \A k \in 1 .. m.size : [req |-> m.req, idx |-> k, size |-> m.size] \in Segment
  BY <1>1 DEF Segment
<1> QED BY <1>1, <1>2 DEF Segments

\* No segment is lost when the credits are spent.
LEMMA RescheduleKeeps ==
  ASSUME txQ \in Seq(Segment), NEW segs \in Seq(Segment), NEW c \in 0 .. MaxCredits,
         Reschedule(segs, c)
  PROVE  /\ txQ' \in Seq(Segment) /\ sduQ' \in Seq(Segment) /\ txCredits' \in 0 .. MaxCredits
         /\ Len(sduQ') + Len(txQ') = Len(segs) + Len(txQ)
         /\ \E k : ReportPending(k)
<1> DEFINE k == Min({c, Len(segs)})
           a == SubSeq(segs, 1, k)
           b == SubSeq(segs, k + 1, Len(segs))
<1>1. c \in Nat /\ Len(segs) \in Nat /\ Len(txQ) \in Nat /\ c <= MaxCredits
  BY MaxCreditsAssumption
<1>2. k \in {c, Len(segs)} /\ k <= c /\ k <= Len(segs)
  <2> DEFINE S == {c, Len(segs)}
  <2>1. \E x \in S : \A y \in S : x <= y
    <3>1. c <= Len(segs) \/ Len(segs) <= c
      BY <1>1
    <3>2. c <= c /\ Len(segs) <= Len(segs)
      BY <1>1
    <3> QED BY <3>1, <3>2
  <2>2. k = CHOOSE x \in S : \A y \in S : x <= y
    BY Zenon DEF Min
  <2>3. k \in S /\ \A y \in S : k <= y
    BY <2>1, <2>2, Zenon
  <2> QED BY <2>3
<1> HIDE DEF k
<1>3. k \in Nat
  BY <1>1, <1>2
<1>4. /\ a \in Seq(Segment) /\ Len(a) = k
      /\ b \in Seq(Segment) /\ Len(b) = Len(segs) - k
  <2>1. \A i \in 1 .. k : segs[i] \in Segment
    BY <1>1, <1>2, <1>3
  <2>2. \A i \in k + 1 .. Len(segs) : segs[i] \in Segment
    BY <1>1, <1>3
  <2>3. a \in Seq(Segment) /\ Len(a) = IF 1 <= k THEN k - 1 + 1 ELSE 0
    BY <1>3, <2>1, SubSeqProperties
  <2>4. b \in Seq(Segment)
        /\ Len(b) = IF k + 1 <= Len(segs) THEN Len(segs) - (k + 1) + 1 ELSE 0
    <3> DEFINE l == Len(segs)
               j == k + 1
    <3>1. l \in Int /\ j \in Int /\ \A i \in j .. l : segs[i] \in Segment
      BY <1>1, <1>3, <2>2
    <3> HIDE DEF l, j
    <3>2. SubSeq(segs, j, l) \in Seq(Segment)
          /\ Len(SubSeq(segs, j, l)) = IF j <= l THEN l - j + 1 ELSE 0
      BY <3>1, SubSeqProperties
    <3> QED BY <3>2 DEF l, j
  <2> QED BY <1>1, <1>2, <1>3, <2>3, <2>4
<1>5. txQ' = txQ \o a /\ sduQ' = b /\ txCredits' = c - k /\ ReportPending(k)
  BY DEF Reschedule, k
<1> HIDE DEF a, b
<1>6. txQ \o a \in Seq(Segment) /\ Len(txQ \o a) = Len(txQ) + Len(a)
  BY <1>4, ConcatProperties
<1>7. txCredits' \in 0 .. MaxCredits
  BY <1>1, <1>2, <1>3, <1>5, MaxCreditsAssumption
<1>8. Len(sduQ') + Len(txQ') = Len(segs) + Len(txQ)
  <2>1. Len(sduQ') = Len(segs) - k /\ Len(txQ') = Len(txQ) + k
    BY <1>4, <1>5, <1>6, Zenon
  <2> QED BY <1>1, <1>3, <2>1
<1>9. \E i : ReportPending(i)
  BY <1>5, Zenon
<1> QED BY <1>4, <1>5, <1>6, <1>7, <1>8, <1>9, Zenon

\* What a channel that goes has confirmed.
LEMMA FlushTyped ==
  ASSUME sduQ \in Seq(Segment), txQ \in Seq(Segment)
  PROVE  /\ FlushCfms \in Seq(BmmMsg)
         /\ \A k \in DOMAIN FlushCfms : FlushCfms[k].type = "WRITE_CFM"
         /\ sock.proto = "RFCOMM" => FlushCfms = <<>>
<1> DEFINE N == Len(sduQ)
           Cfms == [type : {"WRITE_CFM"}, length : Nat]
           Add(f, k) == IF sduQ[k].idx = sduQ[k].size
                        THEN Append(f, WriteCfm(sduQ[k].size)) ELSE f
           F(g) == [k \in 0 .. N |->
                      IF k = 0 THEN <<>>
                      ELSE IF sduQ[k].idx = sduQ[k].size
                           THEN Append(g[k - 1], WriteCfm(sduQ[k].size))
                           ELSE g[k - 1]]
           h == CHOOSE g : g = F(g)
           z == [k \in DOMAIN txQ |-> WriteCfm(0)]
           Round == [k \in 1 .. N |-> [f \in Seq(Cfms) |-> Add(f, k)]]
           empty == <<>>
<1>1. N \in Nat /\ \A k \in 1 .. N : sduQ[k] \in Segment /\ sduQ[k].size \in Nat
  <2>1. \A s \in Segment : s.size \in Sizes
    BY DEF Segment
  <2>2. \A s \in Segment : s.size \in Nat
    BY <2>1, SizesAssumption
  <2>3. N \in Nat /\ \A k \in 1 .. N : sduQ[k] \in Segment
    OBVIOUS
  <2> QED BY <2>2, <2>3
<1>2. FlushCfms = IF sock.proto = "RFCOMM" THEN <<>> ELSE h[N] \o z
  BY Zenon DEF FlushCfms
<1>3. \A n \in Nat : WriteCfm(n) \in Cfms
  BY DEF WriteCfm
<1> HIDE DEF N, Cfms
<1>4. ASSUME NEW k \in 1 .. N, NEW f \in Seq(Cfms)
      PROVE  Add(f, k) \in Seq(Cfms)
  <2>1. WriteCfm(sduQ[k].size) \in Cfms
    BY <1>1, <1>3
  <2> QED BY <2>1, AppendProperties
<1> HIDE DEF Add
<1>5. Round \in [1 .. N -> [Seq(Cfms) -> Seq(Cfms)]]
  BY <1>4
<1>6. \A k \in 1 .. N : \A f \in Seq(Cfms) : Round[k][f] = Add(f, k)
  OBVIOUS
<1>7. empty \in Seq(Cfms)
  OBVIOUS
<1> HIDE DEF Round, empty
<1>8. PICK f : IsLoop(f, N, Seq(Cfms), empty, Round)
  BY <1>1, <1>5, <1>7, LoopExists
<1>9. f = F(f)
  <2>1. ASSUME NEW k \in 0 .. N
        PROVE  f[k] = F(f)[k]
    <3>1. CASE k = 0
      BY <1>8, <3>1 DEF IsLoop, empty
    <3>2. CASE k # 0
      <4>1. k \in 1 .. N /\ k - 1 \in 0 .. N
        BY <1>1, <3>2
      <4>2. f[k] = Round[k][f[k - 1]] /\ f[k - 1] \in Seq(Cfms)
        BY <1>8, <4>1 DEF IsLoop
      <4>3. f[k] = Add(f[k - 1], k)
        BY <1>6, <4>1, <4>2
      <4> QED BY <3>2, <4>3 DEF Add
    <3> QED BY <3>1, <3>2
  <2>2. f \in [0 .. N -> Seq(Cfms)]
    BY <1>8 DEF IsLoop
  <2> QED BY <2>1, <2>2
<1> HIDE DEF F
<1>10. h = F(h)
  BY <1>9, Zenon
<1> HIDE DEF h
<1> DEFINE T == {k \in 0 .. N : h[k] \in Seq(Cfms)}
<1>11. 0 \in T
  <2>1. h[0] = <<>>
    BY <1>1, <1>10 DEF F
  <2>2. h[0] \in Seq(Cfms)
    BY <1>7, <2>1, Zenon DEF empty
  <2>3. 0 \in 0 .. N
    BY <1>1
  <2> QED BY <2>2, <2>3
<1>12. \A k \in 0 .. N - 1 : k \in T => k + 1 \in T
  <2> SUFFICES ASSUME NEW k \in 0 .. N - 1, k \in T PROVE k + 1 \in T
    OBVIOUS
  <2> DEFINE j == k + 1
  <2>1. j \in 0 .. N /\ j \in 1 .. N /\ j # 0 /\ j - 1 = k
    BY <1>1
  <2>2. F(h)[j] = Add(h[j - 1], j)
    BY <2>1 DEF F, Add
  <2>3. h[k] \in Seq(Cfms)
    OBVIOUS
  <2> HIDE DEF j
  <2>4. h[j] = Add(h[k], j)
    BY <1>10, <2>1, <2>2
  <2> QED BY <1>4, <2>1, <2>3, <2>4 DEF j
<1> HIDE DEF T
<1>13. \A k \in 0 .. N : k \in T
  BY <1>1, <1>11, <1>12, InductionUpTo, Zenon
<1>14. h[N] \in Seq(Cfms)
  BY <1>1, <1>13 DEF T
<1>15. z \in Seq(Cfms)
  <2>1. WriteCfm(0) \in Cfms
    BY <1>3
  <2> QED BY <2>1
<1> HIDE DEF z
<1>16. h[N] \o z \in Seq(Cfms)
  BY <1>14, <1>15, ConcatProperties
<1>17. FlushCfms \in Seq(Cfms)
  BY <1>2, <1>7, <1>16 DEF empty
<1>18. \A m \in Cfms : m \in BmmMsg /\ m.type = "WRITE_CFM"
  BY DEF Cfms, BmmMsg
<1>19. \A k \in DOMAIN FlushCfms : FlushCfms[k] \in Cfms
  BY <1>17
<1>20. FlushCfms \in Seq(BmmMsg)
  <2>1. Cfms \subseteq BmmMsg
    BY <1>18
  <2> QED BY <1>17, <2>1, SeqMonotonic
<1> QED BY <1>2, <1>18, <1>19, <1>20

WithState(e, r) == [e EXCEPT !.state = r]
WithCount(e, c, p) == [e EXCEPT !.txCount = c, !.pending = p]

\* An entry before the first request.
LEMMA NewSockTyped ==
  ASSUME NEW p \in Protos, NEW r \in {"CONNECTED", "IN_ERROR", "CLOSED"},
         NEW v, v = WithState(NewSock(p), r)
  PROVE  /\ v \in Entries
         /\ v.proto = p /\ v.state = r /\ v.txCount = 0 /\ v.pending = NoRequest
         /\ v.enqueueIdx = 0 /\ v.dequeueIdx = 0
<1> DEFINE si == [k \in Slot |-> [pduSize |-> 0, lengthCfd |-> 0]]
<1>1. v = [proto |-> p, state |-> r, txCount |-> 0, pending |-> NoRequest,
           segInfo |-> si, enqueueIdx |-> 0, dequeueIdx |-> 0]
  BY DEF NewSock, WithState
<1>2. si \in [Slot -> [pduSize : Nat, lengthCfd : Nat]]
  OBVIOUS
<1>3. 0 \in Slot /\ 0 \in 0 .. MaxTxCount
  BY WindowIs DEF Slot
<1> HIDE DEF si
<1> DEFINE C == 0 .. MaxTxCount
           P == {NoRequest} \cup Request
           I == [Slot -> [pduSize : Nat, lengthCfd : Nat]]
           R == {"CONNECTED", "IN_ERROR", "CLOSED"}
<1>4. 0 \in C /\ NoRequest \in P /\ si \in I /\ r \in R
  BY <1>2, <1>3
<1>5. Entries = [proto : Protos, state : R, txCount : C, pending : P, segInfo : I,
                 enqueueIdx : Slot, dequeueIdx : Slot]
  BY DEF Entries
<1> HIDE DEF C, P, I, R
<1>6. /\ v.proto = p /\ v.state = r /\ v.txCount = 0 /\ v.pending = NoRequest
      /\ v.enqueueIdx = 0 /\ v.dequeueIdx = 0
  BY <1>1
<1>7. v \in Entries
  <2>1. PICK n \in C : n = 0
    BY <1>4
  <2>2. PICK q \in P : q = NoRequest
    BY <1>4
  <2>3. PICK d \in Slot : d = 0
    BY <1>3
  <2>4. v = [proto |-> p, state |-> r, txCount |-> n, pending |-> q,
             segInfo |-> si, enqueueIdx |-> d, dequeueIdx |-> d]
    BY <1>1, <2>1, <2>2, <2>3
  <2>5. p \in Protos /\ r \in R /\ si \in I
    BY <1>4
  <2>6. n \in C /\ q \in P /\ d \in Slot
    OBVIOUS
  <2>7. v \in [proto : Protos, state : R, txCount : C, pending : P, segInfo : I,
               enqueueIdx : Slot, dequeueIdx : Slot]
    BY ONLY <2>4, <2>5, <2>6
  <2> QED BY <1>5, <2>7
<1> QED BY <1>6, <1>7

\* The state of an entry may change alone.
LEMMA StateTyped ==
  ASSUME NEW e \in Entries, NEW r \in {"CONNECTED", "IN_ERROR", "CLOSED"},
         NEW v, v = WithState(e, r)
  PROVE  /\ v \in Entries /\ v.state = r
         /\ v.proto = e.proto /\ v.txCount = e.txCount /\ v.pending = e.pending
         /\ v.segInfo = e.segInfo /\ v.enqueueIdx = e.enqueueIdx /\ v.dequeueIdx = e.dequeueIdx
<1> DEFINE C == 0 .. MaxTxCount
           P == {NoRequest} \cup Request
           I == [Slot -> [pduSize : Nat, lengthCfd : Nat]]
           R == {"CONNECTED", "IN_ERROR", "CLOSED"}
<1>1. Entries = [proto : Protos, state : R, txCount : C, pending : P, segInfo : I,
                 enqueueIdx : Slot, dequeueIdx : Slot] /\ r \in R
  BY DEF Entries
<1>2. v = [e EXCEPT !.state = r]
  BY DEF WithState
<1> HIDE DEF C, P, I, R
<1> QED BY <1>1, <1>2

\* So may the count and the request that waits.
LEMMA CountTyped ==
  ASSUME NEW e \in Entries, NEW c \in 0 .. MaxTxCount, NEW p \in {NoRequest} \cup Request,
         NEW v, v = WithCount(e, c, p)
  PROVE  /\ v \in Entries /\ v.txCount = c /\ v.pending = p
         /\ v.proto = e.proto /\ v.state = e.state
<1>1. v = With(e, c, p, e.segInfo, e.enqueueIdx, e.dequeueIdx)
  BY Zenon DEF With, WithCount, Entries
<1>2. MayBe(c, p, e.segInfo, e.enqueueIdx, e.dequeueIdx)
  BY EntryFields DEF MayBe
<1> QED BY <1>1, <1>2, EntryOf

\* What a confirmation changes.
LEMMA ConfirmTyped ==
  ASSUME answer \in [{NoRequest} \cup Request -> Seq(Result)],
         NEW r \in {NoRequest} \cup Request, NEW x \in Result, Confirm(r, x)
  PROVE  /\ answer' \in [{NoRequest} \cup Request -> Seq(Result)]
         /\ answer'[r] = Append(answer[r], x)
         /\ \A s \in {NoRequest} \cup Request : s # r => answer'[s] = answer[s]
<1> DEFINE R == {NoRequest} \cup Request
<1>1. answer \in [R -> Seq(Result)] /\ r \in R
  OBVIOUS
<1> HIDE DEF R
<1>2. Append(answer[r], x) \in Seq(Result)
  BY <1>1, AppendProperties
<1>3. answer' = [answer EXCEPT ![r] = Append(answer[r], x)]
  BY DEF Confirm
<1>4. /\ answer' \in [R -> Seq(Result)]
      /\ answer'[r] = Append(answer[r], x)
      /\ \A s \in R : s # r => answer'[s] = answer[s]
  BY <1>1, <1>2, <1>3
<1> QED BY <1>4 DEF R

-----------------------------------------------------------------------------
(* The invariant.                                                          *)

IsData(m) == m.type = "DATA_REQ"
IsCfm(m) == m.type = "WRITE_CFM"

\* A confirmation is of one segment as long as the channel is there, and RFCOMM
\* knows no other.
Fine(m, proto, open) == IsCfm(m) /\ (open \/ proto = "RFCOMM") => m.length = 1

MsgsFine == \A k \in DOMAIN bmmQ : Fine(bmmQ[k], sock.proto, ChannelOpen)

FlowInv ==
  /\ TypeOK
  /\ MsgsFine
  /\ ChannelOpen => RingOf(sock)
  /\ SegmentsConserved

LengthOf(m) == IF m.type = "WRITE_CFM" THEN m.length ELSE 0

CfmsIn(q) == Total([k \in DOMAIN q |-> IF q[k].type = "WRITE_CFM" THEN q[k].length ELSE 0])
AskedIn(q) == Total([k \in DOMAIN q |-> q[k].size])

\* How the confirmed segments change with the queue of the BMM.
LEMMA CfmsQueue ==
  ASSUME NEW q \in Seq(BmmMsg)
  PROVE  /\ CfmsIn(q) \in Nat
         /\ \A m \in BmmMsg : CfmsIn(Append(q, m)) = CfmsIn(q) + LengthOf(m)
         /\ q # <<>> => CfmsIn(q) = LengthOf(Head(q)) + CfmsIn(Tail(q))
<1> DEFINE g == [m \in BmmMsg |-> LengthOf(m)]
<1>1. g \in [BmmMsg -> Nat]
  <2>1. \A m \in BmmMsg : LengthOf(m) \in Nat
    BY MessageFields DEF LengthOf
  <2> QED BY <2>1
<1>2. \A m \in BmmMsg : g[m] = LengthOf(m)
  OBVIOUS
<1> HIDE DEF g
<1>3. ASSUME NEW r \in Seq(BmmMsg)
      PROVE  CfmsIn(r) = Measured(r, g)
  <2>1. \A k \in DOMAIN r : r[k] \in BmmMsg
    OBVIOUS
  <2>2. \A k \in DOMAIN r : g[r[k]] = IF r[k].type = "WRITE_CFM" THEN r[k].length ELSE 0
    BY <1>2, <2>1 DEF LengthOf
  <2>3. [k \in DOMAIN r |-> g[r[k]]]
          = [k \in DOMAIN r |-> IF r[k].type = "WRITE_CFM" THEN r[k].length ELSE 0]
    BY <2>2
  <2> QED BY <2>3 DEF CfmsIn, Measured
<1>4. /\ Measured(q, g) \in Nat
      /\ \A m \in BmmMsg : Measured(Append(q, m), g) = Measured(q, g) + g[m]
      /\ q # <<>> => Measured(q, g) = g[Head(q)] + Measured(Tail(q), g)
  BY <1>1, MeasuredQueue, Zenon
<1>5. \A m \in BmmMsg : Append(q, m) \in Seq(BmmMsg)
  BY AppendProperties
<1>6. q # <<>> => Tail(q) \in Seq(BmmMsg) /\ Head(q) \in BmmMsg
  BY HeadTailProperties
<1> QED BY <1>2, <1>3, <1>4, <1>5, <1>6

\* How the segments of the requests change with the queue to L2CAP.
LEMMA AskedQueue ==
  ASSUME NEW q \in Seq(L2capReq)
  PROVE  /\ AskedIn(q) \in Nat
         /\ \A m \in L2capReq : AskedIn(Append(q, m)) = AskedIn(q) + m.size
         /\ q # <<>> => AskedIn(q) = Head(q).size + AskedIn(Tail(q))
<1> DEFINE g == [m \in L2capReq |-> m.size]
<1>1. g \in [L2capReq -> Nat]
  <2>1. \A m \in L2capReq : m.size \in Sizes
    BY DEF L2capReq
  <2>2. \A m \in L2capReq : m.size \in Nat
    BY <2>1, SizesAssumption
  <2> QED BY <2>2
<1>2. \A m \in L2capReq : g[m] = m.size
  OBVIOUS
<1> HIDE DEF g
<1>3. ASSUME NEW r \in Seq(L2capReq)
      PROVE  AskedIn(r) = Measured(r, g)
  <2>1. \A k \in DOMAIN r : r[k] \in L2capReq
    OBVIOUS
  <2>2. \A k \in DOMAIN r : g[r[k]] = r[k].size
    BY <1>2, <2>1
  <2>3. [k \in DOMAIN r |-> g[r[k]]] = [k \in DOMAIN r |-> r[k].size]
    BY <2>2
  <2> QED BY <2>3 DEF AskedIn, Measured
<1>4. /\ Measured(q, g) \in Nat
      /\ \A m \in L2capReq : Measured(Append(q, m), g) = Measured(q, g) + g[m]
      /\ q # <<>> => Measured(q, g) = g[Head(q)] + Measured(Tail(q), g)
  BY <1>1, MeasuredQueue, Zenon
<1>5. \A m \in L2capReq : Append(q, m) \in Seq(L2capReq)
  BY AppendProperties
<1>6. q # <<>> => Tail(q) \in Seq(L2capReq) /\ Head(q) \in L2capReq
  BY HeadTailProperties
<1> QED BY <1>2, <1>3, <1>4, <1>5, <1>6

\* What is under way, of the entry and the five places below it.
Balanced ==
  ChannelOpen => Owed(sock) = AskedIn(l2capQ) + Len(sduQ) + Len(txQ) + Len(txDone) + CfmsIn(bmmQ)

\* SegmentsConserved, said of the entry.
LEMMA ConservedIsBalanced ==
  /\ SegmentsConserved <=> Balanced
  /\ SegmentsConserved' <=> Balanced'
<1>1. Expected = Owed(sock)
  BY Zenon DEF Expected, Owed, Rests, RestAt, Info, After
<1>2. Requested = AskedIn(l2capQ) /\ Confirmed = CfmsIn(bmmQ)
  BY Zenon DEF Requested, AskedIn, Confirmed, CfmsIn
<1>3. Expected' = Owed(sock')
  BY Zenon DEF Expected, Owed, Rests, RestAt, Info, After
<1>4. Requested' = AskedIn(l2capQ') /\ Confirmed' = CfmsIn(bmmQ')
  BY Zenon DEF Requested, AskedIn, Confirmed, CfmsIn
<1>5. SegmentsConserved <=> Balanced
  BY <1>1, <1>2, Zenon DEF SegmentsConserved, Balanced
<1>6. SegmentsConserved' <=> Balanced'
  BY <1>3, <1>4, Zenon DEF SegmentsConserved, Balanced
<1> QED BY <1>5, <1>6

\* The types of the parts, and of their measures.
LEMMA Typed ==
  ASSUME TypeOK
  PROVE  /\ sock \in Entries /\ bmmQ \in Seq(BmmMsg) /\ l2capQ \in Seq(L2capReq)
         /\ sduQ \in Seq(Segment) /\ txQ \in Seq(Segment) /\ txDone \in Seq(Segment)
         /\ txCredits \in 0 .. MaxCredits /\ link \in BOOLEAN /\ nreq \in 0 .. MaxReq
         /\ answer \in [{NoRequest} \cup Request -> Seq(Result)]
         /\ AskedIn(l2capQ) \in Nat /\ CfmsIn(bmmQ) \in Nat
         /\ Len(sduQ) \in Nat /\ Len(txQ) \in Nat /\ Len(txDone) \in Nat
<1>1. /\ sock \in Entries /\ bmmQ \in Seq(BmmMsg) /\ l2capQ \in Seq(L2capReq)
      /\ sduQ \in Seq(Segment) /\ txQ \in Seq(Segment) /\ txDone \in Seq(Segment)
      /\ txCredits \in 0 .. MaxCredits /\ link \in BOOLEAN /\ nreq \in 0 .. MaxReq
      /\ answer \in [{NoRequest} \cup Request -> Seq(Result)]
  BY Zenon DEF TypeOK, Entries, L2capReq
<1>2. AskedIn(l2capQ) \in Nat /\ CfmsIn(bmmQ) \in Nat
  BY <1>1, AskedQueue, CfmsQueue, Zenon
<1>3. Len(sduQ) \in Nat /\ Len(txQ) \in Nat /\ Len(txDone) \in Nat
  BY <1>1, LenProperties, Zenon
<1> QED BY <1>1, <1>2, <1>3, Zenon

\* The parts make the type.
LEMMA TypeFrom ==
  ASSUME sock' \in Entries, bmmQ' \in Seq(BmmMsg), l2capQ' \in Seq(L2capReq),
         sduQ' \in Seq(Segment), txQ' \in Seq(Segment), txDone' \in Seq(Segment),
         txCredits' \in 0 .. MaxCredits, link' \in BOOLEAN, nreq' \in 0 .. MaxReq,
         answer' \in [{NoRequest} \cup Request -> Seq(Result)]
  PROVE  TypeOK'
  BY Zenon DEF TypeOK, Entries, L2capReq

\* What is to be shown of a step.
LEMMA FlowStep ==
  ASSUME FlowInv, TypeOK', sock'.proto = sock.proto, ChannelOpen' => ChannelOpen,
         \A k \in DOMAIN bmmQ' : \/ \E j \in DOMAIN bmmQ : bmmQ'[k] = bmmQ[j]
                                 \/ Fine(bmmQ'[k], sock.proto, ChannelOpen'),
         ChannelOpen' =>
           /\ RingOf(sock')
           /\ Owed(sock') = AskedIn(l2capQ') + Len(sduQ') + Len(txQ') + Len(txDone')
                              + CfmsIn(bmmQ')
  PROVE  FlowInv'
<1>1. MsgsFine'
  <2>1. ASSUME NEW k \in DOMAIN bmmQ'
        PROVE  Fine(bmmQ'[k], sock.proto, ChannelOpen')
    <3>1. CASE \E j \in DOMAIN bmmQ : bmmQ'[k] = bmmQ[j]
      <4>1. PICK j \in DOMAIN bmmQ : bmmQ'[k] = bmmQ[j]
        BY <3>1
      <4>2. Fine(bmmQ[j], sock.proto, ChannelOpen)
        BY <4>1 DEF FlowInv, MsgsFine
      <4>3. Fine(bmmQ[j], sock.proto, ChannelOpen')
        BY <4>2, Zenon DEF Fine
      <4> QED BY <4>1, <4>3
    <3> QED BY <3>1, Zenon
  <2> QED BY <2>1, Zenon DEF MsgsFine
<1>2. Balanced'
  BY Zenon DEF Balanced
<1>3. SegmentsConserved'
  BY <1>2, ConservedIsBalanced, Zenon
<1> QED BY <1>1, <1>3, Zenon DEF FlowInv

\* What holds while the channel is there.
LEMMA FlowOpen ==
  ASSUME FlowInv, ChannelOpen
  PROVE  /\ RingOf(sock) /\ Owed(sock) \in Nat /\ (sock.txCount = 0 => Owed(sock) = 0)
         /\ Owed(sock) = AskedIn(l2capQ) + Len(sduQ) + Len(txQ) + Len(txDone) + CfmsIn(bmmQ)
<1>1. RingOf(sock) /\ sock \in Entries
  BY Typed, Zenon DEF FlowInv
<1>2. Balanced
  BY ConservedIsBalanced, Zenon DEF FlowInv
<1> QED BY <1>1, <1>2, OwedTyped, Zenon DEF Balanced

\* A message that is taken from the queue of the BMM.
LEMMA Received ==
  ASSUME TypeOK, NEW t, BmmReceive(t)
  PROVE  /\ Head(bmmQ) \in BmmMsg /\ Head(bmmQ).type = t
         /\ bmmQ' = Tail(bmmQ) /\ bmmQ' \in Seq(BmmMsg)
         /\ CfmsIn(bmmQ) = LengthOf(Head(bmmQ)) + CfmsIn(bmmQ') /\ CfmsIn(bmmQ') \in Nat
         /\ \A k \in DOMAIN bmmQ' : k + 1 \in DOMAIN bmmQ /\ bmmQ'[k] = bmmQ[k + 1]
         /\ 1 \in DOMAIN bmmQ /\ Head(bmmQ) = bmmQ[1]
<1>1. bmmQ \in Seq(BmmMsg) /\ bmmQ # <<>> /\ Head(bmmQ).type = t /\ bmmQ' = Tail(bmmQ)
  BY Typed, Zenon DEF BmmReceive
<1>2. Head(bmmQ) \in BmmMsg /\ bmmQ' \in Seq(BmmMsg) /\ Len(bmmQ') = Len(bmmQ) - 1
      /\ \A k \in 1 .. Len(bmmQ') : bmmQ'[k] = bmmQ[k + 1]
  BY <1>1, HeadTailProperties
<1>3. CfmsIn(bmmQ) = LengthOf(Head(bmmQ)) + CfmsIn(bmmQ')
  BY <1>1, CfmsQueue, Zenon
<1>4. CfmsIn(bmmQ') \in Nat
  BY <1>2, CfmsQueue, Zenon
<1>5. \A k \in DOMAIN bmmQ' : k + 1 \in DOMAIN bmmQ /\ bmmQ'[k] = bmmQ[k + 1]
  BY <1>1, <1>2
<1>6. 1 \in DOMAIN bmmQ /\ Head(bmmQ) = bmmQ[1]
  BY <1>1, EmptySeq
<1> QED BY <1>1, <1>2, <1>3, <1>4, <1>5, <1>6, Zenon

Appended(r, q, m) == r = Append(q, m)

Grown(r, q, m) ==
  \A k \in DOMAIN r :
    \/ (k \in DOMAIN q /\ r[k] = q[k])
    \/ (k \notin DOMAIN q /\ r[k] = m)

\* What is in a queue with one more message.
LEMMA Sent ==
  ASSUME NEW q \in Seq(BmmMsg), NEW m \in BmmMsg, NEW r, Appended(r, q, m)
  PROVE  /\ r \in Seq(BmmMsg) /\ CfmsIn(r) = CfmsIn(q) + LengthOf(m) /\ CfmsIn(q) \in Nat
         /\ Grown(r, q, m)
<1>1. /\ r \in Seq(BmmMsg) /\ Len(r) = Len(q) + 1 /\ r[Len(q) + 1] = m
      /\ \A k \in 1 .. Len(q) : r[k] = q[k]
  BY AppendProperties DEF Appended
<1>2. CfmsIn(r) = CfmsIn(q) + LengthOf(m) /\ CfmsIn(q) \in Nat
  BY CfmsQueue, Zenon DEF Appended
<1>3. Grown(r, q, m)
  <2>1. Len(q) \in Nat /\ DOMAIN q = 1 .. Len(q) /\ DOMAIN r = 1 .. Len(q) + 1
    BY <1>1
  <2>2. ASSUME NEW k \in DOMAIN r
        PROVE  \/ (k \in DOMAIN q /\ r[k] = q[k])
               \/ (k \notin DOMAIN q /\ r[k] = m)
    <3>1. CASE k = Len(q) + 1
      BY <1>1, <3>1
    <3>2. CASE k # Len(q) + 1
      <4>1. k \in 1 .. Len(q)
        BY <2>1, <3>2
      <4> QED BY <1>1, <2>1, <4>1
    <3> QED BY <3>1, <3>2
  <2> QED BY <2>2, Zenon DEF Grown
<1> QED BY <1>1, <1>2, <1>3, Zenon

\* A request is valid only as long as the channel is there, and within its MTU.
LEMMA ValidIsOpen ==
  ASSUME TypeOK
  PROVE  /\ DataReqStatus \in Result
         /\ DataReqStatus = "SUCCESS" => ChannelOpen /\ ~(Head(bmmQ).size > RemoteMtu)
<1>1. link \in BOOLEAN /\ sock.state \in {"CONNECTED", "IN_ERROR", "CLOSED"}
  BY Typed, EntryFields, Zenon
<1> QED BY <1>1 DEF DataReqStatus, Result, ChannelOpen

\* What the BMM is told of a frame that RFCOMM has passed on confirms nothing.
LEMMA PendingReported ==
  ASSUME FlowInv, NEW k, ReportPending(k)
  PROVE  /\ bmmQ' \in Seq(BmmMsg) /\ CfmsIn(bmmQ') = CfmsIn(bmmQ)
         /\ \A i \in DOMAIN bmmQ' : \/ \E j \in DOMAIN bmmQ : bmmQ'[i] = bmmQ[j]
                                   \/ \A open : Fine(bmmQ'[i], sock.proto, open)
         /\ bmmQ' = bmmQ \/ \E m : Grown(bmmQ', bmmQ, m) /\ ~IsData(m)
<1>1. bmmQ \in Seq(BmmMsg)
  BY Typed, Zenon DEF FlowInv
<1>2. CASE bmmQ' = bmmQ
  BY <1>1, <1>2
<1>3. CASE bmmQ' # bmmQ
  <2>1. PICK m : m = [type |-> "PENDING_CFM"]
    OBVIOUS
  <2>2. m \in BmmMsg /\ ~IsData(m) /\ ~IsCfm(m) /\ LengthOf(m) = 0
    BY <2>1, MessagesTyped DEF IsData, IsCfm, LengthOf
  <2>3. Appended(bmmQ', bmmQ, m)
    BY <1>3, <2>1, Zenon DEF Appended, ReportPending
  <2>4. /\ bmmQ' \in Seq(BmmMsg) /\ CfmsIn(bmmQ') = CfmsIn(bmmQ) + LengthOf(m)
        /\ CfmsIn(bmmQ) \in Nat
        /\ Grown(bmmQ', bmmQ, m)
    BY <1>1, <2>2, <2>3, Sent, Zenon
  <2>5. CfmsIn(bmmQ') = CfmsIn(bmmQ)
    BY <2>2, <2>4
  <2>6. \A open : Fine(m, sock.proto, open)
    BY <2>2, Zenon DEF Fine
  <2> QED BY <2>2, <2>4, <2>5, <2>6, Zenon DEF Grown
<1> QED BY <1>2, <1>3

-----------------------------------------------------------------------------
(* Every step keeps the invariant.                                         *)

\* A request that is answered at once leaves what is under way alone.
LEMMA AnsweredFlow ==
  ASSUME FlowInv, RefuseDataReq \/ DiscardDataReq
  PROVE  FlowInv'
<1>1. TypeOK /\ BmmReceive("DATA_REQ") /\ UNCHANGED <<sock, lower, nreq>>
  BY Zenon DEF FlowInv, RefuseDataReq, DiscardDataReq
<1>2. PICK t : t = "DATA_REQ"
  OBVIOUS
<1>3. /\ Head(bmmQ) \in BmmMsg /\ Head(bmmQ).type = "DATA_REQ"
      /\ bmmQ' \in Seq(BmmMsg)
      /\ CfmsIn(bmmQ) = LengthOf(Head(bmmQ)) + CfmsIn(bmmQ') /\ CfmsIn(bmmQ') \in Nat
      /\ \A k \in DOMAIN bmmQ' : k + 1 \in DOMAIN bmmQ /\ bmmQ'[k] = bmmQ[k + 1]
  BY <1>1, <1>2, Received
<1>4. CfmsIn(bmmQ') = CfmsIn(bmmQ) /\ Head(bmmQ).req \in Request
  <2>1. LengthOf(Head(bmmQ)) = 0
    BY <1>3 DEF LengthOf
  <2>2. Head(bmmQ).req \in Request
    BY <1>3, MessageFields
  <2> QED BY <1>3, <2>1, <2>2
<1>5. answer' \in [{NoRequest} \cup Request -> Seq(Result)]
  <2>1. DataReqStatus \in Result /\ "FLOW_CONTROL_VIOLATED" \in Result
    BY <1>1, ValidIsOpen DEF Result
  <2>2. \E x \in Result : Confirm(Head(bmmQ).req, x)
    BY <2>1, Zenon DEF RefuseDataReq, DiscardDataReq
  <2>3. Head(bmmQ).req \in {NoRequest} \cup Request
    BY <1>4
  <2> QED BY <1>1, <2>2, <2>3, ConfirmTyped, Typed, Zenon
<1>6. /\ sock' = sock /\ l2capQ' = l2capQ /\ sduQ' = sduQ /\ txCredits' = txCredits
      /\ txQ' = txQ /\ txDone' = txDone /\ link' = link /\ nreq' = nreq
  BY <1>1, Zenon DEF lower
<1>7. TypeOK'
  BY <1>1, <1>3, <1>5, <1>6, Typed, TypeFrom, Zenon
<1>8. ChannelOpen' <=> ChannelOpen
  BY <1>6, Zenon DEF ChannelOpen
<1>9. ASSUME ChannelOpen
      PROVE  /\ RingOf(sock')
             /\ Owed(sock') = AskedIn(l2capQ') + Len(sduQ') + Len(txQ') + Len(txDone')
                              + CfmsIn(bmmQ')
  BY <1>4, <1>6, <1>9, FlowOpen, Zenon
<1> QED BY <1>3, <1>6, <1>7, <1>8, <1>9, FlowStep, Zenon

\* So does a confirmation that says only that a frame was passed on.
LEMMA PendingFlow ==
  ASSUME FlowInv, IgnorePendingCfm
  PROVE  FlowInv'
<1>1. TypeOK /\ BmmReceive("PENDING_CFM") /\ UNCHANGED <<sock, lower, nreq, answer>>
  BY Zenon DEF FlowInv, IgnorePendingCfm
<1>2. PICK t : t = "PENDING_CFM"
  OBVIOUS
<1>3. /\ Head(bmmQ).type = "PENDING_CFM" /\ bmmQ' \in Seq(BmmMsg)
      /\ CfmsIn(bmmQ) = LengthOf(Head(bmmQ)) + CfmsIn(bmmQ') /\ CfmsIn(bmmQ') \in Nat
      /\ \A k \in DOMAIN bmmQ' : k + 1 \in DOMAIN bmmQ /\ bmmQ'[k] = bmmQ[k + 1]
  BY <1>1, <1>2, Received
<1>4. CfmsIn(bmmQ') = CfmsIn(bmmQ)
  <2>1. LengthOf(Head(bmmQ)) = 0
    BY <1>3 DEF LengthOf
  <2> QED BY <1>3, <2>1
<1>6. /\ sock' = sock /\ l2capQ' = l2capQ /\ sduQ' = sduQ /\ txCredits' = txCredits
      /\ txQ' = txQ /\ txDone' = txDone /\ link' = link /\ nreq' = nreq /\ answer' = answer
  BY <1>1, Zenon DEF lower
<1>7. TypeOK'
  BY <1>1, <1>3, <1>6, Typed, TypeFrom, Zenon
<1>8. ChannelOpen' <=> ChannelOpen
  BY <1>6, Zenon DEF ChannelOpen
<1>9. ASSUME ChannelOpen
      PROVE  /\ RingOf(sock')
             /\ Owed(sock') = AskedIn(l2capQ') + Len(sduQ') + Len(txQ') + Len(txDone')
                              + CfmsIn(bmmQ')
  BY <1>4, <1>6, <1>9, FlowOpen, Zenon
<1> QED BY <1>3, <1>6, <1>7, <1>8, <1>9, FlowStep, Zenon

\* So does a confirmation that comes after the close.
LEMMA IgnoredFlow ==
  ASSUME FlowInv, IgnoreWriteCfm
  PROVE  FlowInv'
<1>1. TypeOK /\ BmmReceive("WRITE_CFM") /\ UNCHANGED <<sock, lower, nreq, answer>>
      /\ sock.state = "CLOSED"
  BY Zenon DEF FlowInv, IgnoreWriteCfm
<1>2. PICK t : t = "WRITE_CFM"
  OBVIOUS
<1>3. /\ bmmQ' \in Seq(BmmMsg)
      /\ \A k \in DOMAIN bmmQ' : k + 1 \in DOMAIN bmmQ /\ bmmQ'[k] = bmmQ[k + 1]
  BY <1>1, <1>2, Received
<1>6. /\ sock' = sock /\ l2capQ' = l2capQ /\ sduQ' = sduQ /\ txCredits' = txCredits
      /\ txQ' = txQ /\ txDone' = txDone /\ link' = link /\ nreq' = nreq /\ answer' = answer
  BY <1>1, Zenon DEF lower
<1>7. TypeOK'
  BY <1>1, <1>3, <1>6, Typed, TypeFrom, Zenon
<1>8. ~ChannelOpen'
  BY <1>1, <1>6, Zenon DEF ChannelOpen
<1> QED BY <1>3, <1>6, <1>7, <1>8, FlowStep, Zenon

\* And a message of the user or of the peer.
LEMMA SentFlow ==
  ASSUME FlowInv, UserCloses \/ PeerViolates \/ \E n \in Sizes : UserSends(n)
  PROVE  FlowInv'
<1>0. TypeOK
  BY DEF FlowInv
<1>1. PICK m \in BmmMsg :
        /\ bmmQ' = Append(bmmQ, m) /\ LengthOf(m) = 0 /\ ~IsCfm(m)
        /\ nreq' \in 0 .. MaxReq
        /\ UNCHANGED <<sock, lower, answer>>
  <2>1. CASE UserCloses
    <3> DEFINE m == [type |-> "CLOSE_REQ"]
    <3>1. m \in BmmMsg
      BY MessagesTyped
    <3>2. LengthOf(m) = 0 /\ ~IsCfm(m) /\ ~IsData(m)
      BY DEF LengthOf, IsCfm, IsData
    <3>3. bmmQ' = Append(bmmQ, m) /\ nreq' = nreq /\ UNCHANGED <<sock, lower, answer>>
      BY <2>1, Zenon DEF UserCloses
    <3>4. nreq' \in 0 .. MaxReq
      BY <1>0, <3>3, Typed, Zenon
    <3> QED BY <3>1, <3>2, <3>3, <3>4, Zenon
  <2>2. CASE PeerViolates
    <3> DEFINE m == [type |-> "DISCONNECT_IND"]
    <3>1. m \in BmmMsg
      BY MessagesTyped
    <3>2. LengthOf(m) = 0 /\ ~IsCfm(m) /\ ~IsData(m)
      BY DEF LengthOf, IsCfm, IsData
    <3>3. bmmQ' = Append(bmmQ, m) /\ nreq' = nreq /\ UNCHANGED <<sock, lower, answer>>
      BY <2>2, Zenon DEF PeerViolates
    <3>4. nreq' \in 0 .. MaxReq
      BY <1>0, <3>3, Typed, Zenon
    <3> QED BY <3>1, <3>2, <3>3, <3>4, Zenon
  <2>3. CASE \E n \in Sizes : UserSends(n)
    <3>1. PICK n \in Sizes : UserSends(n)
      BY <2>3
    <3> DEFINE m == [type |-> "DATA_REQ", req |-> nreq + 1, size |-> n]
    <3>2. nreq \in 0 .. MaxReq /\ nreq < MaxReq /\ nreq' = nreq + 1
      BY <1>0, <3>1, Typed DEF UserSends
    <3>3. nreq + 1 \in Request /\ nreq' \in 0 .. MaxReq
      BY <3>2, MaxReqAssumption DEF Request
    <3>4. m \in BmmMsg
      BY <3>3, MessagesTyped, Zenon
    <3>5. LengthOf(m) = 0 /\ ~IsCfm(m)
      BY DEF LengthOf, IsCfm
    <3>6. bmmQ' = Append(bmmQ, m) /\ UNCHANGED <<sock, lower, answer>>
      BY <3>1, Zenon DEF UserSends
    <3> HIDE DEF m
    <3> QED BY <3>3, <3>4, <3>5, <3>6, Zenon
  <2> QED BY <2>1, <2>2, <2>3
<1>2. bmmQ \in Seq(BmmMsg)
  BY <1>0, Typed, Zenon
<1>3. /\ bmmQ' \in Seq(BmmMsg) /\ CfmsIn(bmmQ') = CfmsIn(bmmQ) + LengthOf(m)
      /\ CfmsIn(bmmQ) \in Nat
      /\ Grown(bmmQ', bmmQ, m)
  <2>1. Appended(bmmQ', bmmQ, m)
    BY <1>1 DEF Appended
  <2> QED BY <1>2, <2>1, Sent, Zenon
<1>4. CfmsIn(bmmQ') = CfmsIn(bmmQ)
  BY <1>1, <1>3
<1>6. /\ sock' = sock /\ l2capQ' = l2capQ /\ sduQ' = sduQ /\ txCredits' = txCredits
      /\ txQ' = txQ /\ txDone' = txDone /\ link' = link /\ answer' = answer
      /\ nreq' \in 0 .. MaxReq
  BY <1>1, Zenon DEF lower
<1>7. TypeOK'
  BY <1>0, <1>3, <1>6, Typed, TypeFrom, Zenon
<1>8. ChannelOpen' <=> ChannelOpen
  BY <1>6, Zenon DEF ChannelOpen
<1>9. ASSUME ChannelOpen
      PROVE  /\ RingOf(sock')
             /\ Owed(sock') = AskedIn(l2capQ') + Len(sduQ') + Len(txQ') + Len(txDone')
                              + CfmsIn(bmmQ')
  BY <1>4, <1>6, <1>9, FlowOpen, Zenon
<1>10. \A b : Fine(m, sock.proto, b)
  BY <1>1, Zenon DEF Fine
<1>11. ASSUME NEW k \in DOMAIN bmmQ'
       PROVE  \/ \E j \in DOMAIN bmmQ : bmmQ'[k] = bmmQ[j]
              \/ Fine(bmmQ'[k], sock.proto, ChannelOpen')
  BY <1>3, <1>10, Zenon DEF Grown
<1> QED BY <1>6, <1>7, <1>8, <1>9, <1>11, FlowStep, Zenon

\* The request that waits is confirmed, or no request is.
LEMMA PendingTyped ==
  ASSUME TypeOK, ConfirmPending \/ UNCHANGED answer
  PROVE  answer' \in [{NoRequest} \cup Request -> Seq(Result)]
<1>1. CASE ConfirmPending
  <2>1. PICK x : x = IF sock.state = "IN_ERROR" THEN "CONNID_IN_ERROR" ELSE "SUCCESS"
    OBVIOUS
  <2>2. x \in Result
    BY <2>1 DEF Result
  <2>3. Confirm(sock.pending, x)
    BY <1>1, <2>1, Zenon DEF ConfirmPending
  <2>4. sock.pending \in {NoRequest} \cup Request
    BY Typed, EntryFields, Zenon
  <2> QED BY <2>2, <2>3, <2>4, ConfirmTyped, Typed, Zenon
<1>2. CASE UNCHANGED answer
  BY <1>2, Typed, Zenon
<1> QED BY <1>1, <1>2

\* The entry once a request is taken.
LEMMA TakenEntry ==
  ASSUME FlowInv, TakeDataReq \/ TakeLastDataReq
  PROVE  /\ ChannelOpen /\ sock.txCount < Window /\ sock.txCount \in Nat
         /\ Head(bmmQ).req \in Request /\ Head(bmmQ).size \in Sizes
         /\ Head(bmmQ).size \in Nat \ {0}
         /\ sock' \in Entries /\ RingOf(sock') /\ Owed(sock') = Owed(sock) + Head(bmmQ).size
         /\ sock'.state = sock.state /\ sock'.proto = sock.proto
         /\ sock'.txCount = sock.txCount + 1
         /\ TakeDataReq => sock'.pending = sock.pending
         /\ TakeLastDataReq => sock'.pending = Head(bmmQ).req
<1>1. TypeOK /\ BmmReceive("DATA_REQ") /\ DataReqStatus = "SUCCESS"
  BY Zenon DEF FlowInv, TakeDataReq, TakeLastDataReq
<1>2. PICK t : t = "DATA_REQ"
  OBVIOUS
<1>3. /\ Head(bmmQ) \in BmmMsg /\ Head(bmmQ).type = "DATA_REQ"
      /\ 1 \in DOMAIN bmmQ /\ Head(bmmQ) = bmmQ[1]
  BY <1>1, <1>2, Received
<1>5. PICK r, n : r = Head(bmmQ).req /\ n = Head(bmmQ).size
  OBVIOUS
<1>6. r \in Request /\ n \in Sizes /\ n \in Nat \ {0}
  BY <1>3, <1>5, MessageFields
<1>7. sock.proto = "RFCOMM" => n = 1
  <2>1. sock.proto = "RFCOMM" => ~(n > 1)
    BY <1>1, <1>5, ValidIsOpen DEF RemoteMtu
  <2> QED BY <1>6, <2>1
<1>8. /\ ChannelOpen /\ sock \in Entries /\ RingOf(sock) /\ sock.txCount < Window
      /\ sock.pending \in {NoRequest} \cup Request
  <2>1. ChannelOpen /\ sock \in Entries /\ RingOf(sock)
    BY <1>1, ValidIsOpen, Typed, FlowOpen, Zenon
  <2>2. sock.txCount \in Nat /\ Window \in Nat /\ sock.pending \in {NoRequest} \cup Request
    BY <2>1, EntryFields, WindowIs
  <2>3. sock.txCount < Window
    BY <2>2 DEF TakeDataReq, TakeLastDataReq, RoomBehind
  <2> QED BY <2>1, <2>2, <2>3, Zenon
<1>9. PICK p \in {NoRequest} \cup Request :
        /\ sock' = WithTaken(sock, n, p)
        /\ TakeDataReq => p = sock.pending
        /\ TakeLastDataReq => p = r
  <2>0. ~(TakeDataReq /\ TakeLastDataReq)
    BY <1>8, EntryFields, WindowIs DEF TakeDataReq, TakeLastDataReq, RoomBehind
  <2>1. CASE TakeDataReq
    <3>1. sock' = WithTaken(sock, n, sock.pending)
      BY <1>5, <2>1, Zenon DEF TakeDataReq, Taken, WithTaken
    <3> QED BY <1>8, <2>0, <2>1, <3>1, Zenon
  <2>2. CASE TakeLastDataReq
    <3>1. sock' = WithTaken(sock, n, r)
      BY <1>5, <2>2, Zenon DEF TakeLastDataReq, Taken, WithTaken
    <3>2. r \in {NoRequest} \cup Request
      BY <1>6
    <3> QED BY <2>0, <2>2, <3>1, <3>2, Zenon
  <2> QED BY <2>1, <2>2
<1>10. /\ sock' \in Entries /\ RingOf(sock') /\ Owed(sock') = Owed(sock) + n
       /\ sock'.state = sock.state /\ sock'.proto = sock.proto
       /\ sock'.txCount = sock.txCount + 1 /\ sock'.pending = p
  <2>1. PICK e, v : e = sock /\ v = sock'
    OBVIOUS
  <2>2. /\ e \in Entries /\ RingOf(e) /\ e.txCount < Window /\ (e.proto = "RFCOMM" => n = 1)
        /\ v = WithTaken(e, n, p)
    BY <1>7, <1>8, <1>9, <2>1, Zenon
  <2>3. /\ v \in Entries /\ RingOf(v) /\ Owed(v) = Owed(e) + n
        /\ v.state = e.state /\ v.proto = e.proto
        /\ v.txCount = e.txCount + 1 /\ v.pending = p
    BY <1>6, <1>9, <2>2, TakenOwes
  <2> QED BY <2>1, <2>3
<1>11. sock.txCount \in Nat
  BY <1>8, EntryFields
<1> QED BY <1>5, <1>6, <1>8, <1>9, <1>10, <1>11

\* A request that is taken is passed on to L2CAP.
LEMMA TakenFlow ==
  ASSUME FlowInv, TakeDataReq \/ TakeLastDataReq
  PROVE  FlowInv'
<1>1. /\ TypeOK /\ BmmReceive("DATA_REQ") /\ DataReqStatus = "SUCCESS"
      /\ PassOn(Head(bmmQ)) /\ nreq' = nreq
  BY Zenon DEF FlowInv, TakeDataReq, TakeLastDataReq
<1>2. PICK t : t = "DATA_REQ"
  OBVIOUS
<1>3. /\ Head(bmmQ) \in BmmMsg /\ Head(bmmQ).type = "DATA_REQ"
      /\ bmmQ' \in Seq(BmmMsg)
      /\ CfmsIn(bmmQ) = LengthOf(Head(bmmQ)) + CfmsIn(bmmQ') /\ CfmsIn(bmmQ') \in Nat
      /\ \A k \in DOMAIN bmmQ' : k + 1 \in DOMAIN bmmQ /\ bmmQ'[k] = bmmQ[k + 1]
        BY <1>1, <1>2, Received
<1>4. CfmsIn(bmmQ') = CfmsIn(bmmQ)
  <2>1. LengthOf(Head(bmmQ)) = 0
    BY <1>3 DEF LengthOf
  <2> QED BY <1>3, <2>1
<1>5. PICK r, n : r = Head(bmmQ).req /\ n = Head(bmmQ).size
  OBVIOUS
<1>6. /\ ChannelOpen
      /\ r \in Request /\ n \in Sizes /\ n \in Nat \ {0}
      /\ sock' \in Entries /\ RingOf(sock') /\ Owed(sock') = Owed(sock) + n
      /\ sock'.state = sock.state /\ sock'.proto = sock.proto
  BY <1>5, TakenEntry
<1>10. answer' \in [{NoRequest} \cup Request -> Seq(Result)]
  <2>1. CASE TakeDataReq
    <3>1. PICK x : x = "SUCCESS"
      OBVIOUS
    <3>2. x \in Result /\ r \in {NoRequest} \cup Request
      BY <1>6, <3>1 DEF Result
    <3>3. Confirm(r, x)
      BY <1>5, <2>1, <3>1, Zenon DEF TakeDataReq
    <3> QED BY <1>1, <3>2, <3>3, ConfirmTyped, Typed, Zenon
  <2>2. CASE TakeLastDataReq
    BY <1>1, <2>2, Typed, Zenon DEF TakeLastDataReq
  <2> QED BY <2>1, <2>2
<1>12. PICK e : e = [req |-> r, size |-> n]
  OBVIOUS
<1>13. e \in L2capReq /\ e.size = n
  BY <1>6, <1>12 DEF L2capReq
<1>14. /\ l2capQ' = Append(l2capQ, e)
       /\ sduQ' = sduQ /\ txCredits' = txCredits
       /\ txQ' = txQ /\ txDone' = txDone /\ link' = link
  BY <1>1, <1>5, <1>12, Zenon DEF PassOn
<1>15. l2capQ' \in Seq(L2capReq) /\ AskedIn(l2capQ') = AskedIn(l2capQ) + n
  <2>1. l2capQ \in Seq(L2capReq)
    BY <1>1, Typed, Zenon
  <2>2. l2capQ' \in Seq(L2capReq)
    BY <1>13, <1>14, <2>1, AppendProperties
  <2>3. AskedIn(l2capQ') = AskedIn(l2capQ) + e.size
    BY <1>13, <1>14, <2>1, AskedQueue, Zenon
  <2> QED BY <1>13, <2>2, <2>3
<1>16. TypeOK'
  BY <1>1, <1>3, <1>10, <1>6, <1>14, <1>15, Typed, TypeFrom, Zenon
<1>17. ChannelOpen' <=> ChannelOpen
  BY <1>6, <1>14, Zenon DEF ChannelOpen
<1>18. Owed(sock') = AskedIn(l2capQ') + Len(sduQ') + Len(txQ') + Len(txDone') + CfmsIn(bmmQ')
  <2>1. /\ Owed(sock) = AskedIn(l2capQ) + Len(sduQ) + Len(txQ) + Len(txDone) + CfmsIn(bmmQ)
        /\ AskedIn(l2capQ) \in Nat
        /\ Len(sduQ) \in Nat /\ Len(txQ) \in Nat /\ Len(txDone) \in Nat
    BY <1>1, <1>6, FlowOpen, Typed, Zenon
  <2> QED BY <1>3, <1>4, <1>6, <1>6, <1>14, <1>15, <2>1
<1> QED BY <1>3, <1>6, <1>6, <1>16, <1>17, <1>18, FlowStep, Zenon

\* A confirmation takes one segment off what the BMM of RFCOMM expects.
LEMMA RfcommFlow ==
  ASSUME FlowInv, HandleRfcommWriteCfm
  PROVE  FlowInv'
<1>1. /\ TypeOK /\ BmmReceive("WRITE_CFM") /\ sock.proto = "RFCOMM"
      /\ (ConfirmPending \/ UNCHANGED answer) /\ UNCHANGED <<lower, nreq>>
  BY Zenon DEF FlowInv, HandleRfcommWriteCfm
<1>2. PICK t : t = "WRITE_CFM"
  OBVIOUS
<1>3. /\ Head(bmmQ) \in BmmMsg /\ Head(bmmQ).type = "WRITE_CFM"
      /\ bmmQ' \in Seq(BmmMsg)
      /\ CfmsIn(bmmQ) = LengthOf(Head(bmmQ)) + CfmsIn(bmmQ') /\ CfmsIn(bmmQ') \in Nat
      /\ \A k \in DOMAIN bmmQ' : k + 1 \in DOMAIN bmmQ /\ bmmQ'[k] = bmmQ[k + 1]
      /\ 1 \in DOMAIN bmmQ /\ Head(bmmQ) = bmmQ[1]
  BY <1>1, <1>2, Received
<1>4. CfmsIn(bmmQ) = 1 + CfmsIn(bmmQ')
  <2>1. Fine(Head(bmmQ), sock.proto, ChannelOpen)
    BY <1>3 DEF FlowInv, MsgsFine
  <2>2. LengthOf(Head(bmmQ)) = 1
    BY <1>1, <1>3, <2>1 DEF Fine, IsCfm, LengthOf
  <2> QED BY <1>3, <2>2
<1>5. sock \in Entries /\ sock.txCount \in Nat /\ sock.txCount \in 0 .. MaxTxCount
      /\ sock.pending \in {NoRequest} \cup Request
  BY <1>1, Typed, EntryFields, Zenon
<1>6. PICK c, p : /\ c = IF sock.txCount > 0 THEN sock.txCount - 1 ELSE sock.txCount
                  /\ p = IF sock.txCount = Window THEN NoRequest ELSE sock.pending
  OBVIOUS
<1>7. sock' = WithCount(sock, c, p)
  BY <1>6 DEF HandleRfcommWriteCfm, WithCount
<1>8. c \in 0 .. MaxTxCount /\ c <= sock.txCount /\ p \in {NoRequest} \cup Request
  <2>1. c \in 0 .. MaxTxCount /\ c <= sock.txCount
    BY <1>5, <1>6, WindowIs
  <2>2. p \in {NoRequest} \cup Request
    BY <1>5, <1>6
  <2> QED BY <2>1, <2>2
<1>9. /\ sock' \in Entries /\ sock'.txCount = c
      /\ sock'.proto = sock.proto /\ sock'.state = sock.state
  <2>1. PICK e, v : e = sock /\ v = sock'
    OBVIOUS
  <2>2. e \in Entries /\ v = WithCount(e, c, p)
    BY <1>5, <1>7, <2>1, Zenon
  <2>3. v \in Entries /\ v.txCount = c /\ v.proto = e.proto /\ v.state = e.state
    BY <1>8, <2>2, CountTyped
  <2> QED BY <2>1, <2>3, Zenon
<1>10. answer' \in [{NoRequest} \cup Request -> Seq(Result)]
  BY <1>1, PendingTyped, Zenon
<1>11. /\ l2capQ' = l2capQ /\ sduQ' = sduQ /\ txCredits' = txCredits
       /\ txQ' = txQ /\ txDone' = txDone /\ link' = link /\ nreq' = nreq
  BY <1>1, Zenon DEF lower
<1>12. TypeOK'
  BY <1>1, <1>3, <1>9, <1>10, <1>11, Typed, TypeFrom, Zenon
<1>13. ChannelOpen' <=> ChannelOpen
  BY <1>9, <1>11, Zenon DEF ChannelOpen
<1>14. ASSUME ChannelOpen
       PROVE  /\ RingOf(sock')
              /\ Owed(sock') = AskedIn(l2capQ') + Len(sduQ') + Len(txQ') + Len(txDone')
                                 + CfmsIn(bmmQ')
  <2>1. /\ Owed(sock) = AskedIn(l2capQ) + Len(sduQ) + Len(txQ) + Len(txDone) + CfmsIn(bmmQ)
        /\ AskedIn(l2capQ) \in Nat /\ RingOf(sock)
        /\ Len(sduQ) \in Nat /\ Len(txQ) \in Nat /\ Len(txDone) \in Nat
    BY <1>1, <1>14, FlowOpen, Typed, Zenon
  <2>2. Owed(sock) = sock.txCount /\ Owed(sock') = c
    BY <1>1, <1>9, Zenon DEF Owed
  <2>3. sock.txCount = AskedIn(l2capQ) + Len(sduQ) + Len(txQ) + Len(txDone) + (1 + CfmsIn(bmmQ'))
    BY <1>4, <2>1, <2>2
  <2>4. sock.txCount > 0
    BY <1>3, <2>1, <2>3
  <2>5. c = sock.txCount - 1
    BY <1>6, <2>4
  <2>6. RingOf(sock')
    <3>1. sock.txCount <= Window
      BY <2>1 DEF RingOf
    <3>2. sock'.txCount <= Window
      BY <1>5, <1>9, <2>5, <3>1, WindowIs
    <3> QED BY <1>1, <1>9, <3>2 DEF RingOf
  <2>7. c = AskedIn(l2capQ) + Len(sduQ) + Len(txQ) + Len(txDone) + CfmsIn(bmmQ')
    BY <1>3, <2>1, <2>3, <2>5
  <2> QED BY <1>11, <2>2, <2>6, <2>7, Zenon
<1> QED BY <1>3, <1>9, <1>12, <1>13, <1>14, FlowStep, Zenon

\* A confirmation is expected as long as the channel is there.
LEMMA Awaited ==
  ASSUME FlowInv, ChannelOpen, BmmReceive("WRITE_CFM")
  PROVE  /\ Head(bmmQ).length = 1
         /\ RingOf(sock) /\ sock.txCount > 0
         /\ Owed(sock) - 1 = AskedIn(l2capQ) + Len(sduQ) + Len(txQ) + Len(txDone) + CfmsIn(bmmQ')
<1>1. TypeOK
  BY DEF FlowInv
<1>2. PICK t : t = "WRITE_CFM"
  OBVIOUS
<1>3. /\ Head(bmmQ) \in BmmMsg /\ Head(bmmQ).type = "WRITE_CFM"
      /\ CfmsIn(bmmQ) = LengthOf(Head(bmmQ)) + CfmsIn(bmmQ') /\ CfmsIn(bmmQ') \in Nat
      /\ 1 \in DOMAIN bmmQ /\ Head(bmmQ) = bmmQ[1]
  BY <1>1, <1>2, Received
<1>4. Fine(Head(bmmQ), sock.proto, ChannelOpen)
  BY <1>3 DEF FlowInv, MsgsFine
<1>5. Head(bmmQ).length = 1 /\ LengthOf(Head(bmmQ)) = 1
  BY <1>3, <1>4 DEF Fine, IsCfm, LengthOf
<1>6. CfmsIn(bmmQ) = 1 + CfmsIn(bmmQ')
  BY <1>3, <1>5
<1>7. /\ Owed(sock) = AskedIn(l2capQ) + Len(sduQ) + Len(txQ) + Len(txDone) + CfmsIn(bmmQ)
      /\ AskedIn(l2capQ) \in Nat /\ RingOf(sock) /\ (sock.txCount = 0 => Owed(sock) = 0)
      /\ Len(sduQ) \in Nat /\ Len(txQ) \in Nat /\ Len(txDone) \in Nat
      /\ sock.txCount \in Nat
  BY <1>1, EntryFields, FlowOpen, Typed, Zenon
<1>8. Owed(sock) - 1 = AskedIn(l2capQ) + Len(sduQ) + Len(txQ) + Len(txDone) + CfmsIn(bmmQ')
      /\ Owed(sock) > 0
  BY <1>3, <1>6, <1>7
<1>9. sock.txCount > 0
  BY <1>7, <1>8
<1> QED BY <1>5, <1>7, <1>8, <1>9, Zenon

\* A confirmation takes one segment off what the BMM of LE CoC expects.
LEMMA LecocFlow ==
  ASSUME FlowInv, HandleLecocPartCfm \/ HandleLecocWriteCfm
  PROVE  FlowInv'
<1>1. /\ TypeOK /\ BmmReceive("WRITE_CFM") /\ sock.proto = "LECOC"
      /\ (ConfirmPending \/ UNCHANGED answer) /\ UNCHANGED <<lower, nreq>>
  BY Zenon DEF FlowInv, HandleLecocPartCfm, HandleLecocWriteCfm
<1>2. PICK t : t = "WRITE_CFM"
  OBVIOUS
<1>3. /\ Head(bmmQ) \in BmmMsg /\ Head(bmmQ).type = "WRITE_CFM"
      /\ bmmQ' \in Seq(BmmMsg)
      /\ CfmsIn(bmmQ) = LengthOf(Head(bmmQ)) + CfmsIn(bmmQ') /\ CfmsIn(bmmQ') \in Nat
      /\ \A k \in DOMAIN bmmQ' : k + 1 \in DOMAIN bmmQ /\ bmmQ'[k] = bmmQ[k + 1]
      /\ 1 \in DOMAIN bmmQ /\ Head(bmmQ) = bmmQ[1]
  BY <1>1, <1>2, Received
<1>5. sock \in Entries /\ sock.pending \in {NoRequest} \cup Request /\ sock.dequeueIdx \in Slot
      /\ sock.segInfo[sock.dequeueIdx].lengthCfd \in Nat
  BY <1>1, Typed, EntryFields, Zenon
<1>6. PICK l, n, z : /\ l = Head(bmmQ).length /\ n = LengthCfd(Head(bmmQ))
                     /\ z = sock.segInfo[sock.dequeueIdx].pduSize
  OBVIOUS
<1>7. l \in Nat /\ n \in Nat /\ n = sock.segInfo[sock.dequeueIdx].lengthCfd + l
  <2>1. l \in Nat
    BY <1>3, <1>6, MessageFields
  <2> QED BY <1>5, <1>6, <2>1 DEF LengthCfd
<1>8. ChannelOpen =>
        /\ l = 1 /\ RingOf(sock) /\ sock.txCount > 0
        /\ Owed(sock) - 1 = AskedIn(l2capQ) + Len(sduQ) + Len(txQ) + Len(txDone) + CfmsIn(bmmQ')
  BY <1>1, <1>6, Awaited
<1>9. /\ sock' \in Entries /\ sock'.proto = sock.proto /\ sock'.state = sock.state
      /\ ChannelOpen => RingOf(sock') /\ Owed(sock') = Owed(sock) - 1
  <2>1. PICK e, v : e = sock /\ v = sock'
    OBVIOUS
  <2>2. e \in Entries /\ e.proto = "LECOC"
    BY <1>1, <1>5, <2>1, Zenon
  <2>3. ChannelOpen => /\ RingOf(e) /\ e.txCount > 0
                       /\ n = e.segInfo[e.dequeueIdx].lengthCfd + 1
    BY <1>7, <1>8, <2>1
  <2>4. CASE HandleLecocPartCfm
    <3>1. v = WithPart(e, n)
      BY <1>6, <2>1, <2>4, Zenon DEF HandleLecocPartCfm, WithPart
    <3>2. n # e.segInfo[e.dequeueIdx].pduSize
      BY <1>6, <2>1, <2>4, Zenon DEF HandleLecocPartCfm, RequestConfirmed
    <3>3. /\ v \in Entries /\ v.state = e.state /\ v.proto = e.proto
          /\ ChannelOpen => RingOf(v) /\ Owed(v) = Owed(e) - 1
      BY <1>7, <2>2, <2>3, <3>1, <3>2, PartOwes
    <3> QED BY <2>1, <3>3, Zenon
  <2>5. CASE HandleLecocWriteCfm
    <3>0. PICK p : p = IF sock.txCount >= Window THEN NoRequest ELSE sock.pending
      OBVIOUS
    <3>1. v = WithWhole(e, n, p)
      BY <1>6, <2>1, <2>5, <3>0 DEF HandleLecocWriteCfm, WithWhole
    <3>2. n = e.segInfo[e.dequeueIdx].pduSize
      BY <1>6, <2>1, <2>5, Zenon DEF HandleLecocWriteCfm, RequestConfirmed
    <3>3. p \in {NoRequest} \cup Request
      BY <1>5, <3>0
    <3>4. /\ v \in Entries /\ v.state = e.state /\ v.proto = e.proto
          /\ ChannelOpen => RingOf(v) /\ Owed(v) = Owed(e) - 1
      BY <1>7, <2>2, <2>3, <3>1, <3>2, <3>3, WholeOwes
    <3> QED BY <2>1, <3>4, Zenon
  <2> QED BY <2>4, <2>5
<1>10. answer' \in [{NoRequest} \cup Request -> Seq(Result)]
  BY <1>1, PendingTyped, Zenon
<1>11. /\ l2capQ' = l2capQ /\ sduQ' = sduQ /\ txCredits' = txCredits
       /\ txQ' = txQ /\ txDone' = txDone /\ link' = link /\ nreq' = nreq
  BY <1>1, Zenon DEF lower
<1>12. TypeOK'
  BY <1>1, <1>3, <1>9, <1>10, <1>11, Typed, TypeFrom, Zenon
<1>13. ChannelOpen' <=> ChannelOpen
  BY <1>9, <1>11, Zenon DEF ChannelOpen
<1>14. ASSUME ChannelOpen
       PROVE  /\ RingOf(sock')
              /\ Owed(sock') = AskedIn(l2capQ') + Len(sduQ') + Len(txQ') + Len(txDone')
                                 + CfmsIn(bmmQ')
  BY <1>8, <1>9, <1>11, <1>14, Zenon
<1> QED BY <1>3, <1>9, <1>12, <1>13, <1>14, FlowStep, Zenon

\* An error of the channel is noted in the entry and nowhere else.
LEMMA ErrorFlow ==
  ASSUME FlowInv, HandleDisconnectInd
  PROVE  FlowInv'
<1>1. /\ TypeOK /\ BmmReceive("DISCONNECT_IND") /\ UNCHANGED <<lower, nreq, answer>>
  BY Zenon DEF FlowInv, HandleDisconnectInd
<1>2. PICK t : t = "DISCONNECT_IND"
  OBVIOUS
<1>3. /\ Head(bmmQ) \in BmmMsg /\ Head(bmmQ).type = "DISCONNECT_IND"
      /\ bmmQ' \in Seq(BmmMsg)
      /\ CfmsIn(bmmQ) = LengthOf(Head(bmmQ)) + CfmsIn(bmmQ') /\ CfmsIn(bmmQ') \in Nat
      /\ \A k \in DOMAIN bmmQ' : k + 1 \in DOMAIN bmmQ /\ bmmQ'[k] = bmmQ[k + 1]
  BY <1>1, <1>2, Received
<1>4. CfmsIn(bmmQ') = CfmsIn(bmmQ)
  <2>1. LengthOf(Head(bmmQ)) = 0
    BY <1>3 DEF LengthOf
  <2> QED BY <1>3, <2>1
<1>5. PICK r : r = IF sock.state = "CONNECTED" THEN "IN_ERROR" ELSE sock.state
  OBVIOUS
<1>6. sock \in Entries /\ r \in {"CONNECTED", "IN_ERROR", "CLOSED"}
      /\ (r = "CLOSED" <=> sock.state = "CLOSED")
  BY <1>1, <1>5, Typed, EntryFields
<1>7. sock' = WithState(sock, r)
  BY <1>5 DEF HandleDisconnectInd, WithState
<1>8. /\ sock' \in Entries /\ sock'.state = r
      /\ sock'.proto = sock.proto /\ sock'.txCount = sock.txCount
      /\ sock'.segInfo = sock.segInfo
      /\ sock'.enqueueIdx = sock.enqueueIdx /\ sock'.dequeueIdx = sock.dequeueIdx
  <2>1. PICK e, v : e = sock /\ v = sock'
    OBVIOUS
  <2>2. e \in Entries /\ v = WithState(e, r)
    BY <1>6, <1>7, <2>1, Zenon
  <2>3. /\ v \in Entries /\ v.state = r
        /\ v.proto = e.proto /\ v.txCount = e.txCount
        /\ v.segInfo = e.segInfo /\ v.enqueueIdx = e.enqueueIdx /\ v.dequeueIdx = e.dequeueIdx
    BY <1>6, <2>2, StateTyped
  <2> QED BY <2>1, <2>3, Zenon
<1>9. RingOf(sock') <=> RingOf(sock)
  BY <1>8, Zenon DEF RingOf, RestAt
<1>10. Owed(sock') = Owed(sock)
  BY <1>8, Zenon DEF Owed, Rests, RestAt
<1>11. /\ l2capQ' = l2capQ /\ sduQ' = sduQ /\ txCredits' = txCredits /\ answer' = answer
       /\ txQ' = txQ /\ txDone' = txDone /\ link' = link /\ nreq' = nreq
  BY <1>1, Zenon DEF lower
<1>12. TypeOK'
  BY <1>1, <1>3, <1>8, <1>11, Typed, TypeFrom, Zenon
<1>13. ChannelOpen' <=> ChannelOpen
  BY <1>6, <1>8, <1>11, Zenon DEF ChannelOpen
<1>14. ASSUME ChannelOpen
       PROVE  /\ RingOf(sock')
              /\ Owed(sock') = AskedIn(l2capQ') + Len(sduQ') + Len(txQ') + Len(txDone')
                                 + CfmsIn(bmmQ')
  BY <1>4, <1>9, <1>10, <1>11, <1>14, FlowOpen, Zenon
<1> QED BY <1>3, <1>8, <1>12, <1>13, <1>14, FlowStep, Zenon

\* When the channel goes nothing is expected any more, and the confirmations
\* of what did not go out are those that need no longer be of one segment.
LEMMA DroppedFlow ==
  ASSUME FlowInv, HandleCloseReq \/ LinkLost
  PROVE  FlowInv'
<1>1. TypeOK /\ nreq' = nreq /\ answer' = answer /\ l2capQ' = l2capQ /\ txCredits' = txCredits
  BY Zenon DEF FlowInv, HandleCloseReq, LinkLost
<1>2. /\ sock' \in Entries /\ sock'.proto = sock.proto
      /\ link' \in BOOLEAN /\ ~ChannelOpen'
  <2>1. CASE HandleCloseReq
    <3>1. PICK r, p, v : r = "CLOSED" /\ p = sock.proto /\ v = sock'
      OBVIOUS
    <3>2. p \in Protos /\ r \in {"CONNECTED", "IN_ERROR", "CLOSED"}
      BY <1>1, <3>1, Typed, EntryFields
    <3>3. v = WithState(NewSock(p), r)
      BY <2>1, <3>1, Zenon DEF HandleCloseReq, WithState
    <3>4. v \in Entries /\ v.proto = p /\ v.state = r
      BY <3>2, <3>3, NewSockTyped
    <3>5. link' \in BOOLEAN
      BY <1>1, <2>1, Typed, Zenon DEF HandleCloseReq
    <3> QED BY <3>1, <3>4, <3>5, Zenon DEF ChannelOpen
  <2>2. CASE LinkLost
    BY <1>1, <2>2, Typed, Zenon DEF LinkLost, ChannelOpen
  <2> QED BY <2>1, <2>2
<1>3. PICK q : /\ q \in Seq(BmmMsg) /\ DropChannel(q)
               /\ \A k \in DOMAIN q : \E j \in DOMAIN bmmQ : q[k] = bmmQ[j]
  <2>1. bmmQ \in Seq(BmmMsg)
    BY <1>1, Typed, Zenon
  <2>2. CASE HandleCloseReq
    <3>1. bmmQ # <<>> /\ DropChannel(Tail(bmmQ))
      BY <2>2, Zenon DEF HandleCloseReq
    <3>2. PICK q : q = Tail(bmmQ)
      OBVIOUS
    <3>3. q \in Seq(BmmMsg) /\ Len(q) = Len(bmmQ) - 1 /\ \A k \in 1 .. Len(q) : q[k] = bmmQ[k + 1]
      BY <2>1, <3>1, <3>2, HeadTailProperties
    <3>4. ASSUME NEW k \in DOMAIN q
          PROVE  k + 1 \in DOMAIN bmmQ /\ q[k] = bmmQ[k + 1]
      BY <2>1, <3>3, <3>4
    <3>5. \A k \in DOMAIN q : \E j \in DOMAIN bmmQ : q[k] = bmmQ[j]
      BY <3>4
    <3> QED BY <3>1, <3>2, <3>3, <3>5, ZenonT(60)
  <2>3. CASE LinkLost
    BY <2>1, <2>3, Zenon DEF LinkLost
  <2> QED BY <2>2, <2>3
<1>4. /\ sduQ \in Seq(Segment) /\ txQ \in Seq(Segment)
  BY <1>1, Typed, Zenon
<1>5. PICK f : f = FlushCfms
  OBVIOUS
<1>6. f \in Seq(BmmMsg) /\ (sock.proto = "RFCOMM" => f = <<>>)
  BY <1>4, <1>5, FlushTyped, Zenon
<1>7. bmmQ' = q \o f /\ sduQ' = <<>> /\ txQ' = <<>> /\ txDone' = <<>>
  BY <1>3, <1>5, Zenon DEF DropChannel
<1>8. bmmQ' \in Seq(BmmMsg)
  <2>1. q \o f \in Seq(BmmMsg)
    BY <1>3, <1>6, ConcatProperties, Zenon
  <2> QED BY <1>7, <2>1, Zenon
<1>9. sduQ' \in Seq(Segment) /\ txQ' \in Seq(Segment) /\ txDone' \in Seq(Segment)
  BY <1>7
<1>10. TypeOK'
  BY <1>1, <1>2, <1>8, <1>9, Typed, TypeFrom, Zenon
<1>11. ASSUME NEW k \in DOMAIN bmmQ'
       PROVE  \/ \E j \in DOMAIN bmmQ : bmmQ'[k] = bmmQ[j]
              \/ Fine(bmmQ'[k], sock.proto, ChannelOpen')
  <2>1. CASE sock.proto = "RFCOMM"
    <3>1. q \o <<>> = q
      BY <1>3, ConcatEmptySeq, Zenon
    <3>2. bmmQ' = q
      BY <1>6, <1>7, <2>1, <3>1
    <3> QED BY <1>3, <3>2
  <2>2. CASE sock.proto # "RFCOMM"
    BY <1>2, <2>2, Zenon DEF Fine
  <2> QED BY <2>1, <2>2
<1> QED BY <1>2, <1>10, <1>11, FlowStep, Zenon

\* L2CAP splits a request into as many segments as it asks for.
LEMMA L2capFlow ==
  ASSUME FlowInv, L2capWrites
  PROVE  FlowInv'
<1>1. /\ TypeOK /\ l2capQ # <<>> /\ l2capQ' = Tail(l2capQ)
      /\ sock' = sock /\ txDone' = txDone /\ link' = link /\ nreq' = nreq
      /\ answer' = answer
  BY Zenon DEF FlowInv, L2capWrites
<1>2. l2capQ \in Seq(L2capReq)
  BY <1>1, Typed, Zenon
<1>3. Head(l2capQ) \in L2capReq /\ l2capQ' \in Seq(L2capReq)
  BY <1>1, <1>2, HeadTailProperties
<1>4. AskedIn(l2capQ) = Head(l2capQ).size + AskedIn(l2capQ') /\ AskedIn(l2capQ') \in Nat
  BY <1>1, <1>2, <1>3, AskedQueue, Zenon
<1>5. ChannelOpen' <=> ChannelOpen
  BY <1>1, Zenon DEF ChannelOpen
<1>6. CASE ~ChannelOpen
  <2>1. sduQ' = sduQ /\ txCredits' = txCredits /\ txQ' = txQ /\ bmmQ' = bmmQ
    BY <1>6, Zenon DEF L2capWrites
  <2>2. TypeOK'
    BY <1>1, <1>3, <2>1, Typed, TypeFrom, Zenon
  <2> QED BY <1>1, <1>5, <1>6, <2>1, <2>2, FlowStep, Zenon
<1>7. CASE ChannelOpen
  <2>1. PICK g, c : g = sduQ \o Segments(Head(l2capQ)) /\ c = txCredits
    OBVIOUS
  <2>2. /\ txQ \in Seq(Segment) /\ sduQ \in Seq(Segment) /\ c \in 0 .. MaxCredits
    BY <1>1, <2>1, Typed, Zenon
  <2>3. Segments(Head(l2capQ)) \in Seq(Segment)
        /\ Len(Segments(Head(l2capQ))) = Head(l2capQ).size
    BY <1>3, SegmentsTyped, Zenon
  <2>4. g \in Seq(Segment) /\ Len(g) = Len(sduQ) + Head(l2capQ).size
    <3>1. PICK u, w : u = sduQ /\ w = Segments(Head(l2capQ))
      OBVIOUS
    <3>2. u \in Seq(Segment) /\ w \in Seq(Segment) /\ Len(w) = Head(l2capQ).size
      BY <2>2, <2>3, <3>1, Zenon
    <3>3. u \o w \in Seq(Segment) /\ Len(u \o w) = Len(u) + Len(w)
      BY <3>2, ConcatProperties, Zenon
    <3> QED BY <2>1, <3>1, <3>2, <3>3, Zenon
  <2>5. Reschedule(g, c)
    BY <1>7, <2>1, Zenon DEF L2capWrites
  <2>6. /\ txQ' \in Seq(Segment) /\ sduQ' \in Seq(Segment) /\ txCredits' \in 0 .. MaxCredits
        /\ Len(sduQ') + Len(txQ') = Len(g) + Len(txQ)
        /\ \E k : ReportPending(k)
    BY <2>2, <2>4, <2>5, RescheduleKeeps, Zenon
  <2>11. /\ bmmQ' \in Seq(BmmMsg) /\ CfmsIn(bmmQ') = CfmsIn(bmmQ)
         /\ \A i \in DOMAIN bmmQ' : \/ \E j \in DOMAIN bmmQ : bmmQ'[i] = bmmQ[j]
                                   \/ Fine(bmmQ'[i], sock.proto, ChannelOpen')
    BY <2>6, PendingReported, Zenon
  <2>7. TypeOK'
    BY <1>1, <1>3, <2>6, <2>11, Typed, TypeFrom, Zenon
  <2>8. /\ Owed(sock) = AskedIn(l2capQ) + Len(sduQ) + Len(txQ) + Len(txDone) + CfmsIn(bmmQ)
        /\ RingOf(sock) /\ CfmsIn(bmmQ) \in Nat
        /\ Len(sduQ) \in Nat /\ Len(txQ) \in Nat /\ Len(txDone) \in Nat
    BY <1>1, <1>7, FlowOpen, Typed, Zenon
  <2>9. Len(sduQ') \in Nat /\ Len(txQ') \in Nat /\ Head(l2capQ).size \in Nat
    BY <2>6, <2>3, LenProperties
  <2>10. Owed(sock) = AskedIn(l2capQ') + Len(sduQ') + Len(txQ') + Len(txDone) + CfmsIn(bmmQ)
    <3>1. PICK a, n, s, t, d, m, s2, t2 :
            /\ a = AskedIn(l2capQ') /\ n = Head(l2capQ).size /\ m = CfmsIn(bmmQ)
            /\ s = Len(sduQ) /\ t = Len(txQ) /\ d = Len(txDone)
            /\ s2 = Len(sduQ') /\ t2 = Len(txQ')
      OBVIOUS
    <3>2. /\ a \in Nat /\ n \in Nat /\ s \in Nat /\ t \in Nat /\ d \in Nat /\ m \in Nat
          /\ s2 \in Nat /\ t2 \in Nat
      BY <1>4, <2>8, <2>9, <3>1, Zenon
    <3>3. s2 + t2 = (s + n) + t
      BY <2>4, <2>6, <3>1, Zenon
    <3>4. Owed(sock) = (n + a) + s + t + d + m
      BY <1>4, <2>8, <3>1, Zenon
    <3>5. Owed(sock) = a + s2 + t2 + d + m
      BY ONLY <3>2, <3>3, <3>4
    <3> QED BY <3>1, <3>5, Zenon
  <2> QED BY <1>1, <1>5, <2>7, <2>8, <2>10, <2>11, FlowStep, Zenon
<1> QED BY <1>6, <1>7

\* A credit moves a segment on.
LEMMA CreditFlow ==
  ASSUME FlowInv, PeerGivesCredit
  PROVE  FlowInv'
<1>1. /\ TypeOK /\ ChannelOpen
      /\ sock' = sock /\ l2capQ' = l2capQ /\ txDone' = txDone /\ link' = link
      /\ nreq' = nreq /\ answer' = answer
  BY Zenon DEF FlowInv, PeerGivesCredit
<1>2. ChannelOpen'
  BY <1>1, Zenon DEF ChannelOpen
<1>3. PICK c : c = txCredits + 1
  OBVIOUS
<1>4. txQ \in Seq(Segment) /\ sduQ \in Seq(Segment) /\ txCredits \in 0 .. MaxCredits
  BY <1>1, Typed, Zenon
<1>5. c \in 0 .. MaxCredits
  BY <1>3, <1>4, MaxCreditsAssumption DEF PeerGivesCredit
<1>6. Reschedule(sduQ, c)
  BY <1>3 DEF PeerGivesCredit
<1>7. /\ txQ' \in Seq(Segment) /\ sduQ' \in Seq(Segment) /\ txCredits' \in 0 .. MaxCredits
      /\ Len(sduQ') + Len(txQ') = Len(sduQ) + Len(txQ)
      /\ \E k : ReportPending(k)
  BY <1>4, <1>5, <1>6, RescheduleKeeps, Zenon
<1>12. /\ bmmQ' \in Seq(BmmMsg) /\ CfmsIn(bmmQ') = CfmsIn(bmmQ)
       /\ \A i \in DOMAIN bmmQ' : \/ \E j \in DOMAIN bmmQ : bmmQ'[i] = bmmQ[j]
                                 \/ Fine(bmmQ'[i], sock.proto, ChannelOpen')
  BY <1>7, PendingReported, Zenon
<1>8. TypeOK'
  BY <1>1, <1>7, <1>12, Typed, TypeFrom, Zenon
<1>9. /\ Owed(sock) = AskedIn(l2capQ) + Len(sduQ) + Len(txQ) + Len(txDone) + CfmsIn(bmmQ)
      /\ RingOf(sock) /\ CfmsIn(bmmQ) \in Nat /\ AskedIn(l2capQ) \in Nat
      /\ Len(sduQ) \in Nat /\ Len(txQ) \in Nat /\ Len(txDone) \in Nat
  BY <1>1, FlowOpen, Typed, Zenon
<1>10. Len(sduQ') \in Nat /\ Len(txQ') \in Nat
  BY <1>7, LenProperties
<1>11. Owed(sock) = AskedIn(l2capQ) + Len(sduQ') + Len(txQ') + Len(txDone) + CfmsIn(bmmQ)
  <2>1. PICK a, s, t, d, m, s2, t2 :
          /\ a = AskedIn(l2capQ) /\ m = CfmsIn(bmmQ)
          /\ s = Len(sduQ) /\ t = Len(txQ) /\ d = Len(txDone)
          /\ s2 = Len(sduQ') /\ t2 = Len(txQ')
    OBVIOUS
  <2>2. /\ a \in Nat /\ s \in Nat /\ t \in Nat /\ d \in Nat /\ m \in Nat
        /\ s2 \in Nat /\ t2 \in Nat
    BY <1>9, <1>10, <2>1, Zenon
  <2>3. s2 + t2 = s + t /\ Owed(sock) = a + s + t + d + m
    BY <1>7, <1>9, <2>1, Zenon
  <2>4. Owed(sock) = a + s2 + t2 + d + m
    BY ONLY <2>2, <2>3
  <2> QED BY <2>1, <2>4, Zenon
<1> QED BY <1>1, <1>2, <1>8, <1>9, <1>11, <1>12, FlowStep, Zenon

\* The controller takes a segment, and tells of one that it has sent.
LEMMA LinkFlow ==
  ASSUME FlowInv, LinkStep
  PROVE  FlowInv'
<1>1. TypeOK
  BY DEF FlowInv
<1>2. /\ bmmQ \in Seq(BmmMsg) /\ txQ \in Seq(Segment) /\ txDone \in Seq(Segment)
  BY <1>1, Typed, Zenon
<1>3. ASSUME ChannelOpen
      PROVE  /\ Owed(sock) = AskedIn(l2capQ) + Len(sduQ) + Len(txQ) + Len(txDone) + CfmsIn(bmmQ)
             /\ RingOf(sock) /\ CfmsIn(bmmQ) \in Nat /\ AskedIn(l2capQ) \in Nat
             /\ Len(sduQ) \in Nat /\ Len(txQ) \in Nat /\ Len(txDone) \in Nat
  BY <1>1, <1>3, FlowOpen, Typed, Zenon
<1>4. CASE SendSegment
  <2>1. /\ txQ # <<>> /\ txQ' = Tail(txQ) /\ txDone' = Append(txDone, Head(txQ))
        /\ sock' = sock /\ bmmQ' = bmmQ /\ l2capQ' = l2capQ /\ sduQ' = sduQ
        /\ txCredits' = txCredits /\ link' = link /\ nreq' = nreq /\ answer' = answer
    BY <1>4, Zenon DEF SendSegment
  <2>2. Head(txQ) \in Segment /\ txQ' \in Seq(Segment) /\ Len(txQ') = Len(txQ) - 1
    BY <1>2, <2>1, HeadTailProperties
  <2>3. txDone' \in Seq(Segment) /\ Len(txDone') = Len(txDone) + 1
    BY <1>2, <2>1, <2>2, AppendProperties
  <2>4. TypeOK'
    BY <1>1, <2>1, <2>2, <2>3, Typed, TypeFrom, Zenon
  <2>5. ChannelOpen' <=> ChannelOpen
    BY <2>1, Zenon DEF ChannelOpen
  <2>6. ASSUME ChannelOpen
        PROVE  Owed(sock) = AskedIn(l2capQ) + Len(sduQ) + Len(txQ') + Len(txDone') + CfmsIn(bmmQ)
    <3>1. PICK a, s, t, d, m, t2, d2 :
            /\ a = AskedIn(l2capQ) /\ m = CfmsIn(bmmQ)
            /\ s = Len(sduQ) /\ t = Len(txQ) /\ d = Len(txDone)
            /\ t2 = Len(txQ') /\ d2 = Len(txDone')
      OBVIOUS
    <3>2. /\ a \in Nat /\ s \in Nat /\ t \in Nat /\ d \in Nat /\ m \in Nat
          /\ Owed(sock) = a + s + t + d + m
      BY <1>3, <2>6, <3>1, Zenon
    <3>3. t2 = t - 1 /\ d2 = d + 1
      BY <2>2, <2>3, <3>1
    <3>4. Owed(sock) = a + s + t2 + d2 + m
      BY ONLY <3>2, <3>3
    <3> QED BY <3>1, <3>4, Zenon
  <2> QED BY <1>3, <2>1, <2>4, <2>5, <2>6, FlowStep, Zenon
<1>5. CASE SegmentSent
  <2>1. PICK m : m = WriteCfm(1)
    OBVIOUS
  <2>2. /\ txDone # <<>> /\ txDone' = Tail(txDone) /\ bmmQ' = Append(bmmQ, m)
        /\ sock' = sock /\ l2capQ' = l2capQ /\ sduQ' = sduQ
        /\ txCredits' = txCredits /\ txQ' = txQ /\ link' = link /\ nreq' = nreq
        /\ answer' = answer
    BY <1>5, <2>1 DEF SegmentSent
  <2>3. m \in BmmMsg /\ LengthOf(m) = 1
    BY <2>1, MessagesTyped DEF LengthOf, WriteCfm
  <2>4. Appended(bmmQ', bmmQ, m)
    BY <2>2, Zenon DEF Appended
  <2>5. /\ bmmQ' \in Seq(BmmMsg) /\ CfmsIn(bmmQ') = CfmsIn(bmmQ) + LengthOf(m)
        /\ CfmsIn(bmmQ) \in Nat /\ Grown(bmmQ', bmmQ, m)
    BY <1>2, <2>3, <2>4, Sent, Zenon
  <2>6. txDone' \in Seq(Segment) /\ Len(txDone') = Len(txDone) - 1
    BY <1>2, <2>2, HeadTailProperties
  <2>7. TypeOK'
    BY <1>1, <2>2, <2>5, <2>6, Typed, TypeFrom, Zenon
  <2>8. ChannelOpen' <=> ChannelOpen
    BY <2>2, Zenon DEF ChannelOpen
  <2>9. ASSUME ChannelOpen
        PROVE  Owed(sock) = AskedIn(l2capQ) + Len(sduQ) + Len(txQ) + Len(txDone') + CfmsIn(bmmQ')
    BY <1>3, <2>3, <2>5, <2>6, <2>9
  <2>10. \A p, b : Fine(m, p, b)
    BY <2>1 DEF Fine, WriteCfm, IsCfm, IsData
  <2>11. ASSUME NEW k \in DOMAIN bmmQ'
         PROVE  \/ \E j \in DOMAIN bmmQ : bmmQ'[k] = bmmQ[j]
                \/ Fine(bmmQ'[k], sock.proto, ChannelOpen')
    BY <2>5, <2>10, Zenon DEF Grown
  <2> QED BY <1>3, <2>2, <2>7, <2>8, <2>9, <2>11, FlowStep, Zenon
<1> QED BY <1>4, <1>5 DEF LinkStep

\* Nothing is under way when the socket is offloaded.
LEMMA FlowInit == Init => FlowInv
<1> SUFFICES ASSUME Init PROVE FlowInv
  OBVIOUS
<1>1. PICK p \in Protos : sock = NewSock(p)
  BY DEF Init
<1>2. PICK r : r = "CONNECTED"
  OBVIOUS
<1>3. NewSock(p) = WithState(NewSock(p), r)
  BY <1>2 DEF NewSock, WithState
<1>4. /\ sock \in Entries /\ sock.proto = p /\ sock.state = r /\ sock.txCount = 0
      /\ sock.enqueueIdx = 0 /\ sock.dequeueIdx = 0
  <2>1. PICK v : v = sock
    OBVIOUS
  <2>2. r \in {"CONNECTED", "IN_ERROR", "CLOSED"} /\ v = WithState(NewSock(p), r)
    BY <1>1, <1>2, <1>3, <2>1
  <2>3. /\ v \in Entries /\ v.proto = p /\ v.state = r /\ v.txCount = 0
        /\ v.enqueueIdx = 0 /\ v.dequeueIdx = 0
    BY <2>2, NewSockTyped
  <2> QED BY <2>1, <2>3, Zenon
<1>5. /\ bmmQ = <<>> /\ l2capQ = <<>> /\ sduQ = <<>> /\ txQ = <<>> /\ txDone = <<>>
      /\ txCredits \in 0 .. MaxCredits /\ link = TRUE /\ nreq = 0
      /\ answer = [s \in {NoRequest} \cup Request |-> <<>>]
  BY DEF Init
<1>6. TypeOK
  <2>1. /\ bmmQ \in Seq(BmmMsg) /\ l2capQ \in Seq([req : Request, size : Sizes])
        /\ sduQ \in Seq(Segment) /\ txQ \in Seq(Segment) /\ txDone \in Seq(Segment)
    BY <1>5
  <2>2. link \in BOOLEAN /\ nreq \in 0 .. MaxReq
        /\ answer \in [{NoRequest} \cup Request -> Seq(Result)]
    BY <1>5, MaxReqAssumption
  <2> QED BY <1>4, <1>5, <2>1, <2>2, Zenon DEF TypeOK, Entries
<1>7. MsgsFine
  BY <1>5 DEF MsgsFine
<1>8. RingOf(sock)
  <2>1. sock.enqueueIdx = After(sock.dequeueIdx, sock.txCount)
    BY <1>4, AfterIs, WindowIs DEF Slot
  <2>2. sock.txCount <= Window /\ \A k \in 0 .. sock.txCount - 1 : RestAt(sock, k) > 0
    BY <1>4, WindowIs
  <2> QED BY <2>1, <2>2, Zenon DEF RingOf
<1>9. SegmentsConserved
  <2>1. Owed(sock) = 0
    BY <1>4, <1>8, OwedTyped
  <2>2. AskedIn(l2capQ) = 0 /\ CfmsIn(bmmQ) = 0
    <3>1. PICK a, c : /\ a = [k \in DOMAIN l2capQ |-> l2capQ[k].size]
                      /\ c = [k \in DOMAIN bmmQ |->
                               IF bmmQ[k].type = "WRITE_CFM" THEN bmmQ[k].length ELSE 0]
      OBVIOUS
    <3>2. a = <<>> /\ c = <<>>
      BY <1>5, <3>1
    <3> QED BY <3>1, <3>2, TotalNothing DEF AskedIn, CfmsIn
  <2>3. Len(sduQ) = 0 /\ Len(txQ) = 0 /\ Len(txDone) = 0
    BY <1>5
  <2>4. Balanced
    BY <2>1, <2>2, <2>3 DEF Balanced
  <2> QED BY <2>4, ConservedIsBalanced
<1> QED BY <1>6, <1>7, <1>8, <1>9, Zenon DEF FlowInv

\* Every step of the transmit path keeps the invariant.
LEMMA FlowNext == FlowInv /\ [Next]_vars => FlowInv'
<1> SUFFICES ASSUME FlowInv, [Next]_vars PROVE FlowInv'
  OBVIOUS
<1>1. CASE BmmStep
  BY <1>1, AnsweredFlow, TakenFlow, RfcommFlow, PendingFlow, LecocFlow, IgnoredFlow, ErrorFlow,
     DroppedFlow, Zenon DEF BmmStep
<1>2. CASE L2capWrites
  BY <1>2, L2capFlow
<1>3. CASE LinkStep
  BY <1>3, LinkFlow
<1>4. CASE PeerGivesCredit
  BY <1>4, CreditFlow
<1>5. CASE LinkLost
  BY <1>5, DroppedFlow, Zenon
<1>6. CASE UserCloses \/ PeerViolates \/ \E n \in Sizes : UserSends(n)
  BY <1>6, SentFlow, Zenon
<1>7. CASE UNCHANGED vars
  <2>1. /\ sock' = sock /\ bmmQ' = bmmQ /\ l2capQ' = l2capQ /\ sduQ' = sduQ
        /\ txCredits' = txCredits /\ txQ' = txQ /\ txDone' = txDone /\ link' = link
        /\ nreq' = nreq /\ answer' = answer
    BY <1>7, Zenon DEF vars, lower
  <2>2. TypeOK
    BY DEF FlowInv
  <2>3. TypeOK'
    BY <2>1, <2>2, Typed, TypeFrom, Zenon
  <2>4. ChannelOpen' <=> ChannelOpen
    BY <2>1, Zenon DEF ChannelOpen
  <2>5. ASSUME ChannelOpen
        PROVE  /\ RingOf(sock)
               /\ Owed(sock) = AskedIn(l2capQ) + Len(sduQ) + Len(txQ) + Len(txDone) + CfmsIn(bmmQ)
    BY <2>5, FlowOpen, Zenon
  <2> QED BY <2>1, <2>3, <2>4, <2>5, FlowStep, Zenon
<1> QED BY <1>1, <1>2, <1>3, <1>4, <1>5, <1>6, <1>7, Zenon DEF Next

\* The invariant holds throughout.
LEMMA FlowHolds == Spec => []FlowInv
BY FlowInit, FlowNext, PTL DEF Spec

\* The entry of the socket, the messages and the segments keep their types:
\* txCount is never counted below zero while the channel is there, and no index
\* leaves the ring of segInfo.
THEOREM TransmitTyped == Spec => []TypeOK
<1>1. FlowInv => TypeOK
  BY DEF FlowInv
<1> QED BY <1>1, FlowHolds, PTL

\* What the BMM expects to be confirmed is at every moment what is under way in
\* L2CAP, at the controller and among the confirmations on their way back.
THEOREM SegmentsKept == Spec => []SegmentsConserved
<1>1. FlowInv => SegmentsConserved
  BY DEF FlowInv
<1> QED BY <1>1, FlowHolds, PTL

-----------------------------------------------------------------------------
(* No request is confirmed twice.                                          *)

\* The channel of LE CoC stays until the socket is closed.
Sound == sock.proto = "LECOC" /\ sock.state # "CLOSED" => link

\* A request waits exactly when the window is full.
LastWaits ==
  /\ sock.txCount <= Window
  /\ sock.txCount = Window <=> sock.pending # NoRequest

\* The requests that have no answer yet: the one that waits, those not yet
\* sent, and those in the queue of the BMM, each of them once.
PendingWaits ==
  sock.pending # NoRequest => sock.pending <= nreq /\ answer[sock.pending] = <<>>

NotYetSent == \A r \in Request : r > nreq => answer[r] = <<>>

QueueWaits ==
  \A k \in DOMAIN bmmQ : IsData(bmmQ[k]) =>
    /\ bmmQ[k].req <= nreq
    /\ answer[bmmQ[k].req] = <<>>
    /\ bmmQ[k].req # sock.pending
    /\ \A j \in DOMAIN bmmQ : IsData(bmmQ[j]) /\ j # k => bmmQ[j].req # bmmQ[k].req

OnceInv ==
  /\ FlowInv
  /\ Sound
  /\ LastWaits
  /\ PendingWaits
  /\ NotYetSent
  /\ QueueWaits
  /\ ConfirmedOnce

\* The requests in r are requests in q, at places s further on.
ShiftedBy(s, r, q) ==
  \A k \in DOMAIN r : IsData(r[k]) => k + s \in DOMAIN q /\ r[k] = q[k + s]

Fewer(r, q) == \E s \in Nat : ShiftedBy(s, r, q)

\* The request x, which had no answer, gets one and is then forgotten.
Answered(x) ==
  /\ x <= nreq
  /\ answer[x] = <<>>
  /\ \E v \in Result : Confirm(x, v)
  /\ sock'.pending # x
  /\ \A k \in DOMAIN bmmQ' : IsData(bmmQ'[k]) => bmmQ'[k].req # x

\* A request number is not that of no request.
LEMMA RequestIs ==
  /\ Request \subseteq Nat /\ NoRequest \notin Request
  /\ \A r \in Request : r \in {NoRequest} \cup Request
  /\ \A r \in {NoRequest} \cup Request : r # NoRequest => r \in Request
BY MaxReqAssumption DEF Request, NoRequest

\* Answers to the same number of requests.
LEMMA Answers ==
  ASSUME OnceInv, NEW x \in Request, Answered(x)
  PROVE  /\ ConfirmedOnce'
         /\ \A r \in Request : r # x => answer'[r] = answer[r]
<1>1. answer \in [{NoRequest} \cup Request -> Seq(Result)]
  BY Typed, Zenon DEF OnceInv, FlowInv
<1>2. PICK v \in Result : Confirm(x, v)
  BY Zenon DEF Answered
<1>3. /\ answer'[x] = Append(answer[x], v)
      /\ \A r \in {NoRequest} \cup Request : r # x => answer'[r] = answer[r]
  BY <1>1, <1>2, RequestIs, ConfirmTyped, Zenon
<1>4. Len(answer'[x]) <= 1
  <2>1. answer'[x] = Append(<<>>, v)
    BY <1>3, Zenon DEF Answered
  <2> QED BY <2>1
<1>5. ASSUME NEW r \in Request
      PROVE  Len(answer'[r]) <= 1
  <2>1. CASE r = x
    BY <1>4, <2>1
  <2>2. CASE r # x
    BY <1>3, <2>2, RequestIs DEF OnceInv, ConfirmedOnce
  <2> QED BY <2>1, <2>2
<1>6. answer'[NoRequest] = <<>>
  BY <1>3, RequestIs, Zenon DEF OnceInv, ConfirmedOnce
<1>7. \A r \in Request : r # x => answer'[r] = answer[r]
  BY <1>3, RequestIs, Zenon
<1> QED BY <1>5, <1>6, <1>7, Zenon DEF ConfirmedOnce

\* What is to be shown of a step that brings no request.
LEMMA OnceStep ==
  ASSUME OnceInv, FlowInv', Sound', LastWaits', nreq' = nreq,
         Fewer(bmmQ', bmmQ),
         sock'.pending = sock.pending \/ sock'.pending = NoRequest,
         answer' = answer \/ \E x \in Request : Answered(x)
  PROVE  OnceInv'
<1>1. /\ bmmQ' \in Seq(BmmMsg) /\ bmmQ \in Seq(BmmMsg) /\ nreq \in Nat
      /\ sock.pending \in {NoRequest} \cup Request
  <2>1. TypeOK /\ bmmQ' \in Seq(BmmMsg)
    BY Zenon DEF OnceInv, FlowInv, TypeOK
  <2>2. nreq \in 0 .. MaxReq /\ bmmQ \in Seq(BmmMsg)
        /\ sock.pending \in {NoRequest} \cup Request
    BY <2>1, Typed, EntryFields, Zenon
  <2> QED BY <2>1, <2>2, MaxReqAssumption
<1>2. PICK s \in Nat : ShiftedBy(s, bmmQ', bmmQ)
  BY DEF Fewer
<1>3. ASSUME NEW r \in Request, r # sock'.pending => \A x \in Request : Answered(x) => r # x,
             r = sock'.pending => r = sock.pending
      PROVE  answer'[r] = answer[r]
  BY <1>3, Answers, Zenon DEF Answered
<1>4. ConfirmedOnce'
  <2>1. CASE answer' = answer
    BY <2>1, Zenon DEF OnceInv, ConfirmedOnce
  <2>2. CASE \E x \in Request : Answered(x)
    BY <2>2, Answers, Zenon
  <2> QED BY <2>1, <2>2
<1>5. PendingWaits'
  <2> SUFFICES ASSUME sock'.pending # NoRequest
               PROVE  sock'.pending <= nreq /\ answer'[sock'.pending] = <<>>
    BY Zenon DEF PendingWaits
  <2>1. sock'.pending = sock.pending /\ sock.pending \in Request
    BY <1>1, RequestIs, Zenon
  <2>2. answer'[sock.pending] = answer[sock.pending]
    BY <1>3, <2>1, Zenon
  <2> QED BY <2>1, <2>2, Zenon DEF OnceInv, PendingWaits
<1>6. NotYetSent'
  <2> SUFFICES ASSUME NEW r \in Request, r > nreq
               PROVE  answer'[r] = <<>>
    BY Zenon DEF NotYetSent
  <2>1. answer[r] = <<>>
    BY Zenon DEF OnceInv, NotYetSent
  <2>2. ASSUME NEW x \in Request, Answered(x)
        PROVE  r # x
    BY <1>1, <2>2, RequestIs DEF Answered
  <2>3. answer'[r] = answer[r]
    BY <2>2, Answers, Zenon
  <2> QED BY <2>1, <2>3
<1>7. QueueWaits'
  <2> SUFFICES ASSUME NEW k \in DOMAIN bmmQ', IsData(bmmQ'[k])
               PROVE  /\ bmmQ'[k].req <= nreq
                      /\ answer'[bmmQ'[k].req] = <<>>
                      /\ bmmQ'[k].req # sock'.pending
                      /\ \A j \in DOMAIN bmmQ' :
                           IsData(bmmQ'[j]) /\ j # k => bmmQ'[j].req # bmmQ'[k].req
    BY Zenon DEF QueueWaits
  <2>1. PICK i : i = k + s
    OBVIOUS
  <2>2. i \in DOMAIN bmmQ /\ bmmQ'[k] = bmmQ[i]
    BY <1>2, <2>1 DEF ShiftedBy
  <2>3. PICK r : r = bmmQ[i].req
    OBVIOUS
  <2>4. r \in Request
    <3>1. bmmQ[i] \in BmmMsg /\ IsData(bmmQ[i])
      BY <1>1, <2>2
    <3> QED BY <2>3, <3>1, MessageFields, Zenon DEF IsData
  <2>5. r <= nreq /\ answer[r] = <<>> /\ r # sock.pending
    BY <2>2, <2>3, Zenon DEF OnceInv, QueueWaits
  <2>6. answer'[r] = answer[r]
    <3>1. ASSUME NEW x \in Request, Answered(x)
          PROVE  r # x
      BY <2>2, <2>3, <3>1, Zenon DEF Answered
    <3> QED BY <2>4, <3>1, Answers, Zenon
  <2>7. r # sock'.pending
    BY <2>4, <2>5, RequestIs, Zenon
  <2>8. ASSUME NEW j \in DOMAIN bmmQ', IsData(bmmQ'[j]), j # k
        PROVE  bmmQ'[j].req # r
    <3>1. PICK h : h = j + s
      OBVIOUS
    <3>2. h \in DOMAIN bmmQ /\ bmmQ'[j] = bmmQ[h]
      BY <1>2, <2>8, <3>1 DEF ShiftedBy
    <3>3. h # i
      BY <1>1, <2>1, <2>8, <3>1
    <3> QED BY <2>2, <2>3, <2>8, <3>2, <3>3, Zenon DEF OnceInv, QueueWaits
  <2> QED BY <2>2, <2>3, <2>5, <2>6, <2>7, <2>8, Zenon
<1> QED BY <1>4, <1>5, <1>6, <1>7, Zenon DEF OnceInv

\* No request comes with a message that goes.
LEMMA TakenFewer ==
  ASSUME TypeOK, NEW t, BmmReceive(t)
  PROVE  Fewer(bmmQ', bmmQ)
<1>1. \A k \in DOMAIN bmmQ' : k + 1 \in DOMAIN bmmQ /\ bmmQ'[k] = bmmQ[k + 1]
  BY Received
<1>2. PICK s \in Nat : s = 1
  OBVIOUS
<1>3. ShiftedBy(s, bmmQ', bmmQ)
  BY <1>1, <1>2 DEF ShiftedBy
<1> QED BY <1>3, Zenon DEF Fewer

\* Nor when the queue stays as it is, or gets a message that is none.
LEMMA SameFewer ==
  ASSUME TypeOK, bmmQ' = bmmQ \/ \E m : Grown(bmmQ', bmmQ, m) /\ ~IsData(m)
  PROVE  Fewer(bmmQ', bmmQ)
<1>0. bmmQ \in Seq(BmmMsg)
  BY Typed, Zenon
<1>1. ASSUME NEW k \in DOMAIN bmmQ', IsData(bmmQ'[k])
      PROVE  k \in DOMAIN bmmQ /\ bmmQ'[k] = bmmQ[k]
  BY <1>1, Zenon DEF Grown
<1>2. PICK s \in Nat : s = 0
  OBVIOUS
<1>3. \A k \in DOMAIN bmmQ : k + s = k
  BY <1>0, <1>2
<1>4. ShiftedBy(s, bmmQ', bmmQ)
  BY <1>1, <1>3, Zenon DEF ShiftedBy
<1> QED BY <1>4, Zenon DEF Fewer

\* Nor with the confirmations of a channel that goes.
LEMMA DroppedFewer ==
  ASSUME TypeOK, HandleCloseReq \/ LinkLost
  PROVE  Fewer(bmmQ', bmmQ)
<1>1. bmmQ \in Seq(BmmMsg) /\ sduQ \in Seq(Segment) /\ txQ \in Seq(Segment)
  BY Typed, Zenon
<1>2. PICK f : f = FlushCfms
  OBVIOUS
<1>3. f \in Seq(BmmMsg) /\ \A k \in DOMAIN f : f[k].type = "WRITE_CFM"
  BY <1>1, <1>2, FlushTyped
<1>4. PICK q \in Seq(BmmMsg), s \in Nat :
        /\ bmmQ' = q \o f
        /\ \A k \in DOMAIN q : k + s \in DOMAIN bmmQ /\ q[k] = bmmQ[k + s]
  <2>2. CASE HandleCloseReq
    <3>1. bmmQ # <<>> /\ bmmQ' = Tail(bmmQ) \o f
      BY <1>2, <2>2, Zenon DEF HandleCloseReq, DropChannel
    <3>2. PICK q : q = Tail(bmmQ)
      OBVIOUS
    <3>3. q \in Seq(BmmMsg) /\ Len(q) = Len(bmmQ) - 1 /\ \A k \in 1 .. Len(q) : q[k] = bmmQ[k + 1]
      BY <1>1, <3>1, <3>2, HeadTailProperties
    <3>4. PICK s \in Nat : s = 1
      OBVIOUS
    <3>5. \A k \in DOMAIN q : k + s \in DOMAIN bmmQ /\ q[k] = bmmQ[k + s]
      BY <1>1, <3>3, <3>4
    <3> QED BY <3>1, <3>2, <3>3, <3>5, Zenon
  <2>3. CASE LinkLost
    <3>1. bmmQ' = bmmQ \o f
      BY <1>2, <2>3, Zenon DEF LinkLost, DropChannel
    <3>2. PICK s \in Nat : s = 0
      OBVIOUS
    <3>3. \A k \in DOMAIN bmmQ : k + s = k
      BY <1>1, <3>2
    <3> QED BY <1>1, <3>1, <3>3, Zenon
  <2> QED BY <2>2, <2>3
<1>5. /\ Len(q \o f) = Len(q) + Len(f)
      /\ \A k \in 1 .. Len(q) + Len(f) : (q \o f)[k] = IF k <= Len(q) THEN q[k] ELSE f[k - Len(q)]
  BY <1>3, ConcatProperties
<1>6. ASSUME NEW k \in DOMAIN bmmQ', IsData(bmmQ'[k])
      PROVE  k + s \in DOMAIN bmmQ /\ bmmQ'[k] = bmmQ[k + s]
  <2>1. k \in 1 .. Len(q) + Len(f) /\ bmmQ'[k] = IF k <= Len(q) THEN q[k] ELSE f[k - Len(q)]
    BY <1>3, <1>4, <1>5
  <2>2. CASE k <= Len(q)
    <3>1. k \in DOMAIN q /\ bmmQ'[k] = q[k]
      BY <1>3, <2>1, <2>2
    <3> QED BY <1>4, <3>1
  <2>3. CASE ~(k <= Len(q))
    <3>1. PICK j : j = k - Len(q)
      OBVIOUS
    <3>2. j \in DOMAIN f /\ bmmQ'[k] = f[j]
      BY <1>3, <2>1, <2>3, <3>1
    <3>3. ~IsData(f[j])
      BY <1>3, <3>2 DEF IsData
    <3> QED BY <1>6, <3>2, <3>3
  <2> QED BY <2>2, <2>3
<1> QED BY <1>4, <1>6, Zenon DEF Fewer, ShiftedBy

\* A step that leaves the entry and the answers alone.
LEMMA OnceQuiet ==
  ASSUME OnceInv, FlowInv', Fewer(bmmQ', bmmQ), sock' = sock, nreq' = nreq, answer' = answer,
         link' = link \/ sock.proto # "LECOC"
  PROVE  OnceInv'
<1>1. Sound' /\ LastWaits'
  BY Zenon DEF OnceInv, Sound, LastWaits
<1> QED BY <1>1, OnceStep, Zenon

\* The request that waits is answered once there is room again.
LEMMA PendingAnswered ==
  ASSUME OnceInv, sock.pending # NoRequest, sock'.pending = NoRequest, ConfirmPending,
         BmmReceive("WRITE_CFM")
  PROVE  sock.pending \in Request /\ Answered(sock.pending)
<1>1. TypeOK
  BY DEF OnceInv, FlowInv
<1>2. sock.pending \in Request
  BY <1>1, Typed, EntryFields, RequestIs, Zenon
<1>3. sock.pending <= nreq /\ answer[sock.pending] = <<>>
  BY Zenon DEF OnceInv, PendingWaits
<1>4. \E v \in Result : Confirm(sock.pending, v)
  <2>1. "SUCCESS" \in Result /\ "CONNID_IN_ERROR" \in Result
    BY DEF Result
  <2> QED BY <2>1, Zenon DEF ConfirmPending
<1>5. ASSUME NEW k \in DOMAIN bmmQ', IsData(bmmQ'[k])
      PROVE  bmmQ'[k].req # sock.pending
  <2>1. PICK t : t = "WRITE_CFM"
    OBVIOUS
  <2>2. k + 1 \in DOMAIN bmmQ /\ bmmQ'[k] = bmmQ[k + 1]
    BY <1>1, <2>1, Received
  <2>3. PICK j : j = k + 1
    OBVIOUS
  <2> QED BY <1>5, <2>2, <2>3 DEF OnceInv, QueueWaits
<1> QED BY <1>2, <1>3, <1>4, <1>5, Zenon DEF Answered

\* The request at the head of the queue is answered and leaves the queue.
LEMMA HeadAnswered ==
  ASSUME OnceInv, BmmReceive("DATA_REQ"), sock'.pending = sock.pending,
         \E v \in Result : Confirm(Head(bmmQ).req, v)
  PROVE  Head(bmmQ).req \in Request /\ Answered(Head(bmmQ).req)
<1>1. TypeOK
  BY DEF OnceInv, FlowInv
<1>2. PICK t : t = "DATA_REQ"
  OBVIOUS
<1>3. /\ Head(bmmQ) \in BmmMsg /\ Head(bmmQ).type = "DATA_REQ"
      /\ \A k \in DOMAIN bmmQ' : k + 1 \in DOMAIN bmmQ /\ bmmQ'[k] = bmmQ[k + 1]
      /\ 1 \in DOMAIN bmmQ /\ Head(bmmQ) = bmmQ[1] /\ bmmQ' \in Seq(BmmMsg)
  BY <1>1, <1>2, Received
<1>4. PICK i, r : i = 1 /\ r = Head(bmmQ).req
  OBVIOUS
<1>5. r \in Request
  BY <1>3, <1>4, MessageFields
<1>6. i \in DOMAIN bmmQ /\ IsData(bmmQ[i]) /\ bmmQ[i].req = r
  BY <1>3, <1>4 DEF IsData
<1>7. r <= nreq /\ answer[r] = <<>> /\ r # sock.pending
  BY <1>6, Zenon DEF OnceInv, QueueWaits
<1>8. ASSUME NEW k \in DOMAIN bmmQ', IsData(bmmQ'[k])
      PROVE  bmmQ'[k].req # r
  <2>1. PICK j : j = k + 1
    OBVIOUS
  <2>2. j \in DOMAIN bmmQ /\ bmmQ'[k] = bmmQ[j]
    BY <1>3, <2>1
  <2>3. j # i
    BY <1>3, <1>4, <2>1
  <2> QED BY <1>6, <1>8, <2>2, <2>3, Zenon DEF OnceInv, QueueWaits
<1>9. \E v \in Result : Confirm(r, v)
  BY <1>4
<1> QED BY <1>4, <1>5, <1>7, <1>8, <1>9, Zenon DEF Answered

\* A request answered at once.
LEMMA AnsweredOnce ==
  ASSUME OnceInv, FlowInv', RefuseDataReq \/ DiscardDataReq
  PROVE  OnceInv'
<1>1. TypeOK /\ BmmReceive("DATA_REQ") /\ UNCHANGED <<sock, lower, nreq>>
  BY Zenon DEF OnceInv, FlowInv, RefuseDataReq, DiscardDataReq
<1>2. sock' = sock /\ nreq' = nreq /\ link' = link
  BY <1>1, Zenon DEF lower
<1>3. \E v \in Result : Confirm(Head(bmmQ).req, v)
  <2>1. DataReqStatus \in Result /\ "FLOW_CONTROL_VIOLATED" \in Result
    BY <1>1, ValidIsOpen DEF Result
  <2> QED BY <2>1, Zenon DEF RefuseDataReq, DiscardDataReq
<1>4. \E x \in Request : Answered(x)
  BY <1>1, <1>2, <1>3, HeadAnswered, Zenon
<1>5. Sound' /\ LastWaits'
  BY <1>2, Zenon DEF OnceInv, Sound, LastWaits
<1> QED BY <1>1, <1>2, <1>4, <1>5, TakenFewer, OnceStep, Zenon

\* So is one that is taken and leaves room behind it.
LEMMA TakenOnce ==
  ASSUME OnceInv, FlowInv', TakeDataReq
  PROVE  OnceInv'
<1>1. /\ FlowInv /\ TypeOK /\ BmmReceive("DATA_REQ") /\ nreq' = nreq /\ link' = link
  BY Zenon DEF OnceInv, FlowInv, TakeDataReq, PassOn
<1>2. /\ sock.txCount \in Nat /\ sock'.txCount = sock.txCount + 1
      /\ sock'.pending = sock.pending /\ sock'.state = sock.state /\ sock'.proto = sock.proto
  BY <1>1, TakenEntry, Zenon
<1>3. \E v \in Result : Confirm(Head(bmmQ).req, v)
  <2>1. "SUCCESS" \in Result
    BY DEF Result
  <2> QED BY <2>1, Zenon DEF TakeDataReq
<1>4. \E x \in Request : Answered(x)
  BY <1>1, <1>2, <1>3, HeadAnswered, Zenon
<1>5. LastWaits'
  <2>1. sock.txCount + 1 < Window
    BY DEF TakeDataReq, RoomBehind
  <2> QED BY <1>2, <2>1, WindowIs DEF OnceInv, LastWaits
<1>6. Sound'
  BY <1>1, <1>2, Zenon DEF OnceInv, Sound
<1> QED BY <1>1, <1>2, <1>4, <1>5, <1>6, TakenFewer, OnceStep, Zenon

\* The one that fills the window comes out of the queue and waits.
LEMMA LastTakenOnce ==
  ASSUME OnceInv, FlowInv', TakeLastDataReq
  PROVE  OnceInv'
<1>1. /\ FlowInv /\ TypeOK /\ BmmReceive("DATA_REQ") /\ nreq' = nreq /\ link' = link
      /\ answer' = answer
  BY Zenon DEF OnceInv, FlowInv, TakeLastDataReq, PassOn
<1>2. /\ sock.txCount \in Nat /\ sock'.txCount = sock.txCount + 1 /\ Head(bmmQ).req \in Request
      /\ sock'.pending = Head(bmmQ).req /\ sock'.state = sock.state /\ sock'.proto = sock.proto
  BY <1>1, TakenEntry, Zenon
<1>3. PICK t : t = "DATA_REQ"
  OBVIOUS
<1>4. /\ Head(bmmQ).type = "DATA_REQ" /\ bmmQ' \in Seq(BmmMsg)
      /\ \A k \in DOMAIN bmmQ' : k + 1 \in DOMAIN bmmQ /\ bmmQ'[k] = bmmQ[k + 1]
      /\ 1 \in DOMAIN bmmQ /\ Head(bmmQ) = bmmQ[1]
  BY <1>1, <1>3, Received
<1>5. PICK i, r : i = 1 /\ r = Head(bmmQ).req
  OBVIOUS
<1>6. i \in DOMAIN bmmQ /\ IsData(bmmQ[i]) /\ bmmQ[i].req = r /\ r \in Request
  BY <1>2, <1>4, <1>5 DEF IsData
<1>7. r <= nreq /\ answer[r] = <<>>
  BY <1>6, Zenon DEF OnceInv, QueueWaits
<1>8. LastWaits'
  <2>1. sock.txCount + 1 = Window
    BY DEF TakeLastDataReq
  <2>2. r # NoRequest
    BY <1>6, RequestIs, Zenon
  <2> QED BY <1>2, <1>5, <2>1, <2>2, WindowIs DEF LastWaits
<1>9. Sound'
  BY <1>1, <1>2, Zenon DEF OnceInv, Sound
<1>10. PendingWaits'
  BY <1>1, <1>2, <1>5, <1>7, Zenon DEF PendingWaits
<1>11. NotYetSent' /\ ConfirmedOnce'
  BY <1>1, Zenon DEF OnceInv, NotYetSent, ConfirmedOnce
<1>12. ASSUME NEW k \in DOMAIN bmmQ', IsData(bmmQ'[k])
       PROVE  /\ bmmQ'[k].req <= nreq
              /\ answer[bmmQ'[k].req] = <<>>
              /\ bmmQ'[k].req # r
              /\ \A j \in DOMAIN bmmQ' :
                   IsData(bmmQ'[j]) /\ j # k => bmmQ'[j].req # bmmQ'[k].req
  <2>1. PICK h : h = k + 1
    OBVIOUS
  <2>2. h \in DOMAIN bmmQ /\ bmmQ'[k] = bmmQ[h] /\ h # i
    BY <1>4, <1>5, <2>1
  <2>3. /\ bmmQ[h].req <= nreq /\ answer[bmmQ[h].req] = <<>> /\ bmmQ[h].req # r
    BY <1>6, <1>12, <2>2, Zenon DEF OnceInv, QueueWaits
  <2>4. ASSUME NEW j \in DOMAIN bmmQ', IsData(bmmQ'[j]), j # k
        PROVE  bmmQ'[j].req # bmmQ[h].req
    <3>1. PICK g : g = j + 1
      OBVIOUS
    <3>2. g \in DOMAIN bmmQ /\ bmmQ'[j] = bmmQ[g] /\ g # h
      BY <1>4, <2>1, <2>4, <3>1
    <3> QED BY <1>12, <2>2, <2>4, <3>2, Zenon DEF OnceInv, QueueWaits
  <2> QED BY <2>2, <2>3, <2>4, Zenon
<1>13. QueueWaits'
  BY <1>1, <1>2, <1>5, <1>12, Zenon DEF QueueWaits
<1> QED BY <1>8, <1>9, <1>10, <1>11, <1>13, Zenon DEF OnceInv

\* What a confirmation does to the entry and to the request that waits.
LEMMA CfmEntry ==
  ASSUME OnceInv, HandleRfcommWriteCfm \/ HandleLecocPartCfm \/ HandleLecocWriteCfm
  PROVE  /\ sock'.proto = sock.proto /\ sock'.state = sock.state
         /\ LastWaits'
         /\ \/ sock'.pending = sock.pending /\ answer' = answer
            \/ sock.pending # NoRequest /\ sock'.pending = NoRequest /\ ConfirmPending
<1>1. FlowInv /\ TypeOK /\ BmmReceive("WRITE_CFM")
  BY Zenon DEF OnceInv, FlowInv, HandleRfcommWriteCfm, HandleLecocPartCfm, HandleLecocWriteCfm
<1>2. sock \in Entries /\ sock.txCount \in Nat /\ sock.txCount \in 0 .. MaxTxCount
      /\ sock.pending \in {NoRequest} \cup Request /\ sock.dequeueIdx \in Slot
      /\ sock.segInfo[sock.dequeueIdx].lengthCfd \in Nat
  BY <1>1, Typed, EntryFields, Zenon
<1>3. sock.txCount <= Window /\ (sock.txCount = Window <=> sock.pending # NoRequest)
  BY DEF OnceInv, LastWaits
<1>4. CASE HandleRfcommWriteCfm
  <2>1. PICK c, p : /\ c = IF sock.txCount > 0 THEN sock.txCount - 1 ELSE sock.txCount
                    /\ p = IF sock.txCount = Window THEN NoRequest ELSE sock.pending
    OBVIOUS
  <2>2. sock' = WithCount(sock, c, p)
    BY <1>4, <2>1 DEF HandleRfcommWriteCfm, WithCount
  <2>3. c \in 0 .. MaxTxCount /\ p \in {NoRequest} \cup Request
    <3>1. c \in 0 .. MaxTxCount
      BY <1>2, <2>1, WindowIs
    <3>2. p \in {NoRequest} \cup Request
      BY <1>2, <2>1
    <3> QED BY <3>1, <3>2
  <2>4. PICK e, v : e = sock /\ v = sock'
    OBVIOUS
  <2>5. v.txCount = c /\ v.pending = p /\ v.proto = e.proto /\ v.state = e.state
    <3>1. e \in Entries /\ v = WithCount(e, c, p)
      BY <1>2, <2>2, <2>4, Zenon
    <3> QED BY <2>3, <3>1, CountTyped
  <2>6. c <= Window /\ (c = Window <=> p # NoRequest)
    BY <1>2, <1>3, <2>1, WindowIs
  <2>7. LastWaits'
    BY <2>4, <2>5, <2>6, Zenon DEF LastWaits
  <2>8. \/ p = sock.pending /\ answer' = answer
        \/ sock.pending # NoRequest /\ p = NoRequest /\ ConfirmPending
    BY <1>3, <1>4, <2>1, Zenon DEF HandleRfcommWriteCfm
  <2> QED BY <2>4, <2>5, <2>7, <2>8, Zenon
<1>5. CASE HandleLecocPartCfm \/ HandleLecocWriteCfm
  <2>1. sock.proto = "LECOC" /\ sock.state # "CLOSED"
    BY <1>5, Zenon DEF HandleLecocPartCfm, HandleLecocWriteCfm
  <2>2. ChannelOpen
    BY <2>1, Zenon DEF OnceInv, Sound, ChannelOpen
  <2>3. Head(bmmQ).length = 1 /\ RingOf(sock) /\ sock.txCount > 0
    BY <1>1, <2>2, Awaited
  <2>4. PICK e, v, n : e = sock /\ v = sock' /\ n = LengthCfd(Head(bmmQ))
    OBVIOUS
  <2>5. n \in Nat /\ n = sock.segInfo[sock.dequeueIdx].lengthCfd + 1
    BY <1>2, <2>3, <2>4 DEF LengthCfd
  <2>6. e \in Entries /\ e.proto = "LECOC" /\ RingOf(e) /\ e.txCount > 0
        /\ n = e.segInfo[e.dequeueIdx].lengthCfd + 1
    BY <1>2, <2>1, <2>3, <2>4, <2>5
  <2>7. CASE HandleLecocPartCfm
    <3>1. v = WithPart(e, n)
      BY <2>4, <2>7, Zenon DEF HandleLecocPartCfm, WithPart
    <3>2. v.txCount = e.txCount /\ v.pending = e.pending /\ v.state = e.state /\ v.proto = e.proto
      BY <2>5, <2>6, <3>1, PartOwes
    <3>3. answer' = answer
      BY <2>7, Zenon DEF HandleLecocPartCfm
    <3> QED BY <1>3, <2>4, <3>2, <3>3, Zenon DEF LastWaits
  <2>8. CASE HandleLecocWriteCfm
    <3>1. PICK p : p = IF sock.txCount >= Window THEN NoRequest ELSE sock.pending
      OBVIOUS
    <3>2. v = WithWhole(e, n, p)
      BY <2>4, <2>8, <3>1 DEF HandleLecocWriteCfm, WithWhole
    <3>3. n = e.segInfo[e.dequeueIdx].pduSize
      BY <2>4, <2>8, Zenon DEF HandleLecocWriteCfm, RequestConfirmed
    <3>4. p \in {NoRequest} \cup Request
      BY <1>2, <3>1
    <3>5. v.txCount = e.txCount - 1 /\ v.pending = p /\ v.state = e.state /\ v.proto = e.proto
      BY <2>5, <2>6, <3>2, <3>3, <3>4, WholeOwes
    <3>6. PICK c : c = e.txCount - 1
      OBVIOUS
    <3>7. c <= Window /\ (c = Window <=> p # NoRequest)
      BY <1>2, <1>3, <2>4, <2>6, <3>1, <3>6, WindowIs
    <3>8. LastWaits'
      BY <2>4, <3>5, <3>6, <3>7, Zenon DEF LastWaits
    <3>9. \/ p = sock.pending /\ answer' = answer
          \/ sock.pending # NoRequest /\ p = NoRequest /\ ConfirmPending
      <4>1. sock.txCount >= Window <=> sock.txCount = Window
        BY <1>2, <1>3, WindowIs
      <4>2. IF sock.txCount >= Window THEN ConfirmPending ELSE answer' = answer
        BY <2>8, Zenon DEF HandleLecocWriteCfm
      <4> QED BY <1>3, <3>1, <4>1, <4>2, Zenon
    <3> QED BY <2>4, <3>5, <3>8, <3>9, Zenon
  <2> QED BY <1>5, <2>7, <2>8
<1> QED BY <1>4, <1>5

\* So a confirmation answers no request but the one that waits.
LEMMA CfmOnce ==
  ASSUME OnceInv, FlowInv', HandleRfcommWriteCfm \/ HandleLecocPartCfm \/ HandleLecocWriteCfm
  PROVE  OnceInv'
<1>1. TypeOK /\ BmmReceive("WRITE_CFM") /\ UNCHANGED <<lower, nreq>>
  BY Zenon DEF OnceInv, FlowInv, HandleRfcommWriteCfm, HandleLecocPartCfm, HandleLecocWriteCfm
<1>2. link' = link /\ nreq' = nreq
  BY <1>1, Zenon DEF lower
<1>3. /\ sock'.proto = sock.proto /\ sock'.state = sock.state
      /\ LastWaits'
      /\ \/ sock'.pending = sock.pending /\ answer' = answer
         \/ sock.pending # NoRequest /\ sock'.pending = NoRequest /\ ConfirmPending
  BY CfmEntry, Zenon
<1>4. Sound'
  BY <1>2, <1>3, Zenon DEF OnceInv, Sound
<1>5. sock'.pending = sock.pending \/ sock'.pending = NoRequest
  BY <1>3, Zenon
<1>6. answer' = answer \/ \E x \in Request : Answered(x)
  BY <1>1, <1>3, PendingAnswered, Zenon
<1> QED BY <1>1, <1>2, <1>3, <1>4, <1>5, <1>6, TakenFewer, OnceStep, Zenon

\* The socket learns of an error, or its channel goes, and no request is
\* answered.
LEMMA ChannelOnce ==
  ASSUME OnceInv, FlowInv', "LECOC" \notin LossyLinks,
         HandleDisconnectInd \/ HandleCloseReq \/ LinkLost
  PROVE  OnceInv'
<1>1. TypeOK /\ nreq' = nreq /\ answer' = answer
  BY Zenon DEF OnceInv, FlowInv, HandleDisconnectInd, HandleCloseReq, LinkLost
<1>2. sock \in Entries /\ sock.proto \in Protos /\ sock.state \in {"CONNECTED", "IN_ERROR", "CLOSED"}
  BY <1>1, Typed, EntryFields, Zenon
<1>3. CASE HandleDisconnectInd
  <2>1. PICK r, e, v : /\ r = IF sock.state = "CONNECTED" THEN "IN_ERROR" ELSE sock.state
                       /\ e = sock /\ v = sock'
    OBVIOUS
  <2>2. e \in Entries /\ v = WithState(e, r) /\ r \in {"CONNECTED", "IN_ERROR", "CLOSED"}
    BY <1>2, <1>3, <2>1 DEF HandleDisconnectInd, WithState
  <2>3. v.state = r /\ v.proto = e.proto /\ v.txCount = e.txCount /\ v.pending = e.pending
    BY <2>2, StateTyped
  <2>4. r = "CLOSED" <=> sock.state = "CLOSED"
    BY <2>1
  <2>5. link' = link /\ BmmReceive("DISCONNECT_IND")
    BY <1>3, Zenon DEF HandleDisconnectInd, lower
  <2>6. Sound' /\ LastWaits'
    BY <2>1, <2>3, <2>4, <2>5, Zenon DEF OnceInv, Sound, LastWaits
  <2> QED BY <1>1, <2>1, <2>3, <2>5, <2>6, TakenFewer, OnceStep, Zenon
<1>4. CASE HandleCloseReq
  <2>1. PICK r, p, v : r = "CLOSED" /\ p = sock.proto /\ v = sock'
    OBVIOUS
  <2>2. v = WithState(NewSock(p), r) /\ r \in {"CONNECTED", "IN_ERROR", "CLOSED"} /\ p \in Protos
    BY <1>2, <1>4, <2>1 DEF HandleCloseReq, WithState
  <2>3. v.state = r /\ v.proto = p /\ v.txCount = 0 /\ v.pending = NoRequest
    BY <2>2, NewSockTyped
  <2>4. Sound'
    BY <2>1, <2>3, Zenon DEF Sound
  <2>5. LastWaits'
    BY <2>1, <2>3, WindowIs DEF LastWaits
  <2> QED BY <1>1, <1>4, <2>1, <2>3, <2>4, <2>5, DroppedFewer, OnceStep, Zenon
<1>5. CASE LinkLost
  <2>1. sock' = sock /\ sock.proto # "LECOC"
    BY <1>5, Zenon DEF LinkLost
  <2> QED BY <1>1, <1>5, <2>1, DroppedFewer, OnceQuiet, Zenon
<1> QED BY <1>3, <1>4, <1>5

\* The steps of L2CAP and of the link, and the messages that are no requests.
LEMMA LowerOnce ==
  ASSUME OnceInv, FlowInv',
         \/ IgnoreWriteCfm \/ IgnorePendingCfm \/ L2capWrites \/ LinkStep
         \/ PeerGivesCredit \/ PeerViolates \/ UserCloses \/ UNCHANGED vars
  PROVE  OnceInv'
<1>1. TypeOK /\ bmmQ \in Seq(BmmMsg)
  BY Typed, Zenon DEF OnceInv, FlowInv
<1>2. sock' = sock /\ nreq' = nreq /\ answer' = answer /\ link' = link
  BY Zenon DEF IgnoreWriteCfm, IgnorePendingCfm, L2capWrites, LinkStep, SendSegment, SegmentSent,
               PeerGivesCredit, PeerViolates, UserCloses, vars, lower
<1>3. CASE IgnoreWriteCfm \/ IgnorePendingCfm
  <2>1. \E t : BmmReceive(t)
    BY <1>3, Zenon DEF IgnoreWriteCfm, IgnorePendingCfm
  <2> QED BY <1>1, <1>2, <2>1, TakenFewer, OnceQuiet, Zenon
<1>4. CASE bmmQ' = bmmQ
  BY <1>1, <1>2, <1>4, SameFewer, OnceQuiet, Zenon
<1>5. CASE SegmentSent \/ PeerViolates \/ UserCloses
  <2>1. PICK m : m \in BmmMsg /\ bmmQ' = Append(bmmQ, m) /\ ~IsData(m)
    <3>1. CASE SegmentSent
      <4>1. PICK m : m = WriteCfm(1)
        OBVIOUS
      <4>2. m \in BmmMsg /\ ~IsData(m)
        BY <4>1, MessagesTyped DEF WriteCfm, IsData
      <4> QED BY <3>1, <4>1, <4>2 DEF SegmentSent
    <3>2. CASE PeerViolates
      <4>1. PICK m : m = [type |-> "DISCONNECT_IND"]
        OBVIOUS
      <4>2. m \in BmmMsg /\ ~IsData(m)
        BY <4>1, MessagesTyped DEF IsData
      <4>3. bmmQ' = Append(bmmQ, m)
        BY <3>2, <4>1, Zenon DEF PeerViolates
      <4> QED BY <4>2, <4>3
    <3>3. CASE UserCloses
      <4>1. PICK m : m = [type |-> "CLOSE_REQ"]
        OBVIOUS
      <4>2. m \in BmmMsg /\ ~IsData(m)
        BY <4>1, MessagesTyped DEF IsData
      <4>3. bmmQ' = Append(bmmQ, m)
        BY <3>3, <4>1, Zenon DEF UserCloses
      <4> QED BY <4>2, <4>3
    <3> QED BY <1>5, <3>1, <3>2, <3>3
  <2>2. Appended(bmmQ', bmmQ, m)
    BY <2>1, Zenon DEF Appended
  <2>3. Grown(bmmQ', bmmQ, m)
    BY <1>1, <2>1, <2>2, Sent, Zenon
  <2> QED BY <1>1, <1>2, <2>1, <2>3, SameFewer, OnceQuiet, Zenon
<1>6. CASE L2capWrites \/ PeerGivesCredit
  <2>1. bmmQ' = bmmQ \/ \E k : ReportPending(k)
    BY <1>6, Zenon DEF L2capWrites, PeerGivesCredit, Reschedule
  <2> QED BY <1>1, <1>2, <2>1, PendingReported, SameFewer, OnceQuiet, Zenon DEF OnceInv
<1>7. \/ IgnoreWriteCfm \/ IgnorePendingCfm \/ L2capWrites \/ PeerGivesCredit
      \/ bmmQ' = bmmQ \/ SegmentSent \/ PeerViolates \/ UserCloses
  BY Zenon DEF LinkStep, SendSegment, vars
<1> QED BY <1>3, <1>4, <1>5, <1>6, <1>7

\* A request that the user sends has a number of its own.
LEMMA SentOnce ==
  ASSUME OnceInv, FlowInv', NEW n \in Sizes, UserSends(n)
  PROVE  OnceInv'
<1>1. TypeOK /\ bmmQ \in Seq(BmmMsg) /\ nreq \in 0 .. MaxReq
      /\ sock.pending \in {NoRequest} \cup Request
  <2>1. TypeOK
    BY DEF OnceInv, FlowInv
  <2> QED BY <2>1, Typed, EntryFields
<1>2. nreq < MaxReq /\ nreq' = nreq + 1
  BY DEF UserSends
<1>3. sock' = sock /\ link' = link /\ answer' = answer
  BY Zenon DEF UserSends, lower
<1>4. PICK r, m : r = nreq + 1 /\ m = [type |-> "DATA_REQ", req |-> r, size |-> n]
  OBVIOUS
<1>5. r \in Request /\ r > nreq /\ nreq \in Nat /\ nreq' = r
  BY <1>1, <1>2, <1>4, MaxReqAssumption DEF Request
<1>6. m \in BmmMsg /\ IsData(m) /\ m.req = r
  <2>1. m \in BmmMsg
    BY <1>4, <1>5, MessagesTyped, Zenon
  <2>2. IsData(m) /\ m.req = r
    BY <1>4 DEF IsData
  <2> QED BY <2>1, <2>2
<1>7. Grown(bmmQ', bmmQ, m)
  <2>1. Appended(bmmQ', bmmQ, m)
    BY <1>4 DEF Appended, UserSends
  <2> QED BY <1>1, <1>6, <2>1, Sent, Zenon
<1>8. Sound' /\ LastWaits' /\ ConfirmedOnce'
  BY <1>3, Zenon DEF OnceInv, Sound, LastWaits, ConfirmedOnce
<1>9. PendingWaits'
  <2> SUFFICES ASSUME sock.pending # NoRequest
               PROVE  sock.pending <= nreq' /\ answer[sock.pending] = <<>>
    BY <1>3, Zenon DEF PendingWaits
  <2>1. sock.pending <= nreq /\ answer[sock.pending] = <<>>
    BY Zenon DEF OnceInv, PendingWaits
  <2>2. sock.pending \in Nat
    BY <1>1, RequestIs
  <2> QED BY <1>2, <1>5, <2>1, <2>2
<1>10. NotYetSent'
  <2> SUFFICES ASSUME NEW x \in Request, x > nreq'
               PROVE  answer[x] = <<>>
    BY <1>3, Zenon DEF NotYetSent
  <2>1. x > nreq
    BY <1>2, <1>5, RequestIs
  <2> QED BY <2>1, Zenon DEF OnceInv, NotYetSent
<1>11. ASSUME NEW k \in DOMAIN bmmQ', IsData(bmmQ'[k])
       PROVE  /\ bmmQ'[k].req <= nreq'
              /\ answer[bmmQ'[k].req] = <<>>
              /\ bmmQ'[k].req # sock.pending
              /\ \A j \in DOMAIN bmmQ' :
                   IsData(bmmQ'[j]) /\ j # k => bmmQ'[j].req # bmmQ'[k].req
  <2>1. ASSUME NEW i \in DOMAIN bmmQ, IsData(bmmQ[i])
        PROVE  /\ bmmQ[i].req <= nreq /\ bmmQ[i].req \in Nat /\ bmmQ[i].req # r
               /\ answer[bmmQ[i].req] = <<>> /\ bmmQ[i].req # sock.pending
    <3>1. bmmQ[i] \in BmmMsg
      BY <1>1
    <3>2. bmmQ[i].req \in Request
      BY <2>1, <3>1, MessageFields, Zenon DEF IsData
    <3>3. /\ bmmQ[i].req <= nreq
          /\ answer[bmmQ[i].req] = <<>> /\ bmmQ[i].req # sock.pending
      BY <2>1, Zenon DEF OnceInv, QueueWaits
    <3>4. bmmQ[i].req # r /\ bmmQ[i].req \in Nat
      <4>1. PICK x : x = bmmQ[i].req
        OBVIOUS
      <4>2. x \in Nat /\ x <= nreq
        BY <3>2, <3>3, <4>1, RequestIs
      <4>3. x # r
        BY <1>5, <4>2
      <4> QED BY <4>1, <4>2, <4>3
    <3> QED BY <3>3, <3>4
  <2>2. CASE k \in DOMAIN bmmQ
    <3>1. bmmQ'[k] = bmmQ[k]
      BY <1>7, <2>2, Zenon DEF Grown
    <3>2. bmmQ[k].req <= nreq'
      BY <1>2, <1>5, <1>11, <2>1, <2>2, <3>1
    <3>3. ASSUME NEW j \in DOMAIN bmmQ', IsData(bmmQ'[j]), j # k
          PROVE  bmmQ'[j].req # bmmQ[k].req
      <4>1. CASE j \in DOMAIN bmmQ
        <5>1. bmmQ'[j] = bmmQ[j]
          BY <1>7, <4>1, Zenon DEF Grown
        <5> QED BY <1>11, <2>2, <3>1, <3>3, <4>1, <5>1, Zenon DEF OnceInv, QueueWaits
      <4>2. CASE j \notin DOMAIN bmmQ
        <5>1. bmmQ'[j] = m
          BY <1>7, <4>2, Zenon DEF Grown
        <5> QED BY <1>6, <1>11, <2>1, <2>2, <3>1, <5>1, Zenon
      <4> QED BY <4>1, <4>2
    <3> QED BY <1>11, <2>1, <2>2, <3>1, <3>2, <3>3, Zenon
  <2>3. CASE k \notin DOMAIN bmmQ
    <3>1. bmmQ'[k] = m
      BY <1>7, <2>3, Zenon DEF Grown
    <3>2. r <= nreq' /\ answer[r] = <<>>
      <4>1. r <= nreq'
        <5>1. r \in Nat
          BY <1>5, RequestIs
        <5> QED BY <1>5, <5>1
      <4> QED BY <1>5, <4>1, Zenon DEF OnceInv, NotYetSent
    <3>3. r # sock.pending
      <4>1. CASE sock.pending = NoRequest
        BY <1>5, <4>1, RequestIs, Zenon
      <4>2. CASE sock.pending # NoRequest
        <5>1. sock.pending <= nreq /\ sock.pending \in Nat
          BY <1>1, <4>2, RequestIs DEF OnceInv, PendingWaits
        <5> QED BY <1>5, <5>1
      <4> QED BY <4>1, <4>2
    <3>4. ASSUME NEW j \in DOMAIN bmmQ', IsData(bmmQ'[j]), j # k
          PROVE  bmmQ'[j].req # r
      <4>1. j \in DOMAIN bmmQ /\ bmmQ'[j] = bmmQ[j]
        <5>1. DOMAIN bmmQ' = DOMAIN bmmQ \cup {Len(bmmQ) + 1}
          BY <1>1, <1>4 DEF UserSends
        <5>2. j \in DOMAIN bmmQ
          BY <2>3, <3>4, <5>1
        <5> QED BY <1>7, <5>2, Zenon DEF Grown
      <4> QED BY <2>1, <3>4, <4>1
    <3> QED BY <1>6, <3>1, <3>2, <3>3, <3>4, Zenon
  <2> QED BY <2>2, <2>3
<1>12. QueueWaits'
  BY <1>3, <1>11, Zenon DEF QueueWaits
<1> QED BY <1>8, <1>9, <1>10, <1>12, Zenon DEF OnceInv

\* No request is sent yet when the socket is offloaded.
LEMMA OnceInit == Init => OnceInv
<1> SUFFICES ASSUME Init PROVE OnceInv
  OBVIOUS
<1>1. PICK p \in Protos : sock = NewSock(p)
  BY DEF Init
<1>2. sock.txCount = 0 /\ sock.pending = NoRequest
  BY <1>1 DEF NewSock
<1>3. bmmQ = <<>> /\ link = TRUE /\ answer = [r \in {NoRequest} \cup Request |-> <<>>]
  BY DEF Init
<1>4. LastWaits
  BY <1>2, WindowIs DEF LastWaits
<1>5. Sound /\ PendingWaits
  BY <1>2, <1>3, Zenon DEF Sound, PendingWaits
<1>6. \A r \in {NoRequest} \cup Request : answer[r] = <<>>
  BY <1>3
<1>7. NotYetSent
  BY <1>6, RequestIs, Zenon DEF NotYetSent
<1>8. ConfirmedOnce
  <2>1. answer[NoRequest] = <<>>
    BY <1>6
  <2>2. \A r \in Request : Len(answer[r]) <= 1
    BY <1>6
  <2> QED BY <2>1, <2>2 DEF ConfirmedOnce
<1>9. QueueWaits
  BY <1>3 DEF QueueWaits
<1> QED BY <1>4, <1>5, <1>7, <1>8, <1>9, FlowInit, Zenon DEF OnceInv

\* Every step keeps the requests without an answer apart.
LEMMA OnceNext ==
  ASSUME "LECOC" \notin LossyLinks
  PROVE  OnceInv /\ [Next]_vars => OnceInv'
<1> SUFFICES ASSUME OnceInv, [Next]_vars PROVE OnceInv'
  OBVIOUS
<1>1. FlowInv'
  BY FlowNext, Zenon DEF OnceInv
<1>2. CASE RefuseDataReq \/ DiscardDataReq
  BY <1>1, <1>2, AnsweredOnce
<1>3. CASE TakeDataReq
  BY <1>1, <1>3, TakenOnce
<1>4. CASE TakeLastDataReq
  BY <1>1, <1>4, LastTakenOnce
<1>5. CASE HandleRfcommWriteCfm \/ HandleLecocPartCfm \/ HandleLecocWriteCfm
  BY <1>1, <1>5, CfmOnce
<1>6. CASE HandleDisconnectInd \/ HandleCloseReq \/ LinkLost
  BY <1>1, <1>6, ChannelOnce
<1>7. CASE \/ IgnoreWriteCfm \/ IgnorePendingCfm \/ L2capWrites \/ LinkStep
           \/ PeerGivesCredit \/ PeerViolates \/ UserCloses \/ UNCHANGED vars
  BY <1>1, <1>7, LowerOnce
<1>8. CASE \E n \in Sizes : UserSends(n)
  BY <1>1, <1>8, SentOnce
<1> QED BY <1>2, <1>3, <1>4, <1>5, <1>6, <1>7, <1>8, Zenon DEF Next, BmmStep

\* When no LE CoC link goes, no request is answered twice and no answer goes to
\* nobody: the confirmation of the request that filled the window comes once,
\* in whatever order the confirmations of its segments, an error, a close and
\* more requests come.
THEOREM RequestsConfirmedOnce ==
  ASSUME "LECOC" \notin LossyLinks
  PROVE  Spec => []ConfirmedOnce
<1>1. OnceInv => ConfirmedOnce
  BY DEF OnceInv
<1> QED BY <1>1, OnceInit, OnceNext, PTL DEF Spec
=============================================================================
