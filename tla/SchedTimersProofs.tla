------------------------- MODULE SchedTimersProofs -------------------------
(***************************************************************************)
(* The scheduler's encoding of deadlines is exact across any number of     *)
(* wraps of the clock, for every period, delay and pool size: the code     *)
(* looks at the clock often enough to count each wrap that matters.        *)
(***************************************************************************)
EXTENDS SchedTimers, SequenceTheorems, DataLemmas, TLAPS

LongestWait == (WaitInfinite - 1) * Ms

-----------------------------------------------------------------------------
(* Inserting into a sequence.                                              *)

\* The elements of a sequence after one is inserted.
LEMMA InsertAtTyped ==
  ASSUME NEW S, NEW s \in Seq(S), NEW e \in S, NEW k \in 1 .. Len(s) + 1
  PROVE  /\ InsertAt(s, k, e) \in Seq(S)
         /\ Len(InsertAt(s, k, e)) = Len(s) + 1
         /\ \A i \in 1 .. Len(s) + 1 :
              InsertAt(s, k, e)[i] =
                IF i < k THEN s[i] ELSE IF i = k THEN e ELSE s[i - 1]
<1> DEFINE a == SubSeq(s, 1, k - 1)
           b == SubSeq(s, k, Len(s))
<1>1. /\ a \in Seq(S) /\ Len(a) = k - 1
      /\ \A i \in 1 .. k - 1 : a[i] = s[i]
  BY SubSeqProperties
<1>2. /\ b \in Seq(S) /\ Len(b) = Len(s) + 1 - k
      /\ \A i \in 1 .. Len(s) + 1 - k : b[i] = s[k + i - 1]
  BY SubSeqProperties
<1>3. /\ <<e>> \in Seq(S) /\ Len(<<e>>) = 1 /\ <<e>>[1] = e
  OBVIOUS
<1> HIDE DEF a, b
<1> DEFINE c == a \o <<e>>
<1>4. /\ c \in Seq(S) /\ Len(c) = k
      /\ \A i \in 1 .. k : c[i] = IF i < k THEN s[i] ELSE e
  BY <1>1, <1>3, ConcatProperties
<1> HIDE DEF c
<1>5. /\ c \o b \in Seq(S) /\ Len(c \o b) = Len(s) + 1
      /\ \A i \in 1 .. Len(s) + 1 :
           (c \o b)[i] = IF i <= k THEN c[i] ELSE b[i - k]
  BY <1>2, <1>4, ConcatProperties
<1>6. InsertAt(s, k, e) = c \o b
  BY DEF InsertAt, a, b, c
<1>7. \A i \in 1 .. Len(s) + 1 : i > k => b[i - k] = s[i - 1]
  BY <1>2
<1> QED BY <1>4, <1>5, <1>6, <1>7

\* Multiplication by a natural number keeps the order.
LEMMA Products ==
  ASSUME NEW a \in Nat, NEW b \in Nat, NEW m \in Nat, a <= b
  PROVE  a * m \in Nat /\ a * m <= b * m
OBVIOUS

\* The fields of a timer are natural numbers.
LEMMA TimerFields ==
  ASSUME NEW t \in Timer
  PROVE  t.when \in Nat /\ t.wrapCount \in Nat /\ t.due \in Nat
BY TimerAssumption DEF Timer, Time

-----------------------------------------------------------------------------
(* The order of the list.                                                  *)

\* The comparison of the code, wrap count first and time second, is an order.
LEMMA AfterIsAnOrder ==
  ASSUME NEW a \in Timer, NEW b \in Timer, NEW c \in Timer
  PROVE  /\ After(a, b) => ~ After(b, a)
         /\ ~ After(a, b) /\ ~ After(b, c) => ~ After(a, c)
<1> DEFINE aw == a.when ac == a.wrapCount
           bw == b.when bc == b.wrapCount
           cw == c.when cc == c.wrapCount
<1>1. /\ aw \in Nat /\ ac \in Nat /\ bw \in Nat /\ bc \in Nat
      /\ cw \in Nat /\ cc \in Nat
  BY TimerAssumption DEF Timer, Time
<1> HIDE DEF aw, ac, bw, bc, cw, cc
<1>2. /\ ((aw > bw /\ ac = bc) \/ ac > bc)
         => ~ ((bw > aw /\ bc = ac) \/ bc > ac)
      /\ ~ ((aw > bw /\ ac = bc) \/ ac > bc) /\ ~ ((bw > cw /\ bc = cc) \/ bc > cc)
         => ~ ((aw > cw /\ ac = cc) \/ ac > cc)
  BY <1>1
<1> QED BY <1>2 DEF After, aw, ac, bw, bc, cw, cc

Ordered(list) ==
  \A i, j \in 1 .. Len(list) : i < j => ~ After(list[i], list[j])

\* A timer inserted where the code inserts it leaves the list in order.
LEMMA InsertOrdered ==
  ASSUME NEW list \in Seq(Timer), Ordered(list), NEW t \in Timer,
         NEW k \in 1 .. Len(list) + 1,
         \A i \in 1 .. k - 1 : ~ After(list[i], t),
         k <= Len(list) => After(list[k], t)
  PROVE  Ordered(InsertAt(list, k, t))
<1> DEFINE new == InsertAt(list, k, t)
<1>1. /\ Len(new) = Len(list) + 1
      /\ \A i \in 1 .. Len(list) + 1 :
           new[i] = IF i < k THEN list[i] ELSE IF i = k THEN t ELSE list[i - 1]
  BY InsertAtTyped
<1> HIDE DEF new
<1>2. \A i \in 1 .. Len(list) : list[i] \in Timer
  OBVIOUS
<1>3. \A i \in k .. Len(list) : ~ After(t, list[i])
  <2> TAKE i \in k .. Len(list)
  <2>1. k \in 1 .. Len(list) /\ i \in 1 .. Len(list) /\ After(list[k], t)
    OBVIOUS
  <2>2. ~ After(t, list[k])
    BY <1>2, <2>1, AfterIsAnOrder
  <2>3. k = i \/ ~ After(list[k], list[i])
    BY <2>1 DEF Ordered
  <2> QED BY <1>2, <2>1, <2>2, <2>3, AfterIsAnOrder
<1>4. ASSUME NEW i \in 1 .. Len(new), NEW j \in 1 .. Len(new), i < j
      PROVE  ~ After(new[i], new[j])
  <2>1. i \in Nat /\ j \in Nat /\ k \in Nat /\ Len(list) \in Nat
    BY <1>1
  <2>2. CASE j < k
    BY <1>1, <1>4, <2>1, <2>2 DEF Ordered
  <2>3. CASE j = k
    BY <1>1, <1>4, <2>1, <2>3
  <2>4. CASE i = k
    <3>1. new[i] = t /\ new[j] = list[j - 1] /\ j - 1 \in k .. Len(list)
      BY <1>1, <1>4, <2>1, <2>4
    <3> QED BY <3>1, <1>3
  <2>5. CASE i < k /\ k < j
    <3>1. /\ new[i] = list[i] /\ new[j] = list[j - 1] /\ i < j - 1
          /\ i \in 1 .. Len(list) /\ j - 1 \in 1 .. Len(list)
      BY <1>1, <1>4, <2>1, <2>5
    <3> QED BY <3>1 DEF Ordered
  <2>6. CASE k < i
    <3>1. /\ new[i] = list[i - 1] /\ new[j] = list[j - 1] /\ i - 1 < j - 1
          /\ i - 1 \in 1 .. Len(list) /\ j - 1 \in 1 .. Len(list)
      BY <1>1, <1>4, <2>1, <2>6
    <3> QED BY <3>1 DEF Ordered
  <2> QED BY <2>1, <2>2, <2>3, <2>4, <2>5, <2>6
<1> QED BY <1>4 DEF Ordered, new

\* A timer removed leaves the list in order.
LEMMA RemoveOrdered ==
  ASSUME NEW list \in Seq(Timer), Ordered(list), NEW k \in 1 .. Len(list)
  PROVE  Ordered(RemoveAt(list, k))
<1> DEFINE new == RemoveAt(list, k)
<1>1. /\ Len(new) = Len(list) - 1
      /\ \A i \in 1 .. Len(list) - 1 :
           new[i] = IF i < k THEN list[i] ELSE list[i + 1]
  BY RemoveAtTyped
<1> HIDE DEF new
<1>2. ASSUME NEW i \in 1 .. Len(new), NEW j \in 1 .. Len(new), i < j
      PROVE  ~ After(new[i], new[j])
  <2>1. i \in Nat /\ j \in Nat /\ k \in Nat /\ Len(list) \in Nat
    BY <1>1
  <2>2. PICK p \in 1 .. Len(list), q \in 1 .. Len(list) :
          p < q /\ new[i] = list[p] /\ new[j] = list[q]
    <3>1. CASE j < k
      BY <1>1, <1>2, <2>1, <3>1
    <3>2. CASE i < k /\ k <= j
      <4>1. /\ new[i] = list[i] /\ new[j] = list[j + 1] /\ i < j + 1
            /\ i \in 1 .. Len(list) /\ j + 1 \in 1 .. Len(list)
        BY <1>1, <1>2, <2>1, <3>2
      <4> QED BY <4>1
    <3>3. CASE k <= i
      <4>1. /\ new[i] = list[i + 1] /\ new[j] = list[j + 1] /\ i + 1 < j + 1
            /\ i + 1 \in 1 .. Len(list) /\ j + 1 \in 1 .. Len(list)
        BY <1>1, <1>2, <2>1, <3>3
      <4> QED BY <4>1
    <3> QED BY <2>1, <3>1, <3>2, <3>3
  <2> QED BY <2>2 DEF Ordered
<1> QED BY <1>2 DEF Ordered, new

-----------------------------------------------------------------------------
(* The inductive invariant.                                                *)

\* While a timer is pending, less than one period has passed since the last
\* look at the clock, so comparing two clock values counts the wraps.
LookedLately ==
  Pending => \/ epoch = seen /\ now = lastNow + gap
             \/ epoch = seen + 1 /\ now + Period = lastNow + gap

GapBounded ==
  Pending => /\ busy <= MaxBusy
             /\ pc \in {"task", "fire"} => gap <= busy
             /\ pc \in {"event", "timers"} => gap <= busy + LongestWait
             /\ pc = "sleep" => gap + left <= busy + LongestWait

FiringIsATimer == pc = "fire" => firing \in Timer

IInv ==
  /\ TypeOK
  /\ DeadlinesEncoded
  /\ Ordered(timerList)
  /\ LookedLately
  /\ GapBounded
  /\ FiringIsATimer
  /\ NeverEarly

\* What the assumptions say of the longest wait: it is shorter than a period.
LEMMA Constants ==
  /\ Period \in Nat \ {0} /\ Ms \in Nat \ {0} /\ MaxBusy \in Nat
  /\ LongestWait \in Nat /\ LongestWait + MaxBusy < Period
<1>1. WaitInfinite - 1 \in Nat /\ Ms \in Nat /\ Ms \in Nat \ {0}
  BY TimerAssumption
<1>2. LongestWait \in Nat
  BY <1>1, Products DEF LongestWait
<1> QED BY <1>1, <1>2, TimerAssumption DEF LongestWait

\* The empty list satisfies the invariant.
LEMMA InitIInv == Init => IInv
<1> SUFFICES ASSUME Init PROVE IInv
  OBVIOUS
<1>1. TypeOK
  BY TimerAssumption DEF Init, TypeOK, Time, NoTimer
<1>2. Len(timerList) = 0 /\ ~ Pending
  BY DEF Init, Pending
<1> QED
  BY <1>1, <1>2 DEF Init, IInv, DeadlinesEncoded, Ordered, LookedLately,
     GapBounded, FiringIsATimer, NeverEarly

\* The wrap count after a look at the clock is exact.
LEMMA WrapCountExact ==
  ASSUME IInv
  PROVE  /\ WrapCount \in Nat
         /\ Pending => WrapCount + seen = epoch + currentWrapCount
<1>1. /\ epoch \in Nat /\ seen \in Nat /\ currentWrapCount \in Nat
      /\ now \in Nat /\ lastNow \in Nat /\ now < Period /\ lastNow < Period
      /\ gap \in Nat /\ busy \in Nat /\ left \in Nat
  BY TimerAssumption DEF IInv, TypeOK, Time
<1>2. Pending => gap < Period
  BY <1>1, Constants DEF IInv, TypeOK, GapBounded
<1>3. Pending => \/ epoch = seen /\ now = lastNow + gap
                 \/ epoch = seen + 1 /\ now + Period = lastNow + gap
  BY DEF IInv, LookedLately
<1>4. Period \in Nat
  BY Constants
<1>5. Pending => \/ epoch = seen /\ ~ (now < lastNow)
                 \/ epoch = seen + 1 /\ now < lastNow
  BY <1>1, <1>2, <1>3, <1>4
<1> QED BY <1>1, <1>5 DEF WrapCount

\* A look at the clock keeps what the invariant says of the pending timers.
LEMMA LookKeepsEncoding ==
  ASSUME IInv, LookAtClock
  PROVE  /\ \A k \in 1 .. Len(timerList) :
              timerList[k].wrapCount + seen' = timerList[k].due + currentWrapCount'
         /\ epoch' = seen' /\ now' = lastNow' + gap' /\ gap' = 0 /\ busy' = 0
         /\ currentWrapCount' \in Nat /\ lastNow' \in Time /\ seen' \in Nat
         /\ epoch' \in Nat /\ now' \in Time
<1>1. /\ epoch \in Nat /\ seen \in Nat /\ currentWrapCount \in Nat
      /\ now \in Nat /\ now \in Time
  BY TimerAssumption DEF IInv, TypeOK, Time
<1>2. WrapCount \in Nat /\ (Pending => WrapCount + seen = epoch + currentWrapCount)
  BY WrapCountExact
<1>3. /\ currentWrapCount' = WrapCount /\ seen' = epoch /\ lastNow' = now
      /\ now' = now /\ epoch' = epoch /\ gap' = 0 /\ busy' = 0
  BY DEF LookAtClock
<1>4. ASSUME NEW k \in 1 .. Len(timerList)
      PROVE  timerList[k].wrapCount + seen' = timerList[k].due + currentWrapCount'
  <2> DEFINE w == timerList[k].wrapCount
             d == timerList[k].due
  <2>1. timerList[k] \in Timer
    BY <1>4 DEF IInv, TypeOK
  <2>2. w \in Nat /\ d \in Nat
    BY <2>1 DEF Timer
  <2>3. w + seen = d + currentWrapCount
    BY DEF IInv, DeadlinesEncoded
  <2>4. Pending
    BY <1>4 DEF Pending
  <2> HIDE DEF w, d
  <2>5. w + epoch = d + WrapCount
    BY <1>1, <1>2, <2>2, <2>3, <2>4
  <2> QED BY <1>3, <2>5 DEF w, d
<1> QED BY <1>1, <1>2, <1>3, <1>4

-----------------------------------------------------------------------------
(* One lemma per action.                                                   *)

\* The clock moves on, and may wrap; what is encoded does not change.
LEMMA TickKeepsIInv == IInv /\ Tick => IInv'
<1> SUFFICES ASSUME IInv, Tick PROVE IInv'
  OBVIOUS
<1>1. /\ epoch \in Nat /\ now \in Nat /\ now < Period /\ gap \in Nat
      /\ busy \in Nat /\ left \in Nat /\ lastNow \in Nat /\ seen \in Nat
      /\ lastNow < Period
  BY TimerAssumption DEF IInv, TypeOK, Time
<1>2. /\ Period \in Nat /\ MaxBusy \in Nat /\ LongestWait \in Nat
      /\ LongestWait + MaxBusy < Period
  BY Constants
<1>3. UNCHANGED <<lastNow, currentWrapCount, seen, timerFreeList, timers,
                  active, timerList, pc, firing>>
  BY DEF Tick, viewVars, poolVars
<1>4. \/ now + 1 < Period /\ now' = now + 1 /\ epoch' = epoch
      \/ now + 1 >= Period /\ now' = 0 /\ epoch' = epoch + 1
  BY <1>1, <1>2 DEF Tick
<1>5. /\ left' = IF pc = "sleep" /\ Pending THEN left - 1 ELSE left
      /\ busy' = IF pc # "sleep" /\ Pending THEN busy + 1 ELSE busy
      /\ gap' = IF Pending THEN gap + 1 ELSE gap
      /\ pc = "sleep" /\ Pending => left > 0
      /\ pc # "sleep" /\ Pending => busy < MaxBusy
  BY DEF Tick, MayTick
<1>6. Pending' <=> Pending
  BY <1>3 DEF Pending
<1>7. /\ epoch' \in Nat /\ now' \in Nat /\ now' < Period /\ gap' \in Nat
      /\ busy' \in Nat /\ left' \in Nat
  BY <1>1, <1>2, <1>4, <1>5
<1>8. TypeOK'
  <2>1. now' \in Time
    BY <1>2, <1>7 DEF Time
  <2> QED BY <1>3, <1>7, <2>1 DEF IInv, TypeOK
<1>9. DeadlinesEncoded'
  BY <1>3 DEF IInv, DeadlinesEncoded
<1>10. Ordered(timerList)'
  BY <1>3 DEF IInv, Ordered, After
<1>11. LookedLately'
  <2>1. Pending => gap < Period
    BY <1>1, <1>2 DEF IInv, TypeOK, GapBounded
  <2>2. Pending => \/ epoch = seen /\ now = lastNow + gap
                   \/ epoch = seen + 1 /\ now + Period = lastNow + gap
    BY DEF IInv, LookedLately
  <2>3. Pending => \/ epoch' = seen /\ now' = lastNow + gap'
                   \/ epoch' = seen + 1 /\ now' + Period = lastNow + gap'
    BY <1>1, <1>2, <1>4, <1>5, <2>1, <2>2
  <2> QED BY <1>3, <1>6, <2>3 DEF LookedLately
<1>12. GapBounded'
  BY <1>1, <1>2, <1>5, <1>6, <1>3 DEF IInv, GapBounded, TypeOK
<1>13. FiringIsATimer'
  BY <1>3 DEF IInv, FiringIsATimer
<1>14. NeverEarly'
  <2>1. pc = "fire" => firing.when \in Nat /\ firing.due \in Nat
    BY TimerAssumption DEF IInv, FiringIsATimer, Timer, Time
  <2> QED BY <1>1, <1>3, <1>4, <2>1 DEF IInv, NeverEarly, AtOrBefore
<1> QED BY <1>8, <1>9, <1>10, <1>11, <1>12, <1>13, <1>14 DEF IInv

\* A new timer gets the wrap count of its deadline and its place in the list.
LEMMA SetKeepsIInv ==
  ASSUME IInv, NEW delay \in Delays, CsrSchedTimerSet(delay)
  PROVE  IInv'
<1>1. PICK id \in Tid, k \in 1 .. Len(timerList) + 1 :
        /\ Alloc(id)
        /\ InsertPoint(NewTimer(id, delay), k)
        /\ timerList' = InsertAt(timerList, k, NewTimer(id, delay))
        /\ active' = [active EXCEPT ![id] = TRUE]
  BY DEF CsrSchedTimerSet
<1>2. LookAtClock /\ UNCHANGED <<pc, firing, left>> /\ Running
  BY DEF CsrSchedTimerSet
<1> DEFINE t == NewTimer(id, delay)
<1>3. /\ epoch \in Nat /\ now \in Nat /\ now < Period /\ now \in Time
      /\ delay \in Nat /\ delay < Period /\ Period \in Nat
  BY TimerAssumption DEF IInv, TypeOK, Time
<1>4. WrapCount \in Nat
  BY WrapCountExact
<1>5. /\ t.id = id
      /\ t.when = IF CrossesWrap(delay) THEN now + delay - Period ELSE now + delay
      /\ t.wrapCount = WrapCount + (IF CrossesWrap(delay) THEN 1 ELSE 0)
      /\ t.due = epoch + (IF CrossesWrap(delay) THEN 1 ELSE 0)
      /\ t = [id |-> t.id, when |-> t.when, wrapCount |-> t.wrapCount, due |-> t.due]
  BY DEF NewTimer
<1>6. t.when \in Time /\ t.wrapCount \in Nat /\ t.due \in Nat
  <2>1. CASE CrossesWrap(delay)
    <3>1. /\ t.when = now + delay - Period /\ now + delay >= Period
          /\ t.wrapCount = WrapCount + 1 /\ t.due = epoch + 1
      BY <1>5, <2>1 DEF CrossesWrap
    <3> HIDE DEF t
    <3> QED BY <1>3, <1>4, <3>1 DEF Time
  <2>2. CASE ~ CrossesWrap(delay)
    <3>1. /\ t.when = now + delay /\ ~ (now + delay >= Period)
          /\ t.wrapCount = WrapCount + 0 /\ t.due = epoch + 0
      BY <1>5, <2>2 DEF CrossesWrap
    <3> HIDE DEF t
    <3> QED BY <1>3, <1>4, <3>1 DEF Time
  <2> QED BY <2>1, <2>2
<1>7. t \in Timer
  <2> HIDE DEF t
  <2> QED BY <1>1, <1>5, <1>6 DEF Timer
<1>8. t.wrapCount + epoch = t.due + WrapCount
  BY <1>3, <1>4, <1>5
<1>9. /\ timerList \in Seq(Timer) /\ Ordered(timerList)
      /\ timerFreeList \in Seq(Tid) /\ timers \in 0 .. Limit
      /\ active \in [Tid -> BOOLEAN]
  BY DEF IInv, TypeOK
<1>10. /\ \A i \in 1 .. k - 1 : ~ After(timerList[i], t)
       /\ k <= Len(timerList) => After(timerList[k], t)
  BY <1>1 DEF InsertPoint
<1>0. timerList' = InsertAt(timerList, k, t)
  BY <1>1
<1> HIDE DEF t
<1>11. /\ timerList' \in Seq(Timer) /\ Len(timerList') = Len(timerList) + 1
       /\ \A i \in 1 .. Len(timerList) + 1 :
            timerList'[i] =
              IF i < k THEN timerList[i] ELSE IF i = k THEN t ELSE timerList[i - 1]
  <2> DEFINE new == InsertAt(timerList, k, t)
  <2>1. timerList' = new
    BY <1>0
  <2>2. timerList \in Seq(Timer)
    BY <1>9
  <2>3. /\ new \in Seq(Timer) /\ Len(new) = Len(timerList) + 1
        /\ \A i \in 1 .. Len(timerList) + 1 :
             new[i] =
               IF i < k THEN timerList[i] ELSE IF i = k THEN t ELSE timerList[i - 1]
    BY <2>2, <1>7, InsertAtTyped
  <2> HIDE DEF new
  <2> QED BY <2>1, <2>3
<1>12. /\ \A i \in 1 .. Len(timerList) :
            timerList[i].wrapCount + seen' = timerList[i].due + currentWrapCount'
       /\ epoch' = seen' /\ now' = lastNow' + gap' /\ gap' = 0 /\ busy' = 0
       /\ currentWrapCount' \in Nat /\ lastNow' \in Time /\ seen' \in Nat
       /\ epoch' \in Nat /\ now' \in Time
  BY <1>2, LookKeepsEncoding
<1>13. timerFreeList' \in Seq(Tid) /\ timers' \in 0 .. Limit
  <2>1. CASE timerFreeList # <<>>
    BY <1>1, <1>9, <2>1, HeadTailProperties DEF Alloc
  <2>2. CASE timerFreeList = <<>>
    BY <1>1, <1>9, <2>2, TimerAssumption DEF Alloc, Tid
  <2> QED BY <2>1, <2>2
<1>14. active' \in [Tid -> BOOLEAN]
  BY <1>1, <1>9
<1>15. TypeOK'
  BY <1>2, <1>11, <1>12, <1>13, <1>14 DEF IInv, TypeOK
<1>16. DeadlinesEncoded'
  <2> SUFFICES ASSUME NEW i \in 1 .. Len(timerList')
               PROVE  timerList'[i].wrapCount + seen'
                        = timerList'[i].due + currentWrapCount'
    BY DEF DeadlinesEncoded
  <2>0. i \in Nat /\ k \in Nat /\ Len(timerList) \in Nat
    BY <1>9, <1>11
  <2>1. CASE i = k
    BY <1>8, <1>11, <2>1, <1>2, <2>0 DEF LookAtClock
  <2>2. CASE i < k
    BY <1>11, <1>12, <2>2, <2>0
  <2>3. CASE i > k
    <3>1. i - 1 \in 1 .. Len(timerList) /\ timerList'[i] = timerList[i - 1]
      BY <1>11, <2>3, <2>0
    <3> QED BY <1>12, <3>1
  <2> QED BY <2>0, <2>1, <2>2, <2>3
<1>17. Ordered(timerList)'
  <2>1. Ordered(InsertAt(timerList, k, t))
    BY <1>7, <1>9, <1>10, InsertOrdered
  <2> QED BY <1>0, <2>1 DEF Ordered, After
<1>18. LookedLately'
  BY <1>12 DEF LookedLately
<1>19. GapBounded'
  BY <1>2, <1>12, Constants DEF GapBounded, Running
<1>20. FiringIsATimer'
  BY <1>2 DEF IInv, FiringIsATimer
<1>21. NeverEarly'
  BY <1>2 DEF IInv, NeverEarly, LookAtClock, AtOrBefore
<1> QED BY <1>15, <1>16, <1>17, <1>18, <1>19, <1>20, <1>21 DEF IInv

\* A timer taken out of the list leaves the others as they are.
LEMMA CancelKeepsIInv ==
  ASSUME IInv, NEW id \in Tid, CsrSchedTimerCancel(id)
  PROVE  IInv'
<1>1. PICK k \in 1 .. Len(timerList) : timerList' = RemoveAt(timerList, k)
  BY DEF CsrSchedTimerCancel
<1>2. /\ UNCHANGED <<epoch, now, busy, gap, lastNow, currentWrapCount, seen,
                     timers, pc, firing, left>>
      /\ active' = [active EXCEPT ![id] = FALSE]
      /\ timerFreeList' = <<id>> \o timerFreeList
      /\ Running
  BY DEF CsrSchedTimerCancel, clockVars, viewVars, Free
<1>3. /\ timerList \in Seq(Timer) /\ Ordered(timerList)
      /\ timerFreeList \in Seq(Tid) /\ active \in [Tid -> BOOLEAN]
  BY DEF IInv, TypeOK
<1>4. /\ timerList' \in Seq(Timer) /\ Len(timerList') = Len(timerList) - 1
      /\ \A i \in 1 .. Len(timerList) - 1 :
           timerList'[i] = IF i < k THEN timerList[i] ELSE timerList[i + 1]
  BY <1>1, <1>3, RemoveAtTyped
<1>5. timerFreeList' \in Seq(Tid)
  BY <1>2, <1>3, ConcatProperties
<1>6. TypeOK'
  BY <1>2, <1>3, <1>4, <1>5 DEF IInv, TypeOK
<1>7. DeadlinesEncoded'
  <2> SUFFICES ASSUME NEW i \in 1 .. Len(timerList')
               PROVE  timerList'[i].wrapCount + seen'
                        = timerList'[i].due + currentWrapCount'
    BY DEF DeadlinesEncoded
  <2>1. PICK j \in 1 .. Len(timerList) : timerList'[i] = timerList[j]
    <3>1. i \in Nat /\ k \in Nat /\ Len(timerList) \in Nat
      BY <1>3, <1>4
    <3>2. i \in 1 .. Len(timerList) /\ i + 1 \in 1 .. Len(timerList)
      BY <1>4, <3>1
    <3> QED BY <1>4, <3>1, <3>2
  <2> QED BY <1>2, <2>1 DEF IInv, DeadlinesEncoded
<1>8. Ordered(timerList)'
  <2>1. Ordered(RemoveAt(timerList, k))
    BY <1>3, RemoveOrdered
  <2> QED BY <1>1, <2>1 DEF Ordered, After
<1>9. Pending
  BY <1>3 DEF Pending
<1>10. LookedLately' /\ GapBounded' /\ FiringIsATimer' /\ NeverEarly'
  BY <1>2, <1>9 DEF IInv, LookedLately, GapBounded, FiringIsATimer, NeverEarly,
     AtOrBefore
<1> QED BY <1>6, <1>7, <1>8, <1>10 DEF IInv

\* The wait computed for a pending timer is a number of ticks up to the cap.
LEMMA WaitIsCapped ==
  ASSUME IInv, Pending
  PROVE  Timeout * Ms \in Nat /\ Timeout * Ms <= LongestWait
<1>1. Head(timerList) \in Timer
  BY HeadTailProperties DEF IInv, TypeOK, Pending
<1> DEFINE w == Head(timerList).when
<1>2. w \in Nat /\ w < Period /\ now \in Nat /\ now < Period
  BY <1>1, TimerAssumption DEF Timer, Time, IInv, TypeOK
<1>3. Ms \in Nat \ {0} /\ WaitInfinite \in Nat \ {0} /\ Period \in Nat \ {0}
  BY TimerAssumption
<1> HIDE DEF w
<1>4. /\ Wrapped(Wrapped(Period - 1 - now + w) + Ms - 1) \in Nat
      /\ now < w => Wrapped(w - now + Ms - 1) \in Nat
  BY <1>2, <1>3 DEF Wrapped
<1>5. TicksToWait \in Nat
  BY <1>4 DEF TicksToWait, w
<1> DEFINE ms == TicksToWait \div Ms
<1>6. ms \in Nat
  BY <1>3, <1>5
<1> HIDE DEF ms
<1>7. Timeout = IF ms >= WaitInfinite THEN WaitInfinite - 1 ELSE ms
  BY DEF Timeout, ms
<1>8. Timeout \in Nat /\ WaitInfinite - 1 \in Nat /\ Timeout <= WaitInfinite - 1
  BY <1>3, <1>6, <1>7
<1> QED BY <1>3, <1>8, Products DEF LongestWait

\* Deciding how long to wait changes no timer.
LEMMA SleepKeepsIInv ==
  ASSUME IInv, NEW messages \in BOOLEAN, Sleep(messages)
  PROVE  IInv'
<1>1. /\ pc = "task" /\ pc' = "sleep"
      /\ UNCHANGED <<epoch, now, busy, gap, lastNow, currentWrapCount, seen,
                     timerFreeList, timers, active, timerList, firing>>
      /\ left' = IF messages \/ ~ Pending THEN 0 ELSE Timeout * Ms
  BY DEF Sleep, clockVars, viewVars, poolVars
<1>2. left' \in Nat /\ left' <= LongestWait
  <2>1. CASE messages \/ ~ Pending
    BY <1>1, <2>1, Constants
  <2>2. CASE ~ (messages \/ ~ Pending)
    BY <1>1, <2>2, WaitIsCapped
  <2> QED BY <2>1, <2>2
<1>3. TypeOK'
  BY <1>1, <1>2 DEF IInv, TypeOK
<1>4. GapBounded'
  BY <1>1, <1>2, Constants DEF IInv, TypeOK, GapBounded, Pending
<1>5. /\ DeadlinesEncoded' /\ Ordered(timerList)' /\ LookedLately'
      /\ FiringIsATimer' /\ NeverEarly'
  BY <1>1 DEF IInv, DeadlinesEncoded, Ordered, After, LookedLately, Pending,
     FiringIsATimer, NeverEarly
<1> QED BY <1>3, <1>4, <1>5 DEF IInv

\* Steps that touch neither the timers nor what is known of the clock.
LEMMA QuietStepsKeepIInv ==
  IInv /\ (Wake \/ EventsHandled \/ NoTimerPending) => IInv'
<1> SUFFICES ASSUME IInv, Wake \/ EventsHandled \/ NoTimerPending PROVE IInv'
  OBVIOUS
<1>1. /\ UNCHANGED <<epoch, now, busy, gap, lastNow, currentWrapCount, seen,
                     timerFreeList, timers, active, timerList, firing>>
      /\ \/ pc = "sleep" /\ pc' = "event" /\ left' = 0
         \/ pc = "event" /\ pc' = "timers" /\ left' = left
         \/ ~ Pending /\ pc' = "task" /\ left' = left
  BY DEF Wake, EventsHandled, NoTimerPending, clockVars, viewVars, poolVars
<1>2. TypeOK'
  BY <1>1 DEF IInv, TypeOK
<1>3. GapBounded'
  BY <1>1, Constants DEF IInv, TypeOK, GapBounded, Pending
<1>4. /\ DeadlinesEncoded' /\ Ordered(timerList)' /\ LookedLately'
      /\ FiringIsATimer' /\ NeverEarly'
  BY <1>1 DEF IInv, DeadlinesEncoded, Ordered, After, LookedLately, Pending,
     FiringIsATimer, NeverEarly
<1> QED BY <1>2, <1>3, <1>4 DEF IInv

\* Looking at the clock counts the wrap there was, and there was one at most.
LEMMA FirstNotDueKeepsIInv == IInv /\ FirstNotDue => IInv'
<1> SUFFICES ASSUME IInv, FirstNotDue PROVE IInv'
  OBVIOUS
<1>1. /\ LookAtClock /\ pc' = "task"
      /\ UNCHANGED <<timerFreeList, timers, active, timerList, firing, left>>
  BY DEF FirstNotDue, poolVars
<1>2. /\ \A k \in 1 .. Len(timerList) :
            timerList[k].wrapCount + seen' = timerList[k].due + currentWrapCount'
      /\ epoch' = seen' /\ now' = lastNow' + gap' /\ gap' = 0 /\ busy' = 0
      /\ currentWrapCount' \in Nat /\ lastNow' \in Time /\ seen' \in Nat
      /\ epoch' \in Nat /\ now' \in Time
  BY <1>1, LookKeepsEncoding
<1>3. TypeOK'
  BY <1>1, <1>2 DEF IInv, TypeOK
<1>4. DeadlinesEncoded' /\ LookedLately'
  BY <1>1, <1>2 DEF DeadlinesEncoded, LookedLately
<1>5. GapBounded'
  BY <1>1, <1>2, Constants DEF GapBounded
<1>6. Ordered(timerList)' /\ FiringIsATimer' /\ NeverEarly'
  BY <1>1 DEF IInv, Ordered, After, FiringIsATimer, NeverEarly
<1> QED BY <1>3, <1>4, <1>5, <1>6 DEF IInv

\* A timer that is taken for due is due.
LEMMA FireKeepsIInv == IInv /\ Fire => IInv'
<1> SUFFICES ASSUME IInv, Fire PROVE IInv'
  OBVIOUS
<1> DEFINE t == Head(timerList)
<1>1. /\ LookAtClock /\ pc' = "fire" /\ Pending
      /\ ~ NotYet(t) /\ firing' = t /\ timerList' = Tail(timerList)
      /\ active' = [active EXCEPT ![t.id] = FALSE]
      /\ UNCHANGED <<timerFreeList, timers, left>>
  BY DEF Fire
<1>2. /\ \A k \in 1 .. Len(timerList) :
            timerList[k].wrapCount + seen' = timerList[k].due + currentWrapCount'
      /\ epoch' = seen' /\ now' = lastNow' + gap' /\ gap' = 0 /\ busy' = 0
      /\ currentWrapCount' \in Nat /\ lastNow' \in Time /\ seen' \in Nat
      /\ epoch' \in Nat /\ now' \in Time
  BY <1>1, LookKeepsEncoding
<1>3. /\ timerList \in Seq(Timer) /\ timerList # <<>> /\ t = timerList[1]
      /\ t \in Timer /\ 1 \in 1 .. Len(timerList)
      /\ timerList' \in Seq(Timer) /\ Len(timerList') = Len(timerList) - 1
      /\ \A i \in 1 .. Len(timerList') : timerList'[i] = timerList[i + 1]
      /\ Len(timerList) \in Nat
  BY <1>1, HeadTailProperties DEF IInv, TypeOK, Pending
<1> HIDE DEF t
<1>4. TypeOK'
  BY <1>1, <1>2, <1>3 DEF IInv, TypeOK
<1>5. \A i \in 1 .. Len(timerList') :
        i + 1 \in 1 .. Len(timerList) /\ timerList'[i] = timerList[i + 1]
  BY <1>3
<1>6. DeadlinesEncoded' /\ LookedLately'
  BY <1>2, <1>5 DEF DeadlinesEncoded, LookedLately
<1>7. GapBounded'
  BY <1>1, <1>2, Constants DEF GapBounded
<1>8. Ordered(timerList)'
  <2> SUFFICES ASSUME NEW i \in 1 .. Len(timerList'), NEW j \in 1 .. Len(timerList'),
                      i < j
               PROVE  ~ After(timerList'[i], timerList'[j])
    BY DEF Ordered, After
  <2>1. i + 1 < j + 1
    BY <1>3
  <2> QED BY <1>5, <2>1 DEF IInv, Ordered
<1>9. FiringIsATimer'
  BY <1>1, <1>3 DEF FiringIsATimer
<1>10. NeverEarly'
  <2> DEFINE wc == t.wrapCount  wn == t.when  d == t.due
  <2>1. /\ wc \in Nat /\ wn \in Nat /\ d \in Nat
        /\ epoch \in Nat /\ now \in Nat /\ WrapCount \in Nat
    BY <1>3, WrapCountExact, TimerAssumption DEF Timer, Time, IInv, TypeOK
  <2>2. wc + epoch = d + WrapCount
    BY <1>1, <1>2, <1>3 DEF LookAtClock
  <2>3. ~ (wc > WrapCount) /\ ~ (wc = WrapCount /\ wn > now)
    BY <1>1 DEF NotYet
  <2>4. firing'.due = d /\ firing'.when = wn /\ epoch' = epoch /\ now' = now
    BY <1>1 DEF LookAtClock
  <2> HIDE DEF wc, wn, d
  <2>5. d < epoch \/ (d = epoch /\ wn <= now)
    BY <2>1, <2>2, <2>3
  <2> QED BY <2>4, <2>5 DEF NeverEarly, AtOrBefore
<1> QED BY <1>4, <1>6, <1>7, <1>8, <1>9, <1>10 DEF IInv

\* The function of a timer has returned and its container is freed.
LEMMA FiredKeepsIInv == IInv /\ Fired => IInv'
<1> SUFFICES ASSUME IInv, Fired PROVE IInv'
  OBVIOUS
<1>1. /\ UNCHANGED <<epoch, now, busy, gap, lastNow, currentWrapCount, seen,
                     timers, active, timerList, left>>
      /\ pc = "fire" /\ pc' = "timers" /\ firing' = NoTimer
      /\ timerFreeList' = <<firing.id>> \o timerFreeList
  BY DEF Fired, clockVars, viewVars, Free
<1>2. firing.id \in Tid
  BY <1>1 DEF IInv, FiringIsATimer, Timer
<1>3. timerFreeList' \in Seq(Tid)
  BY <1>1, <1>2, ConcatProperties DEF IInv, TypeOK
<1>4. TypeOK'
  BY <1>1, <1>3 DEF IInv, TypeOK
<1>5. GapBounded'
  BY <1>1, Constants DEF IInv, TypeOK, GapBounded, Pending
<1>6. /\ DeadlinesEncoded' /\ Ordered(timerList)' /\ LookedLately'
      /\ FiringIsATimer' /\ NeverEarly'
  BY <1>1 DEF IInv, DeadlinesEncoded, Ordered, After, LookedLately, Pending,
     FiringIsATimer, NeverEarly
<1> QED BY <1>4, <1>5, <1>6 DEF IInv

\* A stuttering step keeps the invariant.
LEMMA StutterKeepsIInv == IInv /\ UNCHANGED vars => IInv'
BY DEF IInv, TypeOK, DeadlinesEncoded, Ordered, After, LookedLately, Pending,
   GapBounded, FiringIsATimer, NeverEarly, vars, clockVars, viewVars, poolVars

\* The invariant is inductive.
LEMMA InvariantHolds == Spec => []IInv
<1>1. IInv /\ [Next]_vars => IInv'
  <2> SUFFICES ASSUME IInv, [Next]_vars PROVE IInv'
    OBVIOUS
  <2>1. CASE Tick
    BY <2>1, TickKeepsIInv
  <2>2. ASSUME NEW d \in Delays, CsrSchedTimerSet(d) PROVE IInv'
    BY <2>2, SetKeepsIInv
  <2>3. ASSUME NEW id \in Tid, CsrSchedTimerCancel(id) PROVE IInv'
    BY <2>3, CancelKeepsIInv
  <2>4. ASSUME NEW messages \in BOOLEAN, Sleep(messages) PROVE IInv'
    BY <2>4, SleepKeepsIInv
  <2>5. CASE Wake \/ EventsHandled \/ NoTimerPending
    BY <2>5, QuietStepsKeepIInv
  <2>6. CASE FirstNotDue
    BY <2>6, FirstNotDueKeepsIInv
  <2>7. CASE Fire
    BY <2>7, FireKeepsIInv
  <2>8. CASE Fired
    BY <2>8, FiredKeepsIInv
  <2>9. CASE UNCHANGED vars
    BY <2>9, StutterKeepsIInv
  <2> QED BY <2>1, <2>2, <2>3, <2>4, <2>5, <2>6, <2>7, <2>8, <2>9 DEF Next
<1> QED BY <1>1, InitIInv, PTL DEF Spec

-----------------------------------------------------------------------------
(* The theorems.                                                           *)

\* The variables keep their types (csr_sched.c); in particular the wait handed
\* to CsrEventWait is never negative and the pool keeps to its limit.
THEOREM TimersTyped == Spec => []TypeOK
<1>1. IInv => TypeOK
  BY DEF IInv
<1> QED BY <1>1, InvariantHolds, PTL

\* adjust_wrap_count never loses count of a wrap that matters to a pending
\* timer, for any period of the clock, any delays and any number of timers.
THEOREM DeadlinesStayEncoded == Spec => []DeadlinesEncoded
<1>1. IInv => DeadlinesEncoded
  BY DEF IInv
<1> QED BY <1>1, InvariantHolds, PTL

\* No timer's function runs before its delay has elapsed.
THEOREM TimersNeverEarly == Spec => []NeverEarly
<1>1. IInv => NeverEarly
  BY DEF IInv
<1> QED BY <1>1, InvariantHolds, PTL

\* The head of the list has the earliest deadline of all pending timers on the
\* real clock, so the loop over due timers stops at the right one.
THEOREM HeadIsEarliest == Spec => []FirstIsEarliest
<1>1. IInv => FirstIsEarliest
  <2> SUFFICES ASSUME IInv, NEW k \in 1 .. Len(timerList)
               PROVE  AtOrBefore(timerList[1].due, timerList[1].when,
                                 timerList[k].due, timerList[k].when)
    BY DEF FirstIsEarliest
  <2> DEFINE w1 == timerList[1].wrapCount  t1 == timerList[1].when
             d1 == timerList[1].due
             wk == timerList[k].wrapCount  tk == timerList[k].when
             dk == timerList[k].due
  <2>1. 1 \in 1 .. Len(timerList) /\ timerList[1] \in Timer /\ timerList[k] \in Timer
    BY DEF IInv, TypeOK
  <2>2. /\ w1 \in Nat /\ t1 \in Nat /\ d1 \in Nat
        /\ wk \in Nat /\ tk \in Nat /\ dk \in Nat
        /\ seen \in Nat /\ currentWrapCount \in Nat
    <3>1. seen \in Nat /\ currentWrapCount \in Nat
      BY DEF IInv, TypeOK
    <3> QED BY <2>1, <3>1, TimerFields
  <2>3. w1 + seen = d1 + currentWrapCount /\ wk + seen = dk + currentWrapCount
    BY <2>1 DEF IInv, DeadlinesEncoded
  <2>4. k = 1 \/ ~ After(timerList[1], timerList[k])
    BY <2>1 DEF IInv, Ordered
  <2>5. k = 1 => d1 = dk /\ t1 = tk
    OBVIOUS
  <2>6. (d1 = dk /\ t1 = tk) \/ ~ ((t1 > tk /\ w1 = wk) \/ w1 > wk)
    BY <2>4, <2>5 DEF After
  <2> HIDE DEF w1, t1, d1, wk, tk, dk
  <2>7. d1 < dk \/ (d1 = dk /\ t1 <= tk)
    BY <2>2, <2>3, <2>6
  <2> QED BY <2>7 DEF AtOrBefore, w1, t1, d1, wk, tk, dk
<1> QED BY <1>1, InvariantHolds, PTL

-----------------------------------------------------------------------------
(* The containers.                                                         *)

Ids(list) == {list[k].id : k \in 1 .. Len(list)}
Elements(s) == {s[k] : k \in 1 .. Len(s)}
DistinctIds(list) ==
  \A i, j \in 1 .. Len(list) : list[i].id = list[j].id => i = j
Distinct(s) == \A i, j \in 1 .. Len(s) : s[i] = s[j] => i = j

\* The containers on a list after a timer is inserted.
LEMMA IdsAfterInsert ==
  ASSUME NEW list \in Seq(Timer), NEW t \in Timer, NEW k \in 1 .. Len(list) + 1,
         DistinctIds(list), t.id \notin Ids(list)
  PROVE  /\ Ids(InsertAt(list, k, t)) = Ids(list) \cup {t.id}
         /\ DistinctIds(InsertAt(list, k, t))
<1> DEFINE new == InsertAt(list, k, t)
<1>1. /\ Len(new) = Len(list) + 1
      /\ \A i \in 1 .. Len(list) + 1 :
           new[i] = IF i < k THEN list[i] ELSE IF i = k THEN t ELSE list[i - 1]
  BY InsertAtTyped
<1> HIDE DEF new
<1>2. k \in Nat /\ Len(list) \in Nat /\ k >= 1 /\ k <= Len(list) + 1
  OBVIOUS
<1>3. \A i \in 1 .. Len(new) :
        \/ i < k /\ i \in 1 .. Len(list) /\ new[i] = list[i]
        \/ i = k /\ new[i] = t
        \/ i > k /\ i - 1 \in 1 .. Len(list) /\ new[i] = list[i - 1]
  <2> TAKE i \in 1 .. Len(new)
  <2>1. i \in Nat /\ i >= 1 /\ i <= Len(list) + 1 /\ i \in 1 .. Len(list) + 1
    BY <1>1, <1>2
  <2>2. CASE i < k
    BY <1>1, <1>2, <2>1, <2>2
  <2>3. CASE i = k
    BY <1>1, <2>1, <2>3
  <2>4. CASE i > k
    <3>1. i - 1 \in 1 .. Len(list)
      BY <1>2, <2>1, <2>4
    <3> QED BY <1>1, <1>2, <2>1, <2>4, <3>1
  <2> QED BY <1>2, <2>1, <2>2, <2>3, <2>4
<1>4. \A i \in 1 .. Len(list) :
        \/ i < k /\ i \in 1 .. Len(new) /\ new[i] = list[i]
        \/ i >= k /\ i + 1 \in 1 .. Len(new) /\ new[i + 1] = list[i]
  BY <1>1, <1>2
<1>5. k \in 1 .. Len(new) /\ new[k] = t
  BY <1>1, <1>2
<1>6. Ids(new) \subseteq Ids(list) \cup {t.id}
  BY <1>3 DEF Ids
<1>7. Ids(list) \subseteq Ids(new)
  BY <1>4 DEF Ids
<1>8. t.id \in Ids(new)
  BY <1>5 DEF Ids
<1>9. ASSUME NEW i \in 1 .. Len(new), NEW j \in 1 .. Len(new),
             new[i].id = new[j].id
      PROVE  i = j
  <2>0. i \in Nat /\ j \in Nat
    BY <1>1
  <2>1. \A m \in 1 .. Len(list) : list[m].id # t.id
    BY DEF Ids
  <2>2. CASE i = k \/ j = k
    BY <1>3, <1>5, <1>9, <2>1, <2>2
  <2>3. CASE i < k /\ j < k
    BY <1>3, <1>9, <2>3, <2>0, <1>2 DEF DistinctIds
  <2>4. CASE i > k /\ j > k
    <3>1. i - 1 \in 1 .. Len(list) /\ new[i] = list[i - 1]
      BY <1>3, <2>4, <2>0, <1>2
    <3>2. j - 1 \in 1 .. Len(list) /\ new[j] = list[j - 1]
      BY <1>3, <2>4, <2>0, <1>2
    <3>3. i - 1 = j - 1
      BY <1>9, <3>1, <3>2 DEF DistinctIds
    <3> QED BY <2>0, <3>3
  <2>5. CASE i < k /\ j > k
    <3>1. i \in 1 .. Len(list) /\ new[i] = list[i]
      BY <1>3, <2>5, <2>0, <1>2
    <3>2. j - 1 \in 1 .. Len(list) /\ new[j] = list[j - 1]
      BY <1>3, <2>5, <2>0, <1>2
    <3>3. i = j - 1
      BY <1>9, <3>1, <3>2 DEF DistinctIds
    <3> QED BY <2>0, <1>2, <2>5, <3>3
  <2>6. CASE i > k /\ j < k
    <3>1. i - 1 \in 1 .. Len(list) /\ new[i] = list[i - 1]
      BY <1>3, <2>6, <2>0, <1>2
    <3>2. j \in 1 .. Len(list) /\ new[j] = list[j]
      BY <1>3, <2>6, <2>0, <1>2
    <3>3. i - 1 = j
      BY <1>9, <3>1, <3>2 DEF DistinctIds
    <3> QED BY <2>0, <1>2, <2>6, <3>3
  <2> QED BY <2>0, <1>2, <2>2, <2>3, <2>4, <2>5, <2>6
<1> QED BY <1>6, <1>7, <1>8, <1>9 DEF DistinctIds, new

\* The containers on a list after a timer is removed.
LEMMA IdsAfterRemove ==
  ASSUME NEW list \in Seq(Timer), NEW k \in 1 .. Len(list), DistinctIds(list)
  PROVE  /\ Ids(RemoveAt(list, k)) = Ids(list) \ {list[k].id}
         /\ DistinctIds(RemoveAt(list, k))
<1> DEFINE new == RemoveAt(list, k)
<1>1. /\ Len(new) = Len(list) - 1
      /\ \A i \in 1 .. Len(list) - 1 :
           new[i] = IF i < k THEN list[i] ELSE list[i + 1]
  BY RemoveAtTyped
<1> HIDE DEF new
<1>2. k \in Nat /\ Len(list) \in Nat /\ k >= 1 /\ k <= Len(list)
  OBVIOUS
<1>3. \A i \in 1 .. Len(new) :
        \/ i < k /\ i \in 1 .. Len(list) /\ new[i] = list[i]
        \/ i >= k /\ i + 1 \in 1 .. Len(list) /\ new[i] = list[i + 1]
  BY <1>1, <1>2
<1>4. \A i \in 1 .. Len(list) :
        \/ i < k /\ i \in 1 .. Len(new) /\ new[i] = list[i]
        \/ i = k
        \/ i > k /\ i - 1 \in 1 .. Len(new) /\ new[i - 1] = list[i]
  <2> TAKE i \in 1 .. Len(list)
  <2>1. CASE i > k
    <3>1. i - 1 \in 1 .. Len(new) /\ ~ (i - 1 < k) /\ (i - 1) + 1 = i
      BY <1>1, <1>2, <2>1
    <3> QED BY <1>1, <2>1, <3>1
  <2>2. CASE i < k
    BY <1>1, <1>2, <2>2
  <2> QED BY <1>2, <2>1, <2>2
<1>5. Ids(new) \subseteq Ids(list) \ {list[k].id}
  <2> SUFFICES ASSUME NEW i \in 1 .. Len(new)
               PROVE  new[i].id \in Ids(list) /\ new[i].id # list[k].id
    BY DEF Ids
  <2>0. i \in Nat
    BY <1>1
  <2>1. CASE i < k
    BY <1>2, <1>3, <2>0, <2>1 DEF Ids, DistinctIds
  <2>2. CASE i >= k
    <3>1. i + 1 \in 1 .. Len(list) /\ new[i] = list[i + 1] /\ i + 1 # k
      BY <1>2, <1>3, <2>0, <2>2
    <3> QED BY <3>1 DEF Ids, DistinctIds
  <2> QED BY <1>2, <2>0, <2>1, <2>2
<1>6. Ids(list) \ {list[k].id} \subseteq Ids(new)
  BY <1>4 DEF Ids
<1>7. ASSUME NEW i \in 1 .. Len(new), NEW j \in 1 .. Len(new),
             new[i].id = new[j].id
      PROVE  i = j
  <2>0. i \in Nat /\ j \in Nat
    BY <1>1
  <2> DEFINE p == IF i < k THEN i ELSE i + 1
             q == IF j < k THEN j ELSE j + 1
  <2>1. p \in 1 .. Len(list) /\ new[i] = list[p]
    BY <1>2, <1>3, <2>0
  <2>2. q \in 1 .. Len(list) /\ new[j] = list[q]
    BY <1>2, <1>3, <2>0
  <2>3. p = q
    <3> HIDE DEF p, q
    <3> QED BY <1>7, <2>1, <2>2 DEF DistinctIds
  <2> QED BY <1>2, <2>0, <2>3
<1> QED BY <1>5, <1>6, <1>7 DEF DistinctIds, new

\* The free list after a container is pushed on it.
LEMMA ElementsAfterPush ==
  ASSUME NEW s \in Seq(Tid), NEW e \in Tid, Distinct(s), e \notin Elements(s)
  PROVE  /\ <<e>> \o s \in Seq(Tid) /\ Len(<<e>> \o s) = Len(s) + 1
         /\ Elements(<<e>> \o s) = Elements(s) \cup {e}
         /\ Distinct(<<e>> \o s)
<1> DEFINE new == <<e>> \o s
<1>1. /\ new \in Seq(Tid) /\ Len(new) = Len(s) + 1 /\ Len(s) \in Nat
      /\ \A i \in 1 .. Len(s) + 1 : new[i] = IF i <= 1 THEN <<e>>[i] ELSE s[i - 1]
  BY ConcatProperties
<1>2. <<e>>[1] = e
  OBVIOUS
<1> HIDE DEF new
<1>3. \A i \in 1 .. Len(new) :
        \/ i = 1 /\ new[i] = e
        \/ i > 1 /\ i - 1 \in 1 .. Len(s) /\ new[i] = s[i - 1]
  BY <1>1, <1>2
<1>4. \A i \in 1 .. Len(s) : i + 1 \in 1 .. Len(new) /\ new[i + 1] = s[i]
  BY <1>1
<1>5. 1 \in 1 .. Len(new) /\ new[1] = e
  BY <1>1, <1>2
<1>6. Elements(new) \subseteq Elements(s) \cup {e}
  BY <1>3 DEF Elements
<1>7. Elements(s) \subseteq Elements(new) /\ e \in Elements(new)
  BY <1>4, <1>5 DEF Elements
<1>8. ASSUME NEW i \in 1 .. Len(new), NEW j \in 1 .. Len(new), new[i] = new[j]
      PROVE  i = j
  <2>0. i \in Nat /\ j \in Nat
    BY <1>1
  <2>1. \A m \in 1 .. Len(s) : s[m] # e
    BY DEF Elements
  <2>2. CASE i = 1 \/ j = 1
    BY <1>3, <1>5, <1>8, <2>1, <2>2
  <2>3. CASE i > 1 /\ j > 1
    <3>1. i - 1 \in 1 .. Len(s) /\ new[i] = s[i - 1]
      BY <1>3, <2>3, <2>0
    <3>2. j - 1 \in 1 .. Len(s) /\ new[j] = s[j - 1]
      BY <1>3, <2>3, <2>0
    <3>3. i - 1 = j - 1
      BY <1>8, <3>1, <3>2 DEF Distinct
    <3> QED BY <2>0, <3>3
  <2> QED BY <1>3, <2>2, <2>3
<1> QED BY <1>1, <1>6, <1>7, <1>8 DEF Distinct, new

\* The free list after a container is popped off it.
LEMMA ElementsAfterPop ==
  ASSUME NEW s \in Seq(Tid), s # <<>>, Distinct(s)
  PROVE  /\ Head(s) \in Tid /\ Tail(s) \in Seq(Tid) /\ Len(Tail(s)) = Len(s) - 1
         /\ Head(s) \in Elements(s)
         /\ Elements(Tail(s)) = Elements(s) \ {Head(s)}
         /\ Distinct(Tail(s))
<1> DEFINE new == Tail(s)
<1>1. /\ Head(s) \in Tid /\ Head(s) = s[1] /\ new \in Seq(Tid)
      /\ Len(new) = Len(s) - 1 /\ Len(s) \in Nat /\ Len(s) >= 1
      /\ \A i \in 1 .. Len(new) : new[i] = s[i + 1]
  BY HeadTailProperties
<1> HIDE DEF new
<1>2. \A i \in 1 .. Len(new) :
        i + 1 \in 1 .. Len(s) /\ new[i] = s[i + 1] /\ i + 1 # 1 /\ i \in Nat
  BY <1>1
<1>3. \A i \in 1 .. Len(s) :
        i = 1 \/ (i - 1 \in 1 .. Len(new) /\ new[i - 1] = s[i])
  <2> TAKE i \in 1 .. Len(s)
  <2>1. CASE i # 1
    <3>1. i - 1 \in 1 .. Len(new) /\ (i - 1) + 1 = i
      BY <1>1, <2>1
    <3> QED BY <1>1, <3>1
  <2> QED BY <2>1
<1>4. 1 \in 1 .. Len(s)
  BY <1>1
<1>5. Elements(new) \subseteq Elements(s) \ {Head(s)}
  BY <1>1, <1>2, <1>4 DEF Elements, Distinct
<1>6. Elements(s) \ {Head(s)} \subseteq Elements(new)
  BY <1>1, <1>3 DEF Elements
<1>7. Distinct(new)
  <2> SUFFICES ASSUME NEW i \in 1 .. Len(new), NEW j \in 1 .. Len(new),
                      new[i] = new[j]
               PROVE  i = j
    BY DEF Distinct
  <2>1. i + 1 = j + 1
    BY <1>2 DEF Distinct
  <2> QED BY <1>2, <2>1
<1> QED BY <1>1, <1>4, <1>5, <1>6, <1>7 DEF Elements, new

\* The containers on a list after the first timer is taken.
LEMMA IdsAfterHead ==
  ASSUME NEW list \in Seq(Timer), list # <<>>, DistinctIds(list)
  PROVE  /\ Ids(Tail(list)) = Ids(list) \ {Head(list).id}
         /\ Head(list).id \in Ids(list) /\ Head(list) \in Timer
         /\ DistinctIds(Tail(list)) /\ Len(Tail(list)) = Len(list) - 1
<1> DEFINE new == Tail(list)
<1>1. /\ Head(list) \in Timer /\ Head(list) = list[1]
      /\ Len(new) = Len(list) - 1 /\ Len(list) \in Nat /\ Len(list) >= 1
      /\ \A i \in 1 .. Len(new) : new[i] = list[i + 1]
  BY HeadTailProperties
<1> HIDE DEF new
<1>2. \A i \in 1 .. Len(new) :
        i + 1 \in 1 .. Len(list) /\ new[i] = list[i + 1] /\ i + 1 # 1 /\ i \in Nat
  BY <1>1
<1>3. \A i \in 1 .. Len(list) :
        i = 1 \/ (i - 1 \in 1 .. Len(new) /\ new[i - 1] = list[i])
  <2> TAKE i \in 1 .. Len(list)
  <2>1. CASE i # 1
    <3>1. i - 1 \in 1 .. Len(new) /\ (i - 1) + 1 = i
      BY <1>1, <2>1
    <3> QED BY <1>1, <3>1
  <2> QED BY <2>1
<1>4. 1 \in 1 .. Len(list)
  BY <1>1
<1>5. Ids(new) \subseteq Ids(list) \ {Head(list).id}
  <2> SUFFICES ASSUME NEW i \in 1 .. Len(new)
               PROVE  new[i].id \in Ids(list) /\ new[i].id # list[1].id
    BY <1>1 DEF Ids
  <2>1. i + 1 \in 1 .. Len(list) /\ new[i] = list[i + 1] /\ i + 1 # 1
    BY <1>2
  <2> QED BY <1>4, <2>1 DEF Ids, DistinctIds
<1>6. Ids(list) \ {Head(list).id} \subseteq Ids(new)
  BY <1>1, <1>3 DEF Ids
<1>7. DistinctIds(new)
  <2> SUFFICES ASSUME NEW i \in 1 .. Len(new), NEW j \in 1 .. Len(new),
                      new[i].id = new[j].id
               PROVE  i = j
    BY DEF DistinctIds
  <2>1. i + 1 = j + 1
    BY <1>2 DEF DistinctIds
  <2> QED BY <1>2, <2>1
<1> QED BY <1>1, <1>4, <1>5, <1>6, <1>7 DEF Ids, new

\* Every allocated container is in exactly one place.
Places ==
  /\ ListedIds \cup FreeIds \cup FiringIds = 1 .. timers
  /\ ListedIds \cap FreeIds = {}
  /\ FiringIds \cap (ListedIds \cup FreeIds) = {}
  /\ ListedIds = {i \in Tid : active[i]}
  /\ DistinctIds(timerList)
  /\ Distinct(timerFreeList)

Counted ==
  Len(timerList) + Len(timerFreeList) + (IF pc = "fire" THEN 1 ELSE 0) = timers

PInv == IInv /\ Places /\ Counted

\* At first every container is free.
LEMMA InitPInv == Init => PInv
<1> SUFFICES ASSUME Init PROVE PInv
  OBVIOUS
<1>1. IInv
  BY InitIInv
<1>2. /\ Len(timerList) = 0 /\ Len(timerFreeList) = 0 /\ timers = 0
      /\ pc = "task" /\ active = [i \in Tid |-> FALSE]
  BY DEF Init
<1>3. ListedIds = {} /\ FreeIds = {} /\ FiringIds = {} /\ 1 .. timers = {}
  BY <1>2 DEF ListedIds, FreeIds, FiringIds
<1>4. DistinctIds(timerList) /\ Distinct(timerFreeList)
  BY <1>2 DEF DistinctIds, Distinct
<1> QED BY <1>1, <1>2, <1>3, <1>4 DEF PInv, Places, Counted

\* Setting a timer moves a container from the free list to the list of timers.
LEMMA SetKeepsPlaces ==
  ASSUME PInv, NEW delay \in Delays, CsrSchedTimerSet(delay)
  PROVE  Places' /\ Counted'
<1>1. PICK id \in Tid, k \in 1 .. Len(timerList) + 1 :
        /\ Alloc(id)
        /\ timerList' = InsertAt(timerList, k, NewTimer(id, delay))
        /\ active' = [active EXCEPT ![id] = TRUE]
  BY DEF CsrSchedTimerSet
<1> DEFINE t == NewTimer(id, delay)
<1>2. /\ UNCHANGED <<pc, firing>>
      /\ timerList \in Seq(Timer) /\ Len(timerList) \in Nat
      /\ timerFreeList \in Seq(Tid) /\ Len(timerFreeList) \in Nat
      /\ timers \in Nat /\ timers <= Limit /\ active \in [Tid -> BOOLEAN]
      /\ Places /\ Counted
  BY TimerAssumption DEF CsrSchedTimerSet, PInv, IInv, TypeOK
<1>3. t.id = id
  BY DEF NewTimer
<1>4. t \in Timer
  <2>1. /\ epoch \in Nat /\ now \in Nat /\ now < Period
        /\ delay \in Nat /\ delay < Period /\ Period \in Nat /\ WrapCount \in Nat
    BY TimerAssumption, WrapCountExact DEF PInv, IInv, TypeOK, Time
  <2>2. CASE CrossesWrap(delay)
    <3>1. now + delay - Period \in Time /\ WrapCount + 1 \in Nat /\ epoch + 1 \in Nat
      BY <2>1, <2>2 DEF CrossesWrap, Time
    <3> QED BY <2>2, <3>1 DEF NewTimer, Timer
  <2>3. CASE ~ CrossesWrap(delay)
    <3>1. now + delay \in Time /\ WrapCount + 0 \in Nat /\ epoch + 0 \in Nat
      BY <2>1, <2>3 DEF CrossesWrap, Time
    <3> QED BY <2>3, <3>1 DEF NewTimer, Timer
  <2> QED BY <2>2, <2>3
<1>5. timerList' = InsertAt(timerList, k, t)
  BY <1>1
<1> HIDE DEF t
<1>6. /\ Ids(timerList) = ListedIds /\ Ids(timerList') = ListedIds'
      /\ Elements(timerFreeList) = FreeIds /\ Elements(timerFreeList') = FreeIds'
      /\ FiringIds' = FiringIds
  BY <1>2 DEF Ids, Elements, ListedIds, FreeIds, FiringIds
<1>7. /\ id \notin ListedIds /\ id \notin FiringIds /\ id \notin FreeIds'
      /\ FreeIds' \cup {id} \cup ListedIds \cup FiringIds = 1 .. timers'
      /\ FreeIds' \subseteq FreeIds
      /\ Distinct(timerFreeList')
      /\ Len(timerFreeList') - timers' = Len(timerFreeList) - timers - 1
      /\ timers' \in Nat /\ Len(timerFreeList') \in Nat
  <2>1. CASE timerFreeList # <<>>
    <3>1. id = Head(timerFreeList) /\ timerFreeList' = Tail(timerFreeList)
          /\ timers' = timers
      BY <1>1, <2>1 DEF Alloc
    <3>2. /\ Len(timerFreeList') = Len(timerFreeList) - 1
          /\ timerFreeList' \in Seq(Tid)
          /\ id \in FreeIds /\ FreeIds' = FreeIds \ {id} /\ Distinct(timerFreeList')
      BY <1>2, <1>6, <2>1, <3>1, ElementsAfterPop DEF Places
    <3>3. Len(timerFreeList') \in Nat
      BY <3>2
    <3>4. FreeIds' \cup {id} = FreeIds
      BY <3>2
    <3> QED BY <1>2, <3>1, <3>2, <3>3, <3>4 DEF Places
  <2>2. CASE timerFreeList = <<>>
    <3>1. id = timers + 1 /\ timers' = timers + 1 /\ timerFreeList' = timerFreeList
      BY <1>1, <2>2 DEF Alloc
    <3>2. 1 .. timers' = (1 .. timers) \cup {id} /\ id \notin 1 .. timers
      BY <1>2, <3>1
    <3>3. FreeIds' = FreeIds
      BY <1>6, <3>1
    <3> QED BY <1>2, <3>1, <3>2, <3>3 DEF Places
  <2> QED BY <2>1, <2>2
<1>8. /\ ListedIds' = ListedIds \cup {id} /\ DistinctIds(timerList')
      /\ Len(timerList') = Len(timerList) + 1
  <2>1. DistinctIds(timerList) /\ t.id \notin Ids(timerList)
    BY <1>2, <1>3, <1>6, <1>7 DEF Places
  <2> QED BY <1>2, <1>3, <1>4, <1>5, <1>6, <2>1, IdsAfterInsert, InsertAtTyped
<1>9. ListedIds' = {i \in Tid : active'[i]}
  BY <1>1, <1>2, <1>8 DEF Places
<1>10. Counted'
  <2> DEFINE f == IF pc = "fire" THEN 1 ELSE 0
  <2>1. f \in Nat /\ f' = f
    BY <1>2
  <2>2. Len(timerList) + Len(timerFreeList) + f = timers
    BY <1>2 DEF Counted
  <2> HIDE DEF f
  <2> DEFINE l == Len(timerList)  m == Len(timerFreeList)
             m2 == Len(timerFreeList')  n2 == timers'
  <2>4. /\ l \in Nat /\ m \in Nat /\ m2 \in Nat /\ n2 \in Nat /\ timers \in Nat
        /\ Len(timerList') = l + 1 /\ m2 - n2 = m - timers - 1
        /\ l + m + f = timers
    BY <1>2, <1>7, <1>8, <2>2
  <2> HIDE DEF l, m, m2, n2
  <2>5. l + 1 + m2 + f = n2
    BY <2>1, <2>4
  <2>3. Len(timerList') + Len(timerFreeList') + f = timers'
    BY <2>4, <2>5 DEF m2, n2
  <2> QED BY <2>1, <2>3 DEF Counted, f
<1>11. /\ ListedIds' \cup FreeIds' \cup FiringIds' = 1 .. timers'
       /\ ListedIds' \cap FreeIds' = {}
       /\ FiringIds' \cap (ListedIds' \cup FreeIds') = {}
  BY <1>2, <1>6, <1>7, <1>8 DEF Places
<1>12. DistinctIds(timerList)' /\ Distinct(timerFreeList)'
  BY <1>7, <1>8 DEF DistinctIds, Distinct
<1> QED BY <1>9, <1>10, <1>11, <1>12 DEF Places

\* Cancelling moves a container back.
LEMMA CancelKeepsPlaces ==
  ASSUME PInv, NEW id \in Tid, CsrSchedTimerCancel(id)
  PROVE  Places' /\ Counted'
<1>1. PICK k \in 1 .. Len(timerList) :
        timerList[k].id = id /\ timerList' = RemoveAt(timerList, k)
  BY DEF CsrSchedTimerCancel
<1>2. /\ UNCHANGED <<pc, firing, timers>>
      /\ active' = [active EXCEPT ![id] = FALSE]
      /\ timerFreeList' = <<id>> \o timerFreeList
      /\ timerList \in Seq(Timer) /\ Len(timerList) \in Nat
      /\ timerFreeList \in Seq(Tid) /\ Len(timerFreeList) \in Nat
      /\ timers \in Nat /\ active \in [Tid -> BOOLEAN]
      /\ Places /\ Counted
  BY TimerAssumption DEF CsrSchedTimerCancel, Free, PInv, IInv, TypeOK
<1>3. /\ Ids(timerList) = ListedIds /\ Ids(timerList') = ListedIds'
      /\ Elements(timerFreeList) = FreeIds /\ Elements(timerFreeList') = FreeIds'
      /\ FiringIds' = FiringIds
  BY <1>2 DEF Ids, Elements, ListedIds, FreeIds, FiringIds
<1>4. id \in ListedIds
  BY <1>1 DEF ListedIds
<1>5. /\ ListedIds' = ListedIds \ {id} /\ DistinctIds(timerList')
      /\ Len(timerList') = Len(timerList) - 1
  BY <1>1, <1>2, <1>3, IdsAfterRemove, RemoveAtTyped DEF Places
<1>6. id \notin FreeIds /\ id \notin FiringIds
  BY <1>2, <1>4 DEF Places
<1>7. /\ FreeIds' = FreeIds \cup {id} /\ Distinct(timerFreeList')
      /\ Len(timerFreeList') = Len(timerFreeList) + 1
  BY <1>2, <1>3, <1>6, ElementsAfterPush DEF Places
<1>8. ListedIds' = {i \in Tid : active'[i]}
  BY <1>2, <1>5 DEF Places
<1>9. Counted'
  <2> DEFINE f == IF pc = "fire" THEN 1 ELSE 0
  <2>1. f \in Nat /\ f' = f
    BY <1>2
  <2>2. Len(timerList) + Len(timerFreeList) + f = timers
    BY <1>2 DEF Counted
  <2> HIDE DEF f
  <2> DEFINE l == Len(timerList)  m == Len(timerFreeList)
  <2>4. /\ l \in Nat /\ m \in Nat /\ timers \in Nat /\ l + m + f = timers
        /\ Len(timerList') = l - 1 /\ Len(timerFreeList') = m + 1
        /\ timers' = timers
    BY <1>2, <1>5, <1>7, <2>2
  <2> HIDE DEF l, m
  <2>5. (l - 1) + (m + 1) + f = timers
    BY <2>1, <2>4
  <2>3. Len(timerList') + Len(timerFreeList') + f = timers'
    BY <2>4, <2>5
  <2> QED BY <2>1, <2>3 DEF Counted, f
<1>10. /\ ListedIds' \cup FreeIds' \cup FiringIds' = 1 .. timers'
       /\ ListedIds' \cap FreeIds' = {}
       /\ FiringIds' \cap (ListedIds' \cup FreeIds') = {}
  BY <1>2, <1>3, <1>4, <1>5, <1>6, <1>7 DEF Places
<1>11. DistinctIds(timerList)' /\ Distinct(timerFreeList)'
  BY <1>5, <1>7 DEF DistinctIds, Distinct
<1> QED BY <1>8, <1>9, <1>10, <1>11 DEF Places

\* Firing takes the container off the list, and it belongs to the function.
LEMMA FireKeepsPlaces ==
  ASSUME PInv, Fire
  PROVE  Places' /\ Counted'
<1> DEFINE t == Head(timerList)
<1>1. /\ pc = "timers" /\ pc' = "fire" /\ firing' = t /\ timerList' = Tail(timerList)
      /\ active' = [active EXCEPT ![t.id] = FALSE] /\ timerList # <<>>
      /\ UNCHANGED <<timerFreeList, timers>>
      /\ timerList \in Seq(Timer) /\ Len(timerList) \in Nat
      /\ timerFreeList \in Seq(Tid) /\ Len(timerFreeList) \in Nat
      /\ timers \in Nat /\ active \in [Tid -> BOOLEAN]
      /\ Places /\ Counted
  BY TimerAssumption DEF Fire, Pending, PInv, IInv, TypeOK
<1>2. /\ Ids(timerList) = ListedIds /\ Ids(timerList') = ListedIds'
      /\ FreeIds' = FreeIds /\ FiringIds = {} /\ FiringIds' = {t.id}
  BY <1>1 DEF Ids, ListedIds, FreeIds, FiringIds
<1>3. /\ ListedIds' = ListedIds \ {t.id} /\ t.id \in ListedIds
      /\ DistinctIds(timerList') /\ Len(timerList') = Len(timerList) - 1
  BY <1>1, <1>2, IdsAfterHead DEF Places
<1> HIDE DEF t
<1>4. ListedIds' = {i \in Tid : active'[i]}
  BY <1>1, <1>3 DEF Places
<1>5. Counted'
  BY <1>1, <1>3 DEF Counted
<1>6. /\ ListedIds' \cup FreeIds' \cup FiringIds' = 1 .. timers'
      /\ ListedIds' \cap FreeIds' = {}
      /\ FiringIds' \cap (ListedIds' \cup FreeIds') = {}
  BY <1>1, <1>2, <1>3 DEF Places
<1>7. DistinctIds(timerList)' /\ Distinct(timerFreeList)'
  BY <1>1, <1>3 DEF Places, DistinctIds, Distinct
<1> QED BY <1>4, <1>5, <1>6, <1>7 DEF Places

\* After the function the container is free, once.
LEMMA FiredKeepsPlaces ==
  ASSUME PInv, Fired
  PROVE  Places' /\ Counted'
<1> DEFINE id == firing.id
<1>1. /\ UNCHANGED <<timers, active, timerList>>
      /\ pc = "fire" /\ pc' = "timers"
      /\ timerFreeList' = <<id>> \o timerFreeList
      /\ timerList \in Seq(Timer) /\ Len(timerList) \in Nat
      /\ timerFreeList \in Seq(Tid) /\ Len(timerFreeList) \in Nat
      /\ timers \in Nat /\ id \in Tid
      /\ Places /\ Counted
  BY TimerAssumption DEF Fired, Free, PInv, IInv, TypeOK, FiringIsATimer, Timer
<1>2. /\ Elements(timerFreeList) = FreeIds /\ Elements(timerFreeList') = FreeIds'
      /\ ListedIds' = ListedIds /\ FiringIds = {id} /\ FiringIds' = {}
  BY <1>1 DEF Elements, ListedIds, FreeIds, FiringIds
<1> HIDE DEF id
<1>3. id \notin FreeIds /\ id \notin ListedIds
  BY <1>1, <1>2 DEF Places
<1>4. /\ FreeIds' = FreeIds \cup {id} /\ Distinct(timerFreeList')
      /\ Len(timerFreeList') = Len(timerFreeList) + 1
  BY <1>1, <1>2, <1>3, ElementsAfterPush DEF Places
<1>5. Counted'
  BY <1>1, <1>4 DEF Counted
<1>6. /\ ListedIds' \cup FreeIds' \cup FiringIds' = 1 .. timers'
      /\ ListedIds' \cap FreeIds' = {}
      /\ FiringIds' \cap (ListedIds' \cup FreeIds') = {}
      /\ ListedIds' = {i \in Tid : active'[i]}
  BY <1>1, <1>2, <1>3, <1>4 DEF Places
<1>7. DistinctIds(timerList)' /\ Distinct(timerFreeList)'
  BY <1>1, <1>4 DEF Places, DistinctIds, Distinct
<1> QED BY <1>5, <1>6, <1>7 DEF Places

\* Steps that move no container.
LEMMA OthersKeepPlaces ==
  ASSUME PInv,
         UNCHANGED <<timerFreeList, timers, active, timerList, firing>>,
         pc' = "fire" <=> pc = "fire"
  PROVE  Places' /\ Counted'
<1>1. Places /\ Counted
  BY DEF PInv
<1>2. ListedIds' = ListedIds /\ FreeIds' = FreeIds /\ FiringIds' = FiringIds
  BY DEF ListedIds, FreeIds, FiringIds
<1>3. DistinctIds(timerList)' /\ Distinct(timerFreeList)'
  BY <1>1 DEF Places, DistinctIds, Distinct
<1>4. Counted'
  <2>1. (IF pc' = "fire" THEN 1 ELSE 0) = (IF pc = "fire" THEN 1 ELSE 0)
    OBVIOUS
  <2> QED BY <1>1, <2>1 DEF Counted
<1> QED BY <1>1, <1>2, <1>3, <1>4 DEF Places

\* No container of a timer is ever lost or freed twice, whatever is set,
\* cancelled and fired, also by a timer's own function (csr_sched.c).
THEOREM ContainersKept == Spec => []ContainersPartitioned
<1>1. PInv /\ [Next]_vars => Places' /\ Counted'
  <2> SUFFICES ASSUME PInv, [Next]_vars PROVE Places' /\ Counted'
    OBVIOUS
  <2>1. ASSUME NEW d \in Delays, CsrSchedTimerSet(d) PROVE Places' /\ Counted'
    BY <2>1, SetKeepsPlaces
  <2>2. ASSUME NEW id \in Tid, CsrSchedTimerCancel(id) PROVE Places' /\ Counted'
    BY <2>2, CancelKeepsPlaces
  <2>3. CASE Fire
    BY <2>3, FireKeepsPlaces
  <2>4. CASE Fired
    BY <2>4, FiredKeepsPlaces
  <2>5. CASE \/ Tick \/ Wake \/ EventsHandled \/ NoTimerPending \/ FirstNotDue
             \/ UNCHANGED vars
    <3>1. /\ UNCHANGED <<timerFreeList, timers, active, timerList, firing>>
          /\ pc' = "fire" <=> pc = "fire"
      BY <2>5 DEF Tick, Wake, EventsHandled, NoTimerPending, FirstNotDue, vars,
         poolVars
    <3> QED BY <3>1, OthersKeepPlaces
  <2>6. ASSUME NEW messages \in BOOLEAN, Sleep(messages) PROVE Places' /\ Counted'
    <3>1. /\ UNCHANGED <<timerFreeList, timers, active, timerList, firing>>
          /\ pc' = "fire" <=> pc = "fire"
      BY <2>6 DEF Sleep, poolVars
    <3> QED BY <3>1, OthersKeepPlaces
  <2> QED BY <2>1, <2>2, <2>3, <2>4, <2>5, <2>6 DEF Next
<1>2. Init => Places /\ Counted
  BY InitPInv DEF PInv
<1>3. Places /\ Counted => ContainersPartitioned
  BY DEF Places, Counted, ContainersPartitioned
<1> QED BY <1>1, <1>2, <1>3, InvariantHolds, PTL DEF Spec, PInv

-----------------------------------------------------------------------------
(* How long the thread sleeps.                                             *)

\* A timeout in whole units is no longer than the ticks it is made from.
LEMMA WholeUnits ==
  ASSUME NEW x \in Nat
  PROVE  x \div Ms \in Nat /\ (x \div Ms) * Ms <= x
<1>1. Ms \in Nat /\ Ms > 0
  BY Constants
<1>2. /\ x \div Ms \in Nat
      /\ x = Ms * (x \div Ms) + (x % Ms) /\ x % Ms \in Nat
  BY <1>1
<1> DEFINE q == x \div Ms
<1> HIDE DEF q
<1>3. Ms * q = q * Ms /\ Ms * q \in Nat
  BY <1>1, <1>2 DEF q
<1> QED BY <1>2, <1>3 DEF q

\* The thread never waits longer than the ticks it computed.
LEMMA TimeoutIsShort ==
  ASSUME TicksToWait \in Nat
  PROVE  Timeout * Ms <= TicksToWait
<1> DEFINE ms == TicksToWait \div Ms
<1>1. ms \in Nat /\ ms * Ms \in Nat /\ ms * Ms <= TicksToWait
  BY WholeUnits, Constants, Products
<1>2. /\ WaitInfinite - 1 \in Nat /\ Ms \in Nat
      /\ WaitInfinite \in Nat
  BY TimerAssumption
<1>3. Timeout = IF ms >= WaitInfinite THEN WaitInfinite - 1 ELSE ms
  BY DEF Timeout
<1> HIDE DEF ms
<1>4. Timeout \in Nat /\ Timeout <= ms
  BY <1>1, <1>2, <1>3
<1>5. Timeout * Ms \in Nat /\ Timeout * Ms <= ms * Ms
  BY <1>1, <1>2, <1>4, Products
<1> QED BY <1>1, <1>5

\* The ticks to a deadline the clock has not wrapped past are counted to less
\* than a unit of the timeout after it.
LEMMA TicksReachDeadline ==
  ASSUME IInv, Pending, seen = epoch, Head(timerList).due >= epoch,
         TicksToWait > 0
  PROVE  Clock + TicksToWait < DueAt(Head(timerList)) + Ms
<1> DEFINE t == Head(timerList)
           w == t.when
           d == t.due
           c == t.wrapCount
           p == epoch * Period
           q == d * Period
<1>1. /\ epoch \in Nat /\ seen \in Nat /\ now \in Nat /\ now < Period
      /\ currentWrapCount \in Nat
  BY TimerAssumption DEF IInv, TypeOK, Time
<1>2. Period \in Nat /\ Ms \in Nat /\ Ms > 0
  BY Constants
<1>3. /\ t \in Timer /\ w \in Nat /\ d \in Nat /\ c \in Nat
      /\ c + seen = d + currentWrapCount
  <2>1. timerList \in Seq(Timer) /\ timerList # <<>>
    BY DEF IInv, TypeOK, Pending
  <2>2. /\ t \in Timer /\ t = timerList[1] /\ 1 \in 1 .. Len(timerList)
    BY <2>1, HeadTailProperties
  <2>3. w \in Nat /\ d \in Nat /\ c \in Nat
    BY <2>2, TimerFields
  <2> QED BY <2>2, <2>3 DEF IInv, DeadlinesEncoded
<1>4. \A x \in Nat : Wrapped(x) \in Nat /\ Wrapped(x) <= x
  BY <1>2 DEF Wrapped
<1>5. p \in Nat /\ q \in Nat /\ (d = epoch => q = p)
      /\ (d > epoch => p + Period <= q)
  <2>1. p \in Nat /\ q \in Nat
    BY <1>1, <1>2, <1>3, Products
  <2>2. ASSUME d > epoch PROVE p + Period <= q
    <3>1. epoch + 1 \in Nat /\ epoch + 1 <= d
      BY <1>1, <1>3, <2>2
    <3>2. (epoch + 1) * Period <= d * Period
      BY <3>1, <1>2, <1>3, Products
    <3>3. (epoch + 1) * Period = epoch * Period + Period
      BY <1>1, <1>2
    <3> QED BY <3>2, <3>3
  <2> QED BY <2>1, <2>2
<1>6. /\ Clock = p + now
      /\ DueAt(Head(timerList)) = q + w
      /\ TicksToWait =
           IF c > currentWrapCount
           THEN Wrapped(Wrapped(Period - 1 - now + w) + Ms - 1)
           ELSE IF now < w THEN Wrapped(w - now + Ms - 1) ELSE 0
  BY DEF Clock, DueAt, TicksToWait
<1>7. d >= epoch
  OBVIOUS
<1> HIDE DEF t, w, d, c, p, q
<1>8. CASE c > currentWrapCount
  <2>1. d > epoch
    BY <1>1, <1>3, <1>8
  <2> DEFINE x == Wrapped(Period - 1 - now + w)
  <2>2. x \in Nat /\ x <= Period - 1 - now + w
    BY <1>1, <1>2, <1>3, <1>4
  <2> HIDE DEF x
  <2>3. Wrapped(x + Ms - 1) <= x + Ms - 1 /\ Wrapped(x + Ms - 1) \in Nat
    BY <1>2, <1>4, <2>2
  <2>4. TicksToWait = Wrapped(x + Ms - 1)
    BY <1>6, <1>8 DEF x
  <2> QED BY <1>1, <1>2, <1>3, <1>5, <1>6, <2>1, <2>2, <2>3, <2>4
<1>9. CASE ~ (c > currentWrapCount)
  <2>1. d = epoch
    BY <1>1, <1>3, <1>7, <1>9
  <2>2. now < w /\ TicksToWait = Wrapped(w - now + Ms - 1)
    BY <1>6, <1>9
  <2>3. Wrapped(w - now + Ms - 1) <= w - now + Ms - 1 /\ TicksToWait \in Nat
    BY <1>1, <1>2, <1>3, <1>4, <2>2
  <2> QED BY <1>1, <1>2, <1>3, <1>5, <1>6, <2>1, <2>2, <2>3
<1> QED BY <1>8, <1>9

\* The ticks to wait are a natural number.
LEMMA TicksTyped ==
  ASSUME IInv, Pending
  PROVE  TicksToWait \in Nat
<1> DEFINE w == Head(timerList).when
<1>1. now \in Nat /\ now < Period /\ Period \in Nat /\ Ms \in Nat /\ Ms > 0
  BY TimerAssumption, Constants DEF IInv, TypeOK, Time
<1>2. w \in Nat
  <2>1. timerList \in Seq(Timer) /\ timerList # <<>>
    BY DEF IInv, TypeOK, Pending
  <2>2. Head(timerList) \in Timer
    BY <2>1, HeadTailProperties
  <2> QED BY <2>2, TimerFields
<1>3. \A x \in Nat : Wrapped(x) \in Nat
  BY <1>1 DEF Wrapped
<1> HIDE DEF w
<1>4. Wrapped(Period - 1 - now + w) \in Nat
  BY <1>1, <1>2, <1>3
<1> DEFINE x == Wrapped(Period - 1 - now + w)
<1> HIDE DEF x
<1>5. x \in Nat
  BY <1>4 DEF x
<1>6. Wrapped(x + Ms - 1) \in Nat
  BY <1>1, <1>3, <1>5
<1>7. now < w => Wrapped(w - now + Ms - 1) \in Nat
  BY <1>1, <1>2, <1>3
<1> QED BY <1>6, <1>7 DEF TicksToWait, w, x

\* Going to sleep sets a wait that ends in time.
LEMMA SleepWaitsInTime ==
  ASSUME IInv, NEW messages \in BOOLEAN, Sleep(messages)
  PROVE  WaitEndsInTime'
<1> SUFFICES ASSUME Pending', left' > 0, seen' = epoch',
                    Head(timerList').due >= epoch'
             PROVE  (Clock + left < DueAt(Head(timerList)) + Ms)'
  BY DEF WaitEndsInTime
<1>1. UNCHANGED <<epoch, now, seen, timerList>>
  BY DEF Sleep, clockVars, viewVars
<1>2. Pending
  BY <1>1 DEF Pending
<1>3. left' = IF messages \/ ~ Pending THEN 0 ELSE Timeout * Ms
  BY DEF Sleep
<1>4. left' = Timeout * Ms /\ Timeout * Ms > 0
  BY <1>2, <1>3
<1>5. TicksToWait \in Nat /\ Timeout * Ms <= TicksToWait
  BY <1>2, TicksTyped, TimeoutIsShort
<1>6. Timeout * Ms \in Nat
  <2>1. TicksToWait \div Ms \in Nat /\ WaitInfinite - 1 \in Nat /\ Ms \in Nat
    BY <1>5, WholeUnits, TimerAssumption
  <2>2. Timeout \in Nat
    BY <2>1 DEF Timeout
  <2> QED BY <2>1, <2>2, Products
<1>7. Clock + TicksToWait < DueAt(Head(timerList)) + Ms
  <2>1. TicksToWait > 0
    BY <1>4, <1>5, <1>6
  <2> QED BY <1>1, <1>2, <2>1, TicksReachDeadline
<1>8. Clock \in Nat /\ DueAt(Head(timerList)) \in Nat /\ Ms \in Nat
  <2>1. epoch \in Nat /\ now \in Nat /\ Period \in Nat /\ Ms \in Nat
    BY Constants DEF IInv, TypeOK, Time
  <2>2. timerList \in Seq(Timer) /\ timerList # <<>>
    BY <1>2 DEF IInv, TypeOK, Pending
  <2>3. Head(timerList) \in Timer
    BY <2>2, HeadTailProperties
  <2>4. Head(timerList).due \in Nat /\ Head(timerList).when \in Nat
    BY <2>3, TimerFields
  <2>5. epoch * Period \in Nat /\ Head(timerList).due * Period \in Nat
    BY <2>1, <2>4, Products
  <2> QED BY <2>1, <2>4, <2>5 DEF Clock, DueAt
<1>9. Clock' = Clock /\ DueAt(Head(timerList))' = DueAt(Head(timerList))
  BY <1>1 DEF Clock, DueAt
<1> QED BY <1>4, <1>5, <1>6, <1>7, <1>8, <1>9

\* A tick brings the clock one closer to the end of the wait.  One that wraps
\* the clock makes the wrap count out of date.
LEMMA TickWaitsInTime ==
  ASSUME IInv, WaitEndsInTime, Tick
  PROVE  WaitEndsInTime'
<1> SUFFICES ASSUME pc' = "sleep", Pending', left' > 0, seen' = epoch',
                    Head(timerList').due >= epoch'
             PROVE  (Clock + left < DueAt(Head(timerList)) + Ms)'
  BY DEF WaitEndsInTime
<1>1. UNCHANGED <<seen, timerList, pc>>
  BY DEF Tick, viewVars
<1>2. Pending /\ pc = "sleep"
  BY <1>1 DEF Pending
<1>3. /\ epoch \in Nat /\ seen \in Nat /\ now \in Nat /\ left \in Nat
      /\ Period \in Nat /\ Ms \in Nat
  BY Constants DEF IInv, TypeOK, Time
<1>4. seen <= epoch
  BY <1>2, <1>3 DEF IInv, LookedLately
<1>5. epoch' = epoch /\ now' = now + 1
  BY <1>1, <1>3, <1>4 DEF Tick
<1>6. left' = left - 1 /\ left > 0
  BY <1>2, <1>3 DEF Tick
<1>7. Clock + left < DueAt(Head(timerList)) + Ms
  BY <1>1, <1>2, <1>5, <1>6 DEF WaitEndsInTime
<1>8. epoch * Period \in Nat
  BY <1>3, Products
<1>9. /\ Clock' = epoch * Period + (now + 1) /\ Clock = epoch * Period + now
      /\ DueAt(Head(timerList))' = DueAt(Head(timerList))
  BY <1>1, <1>5 DEF Clock, DueAt
<1>10. Clock' + left' = Clock + left
  BY <1>3, <1>6, <1>8, <1>9
<1> QED BY <1>7, <1>9, <1>10

\* With its wrap count up to date the thread never sleeps a whole unit of the
\* timeout past the first deadline: neither the rounding nor the wrap of the
\* 32-bit subtraction adds one (CsrSchedTaskLoop).
THEOREM WaitsEndInTime == Spec => []WaitEndsInTime
<1>1. Init => WaitEndsInTime
  BY DEF Init, WaitEndsInTime
<1>2. IInv /\ WaitEndsInTime /\ [Next]_vars => WaitEndsInTime'
  <2> SUFFICES ASSUME IInv, WaitEndsInTime, [Next]_vars PROVE WaitEndsInTime'
    OBVIOUS
  <2>1. CASE Tick
    BY <2>1, TickWaitsInTime
  <2>2. ASSUME NEW messages \in BOOLEAN, Sleep(messages) PROVE WaitEndsInTime'
    BY <2>2, SleepWaitsInTime
  <2>3. CASE UNCHANGED vars
    BY <2>3 DEF vars, clockVars, viewVars, WaitEndsInTime, Pending, Clock, DueAt
  <2>4. ASSUME NEW d \in Delays, CsrSchedTimerSet(d) PROVE pc' # "sleep"
    BY <2>4 DEF CsrSchedTimerSet, Running
  <2>5. ASSUME NEW id \in Tid, CsrSchedTimerCancel(id) PROVE pc' # "sleep"
    BY <2>5 DEF CsrSchedTimerCancel, Running
  <2>6. CASE Wake \/ EventsHandled \/ NoTimerPending \/ FirstNotDue \/ Fire \/ Fired
    <3>1. pc' # "sleep"
      BY <2>6 DEF Wake, EventsHandled, NoTimerPending, FirstNotDue, Fire, Fired
    <3> QED BY <3>1 DEF WaitEndsInTime
  <2>7. pc' # "sleep" => WaitEndsInTime'
    BY DEF WaitEndsInTime
  <2> QED BY <2>1, <2>2, <2>3, <2>4, <2>5, <2>6, <2>7 DEF Next
<1> QED BY <1>1, <1>2, InvariantHolds, PTL DEF Spec
=============================================================================
