------------------------- MODULE SchedMessagesProofs -------------------------
(***************************************************************************)
(* What the scheduler promises its tasks and drivers, for any number of    *)
(* tasks, outside threads and background interrupts and messages without   *)
(* bound: no wake-up is lost, no freed interrupt handler is called, and no *)
(* task with a message waits for more than one message of each other task. *)
(***************************************************************************)
EXTENDS SchedMessages, SequenceTheorems, DataLemmas, TLAPS

-----------------------------------------------------------------------------
(* No wake-up is lost.                                                     *)

\* The bits that CsrEventWait returned are held only while they are worked
\* off; and until the scheduler stops, a message in the external queue has a
\* sender that will signal, or a signal that the thread has yet to act on.
SignalUnderway ==
  \/ signalling # {}
  \/ EXT_MSG_EVENT \in bits \cup taken

WakeupInv ==
  /\ pc # "events" => taken = {}
  /\ pc \notin {"stopped", "ended"} => extMsgQueue = <<>> \/ SignalUnderway

\* The external queue's bit is none of the background interrupts'.
LEMMA ExtMsgIsNoIrq == EXT_MSG_EVENT \notin Irqs
  BY MessageAssumption DEF EXT_MSG_EVENT

\* Queueing a message and signalling the thread are two steps of a sender;
\* whatever the thread does between them keeps the invariant.
LEMMA WakeupStep ==
  ASSUME WakeupInv, [Next]_vars
  PROVE  WakeupInv'
<1> USE DEF WakeupInv, SignalUnderway
<1>1. ASSUME NEW s \in Outside, NEW t \in Tasks, PutOutside(s, t)
      PROVE  WakeupInv'
  BY <1>1 DEF PutOutside
<1>2. ASSUME NEW s \in Outside, Signal(s)
      PROVE  WakeupInv'
  BY <1>2 DEF Signal, queueVars
<1>3. CASE DriverDecides \/ CsrSchedBgintSet
  BY <1>3 DEF DriverDecides, CsrSchedBgintSet, queueVars
<1>4. CASE Stopper
  BY <1>4 DEF Stopper, CsrSchedStop, ThreadStopped, TasksDeinit, queueVars
<1>5. CASE Start
  BY <1>5 DEF Start, queueVars, EXT_MSG_EVENT, START_EVENT
<1>6. ASSUME NEW t \in Tasks, Handle(t)
      PROVE  WakeupInv'
  <2>1. bits \subseteq bits'
    BY <1>6 DEF Handle, TaskUsesBgint, CsrSchedBgintReg, CsrSchedBgintUnreg
  <2>2. /\ pc = "loop" /\ pc' = "wait" /\ taken' = taken
        /\ extMsgQueue' = extMsgQueue /\ signalling' = signalling
    BY <1>6 DEF Handle
  <2> QED BY <2>1, <2>2
<1>7. CASE NothingToHandle \/ Wait
  BY <1>7 DEF NothingToHandle, Wait, queueVars
<1>8. ASSUME NEW i \in Irqs, RunBgint(i)
      PROVE  WakeupInv'
  BY <1>8, ExtMsgIsNoIrq DEF RunBgint, queueVars
<1>9. CASE MessagesFromOutside
  <2>1. CASE EXT_MSG_EVENT \in taken
    BY <1>9, <2>1 DEF MessagesFromOutside, Drain
  <2>2. CASE EXT_MSG_EVENT \notin taken
    BY <1>9, <2>2 DEF MessagesFromOutside, queueVars
  <2> QED BY <2>1, <2>2
<1>10. CASE Deinit
  BY <1>10 DEF Deinit
<1>11. CASE UNCHANGED vars
  BY <1>11 DEF vars, queueVars
<1> QED
  BY <1>1, <1>2, <1>3, <1>4, <1>5, <1>6, <1>7, <1>8, <1>9, <1>10, <1>11
  DEF Next, Thread

\* A thread that sleeps in CsrEventWait without a bit to wake it has no message
\* outside either, unless its sender is still between do_put_message's queue
\* and its signal.
THEOREM WakeupsKept == Spec => []NoLostWakeup
<1>1. Init => WakeupInv
  BY DEF Init, WakeupInv
<1>2. WakeupInv /\ [Next]_vars => WakeupInv'
  BY WakeupStep
<1>3. WakeupInv => NoLostWakeup
  BY DEF WakeupInv, SignalUnderway, NoLostWakeup
<1> QED BY <1>1, <1>2, <1>3, PTL DEF Spec

-----------------------------------------------------------------------------
(* The handlers of the background interrupts.                              *)

\* A set interrupt has an entry.  The entry of an interrupt that was
\* unregistered stays until bgintRemove has run, which nothing can set again:
\* its bit is there once, and no driver holds or is about to set it.
BgintInv ==
  /\ pc # "events" => taken = {}
  /\ handler \in [Irqs -> {"none", "user", "remove"}]
  /\ registered \subseteq Irqs
  /\ \A i \in Irqs : i \in registered <=> handler[i] = "user"
  /\ setting = NoIrq \/ setting \in registered
  /\ \A i \in Irqs : i \in bits \cup taken => handler[i] # "none"
  /\ \A i \in Irqs : handler[i] = "remove" => ~(i \in bits /\ i \in taken)
  /\ badCall = FALSE

\* The other events are none of the background interrupts.
LEMMA EventsAreNoIrqs ==
  /\ {EXT_MSG_EVENT, START_EVENT, STOP_REQ_EVENT, DEINIT_REQ_EVENT} \cap Irqs = {}
  /\ NoIrq \notin Irqs
  BY MessageAssumption
  DEF EXT_MSG_EVENT, START_EVENT, STOP_REQ_EVENT, DEINIT_REQ_EVENT, NoIrq

\* CsrSchedBgintReg takes an entry that no bit stands for, CsrSchedBgintUnreg
\* sets the bit of the entry it leaves to bgintRemove.
LEMMA TaskUsesBgintStep ==
  ASSUME BgintInv, ~ LateSetters, pc = "loop", TaskUsesBgint,
         pc' = "wait", UNCHANGED taken
  PROVE  BgintInv'
<1> USE DEF BgintInv
<1>1. ASSUME NEW i \in Irqs, CsrSchedBgintReg(i)
      PROVE  BgintInv'
  BY <1>1 DEF CsrSchedBgintReg, FreeIrq
<1>2. ASSUME NEW i \in Irqs, CsrSchedBgintUnreg(i)
      PROVE  BgintInv'
  BY <1>2, EventsAreNoIrqs DEF CsrSchedBgintUnreg
<1>3. CASE UNCHANGED <<bits, bgintVars>>
  BY <1>3 DEF bgintVars
<1> QED BY <1>1, <1>2, <1>3 DEF TaskUsesBgint

\* Every step of the threads keeps the invariant of the interrupts.
LEMMA BgintStep ==
  ASSUME BgintInv, [Next]_vars, ~ LateSetters
  PROVE  BgintInv'
<1> USE DEF BgintInv
<1>1. ASSUME NEW s \in Outside, NEW t \in Tasks, PutOutside(s, t)
      PROVE  BgintInv'
  BY <1>1 DEF PutOutside, bgintVars
<1>2. ASSUME NEW s \in Outside, Signal(s)
      PROVE  BgintInv'
  BY <1>2, EventsAreNoIrqs DEF Signal, bgintVars
<1>3. CASE DriverDecides
  BY <1>3 DEF DriverDecides
<1>4. CASE CsrSchedBgintSet
  <2>1. setting \in registered /\ handler[setting] = "user"
    BY <1>4 DEF CsrSchedBgintSet
  <2> QED BY <1>4, <2>1 DEF CsrSchedBgintSet
<1>5. CASE Stopper
  BY <1>5, EventsAreNoIrqs
  DEF Stopper, CsrSchedStop, ThreadStopped, TasksDeinit, bgintVars
<1>6. CASE Start
  BY <1>6 DEF Start, bgintVars
<1>7. ASSUME NEW t \in Tasks, Handle(t)
      PROVE  BgintInv'
  <2>1. TaskUsesBgint
    BY <1>7 DEF Handle, TaskUsesBgint
  <2>2. pc = "loop" /\ pc' = "wait" /\ UNCHANGED taken
    BY <1>7 DEF Handle
  <2> QED BY <2>1, <2>2, TaskUsesBgintStep
<1>8. CASE NothingToHandle
  BY <1>8 DEF NothingToHandle, bgintVars
<1>9. CASE Wait
  BY <1>9 DEF Wait, bgintVars
<1>10. ASSUME NEW i \in Irqs, RunBgint(i)
      PROVE  BgintInv'
  <2>1. i \in taken /\ handler[i] # "none"
    BY <1>10 DEF RunBgint, SetIrqs
  <2>2. badCall' = FALSE
    BY <1>10, <2>1 DEF RunBgint
  <2> QED BY <1>10, <2>1, <2>2 DEF RunBgint
<1>11. CASE MessagesFromOutside
  BY <1>11 DEF MessagesFromOutside, bgintVars
<1>12. CASE Deinit
  BY <1>12 DEF Deinit, bgintVars
<1>13. CASE UNCHANGED vars
  BY <1>13 DEF vars, bgintVars
<1> QED
  BY <1>1, <1>2, <1>3, <1>4, <1>5, <1>6, <1>7, <1>8, <1>9, <1>10, <1>11, <1>12,
     <1>13
  DEF Next, Thread

\* CsrSchedLoop never calls the handler of an entry that was freed, provided
\* a driver that unregisters its interrupt no longer sets it.
THEOREM HandlersAreThere ==
  ASSUME ~ LateSetters
  PROVE  Spec => []HandlerIsThere
<1>1. Init => BgintInv
  BY EventsAreNoIrqs DEF Init, BgintInv
<1>2. BgintInv /\ [Next]_vars => BgintInv'
  BY BgintStep
<1>3. BgintInv => HandlerIsThere
  BY DEF BgintInv, HandlerIsThere
<1> QED BY <1>1, <1>2, <1>3, PTL DEF Spec

-----------------------------------------------------------------------------
(* The order in which tasks are served.                                    *)

\* A task has waited for no more messages than there are tasks between it and
\* the one that is considered first.
TurnInv ==
  /\ turn \in Tasks
  /\ passedOver \in [Tasks -> Nat]
  /\ \A t \in Tasks : passedOver[t] + Distance(t) < NumTasks

\* Serving the nearest task moves every other waiting task nearer by one more
\* than the tasks that were skipped.
LEMMA NearerByOne ==
  ASSUME TurnInv, NEW t \in Tasks, NEW u \in Tasks, u # t,
         Distance(t) <= Distance(u),
         turn' = IF t = NumTasks THEN 1 ELSE t + 1
  PROVE  Distance(u)' = Distance(u) - Distance(t) - 1
  BY MessageAssumption DEF TurnInv, Distance, Tasks

\* Going round the ring of tasks takes fewer steps than there are tasks.
LEMMA RingDistance ==
  ASSUME NEW t \in Tasks, NEW first \in Tasks
  PROVE  (IF t >= first THEN t - first ELSE t + NumTasks - first) \in 0 .. NumTasks - 1
  BY MessageAssumption DEF Tasks

\* A task's distance is below the number of tasks.
LEMMA DistanceBounded ==
  ASSUME NEW t \in Tasks, turn \in Tasks
  PROVE  Distance(t) \in 0 .. NumTasks - 1
  BY RingDistance DEF Distance

\* Every step keeps the invariant of the turns.
LEMMA TurnStep ==
  ASSUME TurnInv, [Next]_vars
  PROVE  TurnInv'
<1>1. ASSUME NEW t \in Tasks, Handle(t)
      PROVE  TurnInv'
  <2>1. /\ turn' = IF t = NumTasks THEN 1 ELSE t + 1
        /\ passedOver' = [u \in Tasks |->
             IF u # t /\ Waiting(u) THEN passedOver[u] + 1 ELSE 0]
        /\ \A u \in Tasks : Waiting(u) => Distance(t) <= Distance(u)
    BY <1>1 DEF Handle, Chosen
  <2>2. turn' \in Tasks
    BY <2>1, MessageAssumption DEF Tasks
  <2>3. passedOver' \in [Tasks -> Nat]
    BY <2>1 DEF TurnInv
  <2>4. ASSUME NEW u \in Tasks
        PROVE  passedOver'[u] + Distance(u)' < NumTasks
    <3>0. turn \in Tasks /\ passedOver[u] \in Nat
      BY DEF TurnInv
    <3>1. Distance(t) \in Nat /\ Distance(u) \in Nat
      BY <3>0, DistanceBounded, MessageAssumption
    <3>2. Distance(u)' \in 0 .. NumTasks - 1
      BY <2>2, RingDistance DEF Distance
    <3>3. CASE u # t /\ Waiting(u)
      <4>1. Distance(u)' = Distance(u) - Distance(t) - 1
        BY <2>1, <3>3, NearerByOne
      <4>2. passedOver'[u] = passedOver[u] + 1
        BY <2>1, <3>3
      <4>3. passedOver[u] + Distance(u) < NumTasks
        BY DEF TurnInv
      <4> QED BY <3>0, <3>1, <4>1, <4>2, <4>3, MessageAssumption
    <3>4. CASE ~(u # t /\ Waiting(u))
      BY <2>1, <3>2, <3>4, MessageAssumption
    <3> QED BY <3>3, <3>4
  <2> QED BY <2>2, <2>3, <2>4 DEF TurnInv
<1>2. CASE UNCHANGED <<turn, passedOver>>
  BY <1>2 DEF TurnInv, Distance
<1>3. ASSUME [Next]_vars, ~ \E t \in Tasks : Handle(t)
      PROVE  UNCHANGED <<turn, passedOver>>
  BY <1>3 DEF Next, vars, queueVars, countVars, PutOutside, Signal, DriverDecides,
              CsrSchedBgintSet, Stopper, CsrSchedStop, ThreadStopped, TasksDeinit,
              Thread, Start, NothingToHandle, Wait, RunBgint, MessagesFromOutside,
              Drain, Deinit
<1> QED BY <1>1, <1>2, <1>3

\* CsrSchedLoop goes on from the task after the one it served, so a task with
\* a message is passed over at most once by every other task.
THEOREM TasksTakeTurns == Spec => []RoundRobin
<1>1. Init => TurnInv
  BY MessageAssumption DEF Init, TurnInv, Distance, Tasks
<1>2. TurnInv /\ [Next]_vars => TurnInv'
  BY TurnStep
<1>3. TurnInv => RoundRobin
  <2> SUFFICES ASSUME TurnInv, NEW t \in Tasks
               PROVE  passedOver[t] < NumTasks
    BY DEF RoundRobin
  <2>1. Distance(t) \in 0 .. NumTasks - 1
    BY DistanceBounded DEF TurnInv
  <2> QED BY <2>1, MessageAssumption DEF TurnInv
<1> QED BY <1>1, <1>2, <1>3, PTL DEF Spec

-----------------------------------------------------------------------------
(* No message is lost, doubled or overtaken.                               *)

Msg == [from : Senders, to : Tasks, n : Nat]
Queues == [Tasks -> Seq(Msg)]
Counts == [Senders -> [Tasks -> Nat]]

Between(m, s, t) == m.from = s /\ m.to = t

\* The messages of sender s for task t, when q is the task's queue and the
\* first k of the external queue e have been moved to the tasks' queues: those
\* with the numbers from h + 1, where h were handled, to n, where n were sent,
\* in order within each queue and across the two.
InFlight(q, e, k, s, t, x) ==
  \/ \E j \in 1 .. Len(q) : Between(q[j], s, t) /\ q[j].n = x
  \/ \E i \in k + 1 .. Len(e) : Between(e[i], s, t) /\ e[i].n = x

Ascending(q, s, t) ==
  \A i, j \in 1 .. Len(q) :
    i < j /\ Between(q[i], s, t) /\ Between(q[j], s, t) => q[i].n < q[j].n

Ahead(q, e, k, s, t) ==
  \A j \in 1 .. Len(q), i \in k + 1 .. Len(e) :
    Between(q[j], s, t) /\ Between(e[i], s, t) => q[j].n < e[i].n

Kept(q, e, k, s, t, h, n) ==
  /\ h <= n
  /\ \A x \in Nat : x \in h + 1 .. n <=> InFlight(q, e, k, s, t, x)
  /\ Ascending(q, s, t)
  /\ Ascending(e, s, t)
  /\ Ahead(q, e, k, s, t)

\* A task's queue holds only messages for it.
KeptAll(queues, k) ==
  /\ queues \in Queues
  /\ \A t \in Tasks : \A j \in 1 .. Len(queues[t]) : queues[t][j].to = t
  /\ \A s \in Senders, t \in Tasks : 
       Kept(queues[t], extMsgQueue, k, s, t, handled[s][t], sent[s][t])

MessagesInv ==
  /\ sent \in Counts /\ handled \in Counts
  /\ messageQueue \in Queues
  /\ extMsgQueue \in Seq(Msg)
  /\ \A i \in 1 .. Len(extMsgQueue) : extMsgQueue[i].from \in Outside
  /\ pc # "ended" => KeptAll(messageQueue, 0)

\* A message stored leaves every queue a queue of messages.
LEMMA StoredTyped ==
  ASSUME NEW q \in Queues, NEW m \in Msg
  PROVE  /\ Stored(q, m) \in Queues
         /\ Stored(q, m)[m.to] = Append(q[m.to], m)
         /\ \A t \in Tasks : t # m.to => Stored(q, m)[t] = q[t]
<1>1. m.to \in Tasks /\ q[m.to] \in Seq(Msg)
  BY DEF Msg, Queues
<1>2. Append(q[m.to], m) \in Seq(Msg)
  BY <1>1, AppendProperties
<1>3. Stored(q, m) = [q EXCEPT ![m.to] = Append(q[m.to], m)]
  BY DEF Stored
<1> QED BY <1>1, <1>2, <1>3 DEF Queues

\* Moving the external queue is a loop with one message to a round.
LEMMA DrainedIsLoop ==
  ASSUME messageQueue \in Queues, extMsgQueue \in Seq(Msg)
  PROVE  \E f : /\ f[0] = messageQueue
                /\ \A k \in 1 .. Len(extMsgQueue) :
                     f[k] = Stored(f[k - 1], extMsgQueue[k])
                /\ Drained = f[Len(extMsgQueue)]
<1> DEFINE N == Len(extMsgQueue)
           Round == [k \in 1 .. N |-> [q \in Queues |-> Stored(q, extMsgQueue[k])]]
           F(g) == [k \in 0 .. N |->
                      IF k = 0 THEN messageQueue ELSE Stored(g[k - 1], extMsgQueue[k])]
           f == CHOOSE g : g = F(g)
<1>1. N \in Nat /\ \A k \in 1 .. N : extMsgQueue[k] \in Msg
  OBVIOUS
<1>2. Drained = f[N]
  BY Zenon DEF Drained
<1> HIDE DEF N
<1>3. Round \in [1 .. N -> [Queues -> Queues]]
  <2> SUFFICES ASSUME NEW k \in 1 .. N, NEW q \in Queues
               PROVE  Stored(q, extMsgQueue[k]) \in Queues
    OBVIOUS
  <2> QED BY <1>1, StoredTyped
<1> HIDE DEF Round
<1>4. PICK g : IsLoop(g, N, Queues, messageQueue, Round)
  BY <1>1, <1>3, LoopExists, SMT
<1>5. g = F(g)
  <2>1. ASSUME NEW k \in 0 .. N
        PROVE  g[k] = IF k = 0 THEN messageQueue ELSE Stored(g[k - 1], extMsgQueue[k])
    <3>1. CASE k = 0
      BY <1>4, <3>1 DEF IsLoop
    <3>2. CASE k # 0
      <4>1. k \in 1 .. N /\ k - 1 \in 0 .. N
        BY <1>1, <3>2
      <4>2. g[k] = Round[k][g[k - 1]] /\ g[k - 1] \in Queues
        BY <1>4, <4>1 DEF IsLoop
      <4>3. Round[k][g[k - 1]] = Stored(g[k - 1], extMsgQueue[k])
        BY <4>1, <4>2 DEF Round
      <4> QED BY <3>2, <4>2, <4>3
    <3> QED BY <3>1, <3>2
  <2>2. g \in [0 .. N -> Queues]
    BY <1>4 DEF IsLoop
  <2> QED BY <2>1, <2>2
<1> HIDE DEF F
<1>6. f = F(f)
  BY <1>5, Zenon
<1> HIDE DEF f
<1>7. f[0] = messageQueue
  BY <1>1, <1>6 DEF F
<1>8. \A k \in 1 .. N : f[k] = Stored(f[k - 1], extMsgQueue[k])
  BY <1>1, <1>6 DEF F
<1> QED BY <1>2, <1>7, <1>8 DEF N

\* A message moved from the head of the external queue to the end of its
\* receiver's goes on the way it went.
LEMMA MoveKeeps ==
  ASSUME NEW e \in Seq(Msg), NEW k \in 0 .. Len(e) - 1, NEW q \in Seq(Msg),
         NEW s \in Senders, NEW t \in Tasks, NEW h \in Nat, NEW n \in Nat,
         Kept(q, e, k, s, t, h, n)
  PROVE  /\ e[k + 1].to = t => Kept(Append(q, e[k + 1]), e, k + 1, s, t, h, n)
         /\ e[k + 1].to # t => Kept(q, e, k + 1, s, t, h, n)
<1> DEFINE m == e[k + 1]
           r == Append(q, m)
<1>0. k \in Nat /\ k + 1 \in 1 .. Len(e) /\ m \in Msg
  OBVIOUS
<1>1. /\ r \in Seq(Msg) /\ Len(r) = Len(q) + 1
      /\ \A j \in 1 .. Len(q) : r[j] = q[j]
      /\ r[Len(q) + 1] = m
  BY <1>0, AppendProperties
<1>2. \A i \in k + 1 .. Len(e) : i = k + 1 \/ i \in k + 2 .. Len(e)
  BY <1>0
<1>3. \A i \in k + 2 .. Len(e) : i \in k + 1 .. Len(e) /\ k + 1 < i
                                           /\ i \in 1 .. Len(e)
  BY <1>0
<1>4. k + 1 \in k + 1 .. Len(e) /\ k + 1 + 1 = k + 2
  BY <1>0
<1>5. \A j \in 1 .. Len(r) : j = Len(q) + 1 \/ j \in 1 .. Len(q)
  BY <1>1
<1>6. Len(q) \in Nat /\ Len(q) + 1 \in 1 .. Len(r)
      /\ \A j \in 1 .. Len(q) : j \in 1 .. Len(r) /\ ~ (Len(q) + 1 < j)
  BY <1>1
<1> HIDE DEF m, r
<1>7. ASSUME m.to = t
      PROVE  Kept(r, e, k + 1, s, t, h, n)
  <2>1. \A x \in Nat : InFlight(r, e, k + 1, s, t, x) <=> InFlight(q, e, k, s, t, x)
    <3> TAKE x \in Nat
    <3>1. InFlight(r, e, k + 1, s, t, x) => InFlight(q, e, k, s, t, x)
      BY <1>1, <1>3, <1>4, <1>5 DEF InFlight, m
    <3>2. InFlight(q, e, k, s, t, x) => InFlight(r, e, k + 1, s, t, x)
      BY <1>1, <1>2, <1>4, <1>6 DEF InFlight, m
    <3> QED BY <3>1, <3>2
  <2>2. Ascending(r, s, t)
    <3> SUFFICES ASSUME NEW i \in 1 .. Len(r), NEW j \in 1 .. Len(r), i < j,
                        Between(r[i], s, t), Between(r[j], s, t)
                 PROVE  r[i].n < r[j].n
      BY DEF Ascending
    <3>1. i \in 1 .. Len(q)
      BY <1>1
    <3>2. CASE j \in 1 .. Len(q)
      BY <1>1, <3>1, <3>2 DEF Kept, Ascending
    <3>3. CASE j = Len(q) + 1
      BY <1>1, <1>4, <3>1, <3>3 DEF Kept, Ahead, m
    <3> QED BY <1>5, <3>2, <3>3
  <2>3. Ahead(r, e, k + 1, s, t)
    <3> SUFFICES ASSUME NEW j \in 1 .. Len(r), NEW i \in k + 2 .. Len(e),
                        Between(r[j], s, t), Between(e[i], s, t)
                 PROVE  r[j].n < e[i].n
      BY <1>4 DEF Ahead
    <3>1. CASE j \in 1 .. Len(q)
      BY <1>1, <1>3, <3>1 DEF Kept, Ahead
    <3>2. CASE j = Len(q) + 1
      BY <1>0, <1>1, <1>3, <3>2 DEF Kept, Ascending, m
    <3> QED BY <1>5, <3>1, <3>2
  <2> QED BY <2>1, <2>2, <2>3 DEF Kept
<1>8. ASSUME m.to # t
      PROVE  Kept(q, e, k + 1, s, t, h, n)
  <2>1. \A x \in Nat : InFlight(q, e, k + 1, s, t, x) <=> InFlight(q, e, k, s, t, x)
    BY <1>2, <1>3, <1>4, <1>8 DEF InFlight, Between, m
  <2>2. Ahead(q, e, k + 1, s, t)
    BY <1>3, <1>4 DEF Kept, Ahead
  <2> QED BY <2>1, <2>2 DEF Kept
<1> QED BY <1>7, <1>8 DEF m, r

\* After the whole loop everything that was on its way still is.
LEMMA DrainKeeps ==
  ASSUME messageQueue \in Queues, extMsgQueue \in Seq(Msg),
         sent \in Counts, handled \in Counts, KeptAll(messageQueue, 0)
  PROVE  KeptAll(Drained, Len(extMsgQueue))
<1> DEFINE N == Len(extMsgQueue)
<1>1. N \in Nat /\ \A k \in 1 .. N : extMsgQueue[k] \in Msg
  OBVIOUS
<1>2. PICK f : /\ f[0] = messageQueue
               /\ \A k \in 1 .. N : f[k] = Stored(f[k - 1], extMsgQueue[k])
               /\ Drained = f[N]
  BY DrainedIsLoop
<1> DEFINE T == {k \in 0 .. N : KeptAll(f[k], k)}
<1>3. 0 \in T
  BY <1>1, <1>2
<1>4. ASSUME NEW k \in 0 .. N - 1, k \in T
      PROVE  k + 1 \in T
  <2> DEFINE m == extMsgQueue[k + 1]
             q == f[k]
             r == f[k + 1]
  <2>1. k + 1 \in 1 .. N /\ k + 1 - 1 = k /\ k + 1 \in 0 .. N
    BY <1>1
  <2>2. m \in Msg /\ r = Stored(q, m)
    BY <1>1, <1>2, <2>1
  <2>3. KeptAll(q, k)
    BY <1>4
  <2>4. m.to \in Tasks /\ q \in Queues
    BY <2>2, <2>3 DEF Msg, KeptAll
  <2>5. /\ r \in Queues /\ r[m.to] = Append(q[m.to], m)
        /\ \A t \in Tasks : t # m.to => r[t] = q[t]
    <3> HIDE DEF m, q, r
    <3> QED BY <2>2, <2>4, StoredTyped
  <2> HIDE DEF q, r, T
  <2>6. ASSUME NEW s \in Senders, NEW t \in Tasks
        PROVE  Kept(r[t], extMsgQueue, k + 1, s, t, handled[s][t], sent[s][t])
    <3>1. /\ Kept(q[t], extMsgQueue, k, s, t, handled[s][t], sent[s][t])
          /\ q[t] \in Seq(Msg)
      BY <2>3, <2>4 DEF KeptAll, Queues
    <3>2. handled[s][t] \in Nat /\ sent[s][t] \in Nat
      BY DEF Counts
    <3>3. /\ m.to = t => Kept(Append(q[t], m), extMsgQueue, k + 1, s, t,
                               handled[s][t], sent[s][t])
          /\ m.to # t => Kept(q[t], extMsgQueue, k + 1, s, t,
                               handled[s][t], sent[s][t])
      BY <3>1, <3>2, MoveKeeps
    <3> QED BY <2>5, <3>3
  <2>7. ASSUME NEW t \in Tasks, NEW j \in 1 .. Len(r[t])
        PROVE  r[t][j].to = t
    <3>1. q[t] \in Seq(Msg) /\ \A i \in 1 .. Len(q[t]) : q[t][i].to = t
      BY <2>3, <2>4 DEF KeptAll, Queues
    <3>2. CASE t # m.to
      BY <2>5, <2>7, <3>1, <3>2
    <3>3. CASE t = m.to
      <4> HIDE DEF m
      <4>1. /\ Len(Append(q[t], m)) = Len(q[t]) + 1
            /\ \A i \in 1 .. Len(q[t]) : Append(q[t], m)[i] = q[t][i]
            /\ Append(q[t], m)[Len(q[t]) + 1] = m
        BY <2>2, <3>1, AppendProperties
      <4>2. j \in 1 .. Len(q[t]) \/ j = Len(q[t]) + 1
        BY <2>5, <2>7, <3>1, <3>3, <4>1
      <4> QED BY ZenonT(60), <2>5, <3>1, <3>3, <4>1, <4>2
    <3> QED BY <3>2, <3>3
  <2>8. KeptAll(r, k + 1)
    BY <2>5, <2>6, <2>7 DEF KeptAll
  <2> QED BY <2>1, <2>8 DEF r, T
<1> HIDE DEF T, N
<1>5. N \in T
  <2>1. ASSUME NEW k \in 0 .. N - 1 PROVE k \in T => k + 1 \in T
    BY <1>4
  <2>2. \A k \in 0 .. N : k \in T
    BY <1>1, <1>3, <2>1, InductionUpTo, Zenon
  <2> QED BY <1>1, <2>2
<1> QED BY <1>2, <1>5 DEF T, N

\* The numbers on the way are those between the handled and the sent.
LEMMA NumbersBounded ==
  ASSUME NEW e \in Seq(Msg), NEW q \in Seq(Msg), NEW s, NEW t, NEW h, NEW n,
         Kept(q, e, 0, s, t, h, n)
  PROVE  /\ \A j \in 1 .. Len(q) : Between(q[j], s, t) => q[j].n \in h + 1 .. n
         /\ \A i \in 1 .. Len(e) : Between(e[i], s, t) => e[i].n \in h + 1 .. n
<1>0. \A m \in Msg : m.n \in Nat
  BY DEF Msg
<1>1. \A j \in 1 .. Len(q) : q[j].n \in Nat
  BY <1>0
<1>2. \A i \in 1 .. Len(e) : e[i].n \in Nat /\ i \in 0 + 1 .. Len(e)
  BY <1>0
<1> QED BY <1>1, <1>2 DEF Kept, InFlight

\* A message put on the external queue goes behind all that was put before it.
LEMMA PutKeeps ==
  ASSUME NEW e \in Seq(Msg), NEW q \in Seq(Msg), NEW m \in Msg,
         NEW s \in Senders, NEW t \in Tasks, NEW h \in Nat, NEW n \in Nat,
         Kept(q, e, 0, s, t, h, n), Between(m, s, t) => m.n = n + 1
  PROVE  /\ Between(m, s, t) => Kept(q, Append(e, m), 0, s, t, h, n + 1)
         /\ ~ Between(m, s, t) => Kept(q, Append(e, m), 0, s, t, h, n)
<1> DEFINE L == Len(e)
           f == Append(e, m)
<1>1. /\ f \in Seq(Msg) /\ Len(f) = L + 1 /\ L \in Nat
      /\ \A i \in 1 .. L : f[i] = e[i]
      /\ f[L + 1] = m
  BY AppendProperties
<1>2. h <= n /\ m.n \in Nat
  BY DEF Kept, Msg
<1> HIDE DEF f
<1>3. /\ \A i \in 0 + 1 .. Len(f) : i \in 1 .. L \/ i = L + 1
      /\ \A i \in 1 .. Len(f) : i \in 1 .. L \/ i = L + 1
      /\ \A i \in 1 .. L : i \in 0 + 1 .. Len(f) /\ i \in 0 + 1 .. L /\ ~ (L + 1 < i)
      /\ L + 1 \in 0 + 1 .. Len(f) /\ ~ (L + 1 < L + 1)
      /\ \A i \in 0 + 1 .. L : i \in 1 .. L
  BY <1>1
<1>4. /\ \A j \in 1 .. Len(q) : Between(q[j], s, t) => q[j].n \in h + 1 .. n
      /\ \A i \in 1 .. L : Between(e[i], s, t) => e[i].n \in h + 1 .. n
  BY NumbersBounded
<1> HIDE DEF L
<1>5. \A x \in Nat : InFlight(q, f, 0, s, t, x) <=>
                       InFlight(q, e, 0, s, t, x) \/ (Between(m, s, t) /\ x = m.n)
  BY <1>1, <1>3 DEF InFlight, L
<1>6. Ascending(f, s, t)
  <2> SUFFICES ASSUME NEW i \in 1 .. Len(f), NEW j \in 1 .. Len(f), i < j,
                      Between(f[i], s, t), Between(f[j], s, t)
               PROVE  f[i].n < f[j].n
    BY DEF Ascending
  <2>1. i \in 1 .. L
    BY <1>1
  <2>2. CASE j \in 1 .. L
    BY <1>1, <2>1, <2>2 DEF Kept, Ascending, L
  <2>3. CASE j = L + 1
    <3>1. e[i].n \in h + 1 .. n /\ f[i] = e[i] /\ f[j] = m
      BY <1>1, <1>4, <2>1, <2>3
    <3> QED BY <3>1
  <2> QED BY <1>3, <2>2, <2>3
<1>7. Ahead(q, f, 0, s, t)
  <2> SUFFICES ASSUME NEW j \in 1 .. Len(q), NEW i \in 0 + 1 .. Len(f),
                      Between(q[j], s, t), Between(f[i], s, t)
               PROVE  q[j].n < f[i].n
    BY DEF Ahead
  <2>1. CASE i \in 1 .. L
    BY <1>1, <1>3, <2>1 DEF Kept, Ahead, L
  <2>2. CASE i = L + 1
    <3>1. q[j].n \in h + 1 .. n /\ f[i] = m
      BY <1>1, <1>4, <2>2
    <3> QED BY <3>1
  <2> QED BY <1>3, <2>1, <2>2
<1>8. \A x \in Nat : x \in h + 1 .. n + 1 <=> x \in h + 1 .. n \/ x = n + 1
  BY <1>2
<1>9. h <= n + 1
  BY <1>2
<1>10. CASE Between(m, s, t)
  BY <1>5, <1>6, <1>7, <1>8, <1>9, <1>10 DEF Kept, f
<1>11. CASE ~ Between(m, s, t)
  BY <1>2, <1>5, <1>6, <1>7, <1>11 DEF Kept, f
<1> QED BY <1>10, <1>11

\* A message a task sends goes to the end of a task's queue; none of the
\* external queue is between the same two.
LEMMA SendKeeps ==
  ASSUME NEW e \in Seq(Msg), NEW q \in Seq(Msg), NEW m \in Msg,
         NEW s \in Senders, NEW t \in Tasks, NEW h \in Nat, NEW n \in Nat,
         Kept(q, e, 0, s, t, h, n), Between(m, s, t), m.n = n + 1,
         \A i \in 1 .. Len(e) : ~ Between(e[i], s, t)
  PROVE  Kept(Append(q, m), e, 0, s, t, h, n + 1)
<1> DEFINE L == Len(q)
           r == Append(q, m)
<1>1. /\ r \in Seq(Msg) /\ Len(r) = L + 1 /\ L \in Nat
      /\ \A i \in 1 .. L : r[i] = q[i]
      /\ r[L + 1] = m
  BY AppendProperties
<1>2. h <= n /\ m.n \in Nat
  BY DEF Kept
<1> HIDE DEF r
<1>3. /\ \A i \in 1 .. Len(r) : i \in 1 .. L \/ i = L + 1
      /\ \A i \in 1 .. L : i \in 1 .. Len(r) /\ ~ (L + 1 < i)
      /\ L + 1 \in 1 .. Len(r) /\ ~ (L + 1 < L + 1)
      /\ \A i \in 0 + 1 .. Len(e) : i \in 1 .. Len(e)
  BY <1>1
<1>4. \A j \in 1 .. L : Between(q[j], s, t) => q[j].n \in h + 1 .. n
  BY NumbersBounded
<1> HIDE DEF L
<1>5. \A x \in Nat : InFlight(r, e, 0, s, t, x) <=> InFlight(q, e, 0, s, t, x) \/ x = m.n
  BY <1>1, <1>3 DEF InFlight, L
<1>6. Ascending(r, s, t)
  BY SMTT(30), <1>1, <1>3, <1>4 DEF Kept, Ascending, L
<1>7. Ahead(r, e, 0, s, t)
  BY <1>3 DEF Ahead
<1>8. \A x \in Nat : x \in h + 1 .. n + 1 <=> x \in h + 1 .. n \/ x = n + 1
  BY <1>2
<1>9. h <= n + 1
  BY <1>2
<1> QED BY <1>5, <1>6, <1>7, <1>8, <1>9 DEF Kept, r

\* A message on a task's queue changes nothing between two others.
LEMMA SendOtherKeeps ==
  ASSUME NEW e \in Seq(Msg), NEW q \in Seq(Msg), NEW m \in Msg,
         NEW s \in Senders, NEW t \in Tasks, NEW h \in Nat, NEW n \in Nat,
         Kept(q, e, 0, s, t, h, n), ~ Between(m, s, t)
  PROVE  Kept(Append(q, m), e, 0, s, t, h, n)
<1> DEFINE L == Len(q)
           r == Append(q, m)
<1>1. /\ r \in Seq(Msg) /\ Len(r) = L + 1 /\ L \in Nat
      /\ \A i \in 1 .. L : r[i] = q[i]
      /\ r[L + 1] = m
  BY AppendProperties
<1> HIDE DEF r
<1>2. /\ \A i \in 1 .. Len(r) : i \in 1 .. L \/ i = L + 1
      /\ \A i \in 1 .. L : i \in 1 .. Len(r)
  BY <1>1
<1> HIDE DEF L
<1>3. \A x \in Nat : InFlight(r, e, 0, s, t, x) <=> InFlight(q, e, 0, s, t, x)
  BY <1>1, <1>2 DEF InFlight, L
<1>4. Ascending(r, s, t)
  BY <1>1, <1>2 DEF Kept, Ascending, L
<1>5. Ahead(r, e, 0, s, t)
  BY <1>1, <1>2 DEF Kept, Ahead, L
<1> QED BY <1>3, <1>4, <1>5 DEF Kept, r

\* The message a task takes is the first between the two that is not handled.
LEMMA TakeKeeps ==
  ASSUME NEW e \in Seq(Msg), NEW q \in Seq(Msg), q # <<>>,
         NEW s \in Senders, NEW t \in Tasks, NEW h \in Nat, NEW n \in Nat,
         Kept(q, e, 0, s, t, h, n)
  PROVE  /\ Between(Head(q), s, t) => Kept(Tail(q), e, 0, s, t, h + 1, n)
         /\ ~ Between(Head(q), s, t) => Kept(Tail(q), e, 0, s, t, h, n)
<1> DEFINE L == Len(q)
           r == Tail(q)
           m == Head(q)
<1>1. /\ r \in Seq(Msg) /\ Len(r) = L - 1 /\ L \in Nat /\ L >= 1
      /\ \A i \in 1 .. L - 1 : r[i] = q[i + 1]
      /\ m = q[1] /\ m \in Msg
  BY HeadTailProperties
<1>2. h <= n /\ m.n \in Nat
  BY <1>1 DEF Kept, Msg
<1> HIDE DEF r, m
<1>3. /\ \A i \in 1 .. L : i = 1 \/ (i - 1 \in 1 .. Len(r) /\ r[i - 1] = q[i])
      /\ \A i \in 1 .. Len(r) : i + 1 \in 1 .. L /\ 1 < i + 1 /\ r[i] = q[i + 1]
      /\ 1 \in 1 .. L
      /\ \A i, j \in 1 .. Len(r) : i < j => i + 1 < j + 1
  <2>1. \A i \in 1 .. L : i = 1 \/ (i - 1 \in 1 .. L - 1 /\ (i - 1) + 1 = i)
    BY <1>1
  <2>2. \A i \in 1 .. Len(r) : i + 1 \in 1 .. L /\ 1 < i + 1 /\ r[i] = q[i + 1]
    BY <1>1
  <2> QED BY <1>1, <2>1, <2>2
<1>4. /\ \A j \in 1 .. L : Between(q[j], s, t) => q[j].n \in h + 1 .. n
      /\ \A i \in 1 .. Len(e) : Between(e[i], s, t) => e[i].n \in h + 1 .. n
  BY NumbersBounded
<1>5. /\ \A j \in 1 .. Len(r) : Between(m, s, t) /\ Between(r[j], s, t) => m.n < r[j].n
      /\ \A i \in 0 + 1 .. Len(e) :
           i \in 1 .. Len(e) /\ (Between(m, s, t) /\ Between(e[i], s, t) => m.n < e[i].n)
  BY <1>1, <1>3 DEF Kept, Ascending, Ahead
<1> HIDE DEF L
<1>6. \A x \in Nat : InFlight(q, e, 0, s, t, x) <=>
                       InFlight(r, e, 0, s, t, x) \/ (Between(m, s, t) /\ x = m.n)
  BY ZenonT(60), <1>1, <1>3 DEF InFlight, L
<1>7. Ascending(r, s, t)
  BY <1>3 DEF Kept, Ascending, L
<1>8. Ahead(r, e, 0, s, t)
  BY <1>3 DEF Kept, Ahead, L
<1>9. CASE Between(m, s, t)
  <2>1. \A x \in Nat : InFlight(r, e, 0, s, t, x) => m.n < x
    BY <1>5, <1>9 DEF InFlight
  <2>2. m.n \in h + 1 .. n
    BY <1>2, <1>6, <1>9 DEF Kept
  <2>3. h + 1 \in h + 1 .. n /\ h + 1 \in Nat
    BY <2>2
  <2>4. h + 1 = m.n
    BY <1>2, <1>6, <2>1, <2>2, <2>3 DEF Kept
  <2>5. \A x \in Nat : x \in h + 1 + 1 .. n <=> x \in h + 1 .. n /\ m.n < x
    BY <1>2, <2>4
  <2>6. \A x \in Nat : x \in h + 1 + 1 .. n <=> InFlight(r, e, 0, s, t, x)
    <3> TAKE x \in Nat
    <3>1. ~ (m.n < m.n)
      BY <1>2
    <3> QED BY <1>6, <1>9, <2>1, <2>5, <3>1 DEF Kept
  <2>7. h + 1 <= n
    BY <2>2
  <2> QED BY <1>7, <1>8, <1>9, <2>6, <2>7 DEF Kept, m, r
<1>10. CASE ~ Between(m, s, t)
  BY <1>6, <1>7, <1>8, <1>10 DEF Kept, m, r
<1> QED BY <1>9, <1>10 DEF m

\* Steps of the other threads that put messages.
LEMMA PutOutsideStep ==
  ASSUME MessagesInv, NEW s \in Outside, NEW t \in Tasks, PutOutside(s, t)
  PROVE  MessagesInv'
<1> DEFINE m == Message(s, t)
<1>1. /\ extMsgQueue' = Append(extMsgQueue, m)
      /\ sent' = [sent EXCEPT ![s][t] = @ + 1]
      /\ UNCHANGED <<pc, messageQueue, handled>>
  BY DEF PutOutside, CountSent
<1>2. s \in Senders /\ sent[s][t] \in Nat
  BY DEF Senders, MessagesInv, Counts
<1>3. m \in Msg /\ m.from = s /\ m.to = t /\ m.n = sent[s][t] + 1
  BY <1>2 DEF Message, Msg
<1>4. /\ sent' \in Counts /\ handled' \in Counts /\ messageQueue' \in Queues
      /\ sent'[s][t] = sent[s][t] + 1
      /\ \A s2 \in Senders, t2 \in Tasks :
           ~ (s2 = s /\ t2 = t) => sent'[s2][t2] = sent[s2][t2]
  BY <1>1, <1>2 DEF MessagesInv, Counts
<1> HIDE DEF m
<1>5. /\ extMsgQueue' \in Seq(Msg) /\ Len(extMsgQueue') = Len(extMsgQueue) + 1
      /\ \A i \in 1 .. Len(extMsgQueue) : extMsgQueue'[i] = extMsgQueue[i]
      /\ extMsgQueue'[Len(extMsgQueue) + 1] = m
  BY <1>1, <1>3, AppendProperties DEF MessagesInv
<1>6. \A i \in 1 .. Len(extMsgQueue') : extMsgQueue'[i].from \in Outside
  <2> TAKE i \in 1 .. Len(extMsgQueue')
  <2>1. i \in 1 .. Len(extMsgQueue) \/ i = Len(extMsgQueue) + 1
    BY <1>5
  <2> QED BY <1>3, <1>5, <2>1 DEF MessagesInv
<1>7. ASSUME pc # "ended", NEW s2 \in Senders, NEW t2 \in Tasks
      PROVE  Kept(messageQueue[t2], extMsgQueue', 0, s2, t2, handled[s2][t2], sent'[s2][t2])
  <2>1. /\ Kept(messageQueue[t2], extMsgQueue, 0, s2, t2, handled[s2][t2], sent[s2][t2])
        /\ messageQueue[t2] \in Seq(Msg) /\ extMsgQueue \in Seq(Msg)
        /\ handled[s2][t2] \in Nat /\ sent[s2][t2] \in Nat
    BY <1>7 DEF MessagesInv, KeptAll, Queues, Counts
  <2>2. CASE s2 = s /\ t2 = t
    <3>1. Between(m, s2, t2) /\ m.n = sent[s2][t2] + 1
      BY <1>3, <2>2 DEF Between
    <3> QED BY <1>1, <1>3, <1>4, <2>1, <2>2, <3>1, PutKeeps
  <2>3. CASE ~ (s2 = s /\ t2 = t)
    <3>1. ~ Between(m, s2, t2)
      BY <1>3, <2>3 DEF Between
    <3>2. Kept(messageQueue[t2], extMsgQueue', 0, s2, t2, handled[s2][t2], sent[s2][t2])
      BY <1>1, <1>3, <2>1, <3>1, PutKeeps
    <3> QED BY <1>4, <2>3, <3>2
  <2> QED BY <2>2, <2>3
<1>8. pc' # "ended" => KeptAll(messageQueue, 0)'
  BY <1>1, <1>4, <1>7 DEF MessagesInv, KeptAll
<1> QED BY <1>4, <1>5, <1>6, <1>8 DEF MessagesInv

\* A task takes its first message, and may send one to a task.
LEMMA HandleStep ==
  ASSUME MessagesInv, NEW t \in Tasks, Handle(t)
  PROVE  MessagesInv'
<1> DEFINE m == Head(messageQueue[t])
           rest == [messageQueue EXCEPT ![t] = Tail(@)]
<1>1. /\ pc = "loop" /\ pc' = "wait" /\ messageQueue[t] # <<>>
      /\ handled' = [handled EXCEPT ![m.from][t] = @ + 1]
      /\ extMsgQueue' = extMsgQueue
  BY DEF Handle, Chosen, Waiting
<1>2. /\ sent \in Counts /\ handled \in Counts /\ messageQueue \in Queues
      /\ extMsgQueue \in Seq(Msg) /\ KeptAll(messageQueue, 0)
      /\ \A i \in 1 .. Len(extMsgQueue) : extMsgQueue[i].from \in Outside
  BY <1>1 DEF MessagesInv
<1>3. messageQueue[t] \in Seq(Msg)
  BY <1>2 DEF Queues
<1>4. /\ m \in Msg /\ m.to = t
      /\ Tail(messageQueue[t]) \in Seq(Msg)
      /\ \A j \in 1 .. Len(Tail(messageQueue[t])) : Tail(messageQueue[t])[j].to = t
  <2>1. /\ m = messageQueue[t][1] /\ m \in Msg
        /\ Tail(messageQueue[t]) \in Seq(Msg)
        /\ Len(messageQueue[t]) \in Nat /\ Len(messageQueue[t]) >= 1
        /\ Len(Tail(messageQueue[t])) = Len(messageQueue[t]) - 1
        /\ \A j \in 1 .. Len(messageQueue[t]) - 1 :
             Tail(messageQueue[t])[j] = messageQueue[t][j + 1]
    BY <1>1, <1>3, HeadTailProperties
  <2>2. \A j \in 1 .. Len(messageQueue[t]) : messageQueue[t][j].to = t
    BY <1>2 DEF KeptAll
  <2> QED BY <2>1, <2>2
<1>5. m.from \in Senders
  BY <1>4 DEF Msg
<1>6. /\ handled' \in Counts /\ handled'[m.from][t] = handled[m.from][t] + 1
      /\ \A s2 \in Senders, t2 \in Tasks :
           ~ (s2 = m.from /\ t2 = t) => handled'[s2][t2] = handled[s2][t2]
  BY <1>1, <1>2, <1>5 DEF Counts
<1>7. rest \in Queues /\ rest[t] = Tail(messageQueue[t])
      /\ \A t2 \in Tasks : t2 # t => rest[t2] = messageQueue[t2]
  BY <1>2, <1>4 DEF Queues
<1> HIDE DEF m, rest
<1>8. ASSUME NEW s2 \in Senders, NEW t2 \in Tasks
      PROVE  Kept(rest[t2], extMsgQueue, 0, s2, t2, handled'[s2][t2], sent[s2][t2])
  <2>1. /\ Kept(messageQueue[t2], extMsgQueue, 0, s2, t2, handled[s2][t2], sent[s2][t2])
        /\ messageQueue[t2] \in Seq(Msg)
        /\ handled[s2][t2] \in Nat /\ sent[s2][t2] \in Nat
    BY <1>2 DEF KeptAll, Queues, Counts
  <2>2. CASE t2 # t
    BY <1>6, <1>7, <2>1, <2>2
  <2>3. CASE t2 = t /\ s2 = m.from
    <3>1. Between(Head(messageQueue[t2]), s2, t2)
      BY <1>4, <2>3 DEF Between, m
    <3>2. Kept(Tail(messageQueue[t2]), extMsgQueue, 0, s2, t2, handled[s2][t2] + 1,
               sent[s2][t2])
      BY <1>1, <1>2, <2>1, <2>3, <3>1, TakeKeeps
    <3> QED BY <1>6, <1>7, <2>3, <3>2
  <2>4. CASE t2 = t /\ s2 # m.from
    <3>1. ~ Between(Head(messageQueue[t2]), s2, t2)
      BY <2>4 DEF Between, m
    <3>2. Kept(Tail(messageQueue[t2]), extMsgQueue, 0, s2, t2, handled[s2][t2],
               sent[s2][t2])
      BY <1>1, <1>2, <2>1, <2>4, <3>1, TakeKeeps
    <3> QED BY <1>6, <1>7, <2>4, <3>2
  <2> QED BY <2>2, <2>3, <2>4
<1>9. \A t2 \in Tasks : \A j \in 1 .. Len(rest[t2]) : rest[t2][j].to = t2
  BY ZenonT(60), <1>2, <1>4, <1>7 DEF KeptAll
<1>10. CASE messageQueue' = rest /\ sent' = sent
  <2>1. KeptAll(messageQueue, 0)'
    BY <1>1, <1>7, <1>8, <1>9, <1>10 DEF KeptAll
  <2> QED BY <1>1, <1>2, <1>6, <1>7, <1>10, <2>1 DEF MessagesInv
<1>11. ASSUME NEW u \in Tasks, CountSent(t, u),
              messageQueue' = [rest EXCEPT ![u] = Append(@, Message(t, u))]
       PROVE  MessagesInv'
  <2> DEFINE w == Message(t, u)
  <2>1. t \in Senders /\ sent[t][u] \in Nat
    BY <1>2 DEF Senders, Counts
  <2>2. w \in Msg /\ w.from = t /\ w.to = u /\ w.n = sent[t][u] + 1
    BY <2>1 DEF Message, Msg
  <2>3. /\ sent' \in Counts /\ sent'[t][u] = sent[t][u] + 1
        /\ \A s2 \in Senders, t2 \in Tasks :
             ~ (s2 = t /\ t2 = u) => sent'[s2][t2] = sent[s2][t2]
    BY <1>2, <1>11, <2>1 DEF CountSent, Counts
  <2> HIDE DEF w
  <2>4. messageQueue' = Stored(rest, w)
    BY <1>11, <2>2 DEF Stored, w
  <2>5. /\ messageQueue' \in Queues /\ messageQueue'[u] = Append(rest[u], w)
        /\ \A t2 \in Tasks : t2 # u => messageQueue'[t2] = rest[t2]
    BY <1>7, <2>2, <2>4, StoredTyped
  <2>6. rest[u] \in Seq(Msg) /\ Append(rest[u], w) \in Seq(Msg)
        /\ Len(Append(rest[u], w)) = Len(rest[u]) + 1
        /\ \A j \in 1 .. Len(rest[u]) : Append(rest[u], w)[j] = rest[u][j]
        /\ Append(rest[u], w)[Len(rest[u]) + 1] = w
    <3>1. rest[u] \in Seq(Msg)
      BY <1>7 DEF Queues
    <3> QED BY <2>2, <3>1, AppendProperties
  <2>7. ASSUME NEW s2 \in Senders, NEW t2 \in Tasks
        PROVE  Kept(messageQueue'[t2], extMsgQueue, 0, s2, t2, handled'[s2][t2], sent'[s2][t2])
    <3>1. /\ Kept(rest[t2], extMsgQueue, 0, s2, t2, handled'[s2][t2], sent[s2][t2])
          /\ rest[t2] \in Seq(Msg)
          /\ handled'[s2][t2] \in Nat /\ sent[s2][t2] \in Nat
      BY <1>2, <1>6, <1>7, <1>8 DEF Queues, Counts
    <3>2. CASE t2 # u
      BY <2>3, <2>5, <3>1, <3>2
    <3>3. CASE t2 = u /\ s2 = t
      <4>1. Between(w, s2, t2) /\ w.n = sent[s2][t2] + 1
        BY <2>2, <3>3 DEF Between
      <4>2. \A i \in 1 .. Len(extMsgQueue) : ~ Between(extMsgQueue[i], s2, t2)
        BY <1>2, <3>3, MessageAssumption DEF Between, Tasks
      <4>3. Kept(Append(rest[t2], w), extMsgQueue, 0, s2, t2, handled'[s2][t2],
                 sent[s2][t2] + 1)
        BY <1>2, <2>2, <3>1, <4>1, <4>2, SendKeeps
      <4> QED BY <2>3, <2>5, <3>3, <4>3
    <3>4. CASE t2 = u /\ s2 # t
      <4>1. ~ Between(w, s2, t2)
        BY <2>2, <3>4 DEF Between
      <4>2. Kept(Append(rest[t2], w), extMsgQueue, 0, s2, t2, handled'[s2][t2],
                 sent[s2][t2])
        BY <1>2, <2>2, <3>1, <4>1, SendOtherKeeps
      <4> QED BY <2>3, <2>5, <3>4, <4>2
    <3> QED BY <3>2, <3>3, <3>4
  <2>8. ASSUME NEW t2 \in Tasks, NEW j \in 1 .. Len(messageQueue'[t2])
        PROVE  messageQueue'[t2][j].to = t2
    <3>1. CASE t2 # u
      BY <1>9, <2>5, <2>8, <3>1
    <3>2. CASE t2 = u
      <4>1. j \in 1 .. Len(rest[u]) \/ j = Len(rest[u]) + 1
        BY <2>5, <2>6, <2>8, <3>2
      <4> QED BY <1>9, <2>2, <2>5, <2>6, <3>2, <4>1
    <3> QED BY <3>1, <3>2
  <2>9. KeptAll(messageQueue, 0)'
    BY <1>1, <2>5, <2>7, <2>8 DEF KeptAll
  <2> QED BY <1>1, <1>2, <1>6, <2>3, <2>5, <2>9 DEF MessagesInv
<1> QED BY <1>10, <1>11 DEF Handle, rest

\* The thread moves the external queue.
LEMMA DrainStep ==
  ASSUME MessagesInv, Drain, UNCHANGED <<sent, handled>>, pc # "ended"
  PROVE  MessagesInv'
<1> DEFINE L == Len(extMsgQueue)
<1>1. messageQueue' = Drained /\ extMsgQueue' = <<>>
  BY DEF Drain
<1>2. KeptAll(Drained, L) /\ L \in Nat
  BY DrainKeeps DEF MessagesInv
<1>3. Len(extMsgQueue') = 0 /\ extMsgQueue' \in Seq(Msg)
  BY <1>1
<1> HIDE DEF L
<1>4. L + 1 .. Len(extMsgQueue) = {} /\ 0 + 1 .. Len(extMsgQueue') = {}
  BY <1>2, <1>3 DEF L
<1>5. ASSUME NEW s \in Senders, NEW t \in Tasks
      PROVE  Kept(Drained[t], extMsgQueue', 0, s, t, handled[s][t], sent[s][t])
  <2>1. Kept(Drained[t], extMsgQueue, L, s, t, handled[s][t], sent[s][t])
    BY <1>2 DEF KeptAll
  <2>2. \A x : InFlight(Drained[t], extMsgQueue, L, s, t, x)
                 <=> InFlight(Drained[t], extMsgQueue', 0, s, t, x)
    BY <1>4 DEF InFlight
  <2>3. Ascending(extMsgQueue', s, t) /\ Ahead(Drained[t], extMsgQueue', 0, s, t)
    BY <1>3, <1>4 DEF Ascending, Ahead
  <2> QED BY <2>1, <2>2, <2>3 DEF Kept
<1>6. KeptAll(messageQueue, 0)'
  BY <1>1, <1>2, <1>5 DEF KeptAll
<1>7. messageQueue' \in Queues
  BY <1>1, <1>2 DEF KeptAll
<1>8. \A i \in 1 .. Len(extMsgQueue') : extMsgQueue'[i].from \in Outside
  BY <1>3
<1> QED BY <1>3, <1>6, <1>7, <1>8 DEF MessagesInv

\* Every step keeps the messages and their order.
LEMMA MessagesStep ==
  ASSUME MessagesInv, [Next]_vars
  PROVE  MessagesInv'
<1>1. ASSUME NEW s \in Outside, NEW t \in Tasks, PutOutside(s, t)
      PROVE  MessagesInv'
  BY <1>1, PutOutsideStep
<1>2. ASSUME NEW t \in Tasks, Handle(t)
      PROVE  MessagesInv'
  BY <1>2, HandleStep
<1>3. ASSUME UNCHANGED <<messageQueue, extMsgQueue, sent, handled>>,
             pc = "ended" => pc' = "ended"
      PROVE  MessagesInv'
  BY <1>3 DEF MessagesInv, KeptAll
<1>4. CASE MessagesFromOutside
  <2>1. UNCHANGED <<sent, handled>> /\ pc = "events"
    BY <1>4 DEF MessagesFromOutside, countVars
  <2>2. CASE EXT_MSG_EVENT \in taken
    BY <1>4, <2>1, <2>2, DrainStep DEF MessagesFromOutside
  <2>3. CASE EXT_MSG_EVENT \notin taken
    BY <1>3, <1>4, <2>1, <2>3 DEF MessagesFromOutside, queueVars
  <2> QED BY <2>2, <2>3
<1>5. CASE Deinit
  <2>1. UNCHANGED <<sent, handled>> /\ pc = "stopped"
    BY <1>5 DEF Deinit, countVars
  <2>2. CASE DEINIT_REQ_EVENT \in bits
    <3>1. pc' = "ended" /\ messageQueue' = [t \in Tasks |-> <<>>] /\ extMsgQueue' = <<>>
      BY <1>5, <2>2 DEF Deinit
    <3>2. messageQueue' \in Queues /\ extMsgQueue' \in Seq(Msg) /\ Len(extMsgQueue') = 0
      BY <3>1 DEF Queues
    <3> QED BY <2>1, <3>1, <3>2 DEF MessagesInv
  <2>3. CASE DEINIT_REQ_EVENT \notin bits
    BY <1>3, <1>5, <2>1, <2>3 DEF Deinit
  <2> QED BY <2>2, <2>3
<1>6. ASSUME NEW s \in Outside, Signal(s)
      PROVE  MessagesInv'
  BY <1>3, <1>6 DEF Signal, queueVars, countVars
<1>7. CASE DriverDecides \/ CsrSchedBgintSet \/ Stopper
  BY <1>3, <1>7
  DEF DriverDecides, CsrSchedBgintSet, Stopper, CsrSchedStop, ThreadStopped,
      TasksDeinit, queueVars, countVars
<1>8. CASE Start \/ NothingToHandle \/ Wait
  BY <1>3, <1>8 DEF Start, NothingToHandle, Wait, queueVars, countVars
<1>9. ASSUME NEW i \in Irqs, RunBgint(i)
      PROVE  MessagesInv'
  BY <1>3, <1>9 DEF RunBgint, queueVars, countVars
<1>10. CASE UNCHANGED vars
  BY <1>3, <1>10 DEF vars, queueVars, countVars
<1> QED
  BY <1>1, <1>2, <1>4, <1>5, <1>6, <1>7, <1>8, <1>9, <1>10 DEF Next, Thread

\* The invariant says of the two queues what the property says of them as one.
LEMMA KeptIsInOrder ==
  ASSUME MessagesInv
  PROVE  InOrder
<1> SUFFICES ASSUME pc # "ended", NEW s \in Senders, NEW t \in Tasks
             PROVE  /\ {Underway(t)[k].n : k \in Places(s, t)}
                          = handled[s][t] + 1 .. sent[s][t]
                    /\ \A j, k \in Places(s, t) :
                         j < k => Underway(t)[j].n < Underway(t)[k].n
  BY DEF InOrder
<1> DEFINE q == messageQueue[t]
           e == extMsgQueue
           w == Underway(t)
           h == handled[s][t]
           n == sent[s][t]
<1>1. /\ q \in Seq(Msg) /\ e \in Seq(Msg) /\ h \in Nat /\ n \in Nat
      /\ Kept(q, e, 0, s, t, h, n)
  BY DEF MessagesInv, KeptAll, Queues, Counts
<1>2. /\ w \in Seq(Msg) /\ Len(w) = Len(q) + Len(e)
      /\ \A k \in 1 .. Len(q) + Len(e) :
           w[k] = IF k <= Len(q) THEN q[k] ELSE e[k - Len(q)]
  BY <1>1, ConcatProperties DEF Underway
<1>3. Places(s, t) = {k \in 1 .. Len(w) : Between(w[k], s, t)}
  BY DEF Places, Between
<1> HIDE DEF q, e, w, h, n
<1>4. /\ Len(q) \in Nat /\ Len(e) \in Nat
      /\ \A k \in 1 .. Len(w) :
           \/ k \in 1 .. Len(q) /\ w[k] = q[k]
           \/ k > Len(q) /\ k - Len(q) \in 1 .. Len(e) /\ w[k] = e[k - Len(q)]
      /\ \A i \in 1 .. Len(q) : i \in 1 .. Len(w) /\ w[i] = q[i]
      /\ \A i \in 0 + 1 .. Len(e) :
           /\ Len(q) + i \in 1 .. Len(w) /\ w[Len(q) + i] = e[i]
      /\ \A i \in 1 .. Len(e) : i \in 0 + 1 .. Len(e)
  <2>1. Len(q) \in Nat /\ Len(e) \in Nat
    BY <1>1
  <2>2. ASSUME NEW i \in 0 + 1 .. Len(e)
        PROVE  Len(q) + i \in 1 .. Len(w) /\ w[Len(q) + i] = e[i]
    <3>1. Len(q) + i \in 1 .. Len(q) + Len(e) /\ ~ (Len(q) + i <= Len(q))
          /\ (Len(q) + i) - Len(q) = i
      BY <2>1
    <3> QED BY <1>2, <3>1
  <2>3. \A i \in 1 .. Len(q) : i \in 1 .. Len(w) /\ w[i] = q[i]
    BY <1>2, <2>1
  <2>4. ASSUME NEW k \in 1 .. Len(w)
        PROVE  \/ k \in 1 .. Len(q) /\ w[k] = q[k]
               \/ k > Len(q) /\ k - Len(q) \in 1 .. Len(e) /\ w[k] = e[k - Len(q)]
    BY <1>2, <2>1
  <2> QED BY <2>1, <2>2, <2>3, <2>4
<1>5. \A m \in Msg : m.n \in Nat
  BY DEF Msg
<1>6. {w[k].n : k \in Places(s, t)} = h + 1 .. n
  <2>1. ASSUME NEW k \in Places(s, t)
        PROVE  w[k].n \in h + 1 .. n
    <3>1. k \in 1 .. Len(w) /\ Between(w[k], s, t)
      BY <1>3
    <3>2. /\ \A j \in 1 .. Len(q) : Between(q[j], s, t) => q[j].n \in h + 1 .. n
          /\ \A i \in 1 .. Len(e) : Between(e[i], s, t) => e[i].n \in h + 1 .. n
      BY <1>1, NumbersBounded
    <3> QED BY <1>4, <3>1, <3>2
  <2>2. ASSUME NEW x \in h + 1 .. n
        PROVE  \E k \in Places(s, t) : w[k].n = x
    <3>1. InFlight(q, e, 0, s, t, x)
      BY <1>1 DEF Kept
    <3>2. CASE \E j \in 1 .. Len(q) : Between(q[j], s, t) /\ q[j].n = x
      BY <1>3, <1>4, <3>2
    <3>3. CASE \E i \in 0 + 1 .. Len(e) : Between(e[i], s, t) /\ e[i].n = x
      <4>1. PICK i \in 0 + 1 .. Len(e) : Between(e[i], s, t) /\ e[i].n = x
        BY <3>3
      <4>2. Len(q) + i \in 1 .. Len(w) /\ w[Len(q) + i] = e[i]
        BY <1>4
      <4>3. Len(q) + i \in Places(s, t)
        BY <1>3, <4>1, <4>2
      <4> QED BY <4>1, <4>2, <4>3
    <3> QED BY <3>1, <3>2, <3>3 DEF InFlight
  <2> QED BY <2>1, <2>2
<1>7. ASSUME NEW j \in Places(s, t), NEW k \in Places(s, t), j < k
      PROVE  w[j].n < w[k].n
  <2>1. /\ j \in 1 .. Len(w) /\ Between(w[j], s, t)
        /\ k \in 1 .. Len(w) /\ Between(w[k], s, t)
    BY <1>3
  <2>2. CASE k \in 1 .. Len(q) /\ w[k] = q[k]
    <3>1. j \in 1 .. Len(q) /\ w[j] = q[j]
      BY <1>4, <1>7, <2>1, <2>2
    <3> QED BY <1>1, <1>7, <2>1, <2>2, <3>1 DEF Kept, Ascending
  <2>3. CASE k > Len(q) /\ k - Len(q) \in 1 .. Len(e) /\ w[k] = e[k - Len(q)]
    <3>1. CASE j \in 1 .. Len(q) /\ w[j] = q[j]
      <4>1. k - Len(q) \in 0 + 1 .. Len(e)
        BY <2>3
      <4> QED BY <1>1, <2>1, <2>3, <3>1, <4>1 DEF Kept, Ahead
    <3>2. CASE j > Len(q) /\ j - Len(q) \in 1 .. Len(e) /\ w[j] = e[j - Len(q)]
      <4>1. j - Len(q) < k - Len(q)
        BY <1>4, <1>7, <2>1
      <4> QED BY <1>1, <2>1, <2>3, <3>2, <4>1 DEF Kept, Ascending
    <3> QED BY <1>4, <2>1, <3>1, <3>2
  <2> QED BY <1>4, <2>1, <2>2, <2>3
<1> QED BY <1>6, <1>7 DEF w, h, n

\* However messages are put from outside and between tasks, and whenever the
\* thread moves its external queue, each task gets the messages of each sender
\* complete, once and in the order they were put (do_put_message,
\* CsrSchedMessageGet).
THEOREM MessagesInOrder == Spec => []InOrder
<1>1. Init => MessagesInv
  <2> SUFFICES ASSUME Init PROVE MessagesInv
    OBVIOUS
  <2>1. /\ extMsgQueue = <<>> /\ messageQueue = [t \in Tasks |-> <<>>]
        /\ sent = [s \in Senders |-> [t \in Tasks |-> 0]] /\ handled = sent
    BY DEF Init
  <2>2. /\ sent \in Counts /\ handled \in Counts
        /\ messageQueue \in Queues /\ extMsgQueue \in Seq(Msg)
        /\ Len(extMsgQueue) = 0 /\ \A t \in Tasks : Len(messageQueue[t]) = 0
    BY <2>1 DEF Counts, Queues
  <2>3. ASSUME NEW s \in Senders, NEW t \in Tasks
        PROVE  Kept(messageQueue[t], extMsgQueue, 0, s, t, handled[s][t], sent[s][t])
    <3>1. handled[s][t] = 0 /\ sent[s][t] = 0
      BY <2>1
    <3>2. 1 .. Len(messageQueue[t]) = {} /\ 1 .. Len(extMsgQueue) = {}
          /\ 0 + 1 .. Len(extMsgQueue) = {} /\ 0 + 1 .. 0 = {} /\ 0 <= 0
      BY <2>2
    <3> QED BY <3>1, <3>2 DEF Kept, InFlight, Ascending, Ahead
  <2>4. KeptAll(messageQueue, 0)
    BY <2>2, <2>3 DEF KeptAll
  <2> QED BY <2>2, <2>4 DEF MessagesInv
<1>2. MessagesInv /\ [Next]_vars => MessagesInv'
  BY MessagesStep
<1>3. MessagesInv => InOrder
  BY KeptIsInOrder
<1> QED BY <1>1, <1>2, <1>3, PTL DEF Spec
=============================================================================
