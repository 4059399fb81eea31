--------------------------- MODULE SchedMessages ---------------------------
(***************************************************************************)
(* The messages, background interrupts and shutdown of the microstack's    *)
(* scheduler (csr_sched.c): one thread runs the tasks, other threads put   *)
(* messages into its external queue and set bits of its event.             *)
(*                                                                         *)
(* No timer is pending: a time-out would wake the thread and hide a        *)
(* wake-up that was lost.                                                  *)
(***************************************************************************)
EXTENDS Naturals, Sequences, SequencesExt, FiniteSets

CONSTANTS
  NumTasks,    \* tasks of the scheduler
  Outside,     \* threads that put messages from outside
  Irqs,        \* background interrupts, below BGINT_COUNT
  MaxMsg,      \* bound: messages of an outside thread
  MaxOwn,      \* bound: messages of all tasks
  MaxReg,      \* bound: registrations of a background interrupt
  LateSetters  \* a driver may still be about to set an interrupt it lost

\* A task is none of the outside threads.
ASSUME MessageAssumption ==
  /\ NumTasks \in Nat \ {0}
  /\ Outside \cap (1 .. NumTasks) = {}
  /\ MaxMsg \in Nat /\ MaxOwn \in 0 .. MaxMsg /\ MaxReg \in Nat
  /\ Irqs \subseteq 0 .. 15 /\ LateSetters \in BOOLEAN

Tasks == 1 .. NumTasks
NoIrq == 65535   \* CSR_SCHED_BGINT_INVALID

\* The bits of an event, by their position; 0 .. 15 are the interrupts.
EXT_MSG_EVENT == 18
START_EVENT == 19
STOP_REQ_EVENT == 20
STOP_CFM_EVENT == 21
DEINIT_REQ_EVENT == 22
DEINIT_CFM_EVENT == 23

VARIABLES
  bits,        \* eventHandle of the thread
  taken,       \* eventBits that CsrEventWait returned
  pc,          \* where the thread is
  extMsgQueue, \* messages for the thread's tasks, put from outside
  messageQueue,\* the queue of each task
  pendingMessages,
  turn,        \* the task that is considered first
  handler,     \* bgint[irq].handler
  registered,  \* the interrupts that drivers were given
  setting,     \* the interrupt a driver's thread is about to set
  signalling,  \* outside threads between the queue and the event
  stopper,     \* the thread in CsrSchedStop
  stopCfm,     \* eventHandle of the instance
  sent, handled, \* messages per sender and task, for the properties
  passedOver,  \* messages handled since a waiting task was last served
  regs, owed, badCall

queueVars == <<extMsgQueue, messageQueue, pendingMessages, turn>>
bgintVars == <<handler, registered, setting, regs, owed, badCall>>
stopVars == <<stopper, stopCfm>>
countVars == <<sent, handled, passedOver>>
vars == <<bits, taken, pc, queueVars, bgintVars, signalling, stopVars, countVars>>

\* Tasks send from the thread itself.
Senders == Outside \cup Tasks
Message(s, t) == [from |-> s, to |-> t, n |-> sent[s][t] + 1]

Init ==
  /\ bits = {START_EVENT} /\ taken = {} /\ pc = "start"
  /\ extMsgQueue = <<>> /\ messageQueue = [t \in Tasks |-> <<>>]
  /\ pendingMessages = 0 /\ turn = 1
  /\ handler = [i \in Irqs |-> "none"] /\ registered = {} /\ setting = NoIrq
  /\ regs = 0 /\ owed = {} /\ badCall = FALSE
  /\ signalling = {}
  /\ stopper = "no" /\ stopCfm = {}
  /\ sent = [s \in Senders |-> [t \in Tasks |-> 0]]
  /\ handled = sent
  /\ passedOver = [t \in Tasks |-> 0]

SentBy(s) == FoldFunction(+, 0, sent[s])
MaySend(s) ==
  IF s \in Outside THEN SentBy(s) < MaxMsg
  ELSE FoldFunction(+, 0, [t \in Tasks |-> SentBy(t)]) < MaxOwn
CountSent(s, t) == sent' = [sent EXCEPT ![s][t] = @ + 1]

-----------------------------------------------------------------------------
(* Other threads.                                                          *)

\* do_put_message to another thread: the message is queued under the mutex
\* and then ...
PutOutside(s, t) ==
  /\ stopper # "done"
  /\ s \notin signalling
  /\ MaySend(s) /\ CountSent(s, t)
  /\ extMsgQueue' = Append(extMsgQueue, Message(s, t))
  /\ signalling' = signalling \cup {s}
  /\ UNCHANGED <<bits, taken, pc, messageQueue, pendingMessages, turn, bgintVars,
                 stopVars, handled, passedOver>>

\* ... the thread is signalled.
Signal(s) ==
  /\ s \in signalling
  /\ signalling' = signalling \ {s}
  /\ bits' = bits \cup {EXT_MSG_EVENT}
  /\ UNCHANGED <<taken, pc, queueVars, bgintVars, stopVars, countVars>>

\* A thread of the driver decides to set its interrupt and then does.
DriverDecides ==
  /\ setting = NoIrq
  /\ setting' \in registered
  /\ UNCHANGED <<bits, taken, pc, queueVars, handler, registered, regs, owed,
                 badCall, signalling, stopVars, countVars>>

CsrSchedBgintSet ==
  /\ setting # NoIrq
  /\ bits' = bits \cup {setting}
  /\ setting' = NoIrq
  /\ owed' = owed \cup ({setting} \cap registered)
  /\ UNCHANGED <<taken, pc, queueVars, handler, registered, regs, badCall,
                 signalling, stopVars, countVars>>

\* CsrSchedStop and processStopEvt, on a thread of their own.
CsrSchedStop ==
  /\ stopper = "no" /\ pc # "start"
  /\ stopper' = "stopping"
  /\ bits' = bits \cup {STOP_REQ_EVENT}
  /\ UNCHANGED <<taken, pc, queueVars, bgintVars, signalling, stopCfm, countVars>>

ThreadStopped ==
  /\ stopper = "stopping" /\ STOP_CFM_EVENT \in stopCfm
  /\ stopper' = "deinit"
  /\ stopCfm' = {}
  /\ bits' = bits \cup {DEINIT_REQ_EVENT}
  /\ UNCHANGED <<taken, pc, queueVars, bgintVars, signalling, countVars>>

TasksDeinit ==
  /\ stopper = "deinit" /\ DEINIT_CFM_EVENT \in stopCfm
  /\ stopper' = "done"
  /\ stopCfm' = {}
  /\ UNCHANGED <<bits, taken, pc, queueVars, bgintVars, signalling, countVars>>

-----------------------------------------------------------------------------
(* What a task does in its handler.                                        *)

FreeIrq(i) == handler[i] = "none" /\ \A j \in Irqs : j < i => handler[j] # "none"

CsrSchedBgintReg(i) ==
  /\ regs < MaxReg
  /\ FreeIrq(i)
  /\ handler' = [handler EXCEPT ![i] = "user"]
  /\ registered' = registered \cup {i}
  /\ regs' = regs + 1
  /\ UNCHANGED <<bits, setting, owed, badCall>>

\* Mutant: the entry is freed at once.
FreedAtOnce(i) ==
  /\ i \in registered
  /\ ~ LateSetters => setting # i
  /\ handler' = [handler EXCEPT ![i] = "none"]
  /\ registered' = registered \ {i}
  /\ owed' = owed \ {i}
  /\ UNCHANGED <<bits, setting, regs, badCall>>

\* The handler is replaced by bgintRemove, which the interrupt itself runs.
\* A driver that is stopped in time sets nothing after this.
CsrSchedBgintUnreg(i) ==
  /\ i \in registered
  /\ ~ LateSetters => setting # i
  /\ handler' = [handler EXCEPT ![i] = "remove"]
  /\ bits' = bits \cup {i}
  /\ registered' = registered \ {i}
  /\ owed' = owed \ {i}
  /\ UNCHANGED <<setting, regs, badCall>>

TaskUsesBgint ==
  \/ \E i \in Irqs : CsrSchedBgintReg(i) \/ CsrSchedBgintUnreg(i)
  \/ UNCHANGED <<bits, bgintVars>>

-----------------------------------------------------------------------------
(* The thread: CsrSchedLoop.                                               *)

\* Mutant: the signals before START_EVENT are not passed on.
StartForgetsSignals ==
  /\ pc = "start" /\ bits # {}
  /\ bits' = {}
  /\ pc' = "loop"
  /\ UNCHANGED <<taken, queueVars, bgintVars, signalling, stopVars, countVars>>

\* The first wait: signals that came before START_EVENT are passed on to the
\* loop.  The initialisers of the tasks run.
Start ==
  /\ pc = "start" /\ bits # {}
  /\ bits' = bits \ {START_EVENT}
  /\ pc' = "loop"
  /\ UNCHANGED <<taken, queueVars, bgintVars, signalling, stopVars, countVars>>

Waiting(t) == messageQueue[t] # <<>>

\* The tasks in the order in which they are considered.
Distance(t) == IF t >= turn THEN t - turn ELSE t + NumTasks - turn
\* Mutant: the tasks are considered from the first each time.
ChosenFromFirst(t) == Waiting(t) /\ \A u \in Tasks : Waiting(u) => t <= u

Chosen(t) == Waiting(t) /\ \A u \in Tasks : Waiting(u) => Distance(t) <= Distance(u)

\* One task's handler runs and takes one message (CsrSchedMessageGet).  The
\* scheduler would let it take more, but no task registered in bt_utils.c does
\* before its deinitialiser: each handler has one CsrSchedMessageGet and no
\* loop around it.  It may put a message to a task of its own thread, or use
\* background interrupts.
Handle(t) ==
  LET m == Head(messageQueue[t])
      rest == [messageQueue EXCEPT ![t] = Tail(@)]
  IN  /\ pc = "loop" /\ pendingMessages > 0
      /\ Chosen(t)
      /\ handled' = [handled EXCEPT ![m.from][t] = @ + 1]
      /\ passedOver' = [u \in Tasks |->
           IF u # t /\ Waiting(u) THEN passedOver[u] + 1 ELSE 0]
      /\ turn' = IF t = NumTasks THEN 1 ELSE t + 1
      /\ \/ /\ messageQueue' = rest
            /\ pendingMessages' = pendingMessages - 1
            /\ sent' = sent
            /\ TaskUsesBgint
         \/ \E u \in Tasks :
              /\ MaySend(t) /\ CountSent(t, u)
              /\ messageQueue' = [rest EXCEPT ![u] = Append(@, Message(t, u))]
              /\ pendingMessages' = pendingMessages
              /\ UNCHANGED <<bits, bgintVars>>
      /\ pc' = "wait"
      /\ UNCHANGED <<taken, extMsgQueue, signalling, stopVars>>

NothingToHandle ==
  /\ pc = "loop" /\ pendingMessages = 0
  /\ pc' = "wait"
  /\ UNCHANGED <<bits, taken, queueVars, bgintVars, signalling, stopVars, countVars>>

\* CsrEventWait: for ever, or a poll while messages are pending.  It clears the
\* bits it returns.
Wait ==
  /\ pc = "wait"
  /\ bits # {} \/ pendingMessages > 0
  /\ taken' = bits
  /\ bits' = {}
  /\ pc' = "events"
  /\ UNCHANGED <<queueVars, bgintVars, signalling, stopVars, countVars>>

SetIrqs == taken \cap Irqs

\* The handlers of the interrupts that are set, lowest first.  bgintRemove
\* frees the entry.
RunBgint(i) ==
  /\ pc = "events"
  /\ i \in SetIrqs /\ \A j \in SetIrqs : i <= j
  /\ taken' = taken \ {i}
  /\ handler' = [handler EXCEPT ![i] = IF @ = "remove" THEN "none" ELSE @]
  /\ badCall' = (badCall \/ handler[i] = "none")
  /\ owed' = IF handler[i] = "user" THEN owed \ {i} ELSE owed
  /\ UNCHANGED <<bits, pc, queueVars, registered, setting, regs, signalling,
                 stopVars, countVars>>

\* Mutant: a message is put in front of its receiver's chain.
StoredInFront(queues, m) == [queues EXCEPT ![m.to] = <<m>> \o @]

\* A message goes on the end of its receiver's chain.
Stored(queues, m) == [queues EXCEPT ![m.to] = Append(@, m)]

\* The queues of the tasks after the messages of the external queue, one by one.
Drained ==
  LET queues[k \in 0 .. Len(extMsgQueue)] ==
        IF k = 0 THEN messageQueue ELSE Stored(queues[k - 1], extMsgQueue[k])
  IN  queues[Len(extMsgQueue)]

\* The external queue is moved to the queues of the tasks, under the mutex.
Drain ==
  /\ messageQueue' = Drained
  /\ pendingMessages' = pendingMessages + Len(extMsgQueue)
  /\ extMsgQueue' = <<>>
  /\ UNCHANGED turn

\* After the interrupts come the messages, then a request to stop.
MessagesFromOutside ==
  /\ pc = "events" /\ SetIrqs = {}
  /\ IF EXT_MSG_EVENT \in taken THEN Drain ELSE UNCHANGED queueVars
  /\ IF STOP_REQ_EVENT \in taken
     THEN pc' = "stopped" /\ stopCfm' = stopCfm \cup {STOP_CFM_EVENT}
     ELSE pc' = "loop" /\ UNCHANGED stopCfm
  /\ taken' = {}
  /\ UNCHANGED <<bits, bgintVars, signalling, stopper, countVars>>

\* The stopped thread waits to be told to run the deinitialisers of its tasks,
\* which take what is left in their queues.
Deinit ==
  /\ pc = "stopped" /\ bits # {}
  /\ bits' = {}
  /\ IF DEINIT_REQ_EVENT \in bits
     THEN /\ pc' = "ended"
          /\ stopCfm' = stopCfm \cup {DEINIT_CFM_EVENT}
          /\ messageQueue' = [t \in Tasks |-> <<>>]
          /\ extMsgQueue' = <<>>
          /\ pendingMessages' = 0
     ELSE UNCHANGED <<pc, stopCfm, messageQueue, extMsgQueue, pendingMessages>>
  /\ UNCHANGED <<taken, turn, bgintVars, signalling, stopper, countVars>>

Thread ==
  \/ Start
  \/ \E t \in Tasks : Handle(t)
  \/ NothingToHandle
  \/ Wait
  \/ \E i \in Irqs : RunBgint(i)
  \/ MessagesFromOutside
  \/ Deinit

Stopper == CsrSchedStop \/ ThreadStopped \/ TasksDeinit

Next ==
  \/ \E s \in Outside, t \in Tasks : PutOutside(s, t)
  \/ \E s \in Outside : Signal(s)
  \/ DriverDecides \/ CsrSchedBgintSet
  \/ Stopper
  \/ Thread

Spec == Init /\ [][Next]_vars

\* Every thread of the process is scheduled: the microstack's own, one between
\* a queue and its signal, one about to set an interrupt, one that waits for
\* the scheduler to stop.  Nothing makes a thread send or stop.
Fairness ==
  /\ WF_vars(Thread)
  /\ \A s \in Outside : WF_vars(Signal(s))
  /\ WF_vars(CsrSchedBgintSet)
  /\ WF_vars(ThreadStopped) /\ WF_vars(TasksDeinit)

FairSpec == Spec /\ Fairness

-----------------------------------------------------------------------------
(* Properties.                                                             *)

Messages == [from : Senders, to : Tasks, n : 1 .. MaxMsg]
Bits == {START_EVENT, EXT_MSG_EVENT, STOP_REQ_EVENT, DEINIT_REQ_EVENT} \cup Irqs

\* Every variable has its type.
TypeOK ==
  /\ bits \subseteq Bits /\ taken \subseteq Bits
  /\ pc \in {"start", "loop", "wait", "events", "stopped", "ended"}
  /\ extMsgQueue \in Seq(Messages)
  /\ messageQueue \in [Tasks -> Seq(Messages)]
  /\ pendingMessages \in Nat /\ turn \in Tasks
  /\ handler \in [Irqs -> {"none", "user", "remove"}]
  /\ registered \subseteq Irqs /\ setting \in Irqs \cup {NoIrq}
  /\ regs \in 0 .. MaxReg /\ owed \subseteq Irqs /\ badCall \in BOOLEAN
  /\ signalling \subseteq Outside
  /\ stopper \in {"no", "stopping", "deinit", "done"}
  /\ stopCfm \subseteq {STOP_CFM_EVENT, DEINIT_CFM_EVENT}
  /\ sent \in [Senders -> [Tasks -> 0 .. MaxMsg]]
  /\ handled \in [Senders -> [Tasks -> 0 .. MaxMsg]]
  /\ passedOver \in [Tasks -> Nat]

\* What is on its way to a task: first what the task's queue holds, then the
\* external queue; and where in it the messages of a sender are.
Underway(t) == messageQueue[t] \o extMsgQueue
Places(s, t) ==
  {k \in 1 .. Len(Underway(t)) : Underway(t)[k].from = s /\ Underway(t)[k].to = t}

\* Until the scheduler stops, exactly the messages that a sender put for a task
\* and the task has not handled are on their way, in the order they were put:
\* nothing is lost, doubled or overtaken.
InOrder ==
  pc # "ended" =>
    \A s \in Senders, t \in Tasks :
      /\ {Underway(t)[k].n : k \in Places(s, t)} = handled[s][t] + 1 .. sent[s][t]
      /\ \A j, k \in Places(s, t) : j < k => Underway(t)[j].n < Underway(t)[k].n

\* No wake-up is lost: a thread that sleeps without a bit to wake it has no
\* message outside either, unless its sender has still to signal.
NoLostWakeup ==
  (pc = "wait" /\ pendingMessages = 0 /\ bits = {})
  => extMsgQueue = <<>> \/ signalling # {}

\* A task with a message waits for at most one message of every other task.
RoundRobin == \A t \in Tasks : passedOver[t] < NumTasks

\* The entry of an interrupt is freed when nothing can set it any more, so the
\* thread never calls a handler that is not there (csr_sched.c,
\* CsrSchedBgintUnreg: "at this point we know the event is not set").
HandlerIsThere == ~ badCall

\* Until a thread stops the scheduler every message put for a task is handled
\* in the end and an interrupt a driver set reaches the handler, unless it is
\* unregistered; and the thread that stops it comes back from that.
AllServed ==
  /\ \A t \in Tasks :
       (\E s \in Senders : sent[s][t] > handled[s][t])
       ~> ((\A s \in Senders : sent[s][t] = handled[s][t]) \/ stopper # "no")
  /\ \A i \in Irqs : (i \in owed) ~> (i \notin owed \/ stopper # "no")
  /\ (stopper = "stopping") ~> (stopper = "done")
=============================================================================
