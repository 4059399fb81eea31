---------------------------- MODULE SchedTimers ----------------------------
(***************************************************************************)
(* The timers of the microstack's scheduler (csr_sched.c): one list sorted *)
(* by deadline, on a 32-bit microsecond clock that wraps every 71 minutes. *)
(*                                                                         *)
(* The code tells a deadline before the wrap from one after it by a count  *)
(* of wraps that it can only advance when it looks at the clock.  The      *)
(* history variables epoch, seen and the field due hold what it cannot     *)
(* see: how often the clock has really wrapped.                            *)
(***************************************************************************)
EXTENDS Naturals, Sequences, SequencesExt

CONSTANTS
  Period,       \* number of clock values (2^32 microseconds)
  Limit,        \* CSR_SCHED_TIMER_POOL_LIMIT
  Delays,       \* the delays tasks ask for
  Ms,           \* clock ticks to a unit of CsrEventWait's timeout (1000)
  WaitInfinite, \* CSR_EVENT_WAIT_INFINITE
  MaxBusy,      \* bound: how long the thread runs without a look at its clock
  MaxEpoch      \* bound: how often the clock wraps

\* CsrSchedTimerSet asks for delays below half the range of the clock; the
\* longest wait and the work around it must fit in one period.
ASSUME TimerAssumption ==
  /\ Period \in Nat \ {0} /\ Limit \in Nat \ {0} /\ Ms \in Nat \ {0}
  /\ WaitInfinite \in Nat \ {0} /\ MaxBusy \in Nat /\ MaxEpoch \in Nat
  /\ Delays \subseteq {d \in Nat : d < Period}
  /\ (WaitInfinite - 1) * Ms + MaxBusy < Period

Time == 0 .. Period - 1
Tid == 1 .. Limit
NoTid == 0

\* TimerType; due is the wrap of the real clock in which `when` falls.
Timer == [id : Tid, when : Time, wrapCount : Nat, due : Nat]

VARIABLES
  epoch, now,              \* the clock: wraps so far and CsrTimeGet
  timerList,               \* pending timers, first to expire first
  timerFreeList, timers,   \* free containers; containers ever allocated
  active,                  \* TimerType.active, by identifier
  lastNow, currentWrapCount, \* the code's view of the clock at its last look
  seen,                    \* epoch at that look
  pc,                      \* where the scheduler's thread is
  firing,                  \* the timer whose function runs
  left,                    \* ticks until CsrEventWait times out
  busy, gap                \* ticks of work, and of all, since the last look

clockVars == <<epoch, now, busy, gap>>
viewVars == <<lastNow, currentWrapCount, seen>>
poolVars == <<timerFreeList, timers, active>>
vars == <<clockVars, viewVars, poolVars, timerList, pc, firing, left>>

NoTimer == [id |-> NoTid, when |-> 0, wrapCount |-> 0, due |-> 0]

Init ==
  /\ epoch = 0 /\ now \in Time
  /\ timerList = <<>> /\ timerFreeList = <<>> /\ timers = 0
  /\ active = [i \in Tid |-> FALSE]
  /\ lastNow = 0 /\ currentWrapCount = 0 /\ seen = 0
  /\ pc = "task" /\ firing = NoTimer /\ left = 0
  /\ busy = 0 /\ gap = 0

Pending == timerList # <<>>

\* The thread is in code that may use timers: a task's handler, a background
\* interrupt's, or a timer's function.
Running == pc \in {"task", "event", "fire"}

-----------------------------------------------------------------------------
(* The clock.                                                              *)

\* The bounds: the clock wraps MaxEpoch times, and while timers are pending
\* the thread works at most MaxBusy ticks between two looks.
MayTick ==
  IF pc = "sleep" THEN Pending => left > 0 ELSE Pending => busy < MaxBusy

Tick ==
  /\ MayTick
  /\ IF now + 1 < Period
     THEN now' = now + 1 /\ epoch' = epoch
     ELSE now' = 0 /\ epoch' = epoch + 1 /\ epoch < MaxEpoch
  /\ left' = IF pc = "sleep" /\ Pending THEN left - 1 ELSE left
  /\ busy' = IF pc # "sleep" /\ Pending THEN busy + 1 ELSE busy
  /\ gap' = IF Pending THEN gap + 1 ELSE gap
  /\ UNCHANGED <<viewVars, poolVars, timerList, pc, firing>>

\* adjust_wrap_count
WrapCount == IF now < lastNow THEN currentWrapCount + 1 ELSE currentWrapCount

LookAtClock ==
  /\ currentWrapCount' = WrapCount
  /\ lastNow' = now
  /\ seen' = epoch
  /\ busy' = 0 /\ gap' = 0
  /\ UNCHANGED <<epoch, now>>

-----------------------------------------------------------------------------
(* Setting and cancelling.                                                 *)

\* timerAlloc: the first free container, or a new one; a thread with none left
\* panics.
Alloc(id) ==
  IF timerFreeList # <<>>
  THEN /\ id = Head(timerFreeList)
       /\ timerFreeList' = Tail(timerFreeList)
       /\ UNCHANGED timers
  ELSE /\ timers < Limit
       /\ id = timers + 1
       /\ timers' = id
       /\ UNCHANGED timerFreeList

\* timerFree
Free(id) == timerFreeList' = <<id>> \o timerFreeList

\* The deadline `delay` ticks from now, as the code encodes it.
CrossesWrap(delay) == now + delay >= Period

NewTimer(id, delay) ==
  LET wraps == IF CrossesWrap(delay) THEN 1 ELSE 0
  IN  [id |-> id,
       when |-> IF CrossesWrap(delay) THEN now + delay - Period ELSE now + delay,
       wrapCount |-> WrapCount + wraps,
       due |-> epoch + wraps]

AfterByTimeOnly(t, u) == t.when > u.when

\* Timer t is to expire after timer u, by the code's encoding.
After(t, u) ==
  \/ t.when > u.when /\ t.wrapCount = u.wrapCount
  \/ t.wrapCount > u.wrapCount

InsertPoint(t, k) ==
  /\ k \in 1 .. Len(timerList) + 1
  /\ \A i \in 1 .. k - 1 : ~ After(timerList[i], t)
  /\ k <= Len(timerList) => After(timerList[k], t)

CsrSchedTimerSet(delay) ==
  /\ Running
  /\ \E id \in Tid, k \in 1 .. Len(timerList) + 1 :
       LET t == NewTimer(id, delay)
       IN  /\ Alloc(id)
           /\ InsertPoint(t, k)
           /\ timerList' = InsertAt(timerList, k, t)
           /\ active' = [active EXCEPT ![id] = TRUE]
  /\ LookAtClock
  /\ UNCHANGED <<pc, firing, left>>

\* Any identifier that was ever given out may be cancelled, at any time: only
\* one that is active is unlinked.
CsrSchedTimerCancel(id) ==
  /\ Running
  /\ active[id]
  /\ \E k \in 1 .. Len(timerList) :
       /\ timerList[k].id = id
       /\ timerList' = RemoveAt(timerList, k)
  /\ active' = [active EXCEPT ![id] = FALSE]
  /\ Free(id)
  /\ UNCHANGED <<clockVars, viewVars, timers, pc, firing, left>>

-----------------------------------------------------------------------------
(* The loop of the thread.                                                 *)

\* The time to wait, in 32-bit arithmetic; the wrap count it goes by is the one
\* of the last look.
Wrapped(x) == IF x >= Period THEN x - Period ELSE x

TicksToWaitRoundedTwice ==
  LET first == Head(timerList)
  IN  IF first.wrapCount > currentWrapCount
      THEN Wrapped(Wrapped(Period - 1 - now + first.when) + Ms)
      ELSE IF now < first.when THEN Wrapped(first.when - now + Ms) ELSE 0

TicksToWait ==
  LET first == Head(timerList)
  IN  IF first.wrapCount > currentWrapCount
      THEN Wrapped(Wrapped(Period - 1 - now + first.when) + Ms - 1)
      ELSE IF now < first.when THEN Wrapped(first.when - now + Ms - 1) ELSE 0

Timeout ==
  LET ms == TicksToWait \div Ms
  IN  IF ms >= WaitInfinite THEN WaitInfinite - 1 ELSE ms

\* With messages pending, the thread only polls for events.  Without timers it
\* waits for an event.
Sleep(messages) ==
  /\ pc = "task"
  /\ left' = IF messages \/ ~ Pending THEN 0 ELSE Timeout * Ms
  /\ pc' = "sleep"
  /\ UNCHANGED <<clockVars, viewVars, poolVars, timerList, firing>>

\* CsrEventWait returns: a time-out, an event of another thread.
Wake ==
  /\ pc = "sleep"
  /\ pc' = "event"
  /\ left' = 0
  /\ UNCHANGED <<clockVars, viewVars, poolVars, timerList, firing>>

EventsHandled ==
  /\ pc = "event"
  /\ pc' = "timers"
  /\ UNCHANGED <<clockVars, viewVars, poolVars, timerList, firing, left>>

NoTimerPending ==
  /\ pc = "timers" /\ ~ Pending
  /\ pc' = "task"
  /\ UNCHANGED <<clockVars, viewVars, poolVars, timerList, firing, left>>

NotYetByTimeOnly(t) == t.when > now

NotYet(t) ==
  \/ t.wrapCount > WrapCount
  \/ t.wrapCount = WrapCount /\ t.when > now

FirstNotDue ==
  /\ pc = "timers" /\ Pending
  /\ LookAtClock
  /\ NotYet(Head(timerList))
  /\ pc' = "task"
  /\ UNCHANGED <<poolVars, timerList, firing, left>>

FireStillActive ==
  /\ pc = "timers" /\ Pending
  /\ LookAtClock
  /\ ~ NotYet(Head(timerList))
  /\ firing' = Head(timerList)
  /\ timerList' = Tail(timerList)
  /\ pc' = "fire"
  /\ UNCHANGED <<active, timerFreeList, timers, left>>

Fire ==
  /\ pc = "timers" /\ Pending
  /\ LookAtClock
  /\ ~ NotYet(Head(timerList))
  /\ firing' = Head(timerList)
  /\ timerList' = Tail(timerList)
  /\ active' = [active EXCEPT ![Head(timerList).id] = FALSE]
  /\ pc' = "fire"
  /\ UNCHANGED <<timerFreeList, timers, left>>

\* The timer's function returns and the container is free again.
Fired ==
  /\ pc = "fire"
  /\ Free(firing.id)
  /\ firing' = NoTimer
  /\ pc' = "timers"
  /\ UNCHANGED <<clockVars, viewVars, timers, active, timerList, left>>

Next ==
  \/ Tick
  \/ \E d \in Delays : CsrSchedTimerSet(d)
  \/ \E id \in Tid : CsrSchedTimerCancel(id)
  \/ \E messages \in BOOLEAN : Sleep(messages)
  \/ Wake \/ EventsHandled
  \/ NoTimerPending \/ FirstNotDue \/ Fire \/ Fired

Spec == Init /\ [][Next]_vars

-----------------------------------------------------------------------------
(* Properties.                                                             *)

\* Every variable has its type.
TypeOK ==
  /\ epoch \in Nat /\ now \in Time /\ busy \in Nat /\ gap \in Nat
  /\ lastNow \in Time /\ currentWrapCount \in Nat /\ seen \in Nat
  /\ timerList \in Seq(Timer)
  /\ timerFreeList \in Seq(Tid) /\ timers \in 0 .. Limit
  /\ active \in [Tid -> BOOLEAN]
  /\ pc \in {"task", "sleep", "event", "timers", "fire"}
  /\ firing \in Timer \cup {NoTimer}
  /\ left \in Nat

\* The wrap count the code gives a deadline and the one it counts the clock by
\* differ by exactly the wraps of the clock between them, although the code
\* misses any number of wraps while it has no timer (adjust_wrap_count).
DeadlinesEncoded ==
  \A k \in 1 .. Len(timerList) :
    timerList[k].wrapCount + seen = timerList[k].due + currentWrapCount

\* The real order of two moments of the clock.
AtOrBefore(e1, t1, e2, t2) == e1 < e2 \/ (e1 = e2 /\ t1 <= t2)

\* A timer's function is never called before its delay has elapsed, on either
\* side of a wrap of the clock ("will be called at or after delay").
NeverEarly == pc = "fire" => AtOrBefore(firing.due, firing.when, epoch, now)

\* The first timer of the list is one with the earliest real deadline, so the
\* loop that stops at the first one not due leaves none that is.
FirstIsEarliest ==
  \A k \in 1 .. Len(timerList) :
    AtOrBefore(timerList[1].due, timerList[1].when,
               timerList[k].due, timerList[k].when)

ListedIds == {timerList[k].id : k \in 1 .. Len(timerList)}
FreeIds == {timerFreeList[k] : k \in 1 .. Len(timerFreeList)}
FiringIds == IF pc = "fire" THEN {firing.id} ELSE {}

\* Every container the thread allocated is in exactly one place: in the list
\* exactly while active, on the free list once, or in the hands of the timer
\* loop.  A timer that cancels itself in its function is not freed twice.
ContainersPartitioned ==
  /\ Len(timerList) + Len(timerFreeList) + (IF pc = "fire" THEN 1 ELSE 0) = timers
  /\ ListedIds \cup FreeIds \cup FiringIds = 1 .. timers
  /\ ListedIds = {i \in Tid : active[i]}

Clock == epoch * Period + now
DueAt(t) == t.due * Period + t.when

\* A wait with the wrap count up to date, for a deadline the clock has not
\* wrapped past, ends less than a unit of the timeout after it: rounding never
\* adds a whole unit, and the cap only makes the wait shorter.
WaitEndsInTime ==
  (/\ pc = "sleep" /\ Pending /\ left > 0
   /\ seen = epoch /\ Head(timerList).due >= epoch)
  => Clock + left < DueAt(Head(timerList)) + Ms
=============================================================================
