-------------------------- MODULE HciCmdArbProofs --------------------------
(***************************************************************************)
(* The HCI arbiter serves one stack at a time and loses no command, for    *)
(* any number of credits and commands.                                     *)
(*                                                                         *)
(* The invariant counts: the commands of a stack, by their operation, in   *)
(* the queue of the arbiter, among the saved ones, at the controller and   *)
(* among its events.  A lock is held exactly while such a command, or the  *)
(* house cleaning message that follows its answer, is under way.           *)
(***************************************************************************)
EXTENDS HciCmdArb, DataLemmas

AnyRequest == Request("primary") \cup Request("micro")
ArbMsg == AnyRequest \cup Cleaning
WorkSet == [arb : ArbState, ctrl : Seq(Command), dmq : Seq(Event), seen : SUBSET Unusual]

\* Who sends commands to the controller.
Who == Stack \cup {"spl"}

\* A count that is kept in a byte is a natural number.
LEMMA ByteIsNatural == \A n \in 0 .. 255 : n \in Nat /\ n + 1 # 0
OBVIOUS

-----------------------------------------------------------------------------
(* What a command does in the arbiter.                                     *)

\* It is saved.
Stalled(w, m, v) ==
  /\ IsHciCmdArbQueueLocked(m.from, w.arb)
  /\ v.ctrl = w.ctrl /\ v.dmq = w.dmq /\ v.seen = w.seen
  /\ v.arb.micro = w.arb.micro /\ v.arb.primary = w.arb.primary /\ v.arb.count = w.arb.count
  /\ v.arb.spl = w.arb.spl /\ v.arb.sm = w.arb.sm
  /\ v.arb.scanEnabled = w.arb.scanEnabled
  /\ v.arb.saved = [w.arb.saved EXCEPT ![m.from] = Append(@, m)]

\* It takes the lock of its stack.
Locked(w, m, v) ==
  /\ ~ IsHciCmdArbQueueLocked(m.from, w.arb)
  /\ v.arb.saved = w.arb.saved
  /\ m.from = "micro" =>
       v.arb.micro = "cmd" /\ v.arb.primary = w.arb.primary /\ v.arb.count = w.arb.count
  /\ m.from = "primary" =>
       /\ v.arb.micro = w.arb.micro
       /\ v.arb.primary = (IF m.op = "peri" THEN "peri" ELSE "cmd")
       /\ v.arb.count = (w.arb.count + 1) % 256

\* It reaches the controller.
Forwarded(w, m, v) ==
  /\ Locked(w, m, v)
  /\ v.ctrl = Append(w.ctrl, [op |-> m.op, for |-> m.from]) /\ v.dmq = w.dmq
  /\ v.seen = w.seen \cup Wraps(m.from, w.arb) \cup (IF m.op = "peri" THEN {"peri"} ELSE {})
  /\ v.arb.spl = w.arb.spl /\ v.arb.sm = w.arb.sm
  /\ m.op = "enable" => v.arb.scanEnabled = [w.arb.scanEnabled EXCEPT ![m.from] = TRUE]
  /\ m.op = "disable" => /\ v.arb.scanEnabled = [w.arb.scanEnabled EXCEPT ![m.from] = FALSE]
                         /\ ~ w.arb.scanEnabled[Other(m.from)]
  /\ m.op \notin {"enable", "disable"} => v.arb.scanEnabled = w.arb.scanEnabled

\* It is answered in place of the controller.
Simulated(w, m, v) ==
  /\ Locked(w, m, v)
  /\ m.op \in ScanOp
  /\ v.dmq = Append(w.dmq, [op |-> m.op, for |-> m.from, ok |-> TRUE]) /\ v.ctrl = w.ctrl
  /\ v.seen = w.seen \cup Wraps(m.from, w.arb)
  /\ v.arb.spl = w.arb.spl /\ v.arb.sm = w.arb.sm
  /\ m.op = "enable" => /\ v.arb.scanEnabled = [w.arb.scanEnabled EXCEPT ![m.from] = TRUE]
                        /\ w.arb.scanEnabled[Other(m.from)]
  /\ m.op = "disable" => /\ v.arb.scanEnabled = [w.arb.scanEnabled EXCEPT ![m.from] = FALSE]
                         /\ w.arb.scanEnabled[Other(m.from)]
  /\ m.op = "param" => v.arb.scanEnabled = w.arb.scanEnabled

\* It starts the scan state machine.
Arbitrated(w, m, v) ==
  /\ Locked(w, m, v)
  /\ m.from = "primary" /\ m.op = "param"
  /\ v.ctrl = Append(w.ctrl, [op |-> "disable", for |-> "spl"]) /\ v.dmq = w.dmq
  /\ v.seen = w.seen \cup Wraps(m.from, w.arb) \cup {"arbitrated"}
  /\ v.arb.spl /\ v.arb.sm = "disabling"

\* The count of the locks in its byte.
LEMMA CountByte ==
  ASSUME NEW n \in 0 .. 255
  PROVE  /\ (n + 1) % 256 = IF n = 255 THEN 0 ELSE n + 1
         /\ (n + 255) % 256 = IF n = 0 THEN 255 ELSE n - 1
OBVIOUS

\* The queues of saved commands after one is saved.
LEMMA SavedTyped ==
  ASSUME NEW saved \in [Stack -> Seq(AnyRequest)], NEW m \in AnyRequest,
         \A s \in Stack : saved[s] \in Seq(Request(s))
  PROVE  /\ [saved EXCEPT ![m.from] = Append(@, m)] \in [Stack -> Seq(AnyRequest)]
         /\ \A s \in Stack :
              [saved EXCEPT ![m.from] = Append(@, m)][s] \in Seq(Request(s))
<1>1. m.from \in Stack /\ m \in Request(m.from)
  BY DEF AnyRequest, Request, Stack
<1>2. /\ Append(saved[m.from], m) \in Seq(AnyRequest)
      /\ Append(saved[m.from], m) \in Seq(Request(m.from))
  BY <1>1
<1> QED BY <1>1, <1>2

\* A command sent to the controller.
LEMMA SendEffect ==
  ASSUME NEW u \in WorkSet, NEW for \in Who, NEW op \in OpsOf(for)
  PROVE  LET v == CsrHciCommandReqSend(op, for, u)
         IN  /\ v \in WorkSet /\ v.arb = u.arb /\ v.dmq = u.dmq /\ v.seen = u.seen
             /\ v.ctrl = Append(u.ctrl, [op |-> op, for |-> for])
<1> DEFINE c == [op |-> op, for |-> for]
<1>1. c \in Command
  BY DEF Command, OpsOf, Op, ScanOp, Who, Stack
<1> HIDE DEF c
<1>2. Append(u.ctrl, c) \in Seq(Command)
  BY <1>1 DEF WorkSet
<1>3. CsrHciCommandReqSend(op, for, u) = [u EXCEPT !.ctrl = Append(u.ctrl, c)]
  BY DEF CsrHciCommandReqSend, c, WorkSet
<1> QED BY <1>2, <1>3 DEF WorkSet, c

\* An answer in place of the controller's.
LEMMA SimulateEffect ==
  ASSUME NEW u \in WorkSet, NEW for \in Who, NEW op \in OpsOf(for)
  PROVE  LET v == SimulateResponse(op, for, u)
         IN  /\ v \in WorkSet /\ v.arb = u.arb /\ v.ctrl = u.ctrl /\ v.seen = u.seen
             /\ v.dmq = Append(u.dmq, [op |-> op, for |-> for, ok |-> TRUE])
<1> DEFINE e == [op |-> op, for |-> for, ok |-> TRUE]
<1>1. e \in Event
  BY DEF Event, OpsOf, Op, ScanOp, Who, Stack
<1> HIDE DEF e
<1>2. Append(u.dmq, e) \in Seq(Event)
  BY <1>1 DEF WorkSet
<1>3. SimulateResponse(op, for, u) = [u EXCEPT !.dmq = Append(u.dmq, e)]
  BY DEF SimulateResponse, e, WorkSet
<1> QED BY <1>2, <1>3 DEF WorkSet, e

\* The locks, the state machine and the saved commands are the same.
SameButFlags(a, b) ==
  /\ b.micro = a.micro /\ b.primary = a.primary /\ b.count = a.count
  /\ b.spl = a.spl /\ b.sm = a.sm /\ b.saved = a.saved

\* What the arbitration remembers of a stack's scan.
LEMMA FlagEffect ==
  ASSUME NEW u \in WorkSet, NEW s \in Stack, NEW b \in BOOLEAN
  PROVE  /\ LET v == [u EXCEPT !.arb.scanEnabled[s] = b]
            IN  /\ v \in WorkSet /\ v.ctrl = u.ctrl /\ v.dmq = u.dmq /\ v.seen = u.seen
                /\ SameButFlags(u.arb, v.arb)
                /\ v.arb.scanEnabled = [u.arb.scanEnabled EXCEPT ![s] = b]
         /\ LET v == [u EXCEPT !.arb.paramsSet[s] = b]
            IN  /\ v \in WorkSet /\ v.ctrl = u.ctrl /\ v.dmq = u.dmq /\ v.seen = u.seen
                /\ SameButFlags(u.arb, v.arb)
                /\ v.arb.scanEnabled = u.arb.scanEnabled
<1>0. u.arb \in ArbState
  BY DEF WorkSet
<1> DEFINE en == [u.arb.scanEnabled EXCEPT ![s] = b]
           ps == [u.arb.paramsSet EXCEPT ![s] = b]
           c == [u.arb EXCEPT !.scanEnabled = en]
           d == [u.arb EXCEPT !.paramsSet = ps]
<1>1. en \in [Stack -> BOOLEAN] /\ ps \in [Stack -> BOOLEAN]
  BY <1>0 DEF ArbState
<1>2. /\ [u.arb EXCEPT !.scanEnabled[s] = b] = c
      /\ [u.arb EXCEPT !.paramsSet[s] = b] = d
  BY <1>0 DEF ArbState
<1> HIDE DEF en, ps
<1>3. c \in ArbState /\ SameButFlags(u.arb, c) /\ c.scanEnabled = en
  BY <1>0, <1>1 DEF ArbState, SameButFlags
<1>4. d \in ArbState /\ SameButFlags(u.arb, d) /\ d.scanEnabled = u.arb.scanEnabled
  BY <1>0, <1>1 DEF ArbState, SameButFlags
<1>5. /\ [u EXCEPT !.arb.scanEnabled[s] = b] = [u EXCEPT !.arb = c]
      /\ [u EXCEPT !.arb.paramsSet[s] = b] = [u EXCEPT !.arb = d]
  BY <1>2 DEF WorkSet
<1> HIDE DEF c, d
<1> QED BY <1>3, <1>4, <1>5 DEF WorkSet, en

\* The scan state machine starts.
LEMMA TriggerEffect ==
  ASSUME NEW u \in WorkSet
  PROVE  LET v == triggerScanStateMachine(u)
         IN  /\ v \in WorkSet /\ v.dmq = u.dmq /\ v.seen = u.seen \cup {"arbitrated"}
             /\ v.ctrl = Append(u.ctrl, [op |-> "disable", for |-> "spl"])
             /\ v.arb.spl /\ v.arb.sm = "disabling"
             /\ v.arb.micro = u.arb.micro /\ v.arb.primary = u.arb.primary
             /\ v.arb.count = u.arb.count /\ v.arb.saved = u.arb.saved
<1> DEFINE b == [u.arb EXCEPT !.spl = TRUE, !.sm = "disabling"]
           t == [u EXCEPT !.arb = b, !.seen = u.seen \cup {"arbitrated"}]
<1>0. u.arb \in ArbState /\ u.seen \in SUBSET Unusual
  BY DEF WorkSet
<1>1. [HciCmdArbLockQueue("spl", "scan", u.arb) EXCEPT !.sm = "disabling"] = b
  BY <1>0 DEF HciCmdArbLockQueue, ArbState
<1>2. triggerScanStateMachine(u) = CsrHciCommandReqSend("disable", "spl", t)
  BY <1>1 DEF triggerScanStateMachine, WorkSet
<1>3. /\ b \in ArbState /\ b.spl /\ b.sm = "disabling" /\ b.micro = u.arb.micro
      /\ b.primary = u.arb.primary /\ b.count = u.arb.count /\ b.saved = u.arb.saved
  BY <1>0 DEF ArbState
<1> HIDE DEF b
<1>4. /\ t \in WorkSet /\ t.arb = b /\ t.ctrl = u.ctrl /\ t.dmq = u.dmq
      /\ t.seen = u.seen \cup {"arbitrated"}
  BY <1>0, <1>3 DEF WorkSet, Unusual
<1> HIDE DEF t
<1>5. "spl" \in Who /\ "disable" \in OpsOf("spl")
  BY DEF Who, OpsOf, ScanOp
<1> QED BY <1>2, <1>3, <1>4, <1>5, SendEffect

\* One of the four happens to every command.
LEMMA CommandEffect ==
  ASSUME NEW w \in WorkSet, NEW m \in AnyRequest, NEW v, v = handleCmdReqCommon(w, m),
         \A s \in Stack : w.arb.saved[s] \in Seq(Request(s))
  PROVE  /\ v \in WorkSet
         /\ \A s \in Stack : v.arb.saved[s] \in Seq(Request(s))
         /\ Stalled(w, m, v) \/ Forwarded(w, m, v) \/ Simulated(w, m, v) \/ Arbitrated(w, m, v)
<1> DEFINE a == HciCmdArbLockQueue(m.from, IF m.op = "peri" THEN "peri" ELSE "cmd", w.arb)
           u == [w EXCEPT !.arb = a, !.seen = @ \cup Wraps(m.from, w.arb)]
<1>0. /\ m.from \in Stack /\ m.op \in OpsOf(m.from)
      /\ w.arb \in ArbState /\ w.ctrl \in Seq(Command) /\ w.dmq \in Seq(Event)
      /\ w.seen \in SUBSET Unusual
      /\ w.arb.saved \in [Stack -> Seq(AnyRequest)]
  BY DEF AnyRequest, Request, WorkSet, Stack, ArbState
<1>00. m.from \in Who
  BY <1>0 DEF Who
<1>1. CASE IsHciCmdArbQueueLocked(m.from, w.arb)
  <2> DEFINE b == [w.arb EXCEPT !.saved[m.from] = Append(@, m)]
             q == [w.arb.saved EXCEPT ![m.from] = Append(@, m)]
  <2>1. v = [w EXCEPT !.arb = b]
    BY <1>1 DEF handleCmdReqCommon, WorkSet
  <2>2. b = [w.arb EXCEPT !.saved = q]
    BY <1>0 DEF ArbState
  <2>3. q \in [Stack -> Seq(AnyRequest)] /\ \A s \in Stack : q[s] \in Seq(Request(s))
    BY <1>0, SavedTyped
  <2> HIDE DEF b, q
  <2>4. b \in ArbState /\ b.saved = q
    BY <1>0, <2>2, <2>3 DEF ArbState, AnyRequest
  <2>5. v \in WorkSet /\ v.arb = b /\ v.ctrl = w.ctrl /\ v.dmq = w.dmq /\ v.seen = w.seen
    BY <1>0, <2>1, <2>4 DEF WorkSet
  <2>6. /\ b.micro = w.arb.micro /\ b.primary = w.arb.primary /\ b.count = w.arb.count
        /\ b.spl = w.arb.spl /\ b.sm = w.arb.sm /\ b.scanEnabled = w.arb.scanEnabled
    BY <1>0, <2>2 DEF ArbState
  <2>7. Stalled(w, m, v)
    BY <1>1, <2>4, <2>5, <2>6 DEF Stalled, q
  <2> QED BY <2>3, <2>4, <2>5, <2>7
<1>2. CASE ~ IsHciCmdArbQueueLocked(m.from, w.arb)
  <2>1. v = Dispatch(m, u)
    BY <1>2 DEF handleCmdReqCommon
  <2>2. /\ a \in ArbState /\ a.saved = w.arb.saved
        /\ a.spl = w.arb.spl /\ a.sm = w.arb.sm /\ a.scanEnabled = w.arb.scanEnabled
        /\ m.from = "micro" =>
             a.micro = "cmd" /\ a.primary = w.arb.primary /\ a.count = w.arb.count
        /\ m.from = "primary" =>
             /\ a.micro = w.arb.micro
             /\ a.primary = (IF m.op = "peri" THEN "peri" ELSE "cmd")
             /\ a.count = (w.arb.count + 1) % 256
    <3>1. CASE m.from = "micro"
      <4>1. m.op # "peri"
        BY <1>0, <3>1 DEF OpsOf
      <4> QED BY <1>0, <3>1, <4>1 DEF ArbState, HciCmdArbLockQueue
    <3>2. CASE m.from = "primary"
      <4> DEFINE n == w.arb.count
                 c == (n + 1) % 256
                 id == IF m.op = "peri" THEN "peri" ELSE "cmd"
      <4>1. n \in 0 .. 255
        BY <1>0 DEF ArbState
      <4>2. c \in 0 .. 255
        <5> HIDE DEF n
        <5> QED BY <4>1, CountByte
      <4>3. a = [w.arb EXCEPT !.primary = id, !.count = c]
        BY <3>2 DEF HciCmdArbLockQueue
      <4>5. id \in {"cmd", "peri"}
        OBVIOUS
      <4> HIDE DEF c, id, a
      <4>4. /\ a \in ArbState /\ a.saved = w.arb.saved
            /\ a.spl = w.arb.spl /\ a.sm = w.arb.sm /\ a.scanEnabled = w.arb.scanEnabled
            /\ a.micro = w.arb.micro /\ a.primary = id /\ a.count = c
        BY <1>0, <4>2, <4>3, <4>5 DEF ArbState
      <4> QED BY <3>2, <4>4 DEF c, id
    <3> QED BY <1>0, <3>1, <3>2 DEF Stack
  <2> HIDE DEF a
  <2>3. /\ u \in WorkSet /\ u.arb = a /\ u.ctrl = w.ctrl /\ u.dmq = w.dmq
        /\ u.seen = w.seen \cup Wraps(m.from, w.arb)
    BY <1>0, <2>2 DEF WorkSet, Wraps, Unusual
  <2> HIDE DEF u
  <2>4. CASE m.op = "other"
    <3>1. v = CsrHciCommandReqSend("other", m.from, u)
      BY <2>1, <2>4 DEF Dispatch
    <3>2. /\ v \in WorkSet /\ v.arb = a /\ v.dmq = w.dmq /\ v.seen = u.seen
          /\ v.ctrl = Append(w.ctrl, [op |-> "other", for |-> m.from])
      BY <1>0, <1>00, <2>3, <2>4, <3>1, SendEffect
    <3>3. Forwarded(w, m, v)
      BY <1>0, <1>2, <2>2, <2>3, <2>4, <3>2 DEF Forwarded, Locked
    <3> QED BY <2>2, <3>2, <3>3
  <2>5. CASE m.op = "peri"
    <3> DEFINE t == [u EXCEPT !.seen = @ \cup {"peri"}]
    <3>1. v = CsrHciCommandReqSend("peri", m.from, t)
      BY <2>1, <2>5 DEF Dispatch
    <3>2. /\ t \in WorkSet /\ t.arb = a /\ t.ctrl = w.ctrl /\ t.dmq = w.dmq
          /\ t.seen = u.seen \cup {"peri"}
      BY <2>3 DEF WorkSet, Unusual
    <3> HIDE DEF t
    <3>5. "peri" \in OpsOf(m.from)
      BY <1>0, <2>5
    <3>3. /\ v \in WorkSet /\ v.arb = a /\ v.dmq = w.dmq /\ v.seen = u.seen \cup {"peri"}
          /\ v.ctrl = Append(w.ctrl, [op |-> "peri", for |-> m.from])
      BY <1>00, <3>1, <3>2, <3>5, SendEffect
    <3>4. Forwarded(w, m, v)
      BY <1>0, <1>2, <2>2, <2>3, <2>5, <3>3 DEF Forwarded, Locked
    <3> QED BY <2>2, <3>3, <3>4
  <2>6. CASE m.op = "param"
    <3> DEFINE t == [u EXCEPT !.arb.paramsSet[m.from] = TRUE]
    <3>0. v = ScanParam(m.from, u)
      BY <2>1, <2>6 DEF Dispatch
    <3>1. CASE m.from = "primary" /\ u.arb.scanEnabled["micro"]
      <4>1. v = triggerScanStateMachine(u)
        BY <3>0, <3>1 DEF ScanParam
      <4>2. Arbitrated(w, m, v) /\ v \in WorkSet /\ v.arb.saved = w.arb.saved
        BY SMTT(30), <1>0, <1>2, <2>2, <2>3, <2>6, <3>1, <4>1, TriggerEffect DEF Arbitrated, Locked
      <4> QED BY <4>2
    <3>2. CASE ~ (m.from = "primary" /\ u.arb.scanEnabled["micro"])
               /\ m.from = "micro" /\ u.arb.paramsSet["primary"]
      <4>1. v = SimulateResponse("param", m.from, u)
        BY <3>0, <3>2 DEF ScanParam
      <4>2. /\ v \in WorkSet /\ v.arb = a /\ v.ctrl = w.ctrl /\ v.seen = u.seen
            /\ v.dmq = Append(w.dmq, [op |-> "param", for |-> m.from, ok |-> TRUE])
        <5>1. "param" \in OpsOf(m.from)
          BY <1>0, <2>6
        <5> QED BY <1>00, <2>3, <4>1, <5>1, SimulateEffect
      <4>3. Simulated(w, m, v)
        BY <1>0, <1>2, <2>2, <2>3, <2>6, <4>2 DEF Simulated, Locked, ScanOp
      <4> QED BY <2>2, <4>2, <4>3
    <3>3. CASE /\ ~ (m.from = "primary" /\ u.arb.scanEnabled["micro"])
               /\ ~ (m.from = "micro" /\ u.arb.paramsSet["primary"])
      <4>1. v = CsrHciCommandReqSend("param", m.from, t)
        BY <3>0, <3>3 DEF ScanParam
      <4>2. /\ t \in WorkSet /\ t.ctrl = w.ctrl /\ t.dmq = w.dmq /\ t.seen = u.seen
            /\ SameButFlags(a, t.arb) /\ t.arb.scanEnabled = a.scanEnabled
        BY ZenonT(60), <1>0, <2>3, FlagEffect
      <4> HIDE DEF t
      <4>3. /\ v \in WorkSet /\ v.arb = t.arb /\ v.dmq = w.dmq /\ v.seen = u.seen
            /\ v.ctrl = Append(w.ctrl, [op |-> "param", for |-> m.from])
        BY <1>0, <1>00, <2>6, <4>1, <4>2, SendEffect
      <4>4. Forwarded(w, m, v) /\ v.arb.saved = w.arb.saved
        BY <1>0, <1>2, <2>2, <2>3, <2>6, <4>2, <4>3 DEF Forwarded, Locked, SameButFlags
      <4> QED BY <4>3, <4>4
    <3> QED BY <3>1, <3>2, <3>3
  <2>7. CASE m.op = "enable"
    <3> DEFINE t == [u EXCEPT !.arb.scanEnabled[m.from] = TRUE]
    <3>0. v = ScanEnable(m.from, u)
      BY <2>1, <2>7 DEF Dispatch
    <3>1. /\ t \in WorkSet /\ t.ctrl = w.ctrl /\ t.dmq = w.dmq /\ t.seen = u.seen
          /\ SameButFlags(a, t.arb)
          /\ t.arb.scanEnabled = [w.arb.scanEnabled EXCEPT ![m.from] = TRUE]
      <4>1. /\ t \in WorkSet /\ t.ctrl = u.ctrl /\ t.dmq = u.dmq /\ t.seen = u.seen
            /\ SameButFlags(u.arb, t.arb)
            /\ t.arb.scanEnabled = [u.arb.scanEnabled EXCEPT ![m.from] = TRUE]
        BY ZenonT(60), <1>0, <2>3, FlagEffect
      <4>2. u.arb.scanEnabled = w.arb.scanEnabled
        BY <2>2, <2>3
      <4> QED BY <2>3, <4>1, <4>2
    <3>2. CASE m.from = "micro" /\ u.arb.scanEnabled["primary"]
      <4>1. v = SimulateResponse("enable", m.from, t)
        BY <3>0, <3>2 DEF ScanEnable
      <4>2. w.arb.scanEnabled[Other(m.from)]
        BY <2>2, <2>3, <3>2 DEF Other, Stack
      <4> HIDE DEF t
      <4>3. /\ v \in WorkSet /\ v.arb = t.arb /\ v.ctrl = w.ctrl /\ v.seen = u.seen
            /\ v.dmq = Append(w.dmq, [op |-> "enable", for |-> m.from, ok |-> TRUE])
        BY <1>0, <1>00, <2>7, <3>1, <4>1, SimulateEffect
      <4>4. Simulated(w, m, v) /\ v.arb.saved = w.arb.saved
        BY <1>0, <1>2, <2>2, <2>3, <2>7, <3>1, <4>2, <4>3
        DEF Simulated, Locked, SameButFlags, ScanOp
      <4> QED BY <4>3, <4>4
    <3>3. CASE ~ (m.from = "micro" /\ u.arb.scanEnabled["primary"])
      <4>1. v = CsrHciCommandReqSend("enable", m.from, t)
        BY <3>0, <3>3 DEF ScanEnable
      <4> HIDE DEF t
      <4>2. /\ v \in WorkSet /\ v.arb = t.arb /\ v.dmq = w.dmq /\ v.seen = u.seen
            /\ v.ctrl = Append(w.ctrl, [op |-> "enable", for |-> m.from])
        BY <1>0, <1>00, <2>7, <3>1, <4>1, SendEffect
      <4>3. Forwarded(w, m, v) /\ v.arb.saved = w.arb.saved
        BY <1>0, <1>2, <2>2, <2>3, <2>7, <3>1, <4>2 DEF Forwarded, Locked, SameButFlags
      <4> QED BY <4>2, <4>3
    <3> QED BY <3>2, <3>3
  <2>8. CASE m.op = "disable"
    <3> DEFINE t == [u EXCEPT !.arb.scanEnabled[m.from] = FALSE]
    <3>0. v = ScanDisable(m.from, u)
      BY <2>1, <2>8 DEF Dispatch
    <3>1. /\ t \in WorkSet /\ t.ctrl = w.ctrl /\ t.dmq = w.dmq /\ t.seen = u.seen
          /\ SameButFlags(a, t.arb)
          /\ t.arb.scanEnabled = [w.arb.scanEnabled EXCEPT ![m.from] = FALSE]
      <4>1. /\ t \in WorkSet /\ t.ctrl = u.ctrl /\ t.dmq = u.dmq /\ t.seen = u.seen
            /\ SameButFlags(u.arb, t.arb)
            /\ t.arb.scanEnabled = [u.arb.scanEnabled EXCEPT ![m.from] = FALSE]
        BY <1>0, <2>3, FlagEffect
      <4>2. u.arb.scanEnabled = w.arb.scanEnabled
        BY <2>2, <2>3
      <4> QED BY <2>3, <4>1, <4>2
    <3>2. CASE u.arb.scanEnabled[Other(m.from)]
      <4>1. v = SimulateResponse("disable", m.from, t)
        BY <3>0, <3>2 DEF ScanDisable
      <4>2. w.arb.scanEnabled[Other(m.from)]
        BY <2>2, <2>3, <3>2
      <4> HIDE DEF t
      <4>3. /\ v \in WorkSet /\ v.arb = t.arb /\ v.ctrl = w.ctrl /\ v.seen = u.seen
            /\ v.dmq = Append(w.dmq, [op |-> "disable", for |-> m.from, ok |-> TRUE])
        BY <1>0, <1>00, <2>8, <3>1, <4>1, SimulateEffect
      <4>4. Simulated(w, m, v) /\ v.arb.saved = w.arb.saved
        BY <1>0, <1>2, <2>2, <2>3, <2>8, <3>1, <4>2, <4>3
        DEF Simulated, Locked, SameButFlags, ScanOp
      <4> QED BY <4>3, <4>4
    <3>3. CASE ~ u.arb.scanEnabled[Other(m.from)]
      <4>1. v = CsrHciCommandReqSend("disable", m.from, t)
        BY <3>0, <3>3 DEF ScanDisable
      <4>2. ~ w.arb.scanEnabled[Other(m.from)]
        BY <2>2, <2>3, <3>3
      <4> HIDE DEF t
      <4>3. /\ v \in WorkSet /\ v.arb = t.arb /\ v.dmq = w.dmq /\ v.seen = u.seen
            /\ v.ctrl = Append(w.ctrl, [op |-> "disable", for |-> m.from])
        BY <1>0, <1>00, <2>8, <3>1, <4>1, SendEffect
      <4>4. Forwarded(w, m, v) /\ v.arb.saved = w.arb.saved
        BY <1>0, <1>2, <2>2, <2>3, <2>8, <3>1, <4>2, <4>3 DEF Forwarded, Locked, SameButFlags
      <4> QED BY <4>3, <4>4
    <3> QED BY <3>2, <3>3
  <2> QED BY <1>0, <2>4, <2>5, <2>6, <2>7, <2>8 DEF OpsOf, Op, ScanOp
<1> QED BY <1>1, <1>2

-----------------------------------------------------------------------------
(* Counting commands.                                                      *)

\* The messages of s about an operation of A, in each of the three queues.
Asked(s, A) == [k : {"cmd"}, from : {s}, op : A]
Sent(s, A) == [op : A, for : {s}]
Told(s, A) == [op : A, for : {s}, ok : BOOLEAN]
CleaningOf(s) == [k : {"house_cleaning"}, from : {s}]

\* The commands of s that the arbiter has passed on: at the controller, among
\* its events, and the one that the scan state machine works for.
HeldIn(a, s, A) == One(s = "primary" /\ "param" \in A /\ a.sm # "idle")
SentIn(w, s, A) == CountIn(w.ctrl, Sent(s, A)) + CountIn(w.dmq, Told(s, A))
StartedIn(w, s, A) == SentIn(w, s, A) + HeldIn(w.arb, s, A)

\* Those that it has not: q is its queue, x what it has taken out of a queue and
\* not handled yet.
PendingIn(w, q, x, s, A) ==
  CountIn(q, Asked(s, A)) + CountIn(x, Asked(s, A)) + CountIn(w.arb.saved[s], Asked(s, A))

\* The queue of the controller gains or loses a command.
LEMMA CtrlCounts ==
  ASSUME NEW q \in Seq(Command), NEW s \in Who, NEW A \in SUBSET Op
  PROVE  /\ CountIn(q, Sent(s, A)) \in Nat
         /\ \A e \in Command : CountIn(Append(q, e), Sent(s, A)) =
                                 CountIn(q, Sent(s, A)) + One(e.for = s /\ e.op \in A)
         /\ \A k \in 1 .. Len(q) :
              /\ RemoveAt(q, k) \in Seq(Command) /\ q[k] \in Command
              /\ CountIn(q, Sent(s, A)) =
                   CountIn(RemoveAt(q, k), Sent(s, A)) + One(q[k].for = s /\ q[k].op \in A)
<1>1. \A e \in Command : e \in Sent(s, A) <=> e.for = s /\ e.op \in A
  BY DEF Command, Sent
<1>2. ASSUME NEW e \in Command
      PROVE  One(e \in Sent(s, A)) = One(e.for = s /\ e.op \in A)
  BY <1>1 DEF One
<1>3. ASSUME NEW k \in 1 .. Len(q)
      PROVE  q[k] \in Command
  OBVIOUS
<1> QED BY SMTT(30), <1>2, <1>3, PlacesFinite, CountAppend, CountRemove

\* The queue of the DM_HCI task gains or loses an event.
LEMMA EventCounts ==
  ASSUME NEW q \in Seq(Event), NEW s \in Who, NEW A \in SUBSET Op
  PROVE  /\ CountIn(q, Told(s, A)) \in Nat
         /\ \A e \in Event : CountIn(Append(q, e), Told(s, A)) =
                               CountIn(q, Told(s, A)) + One(e.for = s /\ e.op \in A)
         /\ q # <<>> =>
              /\ Tail(q) \in Seq(Event) /\ Head(q) \in Event
              /\ CountIn(q, Told(s, A)) =
                   CountIn(Tail(q), Told(s, A)) + One(Head(q).for = s /\ Head(q).op \in A)
<1>1. \A e \in Event : e \in Told(s, A) <=> e.for = s /\ e.op \in A
  BY DEF Event, Told, Who, Stack
<1>2. ASSUME NEW e \in Event
      PROVE  One(e \in Told(s, A)) = One(e.for = s /\ e.op \in A)
  BY <1>1 DEF One
<1> QED BY <1>2, PlacesFinite, CountAppend, CountTail

\* The queue of the arbiter gains or loses a request or a house cleaning.
LEMMA ArbCounts ==
  ASSUME NEW q \in Seq(ArbMsg), NEW s \in Stack, NEW A \in SUBSET Op
  PROVE  /\ CountIn(q, Asked(s, A)) \in Nat /\ CountIn(q, CleaningOf(s)) \in Nat
         /\ \A e \in AnyRequest :
              /\ CountIn(Append(q, e), Asked(s, A)) =
                   CountIn(q, Asked(s, A)) + One(e.from = s /\ e.op \in A)
              /\ CountIn(Append(q, e), CleaningOf(s)) = CountIn(q, CleaningOf(s))
         /\ \A e \in Cleaning :
              /\ CountIn(Append(q, e), Asked(s, A)) = CountIn(q, Asked(s, A))
              /\ CountIn(Append(q, e), CleaningOf(s)) =
                   CountIn(q, CleaningOf(s)) + One(e.from = s)
         /\ q # <<>> =>
              /\ Tail(q) \in Seq(ArbMsg) /\ Head(q) \in ArbMsg
              /\ Head(q) \in AnyRequest =>
                   /\ CountIn(q, Asked(s, A)) =
                        CountIn(Tail(q), Asked(s, A)) + One(Head(q).from = s /\ Head(q).op \in A)
                   /\ CountIn(q, CleaningOf(s)) = CountIn(Tail(q), CleaningOf(s))
              /\ Head(q) \in Cleaning =>
                   /\ CountIn(q, Asked(s, A)) = CountIn(Tail(q), Asked(s, A))
                   /\ CountIn(q, CleaningOf(s)) =
                        CountIn(Tail(q), CleaningOf(s)) + One(Head(q).from = s)
<1>1. ASSUME NEW e \in AnyRequest
      PROVE  /\ e \in Asked(s, A) <=> e.from = s /\ e.op \in A
             /\ e \notin CleaningOf(s)
  BY DEF AnyRequest, Request, Asked, CleaningOf
<1>2. ASSUME NEW e \in Cleaning
      PROVE  /\ e \in CleaningOf(s) <=> e.from = s
             /\ e \notin Asked(s, A)
  BY DEF Cleaning, Asked, CleaningOf
<1>3. ASSUME NEW e \in AnyRequest
      PROVE  /\ One(e \in Asked(s, A)) = One(e.from = s /\ e.op \in A)
             /\ One(e \in CleaningOf(s)) = 0
  BY <1>1 DEF One
<1>4. ASSUME NEW e \in Cleaning
      PROVE  /\ One(e \in Asked(s, A)) = 0
             /\ One(e \in CleaningOf(s)) = One(e.from = s)
  BY <1>2 DEF One
<1>5. AnyRequest \subseteq ArbMsg /\ Cleaning \subseteq ArbMsg
  BY DEF ArbMsg
<1>6. /\ CountIn(q, Asked(s, A)) \in Nat /\ CountIn(q, CleaningOf(s)) \in Nat
      /\ \A e \in ArbMsg :
           /\ CountIn(Append(q, e), Asked(s, A)) = CountIn(q, Asked(s, A)) + One(e \in Asked(s, A))
           /\ CountIn(Append(q, e), CleaningOf(s)) =
                CountIn(q, CleaningOf(s)) + One(e \in CleaningOf(s))
  BY PlacesFinite, CountAppend
<1>7. q # <<>> =>
        /\ Tail(q) \in Seq(ArbMsg) /\ Head(q) \in ArbMsg
        /\ CountIn(q, Asked(s, A)) = CountIn(Tail(q), Asked(s, A)) + One(Head(q) \in Asked(s, A))
        /\ CountIn(q, CleaningOf(s)) =
             CountIn(Tail(q), CleaningOf(s)) + One(Head(q) \in CleaningOf(s))
  BY CountTail
<1>8. q # <<>> => /\ CountIn(Tail(q), Asked(s, A)) \in Nat
                  /\ CountIn(Tail(q), CleaningOf(s)) \in Nat
  BY <1>7, PlacesFinite
<1> QED BY <1>3, <1>4, <1>5, <1>6, <1>7, <1>8

\* A command that the arbiter takes is started, or it is saved.
LEMMA CommandCounts ==
  ASSUME NEW w \in WorkSet, NEW v \in WorkSet, NEW m \in AnyRequest,
         NEW s \in Stack, NEW A \in SUBSET Op,
         Stalled(w, m, v) \/ Forwarded(w, m, v) \/ Simulated(w, m, v) \/ Arbitrated(w, m, v),
         w.arb.spl <=> w.arb.sm # "idle"
  PROVE  /\ StartedIn(w, s, A) \in Nat /\ SentIn(w, "spl", A) \in Nat
         /\ StartedIn(v, s, A) = StartedIn(w, s, A) +
              One(~ Stalled(w, m, v) /\ m.from = s /\ m.op \in A)
         /\ SentIn(v, "spl", A) =
              SentIn(w, "spl", A) + One(Arbitrated(w, m, v) /\ "disable" \in A)
         /\ v.arb.spl <=> v.arb.sm # "idle"
<1>0. /\ m.from \in Stack /\ m.op \in OpsOf(m.from) /\ s \in Who /\ "spl" \in Who
      /\ m.from # "spl" /\ s # "spl" /\ m.op \in Op
  BY DEF AnyRequest, Request, Who, Stack, OpsOf, ScanOp
<1>1. \A p \in Who : /\ CountIn(w.ctrl, Sent(p, A)) \in Nat
                     /\ CountIn(w.dmq, Told(p, A)) \in Nat
  BY CtrlCounts, EventCounts DEF WorkSet
<1>2. StartedIn(w, s, A) \in Nat /\ SentIn(w, "spl", A) \in Nat
  BY <1>0, <1>1 DEF StartedIn, SentIn, HeldIn, One
<1>3. CASE Stalled(w, m, v)
  <2>1. ~ Arbitrated(w, m, v)
    BY <1>3 DEF Stalled, Arbitrated, Locked
  <2> QED BY <1>2, <1>3, <2>1 DEF StartedIn, SentIn, HeldIn, Stalled, One
<1>4. ASSUME ~ Stalled(w, m, v)
      PROVE  ~ w.arb.spl /\ w.arb.sm = "idle"
  BY <1>4 DEF Forwarded, Simulated, Arbitrated, Locked, IsHciCmdArbQueueLocked
<1>5. CASE Forwarded(w, m, v)
  <2> DEFINE c == [op |-> m.op, for |-> m.from]
  <2>1. c \in Command /\ c.for = m.from /\ c.op = m.op
    BY <1>0 DEF Command
  <2> HIDE DEF c
  <2>2. v.ctrl = Append(w.ctrl, c) /\ v.dmq = w.dmq /\ v.arb.sm = w.arb.sm /\ v.arb.spl = w.arb.spl
    BY <1>5 DEF Forwarded, c
  <2>3. ~ Stalled(w, m, v)
    BY <1>5 DEF Stalled, Forwarded, Locked
  <2>4. ~ Arbitrated(w, m, v)
    BY <1>4, <2>2, <2>3 DEF Arbitrated
  <2>5. \A p \in Who : CountIn(v.ctrl, Sent(p, A)) =
                         CountIn(w.ctrl, Sent(p, A)) + One(m.from = p /\ m.op \in A)
    BY <2>1, <2>2, CtrlCounts DEF WorkSet
  <2> QED BY <1>0, <1>1, <1>2, <2>2, <2>3, <2>4, <2>5 DEF StartedIn, SentIn, HeldIn, One
<1>6. CASE Simulated(w, m, v)
  <2> DEFINE e == [op |-> m.op, for |-> m.from, ok |-> TRUE]
  <2>1. e \in Event /\ e.for = m.from /\ e.op = m.op
    BY <1>0 DEF Event
  <2> HIDE DEF e
  <2>2. v.dmq = Append(w.dmq, e) /\ v.ctrl = w.ctrl /\ v.arb.sm = w.arb.sm /\ v.arb.spl = w.arb.spl
    BY <1>6 DEF Simulated, e
  <2>3. ~ Stalled(w, m, v)
    BY <1>6 DEF Stalled, Simulated, Locked
  <2>4. ~ Arbitrated(w, m, v)
    BY <1>4, <2>2, <2>3 DEF Arbitrated
  <2>5. \A p \in Who : CountIn(v.dmq, Told(p, A)) =
                         CountIn(w.dmq, Told(p, A)) + One(m.from = p /\ m.op \in A)
    BY <2>1, <2>2, EventCounts DEF WorkSet
  <2> QED BY <1>0, <1>1, <1>2, <2>2, <2>3, <2>4, <2>5 DEF StartedIn, SentIn, HeldIn, One
<1>7. CASE Arbitrated(w, m, v)
  <2> DEFINE c == [op |-> "disable", for |-> "spl"]
  <2>1. c \in Command /\ c.for = "spl" /\ c.op = "disable"
    BY <1>0 DEF Command, OpsOf, Op, ScanOp
  <2> HIDE DEF c
  <2>2. /\ v.ctrl = Append(w.ctrl, c) /\ v.dmq = w.dmq /\ v.arb.sm = "disabling" /\ v.arb.spl
        /\ m.from = "primary" /\ m.op = "param"
    BY <1>7 DEF Arbitrated, c
  <2>3. ~ Stalled(w, m, v)
    BY <1>7 DEF Stalled, Arbitrated, Locked
  <2>5. \A p \in Who : CountIn(v.ctrl, Sent(p, A)) =
                         CountIn(w.ctrl, Sent(p, A)) + One("spl" = p /\ "disable" \in A)
    BY <2>1, <2>2, CtrlCounts DEF WorkSet
  <2> QED BY <1>0, <1>1, <1>2, <1>4, <1>7, <2>2, <2>3, <2>5 DEF StartedIn, SentIn, HeldIn, One
<1> QED BY <1>3, <1>5, <1>6, <1>7

-----------------------------------------------------------------------------
(* The invariant.                                                          *)

\* Answers are matched by their opcodes, which Family tells apart.
Family == {{"param"}, {"enable", "disable"}, {"other"}, {"peri"}, ScanOp, Op}

\* Every command that a stack waits for is in one place.
Accounted(w, q, x, W) ==
  \A s \in Stack : \A A \in Family :
    CountIn(W[s], A) = PendingIn(w, q, x, s, A) + StartedIn(w, s, A)

OneScanEach(W) == \A s \in Stack : CountIn(W[s], ScanOp) <= 1

\* What is under way for a lock.
Using(w, q, s) == StartedIn(w, s, Op) + CountIn(q, CleaningOf(s))

Locks(w, q) ==
  /\ Using(w, q, "micro") = One(w.arb.micro # "unlock")
  /\ w.arb.primary = "unlock" <=> w.arb.count = 0
  /\ Using(w, q, "primary") <= w.arb.count
  /\ "peri" \notin w.seen => w.arb.count = Using(w, q, "primary") /\ w.arb.primary # "peri"
  /\ w.arb.micro = "unlock" \/ w.arb.primary = "unlock"
  /\ w.arb.spl <=> w.arb.sm # "idle"
  /\ w.arb.spl => w.arb.micro = "unlock" /\ "arbitrated" \in w.seen
  /\ SentIn(w, "spl", Op) = One(w.arb.spl)

\* The state machine's command is the one of its state, and succeeds.
OwnCommand(sm) ==
  IF sm = "disabling" THEN "disable" ELSE IF sm = "setting" THEN "param" ELSE "enable"

SplServed(w, sc) ==
  /\ \A i \in DOMAIN w.ctrl : w.ctrl[i].for = "spl" => w.ctrl[i].op = OwnCommand(w.arb.sm)
  /\ \A i \in DOMAIN w.dmq :
       w.dmq[i].for = "spl" =>
         /\ w.dmq[i].op = OwnCommand(w.arb.sm) /\ w.dmq[i].ok
         /\ w.arb.sm = "disabling" => ~ sc
  /\ w.arb.sm = "setting" => ~ sc

\* The arbiter's flag of a stack's scan follows what the stack asked for.
HostAgrees(w, q, x, h) ==
  \A s \in Stack :
    LET enables == PendingIn(w, q, x, s, {"enable"})
        disables == PendingIn(w, q, x, s, {"disable"})
    IN  /\ enables + disables <= 1
        /\ enables > 0 => h[s] = "on" /\ ~ w.arb.scanEnabled[s]
        /\ disables > 0 => h[s] # "on" /\ w.arb.scanEnabled[s]
        /\ enables = 0 /\ disables = 0 => (h[s] = "on" <=> w.arb.scanEnabled[s])

SomeScans(a) == \E s \in Stack : a.scanEnabled[s]

\* The controller scans, or is about to, exactly if a flag is set.
ScanAgrees(w, sc) ==
  /\ \A i \in DOMAIN w.ctrl : w.ctrl[i].op = "enable" => SomeScans(w.arb)
  /\ \A i \in DOMAIN w.ctrl : w.ctrl[i].op = "disable" => ~ SomeScans(w.arb)
  /\ (\A i \in DOMAIN w.ctrl : w.ctrl[i].op \notin {"enable", "disable"}) =>
       (sc <=> SomeScans(w.arb))

Good(w, q, x, W, h, sc) ==
  /\ Accounted(w, q, x, W)
  /\ OneScanEach(W)
  /\ Locks(w, q)
  /\ SplServed(w, sc)
  /\ "arbitrated" \notin w.seen => HostAgrees(w, q, x, h) /\ ScanAgrees(w, sc)

CalmIn(w) == w.seen \cap {"early", "wrapped"} = {}

-----------------------------------------------------------------------------
(* A command keeps the invariant.                                          *)

\* A command taken out of a queue is started or saved, and never both.
LEMMA CommandPending ==
  ASSUME NEW w \in WorkSet, NEW v \in WorkSet, NEW q \in Seq(ArbMsg),
         NEW x \in Seq(AnyRequest), x # <<>>, NEW m \in AnyRequest, m = Head(x),
         NEW s \in Stack, NEW A \in SUBSET Op,
         Stalled(w, m, v) \/ Forwarded(w, m, v) \/ Simulated(w, m, v) \/ Arbitrated(w, m, v)
  PROVE  /\ PendingIn(v, q, Tail(x), s, A) \in Nat
         /\ PendingIn(w, q, x, s, A) =
              PendingIn(v, q, Tail(x), s, A) + One(~ Stalled(w, m, v) /\ m.from = s /\ m.op \in A)
<1>0. /\ AnyRequest \subseteq ArbMsg /\ x \in Seq(ArbMsg) /\ Tail(x) \in Seq(ArbMsg)
      /\ w.arb.saved \in [Stack -> Seq(AnyRequest)]
      /\ w.arb.saved[s] \in Seq(ArbMsg) /\ m.from \in Stack
  BY SMTT(30), HeadTailProperties DEF ArbMsg, AnyRequest, WorkSet, ArbState, Request, Stack
<1>1. /\ CountIn(q, Asked(s, A)) \in Nat /\ CountIn(Tail(x), Asked(s, A)) \in Nat
      /\ CountIn(w.arb.saved[s], Asked(s, A)) \in Nat
  BY <1>0, ArbCounts
<1>2. CountIn(x, Asked(s, A)) = CountIn(Tail(x), Asked(s, A)) + One(m.from = s /\ m.op \in A)
  BY <1>0, ArbCounts
<1>3. CASE Stalled(w, m, v)
  <2>1. v.arb.saved = [w.arb.saved EXCEPT ![m.from] = Append(@, m)]
    BY <1>3 DEF Stalled
  <2>2. v.arb.saved[s] = IF m.from = s THEN Append(w.arb.saved[s], m) ELSE w.arb.saved[s]
    BY <1>0, <2>1
  <2>3. CountIn(v.arb.saved[s], Asked(s, A)) =
          CountIn(w.arb.saved[s], Asked(s, A)) + One(m.from = s /\ m.op \in A)
    <3>1. CASE m.from = s
      BY <1>0, <2>2, <3>1, ArbCounts
    <3>2. CASE m.from # s
      BY <1>1, <2>2, <3>2 DEF One
    <3> QED BY <3>1, <3>2
  <2> QED BY SMTT(30), <1>1, <1>2, <1>3, <2>3 DEF PendingIn, One
<1>4. CASE ~ Stalled(w, m, v)
  <2>1. v.arb.saved = w.arb.saved
    BY <1>4 DEF Forwarded, Simulated, Arbitrated, Locked
  <2> QED BY <1>1, <1>2, <1>4, <2>1 DEF PendingIn, One
<1> QED BY <1>3, <1>4

\* The families are sets of operations.
LEMMA FamilyIsOps == Family \subseteq SUBSET Op
BY DEF Family, Op, ScanOp

\* A command taken out of a queue is counted where it goes.
LEMMA CommandAccounted ==
  ASSUME NEW w \in WorkSet, NEW v \in WorkSet, NEW q \in Seq(ArbMsg),
         NEW x \in Seq(AnyRequest), x # <<>>, NEW m \in AnyRequest, m = Head(x), NEW W,
         Stalled(w, m, v) \/ Forwarded(w, m, v) \/ Simulated(w, m, v) \/ Arbitrated(w, m, v),
         w.arb.spl <=> w.arb.sm # "idle",
         Accounted(w, q, x, W)
  PROVE  Accounted(v, q, Tail(x), W)
<1> SUFFICES ASSUME NEW s \in Stack, NEW A \in Family
             PROVE  CountIn(W[s], A) = PendingIn(v, q, Tail(x), s, A) + StartedIn(v, s, A)
  BY DEF Accounted
<1>1. A \in SUBSET Op
  BY FamilyIsOps
<1>2. CountIn(W[s], A) = PendingIn(w, q, x, s, A) + StartedIn(w, s, A)
  BY DEF Accounted
<1>3. /\ StartedIn(w, s, A) \in Nat
      /\ StartedIn(v, s, A) = StartedIn(w, s, A) +
           One(~ Stalled(w, m, v) /\ m.from = s /\ m.op \in A)
  BY <1>1, CommandCounts
<1>4. /\ PendingIn(v, q, Tail(x), s, A) \in Nat
      /\ PendingIn(w, q, x, s, A) =
           PendingIn(v, q, Tail(x), s, A) + One(~ Stalled(w, m, v) /\ m.from = s /\ m.op \in A)
  BY <1>1, CommandPending
<1> QED BY <1>2, <1>3, <1>4 DEF One

\* The lock of a command is taken, and everything that uses it is counted.
LEMMA CommandLocks ==
  ASSUME NEW w \in WorkSet, NEW v \in WorkSet, NEW q \in Seq(ArbMsg), NEW m \in AnyRequest,
         Stalled(w, m, v) \/ Forwarded(w, m, v) \/ Simulated(w, m, v) \/ Arbitrated(w, m, v),
         Locks(w, q), CalmIn(v)
  PROVE  Locks(v, q)
<1>0. /\ m.from \in Stack /\ m.op \in Op /\ m.from # "spl"
      /\ m.from # "micro" => m.from = "primary"
      /\ m.from = "micro" => m.op # "peri"
      /\ w.arb \in ArbState /\ Op \in SUBSET Op /\ "disable" \in Op
      /\ w.arb.count \in 0 .. 255
  BY DEF AnyRequest, Request, Stack, OpsOf, Op, WorkSet, ArbState
<1>1. w.arb.spl <=> w.arb.sm # "idle"
  BY DEF Locks
<1>2. \A s \in Stack : CountIn(q, CleaningOf(s)) \in Nat
  BY <1>0, ArbCounts
<1>3. \A s \in Stack :
        /\ StartedIn(w, s, Op) \in Nat /\ SentIn(w, "spl", Op) \in Nat
        /\ StartedIn(v, s, Op) = StartedIn(w, s, Op) + One(~ Stalled(w, m, v) /\ m.from = s)
        /\ SentIn(v, "spl", Op) = SentIn(w, "spl", Op) + One(Arbitrated(w, m, v))
        /\ v.arb.spl <=> v.arb.sm # "idle"
  <2> SUFFICES ASSUME NEW s \in Stack
               PROVE  /\ StartedIn(w, s, Op) \in Nat /\ SentIn(w, "spl", Op) \in Nat
                      /\ StartedIn(v, s, Op) =
                           StartedIn(w, s, Op) + One(~ Stalled(w, m, v) /\ m.from = s)
                      /\ SentIn(v, "spl", Op) = SentIn(w, "spl", Op) + One(Arbitrated(w, m, v))
                      /\ v.arb.spl <=> v.arb.sm # "idle"
    OBVIOUS
  <2>1. /\ StartedIn(w, s, Op) \in Nat /\ SentIn(w, "spl", Op) \in Nat
        /\ StartedIn(v, s, Op) = StartedIn(w, s, Op) +
             One(~ Stalled(w, m, v) /\ m.from = s /\ m.op \in Op)
        /\ SentIn(v, "spl", Op) =
             SentIn(w, "spl", Op) + One(Arbitrated(w, m, v) /\ "disable" \in Op)
        /\ v.arb.spl <=> v.arb.sm # "idle"
    BY <1>0, <1>1, CommandCounts
  <2>2. One(~ Stalled(w, m, v) /\ m.from = s /\ m.op \in Op) =
          One(~ Stalled(w, m, v) /\ m.from = s)
    BY <1>0 DEF One
  <2>3. One(Arbitrated(w, m, v) /\ "disable" \in Op) = One(Arbitrated(w, m, v))
    BY <1>0 DEF One
  <2> QED BY <2>1, <2>2, <2>3
<1>4. \A s \in Stack :
        /\ Using(w, q, s) \in Nat
        /\ Using(v, q, s) = Using(w, q, s) + One(~ Stalled(w, m, v) /\ m.from = s)
  BY <1>2, <1>3 DEF Using, One
<1>5. "micro" \in Stack /\ "primary" \in Stack
  BY DEF Stack
<1>6. CASE Stalled(w, m, v)
  <2>1. ~ Arbitrated(w, m, v)
    BY <1>6 DEF Stalled, Arbitrated, Locked
  <2> QED BY <1>0, <1>3, <1>4, <1>5, <1>6, <2>1 DEF Locks, Stalled, One
<1>7. CASE ~ Stalled(w, m, v)
  <2>1. /\ Locked(w, m, v) /\ w.seen \cup Wraps(m.from, w.arb) \subseteq v.seen
        /\ "peri" \notin v.seen => m.op # "peri"
        /\ v.arb.spl => w.arb.spl \/ "arbitrated" \in v.seen
        /\ v.arb.spl => v.arb.micro = w.arb.micro \/ ~ Arbitrated(w, m, v)
    BY <1>7 DEF Forwarded, Simulated, Arbitrated, ScanOp, Locked
  <2>2. /\ ~ w.arb.spl /\ w.arb.micro = "unlock" /\ (m.from = "micro" => w.arb.primary = "unlock")
    BY <1>0, <2>1 DEF Locked, IsHciCmdArbQueueLocked
  <2>3. m.from = "primary" => w.arb.count < 255
    <3>1. "wrapped" \notin Wraps(m.from, w.arb)
      BY <2>1 DEF CalmIn
    <3>2. ~ (m.from = "primary" /\ w.arb.count = 255)
      BY <3>1 DEF Wraps
    <3> DEFINE n == w.arb.count
    <3>3. n \in 0 .. 255 /\ (m.from = "primary" => n # 255)
      BY <1>0, <3>2
    <3> HIDE DEF n
    <3>4. m.from = "primary" => n < 255
      BY <3>3
    <3> QED BY <3>4 DEF n
  <2>4. v.arb.spl <=> Arbitrated(w, m, v)
    BY <1>7, <2>2 DEF Forwarded, Simulated, Arbitrated
  <2>5. CASE m.from = "micro"
    <3>1. /\ v.arb.micro = "cmd" /\ v.arb.primary = "unlock" /\ v.arb.count = w.arb.count
          /\ ~ Arbitrated(w, m, v)
      BY <2>1, <2>2, <2>5 DEF Locked, Arbitrated
    <3>2. /\ Using(v, q, "micro") = Using(w, q, "micro") + 1
          /\ Using(v, q, "primary") = Using(w, q, "primary")
      BY <1>4, <1>5, <1>7, <2>5 DEF One
    <3>3. Using(w, q, "micro") = 0 /\ w.arb.count = 0 /\ Using(w, q, "primary") = 0
      BY <1>4, <1>5, <2>2, <2>5 DEF Locks, One
    <3>4. /\ SentIn(v, "spl", Op) = One(v.arb.spl) /\ ~ v.arb.spl
          /\ v.arb.spl <=> v.arb.sm # "idle"
      <4>1. SentIn(w, "spl", Op) = 0
        BY <2>2 DEF Locks, One
      <4>2. SentIn(v, "spl", Op) = 0
        BY <1>3, <1>5, <3>1, <4>1 DEF One
      <4>3. ~ v.arb.spl
        BY <2>4, <3>1
      <4>4. v.arb.spl <=> v.arb.sm # "idle"
        BY <1>3, <1>5
      <4> QED BY <4>2, <4>3, <4>4 DEF One
    <3> QED BY <3>1, <3>2, <3>3, <3>4 DEF Locks, One
  <2>6. CASE m.from = "primary"
    <3> DEFINE n == w.arb.count
    <3>0. n \in 0 .. 255
      BY <1>0
    <3>1. /\ v.arb.micro = "unlock" /\ v.arb.primary # "unlock" /\ v.arb.count = (n + 1) % 256
          /\ v.arb.primary = "peri" <=> m.op = "peri"
      BY <2>1, <2>2, <2>6 DEF Locked
    <3>2. v.arb.count = n + 1
      <4>1. n # 255
        BY <2>3, <2>6
      <4> HIDE DEF n
      <4> QED BY ZenonT(60), <3>0, <3>1, <4>1, CountByte
    <3>3. /\ Using(v, q, "micro") = Using(w, q, "micro")
          /\ Using(v, q, "primary") = Using(w, q, "primary") + 1
      BY <1>4, <1>5, <1>7, <2>6 DEF One
    <3>4. SentIn(v, "spl", Op) = One(v.arb.spl)
      BY <1>3, <1>5, <2>2, <2>4 DEF Locks, One
    <3>5. v.arb.spl => "arbitrated" \in v.seen
      BY <2>4 DEF Arbitrated
    <3>6. /\ Using(w, q, "micro") = 0 /\ Using(w, q, "primary") <= n
          /\ "peri" \notin w.seen => n = Using(w, q, "primary")
          /\ Using(w, q, "primary") \in Nat
      BY <1>4, <1>5, <2>2 DEF Locks, One
    <3>7. v.arb.spl <=> v.arb.sm # "idle"
      BY <1>3, <1>5
    <3>8. "peri" \notin v.seen => "peri" \notin w.seen /\ v.arb.primary # "peri"
      BY <2>1, <3>1
    <3>9. /\ Using(v, q, "micro") = One(v.arb.micro # "unlock")
          /\ v.arb.primary = "unlock" <=> v.arb.count = 0
          /\ Using(v, q, "primary") <= v.arb.count
          /\ "peri" \notin v.seen => v.arb.count = Using(v, q, "primary")
      <4>1. Using(v, q, "micro") = 0 /\ v.arb.micro = "unlock"
        BY <3>1, <3>3, <3>6
      <4>2. v.arb.count = n + 1 /\ n + 1 # 0 /\ v.arb.primary # "unlock"
        <5> HIDE DEF n
        <5>1. n + 1 # 0
          BY ONLY <3>0, ByteIsNatural
        <5> QED BY ONLY <3>1, <3>2, <5>1
      <4>3. /\ Using(v, q, "primary") <= n + 1
            /\ "peri" \notin w.seen => n + 1 = Using(v, q, "primary")
        <5>1. \A a, b \in Nat : \A j \in 0 .. 255 :
                a <= j /\ b = a + 1 => b <= j + 1 /\ (j = a => j + 1 = b)
          BY ONLY ByteIsNatural
        <5> DEFINE x == Using(w, q, "primary")
                   y == Using(v, q, "primary")
        <5>2. x \in Nat /\ x <= n /\ y = x + 1 /\ ("peri" \notin w.seen => n = x)
          BY ONLY <3>3, <3>6
        <5> HIDE DEF n, x, y
        <5>3. y \in Nat
          BY ONLY <5>2
        <5>4. y <= n + 1 /\ ("peri" \notin w.seen => n + 1 = y)
          BY ONLY <3>0, <5>1, <5>2, <5>3
        <5> QED BY ONLY <5>4 DEF y
      <4> QED BY <3>8, <4>1, <4>2, <4>3 DEF One
    <3> QED BY <3>1, <3>4, <3>5, <3>7, <3>8, <3>9 DEF Locks
  <2> QED BY <1>0, <2>5, <2>6
<1> QED BY <1>6, <1>7

\* What is counted is there, and what is not counted is not.
LEMMA NoneSent ==
  ASSUME NEW w \in WorkSet, NEW s \in Who, NEW A \in SUBSET Op, SentIn(w, s, A) = 0
  PROVE  /\ \A i \in DOMAIN w.ctrl : w.ctrl[i].for = s => w.ctrl[i].op \notin A
         /\ \A i \in DOMAIN w.dmq : w.dmq[i].for = s => w.dmq[i].op \notin A
<1>1. w.ctrl \in Seq(Command) /\ w.dmq \in Seq(Event)
  BY DEF WorkSet
<1>2. CountIn(w.ctrl, Sent(s, A)) = 0 /\ CountIn(w.dmq, Told(s, A)) = 0
  <2>1. CountIn(w.ctrl, Sent(s, A)) \in Nat /\ CountIn(w.dmq, Told(s, A)) \in Nat
    BY <1>1, CtrlCounts, EventCounts
  <2> QED BY <2>1 DEF SentIn
<1>3. \A i \in DOMAIN w.ctrl : w.ctrl[i] \notin Sent(s, A)
  BY <1>1, <1>2, CountNothing
<1>4. \A i \in DOMAIN w.dmq : w.dmq[i] \notin Told(s, A)
  BY <1>1, <1>2, CountNothing
<1>5. \A i \in DOMAIN w.ctrl : w.ctrl[i] \in Command
  BY <1>1
<1>6. \A i \in DOMAIN w.dmq : w.dmq[i] \in Event
  BY <1>1
<1>7. \A e \in Command : e.for = s /\ e.op \in A => e \in Sent(s, A)
  BY DEF Command, Sent
<1>8. \A e \in Event : e.for = s /\ e.op \in A => e \in Told(s, A)
  BY DEF Event, Told, Who, Stack
<1> QED BY <1>3, <1>4, <1>5, <1>6, <1>7, <1>8

\* Nothing started for a stack is nothing at the controller.
LEMMA NotUsing ==
  ASSUME NEW w \in WorkSet, NEW q \in Seq(ArbMsg), NEW s \in Stack, Using(w, q, s) = 0
  PROVE  /\ \A i \in DOMAIN w.ctrl : w.ctrl[i].for # s
         /\ \A i \in DOMAIN w.dmq : w.dmq[i].for # s
         /\ StartedIn(w, s, Op) = 0 /\ CountIn(q, CleaningOf(s)) = 0
<1>0. s \in Who /\ Op \in SUBSET Op /\ w.ctrl \in Seq(Command) /\ w.dmq \in Seq(Event)
  BY DEF Who, WorkSet
<1>1. /\ CountIn(w.ctrl, Sent(s, Op)) \in Nat /\ CountIn(w.dmq, Told(s, Op)) \in Nat
      /\ CountIn(q, CleaningOf(s)) \in Nat
  BY <1>0, CtrlCounts, EventCounts, ArbCounts
<1>2. SentIn(w, s, Op) = 0 /\ StartedIn(w, s, Op) = 0 /\ CountIn(q, CleaningOf(s)) = 0
  BY <1>1 DEF Using, StartedIn, SentIn, HeldIn, One
<1>3. /\ \A i \in DOMAIN w.ctrl : w.ctrl[i].for = s => w.ctrl[i].op \notin Op
      /\ \A i \in DOMAIN w.dmq : w.dmq[i].for = s => w.dmq[i].op \notin Op
  BY <1>0, <1>2, NoneSent
<1>4. /\ \A i \in DOMAIN w.ctrl : w.ctrl[i] \in Command
      /\ \A i \in DOMAIN w.dmq : w.dmq[i] \in Event
  BY <1>0
<1>5. /\ \A e \in Command : e.op \in Op
      /\ \A e \in Event : e.for = s => e.op \in Op
  BY DEF Command, Event, Stack
<1> QED BY <1>2, <1>3, <1>4, <1>5

\* A command that gets the lock finds no command of anyone else at the
\* controller, and a scan command finds no scan command there.
LEMMA LockExcludes ==
  ASSUME NEW w \in WorkSet, NEW q \in Seq(ArbMsg), NEW m \in AnyRequest,
         NEW x \in Seq(AnyRequest), x # <<>>, m = Head(x), NEW W,
         Locks(w, q), Accounted(w, q, x, W), OneScanEach(W),
         ~ IsHciCmdArbQueueLocked(m.from, w.arb)
  PROVE  /\ ~ w.arb.spl
         /\ \A i \in DOMAIN w.ctrl : w.ctrl[i].for = m.from
         /\ \A i \in DOMAIN w.dmq : w.dmq[i].for # "spl"
         /\ m.op \in ScanOp => \A i \in DOMAIN w.ctrl : w.ctrl[i].op \notin ScanOp
<1>0. /\ m.from \in Stack /\ m.from # "spl"
      /\ m.from # "micro" => m.from = "primary"
      /\ "micro" \in Stack /\ "primary" \in Stack /\ "spl" \in Who /\ m.from \in Who
      /\ Op \in SUBSET Op /\ ScanOp \in SUBSET Op /\ ScanOp \in Family
      /\ w.ctrl \in Seq(Command) /\ w.dmq \in Seq(Event)
  BY DEF AnyRequest, Request, Stack, Who, Op, ScanOp, WorkSet, Family
<1>1. /\ ~ w.arb.spl /\ w.arb.micro = "unlock"
      /\ m.from = "micro" => w.arb.primary = "unlock"
  BY <1>0 DEF IsHciCmdArbQueueLocked
<1>2. \A s \in Stack : Using(w, q, s) \in Nat
  <2> SUFFICES ASSUME NEW s \in Stack PROVE Using(w, q, s) \in Nat
    OBVIOUS
  <2>1. /\ CountIn(w.ctrl, Sent(s, Op)) \in Nat /\ CountIn(w.dmq, Told(s, Op)) \in Nat
        /\ CountIn(q, CleaningOf(s)) \in Nat
    BY <1>0, CtrlCounts, EventCounts, ArbCounts DEF Who
  <2> QED BY <2>1 DEF Using, StartedIn, SentIn, HeldIn, One
<1>3. Using(w, q, "micro") = 0
  BY <1>1 DEF Locks, One
<1>4. m.from = "micro" => Using(w, q, "primary") = 0
  BY <1>0, <1>1, <1>2 DEF Locks
<1>5. SentIn(w, "spl", Op) = 0
  BY <1>1 DEF Locks, One
<1>6. /\ \A i \in DOMAIN w.ctrl : w.ctrl[i].for # "spl" /\ w.ctrl[i].for # "micro"
      /\ \A i \in DOMAIN w.dmq : w.dmq[i].for # "spl"
  <2>1. /\ \A i \in DOMAIN w.ctrl : w.ctrl[i].for = "spl" => w.ctrl[i].op \notin Op
        /\ \A i \in DOMAIN w.dmq : w.dmq[i].for = "spl" => w.dmq[i].op \notin Op
    BY <1>0, <1>5, NoneSent
  <2>2. \A i \in DOMAIN w.ctrl : w.ctrl[i].for # "micro"
    BY <1>0, <1>3, NotUsing
  <2>3. /\ \A e \in Command : e.op \in Op
        /\ \A e \in Event : e.for = "spl" => e.op \in Op
    BY DEF Command, Event
  <2>4. /\ \A i \in DOMAIN w.ctrl : w.ctrl[i] \in Command
        /\ \A i \in DOMAIN w.dmq : w.dmq[i] \in Event
    BY <1>0
  <2> QED BY <2>1, <2>2, <2>3, <2>4
<1>7. \A i \in DOMAIN w.ctrl : w.ctrl[i].for \in Stack \cup {"spl"}
  BY <1>0 DEF Command
<1>8. m.from = "micro" => \A i \in DOMAIN w.ctrl : w.ctrl[i].for # "primary"
  BY <1>0, <1>4, NotUsing
<1>9. \A i \in DOMAIN w.ctrl : w.ctrl[i].for = m.from
  <2>1. CASE m.from = "micro"
    <3>1. ASSUME NEW i \in DOMAIN w.ctrl PROVE FALSE
      BY <1>6, <1>7, <1>8, <2>1 DEF Stack
    <3> QED BY <3>1
  <2>2. CASE m.from = "primary"
    BY <1>6, <1>7, <2>2 DEF Stack
  <2> QED BY <1>0, <2>1, <2>2
<1>10. ASSUME m.op \in ScanOp
       PROVE  \A i \in DOMAIN w.ctrl : w.ctrl[i].op \notin ScanOp
  <2>0. /\ AnyRequest \subseteq ArbMsg /\ x \in Seq(ArbMsg) /\ Tail(x) \in Seq(ArbMsg)
        /\ w.arb.saved[m.from] \in Seq(ArbMsg)
    BY <1>0, HeadTailProperties DEF ArbMsg, AnyRequest, WorkSet, ArbState
  <2>1. /\ CountIn(q, Asked(m.from, ScanOp)) \in Nat
        /\ CountIn(Tail(x), Asked(m.from, ScanOp)) \in Nat
        /\ CountIn(w.arb.saved[m.from], Asked(m.from, ScanOp)) \in Nat
        /\ CountIn(x, Asked(m.from, ScanOp)) = CountIn(Tail(x), Asked(m.from, ScanOp)) + 1
    <3>1. ASSUME NEW s \in Stack, s = m.from
          PROVE  /\ CountIn(q, Asked(s, ScanOp)) \in Nat
                 /\ CountIn(Tail(x), Asked(s, ScanOp)) \in Nat
                 /\ CountIn(w.arb.saved[s], Asked(s, ScanOp)) \in Nat
                 /\ CountIn(x, Asked(s, ScanOp)) = CountIn(Tail(x), Asked(s, ScanOp)) + 1
      <4>1. /\ CountIn(q, Asked(s, ScanOp)) \in Nat
            /\ CountIn(Tail(x), Asked(s, ScanOp)) \in Nat
            /\ CountIn(w.arb.saved[s], Asked(s, ScanOp)) \in Nat
        <5>1. w.arb.saved[s] \in Seq(ArbMsg)
          BY <2>0, <3>1
        <5> QED BY ZenonT(60), <1>0, <2>0, <5>1, ArbCounts
      <4>2. CountIn(x, Asked(s, ScanOp)) =
              CountIn(Tail(x), Asked(s, ScanOp)) + One(m.from = s /\ m.op \in ScanOp)
        BY <1>0, <2>0, ArbCounts
      <4>3. One(m.from = s /\ m.op \in ScanOp) = 1
        BY <1>10, <3>1 DEF One
      <4> QED BY <4>1, <4>2, <4>3
    <3> QED BY <1>0, <3>1
  <2>2. CountIn(W[m.from], ScanOp) = PendingIn(w, q, x, m.from, ScanOp) + StartedIn(w, m.from, ScanOp)
    BY <1>0 DEF Accounted
  <2>3. CountIn(W[m.from], ScanOp) <= 1
    BY <1>0 DEF OneScanEach
  <2>4. /\ CountIn(w.ctrl, Sent(m.from, ScanOp)) \in Nat
        /\ CountIn(w.dmq, Told(m.from, ScanOp)) \in Nat
    BY <1>0, CtrlCounts, EventCounts
  <2>5. SentIn(w, m.from, ScanOp) = 0
    <3>1. HeldIn(w.arb, m.from, ScanOp) \in Nat
      BY DEF HeldIn, One
    <3> QED BY <2>1, <2>2, <2>3, <2>4, <3>1 DEF PendingIn, StartedIn, SentIn
  <2>6. \A i \in DOMAIN w.ctrl : w.ctrl[i].for = m.from => w.ctrl[i].op \notin ScanOp
    BY <1>0, <2>5, NoneSent
  <2> QED BY <1>9, <2>6
<1> QED BY <1>1, <1>6, <1>9, <1>10

\* A queue of the controller with one more command, or the same.
LEMMA AppendedAt ==
  ASSUME NEW S, NEW q \in Seq(S), NEW e \in S, NEW r, r = Append(q, e)
  PROVE  /\ \A i \in DOMAIN r : r[i] = e \/ \E j \in DOMAIN q : r[i] = q[j]
         /\ \A j \in DOMAIN q : j \in DOMAIN r /\ r[j] = q[j]
         /\ \E i \in DOMAIN r : r[i] = e
<1>1. /\ Len(r) = Len(q) + 1 /\ DOMAIN r = 1 .. Len(q) + 1 /\ DOMAIN q = 1 .. Len(q)
      /\ \A i \in 1 .. Len(q) : r[i] = q[i]
      /\ r[Len(q) + 1] = e /\ Len(q) \in Nat
  OBVIOUS
<1> QED BY <1>1

\* The state machine's own command stays the one of its state.
LEMMA CommandSpl ==
  ASSUME NEW w \in WorkSet, NEW v \in WorkSet, NEW m \in AnyRequest, NEW sc,
         Stalled(w, m, v) \/ Forwarded(w, m, v) \/ Simulated(w, m, v) \/ Arbitrated(w, m, v),
         ~ Stalled(w, m, v) =>
           /\ \A i \in DOMAIN w.ctrl : w.ctrl[i].for = m.from
           /\ \A i \in DOMAIN w.dmq : w.dmq[i].for # "spl",
         SplServed(w, sc)
  PROVE  SplServed(v, sc)
<1>0. /\ m.from # "spl" /\ m.from \in Who /\ m.op \in OpsOf(m.from) /\ m.op \in Op
      /\ w.ctrl \in Seq(Command) /\ w.dmq \in Seq(Event)
  BY DEF AnyRequest, Request, Stack, Who, OpsOf, WorkSet
<1>1. CASE Stalled(w, m, v)
  BY <1>1 DEF Stalled, SplServed
<1>2. CASE Forwarded(w, m, v)
  <2> DEFINE c == [op |-> m.op, for |-> m.from]
  <2>1. c \in Command /\ c.for # "spl"
    BY <1>0 DEF Command, Who
  <2>2. v.ctrl = Append(w.ctrl, c) /\ v.dmq = w.dmq /\ v.arb.sm = w.arb.sm
    BY <1>2 DEF Forwarded
  <2> HIDE DEF c
  <2>3. \A i \in DOMAIN v.ctrl : v.ctrl[i] = c \/ \E j \in DOMAIN w.ctrl : v.ctrl[i] = w.ctrl[j]
    BY <1>0, <2>1, <2>2, AppendedAt
  <2> QED BY <2>1, <2>2, <2>3 DEF SplServed
<1>3. CASE Simulated(w, m, v)
  <2> DEFINE e == [op |-> m.op, for |-> m.from, ok |-> TRUE]
  <2>1. e \in Event /\ e.for # "spl"
    BY <1>0 DEF Event, Who
  <2>2. v.dmq = Append(w.dmq, e) /\ v.ctrl = w.ctrl /\ v.arb.sm = w.arb.sm
    BY <1>3 DEF Simulated
  <2> HIDE DEF e
  <2>3. \A i \in DOMAIN v.dmq : v.dmq[i] = e \/ \E j \in DOMAIN w.dmq : v.dmq[i] = w.dmq[j]
    BY <1>0, <2>1, <2>2, AppendedAt
  <2> QED BY <2>1, <2>2, <2>3 DEF SplServed
<1>4. CASE Arbitrated(w, m, v)
  <2> DEFINE c == [op |-> "disable", for |-> "spl"]
  <2>1. c \in Command /\ c.op = "disable"
    BY DEF Command, OpsOf, ScanOp, Op
  <2>2. v.ctrl = Append(w.ctrl, c) /\ v.dmq = w.dmq /\ v.arb.sm = "disabling"
    BY <1>4 DEF Arbitrated
  <2> HIDE DEF c
  <2>3. \A i \in DOMAIN v.ctrl : v.ctrl[i] = c \/ \E j \in DOMAIN w.ctrl : v.ctrl[i] = w.ctrl[j]
    BY <1>0, <2>1, <2>2, AppendedAt
  <2>4. ~ Stalled(w, m, v)
    BY <1>4 DEF Stalled, Arbitrated, Locked
  <2> QED BY <1>0, <2>1, <2>2, <2>3, <2>4 DEF SplServed, OwnCommand
<1> QED BY <1>1, <1>2, <1>3, <1>4

\* The two stacks.
LEMMA OtherStack ==
  ASSUME NEW s \in Stack
  PROVE  Other(s) \in Stack /\ Other(s) # s /\ \A t \in Stack : t = s \/ t = Other(s)
BY DEF Other, Stack

\* The controller's scan stays the one the flags ask for.
LEMMA CommandScan ==
  ASSUME NEW w \in WorkSet, NEW v \in WorkSet, NEW m \in AnyRequest, NEW sc,
         Stalled(w, m, v) \/ Forwarded(w, m, v) \/ Simulated(w, m, v),
         ~ Stalled(w, m, v) /\ m.op \in ScanOp => \A i \in DOMAIN w.ctrl : w.ctrl[i].op \notin ScanOp,
         ScanAgrees(w, sc)
  PROVE  ScanAgrees(v, sc)
<1>0. /\ m.from \in Stack /\ m.from \in Who /\ m.op \in OpsOf(m.from) /\ m.op \in Op
      /\ w.ctrl \in Seq(Command) /\ w.arb.scanEnabled \in [Stack -> BOOLEAN]
      /\ Other(m.from) \in Stack /\ Other(m.from) # m.from
      /\ \A t \in Stack : t = m.from \/ t = Other(m.from)
  BY OtherStack DEF AnyRequest, Request, Stack, Who, OpsOf, WorkSet, ArbState
<1>1. CASE Stalled(w, m, v)
  BY <1>1 DEF Stalled, ScanAgrees, SomeScans
<1>2. CASE Forwarded(w, m, v)
  <2> DEFINE c == [op |-> m.op, for |-> m.from]
  <2>1. c \in Command /\ c.op = m.op
    BY <1>0 DEF Command, Who
  <2>2. v.ctrl = Append(w.ctrl, c) /\ ~ Stalled(w, m, v)
    BY <1>2 DEF Forwarded, Stalled, Locked
  <2> HIDE DEF c
  <2>3. /\ \A i \in DOMAIN v.ctrl : v.ctrl[i] = c \/ \E j \in DOMAIN w.ctrl : v.ctrl[i] = w.ctrl[j]
        /\ \A j \in DOMAIN w.ctrl : j \in DOMAIN v.ctrl /\ v.ctrl[j] = w.ctrl[j]
        /\ \E i \in DOMAIN v.ctrl : v.ctrl[i] = c
    BY <1>0, <2>1, <2>2, AppendedAt
  <2>4. CASE m.op = "enable"
    <3>1. SomeScans(v.arb)
      BY <1>0, <1>2, <2>4 DEF Forwarded, SomeScans
    <3>2. \A i \in DOMAIN v.ctrl : v.ctrl[i].op # "disable"
      BY <2>1, <2>2, <2>3, <2>4 DEF ScanOp
    <3> QED BY <2>1, <2>3, <2>4, <3>1, <3>2 DEF ScanAgrees
  <2>5. CASE m.op = "disable"
    <3>1. ~ SomeScans(v.arb)
      BY <1>0, <1>2, <2>5 DEF Forwarded, SomeScans
    <3>2. \A i \in DOMAIN v.ctrl : v.ctrl[i].op # "enable"
      BY <2>1, <2>2, <2>3, <2>5 DEF ScanOp
    <3> QED BY <2>1, <2>3, <2>5, <3>1, <3>2 DEF ScanAgrees
  <2>6. CASE m.op \notin {"enable", "disable"}
    <3>1. SomeScans(v.arb) <=> SomeScans(w.arb)
      BY <1>2, <2>6 DEF Forwarded, SomeScans
    <3> QED BY <2>1, <2>3, <2>6, <3>1 DEF ScanAgrees
  <2> QED BY <2>4, <2>5, <2>6
<1>3. CASE Simulated(w, m, v)
  <2>1. SomeScans(v.arb) <=> SomeScans(w.arb)
    BY <1>0, <1>3 DEF Simulated, SomeScans, ScanOp
  <2> QED BY <1>3, <2>1 DEF ScanAgrees, Simulated
<1> QED BY <1>1, <1>2, <1>3

\* The flags stay what the stacks asked for.
LEMMA CommandHost ==
  ASSUME NEW w \in WorkSet, NEW v \in WorkSet, NEW q \in Seq(ArbMsg),
         NEW x \in Seq(AnyRequest), x # <<>>, NEW m \in AnyRequest, m = Head(x), NEW h,
         Stalled(w, m, v) \/ Forwarded(w, m, v) \/ Simulated(w, m, v),
         HostAgrees(w, q, x, h)
  PROVE  HostAgrees(v, q, Tail(x), h)
<1> SUFFICES ASSUME NEW s \in Stack
             PROVE  LET enables == PendingIn(v, q, Tail(x), s, {"enable"})
                        disables == PendingIn(v, q, Tail(x), s, {"disable"})
                    IN  /\ enables + disables <= 1
                        /\ enables > 0 => h[s] = "on" /\ ~ v.arb.scanEnabled[s]
                        /\ disables > 0 => h[s] # "on" /\ v.arb.scanEnabled[s]
                        /\ enables = 0 /\ disables = 0 => (h[s] = "on" <=> v.arb.scanEnabled[s])
  BY DEF HostAgrees
<1> DEFINE E == PendingIn(w, q, x, s, {"enable"})
           D == PendingIn(w, q, x, s, {"disable"})
           F == PendingIn(v, q, Tail(x), s, {"enable"})
           G == PendingIn(v, q, Tail(x), s, {"disable"})
           started == ~ Stalled(w, m, v) /\ m.from = s
<1>0. m.from \in Stack /\ w.arb.scanEnabled \in [Stack -> BOOLEAN]
  BY DEF AnyRequest, Request, Stack, WorkSet, ArbState
<1>1. /\ F \in Nat /\ E = F + One(~ Stalled(w, m, v) /\ m.from = s /\ m.op \in {"enable"})
      /\ G \in Nat /\ D = G + One(~ Stalled(w, m, v) /\ m.from = s /\ m.op \in {"disable"})
  <2>1. {"enable"} \in SUBSET Op /\ {"disable"} \in SUBSET Op
    BY DEF Op
  <2> QED BY <2>1, CommandPending
<1>2. /\ E + D <= 1
      /\ E > 0 => h[s] = "on" /\ ~ w.arb.scanEnabled[s]
      /\ D > 0 => h[s] # "on" /\ w.arb.scanEnabled[s]
      /\ E = 0 /\ D = 0 => (h[s] = "on" <=> w.arb.scanEnabled[s])
  BY DEF HostAgrees
<1> HIDE DEF E, D, F, G
<1>3. CASE started /\ m.op = "enable"
  <2>1. v.arb.scanEnabled[s] = TRUE
    BY <1>0, <1>3 DEF Forwarded, Simulated
  <2>2. F = 0 /\ G = 0 /\ E = 1
    BY <1>1, <1>2, <1>3 DEF One
  <2> QED BY <1>2, <2>1, <2>2 DEF F, G
<1>4. CASE started /\ m.op = "disable"
  <2>1. v.arb.scanEnabled[s] = FALSE
    BY <1>0, <1>4 DEF Forwarded, Simulated
  <2>2. F = 0 /\ G = 0 /\ D = 1
    BY <1>1, <1>2, <1>4 DEF One
  <2> QED BY <1>2, <2>1, <2>2 DEF F, G
<1>5. CASE ~ (started /\ m.op \in {"enable", "disable"})
  <2>1. v.arb.scanEnabled[s] = w.arb.scanEnabled[s]
    BY <1>0, <1>5 DEF Forwarded, Simulated, Stalled, ScanOp
  <2>2. F = E /\ G = D
    BY <1>1, <1>5 DEF One
  <2> QED BY <1>2, <2>1, <2>2 DEF F, G
<1> QED BY <1>3, <1>4, <1>5

\* Everything the arbiter may be in, with the saved commands in their own queues.
Works == {w \in WorkSet : \A s \in Stack : w.arb.saved[s] \in Seq(Request(s))}

\* While the scan is arbitrated the primary stack's lock is held.
LEMMA SplLocksPrimary ==
  ASSUME NEW w \in WorkSet, NEW q \in Seq(ArbMsg), Locks(w, q), w.arb.spl
  PROVE  w.arb.primary # "unlock" /\ StartedIn(w, "primary", Op) > 0
<1>0. /\ "primary" \in Stack /\ "primary" \in Who /\ Op \in SUBSET Op
      /\ w.ctrl \in Seq(Command) /\ w.dmq \in Seq(Event)
  BY DEF Stack, Who, WorkSet
<1>1. /\ CountIn(w.ctrl, Sent("primary", Op)) \in Nat
      /\ CountIn(w.dmq, Told("primary", Op)) \in Nat
      /\ CountIn(q, CleaningOf("primary")) \in Nat
  BY <1>0, CtrlCounts, EventCounts, ArbCounts
<1>2. HeldIn(w.arb, "primary", Op) = 1
  BY DEF Locks, HeldIn, One, Op
<1>3. StartedIn(w, "primary", Op) > 0 /\ Using(w, q, "primary") > 0
  BY <1>1, <1>2 DEF Using, StartedIn, SentIn
<1>4. w.arb.count # 0
  BY <1>1, <1>2, <1>3 DEF Locks, Using, StartedIn, SentIn, WorkSet, ArbState
<1> QED BY <1>3, <1>4 DEF Locks

\* A command handled keeps the invariant, and what was seen stays seen.
LEMMA CommandGood ==
  ASSUME NEW w \in Works, NEW q \in Seq(ArbMsg), NEW x \in Seq(AnyRequest), x # <<>>,
         NEW m, m = Head(x), NEW v, v = handleCmdReqCommon(w, m), NEW W, NEW h, NEW sc,
         CalmIn(w) => Good(w, q, x, W, h, sc)
  PROVE  /\ v \in Works /\ w.seen \subseteq v.seen
         /\ CalmIn(v) => CalmIn(w) /\ Good(v, q, Tail(x), W, h, sc)
<1>0. w \in WorkSet /\ m \in AnyRequest /\ \A s \in Stack : w.arb.saved[s] \in Seq(Request(s))
  BY HeadTailProperties DEF Works
<1>1. /\ v \in WorkSet /\ \A s \in Stack : v.arb.saved[s] \in Seq(Request(s))
      /\ Stalled(w, m, v) \/ Forwarded(w, m, v) \/ Simulated(w, m, v) \/ Arbitrated(w, m, v)
  BY <1>0, CommandEffect
<1>2. w.seen \subseteq v.seen
  BY <1>1 DEF Stalled, Forwarded, Simulated, Arbitrated
<1>3. v \in Works
  BY <1>1 DEF Works
<1>4. ASSUME CalmIn(v)
      PROVE  CalmIn(w) /\ Good(v, q, Tail(x), W, h, sc)
  <2>1. CalmIn(w)
    BY <1>2, <1>4 DEF CalmIn
  <2>2. /\ Accounted(w, q, x, W) /\ OneScanEach(W) /\ Locks(w, q) /\ SplServed(w, sc)
        /\ "arbitrated" \notin w.seen => HostAgrees(w, q, x, h) /\ ScanAgrees(w, sc)
    BY <2>1 DEF Good
  <2>3. w.arb.spl <=> w.arb.sm # "idle"
    BY <2>2 DEF Locks
  <2>4. Accounted(v, q, Tail(x), W)
    BY <1>0, <1>1, <2>2, <2>3, CommandAccounted
  <2>5. Locks(v, q)
    BY <1>0, <1>1, <1>4, <2>2, CommandLocks
  <2>6. ~ Stalled(w, m, v) => ~ IsHciCmdArbQueueLocked(m.from, w.arb)
    BY <1>1 DEF Forwarded, Simulated, Arbitrated, Locked
  <2>7. ~ Stalled(w, m, v) =>
          /\ \A i \in DOMAIN w.ctrl : w.ctrl[i].for = m.from
          /\ \A i \in DOMAIN w.dmq : w.dmq[i].for # "spl"
          /\ m.op \in ScanOp => \A i \in DOMAIN w.ctrl : w.ctrl[i].op \notin ScanOp
    BY <1>0, <2>2, <2>6, LockExcludes
  <2>8. SplServed(v, sc)
    BY <1>0, <1>1, <2>2, <2>7, CommandSpl
  <2>9. ASSUME "arbitrated" \notin v.seen
        PROVE  HostAgrees(v, q, Tail(x), h) /\ ScanAgrees(v, sc)
    <3>1. Stalled(w, m, v) \/ Forwarded(w, m, v) \/ Simulated(w, m, v)
      BY <1>1, <2>9 DEF Arbitrated
    <3>2. "arbitrated" \notin w.seen
      BY <1>2, <2>9
    <3>3. HostAgrees(v, q, Tail(x), h)
      BY <1>0, <1>1, <2>2, <3>1, <3>2, CommandHost
    <3>4. ScanAgrees(v, sc)
      BY <1>0, <1>1, <2>2, <2>7, <3>1, <3>2, CommandScan
    <3> QED BY <3>3, <3>4
  <2> QED BY <2>1, <2>2, <2>4, <2>5, <2>8, <2>9 DEF Good
<1> QED BY <1>2, <1>3, <1>4

\* Saved commands have a lock to wait for.
BehindLock(w, s) ==
  w.arb.saved[s] # <<>> => w.arb.micro # "unlock" \/ w.arb.primary # "unlock"

\* A command handled leaves every saved one behind a lock.
LEMMA CommandBehind ==
  ASSUME NEW w \in Works, NEW q \in Seq(ArbMsg), NEW m \in AnyRequest,
         NEW v, v = handleCmdReqCommon(w, m), NEW s \in Stack,
         Locks(w, q), BehindLock(w, s)
  PROVE  BehindLock(v, s)
<1>0. /\ m.from \in Stack /\ m.from # "spl" /\ w \in WorkSet
      /\ w.arb.saved \in [Stack -> Seq(AnyRequest)]
      /\ \A t \in Stack : w.arb.saved[t] \in Seq(Request(t))
  BY DEF AnyRequest, Request, Stack, Works, WorkSet, ArbState
<1>1. Stalled(w, m, v) \/ Forwarded(w, m, v) \/ Simulated(w, m, v) \/ Arbitrated(w, m, v)
  BY <1>0, CommandEffect
<1>2. CASE Stalled(w, m, v)
  <2>1. w.arb.spl => w.arb.primary # "unlock"
    BY <1>0, SplLocksPrimary
  <2>2. w.arb.micro # "unlock" \/ w.arb.primary # "unlock"
    BY <1>2, <2>1 DEF Stalled, IsHciCmdArbQueueLocked
  <2> QED BY <1>2, <2>2 DEF BehindLock, Stalled
<1>3. CASE ~ Stalled(w, m, v)
  <2>1. Locked(w, m, v)
    BY <1>1, <1>3 DEF Forwarded, Simulated, Arbitrated
  <2>2. v.arb.micro # "unlock" \/ v.arb.primary # "unlock"
    BY <1>0, <2>1 DEF Locked, Stack
  <2> QED BY <2>2 DEF BehindLock
<1> QED BY <1>2, <1>3

-----------------------------------------------------------------------------
(* The saved commands are restored.                                        *)

\* Nothing is counted in an empty queue.
LEMMA EmptyCount == \A A : CountIn(<<>>, A) = 0
<1> SUFFICES ASSUME NEW A PROVE CountIn(<<>>, A) = 0
  OBVIOUS
<1>1. <<>> \in Seq({}) /\ DOMAIN <<>> = {}
  OBVIOUS
<1> QED BY <1>1, CountNothing

\* The count of a queue of one.
LEMMA SingleCount ==
  ASSUME NEW m \in AnyRequest
  PROVE  \A A : CountIn(<<m>>, A) = One(m \in A)
<1> SUFFICES ASSUME NEW A PROVE CountIn(<<m>>, A) = One(m \in A)
  OBVIOUS
<1>1. PICK e \in Seq(AnyRequest) : e = <<>>
  <2>1. <<>> \in Seq(AnyRequest)
    OBVIOUS
  <2> QED BY <2>1, Zenon
<1>2. CountIn(Append(e, m), A) = CountIn(e, A) + One(m \in A)
  BY <1>1, CountAppend
<1>3. Append(e, m) = <<m>>
  BY <1>1
<1>4. CountIn(e, A) = 0
  BY <1>1, EmptyCount
<1> QED BY <1>2, <1>3, <1>4 DEF One

\* The same commands are pending, and the same scans are under way.
SamePending(w, q, x, v, p, y) ==
  \A s \in Stack, A \in SUBSET Op : PendingIn(v, p, y, s, A) = PendingIn(w, q, x, s, A)
SameScans(w, v) ==
  /\ v.ctrl = w.ctrl /\ v.dmq = w.dmq
  /\ v.arb.sm = w.arb.sm /\ v.arb.scanEnabled = w.arb.scanEnabled
  /\ "arbitrated" \in v.seen <=> "arbitrated" \in w.seen

\* The invariant counts the pending commands wherever they are.
LEMMA GoodFrom ==
  ASSUME NEW w, NEW v, NEW q, NEW p, NEW x, NEW y, NEW W, NEW h, NEW sc,
         SameScans(w, v), SamePending(w, q, x, v, p, y), Locks(v, p), Good(w, q, x, W, h, sc)
  PROVE  Good(v, p, y, W, h, sc)
<1>1. \A s, A : StartedIn(v, s, A) = StartedIn(w, s, A)
  BY DEF SentIn, StartedIn, HeldIn, SameScans
<1>2. Accounted(v, p, y, W)
  BY <1>1, FamilyIsOps DEF Good, Accounted, SamePending
<1>4. SplServed(v, sc)
  BY DEF Good, SplServed, SameScans
<1>5. ASSUME "arbitrated" \notin v.seen
      PROVE  HostAgrees(v, p, y, h) /\ ScanAgrees(v, sc)
  <2>1. HostAgrees(w, q, x, h) /\ ScanAgrees(w, sc)
    BY <1>5 DEF Good, SameScans
  <2>2. {"enable"} \in SUBSET Op /\ {"disable"} \in SUBSET Op
    BY DEF Op
  <2>3. HostAgrees(v, p, y, h)
    BY <2>1, <2>2 DEF HostAgrees, SameScans, SamePending
  <2>4. ScanAgrees(v, sc)
    BY <2>1 DEF ScanAgrees, SomeScans, SameScans
  <2> QED BY <2>3, <2>4
<1> QED BY <1>2, <1>4, <1>5 DEF Good

\* The locks are the same.
SameLocks(a, b) ==
  b.micro = a.micro /\ b.primary = a.primary /\ b.count = a.count /\ b.spl = a.spl /\ b.sm = a.sm

\* The invariant of the locks looks at nothing else.
LEMMA LocksFrom ==
  ASSUME NEW w \in WorkSet, NEW v \in WorkSet, NEW q, v.ctrl = w.ctrl, v.dmq = w.dmq,
         SameLocks(w.arb, v.arb), "peri" \in v.seen <=> "peri" \in w.seen,
         "arbitrated" \in v.seen <=> "arbitrated" \in w.seen, Locks(w, q)
  PROVE  Locks(v, q)
<1>1. \A s, A : /\ SentIn(v, s, A) = SentIn(w, s, A)
                /\ StartedIn(v, s, A) = StartedIn(w, s, A)
                /\ Using(v, q, s) = Using(w, q, s)
  BY DEF SentIn, StartedIn, Using, HeldIn, SameLocks
<1> QED BY <1>1 DEF Locks, SameLocks

\* The saved commands of a stack are those of r.
WithSaved(w, s, r) == [w EXCEPT !.arb.saved[s] = r]

\* The saved commands are divided into two queues.
Divided(saved, s, r, x) ==
  \A A \in SUBSET Op :
    CountIn(saved, Asked(s, A)) = CountIn(r, Asked(s, A)) + CountIn(x, Asked(s, A))

\* Saved commands of one stack are taken out of its queue.
LEMMA TakenOut ==
  ASSUME NEW w \in Works, NEW s \in Stack, NEW r \in Seq(Request(s)), NEW x \in Seq(Request(s)),
         NEW q \in Seq(ArbMsg), NEW v, v = WithSaved(w, s, r), NEW W, NEW h, NEW sc,
         Divided(w.arb.saved[s], s, r, x)
  PROVE  /\ v \in Works /\ v.seen = w.seen /\ SameLocks(w.arb, v.arb)
         /\ v.arb.saved = [w.arb.saved EXCEPT ![s] = r] /\ v.ctrl = w.ctrl /\ v.dmq = w.dmq
         /\ Good(w, q, <<>>, W, h, sc) => Good(v, q, x, W, h, sc)
<1> DEFINE z == [w.arb.saved EXCEPT ![s] = r]
           a == [w.arb EXCEPT !.saved = z]
<1>0. /\ w \in WorkSet /\ w.arb \in ArbState /\ w.arb.saved \in [Stack -> Seq(AnyRequest)]
      /\ \A t \in Stack : w.arb.saved[t] \in Seq(Request(t))
  BY DEF Works, WorkSet, ArbState, AnyRequest
<1>1. Request(s) \subseteq AnyRequest /\ AnyRequest \subseteq ArbMsg
  BY DEF AnyRequest, Stack, ArbMsg
<1>2. r \in Seq(AnyRequest) /\ r \in Seq(ArbMsg) /\ x \in Seq(ArbMsg) /\ x \in Seq(AnyRequest)
  BY <1>1
<1>3. /\ z \in [Stack -> Seq(AnyRequest)] /\ z[s] = r
      /\ \A t \in Stack : z[t] \in Seq(Request(t)) /\ (t # s => z[t] = w.arb.saved[t])
  BY <1>0, <1>2
<1>4. WithSaved(w, s, r) = [w EXCEPT !.arb = a]
  BY <1>0 DEF WorkSet, ArbState, WithSaved
<1> HIDE DEF z
<1>5. /\ a \in ArbState /\ a.saved = z /\ a.micro = w.arb.micro /\ a.primary = w.arb.primary
      /\ a.count = w.arb.count /\ a.spl = w.arb.spl /\ a.sm = w.arb.sm
      /\ a.scanEnabled = w.arb.scanEnabled
  BY <1>0, <1>3 DEF ArbState, AnyRequest
<1>6. SameLocks(w.arb, a)
  BY <1>5 DEF SameLocks
<1> HIDE DEF a
<1>7. v \in WorkSet /\ v.arb = a /\ v.ctrl = w.ctrl /\ v.dmq = w.dmq /\ v.seen = w.seen
  BY <1>0, <1>4, <1>5 DEF WorkSet
<1>8. v \in Works
  BY <1>3, <1>5, <1>7 DEF Works
<1>9. ASSUME NEW t \in Stack, NEW A \in SUBSET Op
      PROVE  PendingIn(v, q, x, t, A) = PendingIn(w, q, <<>>, t, A)
  <2>1. CountIn(<<>>, Asked(t, A)) = 0
    BY EmptyCount
  <2>2. /\ CountIn(q, Asked(t, A)) \in Nat /\ CountIn(x, Asked(t, A)) \in Nat
        /\ CountIn(r, Asked(t, A)) \in Nat /\ CountIn(w.arb.saved[t], Asked(t, A)) \in Nat
    <3>1. w.arb.saved[t] \in Seq(ArbMsg)
      BY <1>0, <1>1
    <3> QED BY <1>2, <3>1, ArbCounts
  <2>3. CASE t = s
    <3>1. CountIn(w.arb.saved[t], Asked(t, A)) = CountIn(r, Asked(t, A)) + CountIn(x, Asked(t, A))
      BY <2>3 DEF Divided
    <3>2. v.arb.saved[t] = r
      BY <1>3, <1>5, <1>7, <2>3
    <3> QED BY <2>1, <2>2, <3>1, <3>2 DEF PendingIn
  <2>4. CASE t # s
    <3>1. \A i \in DOMAIN x : x[i] \notin Asked(t, A)
      BY <2>4 DEF Request, Asked
    <3>2. CountIn(x, Asked(t, A)) = 0
      BY <1>2, <3>1, CountNothing
    <3> QED BY <1>3, <1>5, <1>7, <2>1, <2>2, <2>4, <3>2 DEF PendingIn
  <2> QED BY <2>3, <2>4
<1>10. ASSUME Good(w, q, <<>>, W, h, sc)
       PROVE  Good(v, q, x, W, h, sc)
  <2>1. Locks(v, q)
    BY <1>0, <1>6, <1>7, <1>10, LocksFrom DEF Good
  <2>2. SameScans(w, v) /\ SamePending(w, q, <<>>, v, q, x)
    BY <1>5, <1>7, <1>9 DEF SameScans, SamePending
  <2> QED BY <1>10, <2>1, <2>2, GoodFrom
<1> QED BY <1>3, <1>5, <1>6, <1>7, <1>8, <1>10 DEF z

\* The lock of a stack is released once.
Released(s, w) == [w EXCEPT !.arb = HciCmdArbUnlockQueue(s, @)]

\* A house cleaning message releases the lock of a stack once.
LEMMA CleaningGood ==
  ASSUME NEW w \in Works, NEW q \in Seq(ArbMsg), q # <<>>, NEW m \in Cleaning, m = Head(q),
         NEW v, v = Released(m.from, w), NEW W, NEW h, NEW sc
  PROVE  /\ v \in Works /\ v.seen = w.seen /\ v.arb.saved = w.arb.saved
         /\ v.ctrl = w.ctrl /\ v.dmq = w.dmq
         /\ Good(w, q, <<>>, W, h, sc) =>
              Good(v, Tail(q), <<>>, W, h, sc) /\ v.arb.micro = "unlock"
<1> DEFINE a == HciCmdArbUnlockQueue(m.from, w.arb)
           n == w.arb.count
           c == (n + 255) % 256
<1>0. /\ w \in WorkSet /\ w.arb \in ArbState /\ m.from \in Stack /\ n \in 0 .. 255
      /\ m.from # "micro" => m.from = "primary"
      /\ \A t \in Stack : w.arb.saved[t] \in Seq(Request(t))
      /\ "micro" \in Stack /\ "primary" \in Stack /\ Op \in SUBSET Op
  BY DEF Works, WorkSet, ArbState, Cleaning, Stack
<1>1. c \in 0 .. 255 /\ (n # 0 => c = n - 1)
  <2> HIDE DEF n
  <2>1. c = IF n = 0 THEN 255 ELSE n - 1
    BY <1>0, CountByte
  <2> HIDE DEF c
  <2> QED BY <1>0, <2>1
<1> HIDE DEF c
<1>2. /\ a \in ArbState /\ a.saved = w.arb.saved /\ a.sm = w.arb.sm /\ a.spl = w.arb.spl
      /\ a.scanEnabled = w.arb.scanEnabled
      /\ m.from = "micro" => a.micro = "unlock" /\ a.primary = w.arb.primary /\ a.count = n
      /\ m.from = "primary" => /\ a.micro = w.arb.micro /\ a.count = c
                               /\ a.primary = IF n = 1 THEN "unlock" ELSE w.arb.primary
  <2>1. CASE m.from = "micro"
    BY <1>0, <2>1 DEF HciCmdArbUnlockQueue, ArbState
  <2>2. CASE m.from = "primary"
    <3> DEFINE p == IF n = 1 THEN "unlock" ELSE w.arb.primary
    <3>1. a = [w.arb EXCEPT !.count = c, !.primary = p]
      BY <1>0, <2>2 DEF HciCmdArbUnlockQueue, ArbState, c
    <3>2. p \in {"unlock", "cmd", "peri"}
      BY <1>0 DEF ArbState
    <3> HIDE DEF a, p
    <3>3. /\ a \in ArbState /\ a.saved = w.arb.saved /\ a.sm = w.arb.sm /\ a.spl = w.arb.spl
          /\ a.scanEnabled = w.arb.scanEnabled
          /\ a.micro = w.arb.micro /\ a.count = c /\ a.primary = p
      BY ZenonT(60), <1>0, <1>1, <3>1, <3>2 DEF ArbState
    <3> QED BY <2>2, <3>3 DEF p
  <2> QED BY <1>0, <2>1, <2>2
<1> HIDE DEF a
<1>3. v \in WorkSet /\ v.arb = a /\ v.ctrl = w.ctrl /\ v.dmq = w.dmq /\ v.seen = w.seen
  BY <1>0, <1>2 DEF WorkSet, a, Released
<1>4. v \in Works
  BY <1>0, <1>2, <1>3 DEF Works
<1>5. ASSUME Good(w, q, <<>>, W, h, sc)
      PROVE  Good(v, Tail(q), <<>>, W, h, sc) /\ v.arb.micro = "unlock"
  <2>1. Locks(w, q)
    BY <1>5 DEF Good
  <2>2. ASSUME NEW t \in Stack, NEW A \in SUBSET Op
        PROVE  PendingIn(v, Tail(q), <<>>, t, A) = PendingIn(w, q, <<>>, t, A)
    <3>1. CountIn(q, Asked(t, A)) = CountIn(Tail(q), Asked(t, A))
      BY ArbCounts
    <3> QED BY <1>2, <1>3, <3>1 DEF PendingIn
  <2>0. SameScans(w, v) /\ SamePending(w, q, <<>>, v, Tail(q), <<>>)
    BY <1>2, <1>3, <2>2 DEF SameScans, SamePending
  <2>3. \A t, A : /\ SentIn(v, t, A) = SentIn(w, t, A)
                  /\ StartedIn(v, t, A) = StartedIn(w, t, A)
    BY <1>2, <1>3 DEF SentIn, StartedIn, HeldIn
  <2>4. ASSUME NEW t \in Stack
        PROVE  /\ Using(v, Tail(q), t) \in Nat
               /\ Using(w, q, t) = Using(v, Tail(q), t) + One(m.from = t)
    <3>1. /\ CountIn(Tail(q), CleaningOf(t)) \in Nat
          /\ CountIn(q, CleaningOf(t)) = CountIn(Tail(q), CleaningOf(t)) + One(m.from = t)
      <4>1. Tail(q) \in Seq(ArbMsg)
        BY <1>0, ArbCounts
      <4>2. Head(q) \in Cleaning /\ Head(q).from = m.from
        OBVIOUS
      <4>3. CountIn(Tail(q), CleaningOf(t)) \in Nat
        BY <1>0, <4>1, ArbCounts
      <4>4. CountIn(q, CleaningOf(t)) = CountIn(Tail(q), CleaningOf(t)) + One(Head(q).from = t)
        <5>1. CountIn(q, CleaningOf(t)) =
                CountIn(Tail(q), CleaningOf(t)) + One(Head(q) \in CleaningOf(t))
          BY CountTail
        <5>2. Head(q) \in CleaningOf(t) <=> Head(q).from = t
          BY <4>2 DEF Cleaning, CleaningOf
        <5>3. One(Head(q) \in CleaningOf(t)) = One(Head(q).from = t)
          BY <5>2 DEF One
        <5> QED BY <5>1, <5>3
      <4> QED BY <4>2, <4>3, <4>4
    <3>2. StartedIn(w, t, Op) \in Nat
      <4>1. CountIn(w.ctrl, Sent(t, Op)) \in Nat /\ CountIn(w.dmq, Told(t, Op)) \in Nat
        BY <1>0, CtrlCounts, EventCounts DEF WorkSet, Who
      <4> QED BY <4>1 DEF StartedIn, SentIn, HeldIn, One
    <3> QED BY <2>3, <3>1, <3>2 DEF Using, One
  <2>5. CASE m.from = "micro"
    <3>1. /\ Using(w, q, "micro") = Using(v, Tail(q), "micro") + 1
          /\ Using(w, q, "primary") = Using(v, Tail(q), "primary")
          /\ Using(v, Tail(q), "micro") \in Nat /\ Using(v, Tail(q), "primary") \in Nat
      BY <1>0, <2>4, <2>5 DEF One
    <3>2. w.arb.micro # "unlock" /\ Using(v, Tail(q), "micro") = 0
      BY <2>1, <3>1 DEF Locks, One
    <3>3. v.arb.micro = "unlock"
      BY <1>2, <1>3, <2>5
    <3>4. Locks(v, Tail(q))
      BY <1>2, <1>3, <2>1, <2>3, <2>5, <3>1, <3>2, <3>3 DEF Locks, One
    <3> QED BY <1>5, <2>0, <3>3, <3>4, GoodFrom
  <2>6. CASE m.from = "primary"
    <3>1. /\ Using(w, q, "micro") = Using(v, Tail(q), "micro")
          /\ Using(w, q, "primary") = Using(v, Tail(q), "primary") + 1
          /\ Using(v, Tail(q), "primary") \in Nat
      BY <1>0, <2>4, <2>6 DEF One
    <3>2. n # 0 /\ w.arb.primary # "unlock" /\ w.arb.micro = "unlock" /\ c = n - 1
      <4>1. n # 0
        BY <1>0, <2>1, <3>1 DEF Locks
      <4> QED BY <1>1, <2>1, <4>1 DEF Locks
    <3>3. v.arb.micro = "unlock" /\ v.arb.count = n - 1
          /\ v.arb.primary = IF n = 1 THEN "unlock" ELSE w.arb.primary
      BY <1>2, <1>3, <2>6, <3>2
    <3>4. /\ v.arb.primary = "unlock" <=> v.arb.count = 0
          /\ Using(v, Tail(q), "primary") <= v.arb.count
          /\ "peri" \notin v.seen =>
               v.arb.count = Using(v, Tail(q), "primary") /\ v.arb.primary # "peri"
      <4>1. /\ Using(w, q, "primary") <= n
            /\ "peri" \notin w.seen => n = Using(w, q, "primary") /\ w.arb.primary # "peri"
        BY <2>1 DEF Locks
      <4> DEFINE u == Using(v, Tail(q), "primary")
                 g == Using(w, q, "primary")
                 b == v.arb.count
      <4>2. u \in Nat /\ g = u + 1 /\ n \in 0 .. 255 /\ n # 0 /\ b = n - 1 /\ g <= n
        BY <1>0, <3>1, <3>2, <3>3, <4>1
      <4> HIDE DEF n, u, b, g
      <4>3. u <= b /\ (b = 0 <=> n = 1)
        BY <4>2
      <4>4. "peri" \notin v.seen => b = u /\ w.arb.primary # "peri"
        <5>1. "peri" \notin v.seen => n = g /\ w.arb.primary # "peri"
          BY <1>3, <4>1 DEF g
        <5> QED BY <4>2, <5>1
      <4> QED BY <3>2, <3>3, <4>3, <4>4 DEF u, b
    <3>5. Locks(v, Tail(q))
      BY <1>2, <1>3, <2>1, <2>3, <3>1, <3>2, <3>3, <3>4 DEF Locks
    <3> QED BY <1>5, <2>0, <3>3, <3>5, GoodFrom
  <2> QED BY <1>0, <2>5, <2>6
<1> QED BY <1>2, <1>3, <1>4, <1>5

\* A command leaves the arbiter in a state that it may be in.
LEMMA CommandWorks ==
  ASSUME NEW w \in Works, NEW m \in AnyRequest
  PROVE  handleCmdReqCommon(w, m) \in Works
<1>1. w \in WorkSet /\ \A s \in Stack : w.arb.saved[s] \in Seq(Request(s))
  BY DEF Works
<1>2. ASSUME NEW v, v = handleCmdReqCommon(w, m)
      PROVE  v \in Works
  BY <1>1, <1>2, CommandEffect DEF Works
<1> QED BY <1>2

\* The rounds of the loop over the saved commands, from what is left without them.
IsRestore(f, w) ==
  LET saved == w.arb.saved["primary"]
  IN  /\ f \in [0 .. Len(saved) -> Works]
      /\ f[0] = WithSaved(w, "primary", <<>>)
      /\ \A k \in 1 .. Len(saved) : f[k] = handleCmdReqCommon(f[k - 1], saved[k])

\* What the loop leaves, spinning if a command was saved again.
Restored(v) == IF v.arb.saved["primary"] = <<>> THEN v ELSE [v EXCEPT !.seen = @ \cup {"hung"}]

\* Restoring the primary stack's commands is such a loop.
LEMMA RestoreIsLoop ==
  ASSUME NEW w \in Works
  PROVE  \E f : IsRestore(f, w) /\ RestorePrimary(w) = Restored(f[Len(w.arb.saved["primary"])])
<1> DEFINE saved == w.arb.saved["primary"]
           N == Len(saved)
           start == WithSaved(w, "primary", <<>>)
           Round == [k \in 1 .. N |-> [u \in Works |-> handleCmdReqCommon(u, saved[k])]]
           F(g) == [k \in 0 .. N |->
                      IF k = 0 THEN start ELSE handleCmdReqCommon(g[k - 1], saved[k])]
           f == CHOOSE g : g = F(g)
<1>0. /\ saved \in Seq(Request("primary")) /\ "primary" \in Stack
      /\ Request("primary") \subseteq AnyRequest
  BY DEF Works, Stack, AnyRequest
<1>1. N \in Nat /\ \A k \in 1 .. N : saved[k] \in AnyRequest
  BY <1>0
<1>2. start \in Works
  <2>1. /\ w \in WorkSet /\ w.arb \in ArbState /\ w.arb.saved \in [Stack -> Seq(AnyRequest)]
        /\ \A t \in Stack : w.arb.saved[t] \in Seq(Request(t))
    BY DEF Works, WorkSet, ArbState, AnyRequest
  <2> DEFINE z == [w.arb.saved EXCEPT !["primary"] = <<>>]
             a == [w.arb EXCEPT !.saved = z]
  <2>2. z \in [Stack -> Seq(AnyRequest)] /\ \A t \in Stack : z[t] \in Seq(Request(t))
    BY <1>0, <2>1
  <2>3. start = [w EXCEPT !.arb = a]
    BY <2>1 DEF WorkSet, ArbState, WithSaved
  <2> HIDE DEF z
  <2>4. a \in ArbState /\ a.saved = z
    BY <2>1, <2>2 DEF ArbState, AnyRequest
  <2> HIDE DEF a
  <2>5. start \in WorkSet /\ start.arb = a
    BY <2>1, <2>3, <2>4 DEF WorkSet
  <2> QED BY <2>2, <2>4, <2>5 DEF Works
<1>3. RestorePrimary(w) = Restored(f[N])
  BY Zenon DEF RestorePrimary, Restored, WithSaved
<1> HIDE DEF N, start, saved
<1>4. Round \in [1 .. N -> [Works -> Works]]
  <2> SUFFICES ASSUME NEW k \in 1 .. N, NEW u \in Works
               PROVE  handleCmdReqCommon(u, saved[k]) \in Works
    OBVIOUS
  <2> QED BY <1>1, CommandWorks
<1> HIDE DEF Round
<1>5. PICK g : IsLoop(g, N, Works, start, Round)
  BY <1>1, <1>2, <1>4, LoopExists, SMT
<1>6. g = F(g)
  <2>1. ASSUME NEW k \in 0 .. N
        PROVE  g[k] = IF k = 0 THEN start ELSE handleCmdReqCommon(g[k - 1], saved[k])
    <3>1. CASE k = 0
      BY <1>5, <3>1 DEF IsLoop
    <3>2. CASE k # 0
      <4>1. k \in 1 .. N /\ k - 1 \in 0 .. N
        BY <1>1, <3>2
      <4>2. g[k] = Round[k][g[k - 1]] /\ g[k - 1] \in Works
        BY <1>5, <4>1 DEF IsLoop
      <4>3. Round[k][g[k - 1]] = handleCmdReqCommon(g[k - 1], saved[k])
        BY <4>1, <4>2 DEF Round
      <4> QED BY <3>2, <4>2, <4>3
    <3> QED BY <3>1, <3>2
  <2>2. g \in [0 .. N -> Works]
    BY <1>5 DEF IsLoop
  <2> QED BY <2>1, <2>2
<1> HIDE DEF F
<1>7. f = F(f)
  BY <1>6, Zenon
<1>8. f[0] = start /\ \A k \in 1 .. N : f[k] = handleCmdReqCommon(f[k - 1], saved[k])
  <2> HIDE DEF f
  <2> QED BY <1>1, <1>7 DEF F
<1> HIDE DEF f
<1>9. \A k \in 0 .. N : f[k] \in Works
  <2> DEFINE T == {k \in 0 .. N : f[k] \in Works}
  <2>1. 0 \in T
    BY <1>1, <1>2, <1>8
  <2>2. ASSUME NEW k \in 0 .. N - 1, k \in T PROVE k + 1 \in T
    <3>1. k + 1 \in 1 .. N /\ k + 1 \in 0 .. N /\ k + 1 - 1 = k
      BY <1>1
    <3>2. f[k + 1] = handleCmdReqCommon(f[k], saved[k + 1]) /\ f[k] \in Works
      BY <1>8, <2>2, <3>1
    <3> QED BY <1>1, <3>1, <3>2, CommandWorks
  <2> HIDE DEF T
  <2>3. \A k \in 0 .. N : k \in T
    BY <1>1, <2>1, <2>2, InductionUpTo
  <2> QED BY <2>3 DEF T
<1>10. f \in [0 .. N -> Works]
  <2>1. f = [k \in 0 .. N |-> f[k]]
    BY <1>7 DEF F
  <2> QED BY <1>9, <2>1
<1> QED BY <1>3, <1>8, <1>10 DEF IsRestore, N, saved, start

\* What the loop keeps: the primary stack's commands wait for the scan state
\* machine only, and the microstack's for nothing that the loop does.
Serving(w, u) ==
  /\ u.arb.micro = "unlock"
  /\ u.arb.saved["primary"] # <<>> => u.arb.spl
  /\ u.arb.saved["micro"] = w.arb.saved["micro"]

\* A command of the primary stack while the microstack has no lock.
LEMMA CommandServing ==
  ASSUME NEW w \in Works, NEW m \in Request("primary"), NEW v, v = handleCmdReqCommon(w, m)
  PROVE  /\ "hung" \in v.seen <=> "hung" \in w.seen
         /\ \A u : Serving(u, w) => Serving(u, v)
<1>0. /\ w \in WorkSet /\ m \in AnyRequest /\ m.from = "primary" /\ "micro" \in Stack
      /\ \A s \in Stack : w.arb.saved[s] \in Seq(Request(s))
      /\ w.arb.saved \in [Stack -> Seq(AnyRequest)] /\ "primary" \in Stack
  BY DEF Works, AnyRequest, Request, Stack, WorkSet, ArbState
<1>1. Stalled(w, m, v) \/ Forwarded(w, m, v) \/ Simulated(w, m, v) \/ Arbitrated(w, m, v)
  BY <1>0, CommandEffect
<1>2. "hung" \in v.seen <=> "hung" \in w.seen
  BY <1>1 DEF Stalled, Forwarded, Simulated, Arbitrated, Wraps
<1>3. ASSUME NEW u, Serving(u, w)
      PROVE  Serving(u, v)
  <2>1. CASE Stalled(w, m, v)
    <3>1. w.arb.spl /\ v.arb.spl
      BY <1>0, <1>3, <2>1 DEF Stalled, Serving, IsHciCmdArbQueueLocked
    <3>2. v.arb.saved["micro"] = w.arb.saved["micro"]
      BY <1>0, <2>1 DEF Stalled
    <3> QED BY <1>3, <2>1, <3>1, <3>2 DEF Stalled, Serving
  <2>2. CASE ~ Stalled(w, m, v)
    <3>1. Locked(w, m, v)
      BY <1>1, <2>2 DEF Forwarded, Simulated, Arbitrated
    <3>2. ~ w.arb.spl /\ v.arb.saved = w.arb.saved /\ v.arb.micro = w.arb.micro
      BY <1>0, <3>1 DEF Locked, IsHciCmdArbQueueLocked
    <3> QED BY <1>3, <3>2 DEF Serving
  <2> QED BY <2>1, <2>2
<1> QED BY <1>2, <1>3

\* The queue of the commands still to restore, from the k'th on.
LEMMA Shift ==
  ASSUME NEW S, NEW s \in Seq(S), NEW k \in 0 .. Len(s) - 1
  PROVE  LET x == SubSeq(s, k + 1, Len(s))
         IN  /\ x \in Seq(S) /\ x # <<>> /\ Head(x) = s[k + 1]
             /\ Tail(x) = SubSeq(s, k + 2, Len(s))
<1> DEFINE x == SubSeq(s, k + 1, Len(s))
           y == SubSeq(s, k + 2, Len(s))
<1>1. /\ x \in Seq(S) /\ Len(x) = Len(s) - k
      /\ \A i \in 1 .. Len(s) - k : x[i] = s[k + i]
  BY SubSeqProperties
<1>2. /\ y \in Seq(S) /\ Len(y) = Len(s) - k - 1
      /\ \A i \in 1 .. Len(s) - k - 1 : y[i] = s[k + 1 + i]
  BY SubSeqProperties
<1> HIDE DEF x, y
<1>3. Len(x) \in Nat /\ Len(x) > 0 /\ x # <<>> /\ Head(x) = x[1] /\ 1 \in 1 .. Len(s) - k
  BY <1>1
<1>4. /\ Tail(x) \in Seq(S) /\ Len(Tail(x)) = Len(x) - 1
      /\ \A i \in 1 .. Len(x) - 1 : Tail(x)[i] = x[i + 1]
  BY <1>1, <1>3, HeadTailProperties
<1>5. \A i \in 1 .. Len(x) - 1 : Tail(x)[i] = y[i]
  BY <1>1, <1>2, <1>4
<1>6. Len(Tail(x)) = Len(y)
  BY <1>1, <1>2, <1>4
<1>7. Tail(x) = y
  BY <1>1, <1>2, <1>4, <1>5, <1>6, SeqEqual
<1> QED BY <1>1, <1>3, <1>7 DEF x, y

\* The loop over the saved commands of the primary stack keeps the invariant,
\* and spins only if the scan state machine was started.
LEMMA RestoreGood ==
  ASSUME NEW w \in Works, NEW q \in Seq(ArbMsg), NEW W, NEW h, NEW sc,
         NEW v, v = RestorePrimary(w),
         CalmIn(w) => Good(w, q, <<>>, W, h, sc) /\ w.arb.micro = "unlock"
  PROVE  /\ v \in Works /\ w.seen \subseteq v.seen
         /\ CalmIn(v) => CalmIn(w) /\ Good(v, q, <<>>, W, h, sc) /\ Serving(w, v)
         /\ "hung" \notin w.seen => ("hung" \in v.seen <=> v.arb.saved["primary"] # <<>>)
<1> DEFINE saved == w.arb.saved["primary"]
           N == Len(saved)
<1>1. PICK f : IsRestore(f, w) /\ v = Restored(f[N])
  BY RestoreIsLoop
<1>0. saved \in Seq(Request("primary")) /\ N \in Nat /\ "primary" \in Stack
  BY DEF Works, Stack
<1>2. /\ f \in [0 .. N -> Works] /\ f[0] = WithSaved(w, "primary", <<>>)
      /\ \A k \in 1 .. N : f[k] = handleCmdReqCommon(f[k - 1], saved[k])
  BY <1>1 DEF IsRestore
<1> DEFINE Left(k) == SubSeq(saved, k + 1, N)
           Kept(k) == /\ w.seen \subseteq f[k].seen
                      /\ "hung" \in f[k].seen <=> "hung" \in w.seen
                      /\ CalmIn(f[k]) =>
                           CalmIn(w) /\ Good(f[k], q, Left(k), W, h, sc) /\ Serving(w, f[k])
           T == {k \in 0 .. N : Kept(k)}
<1>3. 0 \in T
  <2>1. Left(0) = saved
    <3>1. /\ Left(0) \in Seq(Request("primary")) /\ Len(Left(0)) = N
          /\ \A i \in 1 .. N : Left(0)[i] = saved[i]
      BY <1>0, SubSeqProperties
    <3> QED BY <1>0, <3>1, SeqEqual
  <2>2. Divided(saved, "primary", <<>>, saved)
    <3> SUFFICES ASSUME NEW A \in SUBSET Op
                 PROVE  CountIn(saved, Asked("primary", A)) =
                          CountIn(<<>>, Asked("primary", A)) + CountIn(saved, Asked("primary", A))
      BY DEF Divided
    <3>1. CountIn(<<>>, Asked("primary", A)) = 0 /\ CountIn(saved, Asked("primary", A)) \in Nat
      BY <1>0, EmptyCount, PlacesFinite
    <3> QED BY <3>1
  <2>3. <<>> \in Seq(Request("primary"))
    OBVIOUS
  <2>4. /\ f[0].seen = w.seen /\ SameLocks(w.arb, f[0].arb)
        /\ f[0].arb.saved = [w.arb.saved EXCEPT !["primary"] = <<>>]
        /\ Good(w, q, <<>>, W, h, sc) => Good(f[0], q, saved, W, h, sc)
    <3>1. ASSUME NEW u, u = f[0], NEW x, x = saved, NEW r, r = <<>>, NEW s, s = "primary"
          PROVE  /\ u.seen = w.seen /\ SameLocks(w.arb, u.arb)
                 /\ u.arb.saved = [w.arb.saved EXCEPT ![s] = r]
                 /\ Good(w, q, <<>>, W, h, sc) => Good(u, q, x, W, h, sc)
      <4>1. /\ u = WithSaved(w, s, r) /\ x \in Seq(Request(s)) /\ r \in Seq(Request(s))
            /\ Divided(w.arb.saved[s], s, r, x) /\ s \in Stack
        BY <1>0, <1>2, <2>2, <2>3, <3>1
      <4> QED BY <4>1, TakenOut
    <3> QED BY <3>1
  <2>5. f[0].arb.saved["primary"] = <<>> /\ f[0].arb.saved["micro"] = w.arb.saved["micro"]
    BY <2>4 DEF Works, WorkSet, ArbState, Stack
  <2>6. CalmIn(f[0]) => CalmIn(w)
    BY <2>4 DEF CalmIn
  <2>7. w.arb.micro = "unlock" => Serving(w, f[0])
    BY <2>4, <2>5 DEF Serving, SameLocks
  <2>8. Kept(0)
    <3> HIDE DEF Left
    <3> QED BY <2>1, <2>4, <2>6, <2>7
  <2> QED BY <1>0, <2>8
<1>4. ASSUME NEW k \in 0 .. N - 1, k \in T
      PROVE  k + 1 \in T
  <2>0. k + 1 \in 1 .. N /\ k + 1 \in 0 .. N /\ k \in 0 .. N /\ k + 1 - 1 = k /\ k + 1 + 1 = k + 2
    BY <1>0
  <2>1. Kept(k)
    BY <1>4
  <2>2. /\ Left(k) \in Seq(Request("primary")) /\ Left(k) # <<>>
        /\ Head(Left(k)) = saved[k + 1] /\ Tail(Left(k)) = Left(k + 1)
    <3> HIDE DEF saved
    <3> QED BY <1>0, <2>0, Shift
  <2>3. /\ f[k] \in Works /\ f[k + 1] = handleCmdReqCommon(f[k], saved[k + 1])
        /\ saved[k + 1] \in Request("primary")
    <3>1. f[k] \in Works
      BY <1>2, <2>0
    <3>2. f[k + 1] = handleCmdReqCommon(f[k + 1 - 1], saved[k + 1])
      BY <1>2, <2>0
    <3>3. saved[k + 1] \in Request("primary")
      BY <1>0, <2>0
    <3> QED BY <2>0, <3>1, <3>2, <3>3
  <2>4. Left(k) \in Seq(AnyRequest)
    BY <2>2 DEF AnyRequest
  <2> HIDE DEF Left, saved, T
  <2>5. /\ f[k].seen \subseteq f[k + 1].seen
        /\ CalmIn(f[k + 1]) => CalmIn(f[k]) /\ Good(f[k + 1], q, Left(k + 1), W, h, sc)
    <3>1. CalmIn(f[k]) => Good(f[k], q, Left(k), W, h, sc)
      BY <2>1
    <3>2. ASSUME NEW a, a = f[k], NEW b, b = f[k + 1], NEW x, x = Left(k)
          PROVE  /\ a.seen \subseteq b.seen
                 /\ CalmIn(b) => CalmIn(a) /\ Good(b, q, Tail(x), W, h, sc)
      <4>1. /\ a \in Works /\ x \in Seq(AnyRequest) /\ x # <<>>
            /\ b = handleCmdReqCommon(a, Head(x))
            /\ CalmIn(a) => Good(a, q, x, W, h, sc)
        BY <2>2, <2>3, <2>4, <3>1, <3>2
      <4> QED BY <4>1, CommandGood
    <3> QED BY <2>2, <3>2
  <2>6. /\ "hung" \in f[k + 1].seen <=> "hung" \in f[k].seen
        /\ Serving(w, f[k]) => Serving(w, f[k + 1])
    BY <2>3, CommandServing
  <2>7. Kept(k + 1)
    BY <2>1, <2>5, <2>6
  <2> QED BY <2>0, <2>7 DEF T
<1> HIDE DEF T
<1>5. \A k \in 0 .. N : k \in T
  <2> HIDE DEF N
  <2> QED BY <1>0, <1>3, <1>4, InductionUpTo
<1>6. Kept(N) /\ f[N] \in Works
  <2>1. N \in 0 .. N
    BY <1>0
  <2> QED BY <1>2, <1>5, <2>1 DEF T
<1>7. Left(N) = <<>>
  BY <1>0
<1> HIDE DEF Left, N
<1> DEFINE u == f[N]
<1>8. /\ w.seen \subseteq u.seen /\ ("hung" \in u.seen <=> "hung" \in w.seen) /\ u \in Works
      /\ CalmIn(u) => CalmIn(w) /\ Good(u, q, <<>>, W, h, sc) /\ Serving(w, u)
  BY <1>6, <1>7
<1>9. v = Restored(u)
  BY <1>1
<1> HIDE DEF u
<1>10. CASE u.arb.saved["primary"] = <<>>
  BY <1>8, <1>9, <1>10 DEF Restored
<1>11. CASE u.arb.saved["primary"] # <<>>
  <2>1. v = [u EXCEPT !.seen = @ \cup {"hung"}]
    BY <1>9, <1>11 DEF Restored
  <2>2. /\ v \in WorkSet /\ v.arb = u.arb /\ v.ctrl = u.ctrl /\ v.dmq = u.dmq
        /\ v.seen = u.seen \cup {"hung"} /\ u \in WorkSet
    BY ZenonT(60), <1>8, <2>1 DEF Works, WorkSet, Unusual
  <2>3. v \in Works
    BY <1>8, <2>2 DEF Works
  <2>4. CalmIn(v) => CalmIn(u)
    BY <2>2 DEF CalmIn
  <2>5. ASSUME Good(u, q, <<>>, W, h, sc)
        PROVE  Good(v, q, <<>>, W, h, sc)
    <3>1. SameScans(u, v) /\ SamePending(u, q, <<>>, v, q, <<>>) /\ SameLocks(u.arb, v.arb)
      BY <2>2 DEF SameScans, SamePending, PendingIn, SameLocks
    <3>2. Locks(v, q)
      BY <2>2, <2>5, <3>1, LocksFrom DEF Good
    <3> QED BY <2>5, <3>1, <3>2, GoodFrom
  <2>6. Serving(w, u) => Serving(w, v)
    BY <2>2 DEF Serving
  <2> QED BY <1>8, <1>11, <2>2, <2>3, <2>4, <2>5, <2>6
<1> QED BY <1>10, <1>11

-----------------------------------------------------------------------------
(* The arbiter handles a message.                                          *)

\* Saved commands wait behind a lock, those of the primary stack behind the
\* microstack's unless an arbitration has ended.
Behind(w) ==
  /\ \A s \in Stack : BehindLock(w, s)
  /\ "arbitrated" \notin w.seen /\ w.arb.saved["primary"] # <<>> => w.arb.micro # "unlock"

\* A command handled leaves every saved one where it was told to wait.
LEMMA CommandAllBehind ==
  ASSUME NEW w \in Works, NEW q \in Seq(ArbMsg), NEW m \in AnyRequest,
         NEW v, v = handleCmdReqCommon(w, m), Locks(w, q), Behind(w)
  PROVE  Behind(v) /\ ("hung" \in v.seen <=> "hung" \in w.seen)
<1>0. /\ m.from \in Stack /\ m.from # "spl" /\ w \in WorkSet /\ "primary" \in Stack
      /\ w.arb.saved \in [Stack -> Seq(AnyRequest)]
      /\ \A t \in Stack : w.arb.saved[t] \in Seq(Request(t))
  BY DEF AnyRequest, Request, Stack, Works, WorkSet, ArbState
<1>1. Stalled(w, m, v) \/ Forwarded(w, m, v) \/ Simulated(w, m, v) \/ Arbitrated(w, m, v)
  BY <1>0, CommandEffect
<1>2. \A s \in Stack : BehindLock(v, s)
  <2> SUFFICES ASSUME NEW s \in Stack PROVE BehindLock(v, s)
    OBVIOUS
  <2>1. BehindLock(w, s)
    BY DEF Behind
  <2> QED BY <2>1, CommandBehind
<1>3. "hung" \in v.seen <=> "hung" \in w.seen
  BY <1>1 DEF Stalled, Forwarded, Simulated, Arbitrated, Wraps
<1>4. ASSUME "arbitrated" \notin v.seen, v.arb.saved["primary"] # <<>>
      PROVE  v.arb.micro # "unlock"
  <2>1. "arbitrated" \notin w.seen /\ ~ w.arb.spl
    BY <1>1, <1>4 DEF Stalled, Forwarded, Simulated, Arbitrated, Locks
  <2>2. CASE Stalled(w, m, v)
    <3>1. CASE m.from = "primary"
      BY <2>1, <2>2, <3>1 DEF Stalled, IsHciCmdArbQueueLocked
    <3>2. CASE m.from # "primary"
      BY <1>0, <1>4, <2>1, <2>2, <3>2 DEF Stalled, Behind
    <3> QED BY <3>1, <3>2
  <2>3. CASE ~ Stalled(w, m, v)
    <3>1. Locked(w, m, v)
      BY <1>1, <2>3 DEF Forwarded, Simulated, Arbitrated
    <3>2. w.arb.micro = "unlock" /\ v.arb.saved = w.arb.saved
      BY <1>0, <3>1 DEF Locked, IsHciCmdArbQueueLocked
    <3> QED BY <1>4, <2>1, <3>2 DEF Behind
  <2> QED BY <2>2, <2>3
<1> QED BY <1>2, <1>3, <1>4 DEF Behind

\* A request at the head of the queue is pending once it is taken out.
LEMMA HeadTaken ==
  ASSUME NEW w \in Works, NEW q \in Seq(ArbMsg), q # <<>>, NEW m \in AnyRequest, m = Head(q),
         NEW W, NEW h, NEW sc, Good(w, q, <<>>, W, h, sc)
  PROVE  Good(w, Tail(q), <<m>>, W, h, sc)
<1>0. Tail(q) \in Seq(ArbMsg) /\ w \in WorkSet /\ <<m>> = Append(<<>>, m) /\ m \in ArbMsg
      /\ Head(q) \in AnyRequest /\ Head(q).from = m.from /\ Head(q).op = m.op
  BY HeadTailProperties DEF Works, ArbMsg
<1>1. SamePending(w, q, <<>>, w, Tail(q), <<m>>)
  <2> SUFFICES ASSUME NEW s \in Stack, NEW A \in SUBSET Op
               PROVE  PendingIn(w, Tail(q), <<m>>, s, A) = PendingIn(w, q, <<>>, s, A)
    BY DEF SamePending
  <2> DEFINE one == One(m \in Asked(s, A))
  <2>1. CountIn(q, Asked(s, A)) = CountIn(Tail(q), Asked(s, A)) + one
    BY CountTail
  <2>2. CountIn(<<>>, Asked(s, A)) = 0
    BY EmptyCount
  <2>3. CountIn(<<m>>, Asked(s, A)) = CountIn(<<>>, Asked(s, A)) + one
    BY <2>2, SingleCount DEF One
  <2>4. /\ CountIn(Tail(q), Asked(s, A)) \in Nat /\ one \in Nat
        /\ CountIn(w.arb.saved[s], Asked(s, A)) \in Nat
    <3>1. w.arb.saved[s] \in Seq(ArbMsg)
      BY <1>0 DEF WorkSet, ArbState, ArbMsg, AnyRequest
    <3> QED BY <1>0, <3>1, PlacesFinite DEF One
  <2> HIDE DEF one
  <2> QED BY <2>1, <2>2, <2>3, <2>4 DEF PendingIn
<1>2. Locks(w, Tail(q))
  <2>1. \A s \in Stack : Using(w, Tail(q), s) = Using(w, q, s)
    <3> SUFFICES ASSUME NEW s \in Stack
                 PROVE  CountIn(Tail(q), CleaningOf(s)) = CountIn(q, CleaningOf(s))
      BY DEF Using
    <3>1. CountIn(q, CleaningOf(s)) =
            CountIn(Tail(q), CleaningOf(s)) + One(m \in CleaningOf(s))
      BY CountTail
    <3>2. One(m \in CleaningOf(s)) = 0
      BY DEF One, CleaningOf, AnyRequest, Request
    <3>3. CountIn(Tail(q), CleaningOf(s)) \in Nat
      BY <1>0, PlacesFinite
    <3> QED BY <3>1, <3>2, <3>3
  <2> QED BY <2>1 DEF Good, Locks, Stack
<1>3. SameScans(w, w)
  BY DEF SameScans
<1> QED BY <1>1, <1>2, <1>3, GoodFrom

\* The arbiter's handler keeps the invariant, and spins only on commands of the
\* primary stack that wait for the scan state machine.
LEMMA HandlerGood ==
  ASSUME NEW w \in Works, NEW q \in Seq(ArbMsg), q # <<>>, NEW m, m = Head(q),
         NEW v, v = hci_cmd_arb_iface_msg_handler(m, w), "hung" \notin w.seen,
         NEW W, NEW h, NEW sc, CalmIn(w) => Good(w, q, <<>>, W, h, sc) /\ Behind(w)
  PROVE  /\ v \in Works /\ w.seen \subseteq v.seen
         /\ CalmIn(v) => /\ CalmIn(w) /\ Good(v, Tail(q), <<>>, W, h, sc) /\ Behind(v)
                         /\ "hung" \in v.seen =>
                              v.arb.spl /\ v.arb.saved["primary"] # <<>>
<1>0. Tail(q) \in Seq(ArbMsg) /\ m \in ArbMsg
  BY HeadTailProperties
<1>1. CASE m \in AnyRequest
  <2>1. v = handleCmdReqCommon(w, m)
    BY <1>1 DEF hci_cmd_arb_iface_msg_handler, AnyRequest, Request
  <2>2. CalmIn(w) => Good(w, Tail(q), <<m>>, W, h, sc)
    BY <1>1, HeadTaken
  <2>3. ASSUME NEW x, x = <<m>>
        PROVE  /\ v \in Works /\ w.seen \subseteq v.seen
               /\ CalmIn(v) => CalmIn(w) /\ Good(v, Tail(q), <<>>, W, h, sc)
    <3>1. x \in Seq(AnyRequest) /\ x # <<>> /\ m = Head(x) /\ Tail(x) = <<>>
      BY <1>1, <2>3
    <3>2. /\ v \in Works /\ w.seen \subseteq v.seen
          /\ CalmIn(v) => CalmIn(w) /\ Good(v, Tail(q), Tail(x), W, h, sc)
      BY <1>0, <2>1, <2>2, <2>3, <3>1, CommandGood
    <3> QED BY <3>1, <3>2
  <2>4. CalmIn(w) => Behind(v) /\ "hung" \notin v.seen
    <3> SUFFICES ASSUME CalmIn(w) PROVE Behind(v) /\ "hung" \notin v.seen
      OBVIOUS
    <3>1. Locks(w, q)
      BY DEF Good
    <3> QED BY <1>1, <2>1, <3>1, CommandAllBehind
  <2> QED BY <2>3, <2>4
<1>2. CASE m \in Cleaning
  <2> DEFINE r == Released(m.from, w)
             u == RestorePrimary(r)
             p == Tail(q)
  <2>1. v = RestoreMicro(u)
    BY <1>2 DEF hci_cmd_arb_iface_msg_handler, hciCmdArbRestoreQueueHandler, Cleaning, Released
  <2>2. /\ r \in Works /\ r.seen = w.seen /\ r.arb.saved = w.arb.saved
        /\ Good(w, q, <<>>, W, h, sc) =>
             Good(r, p, <<>>, W, h, sc) /\ r.arb.micro = "unlock"
    BY <1>2, CleaningGood
  <2>0. u = RestorePrimary(r) /\ p \in Seq(ArbMsg)
    BY <1>0
  <2> HIDE DEF r, u, p
  <2>3. CalmIn(r) <=> CalmIn(w)
    BY <2>2 DEF CalmIn
  <2>11. CalmIn(r) => Good(r, p, <<>>, W, h, sc) /\ r.arb.micro = "unlock"
    BY <2>2, <2>3
  <2>4. /\ u \in Works /\ r.seen \subseteq u.seen
        /\ CalmIn(u) => CalmIn(r) /\ Good(u, p, <<>>, W, h, sc) /\ Serving(r, u)
        /\ "hung" \in u.seen <=> u.arb.saved["primary"] # <<>>
    BY <2>0, <2>2, <2>11, RestoreGood
  <2>5. CalmIn(u) => Good(u, p, <<>>, W, h, sc) /\ Locks(u, p)
    BY <2>4 DEF Good
  <2>6. CalmIn(u) /\ u.arb.spl => u.arb.primary # "unlock" /\ "arbitrated" \in u.seen
    BY <2>0, <2>4, <2>5, SplLocksPrimary DEF Works, Locks
  <2>7. CASE "hung" \in u.seen
    <3>1. v = u
      BY <2>1, <2>7 DEF RestoreMicro
    <3>2. CalmIn(u) => Behind(u) /\ u.arb.spl
      BY <2>4, <2>6, <2>7 DEF Behind, BehindLock, Serving
    <3> QED BY <2>2, <2>3, <2>4, <3>1, <3>2 DEF p, Serving
  <2>8. CASE "hung" \notin u.seen /\ u.arb.saved["micro"] = <<>>
    <3>1. v = u
      BY <2>1, <2>8 DEF RestoreMicro
    <3>2. Behind(u)
      BY <2>4, <2>8 DEF Behind, BehindLock, Stack
    <3> QED BY <2>2, <2>3, <2>4, <2>8, <3>1, <3>2 DEF p
  <2>9. CASE "hung" \notin u.seen /\ IsHciCmdArbQueueLocked("micro", u.arb)
    <3>1. v = u
      BY <2>1, <2>9 DEF RestoreMicro
    <3>2. CalmIn(u) => Behind(u)
      BY <2>4, <2>6, <2>9 DEF Behind, BehindLock, IsHciCmdArbQueueLocked
    <3> QED BY <2>2, <2>3, <2>4, <2>9, <3>1, <3>2 DEF p
  <2>10. CASE /\ "hung" \notin u.seen /\ u.arb.saved["micro"] # <<>>
              /\ ~ IsHciCmdArbQueueLocked("micro", u.arb)
    <3> DEFINE all == u.arb.saved["micro"]
               n == Head(all)
               t == WithSaved(u, "micro", Tail(all))
    <3>1. v = handleCmdReqCommon(t, n)
      BY <2>1, <2>10 DEF RestoreMicro, WithSaved
    <3>2. all \in Seq(Request("micro")) /\ all # <<>> /\ "micro" \in Stack
      BY <2>4, <2>10 DEF Works, Stack
    <3>3. n \in Request("micro") /\ Tail(all) \in Seq(Request("micro")) /\ n \in AnyRequest
      BY <3>2, HeadTailProperties DEF AnyRequest
    <3>4. Divided(all, "micro", Tail(all), <<n>>)
      <4> SUFFICES ASSUME NEW A \in SUBSET Op
                   PROVE  CountIn(all, Asked("micro", A)) =
                            CountIn(Tail(all), Asked("micro", A)) + CountIn(<<n>>, Asked("micro", A))
        BY DEF Divided
      <4>1. CountIn(all, Asked("micro", A)) =
              CountIn(Tail(all), Asked("micro", A)) + One(n \in Asked("micro", A))
        BY <3>2, CountTail
      <4>2. CountIn(<<n>>, Asked("micro", A)) = One(n \in Asked("micro", A))
        BY <3>3, SingleCount
      <4> QED BY <4>1, <4>2
    <3> HIDE DEF n, all, t
    <3>5. ASSUME NEW x, x = <<n>>, NEW s, s = "micro", NEW rest, rest = Tail(all)
          PROVE  /\ v \in Works /\ t.seen = u.seen /\ u.seen \subseteq v.seen
                 /\ t.arb.saved = [u.arb.saved EXCEPT ![s] = rest]
                 /\ t \in Works /\ SameLocks(u.arb, t.arb) /\ t.ctrl = u.ctrl /\ t.dmq = u.dmq
                 /\ CalmIn(v) => CalmIn(u) /\ Good(v, p, <<>>, W, h, sc)
      <4>1. /\ x \in Seq(Request(s)) /\ rest \in Seq(Request(s)) /\ s \in Stack
            /\ t = WithSaved(u, s, rest) /\ Divided(u.arb.saved[s], s, rest, x)
        BY <3>2, <3>3, <3>4, <3>5 DEF t, all
      <4>2. /\ t \in Works /\ t.seen = u.seen /\ SameLocks(u.arb, t.arb)
            /\ t.arb.saved = [u.arb.saved EXCEPT ![s] = rest] /\ t.ctrl = u.ctrl /\ t.dmq = u.dmq
            /\ Good(u, p, <<>>, W, h, sc) => Good(t, p, x, W, h, sc)
        BY <2>0, <2>4, <4>1, TakenOut
      <4>3. CalmIn(t) <=> CalmIn(u)
        BY <4>2 DEF CalmIn
      <4>4. CalmIn(t) => Good(t, p, x, W, h, sc)
        BY <2>5, <4>2, <4>3
      <4>5. x \in Seq(AnyRequest) /\ x # <<>> /\ n = Head(x) /\ Tail(x) = <<>>
        BY <3>3, <3>5
      <4>6. /\ v \in Works /\ t.seen \subseteq v.seen
            /\ CalmIn(v) => CalmIn(t) /\ Good(v, p, Tail(x), W, h, sc)
        BY <2>0, <3>1, <4>2, <4>4, <4>5, CommandGood
      <4> QED BY <4>2, <4>3, <4>5, <4>6
    <3>6. ASSUME CalmIn(u)
          PROVE  Behind(v) /\ "hung" \notin v.seen
      <4>1. /\ n.from = "micro" /\ t \in WorkSet /\ t.arb.saved["primary"] = <<>>
            /\ ~ IsHciCmdArbQueueLocked("micro", t.arb)
            /\ \A s \in Stack : t.arb.saved[s] \in Seq(Request(s))
        <5>1. t.arb.saved["primary"] = u.arb.saved["primary"]
          <6>1. t.arb.saved = [u.arb.saved EXCEPT !["micro"] = Tail(all)]
            BY ZenonT(60), <3>5
          <6> QED BY <2>4, <6>1 DEF Works, WorkSet, ArbState, Stack
        <5> QED BY <2>4, <2>10, <3>3, <3>5, <5>1
                DEF Works, Request, SameLocks, IsHciCmdArbQueueLocked
      <4>2. Stalled(t, n, v) \/ Forwarded(t, n, v) \/ Simulated(t, n, v) \/ Arbitrated(t, n, v)
        BY <3>1, <3>3, <4>1, CommandEffect
      <4>3. Locked(t, n, v) /\ ("hung" \in v.seen <=> "hung" \in t.seen)
        BY <4>1, <4>2 DEF Stalled, Forwarded, Simulated, Arbitrated, Wraps
      <4>4. v.arb.micro = "cmd" /\ v.arb.saved["primary"] = <<>>
        BY <4>1, <4>3 DEF Locked
      <4> QED BY <2>10, <3>5, <4>3, <4>4 DEF Behind, BehindLock
    <3> QED BY <2>2, <2>3, <2>4, <3>5, <3>6 DEF p
  <2> QED BY <2>7, <2>8, <2>9, <2>10
<1> QED BY <1>0, <1>1, <1>2 DEF ArbMsg

-----------------------------------------------------------------------------
(* The queues between two steps.                                           *)

\* Everything that is counted is a natural number.
LEMMA CountsNatural ==
  ASSUME NEW w \in Works, NEW q \in Seq(ArbMsg), NEW A \in SUBSET Op
  PROVE  /\ \A s \in Stack : /\ PendingIn(w, q, <<>>, s, A) \in Nat
                             /\ PendingIn(w, q, <<>>, s, A) =
                                  CountIn(q, Asked(s, A)) + CountIn(w.arb.saved[s], Asked(s, A))
                             /\ StartedIn(w, s, A) \in Nat /\ Using(w, q, s) \in Nat
                             /\ CountIn(q, Asked(s, A)) \in Nat
                             /\ CountIn(w.arb.saved[s], Asked(s, A)) \in Nat
         /\ \A s \in Who : SentIn(w, s, A) \in Nat
<1>0. /\ w \in WorkSet /\ w.ctrl \in Seq(Command) /\ w.dmq \in Seq(Event) /\ Op \in SUBSET Op
      /\ \A s \in Stack : w.arb.saved[s] \in Seq(ArbMsg) /\ s \in Who
  BY DEF Works, WorkSet, ArbState, ArbMsg, AnyRequest, Who
<1>1. ASSUME NEW s \in Who, NEW B \in SUBSET Op PROVE SentIn(w, s, B) \in Nat
  BY <1>0, CtrlCounts, EventCounts DEF SentIn
<1>2. ASSUME NEW s \in Stack
      PROVE  /\ PendingIn(w, q, <<>>, s, A) \in Nat
             /\ PendingIn(w, q, <<>>, s, A) =
                  CountIn(q, Asked(s, A)) + CountIn(w.arb.saved[s], Asked(s, A))
             /\ StartedIn(w, s, A) \in Nat /\ Using(w, q, s) \in Nat
             /\ CountIn(q, Asked(s, A)) \in Nat
             /\ CountIn(w.arb.saved[s], Asked(s, A)) \in Nat
  <2>1. CountIn(q, Asked(s, A)) \in Nat /\ CountIn(q, CleaningOf(s)) \in Nat
    BY ArbCounts
  <2>2. CountIn(w.arb.saved[s], Asked(s, A)) \in Nat
    BY <1>0, PlacesFinite
  <2>3. CountIn(<<>>, Asked(s, A)) = 0
    BY EmptyCount
  <2>4. SentIn(w, s, A) \in Nat /\ SentIn(w, s, Op) \in Nat
    BY <1>0, <1>1
  <2> QED BY SMTT(30), <2>1, <2>2, <2>3, <2>4 DEF PendingIn, StartedIn, Using, HeldIn, One
<1> QED BY <1>1, <1>2

\* While the scan is arbitrated no other scan command is under way.
LEMMA SplOnly ==
  ASSUME NEW w \in Works, NEW q \in Seq(ArbMsg), NEW W, w.arb.spl,
         Locks(w, q), Accounted(w, q, <<>>, W), OneScanEach(W)
  PROVE  /\ \A i \in DOMAIN w.ctrl : w.ctrl[i].for # "spl" => w.ctrl[i].op \notin ScanOp
         /\ \A i \in DOMAIN w.dmq : w.dmq[i].for # "spl" => w.dmq[i].op \notin ScanOp
<1>0. /\ w \in WorkSet /\ "primary" \in Stack /\ "micro" \in Stack /\ ScanOp \in SUBSET Op
      /\ "primary" \in Who /\ ScanOp \in Family /\ "param" \in ScanOp
      /\ w.ctrl \in Seq(Command) /\ w.dmq \in Seq(Event)
  BY DEF Works, Stack, ScanOp, Op, Family, Who, WorkSet
<1>1. /\ \A i \in DOMAIN w.ctrl : w.ctrl[i].for # "micro"
      /\ \A i \in DOMAIN w.dmq : w.dmq[i].for # "micro"
  <2>1. Using(w, q, "micro") = 0
    BY DEF Locks, One
  <2> QED BY <1>0, <2>1, NotUsing
<1>2. SentIn(w, "primary", ScanOp) = 0
  <2>1. HeldIn(w.arb, "primary", ScanOp) = 1
    BY <1>0 DEF HeldIn, One, Locks
  <2>2. CountIn(W["primary"], ScanOp) =
          PendingIn(w, q, <<>>, "primary", ScanOp) + SentIn(w, "primary", ScanOp) + 1
    <3>1. CountIn(W["primary"], ScanOp) =
            PendingIn(w, q, <<>>, "primary", ScanOp) + StartedIn(w, "primary", ScanOp)
      BY <1>0 DEF Accounted
    <3>2. PendingIn(w, q, <<>>, "primary", ScanOp) \in Nat /\ SentIn(w, "primary", ScanOp) \in Nat
      BY <1>0, CountsNatural
    <3> QED BY <2>1, <3>1, <3>2 DEF StartedIn
  <2>3. CountIn(W["primary"], ScanOp) <= 1
    BY <1>0 DEF OneScanEach
  <2>4. PendingIn(w, q, <<>>, "primary", ScanOp) \in Nat /\ SentIn(w, "primary", ScanOp) \in Nat
    BY <1>0, CountsNatural
  <2> QED BY <2>2, <2>3, <2>4
<1>3. /\ \A i \in DOMAIN w.ctrl : w.ctrl[i].for = "primary" => w.ctrl[i].op \notin ScanOp
      /\ \A i \in DOMAIN w.dmq : w.dmq[i].for = "primary" => w.dmq[i].op \notin ScanOp
  BY <1>0, <1>2, NoneSent
<1>4. /\ \A i \in DOMAIN w.ctrl : w.ctrl[i].for \in Stack \cup {"spl"}
      /\ \A i \in DOMAIN w.dmq : w.dmq[i].for \in Stack \cup {"spl"} \/ w.dmq[i].op = "async"
  <2>1. /\ \A e \in Command : e.for \in Stack \cup {"spl"}
        /\ \A e \in Event : e.for \in Stack \cup {"spl"} \/ e.op = "async"
    BY DEF Command, Event
  <2>2. /\ \A i \in DOMAIN w.ctrl : w.ctrl[i] \in Command
        /\ \A i \in DOMAIN w.dmq : w.dmq[i] \in Event
    BY <1>0
  <2> QED BY <2>1, <2>2
<1> QED BY <1>1, <1>3, <1>4 DEF Stack, ScanOp

\* A queue with one element less.
LEMMA RemovedAt ==
  ASSUME NEW S, NEW q \in Seq(S), NEW k \in DOMAIN q, NEW r, r = RemoveAt(q, k)
  PROVE  /\ r \in Seq(S) /\ q[k] \in S
         /\ \A i \in DOMAIN r : \E j \in DOMAIN q : r[i] = q[j]
         /\ \A j \in DOMAIN q : j = k \/ \E i \in DOMAIN r : r[i] = q[j]
<1>0. k \in 1 .. Len(q) /\ DOMAIN q = 1 .. Len(q) /\ Len(q) \in Nat
  OBVIOUS
<1>1. /\ r \in Seq(S) /\ Len(r) = Len(q) - 1
      /\ \A i \in 1 .. Len(q) - 1 : r[i] = IF i < k THEN q[i] ELSE q[i + 1]
  BY <1>0, RemoveAtTyped
<1>2. DOMAIN r = 1 .. Len(q) - 1
  BY <1>0, <1>1
<1>3. ASSUME NEW i \in DOMAIN r
      PROVE  \E j \in DOMAIN q : r[i] = q[j]
  <2>1. i \in DOMAIN q /\ i + 1 \in DOMAIN q
    BY <1>0, <1>2
  <2> QED BY <1>1, <1>2, <2>1
<1>4. ASSUME NEW j \in DOMAIN q, j # k
      PROVE  \E i \in DOMAIN r : r[i] = q[j]
  <2>1. CASE j < k
    <3>1. j \in DOMAIN r /\ r[j] = q[j]
      BY <1>0, <1>1, <1>2, <2>1
    <3> QED BY <3>1
  <2>2. CASE j > k
    <3>1. j - 1 \in DOMAIN r /\ ~ (j - 1 < k) /\ j - 1 + 1 = j
      BY <1>0, <1>2, <2>2
    <3>2. r[j - 1] = q[j]
      BY <1>1, <1>2, <3>1
    <3> QED BY <3>1, <3>2
  <2>3. j < k \/ j > k
    BY <1>0, <1>4
  <2> QED BY <2>1, <2>2, <2>3
<1> QED BY <1>0, <1>1, <1>3, <1>4

-----------------------------------------------------------------------------
(* The controller answers and reports.                                     *)

\* What the controller does to its scan when it completes a command.
ScanAfter(op, sc) == CASE op = "enable" -> TRUE [] op = "disable" -> FALSE [] OTHER -> sc

\* A command answered is an event of the same stack.
LEMMA AnswerGood ==
  ASSUME NEW w \in Works, NEW v \in Works, NEW q \in Seq(ArbMsg), NEW i \in DOMAIN w.ctrl,
         NEW c, c = w.ctrl[i], NEW e \in Event, NEW ok \in BOOLEAN,
         e.op = c.op, e.for = c.for, e.ok = ok,
         v.arb = w.arb, v.seen = w.seen, v.ctrl = RemoveAt(w.ctrl, i), v.dmq = Append(w.dmq, e),
         NEW sc \in BOOLEAN, ok \/ (c.op = "param" /\ sc), NEW sd, sd = ScanAfter(c.op, sc),
         NEW W, NEW h, Good(w, q, <<>>, W, h, sc)
  PROVE  Good(v, q, <<>>, W, h, sd)
<1>0. /\ w \in WorkSet /\ w.ctrl \in Seq(Command) /\ w.dmq \in Seq(Event) /\ i \in 1 .. Len(w.ctrl)
      /\ c \in Command /\ e.op = c.op /\ e.for = c.for /\ e.ok = ok /\ v \in WorkSet
  BY DEF Works, WorkSet
<1>1. /\ Accounted(w, q, <<>>, W) /\ OneScanEach(W) /\ Locks(w, q) /\ SplServed(w, sc)
      /\ "arbitrated" \notin w.seen => HostAgrees(w, q, <<>>, h) /\ ScanAgrees(w, sc)
  BY DEF Good
<1>2. ASSUME NEW s \in Who, NEW A \in SUBSET Op
      PROVE  SentIn(v, s, A) = SentIn(w, s, A)
  <2> DEFINE one == One(c.for = s /\ c.op \in A)
  <2>1. CountIn(w.ctrl, Sent(s, A)) = CountIn(v.ctrl, Sent(s, A)) + one
    BY <1>0, CtrlCounts
  <2>2. CountIn(v.dmq, Told(s, A)) = CountIn(w.dmq, Told(s, A)) + one
    <3>1. CountIn(v.dmq, Told(s, A)) =
            CountIn(w.dmq, Told(s, A)) + One(e.for = s /\ e.op \in A)
      BY <1>0, EventCounts
    <3>2. One(e.for = s /\ e.op \in A) = one
      BY <1>0 DEF One
    <3> QED BY <3>1, <3>2
  <2>3. /\ CountIn(v.ctrl, Sent(s, A)) \in Nat /\ CountIn(w.dmq, Told(s, A)) \in Nat
        /\ one \in Nat
    BY <1>0, CtrlCounts, EventCounts DEF WorkSet, One
  <2> HIDE DEF one
  <2> QED BY <2>1, <2>2, <2>3 DEF SentIn
<1>3. /\ \A s \in Stack, A \in SUBSET Op : StartedIn(v, s, A) = StartedIn(w, s, A)
      /\ \A s \in Stack : Using(v, q, s) = Using(w, q, s)
      /\ SentIn(v, "spl", Op) = SentIn(w, "spl", Op)
  <2>1. Op \in SUBSET Op /\ "spl" \in Who /\ Stack \subseteq Who
    BY DEF Who
  <2> QED BY <1>2, <2>1 DEF StartedIn, Using
<1>4. \A s, A : PendingIn(v, q, <<>>, s, A) = PendingIn(w, q, <<>>, s, A)
  BY DEF PendingIn
<1>5. Accounted(v, q, <<>>, W)
  BY <1>1, <1>3, <1>4, FamilyIsOps DEF Accounted
<1>6. Locks(v, q)
  BY <1>1, <1>3 DEF Locks, Stack
<1>7. /\ \A k \in DOMAIN v.ctrl : \E j \in DOMAIN w.ctrl : v.ctrl[k] = w.ctrl[j]
      /\ \A j \in DOMAIN w.ctrl : j = i \/ \E k \in DOMAIN v.ctrl : v.ctrl[k] = w.ctrl[j]
  BY <1>0, RemovedAt
<1>8. \A k \in DOMAIN v.dmq : v.dmq[k] = e \/ \E j \in DOMAIN w.dmq : v.dmq[k] = w.dmq[j]
  BY <1>0, AppendedAt
<1>9. w.arb.spl =>
        /\ c.for # "spl" => c.op \notin ScanOp
        /\ c.for = "spl" => c.op = OwnCommand(w.arb.sm)
  BY <1>0, <1>1, SplOnly DEF SplServed
<1>10. SplServed(v, sd)
  <2>1. CASE w.arb.spl
    <3>1. CASE c.for # "spl"
      <4>1. sd = sc
        BY <1>9, <2>1, <3>1 DEF ScanAfter, ScanOp
      <4> QED BY <1>0, <1>1, <1>7, <1>8, <3>1, <4>1 DEF SplServed
    <3>2. CASE c.for = "spl"
      <4>1. \A j \in DOMAIN w.dmq : w.dmq[j].for # "spl"
        <5> DEFINE m == CountIn(w.ctrl, Sent("spl", Op))
                   n == CountIn(w.dmq, Told("spl", Op))
        <5>1. "spl" \in Who /\ Op \in SUBSET Op
          BY DEF Who
        <5>2. m \in Nat /\ n \in Nat
          BY <1>0, <5>1, CtrlCounts, EventCounts
        <5>3. m # 0
          <6>1. w.ctrl[i] \in Sent("spl", Op)
            BY <1>0, <3>2 DEF Sent, Command
          <6> QED BY <1>0, <6>1, CountNothing
        <5>4. m + n = 1
          BY <1>1, <2>1 DEF Locks, One, SentIn
        <5> HIDE DEF m, n
        <5>5. n = 0
          BY <5>2, <5>3, <5>4
        <5>6. \A j \in DOMAIN w.dmq : w.dmq[j] \notin Told("spl", Op)
          BY <1>0, <5>5, CountNothing DEF n
        <5>7. \A x \in Event : x.for = "spl" => x \in Told("spl", Op)
          BY DEF Event, Told, Stack
        <5>8. \A j \in DOMAIN w.dmq : w.dmq[j] \in Event
          BY <1>0
        <5> QED BY <5>6, <5>7, <5>8
      <4>2. c.op = OwnCommand(w.arb.sm)
        BY <1>9, <2>1, <3>2
      <4>3. w.arb.sm \in {"disabling", "setting", "enabling"}
        BY <1>0, <1>1, <2>1 DEF Locks, WorkSet, ArbState
      <4>4. ok /\ (w.arb.sm \in {"disabling", "setting"} => ~ sd)
        BY <1>1, <4>2, <4>3 DEF OwnCommand, ScanAfter, SplServed
      <4>5. \A k \in DOMAIN v.ctrl : v.ctrl[k].for = "spl" => v.ctrl[k].op = OwnCommand(v.arb.sm)
        BY <1>1, <1>7 DEF SplServed
      <4>6. \A k \in DOMAIN v.dmq : v.dmq[k].for = "spl" => v.dmq[k] = e
        BY <1>8, <4>1
      <4>7. e.ok /\ e.op = OwnCommand(v.arb.sm)
        BY <4>2, <4>4
      <4> QED BY <4>4, <4>5, <4>6, <4>7 DEF SplServed
    <3> QED BY <3>1, <3>2
  <2>2. CASE ~ w.arb.spl
    <3>1. w.arb.sm = "idle"
      BY <1>1, <2>2 DEF Locks
    <3>2. SentIn(w, "spl", Op) = 0 /\ "spl" \in Who /\ Op \in SUBSET Op
      BY <1>1, <2>2 DEF Locks, One, Who
    <3>3. c.for # "spl"
      BY <1>0, <3>2, NoneSent DEF Command
    <3> QED BY <1>0, <1>1, <1>7, <1>8, <3>1, <3>3 DEF SplServed
  <2> QED BY <2>1, <2>2
<1>11. ASSUME "arbitrated" \notin v.seen
       PROVE  HostAgrees(v, q, <<>>, h) /\ ScanAgrees(v, sd)
  <2>1. HostAgrees(w, q, <<>>, h) /\ ScanAgrees(w, sc)
    BY <1>1, <1>11
  <2>2. HostAgrees(v, q, <<>>, h)
    BY <1>4, <2>1 DEF HostAgrees
  <2>3. ScanAgrees(v, sd)
    <3>1. CASE c.op = "enable"
      <4>1. sd = TRUE /\ SomeScans(v.arb)
        BY <2>1, <3>1 DEF ScanAfter, ScanAgrees
      <4> QED BY <1>7, <2>1, <3>1, <4>1 DEF ScanAgrees
    <3>2. CASE c.op = "disable"
      <4>1. sd = FALSE /\ ~ SomeScans(v.arb)
        BY <2>1, <3>2 DEF ScanAfter, ScanAgrees
      <4> QED BY <1>7, <2>1, <3>2, <4>1 DEF ScanAgrees
    <3>3. CASE c.op \notin {"enable", "disable"}
      <4>1. sd = sc
        BY <3>3 DEF ScanAfter
      <4> QED BY <1>7, <2>1, <3>3, <4>1 DEF ScanAgrees
    <3> QED BY <3>1, <3>2, <3>3
  <2> QED BY <2>2, <2>3
<1> QED BY <1>1, <1>5, <1>6, <1>10, <1>11 DEF Good

\* A queue without its head.
LEMMA TailElements ==
  ASSUME NEW S, NEW q \in Seq(S), q # <<>>
  PROVE  /\ Tail(q) \in Seq(S) /\ Head(q) \in S /\ \E j \in DOMAIN q : Head(q) = q[j]
         /\ \A i \in DOMAIN Tail(q) : \E j \in DOMAIN q : Tail(q)[i] = q[j]
<1>1. /\ Tail(q) \in Seq(S) /\ Len(Tail(q)) = Len(q) - 1 /\ Head(q) \in S
      /\ \A i \in 1 .. Len(q) - 1 : Tail(q)[i] = q[i + 1]
  BY HeadTailProperties
<1>2. Len(q) \in Nat /\ Len(q) # 0 /\ DOMAIN q = 1 .. Len(q) /\ Head(q) = q[1]
  BY EmptySeq
<1>3. DOMAIN Tail(q) = 1 .. Len(q) - 1
  BY <1>1, <1>2
<1>4. 1 \in DOMAIN q /\ \A i \in DOMAIN Tail(q) : i + 1 \in DOMAIN q
  BY <1>2, <1>3
<1> QED BY <1>1, <1>2, <1>3, <1>4

\* An event that answers no command is counted nowhere.
LEMMA ReportGood ==
  ASSUME NEW w \in Works, NEW v \in Works, NEW q \in Seq(ArbMsg), NEW e \in Event,
         e.op = "async", v.arb = w.arb, v.seen = w.seen, v.ctrl = w.ctrl,
         v.dmq = Append(w.dmq, e) \/ (w.dmq # <<>> /\ e = Head(w.dmq) /\ v.dmq = Tail(w.dmq)),
         NEW W, NEW h, NEW sc, Good(w, q, <<>>, W, h, sc)
  PROVE  Good(v, q, <<>>, W, h, sc)
<1>0. /\ w.dmq \in Seq(Event) /\ v.dmq \in Seq(Event) /\ e.for \notin Who /\ e.op \notin Op
  BY DEF Works, WorkSet, Event, Who, Op, Stack
<1>1. ASSUME NEW s \in Who, NEW A \in SUBSET Op
      PROVE  SentIn(v, s, A) = SentIn(w, s, A)
  <2>1. One(e.for = s /\ e.op \in A) = 0
    BY <1>0 DEF One
  <2>2. CountIn(w.dmq, Told(s, A)) \in Nat /\ CountIn(v.dmq, Told(s, A)) \in Nat
    BY <1>0, EventCounts
  <2>3. CASE v.dmq = Append(w.dmq, e)
    <3>1. CountIn(v.dmq, Told(s, A)) =
            CountIn(w.dmq, Told(s, A)) + One(e.for = s /\ e.op \in A)
      BY <1>0, <2>3, EventCounts
    <3> QED BY <2>1, <2>2, <3>1 DEF SentIn
  <2>4. CASE w.dmq # <<>> /\ e = Head(w.dmq) /\ v.dmq = Tail(w.dmq)
    <3>1. CountIn(w.dmq, Told(s, A)) =
            CountIn(v.dmq, Told(s, A)) + One(e.for = s /\ e.op \in A)
      BY <1>0, <2>4, EventCounts
    <3> QED BY <2>1, <2>2, <3>1 DEF SentIn
  <2> QED BY <2>3, <2>4
<1>2. /\ \A s \in Stack, A \in SUBSET Op : StartedIn(v, s, A) = StartedIn(w, s, A)
      /\ \A s \in Stack : Using(v, q, s) = Using(w, q, s)
      /\ SentIn(v, "spl", Op) = SentIn(w, "spl", Op)
  <2>1. Op \in SUBSET Op /\ "spl" \in Who /\ Stack \subseteq Who
    BY DEF Who
  <2> QED BY <1>1, <2>1 DEF StartedIn, Using
<1>3. \A s, A : PendingIn(v, q, <<>>, s, A) = PendingIn(w, q, <<>>, s, A)
  BY DEF PendingIn
<1>4. Accounted(v, q, <<>>, W)
  BY <1>2, <1>3, FamilyIsOps DEF Good, Accounted
<1>5. Locks(v, q)
  BY <1>2 DEF Good, Locks, Stack
<1>6. \A i \in DOMAIN v.dmq : v.dmq[i].for = "spl" => \E j \in DOMAIN w.dmq : v.dmq[i] = w.dmq[j]
  <2>1. CASE v.dmq = Append(w.dmq, e)
    <3>1. \A i \in DOMAIN v.dmq : v.dmq[i] = e \/ \E j \in DOMAIN w.dmq : v.dmq[i] = w.dmq[j]
      BY <1>0, <2>1, AppendedAt
    <3> QED BY <1>0, <3>1 DEF Who
  <2>2. CASE w.dmq # <<>> /\ e = Head(w.dmq) /\ v.dmq = Tail(w.dmq)
    BY <1>0, <2>2, TailElements
  <2> QED BY <2>1, <2>2
<1>7. SplServed(v, sc)
  BY <1>6 DEF Good, SplServed
<1>8. ASSUME "arbitrated" \notin v.seen
      PROVE  HostAgrees(v, q, <<>>, h) /\ ScanAgrees(v, sc)
  BY <1>3, <1>8 DEF Good, HostAgrees, ScanAgrees
<1> QED BY <1>4, <1>5, <1>7, <1>8 DEF Good

-----------------------------------------------------------------------------
(* The scan state machine.                                                 *)

\* Its step on the event at the head of the queue.
ScanStep(w, e) ==
  LET t == [w EXCEPT !.dmq = Tail(@)]
      mine == IF e.op = "param" THEN w.arb.sm = "setting"
                                ELSE w.arb.sm \in {"disabling", "enabling"}
  IN  IF e.ok /\ mine THEN handleEventsScanArbStateMachine(t) ELSE t

\* What one of its states becomes, and what it sends.
ScanStepped(w, v) ==
  /\ w.arb.sm = "disabling" => /\ v.ctrl = Append(w.ctrl, [op |-> "param", for |-> "spl"])
                               /\ v.dmq = Tail(w.dmq)
                               /\ v.arb.sm = "setting" /\ v.arb.spl = w.arb.spl
  /\ w.arb.sm = "setting" => /\ v.ctrl = Append(w.ctrl, [op |-> "enable", for |-> "spl"])
                             /\ v.dmq = Tail(w.dmq)
                             /\ v.arb.sm = "enabling" /\ v.arb.spl = w.arb.spl
  /\ w.arb.sm = "enabling" => /\ v.ctrl = w.ctrl
                              /\ v.dmq = Append(Tail(w.dmq),
                                           [op |-> "param", for |-> "primary", ok |-> TRUE])
                              /\ v.arb.sm = "idle" /\ v.arb.spl = FALSE

\* A step changes no lock of a stack and no saved command.
LEMMA ScanStepEffect ==
  ASSUME NEW w \in Works, w.dmq # <<>>, NEW e, e = Head(w.dmq), NEW v, v = ScanStep(w, e),
         e.op \in ScanOp
  PROVE  /\ v \in Works /\ v.seen = w.seen /\ v.arb.saved = w.arb.saved
         /\ v.arb.micro = w.arb.micro /\ v.arb.primary = w.arb.primary
         /\ v.arb.count = w.arb.count
         /\ e.ok /\ w.arb.sm # "idle" /\ e.op = OwnCommand(w.arb.sm) => ScanStepped(w, v)
<1> DEFINE t == [w EXCEPT !.dmq = Tail(@)]
           mine == IF e.op = "param" THEN w.arb.sm = "setting"
                                     ELSE w.arb.sm \in {"disabling", "enabling"}
<1>0. /\ w \in WorkSet /\ w.arb \in ArbState /\ w.dmq \in Seq(Event) /\ Tail(w.dmq) \in Seq(Event)
      /\ \A s \in Stack : w.arb.saved[s] \in Seq(Request(s))
      /\ "spl" \in Who /\ "primary" \in Who /\ "primary" \in Stack
      /\ "param" \in OpsOf("spl") /\ "enable" \in OpsOf("spl") /\ "param" \in OpsOf("primary")
  BY TailElements DEF Works, WorkSet, Who, OpsOf, ScanOp, Op, Stack
<1>1. /\ t \in WorkSet /\ t.arb = w.arb /\ t.ctrl = w.ctrl /\ t.dmq = Tail(w.dmq)
      /\ t.seen = w.seen
  BY <1>0 DEF WorkSet
<1>2. v = IF e.ok /\ mine THEN handleEventsScanArbStateMachine(t) ELSE t
  BY DEF ScanStep
<1> HIDE DEF t
<1>3. CASE ~ (e.ok /\ mine)
  <2>1. v = t
    BY <1>2, <1>3
  <2>2. ~ (e.ok /\ w.arb.sm # "idle" /\ e.op = OwnCommand(w.arb.sm))
    BY <1>0, <1>3 DEF OwnCommand, ArbState
  <2> QED BY <1>0, <1>1, <2>1, <2>2 DEF Works
<1>4. CASE e.ok /\ mine /\ w.arb.sm = "disabling"
  <2> DEFINE ps == [w.arb.paramsSet EXCEPT !["primary"] = TRUE]
             a == [w.arb EXCEPT !.sm = "setting", !.paramsSet = ps]
             u == [t EXCEPT !.arb = a]
  <2>1. v = CsrHciCommandReqSend("param", "spl", u)
    <3> DEFINE b == [w.arb EXCEPT !.sm = "setting"]
    <3>1. v = CsrHciCommandReqSend("param", "spl",
                [t EXCEPT !.arb.sm = "setting", !.arb.paramsSet["primary"] = TRUE])
      BY <1>1, <1>2, <1>4 DEF handleEventsScanArbStateMachine
    <3>2. b \in ArbState /\ b.paramsSet = w.arb.paramsSet
      BY <1>0 DEF ArbState
    <3>3. [b EXCEPT !.paramsSet = ps] = a
      BY <1>0 DEF ArbState
    <3>4. [b EXCEPT !.paramsSet["primary"] = TRUE] = [b EXCEPT !.paramsSet = ps]
      <4> HIDE DEF b
      <4> QED BY <3>2 DEF ArbState
    <3>5. [t EXCEPT !.arb.sm = "setting"] = [t EXCEPT !.arb = b]
      BY <1>1 DEF WorkSet
    <3> HIDE DEF a, b
    <3>6. [t EXCEPT !.arb = b] \in WorkSet /\ [t EXCEPT !.arb = b].arb = b
      BY <1>1, <3>2 DEF WorkSet
    <3>7. [[t EXCEPT !.arb = b] EXCEPT !.arb.paramsSet["primary"] = TRUE] =
            [[t EXCEPT !.arb = b] EXCEPT !.arb = a]
      BY <3>3, <3>4, <3>6 DEF WorkSet
    <3>8. [[t EXCEPT !.arb = b] EXCEPT !.arb = a] = u
      BY <1>1 DEF WorkSet
    <3>9. [t EXCEPT !.arb.sm = "setting", !.arb.paramsSet["primary"] = TRUE] =
            [[t EXCEPT !.arb.sm = "setting"] EXCEPT !.arb.paramsSet["primary"] = TRUE]
      BY <1>1 DEF WorkSet
    <3> QED BY <3>1, <3>5, <3>7, <3>8, <3>9
  <2>2. ps \in [Stack -> BOOLEAN]
    BY <1>0 DEF ArbState
  <2> HIDE DEF ps
  <2>3. /\ a \in ArbState /\ a.saved = w.arb.saved /\ a.micro = w.arb.micro
        /\ a.primary = w.arb.primary /\ a.count = w.arb.count /\ a.spl = w.arb.spl
        /\ a.sm = "setting"
    BY <1>0, <2>2 DEF ArbState
  <2> HIDE DEF a
  <2>4. u \in WorkSet /\ u.arb = a /\ u.ctrl = w.ctrl /\ u.dmq = Tail(w.dmq) /\ u.seen = w.seen
    BY <1>1, <2>3 DEF WorkSet
  <2> HIDE DEF u
  <2>5. /\ v \in WorkSet /\ v.arb = a /\ v.dmq = Tail(w.dmq) /\ v.seen = w.seen
        /\ v.ctrl = Append(w.ctrl, [op |-> "param", for |-> "spl"])
    BY <1>0, <2>1, <2>4, SendEffect
  <2> QED BY <1>0, <1>4, <2>3, <2>5 DEF Works, ScanStepped
<1>5. CASE e.ok /\ mine /\ w.arb.sm = "setting"
  <2> DEFINE a == [w.arb EXCEPT !.sm = "enabling"]
             u == [t EXCEPT !.arb = a]
  <2>1. v = CsrHciCommandReqSend("enable", "spl", u)
    BY <1>0, <1>1, <1>2, <1>5 DEF handleEventsScanArbStateMachine, WorkSet, ArbState
  <2>3. /\ a \in ArbState /\ a.saved = w.arb.saved /\ a.micro = w.arb.micro
        /\ a.primary = w.arb.primary /\ a.count = w.arb.count /\ a.spl = w.arb.spl
        /\ a.sm = "enabling"
    BY <1>0 DEF ArbState
  <2> HIDE DEF a
  <2>4. u \in WorkSet /\ u.arb = a /\ u.ctrl = w.ctrl /\ u.dmq = Tail(w.dmq) /\ u.seen = w.seen
    BY <1>1, <2>3 DEF WorkSet
  <2> HIDE DEF u
  <2>5. /\ v \in WorkSet /\ v.arb = a /\ v.dmq = Tail(w.dmq) /\ v.seen = w.seen
        /\ v.ctrl = Append(w.ctrl, [op |-> "enable", for |-> "spl"])
    BY <1>0, <2>1, <2>4, SendEffect
  <2> QED BY <1>0, <1>5, <2>3, <2>5 DEF Works, ScanStepped
<1>6. CASE e.ok /\ mine /\ w.arb.sm = "enabling"
  <2> DEFINE u == SimulateResponse("param", "primary", t)
             none == [s \in Stack |-> FALSE]
             a == [w.arb EXCEPT !.spl = FALSE, !.sm = "idle", !.scanEnabled = none,
                                !.paramsSet = none]
  <2>1. v = exitScanStateMachine(u)
    BY <1>0, <1>1, <1>2, <1>6 DEF handleEventsScanArbStateMachine
  <2>2. /\ u \in WorkSet /\ u.arb = w.arb /\ u.ctrl = w.ctrl /\ u.seen = w.seen
        /\ u.dmq = Append(Tail(w.dmq), [op |-> "param", for |-> "primary", ok |-> TRUE])
    <3> SUFFICES ASSUME NEW s \in Who, s = "primary", NEW op \in OpsOf(s), op = "param"
                 PROVE  /\ u \in WorkSet /\ u.arb = w.arb /\ u.ctrl = w.ctrl /\ u.seen = w.seen
                        /\ u.dmq = Append(Tail(w.dmq), [op |-> op, for |-> s, ok |-> TRUE])
      BY <1>0
    <3>1. u = SimulateResponse(op, s, t)
      OBVIOUS
    <3> DEFINE d == Tail(w.dmq)
    <3>2. t.dmq = d
      BY <1>1
    <3> HIDE DEF u, d
    <3>3. /\ u \in WorkSet /\ u.arb = t.arb /\ u.ctrl = t.ctrl /\ u.seen = t.seen
          /\ u.dmq = Append(t.dmq, [op |-> op, for |-> s, ok |-> TRUE])
      BY <1>1, <3>1, SimulateEffect
    <3> QED BY <1>1, <3>2, <3>3 DEF d
  <2> HIDE DEF u
  <2>3. v = [u EXCEPT !.arb = a]
    BY <1>0, <2>1, <2>2 DEF exitScanStateMachine, HciCmdArbUnlockQueue, WorkSet, ArbState
  <2>4. none \in [Stack -> BOOLEAN]
    OBVIOUS
  <2> HIDE DEF none
  <2>5. /\ a \in ArbState /\ a.saved = w.arb.saved /\ a.micro = w.arb.micro
        /\ a.primary = w.arb.primary /\ a.count = w.arb.count /\ a.spl = FALSE /\ a.sm = "idle"
    BY <1>0, <2>4 DEF ArbState
  <2> HIDE DEF a
  <2>6. v \in WorkSet /\ v.arb = a /\ v.ctrl = u.ctrl /\ v.dmq = u.dmq /\ v.seen = u.seen
    BY <2>2, <2>3, <2>5 DEF WorkSet
  <2> QED BY <1>0, <1>6, <2>2, <2>5, <2>6 DEF Works, ScanStepped
<1> QED BY <1>3, <1>4, <1>5, <1>6

\* It takes the answer to its own command, which is the only scan command under
\* way, and sends the next or answers the command that it works for.
LEMMA ScanStepGood ==
  ASSUME NEW w \in Works, NEW q \in Seq(ArbMsg), w.dmq # <<>>, NEW e, e = Head(w.dmq),
         w.arb.spl, e.op \in ScanOp, NEW v, v = ScanStep(w, e),
         NEW W, NEW h, NEW sc, Good(w, q, <<>>, W, h, sc)
  PROVE  Good(v, q, <<>>, W, h, sc)
<1> DEFINE d == Tail(w.dmq)
<1>0. /\ w \in WorkSet /\ w.ctrl \in Seq(Command) /\ w.dmq \in Seq(Event) /\ e \in Event
      /\ d \in Seq(Event) /\ \E j \in DOMAIN w.dmq : e = w.dmq[j]
      /\ \A i \in DOMAIN d : \E j \in DOMAIN w.dmq : d[i] = w.dmq[j]
      /\ "spl" \in Who /\ Op \in SUBSET Op /\ Stack \subseteq Who /\ ScanOp \subseteq Op
      /\ "primary" \in Stack /\ "micro" \in Stack
  BY TailElements DEF Works, WorkSet, Who, ScanOp, Op, Stack
<1>1. /\ Accounted(w, q, <<>>, W) /\ OneScanEach(W) /\ Locks(w, q) /\ SplServed(w, sc)
      /\ "arbitrated" \in w.seen /\ w.arb.sm # "idle" /\ w.arb.micro = "unlock"
  BY DEF Good, Locks
<1>2. e.for = "spl"
  BY <1>0, <1>1, SplOnly
<1>3. e.ok /\ e.op = OwnCommand(w.arb.sm) /\ (w.arb.sm = "disabling" => ~ sc)
  BY <1>0, <1>1, <1>2 DEF SplServed
<1>4. /\ v \in Works /\ v.seen = w.seen /\ v.arb.saved = w.arb.saved
      /\ v.arb.micro = w.arb.micro /\ v.arb.primary = w.arb.primary
      /\ v.arb.count = w.arb.count /\ ScanStepped(w, v)
  BY <1>1, <1>3, ScanStepEffect
<1>5. w.arb.sm \in {"disabling", "setting", "enabling"}
  BY <1>0, <1>1 DEF WorkSet, ArbState
<1> DEFINE c == [op |-> OwnCommand(v.arb.sm), for |-> "spl"]
           a == [op |-> "param", for |-> "primary", ok |-> TRUE]
<1>6. c \in Command /\ a \in Event /\ c.for = "spl" /\ c.op = OwnCommand(v.arb.sm)
      /\ a.for = "primary" /\ a.op = "param"
  BY DEF Command, Event, OwnCommand, OpsOf, ScanOp, Op, Stack
<1>7. /\ w.arb.sm # "enabling" => /\ v.ctrl = Append(w.ctrl, c) /\ v.dmq = d
                                  /\ v.arb.spl = w.arb.spl /\ v.arb.sm # "idle"
                                  /\ v.arb.sm = "setting" => w.arb.sm = "disabling"
                                  /\ v.arb.sm # "disabling"
      /\ w.arb.sm = "enabling" => /\ v.ctrl = w.ctrl /\ v.dmq = Append(d, a)
                                  /\ v.arb.spl = FALSE /\ v.arb.sm = "idle"
  BY <1>4, <1>5 DEF ScanStepped, OwnCommand
<1> HIDE DEF c, a, d
<1>8. ASSUME NEW s \in Who, NEW A \in SUBSET Op
      PROVE  /\ CountIn(w.ctrl, Sent(s, A)) \in Nat /\ CountIn(d, Told(s, A)) \in Nat
             /\ CountIn(w.dmq, Told(s, A)) =
                  CountIn(d, Told(s, A)) + One("spl" = s /\ e.op \in A)
             /\ w.arb.sm # "enabling" =>
                  /\ CountIn(v.ctrl, Sent(s, A)) =
                       CountIn(w.ctrl, Sent(s, A)) + One("spl" = s /\ c.op \in A)
                  /\ CountIn(v.dmq, Told(s, A)) = CountIn(d, Told(s, A))
             /\ w.arb.sm = "enabling" =>
                  /\ CountIn(v.ctrl, Sent(s, A)) = CountIn(w.ctrl, Sent(s, A))
                  /\ CountIn(v.dmq, Told(s, A)) =
                       CountIn(d, Told(s, A)) + One("primary" = s /\ "param" \in A)
  <2>1. CountIn(w.ctrl, Sent(s, A)) \in Nat /\ CountIn(d, Told(s, A)) \in Nat
    BY <1>0, CtrlCounts, EventCounts
  <2>2. CountIn(w.dmq, Told(s, A)) =
          CountIn(d, Told(s, A)) + One("spl" = s /\ e.op \in A)
    <3>1. CountIn(w.dmq, Told(s, A)) =
            CountIn(d, Told(s, A)) + One(e.for = s /\ e.op \in A)
      BY <1>0, EventCounts DEF d
    <3> QED BY <1>2, <3>1
  <2>3. CountIn(Append(w.ctrl, c), Sent(s, A)) =
          CountIn(w.ctrl, Sent(s, A)) + One("spl" = s /\ c.op \in A)
    <3>1. CountIn(Append(w.ctrl, c), Sent(s, A)) =
            CountIn(w.ctrl, Sent(s, A)) + One(c.for = s /\ c.op \in A)
      BY <1>0, <1>6, CtrlCounts
    <3> QED BY <1>6, <3>1
  <2>4. CountIn(Append(d, a), Told(s, A)) =
          CountIn(d, Told(s, A)) + One("primary" = s /\ "param" \in A)
    <3>1. CountIn(Append(d, a), Told(s, A)) =
            CountIn(d, Told(s, A)) + One(a.for = s /\ a.op \in A)
      BY <1>0, <1>6, EventCounts
    <3> QED BY <1>6, <3>1
  <2> QED BY <1>7, <2>1, <2>2, <2>3, <2>4
<1>9. ASSUME NEW s \in Stack, NEW A \in SUBSET Op
      PROVE  StartedIn(v, s, A) = StartedIn(w, s, A) /\ StartedIn(w, s, A) \in Nat
  <2>1. s # "spl" /\ s \in Who /\ One("spl" = s /\ e.op \in A) = 0
        /\ One("spl" = s /\ c.op \in A) = 0
    BY <1>0 DEF One, Stack
  <2>2. SentIn(v, s, A) = SentIn(w, s, A) +
          (IF w.arb.sm = "enabling" THEN One("primary" = s /\ "param" \in A) ELSE 0)
    BY <1>8, <2>1 DEF SentIn, One
  <2>3. HeldIn(v.arb, s, A) = IF w.arb.sm = "enabling" THEN 0 ELSE HeldIn(w.arb, s, A)
    BY <1>1, <1>7 DEF HeldIn, One
  <2>4. HeldIn(w.arb, s, A) = One("primary" = s /\ "param" \in A)
    BY <1>1 DEF HeldIn, One
  <2>5. SentIn(w, s, A) \in Nat /\ HeldIn(w.arb, s, A) \in Nat
    BY <1>8, <2>1 DEF SentIn, HeldIn, One
  <2> QED BY <2>2, <2>3, <2>4, <2>5 DEF StartedIn
<1>10. \A s \in Stack : Using(v, q, s) = Using(w, q, s)
  BY <1>0, <1>9 DEF Using
<1>11. \A s, A : PendingIn(v, q, <<>>, s, A) = PendingIn(w, q, <<>>, s, A)
  BY <1>4 DEF PendingIn
<1>12. Accounted(v, q, <<>>, W)
  BY <1>1, <1>9, <1>11, FamilyIsOps DEF Accounted
<1>13. /\ SentIn(w, "spl", Op) = 1
       /\ CountIn(w.ctrl, Sent("spl", Op)) = 0 /\ CountIn(d, Told("spl", Op)) = 0
  <2>1. SentIn(w, "spl", Op) = 1
    BY <1>1 DEF Locks, One
  <2>2. One("spl" = "spl" /\ e.op \in Op) = 1
    BY <1>0 DEF One
  <2> QED BY <1>0, <1>8, <2>1, <2>2 DEF SentIn
<1>14. Locks(v, q)
  <2>1. SentIn(v, "spl", Op) = One(v.arb.spl)
    <3>1. CASE w.arb.sm # "enabling"
      <4>1. One("spl" = "spl" /\ c.op \in Op) = 1 /\ One(v.arb.spl) = 1
        BY <1>6, <1>7, <3>1 DEF One, OwnCommand, Op
      <4> QED BY <1>0, <1>8, <1>13, <3>1, <4>1 DEF SentIn
    <3>2. CASE w.arb.sm = "enabling"
      <4>1. One("primary" = "spl" /\ "param" \in Op) = 0 /\ One(v.arb.spl) = 0
        BY <1>7, <3>2 DEF One
      <4> QED BY <1>0, <1>8, <1>13, <3>2, <4>1 DEF SentIn
    <3> QED BY <3>1, <3>2
  <2>2. v.arb.spl <=> v.arb.sm # "idle"
    BY <1>7
  <2> QED BY <1>0, <1>1, <1>4, <1>10, <2>1, <2>2 DEF Locks
<1>15. SplServed(v, sc)
  <2>1. /\ \A i \in DOMAIN w.ctrl : w.ctrl[i].for # "spl"
        /\ \A i \in DOMAIN d : d[i].for # "spl"
    <3>1. /\ \A i \in DOMAIN w.ctrl : w.ctrl[i] \notin Sent("spl", Op)
          /\ \A i \in DOMAIN d : d[i] \notin Told("spl", Op)
      BY <1>0, <1>13, CountNothing
    <3>2. /\ \A x \in Command : x.for = "spl" => x \in Sent("spl", Op)
          /\ \A x \in Event : x.for = "spl" => x \in Told("spl", Op)
      BY DEF Command, Event, Sent, Told, Stack
    <3>3. /\ \A i \in DOMAIN w.ctrl : w.ctrl[i] \in Command
          /\ \A i \in DOMAIN d : d[i] \in Event
      BY <1>0
    <3> QED BY <3>1, <3>2, <3>3
  <2>2. CASE w.arb.sm # "enabling"
    <3>1. \A i \in DOMAIN v.ctrl : v.ctrl[i] = c \/ \E j \in DOMAIN w.ctrl : v.ctrl[i] = w.ctrl[j]
      <4>1. v.ctrl = Append(w.ctrl, c) /\ w.ctrl \in Seq(Command)
        BY <1>0, <1>7, <2>2
      <4>2. ASSUME NEW p, p = w.ctrl, NEW r, r = v.ctrl
            PROVE  \A i \in DOMAIN r : r[i] = c \/ \E j \in DOMAIN p : r[i] = p[j]
        <5>1. p \in Seq(Command) /\ c \in Command /\ r = Append(p, c)
          BY <1>6, <4>1, <4>2
        <5> QED BY ONLY <5>1, AppendedAt
      <4> QED BY <4>2
    <3>2. v.dmq = d /\ v.arb.sm # "disabling" /\ (v.arb.sm = "setting" => ~ sc)
      BY <1>3, <1>7, <2>2
    <3>3. \A i \in DOMAIN v.ctrl : v.ctrl[i].for = "spl" => v.ctrl[i].op = OwnCommand(v.arb.sm)
      BY <1>6, <2>1, <3>1
    <3>4. \A i \in DOMAIN v.dmq : v.dmq[i].for # "spl"
      BY <2>1, <3>2
    <3> QED BY <3>2, <3>3, <3>4 DEF SplServed
  <2>3. CASE w.arb.sm = "enabling"
    <3>1. \A i \in DOMAIN v.dmq : v.dmq[i] = a \/ \E j \in DOMAIN d :
                                                     v.dmq[i] = d[j]
      <4>1. v.dmq = Append(d, a) /\ d \in Seq(Event)
        BY <1>0, <1>7, <2>3
      <4>2. ASSUME NEW r, r = v.dmq
            PROVE  \A i \in DOMAIN r : r[i] = a \/ \E j \in DOMAIN d : r[i] = d[j]
        <5>1. a \in Event /\ r = Append(d, a)
          BY <1>6, <4>1, <4>2
        <5> QED BY ONLY <4>1, <5>1, AppendedAt
      <4> QED BY <4>2
    <3> QED BY <1>6, <1>7, <2>1, <2>3, <3>1 DEF SplServed
  <2> QED BY <2>2, <2>3
<1> QED BY <1>1, <1>4, <1>12, <1>14, <1>15 DEF Good

-----------------------------------------------------------------------------
(* The two hosts.                                                          *)

\* What a host has asked for is what it waits for: h becomes g.
HostAsks(W, s, op, h, g) ==
  /\ op \in ScanOp => \A i \in DOMAIN W[s] : W[s][i] \notin ScanOp
  /\ op = "param" => h[s] # "on" /\ g[s] = "set"
  /\ op = "enable" => h[s] = "set" /\ g[s] = "on"
  /\ op = "disable" => h[s] = "on" /\ g[s] = "set"
  /\ op \notin ScanOp => g[s] = h[s]
  /\ \A t \in Stack : t # s => g[t] = h[t]

\* The commands of the stacks, in order.
Commands == {W \in [Stack -> Seq(Op)] : \A s \in Stack : W[s] \in Seq(OpsOf(s))}

Asking(W, s, op) == [W EXCEPT ![s] = Append(@, op)]

\* A host that asks for op waits for one more answer.
LEMMA WaitsMore ==
  ASSUME NEW W \in Commands, NEW s \in Stack, NEW op \in OpsOf(s),
         NEW V, V = Asking(W, s, op)
  PROVE  /\ V \in Commands
         /\ \A t \in Stack, A \in SUBSET Op :
              /\ CountIn(W[t], A) \in Nat
              /\ CountIn(V[t], A) = CountIn(W[t], A) + One(t = s /\ op \in A)
<1>0. /\ op \in Op /\ \A t \in Stack : OpsOf(t) \subseteq Op /\ W[t] \in Seq(Op)
      /\ W[s] \in Seq(OpsOf(s))
  BY DEF Commands, OpsOf, Op, ScanOp, Stack
<1>1. Append(W[s], op) \in Seq(Op) /\ Append(W[s], op) \in Seq(OpsOf(s))
  BY <1>0
<1>2. V[s] = Append(W[s], op) /\ \A t \in Stack : t # s => V[t] = W[t]
  BY DEF Commands, Asking
<1>3. V \in Commands
  BY <1>0, <1>1, <1>2 DEF Commands, Asking
<1>4. ASSUME NEW t \in Stack, NEW A \in SUBSET Op
      PROVE  /\ CountIn(W[t], A) \in Nat
             /\ CountIn(V[t], A) = CountIn(W[t], A) + One(t = s /\ op \in A)
  <2>1. CountIn(W[t], A) \in Nat
    BY <1>0, PlacesFinite
  <2>2. CASE t = s
    <3>1. ASSUME NEW r, r = W[s]
          PROVE  CountIn(Append(r, op), A) = CountIn(r, A) + One(op \in A)
      <4>1. r \in Seq(Op)
        BY <1>0, <3>1
      <4> QED BY ONLY <1>0, <4>1, CountAppend
    <3>2. One(t = s /\ op \in A) = One(op \in A)
      BY <2>2 DEF One
    <3> QED BY <1>2, <2>1, <2>2, <3>1, <3>2
  <2>3. CASE t # s
    <3>1. One(t = s /\ op \in A) = 0
      BY <2>3 DEF One
    <3> QED BY <1>2, <2>1, <2>3, <3>1
  <2> QED BY <2>1, <2>2, <2>3
<1> QED BY <1>3, <1>4

\* A command issued is pending, and the host's scan is what it asks for.
LEMMA IssueGood ==
  ASSUME NEW w \in Works, NEW q \in Seq(ArbMsg), NEW s \in Stack, NEW op \in OpsOf(s),
         NEW W \in Commands, NEW V, V = Asking(W, s, op),
         NEW m \in AnyRequest, m.from = s, m.op = op, NEW p, p = Append(q, m),
         NEW h, NEW g, HostAsks(W, s, op, h, g), NEW sc, Good(w, q, <<>>, W, h, sc)
  PROVE  Good(w, p, <<>>, V, g, sc)
<1>0. /\ p \in Seq(ArbMsg) /\ m \in ArbMsg
      /\ \A t \in Stack, A \in SUBSET Op : CountIn(W[t], A) \in Nat
      /\ \A t \in Stack, A \in SUBSET Op :
           CountIn(V[t], A) = CountIn(W[t], A) + One(t = s /\ op \in A)
  <2>1. m \in ArbMsg
    BY DEF ArbMsg
  <2>2. p \in Seq(ArbMsg)
    BY <2>1
  <2>3. \A t \in Stack, A \in SUBSET Op :
          /\ CountIn(W[t], A) \in Nat
          /\ CountIn(V[t], A) = CountIn(W[t], A) + One(t = s /\ op \in A)
    BY ONLY WaitsMore, W \in Commands, s \in Stack, op \in OpsOf(s),
            V = Asking(W, s, op)
  <2> QED BY <2>1, <2>2, <2>3
<1>1. ASSUME NEW t \in Stack, NEW A \in SUBSET Op
      PROVE  /\ PendingIn(w, q, <<>>, t, A) \in Nat
             /\ PendingIn(w, p, <<>>, t, A) =
                  PendingIn(w, q, <<>>, t, A) + One(t = s /\ op \in A)
             /\ CountIn(p, CleaningOf(t)) = CountIn(q, CleaningOf(t))
  <2>1. /\ CountIn(p, Asked(t, A)) = CountIn(q, Asked(t, A)) + One(m.from = t /\ m.op \in A)
        /\ CountIn(p, CleaningOf(t)) = CountIn(q, CleaningOf(t))
    BY ArbCounts
  <2>2. One(m.from = t /\ m.op \in A) = One(t = s /\ op \in A)
        /\ One(t = s /\ op \in A) \in Nat
    BY DEF One
  <2>3. /\ PendingIn(w, q, <<>>, t, A) \in Nat
        /\ PendingIn(w, q, <<>>, t, A) =
             CountIn(q, Asked(t, A)) + CountIn(w.arb.saved[t], Asked(t, A))
        /\ PendingIn(w, p, <<>>, t, A) =
             CountIn(p, Asked(t, A)) + CountIn(w.arb.saved[t], Asked(t, A))
        /\ CountIn(q, Asked(t, A)) \in Nat /\ CountIn(w.arb.saved[t], Asked(t, A)) \in Nat
    <3>1. p \in Seq(ArbMsg)
      BY <1>0
    <3>2. \A r \in Seq(ArbMsg) :
            /\ PendingIn(w, r, <<>>, t, A) \in Nat
            /\ PendingIn(w, r, <<>>, t, A) =
                 CountIn(r, Asked(t, A)) + CountIn(w.arb.saved[t], Asked(t, A))
            /\ CountIn(r, Asked(t, A)) \in Nat /\ CountIn(w.arb.saved[t], Asked(t, A)) \in Nat
      BY CountsNatural
    <3> QED BY <3>1, <3>2
  <2> QED BY <2>1, <2>2, <2>3
<1>2. \A t \in Stack, A \in SUBSET Op : StartedIn(w, t, A) \in Nat
  BY CountsNatural
<1>3. Accounted(w, p, <<>>, V)
  <2>1. ASSUME NEW t \in Stack, NEW A \in Family
        PROVE  CountIn(V[t], A) = PendingIn(w, p, <<>>, t, A) + StartedIn(w, t, A)
    <3>1. A \in SUBSET Op /\ One(t = s /\ op \in A) \in Nat
      BY FamilyIsOps DEF One
    <3>2. CountIn(W[t], A) = PendingIn(w, q, <<>>, t, A) + StartedIn(w, t, A)
      BY DEF Good, Accounted
    <3>3. /\ CountIn(W[t], A) \in Nat
          /\ CountIn(V[t], A) = CountIn(W[t], A) + One(t = s /\ op \in A)
      BY <1>0, <3>1
    <3>4. /\ PendingIn(w, q, <<>>, t, A) \in Nat
          /\ PendingIn(w, p, <<>>, t, A) =
               PendingIn(w, q, <<>>, t, A) + One(t = s /\ op \in A)
      BY <1>1, <3>1
    <3>5. StartedIn(w, t, A) \in Nat
      BY <1>2, <3>1
    <3> QED BY <3>1, <3>2, <3>3, <3>4, <3>5
  <2> QED BY <2>1 DEF Accounted
<1>4. ScanOp \in SUBSET Op /\ ScanOp \in Family /\ {"enable"} \in SUBSET Op
      /\ {"disable"} \in SUBSET Op
  BY DEF Family, ScanOp, Op
<1>5. op \in ScanOp => CountIn(W[s], ScanOp) = 0
  <2>1. W[s] \in Seq(Op)
    BY DEF Commands
  <2>2. HAVE op \in ScanOp
  <2>3. \A i \in DOMAIN W[s] : W[s][i] \notin ScanOp
    BY <2>2 DEF HostAsks
  <2>4. ASSUME NEW r, r = W[s]
        PROVE  CountIn(r, ScanOp) = 0
    <3>1. r \in Seq(Op) /\ \A i \in DOMAIN r : r[i] \notin ScanOp
      BY <2>1, <2>3, <2>4
    <3> QED BY ONLY <3>1, CountNothing
  <2> QED BY <2>4
<1>6. OneScanEach(V)
  <2>1. ASSUME NEW t \in Stack
        PROVE  CountIn(V[t], ScanOp) <= 1
    <3>1. CountIn(V[t], ScanOp) = CountIn(W[t], ScanOp) + One(t = s /\ op \in ScanOp)
          /\ CountIn(W[t], ScanOp) \in Nat /\ CountIn(W[t], ScanOp) <= 1
      BY <1>0, <1>4 DEF Good, OneScanEach
    <3> QED BY <1>5, <3>1 DEF One
  <2> QED BY <2>1 DEF OneScanEach
<1>7. Locks(w, p)
  <2>1. \A t \in Stack : Using(w, p, t) = Using(w, q, t)
    BY <1>1, <1>4 DEF Using
  <2> QED BY <2>1 DEF Good, Locks, Stack
<1>8. ASSUME "arbitrated" \notin w.seen
      PROVE  HostAgrees(w, p, <<>>, g)
  <2>0. HostAgrees(w, q, <<>>, h)
    BY <1>8 DEF Good
  <2>1. ASSUME NEW t \in Stack, NEW E, E = PendingIn(w, q, <<>>, t, {"enable"}),
               NEW D, D = PendingIn(w, q, <<>>, t, {"disable"}),
               NEW F, F = PendingIn(w, p, <<>>, t, {"enable"}),
               NEW G, G = PendingIn(w, p, <<>>, t, {"disable"})
        PROVE  /\ F + G <= 1
               /\ F > 0 => g[t] = "on" /\ ~ w.arb.scanEnabled[t]
               /\ G > 0 => g[t] # "on" /\ w.arb.scanEnabled[t]
               /\ F = 0 /\ G = 0 => (g[t] = "on" <=> w.arb.scanEnabled[t])
    <3>1. /\ E \in Nat /\ D \in Nat
          /\ F = E + One(t = s /\ op \in {"enable"}) /\ G = D + One(t = s /\ op \in {"disable"})
      BY <1>1, <1>4, <2>1
    <3>2. /\ E + D <= 1
          /\ E > 0 => h[t] = "on" /\ ~ w.arb.scanEnabled[t]
          /\ D > 0 => h[t] # "on" /\ w.arb.scanEnabled[t]
          /\ E = 0 /\ D = 0 => (h[t] = "on" <=> w.arb.scanEnabled[t])
      BY <2>0, <2>1 DEF HostAgrees
    <3>3. CASE t # s
      <4>1. F = E /\ G = D
        BY <3>1, <3>3 DEF One
      <4>2. g[t] = h[t]
        BY <3>3 DEF HostAsks
      <4> QED BY <3>2, <4>1, <4>2
    <3>4. CASE t = s /\ op \notin ScanOp
      <4>1. F = E /\ G = D
        BY <3>1, <3>4 DEF One, ScanOp
      <4>2. g[t] = h[t]
        BY <3>4 DEF HostAsks
      <4> QED BY <3>2, <4>1, <4>2
    <3>5. CASE t = s /\ op \in ScanOp
      <4>1. PendingIn(w, q, <<>>, t, ScanOp) = 0
        <5>1. CountIn(W[t], ScanOp) = PendingIn(w, q, <<>>, t, ScanOp) + StartedIn(w, t, ScanOp)
          BY <1>4 DEF Good, Accounted
        <5>2. PendingIn(w, q, <<>>, t, ScanOp) \in Nat /\ StartedIn(w, t, ScanOp) \in Nat
          BY <1>1, <1>2, <1>4
        <5> QED BY <1>5, <3>5, <5>1, <5>2
      <4>2. E <= PendingIn(w, q, <<>>, t, ScanOp) /\ D <= PendingIn(w, q, <<>>, t, ScanOp)
        <5>0. /\ q \in Seq(ArbMsg) /\ w.arb.saved[t] \in Seq(AnyRequest)
              /\ Asked(t, {"enable"}) \subseteq Asked(t, ScanOp)
              /\ Asked(t, {"disable"}) \subseteq Asked(t, ScanOp)
          BY DEF Works, WorkSet, ArbState, AnyRequest, Asked, ScanOp
        <5>1. /\ CountIn(q, Asked(t, {"enable"})) <= CountIn(q, Asked(t, ScanOp))
              /\ CountIn(q, Asked(t, {"disable"})) <= CountIn(q, Asked(t, ScanOp))
          BY <5>0, CountMonotone
        <5>2. ASSUME NEW r, r = w.arb.saved[t]
              PROVE  /\ CountIn(r, Asked(t, {"enable"})) <= CountIn(r, Asked(t, ScanOp))
                     /\ CountIn(r, Asked(t, {"disable"})) <= CountIn(r, Asked(t, ScanOp))
          <6>1. r \in Seq(AnyRequest)
            BY <5>0, <5>2
          <6> QED BY <5>0, <6>1, CountMonotone
        <5>3. \A A \in SUBSET Op :
                /\ PendingIn(w, q, <<>>, t, A) =
                     CountIn(q, Asked(t, A)) + CountIn(w.arb.saved[t], Asked(t, A))
                /\ CountIn(q, Asked(t, A)) \in Nat /\ CountIn(w.arb.saved[t], Asked(t, A)) \in Nat
          BY CountsNatural
        <5>4. /\ CountIn(w.arb.saved[t], Asked(t, {"enable"})) <=
                   CountIn(w.arb.saved[t], Asked(t, ScanOp))
              /\ CountIn(w.arb.saved[t], Asked(t, {"disable"})) <=
                   CountIn(w.arb.saved[t], Asked(t, ScanOp))
          BY <5>2
        <5> HIDE DEF One
        <5> QED BY <1>4, <2>1, <5>1, <5>3, <5>4
      <4>3. E = 0 /\ D = 0
        BY <3>1, <4>1, <4>2
      <4>4. h[t] = "on" <=> w.arb.scanEnabled[t]
        BY <3>2, <4>3
      <4>5. CASE op = "enable"
        <5>1. F = 1 /\ G = 0
          BY <3>1, <3>5, <4>3, <4>5 DEF One
        <5>2. h[t] = "set" /\ g[t] = "on"
          BY <3>5, <4>5 DEF HostAsks
        <5> QED BY <4>4, <5>1, <5>2
      <4>6. CASE op = "disable"
        <5>1. F = 0 /\ G = 1
          BY <3>1, <3>5, <4>3, <4>6 DEF One
        <5>2. h[t] = "on" /\ g[t] = "set"
          BY <3>5, <4>6 DEF HostAsks
        <5> QED BY <4>4, <5>1, <5>2
      <4>7. CASE op = "param"
        <5>1. F = 0 /\ G = 0
          BY <3>1, <3>5, <4>3, <4>7 DEF One
        <5>2. h[t] # "on" /\ g[t] = "set"
          BY <3>5, <4>7 DEF HostAsks
        <5> QED BY <4>4, <5>1, <5>2
      <4> QED BY <3>5, <4>5, <4>6, <4>7 DEF ScanOp
    <3> QED BY <3>3, <3>4, <3>5
  <2> QED BY <2>1 DEF HostAgrees
<1> QED BY <1>3, <1>6, <1>7, <1>8 DEF Good

-----------------------------------------------------------------------------
(* An answer reaches a stack.                                              *)

\* An event that the microstack takes answers a command of the microstack.
LEMMA MicroEvent ==
  ASSUME NEW w \in Works, NEW q \in Seq(ArbMsg), w.dmq # <<>>, NEW e, e = Head(w.dmq),
         Locks(w, q), w.arb.micro = "cmd", e.op \notin {"async", "peri"}
  PROVE  e.for = "micro" /\ e.op \in Op /\ e \in Event
<1>0. w \in WorkSet /\ w.dmq \in Seq(Event) /\ "primary" \in Stack /\ "spl" \in Who
      /\ Op \in SUBSET Op
  BY DEF Works, WorkSet, Stack, Who
<1>1. w.arb.primary = "unlock" /\ w.arb.count = 0 /\ ~ w.arb.spl
  BY DEF Locks
<1>2. Using(w, q, "primary") = 0
  <2>1. Using(w, q, "primary") \in Nat /\ Using(w, q, "primary") <= 0
    BY <1>0, <1>1, CountsNatural DEF Locks
  <2> QED BY <2>1
<1>3. SentIn(w, "spl", Op) = 0
  BY <1>1 DEF Locks, One
<1>4. \A i \in DOMAIN w.dmq : w.dmq[i].for # "primary"
  <2>1. ASSUME NEW s, s = "primary"
        PROVE  \A i \in DOMAIN w.dmq : w.dmq[i].for # s
    <3>1. s \in Stack /\ Using(w, q, s) = 0
      BY <1>0, <1>2, <2>1
    <3> QED BY <1>0, <3>1, NotUsing
  <2> QED BY <2>1
<1>5. \A i \in DOMAIN w.dmq : w.dmq[i].for = "spl" => w.dmq[i].op \notin Op
  <2>1. ASSUME NEW s, s = "spl"
        PROVE  \A i \in DOMAIN w.dmq : w.dmq[i].for = s => w.dmq[i].op \notin Op
    <3>1. s \in Who /\ SentIn(w, s, Op) = 0
      BY <1>0, <1>3, <2>1
    <3> QED BY <1>0, <3>1, NoneSent
  <2> QED BY <2>1
<1>6. e \in Event /\ \E j \in DOMAIN w.dmq : e = w.dmq[j]
  BY <1>0, TailElements
<1>7. e.op \in Op /\ e.for \in {"primary", "micro", "spl"}
  BY <1>6 DEF Event, Stack
<1> QED BY <1>4, <1>5, <1>6, <1>7

\* An event that the microstack does not take is the primary stack's.
LEMMA PrimaryEvent ==
  ASSUME NEW w \in Works, NEW q \in Seq(ArbMsg), w.dmq # <<>>, NEW e, e = Head(w.dmq),
         Locks(w, q), ~ (w.arb.spl /\ e.op \in ScanOp),
         w.arb.micro # "cmd" \/ e.op \in {"async", "peri"}, e.op # "async"
  PROVE  e.for = "primary" /\ e.op \in Op /\ e \in Event
<1>0. w \in WorkSet /\ w.dmq \in Seq(Event) /\ "micro" \in Stack /\ "spl" \in Who
      /\ Op \in SUBSET Op /\ w.arb.micro \in {"unlock", "cmd"}
  BY DEF Works, WorkSet, Stack, Who, ArbState
<1>1. e \in Event /\ \E j \in DOMAIN w.dmq : e = w.dmq[j]
  BY <1>0, TailElements
<1>2. e.op \in Op /\ e.for \in {"primary", "micro", "spl"} /\ e.op \in OpsOf(e.for)
  BY <1>1 DEF Event, Stack
<1>3. e.for # "spl"
  <2>1. SUFFICES ASSUME e.for = "spl" PROVE FALSE
    OBVIOUS
  <2>2. e.op \in ScanOp
    BY <1>2, <2>1 DEF OpsOf
  <2>3. SentIn(w, "spl", Op) = 0
    BY <2>2 DEF Locks, One
  <2>4. ASSUME NEW s, s = "spl"
        PROVE  \A i \in DOMAIN w.dmq : w.dmq[i].for = s => w.dmq[i].op \notin Op
    <3>1. s \in Who /\ SentIn(w, s, Op) = 0
      BY <1>0, <2>3, <2>4
    <3> QED BY <1>0, <3>1, NoneSent
  <2>5. \A i \in DOMAIN w.dmq : w.dmq[i].for = "spl" => w.dmq[i].op \notin Op
    BY <2>4
  <2> QED BY <1>1, <1>2, <2>1, <2>5
<1>4. e.for # "micro"
  <2>1. SUFFICES ASSUME e.for = "micro" PROVE FALSE
    OBVIOUS
  <2>2. e.op # "peri"
    BY <1>2, <2>1 DEF OpsOf
  <2>3. w.arb.micro = "unlock"
    BY <1>0, <2>2
  <2>4. Using(w, q, "micro") = 0
    BY <2>3 DEF Locks, One
  <2>5. ASSUME NEW s, s = "micro"
        PROVE  \A i \in DOMAIN w.dmq : w.dmq[i].for # s
    <3>1. s \in Stack /\ Using(w, q, s) = 0
      BY <1>0, <2>4, <2>5
    <3> QED BY <1>0, <3>1, NotUsing
  <2>6. \A i \in DOMAIN w.dmq : w.dmq[i].for # "micro"
    BY <2>5
  <2> QED BY <1>1, <2>1, <2>6
<1> QED BY <1>1, <1>2, <1>3, <1>4

\* The answer takes the first command with its opcode, if there is one.
LEMMA AnswerRemoves ==
  ASSUME NEW r \in Seq(Op), NEW op
  PROVE  \/ /\ Answer(r, op) = r
            /\ \A i \in DOMAIN r : Opcode(r[i]) # Opcode(op)
         \/ \E k \in 1 .. Len(r) : /\ Opcode(r[k]) = Opcode(op)
                                   /\ Answer(r, op) = RemoveAt(r, k)
<1> DEFINE match == {i \in DOMAIN r : Opcode(r[i]) = Opcode(op)}
<1>1. CASE match = {}
  BY <1>1 DEF Answer
<1>2. CASE match # {}
  <2> DEFINE k == CHOOSE i \in match : \A j \in match : i <= j
  <2>1. match \subseteq 1 .. Len(r)
    OBVIOUS
  <2>2. match \subseteq Nat
    BY <2>1
  <2>3. \E m \in match : \A j \in match : m <= j
    <3> HIDE DEF match
    <3> QED BY <1>2, <2>2, LeastNatural
  <2>4. k \in match
    <3> HIDE DEF match
    <3> QED BY <2>3
  <2>5. Answer(r, op) = RemoveAt(r, k)
    BY <1>2 DEF Answer
  <2> QED BY <2>1, <2>4, <2>5
<1> QED BY <1>1, <1>2

\* Operations with one opcode are in the same families.
LEMMA FamilyClosed ==
  ASSUME NEW x \in Op, NEW y \in Op, Opcode(x) = Opcode(y)
  PROVE  \A A \in Family : x \in A <=> y \in A
<1>1. x = y \/ (x \in {"enable", "disable"} /\ y \in {"enable", "disable"})
  BY DEF Opcode, Op
<1> QED BY <1>1 DEF Family, ScanOp, Op

\* Every operation has a family of its opcode.
LEMMA FamilyOf ==
  ASSUME NEW x \in Op
  PROVE  \E A \in Family : x \in A /\ \A y \in A : Opcode(y) = Opcode(x)
BY DEF Family, Opcode, Op

\* The stack that is answered waits for one command less.
Answered(W, s, op) == [W EXCEPT ![s] = Answer(@, op)]

\* A stack that has a command with the opcode is answered once.
LEMMA WaitsLess ==
  ASSUME NEW W \in Commands, NEW s \in Stack, NEW op \in Op \cup {"async"},
         NEW V, V = Answered(W, s, op)
  PROVE  /\ V \in Commands
         /\ Len(V[s]) <= Len(W[s]) /\ \A t \in Stack : t # s => V[t] = W[t]
         /\ \A t \in Stack, A \in SUBSET Op : CountIn(W[t], A) \in Nat
         /\ op \notin Op => V = W
         /\ op \in Op /\ (\E A \in Family : /\ op \in A /\ CountIn(W[s], A) > 0
                                            /\ \A y \in A : Opcode(y) = Opcode(op)) =>
              \A t \in Stack, A \in Family :
                /\ CountIn(V[t], A) \in Nat
                /\ CountIn(W[t], A) = CountIn(V[t], A) + One(t = s /\ op \in A)
<1>0. /\ \A t \in Stack : OpsOf(t) \subseteq Op /\ W[t] \in Seq(Op)
      /\ W[s] \in Seq(OpsOf(s))
  BY DEF Commands, OpsOf, Op, ScanOp, Stack
<1>1. V[s] = Answer(W[s], op) /\ \A t \in Stack : t # s => V[t] = W[t]
  BY DEF Commands, Answered
<1>2. ASSUME NEW r, r = W[s], NEW a, a = Answer(r, op)
      PROVE  /\ a \in Seq(Op) /\ a \in Seq(OpsOf(s)) /\ Len(a) <= Len(r)
             /\ op \notin Op => a = r
             /\ op \in Op /\ (\E A \in Family : /\ op \in A /\ CountIn(r, A) > 0
                                                /\ \A y \in A : Opcode(y) = Opcode(op)) =>
                  \A A \in Family : /\ CountIn(a, A) \in Nat
                                    /\ CountIn(r, A) = CountIn(a, A) + One(op \in A)
  <2>0. r \in Seq(Op) /\ r \in Seq(OpsOf(s))
    BY <1>0, <1>2
  <2>1. CASE a = r /\ \A i \in DOMAIN r : Opcode(r[i]) # Opcode(op)
    <3>1. ASSUME op \in Op, NEW A \in Family, op \in A, CountIn(r, A) > 0,
                 \A y \in A : Opcode(y) = Opcode(op)
          PROVE  FALSE
      <4>1. \A i \in DOMAIN r : r[i] \notin A
        BY <2>1, <3>1
      <4>2. CountIn(r, A) = 0
        BY <2>0, <4>1, CountNothing
      <4> QED BY <3>1, <4>2
    <3>2. Len(a) <= Len(r)
      BY <2>0, <2>1
    <3> QED BY <2>0, <2>1, <3>1, <3>2
  <2>2. CASE \E k \in 1 .. Len(r) : Opcode(r[k]) = Opcode(op) /\ a = RemoveAt(r, k)
    <3>1. PICK k \in 1 .. Len(r) : Opcode(r[k]) = Opcode(op) /\ a = RemoveAt(r, k)
      BY <2>2
    <3>2. r[k] \in Op
      BY <2>0
    <3>3. a \in Seq(Op) /\ a \in Seq(OpsOf(s)) /\ Len(a) = Len(r) - 1
      BY <2>0, <3>1, RemoveAtTyped
    <3>4. Len(a) <= Len(r)
      BY <2>0, <3>3
    <3>5. op \in Op
      BY <3>1, <3>2 DEF Opcode, Op
    <3>6. ASSUME NEW A \in Family
          PROVE  /\ CountIn(a, A) \in Nat
                 /\ CountIn(r, A) = CountIn(a, A) + One(op \in A)
      <4>1. CountIn(r, A) = CountIn(a, A) + One(r[k] \in A)
        BY <2>0, <3>1, CountRemove
      <4>2. r[k] \in A <=> op \in A
        BY <3>1, <3>2, <3>5, FamilyClosed
      <4>3. CountIn(a, A) \in Nat
        BY <3>3, PlacesFinite
      <4> QED BY <4>1, <4>2, <4>3 DEF One
    <3> QED BY <3>3, <3>4, <3>5, <3>6
  <2>3. \/ /\ Answer(r, op) = r
           /\ \A i \in DOMAIN r : Opcode(r[i]) # Opcode(op)
        \/ \E k \in 1 .. Len(r) : /\ Opcode(r[k]) = Opcode(op)
                                  /\ Answer(r, op) = RemoveAt(r, k)
    BY <2>0, AnswerRemoves
  <2> QED BY <1>2, <2>1, <2>2, <2>3
<1>3. V \in Commands
  <2>1. Answer(W[s], op) \in Seq(Op) /\ Answer(W[s], op) \in Seq(OpsOf(s))
    BY <1>2
  <2> QED BY <1>1, <2>1 DEF Commands, Answered
<1>4. \A t \in Stack, A \in SUBSET Op : CountIn(W[t], A) \in Nat
  BY <1>0, PlacesFinite
<1>5. op \notin Op => V = W
  <2>1. op \notin Op => Answer(W[s], op) = W[s]
    BY <1>2
  <2> QED BY <2>1 DEF Commands, Answered
<1>6. ASSUME op \in Op, NEW B \in Family, op \in B, CountIn(W[s], B) > 0,
             \A y \in B : Opcode(y) = Opcode(op), NEW t \in Stack, NEW A \in Family
      PROVE  /\ CountIn(V[t], A) \in Nat
             /\ CountIn(W[t], A) = CountIn(V[t], A) + One(t = s /\ op \in A)
  <2>1. CASE t = s
    <3>1. ASSUME NEW r, r = W[s], NEW a, a = Answer(r, op)
          PROVE  CountIn(a, A) \in Nat /\ CountIn(r, A) = CountIn(a, A) + One(op \in A)
      <4>1. CountIn(r, B) > 0
        BY <1>6, <3>1
      <4> QED BY <1>2, <1>6, <3>1, <4>1
    <3>2. One(t = s /\ op \in A) = One(op \in A)
      BY <2>1 DEF One
    <3> QED BY <1>1, <2>1, <3>1, <3>2
  <2>2. CASE t # s
    <3>1. One(t = s /\ op \in A) = 0
      BY <2>2 DEF One
    <3>2. V[t] = W[t] /\ CountIn(W[t], A) \in Nat
      BY <1>1, <1>4, <2>2, FamilyIsOps
    <3> QED BY <3>1, <3>2
  <2> QED BY <2>1, <2>2
<1>7. Len(V[s]) <= Len(W[s])
  BY <1>1, <1>2
<1> QED BY <1>1, <1>3, <1>4, <1>5, <1>6, <1>7

\* A house cleaning is no command.
LEMMA CleaningCounts ==
  ASSUME NEW q \in Seq(ArbMsg), NEW c \in Cleaning, NEW p, p = Append(q, c),
         NEW t \in Stack
  PROVE  /\ \A A \in SUBSET Op : CountIn(p, Asked(t, A)) = CountIn(q, Asked(t, A))
         /\ CountIn(p, CleaningOf(t)) = CountIn(q, CleaningOf(t)) + One(c.from = t)
         /\ p # q
<1>1. ASSUME NEW A \in SUBSET Op
      PROVE  /\ CountIn(p, Asked(t, A)) = CountIn(q, Asked(t, A))
             /\ CountIn(p, CleaningOf(t)) = CountIn(q, CleaningOf(t)) + One(c.from = t)
  BY ArbCounts
<1>2. Len(p) = Len(q) + 1 /\ Len(q) \in Nat
  <2>1. c \in ArbMsg
    BY DEF ArbMsg
  <2> QED BY <2>1
<1>3. Op \in SUBSET Op
  OBVIOUS
<1> QED BY <1>1, <1>2, <1>3

\* The house cleaning for the lock that a command took, unless the primary stack
\* has none.
Cleans(w, s, q, c, p) ==
  p = Append(q, c) \/ (p = q /\ s = "primary" /\ w.arb.primary # "cmd")

\* The answer that a stack waits for is taken from its queue and the stack's, and
\* sends a house cleaning for the lock of a command.
LEMMA AnsweredGood ==
  ASSUME NEW w \in Works, NEW v \in Works, NEW q \in Seq(ArbMsg), NEW p \in Seq(ArbMsg),
         NEW s \in Stack, w.dmq # <<>>, NEW e \in Event, e = Head(w.dmq), e.for = s, e.op \in Op,
         v.arb = w.arb, v.seen = w.seen, v.ctrl = w.ctrl, v.dmq = Tail(w.dmq),
         NEW c \in Cleaning, c.from = s,
         Cleans(w, s, q, c, p),
         NEW W \in Commands, NEW op, op = e.op, NEW V, V = Answered(W, s, op),
         NEW h, NEW sc, Good(w, q, <<>>, W, h, sc)
  PROVE  Good(v, p, <<>>, V, h, sc)
<1>0. /\ w \in WorkSet /\ w.dmq \in Seq(Event) /\ Stack \subseteq Who /\ Op \in SUBSET Op
      /\ "spl" \in Who /\ s # "spl"
  BY DEF Works, WorkSet, Who, Stack
<1>1. ASSUME NEW t \in Who, NEW A \in SUBSET Op
      PROVE  /\ SentIn(v, t, A) \in Nat
             /\ SentIn(w, t, A) = SentIn(v, t, A) + One(t = s /\ op \in A)
  <2>1. CountIn(w.dmq, Told(t, A)) = CountIn(v.dmq, Told(t, A)) + One(e.for = t /\ e.op \in A)
        /\ CountIn(v.dmq, Told(t, A)) \in Nat
    <3>1. v.dmq \in Seq(Event)
      BY <1>0, TailElements
    <3>2. \A r \in Seq(Event) :
            /\ CountIn(r, Told(t, A)) \in Nat
            /\ r # <<>> => CountIn(r, Told(t, A)) =
                 CountIn(Tail(r), Told(t, A)) + One(Head(r).for = t /\ Head(r).op \in A)
      BY EventCounts
    <3> QED BY <1>0, <3>1, <3>2
  <2>2. One(e.for = t /\ e.op \in A) = One(t = s /\ op \in A)
        /\ One(t = s /\ op \in A) \in Nat
    BY DEF One
  <2>3. CountIn(w.ctrl, Sent(t, A)) \in Nat
    BY <1>0, CtrlCounts DEF WorkSet
  <2> QED BY <2>1, <2>2, <2>3 DEF SentIn
<1>2. ASSUME NEW t \in Stack, NEW A \in SUBSET Op
      PROVE  /\ StartedIn(v, t, A) \in Nat
             /\ StartedIn(w, t, A) = StartedIn(v, t, A) + One(t = s /\ op \in A)
  <2>1. HeldIn(v.arb, t, A) = HeldIn(w.arb, t, A) /\ HeldIn(w.arb, t, A) \in Nat
    BY DEF HeldIn, One
  <2>2. One(t = s /\ op \in A) \in Nat
    BY DEF One
  <2>3. /\ SentIn(v, t, A) \in Nat
        /\ SentIn(w, t, A) = SentIn(v, t, A) + One(t = s /\ op \in A)
    BY <1>0, <1>1
  <2> QED BY <2>1, <2>2, <2>3 DEF StartedIn
<1>3. ASSUME NEW t \in Stack, NEW A \in SUBSET Op
      PROVE  PendingIn(v, p, <<>>, t, A) = PendingIn(w, q, <<>>, t, A)
             /\ PendingIn(w, q, <<>>, t, A) \in Nat
  <2>1. CountIn(p, Asked(t, A)) = CountIn(q, Asked(t, A))
    BY CleaningCounts DEF Cleans
  <2>2. PendingIn(w, q, <<>>, t, A) \in Nat
    BY CountsNatural
  <2> QED BY <2>1, <2>2 DEF PendingIn
<1>4. \A t \in Stack, A \in Family :
        /\ CountIn(V[t], A) \in Nat
        /\ CountIn(W[t], A) = CountIn(V[t], A) + One(t = s /\ op \in A)
  <2>1. PICK A \in Family : op \in A /\ \A y \in A : Opcode(y) = Opcode(op)
    BY FamilyOf
  <2>2. CountIn(W[s], A) > 0
    <3>1. A \in SUBSET Op /\ One(s = s /\ op \in A) = 1
      BY <2>1, FamilyIsOps DEF One
    <3>2. CountIn(W[s], A) = PendingIn(w, q, <<>>, s, A) + StartedIn(w, s, A)
      BY <2>1 DEF Good, Accounted
    <3>3. /\ StartedIn(v, s, A) \in Nat
          /\ StartedIn(w, s, A) = StartedIn(v, s, A) + One(s = s /\ op \in A)
      BY <1>2, <3>1
    <3>4. PendingIn(w, q, <<>>, s, A) \in Nat
      BY <1>3, <3>1
    <3> QED BY <3>1, <3>2, <3>3, <3>4
  <2>3. op \in Op /\ op \in Op \cup {"async"}
    OBVIOUS
  <2> QED BY <2>1, <2>2, <2>3, WaitsLess
<1>5. Accounted(v, p, <<>>, V)
  <2>1. ASSUME NEW t \in Stack, NEW A \in Family
        PROVE  CountIn(V[t], A) = PendingIn(v, p, <<>>, t, A) + StartedIn(v, t, A)
    <3>1. A \in SUBSET Op /\ One(t = s /\ op \in A) \in Nat
      BY FamilyIsOps DEF One
    <3>2. CountIn(W[t], A) = PendingIn(w, q, <<>>, t, A) + StartedIn(w, t, A)
      BY DEF Good, Accounted
    <3>3. /\ CountIn(V[t], A) \in Nat
          /\ CountIn(W[t], A) = CountIn(V[t], A) + One(t = s /\ op \in A)
      BY <1>4
    <3>4. StartedIn(v, t, A) \in Nat
      BY <1>2, <3>1
    <3>6. StartedIn(w, t, A) = StartedIn(v, t, A) + One(t = s /\ op \in A)
      BY <1>2, <3>1
    <3>5. PendingIn(v, p, <<>>, t, A) = PendingIn(w, q, <<>>, t, A)
          /\ PendingIn(w, q, <<>>, t, A) \in Nat
      BY <1>3, <3>1
    <3>7. ASSUME NEW o, o = One(t = s /\ op \in A)
          PROVE  CountIn(V[t], A) = PendingIn(v, p, <<>>, t, A) + StartedIn(v, t, A)
      <4>1. /\ o \in Nat /\ CountIn(W[t], A) = CountIn(V[t], A) + o
            /\ StartedIn(w, t, A) = StartedIn(v, t, A) + o
        BY <3>1, <3>3, <3>6, <3>7
      <4> QED BY ONLY SMTT(30), <4>1, <3>2, <3>3, <3>4, <3>5
    <3> QED BY <3>7
  <2> QED BY <2>1 DEF Accounted
<1>6. OneScanEach(V)
  <2>1. ASSUME NEW t \in Stack
        PROVE  CountIn(V[t], ScanOp) <= 1
    <3>1. ScanOp \in Family /\ One(t = s /\ op \in ScanOp) \in Nat
      BY DEF Family, One
    <3>2. /\ CountIn(V[t], ScanOp) \in Nat
          /\ CountIn(W[t], ScanOp) = CountIn(V[t], ScanOp) + One(t = s /\ op \in ScanOp)
      BY <1>4, <3>1
    <3>3. CountIn(W[t], ScanOp) <= 1
      BY DEF Good, OneScanEach
    <3> QED BY <3>1, <3>2, <3>3
  <2> QED BY <2>1 DEF OneScanEach
<1>7. Locks(v, p)
  <2>1. ASSUME NEW t \in Stack
        PROVE  /\ Using(v, p, t) \in Nat
               /\ Using(w, q, t) =
                    Using(v, p, t) + One(t = s /\ p = q /\ s = "primary" /\ w.arb.primary # "cmd")
    <3>1. /\ StartedIn(v, t, Op) \in Nat
          /\ StartedIn(w, t, Op) = StartedIn(v, t, Op) + One(t = s /\ op \in Op)
      BY <1>0, <1>2
    <3>2. CountIn(q, CleaningOf(t)) \in Nat
      BY <1>0, ArbCounts
    <3>5. \/ CountIn(p, CleaningOf(t)) = CountIn(q, CleaningOf(t)) + One(c.from = t) /\ p # q
          \/ p = q /\ s = "primary" /\ w.arb.primary # "cmd"
      BY CleaningCounts DEF Cleans
    <3>3. CASE p # q
      <4>1. CountIn(p, CleaningOf(t)) = CountIn(q, CleaningOf(t)) + One(c.from = t) /\ p # q
        BY <3>3, <3>5
      <4>2. One(c.from = t) = One(t = s /\ op \in Op) /\ One(c.from = t) \in Nat
        BY DEF One
      <4>4. One(t = s /\ p = q /\ s = "primary" /\ w.arb.primary # "cmd") = 0
        BY <4>1 DEF One
      <4> QED BY <3>1, <3>2, <4>1, <4>2, <4>4 DEF Using
    <3>4. CASE p = q
      <4>1. One(t = s /\ p = q /\ s = "primary" /\ w.arb.primary # "cmd")
              = One(t = s /\ op \in Op)
            /\ One(t = s /\ op \in Op) \in Nat
        BY <3>4, <3>5 DEF One
      <4>2. CountIn(p, CleaningOf(t)) = CountIn(q, CleaningOf(t))
        BY <3>4
      <4> QED BY ONLY <3>1, <3>2, <4>1, <4>2 DEF Using
    <3> QED BY <3>3, <3>4
  <2>2. Locks(w, q)
    BY DEF Good
  <2>3. Using(v, p, "micro") = Using(w, q, "micro")
    <3>1. "micro" \in Stack /\
          One("micro" = s /\ p = q /\ s = "primary" /\ w.arb.primary # "cmd") = 0
      BY DEF Stack, One
    <3>2. /\ Using(v, p, "micro") \in Nat
          /\ Using(w, q, "micro") = Using(v, p, "micro") +
               One("micro" = s /\ p = q /\ s = "primary" /\ w.arb.primary # "cmd")
      BY <2>1, <3>1
    <3> QED BY <3>1, <3>2
  <2>4. /\ Using(v, p, "primary") <= w.arb.count
        /\ "peri" \notin w.seen => w.arb.count = Using(v, p, "primary")
    <3>1. "primary" \in Stack /\ w.arb.count \in Nat /\ w.arb.primary \in {"unlock", "cmd", "peri"}
      <4>1. w.arb \in ArbState
        BY <1>0 DEF WorkSet
      <4>2. w.arb.count \in 0 .. 255 /\ w.arb.primary \in {"unlock", "cmd", "peri"}
        BY <4>1 DEF ArbState
      <4> QED BY ONLY <4>2, ByteIsNatural DEF Stack
    <3>2. /\ Using(v, p, "primary") \in Nat
          /\ Using(w, q, "primary") = Using(v, p, "primary") +
               One("primary" = s /\ p = q /\ s = "primary" /\ w.arb.primary # "cmd")
      BY <2>1, <3>1
    <3>3. CASE p = q /\ s = "primary" /\ w.arb.primary # "cmd"
      <4>1. Using(w, q, "primary") = Using(v, p, "primary") + 1
        BY <3>2, <3>3 DEF One
      <4>2. "peri" \in w.seen
        <5>1. SUFFICES ASSUME "peri" \notin w.seen PROVE FALSE
          OBVIOUS
        <5>2. w.arb.primary = "unlock" /\ w.arb.count = Using(w, q, "primary") /\ w.arb.count = 0
          BY <2>2, <3>1, <3>3, <5>1 DEF Locks
        <5> QED BY <3>2, <4>1, <5>2
      <4> QED BY <2>2, <3>1, <3>2, <4>1, <4>2 DEF Locks
    <3>4. CASE ~ (p = q /\ s = "primary" /\ w.arb.primary # "cmd")
      <4>1. Using(w, q, "primary") = Using(v, p, "primary")
        BY <3>2, <3>4 DEF One
      <4> QED BY <2>2, <4>1 DEF Locks
    <3> QED BY <3>3, <3>4
  <2>5. SentIn(v, "spl", Op) = SentIn(w, "spl", Op)
    <3>1. One("spl" = s /\ op \in Op) = 0
      BY <1>0 DEF One
    <3>2. /\ SentIn(v, "spl", Op) \in Nat
          /\ SentIn(w, "spl", Op) = SentIn(v, "spl", Op) + One("spl" = s /\ op \in Op)
      BY <1>0, <1>1
    <3> QED BY <3>1, <3>2
  <2> QED BY <2>2, <2>3, <2>4, <2>5 DEF Locks
<1>8. SplServed(v, sc)
  <2>1. \A i \in DOMAIN v.dmq : \E j \in DOMAIN w.dmq : v.dmq[i] = w.dmq[j]
    BY <1>0, TailElements
  <2> QED BY <2>1 DEF Good, SplServed
<1>9. ASSUME "arbitrated" \notin v.seen
      PROVE  HostAgrees(v, p, <<>>, h) /\ ScanAgrees(v, sc)
  <2>1. {"enable"} \in SUBSET Op /\ {"disable"} \in SUBSET Op
    BY DEF Op
  <2>2. \A t \in Stack :
          /\ PendingIn(v, p, <<>>, t, {"enable"}) = PendingIn(w, q, <<>>, t, {"enable"})
          /\ PendingIn(v, p, <<>>, t, {"disable"}) = PendingIn(w, q, <<>>, t, {"disable"})
    BY <1>3, <2>1
  <2>3. HostAgrees(w, q, <<>>, h) /\ ScanAgrees(w, sc)
    BY <1>9 DEF Good
  <2> QED BY <2>2, <2>3 DEF HostAgrees, ScanAgrees
<1> QED BY <1>5, <1>6, <1>7, <1>8, <1>9 DEF Good

-----------------------------------------------------------------------------
(* The inductive invariant, of the arbiter's state w, its queue q, what the *)
(* stacks wait for, W, what their scans are, h, and whether the controller  *)
(* scans, sc.                                                               *)

InvOf(w, q, W, h, sc) ==
  /\ w \in Works /\ q \in Seq(ArbMsg) /\ W \in Commands
  /\ h \in [Stack -> {"idle", "set", "on"}] /\ sc \in BOOLEAN
  /\ Len(W["primary"]) >= 2 => "pipelined" \in w.seen
  /\ CalmIn(w) => /\ Good(w, q, <<>>, W, h, sc) /\ Behind(w)
                  /\ "hung" \in w.seen => "pipelined" \in w.seen

WorkOf(a, c, d, s) == [arb |-> a, ctrl |-> c, dmq |-> d, seen |-> s]

\* The same locks and saved commands with other queues.
LEMMA WorkTyped ==
  ASSUME NEW w \in Works, NEW c \in Seq(Command), NEW d \in Seq(Event), NEW s \in SUBSET Unusual,
         NEW v, v = WorkOf(w.arb, c, d, s)
  PROVE  v \in Works /\ v.arb = w.arb /\ v.ctrl = c /\ v.dmq = d /\ v.seen = s
BY DEF Works, WorkSet, WorkOf

\* The arbiter's state is made of its four parts.
LEMMA WorkParts ==
  ASSUME NEW w \in Works
  PROVE  /\ w = WorkOf(w.arb, w.ctrl, w.dmq, w.seen)
         /\ w.ctrl \in Seq(Command) /\ w.dmq \in Seq(Event) /\ w.seen \in SUBSET Unusual
BY DEF Works, WorkSet, WorkOf

\* The saved commands wait behind the same locks.
LEMMA BehindFrom ==
  ASSUME NEW w, NEW v, v.arb.saved = w.arb.saved, v.arb.micro = w.arb.micro,
         v.arb.primary = w.arb.primary, "arbitrated" \in v.seen <=> "arbitrated" \in w.seen,
         Behind(w)
  PROVE  Behind(v)
BY DEF Behind, BehindLock

\* The arbiter's task: it spins only when the primary stack has a command under
\* arbitration and another one saved.
LEMMA HandlerInv ==
  ASSUME NEW w, NEW q, NEW W, NEW h, NEW sc, InvOf(w, q, W, h, sc), "hung" \notin w.seen,
         q # <<>>, NEW m, m = Head(q), NEW v, v = hci_cmd_arb_iface_msg_handler(m, w)
  PROVE  InvOf(v, Tail(q), W, h, sc)
<1>0. /\ w \in Works /\ q \in Seq(ArbMsg) /\ W \in Commands
      /\ CalmIn(w) => Good(w, q, <<>>, W, h, sc) /\ Behind(w)
  BY DEF InvOf
<1>1. /\ v \in Works /\ w.seen \subseteq v.seen
      /\ CalmIn(v) => /\ CalmIn(w) /\ Good(v, Tail(q), <<>>, W, h, sc) /\ Behind(v)
                      /\ "hung" \in v.seen => v.arb.spl /\ v.arb.saved["primary"] # <<>>
  BY <1>0, HandlerGood
<1>2. Tail(q) \in Seq(ArbMsg)
  BY <1>0, TailElements
<1>3. ASSUME CalmIn(v), "hung" \in v.seen, NEW p, p = Tail(q), NEW s, s = "primary"
      PROVE  Len(W["primary"]) >= 2
  <2>0. s \in Stack /\ Op \in SUBSET Op /\ Op \in Family /\ p \in Seq(ArbMsg)
    BY <1>2, <1>3 DEF Stack, Family
  <2>1. /\ Good(v, p, <<>>, W, h, sc) /\ v.arb.spl /\ v.arb.saved[s] # <<>>
    BY <1>1, <1>3
  <2>2. StartedIn(v, s, Op) > 0
    BY <1>1, <1>3, <2>0, <2>1, SplLocksPrimary DEF Good, Works
  <2>3. CountIn(v.arb.saved[s], Asked(s, Op)) > 0
    <3>1. ASSUME NEW r, r = v.arb.saved[s]
          PROVE  CountIn(r, Asked(s, Op)) > 0
      <4>1. r \in Seq(Request(s)) /\ Request(s) = Asked(s, Op)
        BY <1>1, <1>3, <2>0, <3>1 DEF Works, Request, Asked, OpsOf
      <4>2. CountIn(r, Asked(s, Op)) = Len(r)
        BY <4>1, CountEverything
      <4>3. Len(r) > 0
        BY <2>1, <3>1, <4>1
      <4> QED BY <4>2, <4>3
    <3> QED BY <3>1
  <2>4. CountIn(W[s], Op) = PendingIn(v, p, <<>>, s, Op) + StartedIn(v, s, Op)
    BY <2>0, <2>1 DEF Good, Accounted
  <2>5. /\ PendingIn(v, p, <<>>, s, Op) =
             CountIn(p, Asked(s, Op)) + CountIn(v.arb.saved[s], Asked(s, Op))
        /\ CountIn(p, Asked(s, Op)) \in Nat /\ CountIn(v.arb.saved[s], Asked(s, Op)) \in Nat
        /\ StartedIn(v, s, Op) \in Nat
    BY <1>1, <2>0, CountsNatural
  <2>6. CountIn(W[s], Op) >= 2
    BY <2>2, <2>3, <2>4, <2>5
  <2>7. ASSUME NEW r, r = W[s]
        PROVE  Len(r) = CountIn(r, Op)
    <3>1. r \in Seq(Op)
      BY <1>0, <2>0, <2>7 DEF Commands
    <3> QED BY <3>1, CountEverything
  <2>8. Len(W[s]) >= 2
    BY <2>6, <2>7
  <2> QED BY <1>3, <2>8
<1>4. CalmIn(v) => ("hung" \in v.seen => "pipelined" \in v.seen)
  BY <1>1, <1>3 DEF InvOf
<1> QED BY <1>1, <1>2, <1>4 DEF InvOf

\* The command m of s is issued: a second one under way of the primary stack is seen.
Issued(w, q, W, h, s, op, m, v, n, p, V, g) ==
  /\ V = Asking(W, s, op)
  /\ m \in AnyRequest /\ m.from = s /\ m.op = op /\ p = Append(q, m)
  /\ g \in [Stack -> {"idle", "set", "on"}] /\ HostAsks(W, s, op, h, g)
  /\ n = w.seen \/ n = w.seen \cup {"pipelined"}
  /\ s = "primary" /\ W[s] # <<>> => "pipelined" \in n
  /\ v = WorkOf(w.arb, w.ctrl, w.dmq, n)

\* A host's command keeps the invariant.
LEMMA IssueInv ==
  ASSUME NEW w, NEW q, NEW W, NEW h, NEW sc, InvOf(w, q, W, h, sc),
         NEW s \in Stack, NEW op \in OpsOf(s),
         NEW m, NEW v, NEW n, NEW p, NEW V, NEW g, Issued(w, q, W, h, s, op, m, v, n, p, V, g)
  PROVE  InvOf(v, p, V, g, sc)
<1>00. /\ V = Asking(W, s, op) /\ m \in AnyRequest /\ m.from = s /\ m.op = op
       /\ p = Append(q, m) /\ HostAsks(W, s, op, h, g)
       /\ g \in [Stack -> {"idle", "set", "on"}]
       /\ n = w.seen \/ n = w.seen \cup {"pipelined"}
       /\ s = "primary" /\ W[s] # <<>> => "pipelined" \in n
       /\ v = WorkOf(w.arb, w.ctrl, w.dmq, n)
  BY DEF Issued
<1>0. /\ w \in Works /\ q \in Seq(ArbMsg) /\ W \in Commands /\ sc \in BOOLEAN
      /\ CalmIn(w) => Good(w, q, <<>>, W, h, sc) /\ Behind(w)
      /\ w.ctrl \in Seq(Command) /\ w.dmq \in Seq(Event) /\ w.seen \in SUBSET Unusual
      /\ w.seen \cup {"pipelined"} \in SUBSET Unusual
  BY WorkParts DEF InvOf, Unusual
<1>1. /\ v \in Works /\ v.arb = w.arb /\ v.ctrl = w.ctrl /\ v.dmq = w.dmq
      /\ v.seen = n
  <2>1. n \in SUBSET Unusual
    BY <1>00, <1>0
  <2> QED BY <1>00, <1>0, <2>1 DEF Works, WorkSet, WorkOf
<1>2. p \in Seq(ArbMsg)
  <2>1. m \in ArbMsg
    BY <1>00 DEF ArbMsg
  <2> QED BY <1>00, <1>0, <2>1
<1>3. V \in Commands
  BY <1>00, <1>0, WaitsMore
<1>4. Len(V["primary"]) >= 2 => "pipelined" \in v.seen
  <2>1. CASE s = "primary"
    <3>1. ASSUME NEW r, r = W[s]
          PROVE  Len(Append(r, op)) >= 2 => r # <<>>
      <4>1. r \in Seq(Op) /\ op \in Op
        BY <1>00, <1>0, <3>1 DEF Commands, OpsOf, Op, ScanOp
      <4> QED BY <4>1
    <3>2. V["primary"] = Append(W[s], op)
      BY <1>00, <1>0, <2>1 DEF Asking, Commands
    <3>3. Len(Append(W[s], op)) >= 2 => W[s] # <<>>
      BY <3>1
    <3> QED BY <1>00, <1>1, <2>1, <3>2, <3>3
  <2>2. CASE s # "primary"
    <3>1. V["primary"] = W["primary"]
      BY <1>00, <1>0, <2>2 DEF Asking, Commands, Stack
    <3> QED BY <1>00, <1>1, <3>1 DEF InvOf
  <2> QED BY <2>1, <2>2
<1>5. CalmIn(v) => CalmIn(w)
  BY <1>00, <1>1 DEF CalmIn
<1>6. ASSUME CalmIn(w)
      PROVE  Good(v, p, <<>>, V, g, sc) /\ Behind(v)
  <2>1. Good(w, p, <<>>, V, g, sc)
    BY <1>00, <1>0, <1>6, IssueGood
  <2>2. "arbitrated" \in v.seen <=> "arbitrated" \in w.seen
    BY <1>00, <1>1
  <2>3. "peri" \in v.seen <=> "peri" \in w.seen
    BY <1>00, <1>1
  <2>4. Behind(v)
    BY <1>00, <1>0, <1>1, <1>6, <2>2, BehindFrom
  <2>5. SameScans(w, v) /\ SamePending(w, p, <<>>, v, p, <<>>)
    BY <1>00, <1>1, <2>2 DEF SameScans, SamePending, PendingIn
  <2>6. Locks(v, p)
    <3>1. w \in WorkSet /\ v \in WorkSet
      BY <1>00, <1>0, <1>1 DEF Works
    <3>2. SameLocks(w.arb, v.arb) /\ Locks(w, p)
      BY <1>00, <1>1, <2>1 DEF SameLocks, Good
    <3> QED BY <1>00, <1>1, <2>2, <2>3, <3>1, <3>2, LocksFrom
  <2> QED BY <2>1, <2>4, <2>5, <2>6, GoodFrom
<1>7. CalmIn(v) => ("hung" \in v.seen => "pipelined" \in v.seen)
  BY <1>00, <1>1, <1>5 DEF InvOf
<1> QED BY <1>00, <1>0, <1>1, <1>2, <1>3, <1>4, <1>5, <1>6, <1>7 DEF InvOf

\* The controller completes a command.
LEMMA ControllerInv ==
  ASSUME NEW w, NEW q, NEW W, NEW h, NEW sc, InvOf(w, q, W, h, sc),
         NEW i \in DOMAIN w.ctrl, NEW c, c = w.ctrl[i], NEW ok \in BOOLEAN,
         ok \/ (c.op = "param" /\ sc), NEW e, e = [op |-> c.op, for |-> c.for, ok |-> ok],
         NEW v, v = WorkOf(w.arb, RemoveAt(w.ctrl, i), Append(w.dmq, e), w.seen),
         NEW sd, sd = ScanAfter(c.op, sc)
  PROVE  InvOf(v, q, W, h, sd)
<1>0. /\ w \in Works /\ q \in Seq(ArbMsg) /\ W \in Commands /\ sc \in BOOLEAN
      /\ CalmIn(w) => Good(w, q, <<>>, W, h, sc) /\ Behind(w)
      /\ w.ctrl \in Seq(Command) /\ w.dmq \in Seq(Event) /\ w.seen \in SUBSET Unusual
  BY WorkParts DEF InvOf
<1>1. c \in Command /\ RemoveAt(w.ctrl, i) \in Seq(Command)
  BY <1>0, RemovedAt
<1>2. e \in Event /\ e.op = c.op /\ e.for = c.for /\ e.ok = ok
  BY <1>1 DEF Command, Event
<1>3. Append(w.dmq, e) \in Seq(Event)
  BY <1>0, <1>2
<1>4. /\ v \in Works /\ v.arb = w.arb /\ v.ctrl = RemoveAt(w.ctrl, i)
      /\ v.dmq = Append(w.dmq, e) /\ v.seen = w.seen
  BY <1>0, <1>1, <1>3 DEF Works, WorkSet, WorkOf
<1>5. sd \in BOOLEAN
  BY <1>0 DEF ScanAfter
<1>6. CalmIn(v) => CalmIn(w)
  BY <1>4 DEF CalmIn
<1>7. ASSUME CalmIn(w)
      PROVE  Good(v, q, <<>>, W, h, sd) /\ Behind(v)
  <2>1. Good(v, q, <<>>, W, h, sd)
    <3>1. Good(w, q, <<>>, W, h, sc) /\ w \in Works /\ q \in Seq(ArbMsg) /\ sc \in BOOLEAN
      BY <1>0, <1>7
    <3>2. v \in Works /\ v.arb = w.arb /\ v.seen = w.seen /\ v.ctrl = RemoveAt(w.ctrl, i)
          /\ v.dmq = Append(w.dmq, e)
      BY <1>4
    <3>3. i \in DOMAIN w.ctrl /\ c = w.ctrl[i] /\ ok \in BOOLEAN /\ sd = ScanAfter(c.op, sc)
          /\ (ok \/ (c.op = "param" /\ sc))
      OBVIOUS
    <3> QED BY ONLY <1>2, <3>1, <3>2, <3>3, AnswerGood
  <2>2. Behind(v)
    BY <1>0, <1>4, <1>7, BehindFrom
  <2> QED BY <2>1, <2>2
<1> QED BY <1>0, <1>4, <1>5, <1>6, <1>7 DEF InvOf

\* An event that answers no command comes, or goes where no lock is taken.
LEMMA ReportInv ==
  ASSUME NEW w, NEW q, NEW W, NEW h, NEW sc, InvOf(w, q, W, h, sc),
         NEW e \in Event, e.op = "async", NEW d,
         d = Append(w.dmq, e) \/ (w.dmq # <<>> /\ e = Head(w.dmq) /\ d = Tail(w.dmq)),
         NEW v, v = WorkOf(w.arb, w.ctrl, d, w.seen)
  PROVE  InvOf(v, q, W, h, sc)
<1>0. /\ w \in Works /\ q \in Seq(ArbMsg) /\ W \in Commands /\ sc \in BOOLEAN
      /\ CalmIn(w) => Good(w, q, <<>>, W, h, sc) /\ Behind(w)
      /\ w.ctrl \in Seq(Command) /\ w.dmq \in Seq(Event) /\ w.seen \in SUBSET Unusual
  BY WorkParts DEF InvOf
<1>1. d \in Seq(Event)
  <2>1. Append(w.dmq, e) \in Seq(Event)
    BY <1>0
  <2>2. w.dmq # <<>> => Tail(w.dmq) \in Seq(Event)
    BY <1>0, TailElements
  <2> QED BY <2>1, <2>2
<1>2. v \in Works /\ v.arb = w.arb /\ v.ctrl = w.ctrl /\ v.dmq = d /\ v.seen = w.seen
  BY <1>0, <1>1 DEF Works, WorkSet, WorkOf
<1>3. CalmIn(v) => CalmIn(w)
  BY <1>2 DEF CalmIn
<1>4. ASSUME CalmIn(w)
      PROVE  Good(v, q, <<>>, W, h, sc) /\ Behind(v)
  <2>1. Good(v, q, <<>>, W, h, sc)
    BY <1>0, <1>2, <1>4, ReportGood
  <2>2. Behind(v)
    BY <1>0, <1>2, <1>4, BehindFrom
  <2> QED BY <2>1, <2>2
<1> QED BY <1>0, <1>2, <1>3, <1>4 DEF InvOf

\* The scan state machine takes an event.
LEMMA ScanStepInv ==
  ASSUME NEW w, NEW q, NEW W, NEW h, NEW sc, InvOf(w, q, W, h, sc),
         w.dmq # <<>>, NEW e, e = Head(w.dmq), w.arb.spl, e.op \in ScanOp,
         NEW v, v = ScanStep(w, e)
  PROVE  InvOf(v, q, W, h, sc)
<1>0. /\ w \in Works /\ q \in Seq(ArbMsg)
      /\ CalmIn(w) => Good(w, q, <<>>, W, h, sc) /\ Behind(w)
  BY DEF InvOf
<1>1. /\ v \in Works /\ v.seen = w.seen /\ v.arb.saved = w.arb.saved
      /\ v.arb.micro = w.arb.micro /\ v.arb.primary = w.arb.primary
  BY <1>0, ScanStepEffect
<1>2. CalmIn(v) => CalmIn(w)
  BY <1>1 DEF CalmIn
<1>3. ASSUME CalmIn(w)
      PROVE  Good(v, q, <<>>, W, h, sc) /\ Behind(v)
  <2>1. Good(v, q, <<>>, W, h, sc)
    BY <1>0, <1>3, ScanStepGood
  <2>2. Behind(v)
    BY <1>0, <1>1, <1>3, BehindFrom
  <2> QED BY <2>1, <2>2
<1> QED BY <1>1, <1>2, <1>3 DEF InvOf

\* An answer goes to the stack s that asked, with the house cleaning of its lock.
LEMMA AnsweredInv ==
  ASSUME NEW w, NEW q, NEW W, NEW h, NEW sc, InvOf(w, q, W, h, sc),
         w.dmq # <<>>, NEW e, e = Head(w.dmq), NEW s \in Stack, NEW op, op = e.op,
         op \in Op \cup {"async"}, CalmIn(w) => e.for = s /\ op \in Op,
         NEW V, V = Answered(W, s, op), NEW c \in Cleaning, c.from = s,
         NEW p, Cleans(w, s, q, c, p),
         NEW v, v = WorkOf(w.arb, w.ctrl, Tail(w.dmq), w.seen)
  PROVE  InvOf(v, p, V, h, sc)
<1>0. /\ w \in Works /\ q \in Seq(ArbMsg) /\ W \in Commands /\ sc \in BOOLEAN
      /\ CalmIn(w) => Good(w, q, <<>>, W, h, sc) /\ Behind(w)
      /\ w.ctrl \in Seq(Command) /\ w.dmq \in Seq(Event) /\ w.seen \in SUBSET Unusual
  BY WorkParts DEF InvOf
<1>1. Tail(w.dmq) \in Seq(Event) /\ e \in Event
  BY <1>0, TailElements
<1>2. p \in Seq(ArbMsg)
  <2>1. c \in ArbMsg
    BY DEF ArbMsg
  <2>2. Append(q, c) \in Seq(ArbMsg)
    BY <1>0, <2>1
  <2> QED BY <1>0, <2>2 DEF Cleans
<1>3. /\ v \in Works /\ v.arb = w.arb /\ v.ctrl = w.ctrl /\ v.dmq = Tail(w.dmq)
      /\ v.seen = w.seen
  BY <1>0, <1>1 DEF Works, WorkSet, WorkOf
<1>4. V \in Commands /\ Len(V[s]) <= Len(W[s]) /\ \A t \in Stack : t # s => V[t] = W[t]
  BY <1>0, WaitsLess
<1>5. Len(V["primary"]) >= 2 => Len(W["primary"]) >= 2
  <2>1. CASE s = "primary"
    <3>1. \A t \in Stack : Len(V[t]) \in Nat /\ Len(W[t]) \in Nat
      BY <1>0, <1>4 DEF Commands
    <3> QED BY <1>4, <2>1, <3>1
  <2>2. CASE s # "primary"
    BY <1>4, <2>2 DEF Stack
  <2> QED BY <2>1, <2>2
<1>6. CalmIn(v) => CalmIn(w)
  BY <1>3 DEF CalmIn
<1>7. ASSUME CalmIn(w)
      PROVE  Good(v, p, <<>>, V, h, sc) /\ Behind(v)
  <2>0. e.for = s /\ e.op \in Op /\ Good(w, q, <<>>, W, h, sc) /\ Behind(w)
    BY <1>0, <1>7
  <2>1. Good(v, p, <<>>, V, h, sc)
    BY <1>0, <1>1, <1>2, <1>3, <2>0, AnsweredGood
  <2>2. Behind(v)
    BY <1>3, <2>0, BehindFrom
  <2> QED BY <2>1, <2>2
<1> QED BY <1>0, <1>2, <1>3, <1>4, <1>5, <1>6, <1>7 DEF InvOf

-----------------------------------------------------------------------------
(* The steps of the system.                                                *)

HciInv ==
  /\ InvOf(Work, arbq, waits, host, scanning)
  /\ issued \in [Stack \cup {"async"} -> Nat]
  /\ credit \in 0 .. Credits

\* The parts of the state that are in the invariant.
LEMMA HciInvTyped == HciInv => TypeOK
<1> SUFFICES ASSUME HciInv PROVE TypeOK
  OBVIOUS
<1>1. /\ Work \in Works /\ arbq \in Seq(ArbMsg) /\ waits \in Commands
      /\ host \in [Stack -> {"idle", "set", "on"}] /\ scanning \in BOOLEAN
      /\ issued \in [Stack \cup {"async"} -> Nat] /\ credit \in 0 .. Credits
  BY DEF HciInv, InvOf
<1>2. /\ arb \in ArbState /\ ctrl \in Seq(Command) /\ dmq \in Seq(Event) /\ seen \subseteq Unusual
      /\ \A s \in Stack : arb.saved[s] \in Seq(Request(s))
  BY <1>1 DEF Works, WorkSet, Work
<1>3. waits \in [Stack -> Seq(Op)] /\ \A s \in Stack : waits[s] \in Seq(OpsOf(s))
  BY <1>1 DEF Commands
<1>4. arbq \in Seq(Request("primary") \cup Request("micro") \cup Cleaning)
  BY <1>1 DEF ArbMsg, AnyRequest
<1> QED BY <1>1, <1>2, <1>3, <1>4 DEF TypeOK

\* Nothing is under way at first.
LEMMA InitHolds == Init => HciInv
<1> SUFFICES ASSUME Init PROVE HciInv
  OBVIOUS
<1> DEFINE w == Work
<1>0. /\ w.arb = HciCmdArbInit /\ w.ctrl = <<>> /\ w.dmq = <<>> /\ w.seen = {} /\ arbq = <<>>
      /\ \A s \in Stack : waits[s] = <<>>
      /\ \A s \in Stack : w.arb.saved[s] = <<>> /\ ~ w.arb.scanEnabled[s]
      /\ w.arb.micro = "unlock" /\ w.arb.primary = "unlock" /\ w.arb.count = 0
      /\ w.arb.spl = FALSE /\ w.arb.sm = "idle"
  BY DEF Init, Work, HciCmdArbInit
<1>1. w \in Works
  <2> DEFINE none == [s \in Stack |-> <<>>]
             no == [s \in Stack |-> FALSE]
  <2>0. /\ none \in [Stack -> Seq(AnyRequest)] /\ no \in [Stack -> BOOLEAN]
        /\ <<>> \in Seq(Command) /\ <<>> \in Seq(Event)
        /\ \A s \in Stack : <<>> \in Seq(Request(s))
    OBVIOUS
  <2>1. HciCmdArbInit \in ArbState
    <3> HIDE DEF none, no
    <3>1. HciCmdArbInit = [micro |-> "unlock", primary |-> "unlock", spl |-> FALSE, count |-> 0,
                           saved |-> none, scanEnabled |-> no, paramsSet |-> no, sm |-> "idle"]
      BY DEF HciCmdArbInit, none, no
    <3>2. 0 \in 0 .. 255
      OBVIOUS
    <3> QED BY <2>0, <3>1, <3>2 DEF ArbState, AnyRequest
  <2>2. w = [arb |-> HciCmdArbInit, ctrl |-> <<>>, dmq |-> <<>>, seen |-> {}]
    BY DEF Init, Work
  <2>3. w \in WorkSet
    <3> HIDE DEF w
    <3> QED BY <2>0, <2>1, <2>2 DEF WorkSet
  <2>4. \A s \in Stack : w.arb.saved[s] \in Seq(Request(s))
    BY <1>0, <2>0
  <2> QED BY <2>3, <2>4 DEF Works
<1>2. /\ arbq \in Seq(ArbMsg) /\ waits \in Commands /\ host \in [Stack -> {"idle", "set", "on"}]
      /\ scanning = FALSE /\ \A s \in Stack : host[s] = "idle"
  <2>1. <<>> \in Seq(ArbMsg) /\ <<>> \in Seq(Op) /\ \A s \in Stack : <<>> \in Seq(OpsOf(s))
    OBVIOUS
  <2>2. arbq = <<>> /\ scanning = FALSE /\ host = [s \in Stack |-> "idle"]
        /\ waits = [s \in Stack |-> <<>>]
    BY DEF Init
  <2>3. waits \in Commands
    BY <2>1, <2>2 DEF Commands
  <2> QED BY <2>1, <2>2, <2>3
<1> HIDE DEF w
<1>3. /\ \A s \in Stack, A \in SUBSET Op : PendingIn(w, arbq, <<>>, s, A) = 0
      /\ \A s \in Stack, A \in SUBSET Op : StartedIn(w, s, A) = 0
      /\ \A s : CountIn(arbq, CleaningOf(s)) = 0
      /\ SentIn(w, "spl", Op) = 0
  BY <1>0, EmptyCount DEF PendingIn, StartedIn, SentIn, HeldIn, One
<1>4. \A s \in Stack : \A A : CountIn(waits[s], A) = 0
  BY <1>0, EmptyCount
<1>5. Accounted(w, arbq, <<>>, waits) /\ OneScanEach(waits)
  <2>1. \A s \in Stack, A \in Family :
          /\ PendingIn(w, arbq, <<>>, s, A) = 0 /\ StartedIn(w, s, A) = 0
          /\ CountIn(waits[s], A) = 0
    BY <1>3, <1>4, FamilyIsOps
  <2>2. Accounted(w, arbq, <<>>, waits)
    BY <2>1 DEF Accounted
  <2>3. OneScanEach(waits)
    BY <1>4 DEF OneScanEach
  <2> QED BY <2>2, <2>3
<1>6. Locks(w, arbq)
  <2>1. Using(w, arbq, "micro") = 0 /\ Using(w, arbq, "primary") = 0
    BY <1>3 DEF Using, Stack
  <2> QED BY <1>0, <1>3, <2>1 DEF Locks, One
<1>7. SplServed(w, scanning)
  BY <1>0 DEF SplServed
<1>8. HostAgrees(w, arbq, <<>>, host) /\ ScanAgrees(w, scanning)
  <2>1. \A s \in Stack : /\ PendingIn(w, arbq, <<>>, s, {"enable"}) = 0
                         /\ PendingIn(w, arbq, <<>>, s, {"disable"}) = 0
    <3>1. {"enable"} \in SUBSET Op /\ {"disable"} \in SUBSET Op
      BY DEF Op
    <3> QED BY <1>3, <3>1
  <2>2. HostAgrees(w, arbq, <<>>, host)
    BY <1>0, <1>2, <2>1 DEF HostAgrees
  <2> QED BY <1>0, <1>2, <2>2 DEF ScanAgrees, SomeScans
<1>9. Good(w, arbq, <<>>, waits, host, scanning) /\ Behind(w)
  <2>1. Behind(w)
    BY <1>0 DEF Behind, BehindLock, Stack
  <2> QED BY <1>5, <1>6, <1>7, <1>8, <2>1 DEF Good
<1>10. ~ (Len(waits["primary"]) >= 2)
  BY <1>0 DEF Stack
<1>11. issued \in [Stack \cup {"async"} -> Nat] /\ credit \in 0 .. Credits
  BY HciCmdArbAssumption DEF Init
<1>12. "hung" \notin w.seen
  BY <1>0
<1>13. InvOf(w, arbq, waits, host, scanning)
  <2>1. scanning \in BOOLEAN
    BY <1>2
  <2> QED BY <1>1, <1>2, <1>9, <1>10, <1>12, <2>1 DEF InvOf
<1> QED BY <1>11, <1>13 DEF HciInv, w

\* A step of the arbiter's task keeps the invariant, whichever message it handles.
LEMMA HandlerStep == HciInv /\ HciCmdArbIfaceHandler => HciInv'
<1> SUFFICES ASSUME HciInv, HciCmdArbIfaceHandler PROVE HciInv'
  OBVIOUS
<1>1. ASSUME NEW w, w = Work, NEW m, m = Head(arbq), NEW v, v = hci_cmd_arb_iface_msg_handler(m, w)
      PROVE  InvOf(v, Tail(arbq), waits, host, scanning) /\ Work' = v
  <2>1. InvOf(w, arbq, waits, host, scanning) /\ "hung" \notin w.seen /\ arbq # <<>>
    BY <1>1 DEF HciInv, HciCmdArbIfaceHandler, Work
  <2>2. InvOf(v, Tail(arbq), waits, host, scanning)
    BY <1>1, <2>1, HandlerInv
  <2>3. v = WorkOf(v.arb, v.ctrl, v.dmq, v.seen)
    BY <2>2, WorkParts DEF InvOf
  <2>4. arb' = v.arb /\ ctrl' = v.ctrl /\ dmq' = v.dmq /\ seen' = v.seen
    BY <1>1 DEF HciCmdArbIfaceHandler
  <2> QED BY <2>2, <2>3, <2>4 DEF Work, WorkOf
<1>2. /\ arbq' = Tail(arbq) /\ UNCHANGED <<host, waits, issued, credit, scanning>>
  BY DEF HciCmdArbIfaceHandler
<1> QED BY <1>1, <1>2 DEF HciInv

\* A command of s in the arbiter's queue.
LEMMA RequestTyped ==
  ASSUME NEW s \in Stack, NEW op \in OpsOf(s), NEW m, m = [k |-> "cmd", from |-> s, op |-> op]
  PROVE  m \in AnyRequest /\ m.from = s /\ m.op = op
BY DEF AnyRequest, Request, Stack

\* A command of either host keeps the invariant.
LEMMA IssueStep ==
  ASSUME HciInv, NEW s \in Stack, NEW op \in OpsOf(s), Issue(s, op),
         seen' = seen \/ seen' = seen \cup {"pipelined"},
         s = "primary" /\ waits[s] # <<>> => "pipelined" \in seen'
  PROVE  InvOf(Work', arbq', waits', host', scanning') /\ issued' \in [Stack \cup {"async"} -> Nat]
<1>0. /\ host \in [Stack -> {"idle", "set", "on"}] /\ waits \in Commands
      /\ issued \in [Stack \cup {"async"} -> Nat] /\ InvOf(Work, arbq, waits, host, scanning)
  BY DEF HciInv, InvOf
<1>1. /\ waits' = Asking(waits, s, op) /\ scanning' = scanning
      /\ arbq' = Append(arbq, [k |-> "cmd", from |-> s, op |-> op])
      /\ issued' = [issued EXCEPT ![s] = @ + 1]
  BY DEF Issue, Asking
<1>2. host' \in [Stack -> {"idle", "set", "on"}] /\ HostAsks(waits, s, op, host, host')
  <2>1. op \in Op
    BY DEF OpsOf, Op, ScanOp
  <2>2. /\ op \in ScanOp => \A i \in DOMAIN waits[s] : waits[s][i] \notin ScanOp
        /\ op = "param" => host[s] # "on"
        /\ op = "enable" => host[s] = "set"
        /\ op = "disable" => host[s] = "on"
    BY DEF Issue, HostStep
  <2>3. host' = [host EXCEPT ![s] = CASE op = "param" -> "set" [] op = "enable" -> "on"
                                      [] op = "disable" -> "set" [] OTHER -> @]
    BY DEF Issue, HostStep
  <2>4. /\ op = "param" => host' = [host EXCEPT ![s] = "set"]
        /\ op = "enable" => host' = [host EXCEPT ![s] = "on"]
        /\ op = "disable" => host' = [host EXCEPT ![s] = "set"]
        /\ op \notin ScanOp => host' = [host EXCEPT ![s] = @]
    BY <2>3 DEF ScanOp
  <2>5. op \in {"param", "enable", "disable"} \/ op \notin ScanOp
    BY DEF ScanOp
  <2> QED BY <1>0, <2>2, <2>4, <2>5 DEF HostAsks
<1>3. issued' \in [Stack \cup {"async"} -> Nat]
  BY <1>0, <1>1
<1>4. Work' = WorkOf(Work.arb, Work.ctrl, Work.dmq, seen') /\ Work.seen = seen
  BY DEF Issue, Work, WorkOf
<1>5. ASSUME NEW w, w = Work, NEW q, q = arbq, NEW W, W = waits, NEW h, h = host,
             NEW sc, sc = scanning, NEW V, V = waits', NEW p, p = arbq', NEW g, g = host',
             NEW n, n = seen', NEW v, v = Work', NEW m, m = [k |-> "cmd", from |-> s, op |-> op]
      PROVE  InvOf(v, p, V, g, sc)
  <2>1. m \in AnyRequest /\ m.from = s /\ m.op = op
    BY <1>5, RequestTyped
  <2>2. /\ InvOf(w, q, W, h, sc) /\ V = Asking(W, s, op) /\ p = Append(q, m)
        /\ g \in [Stack -> {"idle", "set", "on"}] /\ HostAsks(W, s, op, h, g)
        /\ n = w.seen \/ n = w.seen \cup {"pipelined"}
        /\ s = "primary" /\ W[s] # <<>> => "pipelined" \in n
        /\ v = WorkOf(w.arb, w.ctrl, w.dmq, n)
    BY <1>0, <1>1, <1>2, <1>4, <1>5
  <2>3. Issued(w, q, W, h, s, op, m, v, n, p, V, g)
    BY <2>1, <2>2 DEF Issued
  <2> QED BY ONLY <2>2, <2>3, s \in Stack, op \in OpsOf(s), IssueInv
<1> QED BY <1>1, <1>3, <1>5

\* A command of the primary stack.
LEMMA PrimaryStep == HciInv /\ HciArbiterSendHciMsg => HciInv'
<1> SUFFICES ASSUME HciInv, HciArbiterSendHciMsg PROVE HciInv'
  OBVIOUS
<1>1. PICK op \in Op : Issue("primary", op)
  BY DEF HciArbiterSendHciMsg
<1>2. /\ seen' = IF waits["primary"] = <<>> THEN seen ELSE seen \cup {"pipelined"}
      /\ credit' = credit
  BY DEF HciArbiterSendHciMsg
<1>3. ASSUME NEW s, s = "primary"
      PROVE  InvOf(Work', arbq', waits', host', scanning')
             /\ issued' \in [Stack \cup {"async"} -> Nat]
  <2>1. /\ s \in Stack /\ op \in OpsOf(s) /\ Issue(s, op)
        /\ seen' = seen \/ seen' = seen \cup {"pipelined"}
        /\ s = "primary" /\ waits[s] # <<>> => "pipelined" \in seen'
    BY <1>1, <1>2, <1>3 DEF OpsOf, Stack
  <2> QED BY <2>1, IssueStep
<1> QED BY <1>2, <1>3 DEF HciInv

\* A command of the microstack, which uses a credit.
LEMMA MicroStep == HciInv /\ tx_commands_to_hci => HciInv'
<1> SUFFICES ASSUME HciInv, tx_commands_to_hci PROVE HciInv'
  OBVIOUS
<1>1. PICK op \in Op \ {"peri"} : Issue("micro", op)
  BY DEF tx_commands_to_hci
<1>2. seen' = seen /\ credit > 0 /\ credit' = credit - 1
  BY DEF tx_commands_to_hci
<1>3. ASSUME NEW s, s = "micro"
      PROVE  InvOf(Work', arbq', waits', host', scanning')
             /\ issued' \in [Stack \cup {"async"} -> Nat]
  <2>1. /\ s \in Stack /\ op \in OpsOf(s) /\ Issue(s, op)
        /\ seen' = seen \/ seen' = seen \cup {"pipelined"}
        /\ s = "primary" /\ waits[s] # <<>> => "pipelined" \in seen'
    BY <1>1, <1>2, <1>3 DEF OpsOf, Stack
  <2> QED BY <2>1, IssueStep
<1>4. credit' \in 0 .. Credits
  BY <1>2, HciCmdArbAssumption DEF HciInv
<1> QED BY <1>3, <1>4 DEF HciInv

\* The controller answers a command.
LEMMA AnswersStep == HciInv /\ ControllerAnswers => HciInv'
<1> SUFFICES ASSUME HciInv, ControllerAnswers PROVE HciInv'
  OBVIOUS
<1>1. PICK i \in DOMAIN ctrl :
        LET c == ctrl[i]
            ok == c.op = "param" => ~scanning
        IN  /\ scanning' = CASE c.op = "enable" -> TRUE [] c.op = "disable" -> FALSE
                             [] OTHER -> scanning
            /\ ctrl' = RemoveAt(ctrl, i)
            /\ dmq' = Append(dmq, [op |-> c.op, for |-> c.for, ok |-> ok])
            /\ UNCHANGED <<host, waits, issued, credit, arbq, arb, seen>>
  BY DEF ControllerAnswers
<1>2. ASSUME NEW w, w = Work, NEW c, c = ctrl[i], NEW ok, ok = (c.op = "param" => ~scanning),
             NEW e, e = [op |-> c.op, for |-> c.for, ok |-> ok], NEW v, v = Work',
             NEW q, q = arbq, NEW W, W = waits, NEW h, h = host, NEW sc, sc = scanning,
             NEW sd, sd = scanning'
      PROVE  InvOf(v, q, W, h, sd)
  <2>1. InvOf(w, q, W, h, sc)
    BY <1>2 DEF HciInv
  <2>2. sc \in BOOLEAN /\ w.ctrl = ctrl /\ w.arb = arb /\ w.dmq = dmq /\ w.seen = seen
    BY <1>2, <2>1 DEF InvOf, Work
  <2>3. ok \in BOOLEAN /\ (ok \/ (c.op = "param" /\ sc))
    BY <1>2, <2>2
  <2>4. sd = ScanAfter(c.op, sc)
    BY <1>1, <1>2 DEF ScanAfter
  <2>5. v = WorkOf(w.arb, RemoveAt(w.ctrl, i), Append(w.dmq, e), w.seen)
    BY <1>1, <1>2, <2>2 DEF Work, WorkOf
  <2>6. i \in DOMAIN w.ctrl /\ c = w.ctrl[i] /\ e = [op |-> c.op, for |-> c.for, ok |-> ok]
    BY <1>2, <2>2
  <2> QED BY ONLY <2>1, <2>3, <2>4, <2>5, <2>6, ControllerInv
<1>3. UNCHANGED <<host, waits, issued, credit, arbq>>
  BY <1>1
<1> QED BY <1>2, <1>3 DEF HciInv

\* The controller reports something.
LEMMA ReportsStep == HciInv /\ ControllerReports => HciInv'
<1> SUFFICES ASSUME HciInv, ControllerReports PROVE HciInv'
  OBVIOUS
<1>1. ASSUME NEW w, w = Work, NEW e, e = [op |-> "async", for |-> "none", ok |-> TRUE],
             NEW d, d = dmq', NEW v, v = Work',
             NEW q, q = arbq, NEW W, W = waits, NEW h, h = host, NEW sc, sc = scanning
      PROVE  InvOf(v, q, W, h, sc)
  <2>1. InvOf(w, q, W, h, sc)
    BY <1>1 DEF HciInv
  <2>2. e \in Event /\ e.op = "async"
    BY <1>1 DEF Event
  <2>3. d = Append(w.dmq, e)
    BY <1>1 DEF ControllerReports, Work
  <2>4. v = WorkOf(w.arb, w.ctrl, d, w.seen)
    BY <1>1 DEF ControllerReports, Work, WorkOf
  <2> QED BY ONLY <2>1, <2>2, <2>3, <2>4, ReportInv
<1>2. UNCHANGED <<host, waits, credit, arbq, scanning>>
      /\ issued' \in [Stack \cup {"async"} -> Nat]
  BY DEF ControllerReports, HciInv
<1> QED BY <1>1, <1>2 DEF HciInv

\* An event of the controller goes to the scan state machine, to the microstack
\* or to the primary stack.
LEMMA EventStep == HciInv /\ HciArbProcessHciEvents => HciInv'
<1> SUFFICES ASSUME HciInv, HciArbProcessHciEvents PROVE HciInv'
  OBVIOUS
<1> DEFINE e == Head(dmq)
<1>0. /\ dmq # <<>>
      /\ EventForScanArbitration(e) \/ EventForMicroStack(e) \/ EventForPrimaryStack(e)
      /\ InvOf(Work, arbq, waits, host, scanning)
      /\ issued \in [Stack \cup {"async"} -> Nat] /\ credit \in 0 .. Credits
  BY DEF HciArbProcessHciEvents, HciInv
<1>1. /\ Work.arb = arb /\ Work.ctrl = ctrl /\ Work.dmq = dmq /\ Work.seen = seen
      /\ Work \in Works /\ arbq \in Seq(ArbMsg) /\ waits \in Commands
      /\ CalmIn(Work) => Good(Work, arbq, <<>>, waits, host, scanning)
  BY <1>0 DEF Work, InvOf
<1>2. e \in Event /\ Tail(dmq) \in Seq(Event) /\ e.op \in Op \cup {"async"}
  <2>1. dmq \in Seq(Event)
    BY <1>1 DEF Works, WorkSet
  <2>2. e \in Event /\ Tail(dmq) \in Seq(Event)
    BY <1>0, <2>1, TailElements
  <2> QED BY <2>2 DEF Event
<1>3. CASE EventForScanArbitration(e)
  <2>1. ASSUME NEW w, w = Work, NEW ev, ev = e, NEW v, v = ScanStep(w, ev)
        PROVE  InvOf(v, arbq, waits, host, scanning) /\ Work' = v
    <3>1. w.dmq # <<>> /\ ev = Head(w.dmq) /\ w.arb.spl /\ ev.op \in ScanOp
          /\ InvOf(w, arbq, waits, host, scanning)
      BY <1>0, <1>1, <1>3, <2>1
         DEF EventForScanArbitration, IsMeantForSpecialArbitrationLogic, ScanOp
    <3>2. InvOf(v, arbq, waits, host, scanning)
      BY <2>1, <3>1, ScanStepInv
    <3>3. v = WorkOf(v.arb, v.ctrl, v.dmq, v.seen)
      BY <3>2, WorkParts DEF InvOf
    <3>4. arb' = v.arb /\ ctrl' = v.ctrl /\ dmq' = v.dmq /\ seen' = v.seen
      BY <1>1, <1>3, <2>1 DEF EventForScanArbitration, ScanStep
    <3> QED BY <3>2, <3>3, <3>4 DEF Work, WorkOf
  <2>2. UNCHANGED <<host, waits, issued, credit, arbq, scanning>>
    BY <1>3 DEF EventForScanArbitration
  <2> QED BY <1>0, <2>1, <2>2 DEF HciInv
<1>4. CASE EventForMicroStack(e)
  <2>1. ASSUME NEW w, w = Work, NEW q, q = arbq, NEW W, W = waits, NEW h, h = host,
               NEW sc, sc = scanning, NEW s, s = "micro", NEW ev, ev = e, NEW op, op = e.op,
               NEW c, c = [k |-> "house_cleaning", from |-> s],
               NEW V, V = waits', NEW p, p = arbq', NEW v, v = Work'
        PROVE  InvOf(v, p, V, h, sc)
    <3>1. InvOf(w, q, W, h, sc) /\ w.dmq # <<>> /\ ev = Head(w.dmq)
          /\ op = ev.op /\ op \in Op \cup {"async"}
      BY <1>0, <1>1, <1>2, <2>1
    <3>2. s \in Stack /\ c \in Cleaning /\ c.from = s
      BY <2>1 DEF Stack, Cleaning
    <3>3. V = Answered(W, s, op)
      BY <1>4, <2>1 DEF EventForMicroStack, Answered
    <3>4. Cleans(w, s, q, c, p)
      BY <1>4, <2>1 DEF EventForMicroStack, HciCommandArbHouseCleaningSend, Cleans
    <3>5. v = WorkOf(w.arb, w.ctrl, Tail(w.dmq), w.seen)
      BY <1>1, <1>4, <2>1 DEF EventForMicroStack, Work, WorkOf
    <3>6. ASSUME CalmIn(w)
          PROVE  ev.for = s /\ op \in Op
      <4>1. /\ w \in Works /\ q \in Seq(ArbMsg) /\ Locks(w, q) /\ w.arb.micro = "cmd"
            /\ ev.op \notin {"async", "peri"}
        BY <1>1, <1>4, <2>1, <3>6
           DEF EventForMicroStack, IsMicroStackWaitingForAnyResponseEvent, Good
      <4> QED BY <2>1, <3>1, <4>1, MicroEvent
    <3> QED BY ONLY <3>1, <3>2, <3>3, <3>4, <3>5, <3>6, AnsweredInv
  <2>2. UNCHANGED <<host, issued, scanning>> /\ credit' = Credits
    BY <1>4 DEF EventForMicroStack
  <2>3. credit' \in 0 .. Credits
    BY <2>2, HciCmdArbAssumption
  <2> QED BY <1>0, <2>1, <2>2, <2>3 DEF HciInv
<1>5. CASE EventForPrimaryStack(e)
  <2>0. UNCHANGED <<host, issued, credit, arb, ctrl, scanning>> /\ dmq' = Tail(dmq)
    BY <1>5 DEF EventForPrimaryStack
  <2>1. ASSUME NEW w, w = Work, NEW q, q = arbq, NEW W, W = waits, NEW h, h = host,
               NEW sc, sc = scanning, NEW s, s = "primary", NEW ev, ev = e, NEW op, op = e.op,
               NEW c, c = [k |-> "house_cleaning", from |-> s],
               NEW V, V = waits', NEW p, p = arbq', NEW v, v = Work'
        PROVE  InvOf(v, p, V, h, sc)
    <3>1. InvOf(w, q, W, h, sc) /\ w.dmq # <<>> /\ ev = Head(w.dmq)
          /\ op = ev.op /\ op \in Op \cup {"async"} /\ ev \in Event
      BY <1>0, <1>1, <1>2, <2>1
    <3>2. s \in Stack /\ c \in Cleaning /\ c.from = s
      BY <2>1 DEF Stack, Cleaning
    <3>3. V = Answered(W, s, op)
      BY <1>5, <2>1 DEF EventForPrimaryStack, Answered
    <3>4. Cleans(w, s, q, c, p)
      BY <1>1, <1>5, <2>1 DEF EventForPrimaryStack, HciCommandArbHouseCleaningSend,
                              HasPrimaryStackTakenTheHCICmdArbLock, Cleans
    <3>5. CASE op # "async"
      <4>1. v = WorkOf(w.arb, w.ctrl, Tail(w.dmq), w.seen)
        BY <1>1, <1>5, <2>0, <2>1, <3>5 DEF EventForPrimaryStack, Work, WorkOf
      <4>2. ASSUME CalmIn(w)
            PROVE  ev.for = s /\ op \in Op
        <5>1. /\ w \in Works /\ q \in Seq(ArbMsg) /\ Locks(w, q)
              /\ ~ (w.arb.spl /\ ev.op \in ScanOp)
              /\ w.arb.micro # "cmd" \/ ev.op \in {"async", "peri"}
          BY <1>1, <1>5, <2>1, <4>2
             DEF EventForPrimaryStack, IsMicroStackWaitingForAnyResponseEvent,
                 IsMeantForSpecialArbitrationLogic, ScanOp, Good
        <5> QED BY <2>1, <3>1, <3>5, <5>1, PrimaryEvent
      <4> QED BY ONLY <3>1, <3>2, <3>3, <3>4, <4>1, <4>2, AnsweredInv
    <3>6. CASE op = "async" /\ w.arb.primary # "cmd"
      <4>1. /\ v = WorkOf(w.arb, w.ctrl, Tail(w.dmq), w.seen) /\ p = q
        BY <1>1, <1>5, <2>0, <2>1, <3>6
           DEF EventForPrimaryStack, HasPrimaryStackTakenTheHCICmdArbLock, Work, WorkOf
      <4>2. V = W
        <5>1. op \notin Op /\ W \in Commands
          BY <1>1, <2>1, <3>6 DEF Op
        <5> QED BY <3>1, <3>2, <3>3, <5>1, WaitsLess
      <4>3. ASSUME NEW d, d = Tail(w.dmq)
            PROVE  InvOf(v, q, W, h, sc)
        <5>1. v = WorkOf(w.arb, w.ctrl, d, w.seen) /\ ev.op = "async"
          BY <3>1, <3>6, <4>1, <4>3
        <5> QED BY ONLY <3>1, <4>3, <5>1, ReportInv
      <4> QED BY <4>1, <4>2, <4>3
    <3>7. CASE op = "async" /\ w.arb.primary = "cmd"
      <4>1. /\ v.arb = w.arb /\ v.ctrl = w.ctrl /\ v.dmq = Tail(dmq)
            /\ v.seen = w.seen \cup {"early"}
        BY <1>1, <1>5, <2>0, <2>1, <3>7
           DEF EventForPrimaryStack, HasPrimaryStackTakenTheHCICmdArbLock, Work
      <4>2. v \in Works /\ ~ CalmIn(v)
        <5>1. v.seen \in SUBSET Unusual
          BY <1>1, <2>1, <4>1 DEF Works, WorkSet, Unusual
        <5>2. v = WorkOf(v.arb, v.ctrl, v.dmq, v.seen)
          BY <2>1 DEF Work, WorkOf
        <5>3. v \in Works
          BY <1>1, <1>2, <2>1, <4>1, <5>1, <5>2 DEF Works, WorkSet, WorkOf
        <5> QED BY <4>1, <5>3 DEF CalmIn
      <4>3. V = W
        <5>1. op \notin Op /\ W \in Commands
          BY <1>1, <2>1, <3>7 DEF Op
        <5> QED BY <3>1, <3>2, <3>3, <5>1, WaitsLess
      <4>4. p \in Seq(ArbMsg)
        <5>1. c \in ArbMsg /\ q \in Seq(ArbMsg)
          BY <1>1, <2>1, <3>2 DEF ArbMsg
        <5>2. Append(q, c) \in Seq(ArbMsg)
          BY <5>1
        <5> QED BY <3>4, <5>1, <5>2 DEF Cleans
      <4> QED BY <3>1, <4>1, <4>2, <4>3, <4>4 DEF InvOf
    <3> QED BY <3>5, <3>6, <3>7
  <2> QED BY <1>0, <2>0, <2>1 DEF HciInv
<1> QED BY <1>0, <1>3, <1>4, <1>5

\* The invariant is inductive.
LEMMA InvHolds == Spec => []HciInv
<1>1. HciInv /\ [Next]_vars => HciInv'
  <2>1. HciInv /\ UNCHANGED vars => HciInv'
    BY DEF HciInv, vars, Work
  <2> QED BY <2>1, PrimaryStep, MicroStep, HandlerStep, EventStep, AnswersStep, ReportsStep DEF Next
<1> QED BY <1>1, InitHolds, PTL DEF Spec

\* The parameters, queues and locks keep the values that they may have.
THEOREM TypeCorrect == Spec => []TypeOK
BY InvHolds, HciInvTyped, PTL

-----------------------------------------------------------------------------
(* What the model's properties count.                                      *)

\* The counts of the properties are those of the invariant.
LEMMA Counted ==
  ASSUME HciInv
  PROVE  /\ \A s \in Who : /\ CountCmds(ctrl, s) = CountIn(ctrl, Sent(s, Op))
                           /\ CountCmds(dmq, s) = CountIn(dmq, Told(s, Op))
         /\ \A s \in Stack : /\ Started(s) = StartedIn(Work, s, Op)
                             /\ Queued(s) = CountIn(arbq, Asked(s, Op))
                             /\ Len(arb.saved[s]) = CountIn(arb.saved[s], Asked(s, Op))
                             /\ Len(waits[s]) = CountIn(waits[s], Op)
                             /\ arb.saved[s] \in Seq(AnyRequest) /\ waits[s] \in Seq(Op)
<1>0. /\ ctrl \in Seq(Command) /\ dmq \in Seq(Event) /\ arbq \in Seq(ArbMsg)
      /\ \A s \in Stack : arb.saved[s] \in Seq(Request(s)) /\ waits[s] \in Seq(Op)
      /\ arb.saved \in [Stack -> Seq(AnyRequest)]
  BY DEF HciInv, InvOf, Works, WorkSet, Work, ArbState, AnyRequest, Commands
<1>1. ASSUME NEW s \in Who
      PROVE  /\ CountCmds(ctrl, s) = CountIn(ctrl, Sent(s, Op))
             /\ CountCmds(dmq, s) = CountIn(dmq, Told(s, Op))
  <2>1. {i \in DOMAIN ctrl : ctrl[i].for = s} = {i \in DOMAIN ctrl : ctrl[i] \in Sent(s, Op)}
    <3>1. \A c \in Command : c.for = s <=> c \in Sent(s, Op)
      BY DEF Command, Sent
    <3> QED BY <1>0, <3>1
  <2>2. {i \in DOMAIN dmq : dmq[i].for = s} = {i \in DOMAIN dmq : dmq[i] \in Told(s, Op)}
    <3>1. \A e \in Event : e.for = s <=> e \in Told(s, Op)
      BY DEF Event, Told, Who, Stack
    <3> QED BY <1>0, <3>1
  <2> QED BY <2>1, <2>2 DEF CountCmds, CountIn, PlacesIn
<1>2. ASSUME NEW s \in Stack
      PROVE  Queued(s) = CountIn(arbq, Asked(s, Op))
  <2>1. {i \in DOMAIN arbq : arbq[i].k = "cmd" /\ arbq[i].from = s}
          = {i \in DOMAIN arbq : arbq[i] \in Asked(s, Op)}
    <3>1. \A m \in ArbMsg : m.k = "cmd" /\ m.from = s <=> m \in Asked(s, Op)
      <4>1. \A t : OpsOf(t) \subseteq Op
        BY DEF OpsOf, Op, ScanOp
      <4>2. \A m \in Cleaning : m.k # "cmd" /\ m \notin Asked(s, Op)
        BY DEF Cleaning, Asked
      <4>3. \A m \in AnyRequest : m.k = "cmd" /\ m.from = s <=> m \in Asked(s, Op)
        BY <4>1 DEF AnyRequest, Request, Asked
      <4> QED BY <4>2, <4>3 DEF ArbMsg
    <3> QED BY <1>0, <3>1
  <2> QED BY <2>1 DEF Queued, InArbQueue, CountIn, PlacesIn
<1>3. ASSUME NEW s \in Stack
      PROVE  Started(s) = StartedIn(Work, s, Op)
  <2>1. InScanArbitration(s) = HeldIn(Work.arb, s, Op)
    BY DEF InScanArbitration, HeldIn, One, Op, Work
  <2>2. s \in Who
    BY DEF Who
  <2> QED BY <1>1, <2>1, <2>2 DEF Started, StartedIn, SentIn, Work
<1>4. ASSUME NEW s \in Stack, NEW r, r = arb.saved[s], NEW a, a = waits[s]
      PROVE  Len(r) = CountIn(r, Asked(s, Op)) /\ Len(a) = CountIn(a, Op)
  <2>1. Request(s) \subseteq Asked(s, Op)
    BY DEF Request, Asked, OpsOf, Op, ScanOp
  <2>2. r \in Seq(Asked(s, Op)) /\ a \in Seq(Op)
    BY <1>0, <1>4, <2>1
  <2> QED BY <2>2, CountEverything
<1> QED BY <1>0, <1>1, <1>2, <1>3, <1>4

\* The invariant, with the counts that the properties use.
LEMMA Invariants ==
  ASSUME HciInv, Calm
  PROVE  /\ Work \in Works /\ arbq \in Seq(ArbMsg)
         /\ Good(Work, arbq, <<>>, waits, host, scanning) /\ Behind(Work)
         /\ \A s \in Stack : /\ StartedIn(Work, s, Op) \in Nat
                             /\ CountIn(arbq, Asked(s, Op)) \in Nat
                             /\ CountIn(arb.saved[s], Asked(s, Op)) \in Nat
                             /\ CountIn(arbq, CleaningOf(s)) \in Nat
                             /\ CountIn(waits[s], Op) = CountIn(arbq, Asked(s, Op)) +
                                  CountIn(arb.saved[s], Asked(s, Op)) + StartedIn(Work, s, Op)
         /\ \A s \in Who : /\ CountIn(ctrl, Sent(s, Op)) \in Nat
                           /\ CountIn(dmq, Told(s, Op)) \in Nat
<1>0. /\ Work \in Works /\ arbq \in Seq(ArbMsg) /\ CalmIn(Work)
      /\ Good(Work, arbq, <<>>, waits, host, scanning) /\ Behind(Work)
      /\ ctrl \in Seq(Command) /\ dmq \in Seq(Event)
  BY DEF HciInv, InvOf, CalmIn, Calm, Work, Works, WorkSet
<1>1. ASSUME NEW s \in Stack, NEW w, w = Work
      PROVE  /\ StartedIn(w, s, Op) \in Nat
             /\ CountIn(arbq, Asked(s, Op)) \in Nat
             /\ CountIn(w.arb.saved[s], Asked(s, Op)) \in Nat
             /\ CountIn(waits[s], Op) = CountIn(arbq, Asked(s, Op)) +
                  CountIn(w.arb.saved[s], Asked(s, Op)) + StartedIn(w, s, Op)
  <2>0. Op \in SUBSET Op /\ Op \in Family
    BY DEF Family
  <2>1. w \in Works /\ Accounted(w, arbq, <<>>, waits)
    BY <1>0, <1>1 DEF Good
  <2>2. /\ StartedIn(w, s, Op) \in Nat /\ CountIn(arbq, Asked(s, Op)) \in Nat
        /\ CountIn(w.arb.saved[s], Asked(s, Op)) \in Nat
        /\ PendingIn(w, arbq, <<>>, s, Op) =
             CountIn(arbq, Asked(s, Op)) + CountIn(w.arb.saved[s], Asked(s, Op))
    BY <1>0, <2>0, <2>1, CountsNatural
  <2>3. CountIn(waits[s], Op) = PendingIn(w, arbq, <<>>, s, Op) + StartedIn(w, s, Op)
    BY <2>0, <2>1 DEF Accounted
  <2> QED BY <2>2, <2>3
<1>2. Work.arb = arb
  BY DEF Work
<1>3. \A s \in Who : CountIn(ctrl, Sent(s, Op)) \in Nat /\ CountIn(dmq, Told(s, Op)) \in Nat
  BY <1>0, PlacesFinite
<1>4. \A s : CountIn(arbq, CleaningOf(s)) \in Nat
  BY <1>0, PlacesFinite
<1> QED BY <1>0, <1>1, <1>2, <1>3, <1>4

-----------------------------------------------------------------------------
(* The properties.                                                         *)

\* A lock excludes the commands of the other stack: HciCmdArbLockQueue and
\* IsHciCmdArbQueueLocked give the controller to one stack, or to neither while
\* the scan is arbitrated.
THEOREM OneStack == Spec => []OneStackAtATime
<1>1. HciInv => OneStackAtATime
  <2>1. SUFFICES ASSUME HciInv, Calm
                 PROVE  /\ Started("primary") = 0 \/ Started("micro") = 0
                        /\ CountCmds(ctrl, "spl") > 0 => CountCmds(ctrl, "micro") = 0
    BY DEF OneStackAtATime
  <2>2. /\ Work.arb = arb /\ Locks(Work, arbq) /\ arb.count \in 0 .. 255
        /\ "primary" \in Stack /\ "micro" \in Stack /\ "micro" \in Who /\ "spl" \in Who
    BY <2>1, Invariants DEF Work, Good, Works, WorkSet, ArbState, Stack, Who
  <2>3. \A s \in Stack : /\ StartedIn(Work, s, Op) \in Nat
                         /\ Using(Work, arbq, s) = StartedIn(Work, s, Op) + CountIn(arbq, CleaningOf(s))
                         /\ CountIn(arbq, CleaningOf(s)) \in Nat
                         /\ Started(s) = StartedIn(Work, s, Op)
    BY <2>1, Invariants, Counted DEF Using
  <2>4. arb.micro = "unlock" => Started("micro") = 0
    <3>1. arb.micro = "unlock" => Using(Work, arbq, "micro") = 0
      BY <2>2 DEF Locks, One
    <3> QED BY <2>2, <2>3, <3>1
  <2>5. arb.primary = "unlock" => Started("primary") = 0
    <3>1. arb.primary = "unlock" => Using(Work, arbq, "primary") <= 0
      BY <2>2 DEF Locks
    <3> QED BY <2>2, <2>3, <3>1
  <2>6. CountCmds(ctrl, "spl") > 0 => arb.micro = "unlock"
    <3>1. /\ CountCmds(ctrl, "spl") = CountIn(ctrl, Sent("spl", Op))
          /\ CountIn(ctrl, Sent("spl", Op)) \in Nat /\ CountIn(dmq, Told("spl", Op)) \in Nat
      BY <2>1, <2>2, Invariants, Counted
    <3>2. SentIn(Work, "spl", Op) = CountIn(ctrl, Sent("spl", Op)) + CountIn(dmq, Told("spl", Op))
      BY DEF SentIn, Work
    <3>3. SentIn(Work, "spl", Op) = One(arb.spl) /\ (arb.spl => arb.micro = "unlock")
      BY <2>2 DEF Locks
    <3> QED BY <3>1, <3>2, <3>3 DEF One
  <2>7. Started("micro") = 0 => CountCmds(ctrl, "micro") = 0
    <3>1. CountCmds(ctrl, "micro") \in Nat /\ CountCmds(dmq, "micro") \in Nat
      BY <2>1, <2>2, Invariants, Counted
    <3>2. InScanArbitration("micro") = 0
      BY DEF InScanArbitration
    <3> QED BY <3>1, <3>2 DEF Started
  <2>8. arb.micro = "unlock" \/ arb.primary = "unlock"
    BY <2>2 DEF Locks
  <2> QED BY <2>4, <2>5, <2>6, <2>7, <2>8
<1> QED BY <1>1, InvHolds, PTL

\* Commands are queued, saved or started and never two of these, so that the
\* answer of each reaches the stack that asked: handleCmdReqCommon saves or sends,
\* hciCmdArbRestoreQueueHandler sends what was saved.
THEOREM Accounting == Spec => []EveryCommandAccounted
<1>1. HciInv => EveryCommandAccounted
  <2>1. SUFFICES ASSUME HciInv, Calm, NEW s \in Stack
                 PROVE  Len(waits[s]) = Queued(s) + Len(arb.saved[s]) + Started(s)
    BY DEF EveryCommandAccounted
  <2>2. CountIn(waits[s], Op) = CountIn(arbq, Asked(s, Op)) +
          CountIn(arb.saved[s], Asked(s, Op)) + StartedIn(Work, s, Op)
    BY <2>1, Invariants
  <2>3. /\ Started(s) = StartedIn(Work, s, Op) /\ Queued(s) = CountIn(arbq, Asked(s, Op))
        /\ Len(arb.saved[s]) = CountIn(arb.saved[s], Asked(s, Op))
        /\ Len(waits[s]) = CountIn(waits[s], Op)
    BY <2>1, Counted
  <2> QED BY <2>2, <2>3
<1> QED BY <1>1, InvHolds, PTL

\* Nothing waits when nothing is under way that could answer it: the house
\* cleaning of every answer releases the lock and hciCmdArbRestoreQueueHandler
\* restores what was saved.  The loop over the primary stack's saved commands
\* spins only when it had several commands under way at once.
THEOREM NothingStranded == Spec => []NoCommandStranded
<1>1. HciInv => NoCommandStranded
  <2>1. SUFFICES ASSUME HciInv PROVE NoCommandStranded
    OBVIOUS
  <2>2. "hung" \in seen /\ Calm => "pipelined" \in seen
    BY <2>1 DEF HciInv, InvOf, CalmIn, Calm, Work
  <2>3. ASSUME ctrl = <<>>, dmq = <<>>, arbq = <<>>, Calm, "peri" \notin seen, NEW s \in Stack
        PROVE  waits[s] = <<>>
    <3>1. /\ Work.arb = arb /\ Work.ctrl = <<>> /\ Work.dmq = <<>> /\ Work.seen = seen
          /\ Locks(Work, <<>>) /\ Behind(Work) /\ arb.count \in 0 .. 255
      BY <2>1, <2>3, Invariants DEF Work, Good, Works, WorkSet, ArbState
    <3>2. \A t, A : SentIn(Work, t, A) = 0
      BY <3>1, EmptyCount DEF SentIn
    <3>3. ~ arb.spl /\ arb.sm = "idle"
      BY <3>1, <3>2 DEF Locks, One
    <3>4. \A t : StartedIn(Work, t, Op) = 0 /\ Using(Work, <<>>, t) = 0
      <4>1. \A t : HeldIn(Work.arb, t, Op) = 0
        BY <3>1, <3>3 DEF HeldIn, One
      <4>2. \A t : CountIn(<<>>, CleaningOf(t)) = 0
        BY EmptyCount
      <4> QED BY <3>2, <4>1, <4>2 DEF StartedIn, Using
    <3>5. arb.micro = "unlock" /\ arb.primary = "unlock"
      BY <2>3, <3>1, <3>4 DEF Locks, One
    <3>6. arb.saved[s] = <<>>
      BY <3>1, <3>5 DEF Behind, BehindLock
    <3>7. CountIn(waits[s], Op) = 0
      <4>1. CountIn(arbq, Asked(s, Op)) = 0 /\ CountIn(arb.saved[s], Asked(s, Op)) = 0
        BY <2>3, <3>6, EmptyCount
      <4>2. CountIn(waits[s], Op) = CountIn(arbq, Asked(s, Op)) +
              CountIn(arb.saved[s], Asked(s, Op)) + StartedIn(Work, s, Op)
        BY <2>1, <2>3, Invariants
      <4> QED BY <3>4, <4>1, <4>2
    <3>8. Len(waits[s]) = 0 /\ waits[s] \in Seq(Op)
      BY <2>1, <3>7, Counted
    <3> QED BY <3>8
  <2> QED BY <2>2, <2>3 DEF NoCommandStranded
<1> QED BY <1>1, InvHolds, PTL

\* The controller scans for whoever asked it to: HciBleScanArbitration forwards an
\* enable or a disable only when the other stack's flag lets it.
THEOREM ScanIsServed == Spec => []ScanServed
<1>1. HciInv => ScanServed
  <2>1. SUFFICES ASSUME HciInv, Quiet, Calm, "arbitrated" \notin seen
                 PROVE  scanning <=> \E s \in Stack : host[s] = "on"
    BY DEF ScanServed
  <2>2. /\ Work.arb = arb /\ Work.ctrl = ctrl /\ Work.dmq = <<>> /\ Work.seen = seen
        /\ arbq = <<>> /\ Work \in Works
        /\ Good(Work, <<>>, <<>>, waits, host, scanning)
    BY <2>1, Invariants DEF Work, Quiet
  <2>3. /\ Locks(Work, <<>>)
        /\ HostAgrees(Work, <<>>, <<>>, host) /\ ScanAgrees(Work, scanning)
    BY <2>1, <2>2 DEF Good
  <2>4. \A s \in Stack : StartedIn(Work, s, Op) = 0 /\ arb.saved[s] = <<>>
    <3>1. ASSUME NEW s \in Stack
          PROVE  StartedIn(Work, s, Op) = 0 /\ arb.saved[s] = <<>>
      <4>1. CountIn(waits[s], Op) = 0
        BY <2>1, EmptyCount DEF Quiet
      <4>2. /\ StartedIn(Work, s, Op) \in Nat /\ CountIn(arbq, Asked(s, Op)) \in Nat
            /\ CountIn(arb.saved[s], Asked(s, Op)) \in Nat
            /\ CountIn(waits[s], Op) = CountIn(arbq, Asked(s, Op)) +
                 CountIn(arb.saved[s], Asked(s, Op)) + StartedIn(Work, s, Op)
        BY <2>1, Invariants
      <4>3. StartedIn(Work, s, Op) = 0 /\ CountIn(arb.saved[s], Asked(s, Op)) = 0
        BY <4>1, <4>2
      <4>4. Len(arb.saved[s]) = 0 /\ arb.saved[s] \in Seq(AnyRequest)
        BY <2>1, <4>3, Counted
      <4> QED BY <4>3, <4>4
    <3> QED BY <3>1
  <2>5. \A s \in Who : SentIn(Work, s, Op) = 0
    <3>1. SentIn(Work, "spl", Op) = 0
      BY <2>1, <2>2, <2>3 DEF Locks, One
    <3>2. ASSUME NEW s \in Stack
          PROVE  SentIn(Work, s, Op) = 0
      <4>1. /\ CountIn(ctrl, Sent(s, Op)) \in Nat /\ CountIn(dmq, Told(s, Op)) \in Nat
        BY <2>1, Invariants DEF Who
      <4>2. SentIn(Work, s, Op) = CountIn(ctrl, Sent(s, Op)) + CountIn(dmq, Told(s, Op))
        BY DEF SentIn, Work
      <4>3. StartedIn(Work, s, Op) = SentIn(Work, s, Op) + HeldIn(Work.arb, s, Op)
            /\ HeldIn(Work.arb, s, Op) \in Nat
        BY DEF StartedIn, HeldIn, One
      <4> QED BY <2>4, <4>1, <4>2, <4>3
    <3> QED BY <3>1, <3>2 DEF Who
  <2>6. \A i \in DOMAIN ctrl : ctrl[i].op \notin {"enable", "disable"}
    <3>1. ASSUME NEW s \in Who, NEW w, w = Work
          PROVE  \A i \in DOMAIN w.ctrl : w.ctrl[i].for = s => w.ctrl[i].op \notin Op
      <4>1. w \in WorkSet /\ SentIn(w, s, Op) = 0 /\ Op \in SUBSET Op
        BY <2>2, <2>5, <3>1 DEF Works
      <4> QED BY <3>1, <4>1, NoneSent
    <3>2. \A i \in DOMAIN ctrl : ctrl[i] \in Command
      BY <2>2 DEF Works, WorkSet
    <3>3. \A c \in Command : c.for \in Who /\ c.op \in Op
      BY DEF Command, Who
    <3> QED BY <2>2, <3>1, <3>2, <3>3
  <2>7. scanning <=> SomeScans(arb)
    BY <2>2, <2>3, <2>6 DEF ScanAgrees
  <2>8. \A s \in Stack : host[s] = "on" <=> arb.scanEnabled[s]
    <3>1. ASSUME NEW s \in Stack
          PROVE  /\ PendingIn(Work, <<>>, <<>>, s, {"enable"}) = 0
                 /\ PendingIn(Work, <<>>, <<>>, s, {"disable"}) = 0
      BY <2>2, <2>4, EmptyCount DEF PendingIn
    <3> QED BY <2>2, <2>3, <3>1 DEF HostAgrees
  <2> QED BY <2>7, <2>8 DEF SomeScans
<1> QED BY <1>1, InvHolds, PTL

\* Commands of a stack are sent in their order: handleCmdReqCommon saves the one
\* that comes while others are saved, as the lock they wait for is still held.
THEOREM InTurn == Spec => NoOvertaking
<1> DEFINE Late(s) == /\ Calm'
                      /\ s = "micro" \/ "arbitrated" \notin seen
                      /\ arb.saved[s] # <<>>
                      /\ HciCmdArbIfaceHandler
                      /\ Head(arbq).k = "cmd"
                      /\ Head(arbq).from = s
           Waits(s) == arb'.saved[s] = Append(arb.saved[s], Head(arbq))
<1>1. ASSUME HciInv, NEW s \in Stack, Late(s)
      PROVE  Waits(s)
  <2>1. ASSUME NEW w, w = Work, NEW m, m = Head(arbq), NEW v, v = handleCmdReqCommon(w, m)
        PROVE  v.arb.saved[s] = Append(w.arb.saved[s], m)
    <3>1. /\ "hung" \notin w.seen /\ arbq # <<>> /\ m.k = "cmd" /\ m.from = s
          /\ v = hci_cmd_arb_iface_msg_handler(m, w) /\ seen' = v.seen
          /\ w.arb = arb /\ w.seen = seen /\ w \in Works /\ arbq \in Seq(ArbMsg)
          /\ CalmIn(w) => Good(w, arbq, <<>>, waits, host, scanning) /\ Behind(w)
      BY <1>1, <2>1 DEF HciCmdArbIfaceHandler, hci_cmd_arb_iface_msg_handler, Work, HciInv, InvOf
    <3>2. w.seen \subseteq v.seen
      BY <2>1, <3>1, HandlerGood
    <3>3. CalmIn(w)
      BY <1>1, <3>1, <3>2 DEF Calm, CalmIn
    <3>4. Behind(w) /\ w.arb.saved[s] # <<>>
      BY <1>1, <3>1, <3>3
    <3>5. IsHciCmdArbQueueLocked(m.from, w.arb)
      <4>1. CASE s = "micro"
        <5>1. BehindLock(w, s)
          BY <3>4 DEF Behind
        <5> QED BY <3>1, <3>4, <4>1, <5>1 DEF BehindLock, IsHciCmdArbQueueLocked
      <4>2. CASE s = "primary"
        <5>1. "arbitrated" \notin w.seen
          BY <1>1, <3>1, <4>2
        <5> QED BY <3>1, <3>4, <4>2, <5>1 DEF Behind, IsHciCmdArbQueueLocked
      <4> QED BY <4>1, <4>2 DEF Stack
    <3>6. m \in AnyRequest
      <4>1. m \in ArbMsg
        BY <2>1, <3>1, TailElements
      <4> QED BY <3>1, <4>1 DEF ArbMsg, Cleaning
    <3>7. Stalled(w, m, v)
      <4>1. \/ Stalled(w, m, v) \/ Forwarded(w, m, v) \/ Simulated(w, m, v) \/ Arbitrated(w, m, v)
        BY <2>1, <3>1, <3>6, CommandEffect DEF Works
      <4> QED BY <3>5, <4>1 DEF Forwarded, Simulated, Arbitrated, Locked
    <3>8. w.arb.saved \in [Stack -> Seq(AnyRequest)]
      BY <3>1 DEF Works, WorkSet, ArbState, AnyRequest
    <3> QED BY <3>1, <3>7, <3>8 DEF Stalled
  <2>2. arb' = handleCmdReqCommon(Work, Head(arbq)).arb /\ Work.arb = arb
    BY <1>1 DEF HciCmdArbIfaceHandler, hci_cmd_arb_iface_msg_handler, Work
  <2> QED BY <2>1, <2>2
<1>2. HciInv => [\A s \in Stack : Late(s) => Waits(s)]_vars
  BY <1>1
<1> QED BY <1>2, InvHolds, PTL DEF NoOvertaking
=============================================================================
