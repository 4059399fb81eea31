----------------------------- MODULE HciCmdArb -----------------------------
(***************************************************************************)
(* The HCI command arbiter of the microstack (bt/hci/hci_arbiter).  Two    *)
(* Bluetooth hosts share one controller: the primary stack of the          *)
(* application processor, whose commands arrive over glink, and the        *)
(* microstack of the DSP.  The arbiter task locks the controller for one   *)
(* of them, saves the commands of the other, and arbitrates the LE scan    *)
(* that both may ask for; the DM_HCI task decides for each event of the    *)
(* controller which of the two it is for, and sends the arbiter a house    *)
(* cleaning message when a command has been answered.                      *)
(*                                                                         *)
(* The two hosts and the controller are external.  `for' in a message      *)
(* names the asker of the command; the code never sees it.                 *)
(***************************************************************************)
EXTENDS Naturals, Sequences, FiniteSets, SequencesExt

CONSTANTS
  Credits,     \* num_hci_command_pkts that the controller grants
  MaxPrimary,  \* bound: commands of the primary stack
  MaxMicro,    \* bound: commands of the microstack
  MaxAsync     \* bound: events of the controller that answer no command

ASSUME HciCmdArbAssumption ==
  /\ Credits \in Nat \ {0}
  /\ {MaxPrimary, MaxMicro, MaxAsync} \subseteq Nat

Stack == {"primary", "micro"}
Other(s) == CHOOSE t \in Stack : t # s

\* "param", "enable", "disable": LE extended scan; "other": any other HCI or
\* vendor specific command; "peri": a peripheral command of the primary stack.
Op == {"param", "enable", "disable", "other", "peri"}
ScanOp == {"param", "enable", "disable"}

\* The opcode does not tell an enable from a disable.
Opcode(op) == IF op \in {"enable", "disable"} THEN "scan_enable" ELSE op

VARIABLES
  host,    \* external: scan state of each stack, "idle", "set" or "on"
  waits,   \* the commands of each stack that are not answered, in order
  issued,  \* the bounded commands and events so far
  credit,  \* micro_stack_command_credit_available
  arbq,    \* the queue of the arbiter task
  dmq,     \* the queue of the DM_HCI task
  arb,     \* hciCmdArbData and hciBleScanArb
  ctrl,    \* external: commands at the controller
  scanning,\* external: the controller scans
  seen     \* history: the unusual things that have happened

vars == <<host, waits, issued, credit, arbq, dmq, arb, ctrl, scanning, seen>>

\* What a stack may ask for; the scan state machine sends scan commands only.
OpsOf(s) == IF s = "primary" THEN Op ELSE IF s = "micro" THEN Op \ {"peri"} ELSE ScanOp

\* The messages of the two tasks, and the commands at the controller.
Request(s) == [k : {"cmd"}, from : {s}, op : OpsOf(s)]
Cleaning == [k : {"house_cleaning"}, from : Stack]
Command == {c \in [op : Op, for : Stack \cup {"spl"}] : c.op \in OpsOf(c.for)}
Event == {e \in [op : Op, for : Stack \cup {"spl"}, ok : BOOLEAN] : e.op \in OpsOf(e.for)}
         \cup [op : {"async"}, for : {"none"}, ok : {TRUE}]

ArbState ==
  [micro : {"unlock", "cmd"}, primary : {"unlock", "cmd", "peri"}, spl : BOOLEAN,
   count : 0..255, saved : [Stack -> Seq(Request("primary") \cup Request("micro"))],
   scanEnabled : [Stack -> BOOLEAN], paramsSet : [Stack -> BOOLEAN],
   sm : {"idle", "disabling", "setting", "enabling"}]

Unusual == {"pipelined", "peri", "early", "wrapped", "arbitrated", "hung"}

TypeOK ==
  /\ host \in [Stack -> {"idle", "set", "on"}]
  /\ waits \in [Stack -> Seq(Op)] /\ \A s \in Stack : waits[s] \in Seq(OpsOf(s))
  /\ issued \in [Stack \cup {"async"} -> Nat]
  /\ credit \in 0..Credits
  /\ arbq \in Seq(Request("primary") \cup Request("micro") \cup Cleaning)
  /\ dmq \in Seq(Event)
  /\ ctrl \in Seq(Command)
  /\ arb \in ArbState /\ \A s \in Stack : arb.saved[s] \in Seq(Request(s))
  /\ scanning \in BOOLEAN
  /\ seen \subseteq Unusual

HciCmdArbInit ==
  [micro |-> "unlock", primary |-> "unlock", spl |-> FALSE, count |-> 0,
   saved |-> [s \in Stack |-> <<>>],
   scanEnabled |-> [s \in Stack |-> FALSE], paramsSet |-> [s \in Stack |-> FALSE],
   sm |-> "idle"]

Init ==
  /\ host = [s \in Stack |-> "idle"]
  /\ waits = [s \in Stack |-> <<>>]
  /\ issued = [x \in Stack \cup {"async"} |-> 0]
  /\ credit = 1
  /\ arbq = <<>> /\ dmq = <<>> /\ ctrl = <<>>
  /\ arb = HciCmdArbInit
  /\ scanning = FALSE
  /\ seen = {}

-----------------------------------------------------------------------------
(* The lock.  The operators below take and return the arbiter's state      *)
(* together with what it sends: w.arb, w.ctrl, w.dmq and w.seen.           *)

Work == [arb |-> arb, ctrl |-> ctrl, dmq |-> dmq, seen |-> seen]

\* Mutant: the primary stack does not wait for the microstack.
LockedByScanOnly(sender, a) ==
  \/ a.spl
  \/ sender = "micro" /\ (a.micro # "unlock" \/ a.primary # "unlock")

IsHciCmdArbQueueLocked(sender, a) ==
  \/ a.spl
  \/ sender # "spl" /\ a.micro # "unlock"
  \/ sender = "micro" /\ a.primary # "unlock"

HciCmdArbLockQueue(sender, id, a) ==
  IF sender = "micro" THEN [a EXCEPT !.micro = id]
  ELSE IF sender = "primary" THEN [a EXCEPT !.primary = id, !.count = (@ + 1) % 256]
  ELSE [a EXCEPT !.spl = TRUE]

\* Mutant: the first answer releases the primary stack's lock.
UnlockAtOnce(sender, a) ==
  IF sender = "micro" THEN [a EXCEPT !.micro = "unlock"]
  ELSE IF sender = "primary"
       THEN [a EXCEPT !.count = (@ + 255) % 256, !.primary = "unlock"]
  ELSE [a EXCEPT !.spl = FALSE]

HciCmdArbUnlockQueue(sender, a) ==
  IF sender = "micro" THEN [a EXCEPT !.micro = "unlock"]
  ELSE IF sender = "primary"
       THEN [a EXCEPT !.count = (@ + 255) % 256,
                      !.primary = IF a.count = 1 THEN "unlock" ELSE @]
  ELSE [a EXCEPT !.spl = FALSE]

\* The count of the primary stack's locks has one byte.
Wraps(sender, a) == IF sender = "primary" /\ a.count = 255 THEN {"wrapped"} ELSE {}

CsrHciCommandReqSend(op, for, w) == [w EXCEPT !.ctrl = Append(@, [op |-> op, for |-> for])]

\* hciBleScanSendSimulatedScanEnableResponse and ...ScanParamResponse
SimulateResponse(op, for, w) ==
  [w EXCEPT !.dmq = Append(@, [op |-> op, for |-> for, ok |-> TRUE])]

-----------------------------------------------------------------------------
(* LE scan arbitration *)

triggerScanStateMachine(w) ==
  CsrHciCommandReqSend("disable", "spl",
    [w EXCEPT !.arb = [HciCmdArbLockQueue("spl", "scan", @) EXCEPT !.sm = "disabling"],
              !.seen = @ \cup {"arbitrated"}])

\* HciBleScanArbDeinit
exitScanStateMachine(w) ==
  [w EXCEPT !.arb = [HciCmdArbUnlockQueue("spl", @) EXCEPT
                       !.sm = "idle",
                       !.scanEnabled = [s \in Stack |-> FALSE],
                       !.paramsSet = [s \in Stack |-> FALSE]]]

\* Every path of HciBleScanArbitration, and the send that follows FALSE.
ScanParam(s, w) ==
  IF s = "primary" /\ w.arb.scanEnabled["micro"] THEN triggerScanStateMachine(w)
  ELSE IF s = "micro" /\ w.arb.paramsSet["primary"] THEN SimulateResponse("param", s, w)
  ELSE CsrHciCommandReqSend("param", s, [w EXCEPT !.arb.paramsSet[s] = TRUE])

ScanEnable(s, w) ==
  LET v == [w EXCEPT !.arb.scanEnabled[s] = TRUE]
  IN  IF s = "micro" /\ w.arb.scanEnabled["primary"] THEN SimulateResponse("enable", s, v)
      ELSE CsrHciCommandReqSend("enable", s, v)

\* Mutant: the disable reaches the controller whoever else scans.
ScanDisableAlways(s, w) ==
  CsrHciCommandReqSend("disable", s, [w EXCEPT !.arb.scanEnabled[s] = FALSE])

ScanDisable(s, w) ==
  LET v == [w EXCEPT !.arb.scanEnabled[s] = FALSE]
  IN  IF w.arb.scanEnabled[Other(s)] THEN SimulateResponse("disable", s, v)
      ELSE CsrHciCommandReqSend("disable", s, v)

\* The state machine takes the answer to its own command.
handleEventsScanArbStateMachine(w) ==
  CASE w.arb.sm = "disabling" ->
         CsrHciCommandReqSend("param", "spl",
           [w EXCEPT !.arb.sm = "setting", !.arb.paramsSet["primary"] = TRUE])
    [] w.arb.sm = "setting" -> CsrHciCommandReqSend("enable", "spl", [w EXCEPT !.arb.sm = "enabling"])
    [] w.arb.sm = "enabling" -> exitScanStateMachine(SimulateResponse("param", "primary", w))

-----------------------------------------------------------------------------
(* The arbiter task *)

\* hciCmdArbCmdHandler, hciCmdArbVSCmdHandler and hciPeriCmdArbCmdHandler
Dispatch(m, w) ==
  CASE m.op = "param" -> ScanParam(m.from, w)
    [] m.op = "enable" -> ScanEnable(m.from, w)
    [] m.op = "disable" -> ScanDisable(m.from, w)
    [] m.op = "other" -> CsrHciCommandReqSend("other", m.from, w)
    [] m.op = "peri" -> CsrHciCommandReqSend("peri", m.from, [w EXCEPT !.seen = @ \cup {"peri"}])

handleCmdReqCommon(w, m) ==
  IF IsHciCmdArbQueueLocked(m.from, w.arb)
  THEN [w EXCEPT !.arb.saved[m.from] = Append(@, m)]
  ELSE LET id == IF m.op = "peri" THEN "peri" ELSE "cmd"
       IN  Dispatch(m, [w EXCEPT !.arb = HciCmdArbLockQueue(m.from, id, @),
                                 !.seen = @ \cup Wraps(m.from, w.arb)])

\* The loop pops the saved commands of the primary stack until none is left:
\* one that finds the queue locked is pushed back and popped again, for ever.
RestorePrimary(w) ==
  LET saved == w.arb.saved["primary"]
      after[k \in 0..Len(saved)] ==
        IF k = 0 THEN [w EXCEPT !.arb.saved["primary"] = <<>>]
        ELSE handleCmdReqCommon(after[k - 1], saved[k])
      v == after[Len(saved)]
  IN  IF v.arb.saved["primary"] = <<>> THEN v ELSE [v EXCEPT !.seen = @ \cup {"hung"}]

\* Mutant: only the primary stack's saved commands are restored.
RestoreMicroNever(w) == w

RestoreMicro(w) ==
  IF \/ "hung" \in w.seen
     \/ IsHciCmdArbQueueLocked("micro", w.arb)
     \/ w.arb.saved["micro"] = <<>>
  THEN w
  ELSE handleCmdReqCommon([w EXCEPT !.arb.saved["micro"] = Tail(@)], Head(w.arb.saved["micro"]))

\* Mutant: the saved commands are restored before the lock is released.
RestoreThenUnlock(sender, w) ==
  LET v == RestoreMicro(RestorePrimary(w))
  IN  [v EXCEPT !.arb = HciCmdArbUnlockQueue(sender, @)]

hciCmdArbRestoreQueueHandler(sender, w) ==
  RestoreMicro(RestorePrimary([w EXCEPT !.arb = HciCmdArbUnlockQueue(sender, @)]))

hci_cmd_arb_iface_msg_handler(m, w) ==
  IF m.k = "house_cleaning" THEN hciCmdArbRestoreQueueHandler(m.from, w)
  ELSE handleCmdReqCommon(w, m)

\* All tasks of the microstack share one thread: none runs once it spins.
HciCmdArbIfaceHandler ==
  /\ "hung" \notin seen
  /\ arbq # <<>>
  /\ LET w == hci_cmd_arb_iface_msg_handler(Head(arbq), Work)
     IN  arb' = w.arb /\ ctrl' = w.ctrl /\ dmq' = w.dmq /\ seen' = w.seen
  /\ arbq' = Tail(arbq)
  /\ UNCHANGED <<host, waits, issued, credit, scanning>>

-----------------------------------------------------------------------------
(* The DM_HCI task *)

IsMicroStackWaitingForAnyResponseEvent == arb.micro = "cmd"
HasPrimaryStackTakenTheHCICmdArbLock == arb.primary = "cmd"

\* hci_cc_cs_common: the first unanswered command with the opcode, if any.
Answer(q, op) ==
  LET match == {i \in DOMAIN q : Opcode(q[i]) = Opcode(op)}
  IN  IF match = {} THEN q ELSE RemoveAt(q, CHOOSE i \in match : \A j \in match : i <= j)

HciCommandArbHouseCleaningSend(sender) ==
  arbq' = Append(arbq, [k |-> "house_cleaning", from |-> sender])

IsMeantForSpecialArbitrationLogic(e) ==
  arb.spl /\ e.op \in {"param", "enable", "disable"}

\* The state machine's own answers; a failed one leaves everything locked.
EventForScanArbitration(e) ==
  /\ IsMeantForSpecialArbitrationLogic(e)
  /\ LET w == [Work EXCEPT !.dmq = Tail(@)]
         mine == IF e.op = "param" THEN arb.sm = "setting" ELSE arb.sm \in {"disabling", "enabling"}
         v == IF e.ok /\ mine THEN handleEventsScanArbStateMachine(w) ELSE w
     IN  arb' = v.arb /\ ctrl' = v.ctrl /\ dmq' = v.dmq /\ seen' = v.seen
  /\ UNCHANGED <<host, waits, issued, credit, arbq, scanning>>

\* dm_ev_command_complete, and its twin for vendor specific commands.
EventForMicroStack(e) ==
  /\ ~IsMeantForSpecialArbitrationLogic(e)
  /\ IsMicroStackWaitingForAnyResponseEvent
  /\ e.op \notin {"async", "peri"}
  /\ HciCommandArbHouseCleaningSend("micro")
  /\ waits' = [waits EXCEPT !["micro"] = Answer(@, e.op)]
  /\ credit' = Credits
  /\ dmq' = Tail(dmq)
  /\ UNCHANGED <<host, issued, arb, ctrl, scanning, seen>>

EventForPrimaryStack(e) ==
  /\ ~IsMeantForSpecialArbitrationLogic(e)
  /\ ~IsMicroStackWaitingForAnyResponseEvent \/ e.op \in {"async", "peri"}
  /\ IF HasPrimaryStackTakenTheHCICmdArbLock
     THEN /\ HciCommandArbHouseCleaningSend("primary")
          /\ seen' = IF e.op = "async" THEN seen \cup {"early"} ELSE seen
     ELSE UNCHANGED <<arbq, seen>>
  /\ waits' = [waits EXCEPT !["primary"] = Answer(@, e.op)]
  /\ dmq' = Tail(dmq)
  /\ UNCHANGED <<host, issued, credit, arb, ctrl, scanning>>

HciArbProcessHciEvents ==
  /\ "hung" \notin seen
  /\ dmq # <<>>
  /\ \/ EventForScanArbitration(Head(dmq))
     \/ EventForMicroStack(Head(dmq))
     \/ EventForPrimaryStack(Head(dmq))

-----------------------------------------------------------------------------
(* The two stacks and the controller *)

\* A host sets the scan parameters before it enables, does neither while its
\* own scan is on, and waits for the answer to one scan command before the next.
HostStep(s, op) ==
  /\ op \in ScanOp => \A i \in DOMAIN waits[s] : waits[s][i] \notin ScanOp
  /\ op = "param" => host[s] # "on"
  /\ op = "enable" => host[s] = "set"
  /\ op = "disable" => host[s] = "on"
  /\ host' = [host EXCEPT ![s] = CASE op = "param" -> "set" [] op = "enable" -> "on"
                                   [] op = "disable" -> "set" [] OTHER -> @]

Issue(s, op) ==
  /\ issued[s] < (IF s = "primary" THEN MaxPrimary ELSE MaxMicro)
  /\ HostStep(s, op)
  /\ issued' = [issued EXCEPT ![s] = @ + 1]
  /\ waits' = [waits EXCEPT ![s] = Append(@, op)]
  /\ arbq' = Append(arbq, [k |-> "cmd", from |-> s, op |-> op])
  /\ UNCHANGED <<dmq, arb, ctrl, scanning>>

\* HciArbiterSendHciMsg: as many at once as the controller grants.
HciArbiterSendHciMsg ==
  \E op \in Op :
    /\ Len(waits["primary"]) < Credits
    /\ Issue("primary", op)
    /\ seen' = IF waits["primary"] = <<>> THEN seen ELSE seen \cup {"pipelined"}
    /\ UNCHANGED credit

\* tx_commands_to_hci and CsrBtHcishimHciCommandReq
tx_commands_to_hci ==
  \E op \in Op \ {"peri"} :
    /\ "hung" \notin seen
    /\ credit > 0
    /\ Issue("micro", op)
    /\ credit' = credit - 1
    /\ UNCHANGED seen

\* The controller completes its commands in any order and refuses to change
\* the parameters of a scan that is on.
ControllerAnswers ==
  \E i \in DOMAIN ctrl :
    LET c == ctrl[i]
        ok == c.op = "param" => ~scanning
    IN  /\ scanning' = CASE c.op = "enable" -> TRUE [] c.op = "disable" -> FALSE [] OTHER -> scanning
        /\ ctrl' = RemoveAt(ctrl, i)
        /\ dmq' = Append(dmq, [op |-> c.op, for |-> c.for, ok |-> ok])
        /\ UNCHANGED <<host, waits, issued, credit, arbq, arb, seen>>

ControllerReports ==
  /\ issued["async"] < MaxAsync
  /\ issued' = [issued EXCEPT !["async"] = @ + 1]
  /\ dmq' = Append(dmq, [op |-> "async", for |-> "none", ok |-> TRUE])
  /\ UNCHANGED <<host, waits, credit, arbq, arb, ctrl, scanning, seen>>

-----------------------------------------------------------------------------
Next ==
  \/ HciArbiterSendHciMsg
  \/ tx_commands_to_hci
  \/ HciCmdArbIfaceHandler
  \/ HciArbProcessHciEvents
  \/ ControllerAnswers
  \/ ControllerReports

Spec == Init /\ [][Next]_vars

-----------------------------------------------------------------------------
(* Properties *)

CountCmds(q, s) == Cardinality({i \in DOMAIN q : q[i].for = s})
InArbQueue(k, s) == Cardinality({i \in DOMAIN arbq : arbq[i].k = k /\ arbq[i].from = s})
Queued(s) == InArbQueue("cmd", s)
InScanArbitration(s) == IF s = "primary" /\ arb.sm # "idle" THEN 1 ELSE 0
Started(s) == CountCmds(ctrl, s) + CountCmds(dmq, s) + InScanArbitration(s)

\* No event has released a lock early, and the count has not wrapped.
Calm == seen \cap {"early", "wrapped"} = {}

\* The controller never works for both stacks at once, and while the scan is
\* arbitrated it works for neither.
OneStackAtATime ==
  Calm =>
    /\ Started("primary") = 0 \/ Started("micro") = 0
    /\ CountCmds(ctrl, "spl") > 0 => CountCmds(ctrl, "micro") = 0

\* Every unanswered command of a stack is in exactly one place, so that no
\* answer goes to the stack that did not ask and none is dropped.
EveryCommandAccounted ==
  Calm =>
    \A s \in Stack : Len(waits[s]) = Queued(s) + Len(arb.saved[s]) + Started(s)

\* A command is never left waiting.  The arbiter spins on the saved commands
\* only when the primary stack had several under way, or an event that answers
\* nothing released its lock; and nothing waits with nothing under way that
\* could answer it, unless an event released the lock early or a peripheral
\* command never released it.
NoCommandStranded ==
  /\ "hung" \in seen /\ Calm => "pipelined" \in seen
  /\ ctrl = <<>> /\ dmq = <<>> /\ arbq = <<>> /\ Calm /\ seen \cap {"peri", "hung"} = {}
       => \A s \in Stack : waits[s] = <<>>

Quiet == /\ \A s \in Stack : waits[s] = <<>>
         /\ arbq = <<>>
         /\ dmq = <<>>

\* When nothing is under way the controller scans exactly if a stack wants it
\* to, as long as the scan state machine has not run.
ScanServed ==
  Quiet /\ Calm /\ "arbitrated" \notin seen
    => (scanning <=> \E s \in Stack : host[s] = "on")

\* A new command never overtakes one of the same stack that is saved.  The end
\* of an arbitration is an exception for the primary stack: it releases the lock
\* and leaves the saved commands where they are.
NoOvertaking ==
  [][ \A s \in Stack :
        (/\ Calm'
         /\ s = "micro" \/ "arbitrated" \notin seen
         /\ arb.saved[s] # <<>>
         /\ HciCmdArbIfaceHandler
         /\ Head(arbq).k = "cmd"
         /\ Head(arbq).from = s)
        => (arb'.saved[s] = Append(arb.saved[s], Head(arbq))) ]_vars
=============================================================================
