------------------------------ MODULE BtState ------------------------------
(***************************************************************************)
(* Switching Bluetooth on and off: the Bluetooth state manager of the      *)
(* offload manager (offload_mgr/bt_state_mgr), the start and the stop of   *)
(* the microstack (product/bt_main.c, microstack_mgr/bmm_btoff_event.c),   *)
(* the pointer through which the glink thread hands HCI packets to the     *)
(* arbiter (offload_mgr_transport_shim.c) and the channel states of the    *)
(* LPAI transport (glink/src/lpai_transport.c).                            *)
(*                                                                         *)
(* Three threads of the DSP take part: the glink thread (callbacks), the   *)
(* offload manager thread (pipe) and the microstack thread, on which the   *)
(* callback of the state manager runs.  The Bluetooth HAL of Android, the  *)
(* controller and glink itself are external.                               *)
(***************************************************************************)
EXTENDS Naturals, Sequences, FiniteSets

CONSTANTS
  Channel,     \* the glink channels of the HAL (HCI, socket, GATT)
  MaxLives,    \* bound: how often the HAL is started
  MaxOn,       \* bound: how often it enables Bluetooth
  MaxTraffic,  \* bound: socket messages, HCI packets and modes unknown it sends
  MaxCrash,    \* bound: crashes of the HAL
  PipeSize     \* OFFLOAD_MGR_PIPE_ELEMENT_COUNT

ASSUME BtStateAssumption ==
  /\ IsFiniteSet(Channel)
  /\ {MaxLives, MaxOn, MaxTraffic, MaxCrash, PipeSize} \subseteq Nat

\* bt_on_mode_t with the numbers of the enumeration: the cast to bool in
\* offload_mgr_client_interface_init and _deinit depends on them.
OFFLD == 0
PASSTHROUGH == 1
OFFLD_SSR == 2
PASSTHROUGH_SSR == 3
DEFAULT == 255
OnMode == {OFFLD, PASSTHROUGH}
Mode == OnMode \cup {OFFLD_SSR, PASSTHROUGH_SSR, DEFAULT}

\* (bool)mode == BTHOST_CONFIG_OFFLOAD_MODE_MASK
IsOffloadFlag(mode) == (IF mode = 0 THEN 0 ELSE 1) = 0

BMM_MAX_STOP_RETRY_ATTEMPTS == 2

\* An enable or a disable with a mode that is none.
OtherMode == {"enable_other", "disable_other"}

\* The messages of the offload manager's pipe and of the BMM's queue.
PipeMsg ==
  [op : {"enable"}, config : OnMode] \cup [op : {"disable"}, reason : {"user", "ssr"}]
  \cup [op : {"socket", "open", "done"} \cup OtherMode]
  \cup [op : {"channel"}, chan : Channel]
StackMsg ==
  [op : {"prepare_stop"}, reason : {"user", "ssr"}] \cup [op : {"activated"}, ok : BOOLEAN]
  \cup [op : {"mask", "bt_off", "crash"}]
BmmState ==
  [state : {"none", "booting", "ready", "failed"},
   subscribed : BOOLEAN, telling : BOOLEAN, asked : Nat]

VARIABLES
  hal,          \* external: what the HAL believes
  count,        \* the bounded events so far
  link,         \* external: glink's own state of each channel
  chnlState,    \* channel->chnl_state, which the queued events point at
  glink,        \* the glink thread: "idle", or past the test of the pointer
  pipe,         \* messages for the offload manager thread
  thread,       \* where the offload manager thread is
  config,       \* the local config of bt_state_on_handle, DEFAULT elsewhere
  btOnMode,     \* bt_on_mode
  live,         \* offload_instances holds an instance of the HAL
  registered,   \* MicroStackRegisterAppCb of BT_STATE_MGR_HNDL
  arbiter,      \* BT_Offload_Post_HciArb_HciMsg # NULL
  clients,      \* the client interface is initialised
  uapp,         \* the Bluetooth status last sent to the watch
  island,       \* the vote of this subsystem: "allow" or "restrict"
  inst,         \* schedInstance and its thread
  stackQ,       \* messages for the BMM from other threads and the controller
  bmm,          \* gBmm.state, subscriptions, and the indication under way
  timers,       \* running sched-task-wait timers
  retryCount,   \* retryCount, which outlives the microstack
  ctrl          \* external: the controller, "ok" or "dead"

halVars == <<hal, count>>
glinkVars == <<link, chnlState, glink>>
mgrVars == <<config, btOnMode, live, registered, arbiter, clients, uapp, island>>
stackVars == <<inst, stackQ, bmm, timers, retryCount>>
vars == <<halVars, glinkVars, pipe, thread, mgrVars, stackVars, ctrl>>

TypeOK ==
  /\ hal \in {"down", "off", "enabling", "on", "disabling", "resetting", "dead"}
  /\ count \in [{"life", "on", "traffic", "crash"} -> Nat]
  /\ link \in [Channel -> {"opened", "connected", "remote_closed", "closing", "closed"}]
  /\ chnlState \in [Channel -> {"none", "connected", "remote", "local"}]
  /\ glink \in {"idle", "hci"}
  /\ pipe \in Seq(PipeMsg)
  /\ thread \in {"idle", "socket", "open", "starting", "stopping"}
  /\ btOnMode \in Mode /\ config \in OnMode \cup {DEFAULT}
  /\ {live, registered, arbiter, clients} \subseteq BOOLEAN
  /\ uapp \in {"on", "off"}
  /\ island \in {"allow", "restrict"}
  /\ inst \in {"null", "up", "stopping", "deinit", "ended"}
  /\ stackQ \in Seq(StackMsg)
  /\ bmm \in BmmState
  /\ timers \in Nat /\ retryCount \in Nat
  /\ ctrl \in {"ok", "dead"}

Init ==
  /\ hal = "down" /\ ctrl = "ok"
  /\ count = [e \in {"life", "on", "traffic", "crash"} |-> 0]
  /\ link = [c \in Channel |-> "opened"]
  /\ chnlState = [c \in Channel |-> "none"]
  /\ glink = "idle" /\ pipe = <<>> /\ thread = "idle"
  /\ config = DEFAULT /\ btOnMode = DEFAULT /\ live = FALSE /\ registered = FALSE /\ arbiter = FALSE
  /\ clients = FALSE /\ uapp = "off" /\ island = "allow"
  /\ inst = "null" /\ stackQ = <<>> /\ timers = 0 /\ retryCount = 0
  /\ bmm = [state |-> "none", subscribed |-> FALSE, telling |-> FALSE, asked |-> 0]

Count(e) == count' = [count EXCEPT ![e] = @ + 1]

\* Offload_Mgr_Post_Event: a full pipe suspends the poster.
Post(msg) == Len(pipe) < PipeSize /\ pipe' = Append(pipe, msg)

\* The scheduler exists; its thread still delivers messages.
Exists == inst \in {"up", "stopping", "deinit"}
Listening == inst \in {"up", "stopping"}

-----------------------------------------------------------------------------
(* The glink thread.  It runs one callback at a time.                       *)

\* LPAI_Transport_Glink_Channel_State_Cb: the event names the channel, and
\* the state is read from the channel when the event is handled.
ChannelEvent(c, state) ==
  /\ glink = "idle"
  /\ chnlState' = [chnlState EXCEPT ![c] = state]
  /\ Post([op |-> "channel", chan |-> c])

\* External: the starting HAL opens its channels, the stopping one closes
\* them and those of a dead one are closed for it.
ChannelConnected(c) ==
  /\ hal = "down" /\ link[c] = "opened"
  /\ link' = [link EXCEPT ![c] = "connected"]
  /\ ChannelEvent(c, "connected")
  /\ UNCHANGED <<halVars, glink, thread, mgrVars, stackVars, ctrl>>

ChannelRemoteDisconnected(c) ==
  /\ hal = "dead" /\ link[c] = "connected"
  /\ link' = [link EXCEPT ![c] = "remote_closed"]
  /\ ChannelEvent(c, "remote")
  /\ UNCHANGED <<halVars, glink, thread, mgrVars, stackVars, ctrl>>

ChannelLocalDisconnected(c) ==
  /\ link[c] = "closing"
  /\ link' = [link EXCEPT ![c] = "closed"]
  /\ ChannelEvent(c, "local")
  /\ UNCHANGED <<halVars, glink, thread, mgrVars, stackVars, ctrl>>

\* Offload_Mgr_Post_arbiter_event: enable and disable go through the pipe...
StateEvent(msg) == glink = "idle" /\ Post(msg)

\* ... an HCI packet through the pointer, tested here ...
HciPacketTest ==
  /\ hal = "on" /\ glink = "idle" /\ count["traffic"] < MaxTraffic
  /\ glink' = IF arbiter THEN "hci" ELSE "idle"
  /\ Count("traffic")
  /\ UNCHANGED <<hal, link, chnlState, pipe, thread, mgrVars, stackVars, ctrl>>

\* ... and called here, which puts a message into the scheduler's instance.
HciPacketCall ==
  /\ glink = "hci" /\ Exists
  /\ glink' = "idle"
  /\ UNCHANGED <<halVars, link, chnlState, pipe, thread, mgrVars, stackVars, ctrl>>

\* Offload_Mgr_Post_Transport_Event: an offload request of the HAL, or a
\* message of the watch, which sends whenever it likes.
SocketMessage(op) ==
  /\ glink = "idle" /\ count["traffic"] < MaxTraffic
  /\ op = "open" => hal = "on" /\ btOnMode = OFFLD
  /\ Post([op |-> op])
  /\ Count("traffic")
  /\ UNCHANGED <<hal, glinkVars, thread, mgrVars, stackVars, ctrl>>

-----------------------------------------------------------------------------
(* The HAL (external).                                                      *)

\* It is up when its channels are connected.  A HAL that replaces a dead one
\* enables Bluetooth only after the DSP has handled what the dead one asked
\* for and has stopped the microstack.
HalUp ==
  /\ hal = "down" /\ count["life"] < MaxLives
  /\ \A c \in Channel : link[c] = "connected"
  /\ hal' = "off"
  /\ Count("life")
  /\ UNCHANGED <<glinkVars, pipe, thread, mgrVars, stackVars, ctrl>>

HalEnables(mode) ==
  /\ hal = "off" /\ inst = "null" /\ count["on"] < MaxOn
  /\ \A i \in DOMAIN pipe : pipe[i].op # "enable"
  /\ StateEvent([op |-> "enable", config |-> mode])
  /\ hal' = "enabling" /\ ctrl' = "ok"
  /\ Count("on")
  /\ UNCHANGED <<glinkVars, thread, mgrVars, stackVars>>

\* BT_DISABLE, once for each enable: "disabling" waits for the stop of a
\* user, "resetting" for that of an SSR, which a HAL with a dead controller
\* asks for.
HalDisables(reason) ==
  /\ hal = "on" /\ (ctrl = "dead" => reason = "ssr")
  /\ StateEvent([op |-> "disable", reason |-> reason])
  /\ hal' = IF reason = "user" THEN "disabling" ELSE "resetting"
  /\ UNCHANGED <<count, glinkVars, thread, mgrVars, stackVars, ctrl>>

\* A HAL that is up asks for a mode the DSP does not know.
HalAsksOther(op) ==
  /\ hal = (IF op = "enable_other" THEN "off" ELSE "on")
  /\ count["traffic"] < MaxTraffic
  /\ StateEvent([op |-> op])
  /\ Count("traffic")
  /\ UNCHANGED <<hal, glinkVars, thread, mgrVars, stackVars, ctrl>>

\* The orderly end ("HLOS HAL disconnect with Glink channel during BT Off
\* sequence") and the crash: from here on nothing is received.
HalExits ==
  /\ hal = "off" /\ hal' = "dead"
  /\ UNCHANGED <<count, glinkVars, pipe, thread, mgrVars, stackVars, ctrl>>

HalCrashes ==
  /\ hal \in {"enabling", "on", "disabling", "resetting"}
  /\ count["crash"] < MaxCrash
  /\ hal' = "dead"
  /\ Count("crash")
  /\ UNCHANGED <<glinkVars, pipe, thread, mgrVars, stackVars, ctrl>>

HalGone ==
  /\ hal = "dead"
  /\ \A c \in Channel : link[c] # "connected"
  /\ hal' = "down"
  /\ UNCHANGED <<count, glinkVars, pipe, thread, mgrVars, stackVars, ctrl>>

\* BTSS crash while Bluetooth is on; the microstack is told of it.
ControllerCrashes ==
  /\ ctrl = "ok" /\ Listening
  /\ hal \in {"enabling", "on", "disabling"} /\ count["crash"] < MaxCrash
  /\ ctrl' = "dead"
  /\ stackQ' = Append(stackQ, [op |-> "crash"])
  /\ Count("crash")
  /\ UNCHANGED <<hal, glinkVars, pipe, thread, mgrVars, inst, bmm, timers, retryCount>>

-----------------------------------------------------------------------------
(* The offload manager thread: Offload_Mgr_Task_Handler.                    *)

Receive(op) == thread = "idle" /\ pipe # <<>> /\ Head(pipe).op = op /\ pipe' = Tail(pipe)

\* A message that reads and writes the instance tables; the thread is inside
\* the handler from SocketBegin to SocketEnd.
SocketBegin ==
  /\ \E op \in {"socket", "open"} : Receive(op) /\ thread' = op
  /\ UNCHANGED <<halVars, glinkVars, mgrVars, stackVars, ctrl>>

SocketEnd ==
  /\ thread \in {"socket", "open"} /\ thread' = "idle"
  /\ live' = (live \/ thread = "open")
  /\ UNCHANGED <<config, halVars, glinkVars, pipe, btOnMode, registered, arbiter, clients,
                 uapp, island, stackVars, ctrl>>

\* MicroStackStart, which does nothing when the instance exists.
MicroStackStart ==
  IF inst = "null"
  THEN /\ inst' = "up" /\ timers' = 0
       /\ bmm' = [state |-> "booting", subscribed |-> FALSE, telling |-> FALSE, asked |-> 0]
       /\ stackQ' = <<[op |-> "mask"]>>
  ELSE /\ stackQ' = Append(stackQ, [op |-> "mask"])
       /\ UNCHANGED <<inst, timers, bmm>>

\* bt_state_on_handle up to the request for the event mask ...
BtOnStart ==
  /\ Receive("enable")
  /\ island' = "restrict" /\ registered' = TRUE
  /\ MicroStackStart
  /\ thread' = "starting" /\ config' = Head(pipe).config
  /\ UNCHANGED <<halVars, glinkVars, btOnMode, live, arbiter, clients, uapp,
                 retryCount, ctrl>>

\* ... and its last assignment, bt_on_mode = config.
BtOnSetMode ==
  /\ thread = "starting" /\ thread' = "idle"
  /\ btOnMode' = config /\ config' = DEFAULT
  /\ UNCHANGED <<halVars, glinkVars, pipe, live, registered, arbiter, clients,
                 uapp, island, stackVars, ctrl>>

\* The same handler returns at once when the configuration is neither OFFLD nor
\* PASSTHROUGH: the HAL gets no answer.
BtOnRefuse ==
  /\ Receive("enable_other")
  /\ UNCHANGED <<halVars, glinkVars, thread, mgrVars, stackVars, ctrl>>

PrepareStopReq(reason) ==
  /\ Exists
  /\ stackQ' = Append(stackQ, [op |-> "prepare_stop", reason |-> reason])
  /\ island' = "restrict"

\* bt_state_off_handle: FMD and SSR stop without a word to the controller.
BtOff ==
  /\ Receive("disable")
  /\ PrepareStopReq(IF Head(pipe).reason = "user" THEN "user" ELSE "ssr")
  /\ UNCHANGED <<config, halVars, glinkVars, thread, btOnMode, live, registered, arbiter,
                 clients, uapp, inst, bmm, timers, retryCount, ctrl>>

\* The same handler returns at once when the mode is not below BT_OFF_MAX.
BtOffRefuse ==
  /\ Receive("disable_other")
  /\ UNCHANGED <<halVars, glinkVars, thread, mgrVars, stackVars, ctrl>>

\* bt_state_check_and_mock_off
MockOff ==
  IF btOnMode \in OnMode
  THEN /\ PrepareStopReq("user")
       /\ btOnMode' = IF btOnMode = PASSTHROUGH THEN PASSTHROUGH_SSR ELSE OFFLD_SSR
  ELSE UNCHANGED <<stackQ, island, btOnMode>>

\* Mutant: the channel is closed only when there is nothing to switch off.
CloseUnlessMocked ==
  /\ Receive("channel")
  /\ LET c == Head(pipe).chan IN
     \/ /\ chnlState[c] = "connected"
        /\ UNCHANGED <<link, btOnMode, island, stackQ>>
     \/ /\ chnlState[c] = "remote"
        /\ link' = IF link[c] = "remote_closed" /\ btOnMode \notin OnMode
                   THEN [link EXCEPT ![c] = "closing"] ELSE link
        /\ MockOff
     \/ /\ chnlState[c] = "local"
        /\ link' = IF link[c] = "closed" THEN [link EXCEPT ![c] = "opened"] ELSE link
        /\ UNCHANGED <<btOnMode, island, stackQ>>
  /\ UNCHANGED <<config, halVars, chnlState, glink, thread, live, registered,
                 arbiter, clients, uapp, inst, bmm, timers, retryCount, ctrl>>

\* LPAI_Transport_Handle_Glink_Channel_State.  glink refuses to close a
\* channel that is closing and to open one that is open.
HandleChannelState ==
  /\ Receive("channel")
  /\ LET c == Head(pipe).chan IN
     \/ /\ chnlState[c] = "connected"
        /\ UNCHANGED <<link, btOnMode, island, stackQ>>
     \/ /\ chnlState[c] = "remote"
        /\ link' = IF link[c] \in {"remote_closed", "connected"}
                   THEN [link EXCEPT ![c] = "closing"] ELSE link
        /\ MockOff
     \/ /\ chnlState[c] = "local"
        /\ link' = IF link[c] = "closed" THEN [link EXCEPT ![c] = "opened"] ELSE link
        /\ UNCHANGED <<btOnMode, island, stackQ>>
  /\ UNCHANGED <<config, halVars, chnlState, glink, thread, live, registered, arbiter, clients,
                 uapp, inst, bmm, timers, retryCount, ctrl>>

\* Mutant: the stop is posted and not waited for (CSR_SCHED_NO_WAIT_FOR_EXIT
\* without its counterpart).
StopWithoutWaiting ==
  /\ Receive("done")
  /\ inst' = IF inst = "null" THEN inst ELSE "stopping"
  /\ UNCHANGED <<halVars, glinkVars, thread, mgrVars, stackQ, bmm, timers,
                 retryCount, ctrl>>

\* OFFLOAD_MGR_MSG_MICROSTACK_PREP_STOP_DONE: MicroStackStop posts the stop
\* and waits for the scheduler's thread to end ...
StopBegin ==
  /\ Receive("done")
  /\ IF inst = "null"
     THEN UNCHANGED <<thread, inst>>
     ELSE thread' = "stopping" /\ inst' = "stopping"
  /\ UNCHANGED <<halVars, glinkVars, mgrVars, stackQ, bmm, timers, retryCount, ctrl>>

\* ... and only then clears schedInstance.
StopEnd ==
  /\ thread = "stopping" /\ inst = "ended"
  /\ thread' = "idle" /\ inst' = "null"
  /\ UNCHANGED <<halVars, glinkVars, pipe, mgrVars, stackQ, bmm, timers, retryCount, ctrl>>

-----------------------------------------------------------------------------
(* The microstack thread: the BMM and bt_state_mgr_microstack_cb.           *)

StackReceive(op) ==
  /\ Listening /\ ~bmm.telling
  /\ stackQ # <<>> /\ Head(stackQ).op = op

\* Mutant: BT_Offload_HciArbiter_Init is left to the first HCI packet.
InitializedWithoutArbiter(state) ==
  /\ arbiter' = arbiter
  /\ clients' = (clients \/ IsOffloadFlag(btOnMode))
  /\ bmm' = [bmm EXCEPT !.state = state, !.subscribed = TRUE, !.telling = TRUE]

\* BMM_INITIALIZED_IND: BT_Offload_HciArbiter_Init and the client interface,
\* chosen by the mode as it is now ...
InitializedInd(state) ==
  /\ arbiter' = TRUE
  /\ clients' = (clients \/ IsOffloadFlag(btOnMode))
  /\ bmm' = [bmm EXCEPT !.state = state, !.subscribed = TRUE, !.telling = TRUE]

\* ... then the tables (offload_mgr_sm_init) and the watch, by the mode as it
\* is then, and the HAL.
TellEnabled ==
  /\ Listening /\ bmm.telling
  /\ bmm' = [bmm EXCEPT !.telling = FALSE]
  /\ live' = (live /\ btOnMode # OFFLD)
  /\ uapp' = IF btOnMode = OFFLD THEN "on" ELSE uapp
  /\ island' = "allow"
  /\ hal' = IF hal = "enabling" THEN "on" ELSE hal
  /\ UNCHANGED <<config, count, glinkVars, pipe, thread, btOnMode, registered, arbiter,
                 clients, inst, stackQ, timers, retryCount, ctrl>>

\* BmmSetEventMaskReqHandler
SetEventMask ==
  /\ StackReceive("mask")
  /\ stackQ' = Tail(stackQ)
  /\ IF bmm.state \in {"ready", "failed"}
     THEN InitializedInd(bmm.state)
     ELSE bmm' = [bmm EXCEPT !.subscribed = TRUE] /\ UNCHANGED <<arbiter, clients>>
  /\ UNCHANGED <<config, halVars, glinkVars, pipe, thread, btOnMode, live, registered, uapp,
                 island, inst, timers, retryCount, ctrl>>

\* External: the transport is activated, or the attempt fails.
TransportActivated ==
  /\ Listening /\ bmm.state = "booting"
  /\ \A i \in DOMAIN stackQ : stackQ[i].op # "activated"
  /\ stackQ' = Append(stackQ, [op |-> "activated", ok |-> ctrl = "ok"])
  /\ UNCHANGED <<halVars, glinkVars, pipe, thread, mgrVars, inst, bmm, timers,
                 retryCount, ctrl>>

\* BmmActivateTransportCfmHandler; a failure is told like a success.
ActivateTransportCfm ==
  /\ StackReceive("activated")
  /\ stackQ' = Tail(stackQ)
  /\ LET state == IF Head(stackQ).ok THEN "ready" ELSE "failed" IN
       IF bmm.subscribed
       THEN InitializedInd(state)
       ELSE bmm' = [bmm EXCEPT !.state = state] /\ UNCHANGED <<arbiter, clients>>
  /\ UNCHANGED <<config, halVars, glinkVars, pipe, thread, btOnMode, live, registered, uapp,
                 island, inst, timers, retryCount, ctrl>>

\* BmmStartSchedTaskWaitTimer
StartWaitTimer == timers' = timers + 1 /\ retryCount' = retryCount + 1

\* BmmPrepareStopReqHandler: a user's stop asks the controller first.
PrepareStop ==
  /\ StackReceive("prepare_stop")
  /\ stackQ' = Tail(stackQ)
  /\ IF Head(stackQ).reason = "user"
     THEN bmm' = [bmm EXCEPT !.asked = @ + 1] /\ UNCHANGED <<timers, retryCount>>
     ELSE StartWaitTimer /\ UNCHANGED bmm
  /\ UNCHANGED <<halVars, glinkVars, pipe, thread, mgrVars, inst, ctrl>>

\* External: a live controller answers, over the activated transport.
ControllerAnswers ==
  /\ Listening /\ bmm.asked > 0 /\ ctrl = "ok" /\ bmm.state = "ready"
  /\ bmm' = [bmm EXCEPT !.asked = @ - 1]
  /\ stackQ' = Append(stackQ, [op |-> "bt_off"])
  /\ UNCHANGED <<halVars, glinkVars, pipe, thread, mgrVars, inst, timers,
                 retryCount, ctrl>>

\* BmmHciArbiterBtOffIndHandler
BtOffInd ==
  /\ StackReceive("bt_off")
  /\ stackQ' = Tail(stackQ)
  /\ StartWaitTimer
  /\ UNCHANGED <<halVars, glinkVars, pipe, thread, mgrVars, inst, bmm, ctrl>>

\* Mutant: the retries are not bounded, the count wraps.
WaitUntilEmpty(queueEmpty) ==
  /\ Listening /\ ~bmm.telling /\ timers > 0
  /\ IF queueEmpty
     THEN /\ retryCount' = 0 /\ timers' = timers - 1
          /\ arbiter' = FALSE
          /\ Post([op |-> "done"])
     ELSE /\ retryCount' = (retryCount % BMM_MAX_STOP_RETRY_ATTEMPTS) + 1
          /\ UNCHANGED <<timers, arbiter, pipe>>
  /\ UNCHANGED <<config, halVars, glinkVars, thread, btOnMode, live, registered,
                 clients, uapp, island, inst, stackQ, bmm, ctrl>>

\* schedTaskWaitTimerFire, with the answer of CsrSchedIsQueueEmpty, and
\* BMM_PREPARE_STOP_CFM in the callback.
WaitTimerFire(queueEmpty) ==
  /\ Listening /\ ~bmm.telling /\ timers > 0
  /\ IF queueEmpty \/ retryCount > BMM_MAX_STOP_RETRY_ATTEMPTS
     THEN /\ retryCount' = 0 /\ timers' = timers - 1
          /\ arbiter' = FALSE
          /\ Post([op |-> "done"])
     ELSE /\ retryCount' = retryCount + 1
          /\ UNCHANGED <<timers, arbiter, pipe>>
  /\ UNCHANGED <<config, halVars, glinkVars, thread, btOnMode, live, registered, clients,
                 uapp, island, inst, stackQ, bmm, ctrl>>

\* BmmHciArbiterBtssCrashIndHandler and BMM_BTSS_ERROR_IND
BtssError ==
  /\ StackReceive("crash")
  /\ stackQ' = Tail(stackQ)
  /\ arbiter' = (arbiter /\ ~bmm.subscribed)
  /\ UNCHANGED <<config, halVars, glinkVars, pipe, thread, btOnMode, live, registered,
                 clients, uapp, island, inst, bmm, timers, retryCount, ctrl>>

\* The scheduler's thread runs the deinitialisers of its tasks, BmmDeinit
\* among them: BMM_DEINITIALIZED_IND answers the HAL ...
TellDisabled ==
  /\ inst = "stopping" /\ ~bmm.telling
  /\ inst' = "deinit"
  /\ hal' = IF bmm.subscribed /\ btOnMode \in OnMode /\ hal \in {"disabling", "resetting"}
            THEN "off" ELSE hal
  /\ UNCHANGED <<count, glinkVars, pipe, thread, mgrVars, stackQ, bmm, timers,
                 retryCount, ctrl>>

\* Mutants: the SSR mode is forgotten; the mode is not reset.
CleanUpUserOnly ==
  /\ island' = "allow"
  /\ IF btOnMode = OFFLD THEN uapp' = "off" /\ live' = FALSE ELSE UNCHANGED <<uapp, live>>
  /\ clients' = (clients /\ ~IsOffloadFlag(btOnMode))
  /\ btOnMode' = DEFAULT /\ registered' = FALSE

CleanUpKeepsMode ==
  /\ island' = "allow"
  /\ IF btOnMode \in {OFFLD, OFFLD_SSR}
     THEN uapp' = "off" /\ live' = FALSE
     ELSE UNCHANGED <<uapp, live>>
  /\ clients' = (clients /\ ~IsOffloadFlag(btOnMode))
  /\ btOnMode' = btOnMode /\ registered' = FALSE

\* ... and goes on to tell the watch, to wipe the tables, to take down the
\* client interface and to forget the mode, each as the mode says.
CleanUp ==
  /\ island' = "allow"
  /\ IF btOnMode \in {OFFLD, OFFLD_SSR}
     THEN uapp' = "off" /\ live' = FALSE
     ELSE UNCHANGED <<uapp, live>>
  /\ clients' = (clients /\ ~IsOffloadFlag(btOnMode))
  /\ btOnMode' = DEFAULT /\ registered' = FALSE

\* Messages and timers are dropped, and the thread ends.
StackDeinit ==
  /\ inst = "deinit"
  /\ IF bmm.subscribed
     THEN CleanUp
     ELSE UNCHANGED <<island, uapp, live, clients, btOnMode, registered>>
  /\ inst' = "ended" /\ stackQ' = <<>> /\ timers' = 0
  /\ bmm' = [state |-> "none", subscribed |-> FALSE, telling |-> FALSE, asked |-> 0]
  /\ UNCHANGED <<config, halVars, glinkVars, pipe, thread, arbiter, retryCount, ctrl>>

-----------------------------------------------------------------------------
OffloadThread ==
  \/ SocketBegin \/ SocketEnd
  \/ BtOnStart \/ BtOnRefuse \/ BtOnSetMode
  \/ BtOff \/ BtOffRefuse \/ HandleChannelState \/ StopBegin \/ StopEnd

StackThread ==
  \/ SetEventMask \/ ActivateTransportCfm \/ TellEnabled
  \/ PrepareStop \/ BtOffInd \/ BtssError
  \/ \E queueEmpty \in BOOLEAN : WaitTimerFire(queueEmpty)
  \/ TellDisabled \/ StackDeinit

GlinkThread ==
  \/ \E c \in Channel : ChannelConnected(c)
  \/ \E c \in Channel : ChannelRemoteDisconnected(c)
  \/ \E c \in Channel : ChannelLocalDisconnected(c)
  \/ HciPacketTest \/ HciPacketCall
  \/ \E op \in {"socket", "open"} : SocketMessage(op)

Hal ==
  \/ HalUp \/ HalExits \/ HalCrashes \/ HalGone
  \/ \E mode \in OnMode : HalEnables(mode)
  \/ \E reason \in {"user", "ssr"} : HalDisables(reason)
  \/ \E op \in OtherMode : HalAsksOther(op)

Next ==
  \/ OffloadThread \/ StackThread \/ GlinkThread \/ Hal
  \/ ControllerCrashes \/ ControllerAnswers \/ TransportActivated

Spec == Init /\ [][Next]_vars

\* The threads of the DSP run when they can; timers fire, glink delivers its
\* events, and a live controller answers.
Fairness ==
  /\ WF_vars(OffloadThread) /\ WF_vars(StackThread)
  /\ WF_vars(HciPacketCall)
  /\ \A c \in Channel : WF_vars(ChannelLocalDisconnected(c))
  /\ WF_vars(ControllerAnswers) /\ WF_vars(TransportActivated)

FairSpec == Spec /\ Fairness

-----------------------------------------------------------------------------
(* Properties.                                                              *)

\* The instance tables belong to the offload manager thread, yet
\* offload_mgr_sm_init and _deinit run on the microstack thread.  Live
\* instances are wiped only while the owner waits inside MicroStackStop.
WipedOnlyInStop == [][live /\ ~live' => thread = "stopping"]_vars

\* schedInstance is not tested by the senders: whoever is about to put a
\* message into it (the glink thread past its test of the pointer, the
\* offload manager thread at a BT_DISABLE or at the disconnection of a HAL
\* that it believes on) finds a microstack.
PostsFindAStack ==
  /\ glink = "hci" => Exists
  /\ thread = "idle" /\ pipe # <<>> =>
       LET msg == Head(pipe) IN
       msg.op = "disable" \/ (msg.op = "channel" /\ chnlState[msg.chan] = "remote"
                              /\ btOnMode \in OnMode)
         => Exists

\* A HAL that was told "enabled" has a running microstack and, unless the
\* controller died, a way for its HCI packets.
OnIsReal == hal = "on" => inst = "up" /\ (arbiter \/ ctrl = "dead")

\* A stopped microstack leaves nothing behind: no pointer into it, no live
\* instance, no registered callback, no mode, no vote against the island,
\* and a watch that was told.
NothingLeftOver ==
  inst = "null" /\ thread = "idle" =>
    ~arbiter /\ ~live /\ ~registered /\ btOnMode = DEFAULT
    /\ island = "allow" /\ uapp = "off"

\* A HAL that disables Bluetooth is answered, however busy the scheduler
\* stays (the retries are bounded); after an SSR even by a dead controller.
OffAnswered ==
  /\ hal = "disabling" ~> hal \in {"off", "dead"} \/ ctrl = "dead"
  /\ hal = "resetting" ~> hal \in {"off", "dead"}

\* A channel that the HAL dropped is opened again for the next HAL, although
\* the queued events read a state that later events overwrite.
ChannelReopened == \A c \in Channel : link[c] = "remote_closed" ~> link[c] = "opened"

=============================================================================
