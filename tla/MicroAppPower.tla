---------------------------- MODULE MicroAppPower ----------------------------
(***************************************************************************)
(* The microapps over cycles of Bluetooth off and on.  The offload manager *)
(* is reduced to what it does to them: it opens a socket that it does not  *)
(* hold, closes one that it holds, and when Bluetooth goes off forgets all *)
(* its sockets and tells the application manager.                          *)
(***************************************************************************)
EXTENDS MicroApps

CONSTANTS
  App,          \* the apps the offload manager opens sockets of
  QueueBound    \* the offload manager sends nothing while uappQ is this long

ASSUME AppAssumption == App \subseteq Protocol
ASSUME QueueBoundAssumption == QueueBound \in Nat

VARIABLES
  btOn,     \* Bluetooth is on, as the offload manager knows it
  asked,    \* <<app, socket>> pairs whose open is not answered
  held      \* <<app, socket>> pairs whose open succeeded

mgrSide == <<btOn, asked, held>>
vars == <<channels, appVars, mgrSide>>

\* endpt_mgr_send_msg_to_endpoint
MgrSends(m) ==
  /\ Len(uappQ) < QueueBound
  /\ uappQ' = Append(uappQ, m)

\* socket_mgr_offload_req_to_microapp
MgrOpens(a, s) ==
  /\ btOn
  /\ \A b \in Protocol : <<b, s>> \notin asked \cup held
  /\ MgrSends([type |-> "OPEN_REQ", sid |-> s, proto |-> a, ep |-> a])
  /\ asked' = asked \cup {<<a, s>>}
  /\ UNCHANGED <<btOn, held, pipe>>

\* socket_mgr_unoffload_req_to_microapp: it does not wait for the answer.
MgrCloses(a, s) ==
  /\ <<a, s>> \in held
  /\ MgrSends([type |-> "CLOSE_REQ", sid |-> s, ep |-> a])
  /\ held' = held \ {<<a, s>>}
  /\ UNCHANGED <<btOn, asked, pipe>>

\* endpt_mgr_handle_offload_app_evt: the apps answer opens only.
MgrReceives ==
  /\ pipe # <<>>
  /\ pipe' = Tail(pipe)
  /\ LET m == Head(pipe)
         answered == {x \in asked : x[2] = m.sid}
     IN  /\ asked' = asked \ answered
         /\ held' = IF m.ok THEN held \cup answered ELSE held
  /\ UNCHANGED <<btOn, uappQ>>

\* The instances are reset, so the answers still on their way will find no one.
MgrTurnsBtOff ==
  /\ btOn
  /\ MgrSends([type |-> "BT_STATUS", on |-> FALSE])
  /\ btOn' = FALSE
  /\ asked' = {}
  /\ held' = {}
  /\ UNCHANGED pipe

\* The request for it comes through the pipe, behind the answers that are on
\* their way.  Starting the microstack takes long enough for the application
\* manager to be done with the off: an assumption on timing, without which an
\* answer to an open from before the off can pass for one from after it.
MgrTurnsBtOn ==
  /\ ~btOn
  /\ pipe = <<>>
  /\ uappQ = <<>>
  /\ MgrSends([type |-> "BT_STATUS", on |-> TRUE])
  /\ btOn' = TRUE
  /\ UNCHANGED <<asked, held, pipe>>

\* Mutant: what lecoc_app_deinit was before its count was reset.
DeinitSlotsOnly ==
  /\ slot' = [a \in Protocol |-> [n \in Slot |-> ClearSlot]]
  /\ UNCHANGED inUse

\* handle_bt_off: lecoc_app_deinit clears the slots and the count,
\* rfcomm_app_deinit only the slots.
Deinit ==
  /\ slot' = [a \in Protocol |-> [n \in Slot |-> ClearSlot]]
  /\ inUse' = [inUse EXCEPT !["LECOC"] = 0]

\* lpai_bt_status_evt
HandleBtStatus ==
  /\ UappReceive("BT_STATUS")
  /\ IF Head(uappQ).on THEN UNCHANGED appVars ELSE Deinit
  /\ UNCHANGED <<pipe, bmmQ, halQ>>

MgrSide ==
  /\ \/ \E a \in App, s \in SocketId : MgrOpens(a, s) \/ MgrCloses(a, s)
     \/ MgrReceives
     \/ MgrTurnsBtOff
     \/ MgrTurnsBtOn
  /\ UNCHANGED <<appVars, bmmQ, halQ>>

AppSide == (AppNext \/ HandleBtStatus) /\ UNCHANGED mgrSide

Init ==
  /\ ChannelsInit
  /\ AppInit
  /\ btOn = FALSE
  /\ asked = {}
  /\ held = {}

Next == MgrSide \/ AppSide

Spec == Init /\ [][Next]_vars

-----------------------------------------------------------------------------
\* An app that has heard of everything has its slots for the sockets the
\* offload manager holds, and counts just those: nothing is left over from
\* before a Bluetooth off, whatever was under way when it came.
NothingLeftOver ==
  pipe = <<>> /\ uappQ = <<>> =>
    \A a \in App :
      /\ {<<a, slot[a][n]>> : n \in Slot \ FreeSlots(a)} = {x \in held : x[1] = a}
      /\ inUse[a] = MaxApp - Cardinality(FreeSlots(a))
=============================================================================
