----------------------------- MODULE MicroApps -----------------------------
(***************************************************************************)
(* The microapps of the watch processor that own offloaded sockets (one of *)
(* RFCOMM, one of LE CoC) and the application manager that hands them the  *)
(* requests of the offload manager.  Each app keeps MAX_SOCKET_SUPPORTED   *)
(* slots and a count of the slots in use of its own.                       *)
(***************************************************************************)
EXTENDS OffloadChannels, FiniteSetsExt

CONSTANT MaxApp     \* MAX_SOCKET_SUPPORTED

\* The counts are uint8_t.
ASSUME MaxAppAssumption == MaxApp \in 0 .. 255

VARIABLES
  slot,     \* socketDetails[].socketId of each app, 0 when the slot is clear
  inUse     \* socketsInUse of each app, a uint8_t

appVars == <<slot, inUse>>

Slot == 1 .. MaxApp

ClearSlot == 0

FreeSlots(a) == {n \in Slot : slot[a][n] = ClearSlot}
SlotsOf(a, s) == {n \in Slot : slot[a][n] = s}

UappReceive(t) ==
  /\ uappQ # <<>>
  /\ Head(uappQ).type = t
  /\ uappQ' = Tail(uappQ)

OpenRes(s, ok) == [type |-> "UAPP_OPEN_RES", sid |-> s, ok |-> ok]

\* rfcomm_socket_opened, lecoc_socket_opened: counted first, then stored in
\* the first clear slot, whose search is also what sends the answer.
AppOpens ==
  /\ UappReceive("OPEN_REQ")
  /\ LET m == Head(uappQ)
         a == m.ep
     IN  /\ a \in Protocol
         /\ a = m.proto
         /\ inUse[a] < MaxApp
         /\ inUse' = [inUse EXCEPT ![a] = (@ + 1) % 256]
         /\ IF FreeSlots(a) = {}
            THEN UNCHANGED <<slot, pipe>>
            ELSE /\ slot' = [slot EXCEPT ![a][Min(FreeSlots(a))] = m.sid]
                 /\ pipe' = Append(pipe, OpenRes(m.sid, TRUE))
  /\ UNCHANGED <<bmmQ, halQ>>

\* The other branches: no room, or a socket of the other protocol.
AppRefuses ==
  /\ UappReceive("OPEN_REQ")
  /\ LET m == Head(uappQ)
     IN  /\ m.ep \in Protocol
         /\ m.ep # m.proto \/ inUse[m.ep] >= MaxApp
         /\ pipe' = Append(pipe, OpenRes(m.sid, FALSE))
  /\ UNCHANGED <<appVars, bmmQ, halQ>>

\* lpai_bt_app_mgr_handle_open_socket_req for an endpoint nobody registered:
\* the answer names socket 0xFF instead of the socket of the request.
EndpointNotFound ==
  /\ UappReceive("OPEN_REQ")
  /\ Head(uappQ).ep = "NONE"
  /\ pipe' = Append(pipe, OpenRes(UnknownEndpointId, FALSE))
  /\ UNCHANGED <<appVars, bmmQ, halQ>>

\* Mutant: the slot is cleared and the count kept.
AppClosesUncounted ==
  /\ UappReceive("CLOSE_REQ")
  /\ LET m == Head(uappQ)
     IN  slot' = [slot EXCEPT ![m.ep] = [n \in Slot |-> IF @[n] = m.sid THEN ClearSlot
                                                                      ELSE @[n]]]
  /\ UNCHANGED <<inUse, pipe, bmmQ, halQ>>

\* rfcomm_socket_closed, lecoc_socket_closed: the first slot with the id; only
\* the LE CoC app guards its count against wrapping.
AppCloses ==
  /\ UappReceive("CLOSE_REQ")
  /\ LET m == Head(uappQ)
         a == m.ep
     IN  IF a \in Protocol /\ SlotsOf(a, m.sid) # {}
         THEN /\ slot' = [slot EXCEPT ![a][Min(SlotsOf(a, m.sid))] = ClearSlot]
              /\ inUse' = [inUse EXCEPT ![a] =
                             IF a = "LECOC" /\ @ = 0 THEN 0 ELSE (@ - 1) % 256]
         ELSE UNCHANGED appVars
  /\ UNCHANGED <<pipe, bmmQ, halQ>>

AppNext ==
  \/ AppOpens
  \/ AppRefuses
  \/ EndpointNotFound
  \/ AppCloses

AppInit ==
  /\ slot = [a \in Protocol |-> [n \in Slot |-> ClearSlot]]
  /\ inUse = [a \in Protocol |-> 0]

AppTypeOK ==
  /\ slot \in [Protocol -> [Slot -> SocketId \cup {ClearSlot}]]
  /\ inUse \in [Protocol -> 0 .. 255]
=============================================================================
