--------------------------- MODULE SocketOffload ---------------------------
(***************************************************************************)
(* Socket offload end to end: the socket HAL of the application processor, *)
(* the offload manager and the BMM on the ADSP, and the microapps on the   *)
(* watch processor, joined by their queues.                                *)
(*                                                                         *)
(* The HAL is not part of the repository.  It is modelled as the code uses *)
(* it: it opens a socket it does not hold, closes a socket it holds once,  *)
(* and takes the answers in the order they are sent.                       *)
(***************************************************************************)
EXTENDS OffloadMgr, Bmm, MicroApps

CONSTANTS
  Offers,         \* <<protocol, endpoint>> pairs of the HAL's open requests
  EarlyClose,     \* the HAL may close a socket whose open is not answered
  QueueBound      \* the HAL opens nothing while uappQ is this long

ASSUME OffersAssumption == Offers \subseteq Protocol \X Endpoint
ASSUME EarlyCloseAssumption == EarlyClose \in BOOLEAN
ASSUME QueueBoundAssumption == QueueBound \in Nat

VARIABLE hal      \* what the HAL knows of each socket

vars == <<channels, mgrVars, bmmVars, appVars, hal>>

HalState == {"closed", "opening", "open", "closing"}

-----------------------------------------------------------------------------
(* The HAL.                                                                *)

HalOpen(s, o) ==
  /\ hal[s] = "closed"
  /\ Len(uappQ) < QueueBound
  /\ hal' = [hal EXCEPT ![s] = "opening"]
  /\ pipe' = Append(pipe, [type |-> "OPEN_SOCKET", sid |-> s, proto |-> o[1], ep |-> o[2]])
  /\ UNCHANGED <<bmmQ, uappQ, halQ>>

HalClose(s) ==
  /\ hal[s] = "open" \/ (EarlyClose /\ hal[s] = "opening")
  /\ hal' = [hal EXCEPT ![s] = "closing"]
  /\ pipe' = Append(pipe, [type |-> "CLOSE_SOCKET", sid |-> s])
  /\ UNCHANGED <<bmmQ, uappQ, halQ>>

\* A failed open ends the life of the socket also when its close was already
\* asked for; a success that crosses the close is ignored.
HalReceive ==
  /\ halQ # <<>>
  /\ halQ' = Tail(halQ)
  /\ LET m == Head(halQ)
     IN  hal' = CASE m.type = "CLOSE_RSP" -> [hal EXCEPT ![m.sid] = "closed"]
                  [] m.type = "OPEN_RSP" /\ ~m.ok -> [hal EXCEPT ![m.sid] = "closed"]
                  [] m.type = "OPEN_RSP" /\ m.ok /\ hal[m.sid] = "opening" ->
                       [hal EXCEPT ![m.sid] = "open"]
                  [] OTHER -> hal
  /\ UNCHANGED <<pipe, bmmQ, uappQ>>

HalRequest ==
  \/ \E s \in SocketId, o \in Offers : HalOpen(s, o)
  \/ \E s \in SocketId : HalClose(s)

-----------------------------------------------------------------------------
(* The whole system.                                                       *)

MgrStep == MgrNext /\ UNCHANGED <<bmmVars, appVars, hal>>
BmmStep == BmmNext /\ UNCHANGED <<mgrVars, appVars, hal>>
AppStep == AppNext /\ UNCHANGED <<mgrVars, bmmVars, hal>>
HalReceiveStep == HalReceive /\ UNCHANGED <<mgrVars, bmmVars, appVars>>
HalRequestStep == HalRequest /\ UNCHANGED <<mgrVars, bmmVars, appVars>>

Init ==
  /\ ChannelsInit
  /\ MgrInit
  /\ BmmInit
  /\ AppInit
  /\ hal = [s \in SocketId |-> "closed"]

Next == MgrStep \/ BmmStep \/ AppStep \/ HalReceiveStep \/ HalRequestStep

(***************************************************************************)
(* Each thread is a loop that blocks on its queue and is scheduled again   *)
(* when the queue is not empty: the offload manager on its pipe, the       *)
(* microstack on its scheduler, the application manager on its message     *)
(* queue, the HAL on its glink channel.  Peers that break link rules and   *)
(* the requests of the HAL are not fair.                                   *)
(***************************************************************************)
BmmServes ==
  /\ HandleOffloadReq \/ RefuseOffloadReq \/ HandleCloseReq \/ HandleSetParamsReq
  /\ UNCHANGED <<mgrVars, appVars, hal>>

Fairness ==
  /\ WF_vars(MgrStep)
  /\ WF_vars(BmmServes)
  /\ WF_vars(AppStep)
  /\ WF_vars(HalReceiveStep)

Spec == Init /\ [][Next]_vars

FairSpec == Spec /\ Fairness

-----------------------------------------------------------------------------
(* Views of the state.                                                     *)

Busy == {i \in Inst : state[i] # "Idle"}

\* The instances whose HAL was told that the socket is open.
Established == {i \in Inst : state[i] = "OffloadToMicroappSuccess"}

\* Where the life of a socket may be: an open request the offload manager has
\* not read, a busy instance, and the answer that ends it, not yet read by the
\* HAL.
AskedAt(s) ==
  {n \in DOMAIN pipe : pipe[n].type = "OPEN_SOCKET" /\ pipe[n].sid = s}
HeldBy(s) == {i \in Busy : socketId[i] = s}
IsFinal(m) == m.type = "CLOSE_RSP" \/ (m.type = "OPEN_RSP" /\ ~m.ok)
AnsweredAt(s) == {n \in DOMAIN halQ : IsFinal(halQ[n]) /\ halQ[n].sid = s}

AtMostOne(S) == \A x, y \in S : x = y

HeldOnce(s) ==
  /\ hal[s] = "closed" <=> AskedAt(s) \cup HeldBy(s) \cup AnsweredAt(s) = {}
  /\ AtMostOne(AskedAt(s)) /\ AtMostOne(HeldBy(s)) /\ AtMostOne(AnsweredAt(s))
  /\ AskedAt(s) = {} \/ HeldBy(s) = {}
  /\ AskedAt(s) = {} \/ AnsweredAt(s) = {}
  /\ HeldBy(s) = {} \/ AnsweredAt(s) = {}

AppHolds(s) == \E a \in Protocol : SlotsOf(a, s) # {}

Quiet == pipe = <<>> /\ bmmQ = <<>> /\ uappQ = <<>> /\ halQ = <<>>

HalHolds == {s \in SocketId : hal[s] = "open"}

(***************************************************************************)
(* A socket is offloaded when the BMM has a connection for it, a microapp  *)
(* has a slot for it, and no close is on its way to that microapp.         *)
(***************************************************************************)
OffloadedSockets ==
  {s \in SocketId :
     /\ \E k \in InUse : sock[k].sid = s
     /\ AppHolds(s)
     /\ \A n \in 1 .. Len(uappQ) : uappQ[n].type = "CLOSE_REQ" => uappQ[n].sid # s}

Service == INSTANCE OffloadService WITH offloaded <- OffloadedSockets

-----------------------------------------------------------------------------
(* Invariants.                                                             *)

\* Every variable has its type: the values the C types and the protocol of
\* the queues allow.
TypeOK ==
  /\ ChannelsTypeOK
  /\ MgrTypeOK
  /\ BmmTypeOK
  /\ AppTypeOK
  /\ hal \in [SocketId -> HalState]

\* The first instance that holds the socket id of a busy instance is that
\* instance: although the scans of offload_instance.c also look at idle
\* entries, whose ids are stale, a close or an answer of a microapp never
\* reaches the wrong socket.
SocketIdLookup ==
  \A i \in Busy : Min(InstWithSocketId(socketId[i])) = i

\* No instance is orphaned: a busy one belongs to a socket the HAL has not seen
\* closed, and no two belong to the same, so the pool cannot leak away.
NoOrphanInstance ==
  /\ \A i \in Busy : hal[socketId[i]] # "closed"
  /\ \A i, j \in Busy : i # j => socketId[i] # socketId[j]

\* A socket the HAL has asked for is in exactly one place, and one it has not
\* is in none: whatever closes cross its open, no request is lost, answered
\* twice or served by two instances.
OneHolder == \A s \in SocketId : HeldOnce(s)

\* The same of the scan by connection id that serves the close confirmations
\* and the received data: it finds the instance that owns the connection.
PseudoIdLookup ==
  \A i \in Established : Min(InstWithPseudoId(pseudoId[i])) = i

\* The socket table of the BMM is consistent: entries have distinct socket
\* ids and distinct connection ids, each connection id leads back to its
\* entry and its protocol, and no protocol has more sockets than it may.
BmmConsistent ==
  /\ \A k \in InUse : sock[k].conn.idx = k /\ sock[k].conn.proto = sock[k].proto
  /\ \A k, l \in InUse : k # l => sock[k].sid # sock[l].sid
  /\ \A p \in Protocol : Cardinality(UsedBy(p)) <= MaxConn

\* The count of a microapp is the number of its slots, so an open the count
\* admits finds a clear slot.
SlotsCounted ==
  \A a \in Protocol : inUse[a] = MaxApp - Cardinality(FreeSlots(a))

\* When every queue is empty all the parts agree on which sockets exist: the
\* sockets the HAL holds are those of the busy instances, of the BMM and of
\* the microapps, nothing is left of any other, and each socket has got its
\* receive credits.
QuiescentAgreement ==
  Quiet =>
    /\ HalHolds = {socketId[i] : i \in Busy}
    /\ HalHolds = {sock[k].sid : k \in InUse}
    /\ HalHolds = (UNION {{slot[a][n] : n \in Slot} : a \in Protocol}) \ {ClearSlot}
    /\ Cardinality(Busy) = Cardinality(HalHolds)
    /\ \A k \in InUse : sock[k].credits

-----------------------------------------------------------------------------
(* Action properties and liveness.                                         *)

\* Only a close that names its connection takes a connection from the BMM,
\* and it takes it for the instance the HAL is closing or whose microapp
\* refused: never from under an instance that still offers the socket.
CloseIsOwned ==
  [][\A k \in Sock :
        sock[k].inUse /\ ~sock'[k].inUse =>
          \A i \in Busy :
            pseudoId[i] = sock[k].conn /\ socketId[i] = sock[k].sid =>
               state[i] \in {"UnOffloadReqToMicrostack", "OffloadToMicroappFailure"}]_vars

\* The whole system implements the service the HAL is promised.
ServiceSpec == Service!Spec
=============================================================================
