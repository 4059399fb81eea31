---------------------------- MODULE LecocReceive ----------------------------
(***************************************************************************)
(* The receive path of one offloaded LE CoC socket: the peer sends SDUs in *)
(* frames, each against a credit; L2CAP puts SDUs together and hands them  *)
(* to the BMM; the BMM passes AppCredit of them on at a time and keeps the *)
(* others; the offload manager, a thread of its own, answers each one.     *)
(* L2CAP keeps two counts of credits, flow.rx of those the peer may use    *)
(* and flow.app of those the answers of the BMM leave room for, and grants *)
(* the difference when the first runs low.                                 *)
(*                                                                         *)
(* An SDU is its number, in the order of sending.                          *)
(***************************************************************************)
EXTENDS Integers, SequencesExt, FiniteSetsExt

CONSTANTS
  InitCredits,   \* credits of the peer when the channel is offloaded
  MoreCredits,   \* credits the profile manager adds, once
  AppCredit,     \* BMM_LECOC_RX_APP_CREDIT: 1
  MaxSdu,        \* the peer sends at most so many SDUs
  Sizes          \* frames an SDU may take

ASSUME CreditsAssumption ==
  /\ InitCredits \in Nat /\ MoreCredits \in Nat
  /\ InitCredits + MoreCredits > 0
  /\ InitCredits + MoreCredits <= 65535
ASSUME AppCreditAssumption == AppCredit \in Nat \ {0}
ASSUME SduAssumption == MaxSdu \in Nat /\ Sizes \subseteq Nat \ {0}

VARIABLES
  peer,      \* its credits, the SDU it sends, how many frames of it are out,
             \* and that it has kept to the rules so far
  air,       \* frames on their way
  grant,     \* credits on their way to the peer
  flow,      \* CB_FLOWINFO_T of the channel
  l2capQ,    \* requests to L2CAP
  bmmQ,      \* messages to the BMM
  sock,      \* the entry of the socket in gBmm
  appQ,      \* data indications in the pipe of the offload manager
  received   \* SDUs the offload manager has passed on

vars == <<peer, air, grant, flow, l2capQ, bmmQ, sock, appQ, received>>

ChannelOpen == sock.state # "CLOSED"

-----------------------------------------------------------------------------
(***************************************************************************)
(* The peer                                                                *)
(***************************************************************************)
SduComplete == peer.idx = peer.size

SendFrame(p) ==
  /\ peer' = p
  /\ air' = Append(air, [sdu |-> p.sdu, idx |-> p.idx, size |-> p.size])
  /\ UNCHANGED <<grant, flow, l2capQ, bmmQ, sock, appQ, received>>

PeerStartsSdu(n) ==
  /\ peer.credits > 0
  /\ SduComplete
  /\ peer.sdu < MaxSdu
  /\ SendFrame([credits |-> peer.credits - 1, sdu |-> peer.sdu + 1, idx |-> 1, size |-> n,
                honest |-> peer.honest])

PeerContinuesSdu ==
  /\ peer.credits > 0
  /\ ~SduComplete
  /\ SendFrame([peer EXCEPT !.credits = @ - 1, !.idx = @ + 1])

\* A peer that sends a frame it has no credit for.
PeerCheats ==
  /\ peer.credits = 0
  /\ SduComplete
  /\ peer.sdu < MaxSdu
  /\ SendFrame([credits |-> 0, sdu |-> peer.sdu + 1, idx |-> 1, size |-> 1,
                honest |-> FALSE])

\* Grants arrive one after the other.
PeerGetsCredits ==
  /\ \E n \in 1 .. grant :
       /\ peer' = [peer EXCEPT !.credits = @ + n]
       /\ grant' = grant - n
  /\ UNCHANGED <<air, flow, l2capQ, bmmQ, sock, appQ, received>>

-----------------------------------------------------------------------------
(***************************************************************************)
(* L2CAP                                                                   *)
(***************************************************************************)
\* L2CAP_LE_COC_CURR_RX_CREDITS_THRESHOLD
Threshold(total) == Max({2, (total + 1) \div 3})

RunsLow(f) == f.app # 0 /\ f.rx < f.app /\ f.rx <= Threshold(f.tot)

Grantable(f) == f.app - f.rx

\* Mutant: more is granted than is noted down.
ReplenishedOneLess(f) == [f EXCEPT !.rx = @ + Grantable(f) - 1]

Replenished(f) == [f EXCEPT !.rx = @ + Grantable(f)]

\* CB_Flow_AttemptToSendCredits, with f the counts so far.
AttemptToSendCredits(f) ==
  IF RunsLow(f)
  THEN flow' = Replenished(f) /\ grant' = grant + Grantable(f)
  ELSE flow' = f /\ UNCHANGED grant

ReceiveFrame ==
  /\ air # <<>>
  /\ air' = Tail(air)
  /\ UNCHANGED <<peer, l2capQ, sock, appQ, received>>

\* Mutant: the last frame but one completes the SDU as well.
EndsSduEarly(f) == f.idx >= f.size - 1

EndsSdu(f) == f.idx = f.size

\* CB_FLOW_DataRead: a frame of an SDU that is not complete yet.
ReceivePart ==
  /\ ReceiveFrame
  /\ ChannelOpen /\ flow.rx > 0
  /\ ~EndsSdu(Head(air))
  /\ AttemptToSendCredits([flow EXCEPT !.packets = @ + 1, !.rx = @ - 1])
  /\ UNCHANGED bmmQ

\* The room left when the BMM has yet to answer p more frames.
AppLeft(p) == IF p > flow.app THEN 0 ELSE flow.app - p

\* CB_FLOW_DataRead, CB_FLOW_SarAssemble: the SDU is complete.
ReceiveSdu ==
  /\ ReceiveFrame
  /\ ChannelOpen /\ flow.rx > 0
  /\ EndsSdu(Head(air))
  /\ LET p == flow.packets + 1
     IN  /\ bmmQ' = Append(bmmQ, [type |-> "READ_IND", sdu |-> Head(air).sdu, packets |-> p])
         /\ AttemptToSendCredits([flow EXCEPT !.packets = 0, !.app = AppLeft(p), !.rx = @ - 1])

DisconnectInd == [type |-> "DISCONNECT_IND"]

\* CB_FLOW_DataRead: the peer had no credit for the frame.
AccusePeer ==
  /\ ReceiveFrame
  /\ ChannelOpen /\ flow.rx = 0
  /\ bmmQ' = Append(bmmQ, DisconnectInd)
  /\ UNCHANGED <<grant, flow>>

\* The channel is gone.
DropFrame ==
  /\ ReceiveFrame
  /\ ~ChannelOpen
  /\ UNCHANGED <<grant, flow, bmmQ>>

\* CB_FLOW_DataRead: a frame breaks the MPS or the MTU.
RejectFrame ==
  /\ sock.state = "CONNECTED"
  /\ \A k \in DOMAIN bmmQ : bmmQ[k].type # "DISCONNECT_IND"
  /\ peer' = [peer EXCEPT !.honest = FALSE]
  /\ bmmQ' = Append(bmmQ, DisconnectInd)
  /\ UNCHANGED <<air, grant, flow, l2capQ, sock, appQ, received>>

L2capReceive(t) ==
  /\ l2capQ # <<>>
  /\ Head(l2capQ).type = t
  /\ l2capQ' = Tail(l2capQ)
  /\ UNCHANGED <<peer, air, bmmQ, sock, appQ, received>>

\* The room with n frames answered, counted in 16 bits.
Acked(n) ==
  LET a == (flow.app + n) % 65536
  IN  [flow EXCEPT !.app = IF a > flow.tot THEN flow.tot ELSE a]

\* Mutant: an answer does not lead to a grant.
ReadAckOnly ==
  /\ L2capReceive("READ_RSP")
  /\ flow' = IF ChannelOpen THEN Acked(Head(l2capQ).packets) ELSE flow
  /\ UNCHANGED grant

\* CB_FLOW_DataReadAck
ReadAck ==
  /\ L2capReceive("READ_RSP")
  /\ IF ChannelOpen
     THEN AttemptToSendCredits(Acked(Head(l2capQ).packets))
     ELSE UNCHANGED <<flow, grant>>

\* L2CA_ADD_CREDIT_REQ
AddCredit ==
  /\ L2capReceive("ADD_CREDIT_REQ")
  /\ IF ChannelOpen /\ flow.tot + MoreCredits <= 65535
     THEN /\ flow' = [flow EXCEPT !.rx = @ + MoreCredits, !.app = @ + MoreCredits,
                                  !.tot = @ + MoreCredits]
          /\ grant' = grant + MoreCredits
     ELSE UNCHANGED <<flow, grant>>

-----------------------------------------------------------------------------
(***************************************************************************)
(* The BMM                                                                 *)
(***************************************************************************)
BmmReceive(t) ==
  /\ bmmQ # <<>>
  /\ Head(bmmQ).type = t
  /\ bmmQ' = Tail(bmmQ)
  /\ UNCHANGED <<peer, air, grant, flow, received>>

ReadRsp(m) == [type |-> "READ_RSP", packets |-> m.packets]

Sdus(q) == [k \in DOMAIN q |-> q[k].sdu]

\* BmmLecocDataReadIndHandler, the socket is closed or in error.
RefuseReadInd ==
  /\ BmmReceive("READ_IND")
  /\ sock.state # "CONNECTED"
  /\ l2capQ' = Append(l2capQ, ReadRsp(Head(bmmQ)))
  /\ UNCHANGED <<sock, appQ>>

\* The same handler, the offload manager takes another SDU.
DeliverReadInd ==
  /\ BmmReceive("READ_IND")
  /\ sock.state = "CONNECTED"
  /\ sock.rxAppCredits > 0 /\ sock.rxQueue = <<>>
  /\ sock' = [sock EXCEPT !.rxAppCredits = @ - 1]
  /\ appQ' = Append(appQ, Head(bmmQ).sdu)
  /\ l2capQ' = Append(l2capQ, ReadRsp(Head(bmmQ)))

\* How many SDUs BmmLecocRestoreRxQueue takes from the queue of the entry s.  A
\* socket in error passes nothing on and takes no credit for it.
Popped(s) ==
  IF s.state = "CONNECTED" THEN Min({s.rxAppCredits, s.rxQueueCount, Len(s.rxQueue)})
  ELSE IF s.rxAppCredits > 0 /\ s.rxQueueCount > 0 THEN Len(s.rxQueue) ELSE 0

\* BmmLecocRestoreRxQueue
RestoreRxQueue(s) ==
  LET k == Popped(s)
      taken == SubSeq(s.rxQueue, 1, k)
      rest == SubSeq(s.rxQueue, k + 1, Len(s.rxQueue))
  IN  /\ sock' = IF s.state = "CONNECTED"
                 THEN [s EXCEPT !.rxQueue = rest, !.rxAppCredits = @ - k, !.rxQueueCount = @ - k]
                 ELSE [s EXCEPT !.rxQueue = rest]
      /\ appQ' = IF s.state = "CONNECTED" THEN appQ \o Sdus(taken) ELSE appQ
      /\ l2capQ' = l2capQ \o [j \in DOMAIN taken |-> ReadRsp(taken[j])]

\* The same handler, the SDU has to wait.
QueueReadInd ==
  /\ BmmReceive("READ_IND")
  /\ sock.state = "CONNECTED"
  /\ ~(sock.rxAppCredits > 0 /\ sock.rxQueue = <<>>)
  /\ RestoreRxQueue([sock EXCEPT !.rxQueueCount = @ + 1, !.rxQueue = Append(@, Head(bmmQ))])

\* Mutant: an answer does not fetch what waits.
HandleDataRspOnly ==
  /\ BmmReceive("DATA_RSP")
  /\ ChannelOpen
  /\ sock' = [sock EXCEPT !.rxAppCredits = @ + 1]
  /\ UNCHANGED <<appQ, l2capQ>>

\* BmmSocketDataRspHandler
HandleDataRsp ==
  /\ BmmReceive("DATA_RSP")
  /\ ChannelOpen
  /\ RestoreRxQueue([sock EXCEPT !.rxAppCredits = @ + 1])

IgnoreDataRsp ==
  /\ BmmReceive("DATA_RSP")
  /\ ~ChannelOpen
  /\ UNCHANGED <<sock, appQ, l2capQ>>

\* BmmSocketSetParamsReqHandler, the credits are not set yet.
HandleSetParams ==
  /\ BmmReceive("SET_PARAMS_REQ")
  /\ ChannelOpen /\ ~sock.creditInitialised
  /\ sock' = [sock EXCEPT !.creditInitialised = TRUE]
  /\ l2capQ' = Append(l2capQ, [type |-> "ADD_CREDIT_REQ"])
  /\ UNCHANGED appQ

RefuseSetParams ==
  /\ BmmReceive("SET_PARAMS_REQ")
  /\ ~ChannelOpen \/ sock.creditInitialised
  /\ UNCHANGED <<sock, appQ, l2capQ>>

\* BmmLecocDisconnectIndHandler
HandleDisconnectInd ==
  /\ BmmReceive("DISCONNECT_IND")
  /\ sock' = [sock EXCEPT !.state = IF @ = "CONNECTED" THEN "IN_ERROR" ELSE @]
  /\ UNCHANGED <<appQ, l2capQ>>

\* BmmSocketCloseReqHandler, BmmLecocClearRxQueue
HandleCloseReq ==
  /\ BmmReceive("CLOSE_REQ")
  /\ sock' = [state |-> "CLOSED", rxAppCredits |-> 0, rxQueueCount |-> 0,
              rxQueue |-> <<>>, creditInitialised |-> FALSE]
  /\ UNCHANGED <<appQ, l2capQ>>

-----------------------------------------------------------------------------
(***************************************************************************)
(* The offload manager                                                     *)
(***************************************************************************)
\* microstack_lecoc_cb, BMM_SOCKET_DATA_IND: passed on and answered at once.
HandleDataInd ==
  /\ appQ # <<>>
  /\ appQ' = Tail(appQ)
  /\ received' = Append(received, Head(appQ))
  /\ bmmQ' = Append(bmmQ, [type |-> "DATA_RSP"])
  /\ UNCHANGED <<peer, air, grant, flow, l2capQ, sock>>

OffloadMgrSends(t) ==
  /\ \A k \in DOMAIN bmmQ : bmmQ[k].type # t
  /\ bmmQ' = Append(bmmQ, [type |-> t])
  /\ UNCHANGED <<peer, air, grant, flow, l2capQ, sock, appQ, received>>

\* profile_mgr_lecoc_microapp_socket_open_cb, once a socket
OffloadMgrSetsCredits ==
  ChannelOpen /\ ~sock.creditInitialised /\ OffloadMgrSends("SET_PARAMS_REQ")

\* profile_mgr_lecoc_socket_close
OffloadMgrCloses == ChannelOpen /\ OffloadMgrSends("CLOSE_REQ")

-----------------------------------------------------------------------------
Init ==
  /\ peer = [credits |-> InitCredits, sdu |-> 0, idx |-> 1, size |-> 1,
             honest |-> TRUE]
  /\ air = <<>>
  /\ grant = 0
  /\ flow = [rx |-> InitCredits, app |-> InitCredits, tot |-> InitCredits, packets |-> 0]
  /\ l2capQ = <<>>
  /\ bmmQ = <<>>
  /\ sock = [state |-> "CONNECTED", rxAppCredits |-> AppCredit, rxQueueCount |-> 0,
             rxQueue |-> <<>>, creditInitialised |-> FALSE]
  /\ appQ = <<>>
  /\ received = <<>>

PeerStep ==
  \/ \E n \in Sizes : PeerStartsSdu(n)
  \/ PeerContinuesSdu
  \/ PeerCheats
  \/ PeerGetsCredits

L2capFrame == ReceivePart \/ ReceiveSdu \/ AccusePeer \/ DropFrame

L2capRequest == ReadAck \/ AddCredit

BmmStep ==
  \/ RefuseReadInd \/ DeliverReadInd \/ QueueReadInd
  \/ HandleDataRsp \/ IgnoreDataRsp
  \/ HandleSetParams \/ RefuseSetParams
  \/ HandleDisconnectInd
  \/ HandleCloseReq

OffloadMgrStep == HandleDataInd \/ OffloadMgrSetsCredits \/ OffloadMgrCloses

Next == PeerStep \/ L2capFrame \/ RejectFrame \/ L2capRequest \/ BmmStep \/ OffloadMgrStep

Spec == Init /\ [][Next]_vars

(***************************************************************************)
(* The scheduler runs every task that has a message, the offload manager   *)
(* reads its pipe, and a peer finishes the SDUs it has begun.  It need not *)
(* begin any, and nothing makes the offload manager set credits or close.  *)
(***************************************************************************)
FairSpec ==
  /\ Spec
  /\ WF_vars(PeerGetsCredits)
  /\ WF_vars(PeerContinuesSdu)
  /\ WF_vars(L2capFrame)
  /\ WF_vars(L2capRequest)
  /\ WF_vars(BmmStep)
  /\ WF_vars(HandleDataInd)

-----------------------------------------------------------------------------
Sdu == 1 .. MaxSdu

Frame == [sdu : Sdu, idx : Nat \ {0}, size : Nat \ {0}]

ReadInd == [type : {"READ_IND"}, sdu : Sdu, packets : Nat \ {0}]

BmmMsg ==
  ReadInd \cup [type : {"DATA_RSP", "DISCONNECT_IND", "SET_PARAMS_REQ", "CLOSE_REQ"}]

L2capMsg ==
  [type : {"READ_RSP"}, packets : Nat \ {0}] \cup [type : {"ADD_CREDIT_REQ"}]

\* Neither count exceeds the credits of the channel.
Within(f) == f.app <= f.tot /\ f.rx <= f.tot

\* The types, that the counts of L2CAP fit the credits of the channel and their
\* 16 bits, and that a frame belongs to an SDU the peer has begun.
TypeOK ==
  /\ peer \in [credits : Nat, sdu : Nat, idx : Nat \ {0}, size : Nat \ {0},
               honest : BOOLEAN]
  /\ peer.sdu <= MaxSdu /\ (peer.sdu = 0 => SduComplete)
  /\ air \in Seq(Frame)
  /\ grant \in Nat
  /\ flow \in [rx : Nat, app : Nat, tot : Nat, packets : Nat]
  /\ Within(flow) /\ flow.tot <= 65535
  /\ l2capQ \in Seq(L2capMsg)
  /\ bmmQ \in Seq(BmmMsg)
  /\ sock \in [state : {"CONNECTED", "IN_ERROR", "CLOSED"}, rxAppCredits : Nat,
               rxQueueCount : Nat, rxQueue : Seq(ReadInd), creditInitialised : BOOLEAN]
  /\ appQ \in Seq(Sdu)
  /\ received \in Seq(Sdu)

\* The two ends agree on the credits: those L2CAP thinks the peer may still use
\* are with the peer, on their way to it or used for a frame on its way.
CreditsConserved ==
  peer.honest /\ ChannelOpen => peer.credits + grant + Len(air) = flow.rx

\* A peer that keeps to its credits is never accused of using more, whatever is
\* on its way in either direction.
HonestPeerTrusted ==
  peer.honest => /\ sock.state # "IN_ERROR"
                 /\ \A k \in DOMAIN bmmQ : bmmQ[k].type # "DISCONNECT_IND"

Count(q, t) == Cardinality({k \in DOMAIN q : q[k].type = t})

\* The offload manager is given AppCredit SDUs at a time: each credit is with
\* the BMM, in an indication or in an answer.  While one is left nothing waits,
\* so that an SDU is never stuck with nobody to fetch it.
CreditOrIndication ==
  sock.state = "CONNECTED" =>
    /\ sock.rxAppCredits + Len(appQ) + Count(bmmQ, "DATA_RSP") = AppCredit
    /\ sock.rxQueueCount = Len(sock.rxQueue)
    /\ sock.rxAppCredits > 0 => sock.rxQueue = <<>>

\* The SDUs the BMM has taken from L2CAP, oldest first.
Taken == received \o appQ \o Sdus(sock.rxQueue)

\* How many of the first k messages to the BMM bring it an SDU.
ReadIndsUpTo(k) == Cardinality({l \in 1 .. k : bmmQ[l].type = "READ_IND"})

\* Every SDU reaches the offload manager once and in the order of sending; in
\* error or when closed the last ones may be missing, never one before another.
InOrder ==
  /\ sock.state = "CONNECTED" /\ Count(bmmQ, "DISCONNECT_IND") = 0 =>
       /\ \A k \in DOMAIN Taken : Taken[k] = k
       /\ \A k \in DOMAIN bmmQ :
            bmmQ[k].type = "READ_IND" => bmmQ[k].sdu = Len(Taken) + ReadIndsUpTo(k)
  /\ \A k \in DOMAIN received : received[k] = k

\* Every SDU the peer begins is received as long as the socket is neither
\* closed nor in error, also one that takes more frames than there are credits.
SduReceived ==
  \A n \in Sdu : peer.sdu >= n ~> n \in ToSet(received) \/ sock.state # "CONNECTED"
=============================================================================
