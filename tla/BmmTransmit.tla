---------------------------- MODULE BmmTransmit ----------------------------
(***************************************************************************)
(* The transmit path of one offloaded socket: the user hands requests to   *)
(* the BMM, which lets Window of them be under way and makes the last of   *)
(* these wait for its confirmation; L2CAP, or RFCOMM on top of it, splits  *)
(* them into segments, sends as many as the peer has given credits for and *)
(* confirms each segment once the controller has sent it.                  *)
(*                                                                         *)
(* Data is measured in segments.  A request is its number, in the order of *)
(* sending, and 0 is the context of no request.                            *)
(***************************************************************************)
EXTENDS Integers, FiniteSets, SequencesExt, FiniteSetsExt

MaxTxCount == 65535   \* a uint16

CONSTANTS
  Protos,        \* the socket may be of one of these
  Window,        \* BMM_RFCOMM_TX_WINDOW_SIZE, BMM_LECOC_TX_WINDOW_SIZE: 8
  MaxReq,        \* the user sends at most so many requests
  Sizes,         \* segments a request may take
  Mtu,           \* segments the MTU of a LE CoC peer is; a frame of RFCOMM is one
  MaxCredits,    \* the peer lets at most so many segments come
  LossyLinks     \* the ACL link of a socket of these may go

ASSUME ProtosAssumption ==
  Protos \subseteq {"RFCOMM", "LECOC"} /\ Protos # {} /\ LossyLinks \subseteq Protos
ASSUME WindowAssumption == Window \in 1 .. MaxTxCount
ASSUME MaxReqAssumption == MaxReq \in Nat
ASSUME SizesAssumption == Sizes \subseteq Nat \ {0}
ASSUME MtuAssumption == Mtu \in Nat \ {0}
ASSUME MaxCreditsAssumption == MaxCredits \in Nat \ {0}

VARIABLES
  sock,       \* the entry of the socket in gBmm
  bmmQ,       \* messages to the BMM
  l2capQ,     \* write requests to L2CAP
  sduQ,       \* segments L2CAP has no credits for
  txCredits,  \* credits the peer has given
  txQ,        \* segments with credits, not yet handed to the controller
  txDone,     \* segments the controller has
  link,       \* the ACL link is up
  nreq,       \* requests sent by the user
  answer      \* the confirmations each request has got

lower == <<l2capQ, sduQ, txCredits, txQ, txDone, link>>
vars == <<sock, bmmQ, lower, nreq, answer>>

Request == 1 .. MaxReq

NoRequest == 0

Slot == 0 .. Window - 1

NextSlot(k) == (k + 1) % Window

Decrement(n) == (n - 1) % (MaxTxCount + 1)

-----------------------------------------------------------------------------
(***************************************************************************)
(* The BMM                                                                 *)
(***************************************************************************)
NewSock(p) ==
  [proto |-> p, state |-> "CONNECTED", txCount |-> 0, pending |-> NoRequest,
   segInfo |-> [k \in Slot |-> [pduSize |-> 0, lengthCfd |-> 0]],
   enqueueIdx |-> 0, dequeueIdx |-> 0]

ChannelOpen == link /\ sock.state # "CLOSED"

BmmReceive(t) ==
  /\ bmmQ # <<>>
  /\ Head(bmmQ).type = t
  /\ bmmQ' = Tail(bmmQ)

\* BmmSocketDataCfmSend
Confirm(r, result) == answer' = [answer EXCEPT ![r] = Append(@, result)]

RemoteMtu == IF sock.proto = "RFCOMM" THEN 1 ELSE Mtu

\* BmmValidateSocketDataReq, of the request that is first in the queue.
DataReqStatus ==
  CASE sock.state = "CLOSED"            -> "INVALID_CONNID"
    [] sock.state = "IN_ERROR"          -> "CONNID_IN_ERROR"
    [] sock.state = "CONNECTED" /\ ~link -> "ACL_DOES_NOT_EXIST"
    [] OTHER -> IF Head(bmmQ).size > RemoteMtu THEN "MTU_VIOLATION" ELSE "SUCCESS"

\* BmmSocketDataReqHandler, the request is not valid.
RefuseDataReq ==
  /\ BmmReceive("DATA_REQ")
  /\ DataReqStatus # "SUCCESS"
  /\ Confirm(Head(bmmQ).req, DataReqStatus)
  /\ UNCHANGED <<sock, lower, nreq>>

\* L2CA_DataWriteReqEx, rfc_datawrite_req
PassOn(m) ==
  /\ l2capQ' = Append(l2capQ, [req |-> m.req, size |-> m.size])
  /\ UNCHANGED <<sduQ, txCredits, txQ, txDone, link>>

\* With n requests under way the user may send another.
RoomBehind(n) == n < Window

\* Mutant: the slots are not reset for the next request.
TakenUnreset(m, p) ==
  [sock EXCEPT
     !.txCount = @ + 1,
     !.pending = p,
     !.segInfo = IF sock.proto = "LECOC"
                 THEN [@ EXCEPT ![sock.enqueueIdx].pduSize = m.size]
                 ELSE @,
     !.enqueueIdx = IF sock.proto = "LECOC" THEN NextSlot(@) ELSE @]

\* The entry once the request is passed on, with p the request that waits.
Taken(m, p) ==
  [sock EXCEPT
     !.txCount = @ + 1,
     !.pending = p,
     !.segInfo = IF sock.proto = "LECOC"
                 THEN [@ EXCEPT ![sock.enqueueIdx] =
                         [pduSize |-> m.size, lengthCfd |-> 0]]
                 ELSE @,
     !.enqueueIdx = IF sock.proto = "LECOC" THEN NextSlot(@) ELSE @]

\* BmmRfcommDataWriteReqHandler, BmmLecocDataWriteReqHandler: there is room
\* for more behind the request, so it is confirmed at once.
TakeDataReq ==
  /\ BmmReceive("DATA_REQ")
  /\ DataReqStatus = "SUCCESS"
  /\ RoomBehind(sock.txCount + 1)
  /\ LET m == Head(bmmQ)
     IN  /\ sock' = Taken(m, sock.pending)
         /\ Confirm(m.req, "SUCCESS")
         /\ PassOn(m)
  /\ UNCHANGED nreq

\* The same handlers: the request fills the window and its confirmation waits.
TakeLastDataReq ==
  /\ BmmReceive("DATA_REQ")
  /\ DataReqStatus = "SUCCESS"
  /\ sock.txCount + 1 = Window
  /\ LET m == Head(bmmQ)
     IN  /\ sock' = Taken(m, m.req)
         /\ PassOn(m)
  /\ UNCHANGED <<nreq, answer>>

\* The same handlers: the window is full and the request is discarded.
DiscardDataReq ==
  /\ BmmReceive("DATA_REQ")
  /\ DataReqStatus = "SUCCESS"
  /\ sock.txCount + 1 > Window
  /\ Confirm(Head(bmmQ).req, "FLOW_CONTROL_VIOLATED")
  /\ UNCHANGED <<sock, lower, nreq>>

\* Mutant: in error the request that waits is passed over.
ConfirmPendingUnlessError ==
  IF sock.state = "IN_ERROR" THEN UNCHANGED answer ELSE Confirm(sock.pending, "SUCCESS")

\* The confirmation of the request that waits, when there is room again.
ConfirmPending ==
  Confirm(sock.pending, IF sock.state = "IN_ERROR" THEN "CONNID_IN_ERROR" ELSE "SUCCESS")

\* BmmRfcommDataWriteCfmHandler, a frame was sent.
HandleRfcommWriteCfm ==
  /\ BmmReceive("WRITE_CFM")
  /\ sock.proto = "RFCOMM" /\ sock.state # "CLOSED"
  /\ sock' = [sock EXCEPT
                !.txCount = IF @ > 0 THEN @ - 1 ELSE @,
                !.pending = IF sock.txCount = Window THEN NoRequest ELSE @]
  /\ IF sock.txCount = Window THEN ConfirmPending ELSE UNCHANGED answer
  /\ UNCHANGED <<lower, nreq>>

\* The same handler, RFC_DATAWRITE_PENDING: RFCOMM has only passed the frame on.
IgnorePendingCfm ==
  /\ BmmReceive("PENDING_CFM")
  /\ UNCHANGED <<sock, lower, nreq, answer>>

\* The confirmed length of the oldest request, with the new confirmation m.
LengthCfd(m) == sock.segInfo[sock.dequeueIdx].lengthCfd + m.length

\* Mutant: each confirmation stands for a whole request.
WholeRequestConfirmed(m) == TRUE

RequestConfirmed(m) == LengthCfd(m) = sock.segInfo[sock.dequeueIdx].pduSize

\* BmmLecocDataWriteCfmHandler, a segment that is not the last of its request.
HandleLecocPartCfm ==
  /\ BmmReceive("WRITE_CFM")
  /\ sock.proto = "LECOC" /\ sock.state # "CLOSED"
  /\ ~RequestConfirmed(Head(bmmQ))
  /\ sock' = [sock EXCEPT !.segInfo[sock.dequeueIdx].lengthCfd = LengthCfd(Head(bmmQ))]
  /\ UNCHANGED <<lower, nreq, answer>>

\* The same handler: all of the oldest request is confirmed.  It does not
\* answer the request that waits when the result is L2CA_DATA_LOCAL_ABORTED,
\* which L2CAP gives to a request above the MTU, and the BMM lets none through,
\* and to the aborted list of a packet, which CB_FLOW leaves empty.
HandleLecocWriteCfm ==
  /\ BmmReceive("WRITE_CFM")
  /\ sock.proto = "LECOC" /\ sock.state # "CLOSED"
  /\ RequestConfirmed(Head(bmmQ))
  /\ LET full == sock.txCount >= Window
     IN  /\ sock' = [sock EXCEPT
                       !.segInfo[sock.dequeueIdx].lengthCfd = LengthCfd(Head(bmmQ)),
                       !.dequeueIdx = NextSlot(@),
                       !.txCount = Decrement(@),
                       !.pending = IF full THEN NoRequest ELSE @]
         /\ IF full THEN ConfirmPending ELSE UNCHANGED answer
  /\ UNCHANGED <<lower, nreq>>

\* A confirmation that comes after the socket was closed.
IgnoreWriteCfm ==
  /\ BmmReceive("WRITE_CFM")
  /\ sock.state = "CLOSED"
  /\ UNCHANGED <<sock, lower, nreq, answer>>

\* BmmRfcommDisconnectIndHandler, BmmLecocDisconnectIndHandler
HandleDisconnectInd ==
  /\ BmmReceive("DISCONNECT_IND")
  /\ sock' = [sock EXCEPT !.state = IF @ = "CONNECTED" THEN "IN_ERROR" ELSE @]
  /\ UNCHANGED <<lower, nreq, answer>>

-----------------------------------------------------------------------------
(***************************************************************************)
(* L2CAP and the link below it                                             *)
(***************************************************************************)
Segments(m) == [k \in 1 .. m.size |-> [req |-> m.req, idx |-> k, size |-> m.size]]

\* rfc_send_raw_uih_frame: RFCOMM tells the BMM of the frame it hands to L2CAP.
\* A request or a credit never lets more than one go.
ReportPending(k) ==
  bmmQ' = IF sock.proto = "RFCOMM" /\ k > 0
          THEN Append(bmmQ, [type |-> "PENDING_CFM"])
          ELSE bmmQ

\* CB_FLOW_Reschedule: as many segments go as there are credits.
Reschedule(segs, credits) ==
  LET k == Min({credits, Len(segs)})
  IN  /\ txQ' = txQ \o SubSeq(segs, 1, k)
      /\ sduQ' = SubSeq(segs, k + 1, Len(segs))
      /\ txCredits' = credits - k
      /\ ReportPending(k)

\* CB_FLOW_DataWrite.  When the channel is gone so is the request.
L2capWrites ==
  /\ l2capQ # <<>>
  /\ l2capQ' = Tail(l2capQ)
  /\ IF ChannelOpen
     THEN Reschedule(sduQ \o Segments(Head(l2capQ)), txCredits)
     ELSE UNCHANGED <<bmmQ, sduQ, txCredits, txQ>>
  /\ UNCHANGED <<sock, txDone, link, nreq, answer>>

\* The peer gives a credit back.
PeerGivesCredit ==
  /\ ChannelOpen
  /\ txCredits < MaxCredits
  /\ Reschedule(sduQ, txCredits + 1)
  /\ UNCHANGED <<sock, l2capQ, txDone, link, nreq, answer>>

\* CH_DataTx: the controller has room for a segment.
SendSegment ==
  /\ txQ # <<>>
  /\ txQ' = Tail(txQ)
  /\ txDone' = Append(txDone, Head(txQ))
  /\ UNCHANGED <<sock, bmmQ, l2capQ, sduQ, txCredits, link, nreq, answer>>

WriteCfm(n) == [type |-> "WRITE_CFM", length |-> n]

\* CH_DataSendComplete: the controller has sent a segment.
SegmentSent ==
  /\ txDone # <<>>
  /\ txDone' = Tail(txDone)
  /\ bmmQ' = Append(bmmQ, WriteCfm(1))
  /\ UNCHANGED <<sock, l2capQ, sduQ, txCredits, txQ, link, nreq, answer>>

\* CB_FLOW_FlushQueue, then CH_FlushPendingQueueWithCid: a request that was
\* not yet split to its end is confirmed with its whole length, and a segment
\* that did not reach the controller with none.  RFCOMM keeps these
\* confirmations to itself.
FlushCfms ==
  LET unsplit[k \in 0 .. Len(sduQ)] ==
        IF k = 0 THEN <<>>
        ELSE IF sduQ[k].idx = sduQ[k].size
             THEN Append(unsplit[k - 1], WriteCfm(sduQ[k].size))
             ELSE unsplit[k - 1]
  IN  IF sock.proto = "RFCOMM" THEN <<>>
      ELSE unsplit[Len(sduQ)] \o [k \in DOMAIN txQ |-> WriteCfm(0)]

\* L2CAOFFLOAD_DisconnectCid, CH_Destroy: what is under way is dropped.
DropChannel(q) ==
  /\ bmmQ' = q \o FlushCfms
  /\ sduQ' = <<>>
  /\ txQ' = <<>>
  /\ txDone' = <<>>

\* BmmSocketCloseReqHandler
HandleCloseReq ==
  /\ bmmQ # <<>>
  /\ Head(bmmQ).type = "CLOSE_REQ"
  /\ sock' = [NewSock(sock.proto) EXCEPT !.state = "CLOSED"]
  /\ DropChannel(Tail(bmmQ))
  /\ UNCHANGED <<l2capQ, txCredits, link, nreq, answer>>

\* dm_ev_disconnect_complete
LinkLost ==
  /\ sock.proto \in LossyLinks
  /\ link
  /\ link' = FALSE
  /\ DropChannel(bmmQ)
  /\ UNCHANGED <<sock, l2capQ, txCredits, nreq, answer>>

\* The peer breaks a rule of the channel: CB_FLOW_FatalError.
PeerViolates ==
  /\ ChannelOpen
  /\ sock.state = "CONNECTED"
  /\ \A k \in DOMAIN bmmQ : bmmQ[k].type # "DISCONNECT_IND"
  /\ bmmQ' = Append(bmmQ, [type |-> "DISCONNECT_IND"])
  /\ UNCHANGED <<sock, lower, nreq, answer>>

-----------------------------------------------------------------------------
(***************************************************************************)
(* The user: the offload manager on behalf of a microapp                   *)
(***************************************************************************)
UserSends(n) ==
  /\ nreq < MaxReq
  /\ nreq' = nreq + 1
  /\ bmmQ' = Append(bmmQ, [type |-> "DATA_REQ", req |-> nreq + 1, size |-> n])
  /\ UNCHANGED <<sock, lower, answer>>

UserCloses ==
  /\ sock.state # "CLOSED"
  /\ \A k \in DOMAIN bmmQ : bmmQ[k].type # "CLOSE_REQ"
  /\ bmmQ' = Append(bmmQ, [type |-> "CLOSE_REQ"])
  /\ UNCHANGED <<sock, lower, nreq, answer>>

-----------------------------------------------------------------------------
BmmStep ==
  \/ RefuseDataReq \/ TakeDataReq \/ TakeLastDataReq \/ DiscardDataReq
  \/ HandleRfcommWriteCfm \/ IgnorePendingCfm
  \/ HandleLecocPartCfm \/ HandleLecocWriteCfm
  \/ IgnoreWriteCfm
  \/ HandleDisconnectInd
  \/ HandleCloseReq

LinkStep == SendSegment \/ SegmentSent

Init ==
  /\ \E p \in Protos : sock = NewSock(p)
  /\ bmmQ = <<>>
  /\ l2capQ = <<>>
  /\ sduQ = <<>>
  /\ txCredits \in 0 .. MaxCredits
  /\ txQ = <<>>
  /\ txDone = <<>>
  /\ link = TRUE
  /\ nreq = 0
  /\ answer = [r \in {NoRequest} \cup Request |-> <<>>]

Next ==
  \/ BmmStep
  \/ L2capWrites
  \/ LinkStep
  \/ PeerGivesCredit
  \/ LinkLost
  \/ PeerViolates
  \/ \E n \in Sizes : UserSends(n)
  \/ UserCloses

Spec == Init /\ [][Next]_vars

(***************************************************************************)
(* The scheduler runs every task with a message, the controller sends what *)
(* it has and a working peer gives its credits back.  Nothing makes the    *)
(* user send or close, or the peer or the link fail.                       *)
(***************************************************************************)
FairSpec ==
  /\ Spec
  /\ WF_vars(BmmStep)
  /\ WF_vars(L2capWrites)
  /\ WF_vars(SendSegment)
  /\ WF_vars(SegmentSent)
  /\ WF_vars(PeerGivesCredit)

-----------------------------------------------------------------------------
Segment == [req : Request, idx : Nat \ {0}, size : Sizes]

Result == {"SUCCESS", "INVALID_CONNID", "CONNID_IN_ERROR", "ACL_DOES_NOT_EXIST",
           "MTU_VIOLATION", "FLOW_CONTROL_VIOLATED"}

BmmMsg ==
  [type : {"DATA_REQ"}, req : Request, size : Sizes]
    \cup [type : {"WRITE_CFM"}, length : Nat]
    \cup [type : {"PENDING_CFM", "DISCONNECT_IND", "CLOSE_REQ"}]

TypeOK ==
  /\ sock \in [proto : Protos, state : {"CONNECTED", "IN_ERROR", "CLOSED"},
               txCount : 0 .. MaxTxCount,
               pending : {NoRequest} \cup Request,
               segInfo : [Slot -> [pduSize : Nat, lengthCfd : Nat]],
               enqueueIdx : Slot, dequeueIdx : Slot]
  /\ bmmQ \in Seq(BmmMsg)
  /\ l2capQ \in Seq([req : Request, size : Sizes])
  /\ sduQ \in Seq(Segment) /\ txQ \in Seq(Segment) /\ txDone \in Seq(Segment)
  /\ txCredits \in 0 .. MaxCredits
  /\ link \in BOOLEAN
  /\ nreq \in 0 .. MaxReq
  /\ answer \in [{NoRequest} \cup Request -> Seq(Result)]

\* The sum of a sequence of numbers.
Total(s) ==
  LET sum[k \in 0 .. Len(s)] == IF k = 0 THEN 0 ELSE sum[k - 1] + s[k]
  IN  sum[Len(s)]

\* The k-th of the requests under way, counted from 0 at dequeueIdx.
Info(k) == sock.segInfo[(sock.dequeueIdx + k) % Window]

\* What the BMM still expects to be confirmed, in segments: on LE CoC the rest
\* of each of the txCount requests from dequeueIdx on.
Expected ==
  IF sock.proto = "RFCOMM" THEN sock.txCount
  ELSE Total([k \in 1 .. sock.txCount |-> Info(k - 1).pduSize - Info(k - 1).lengthCfd])

Requested == Total([k \in DOMAIN l2capQ |-> l2capQ[k].size])

Confirmed ==
  Total([k \in DOMAIN bmmQ |-> IF bmmQ[k].type = "WRITE_CFM" THEN bmmQ[k].length ELSE 0])

\* No confirmation is lost, counted twice or put on the account of another
\* request: what the BMM expects is what is under way below it.
SegmentsConserved ==
  ChannelOpen =>
    Expected = Requested + Len(sduQ) + Len(txQ) + Len(txDone) + Confirmed

\* A request is never confirmed twice, and no confirmation goes to nobody.
ConfirmedOnce ==
  /\ answer[NoRequest] = <<>>
  /\ \A r \in Request : Len(answer[r]) <= 1

\* Every request is confirmed, unless its socket is closed or its link is lost,
\* also the one that filled the window and also when the peer breaks a rule in
\* between.
RequestsConfirmed ==
  \A r \in Request : nreq >= r ~> answer[r] # <<>> \/ sock.state = "CLOSED" \/ ~link
=============================================================================
