-------------------------------- MODULE Bmm --------------------------------
(***************************************************************************)
(* The connection manager of the microstack (BMM): the table of offloaded  *)
(* sockets, gBmm.socket[], and the handlers of the socket primitives.  It  *)
(* runs on the microstack scheduler, one message at a time, and posts its  *)
(* confirmations into the pipe of the offload manager.                     *)
(***************************************************************************)
EXTENDS OffloadChannels, FiniteSetsExt

CONSTANTS
  MaxConn,      \* BMM_SOCK_MAX_RFCOMM_CONN = BMM_SOCK_MAX_LECOC_CONN
  LinkFaults    \* protocols whose peer may violate MTU, MPS or SAR rules

ASSUME MaxConnAssumption == MaxConn \in Nat
ASSUME LinkFaultsAssumption == LinkFaults \subseteq Protocol

VARIABLE sock

bmmVars == <<sock>>

(***************************************************************************)
(* An entry of gBmm.socket[].  A free one is all zero (CsrMemSet), so a    *)
(* free entry is one value.                                                *)
(***************************************************************************)
FreeSock == [inUse |-> FALSE, conn |-> NoConn, sid |-> 0, proto |-> "NONE",
             inError |-> FALSE, credits |-> FALSE]

UsedSock == [inUse : {TRUE}, conn : ConnId, sid : SocketId, proto : Protocol,
             inError : BOOLEAN, credits : BOOLEAN]

InUse == {k \in Sock : sock[k].inUse}

UsedBy(p) == {k \in InUse : sock[k].proto = p}

\* BmmIsConnIdValid; its panics, on an entry whose fields contradict its id, are
\* excluded by BmmConsistent.
IsConnIdValid(c) ==
  c.idx \in Sock /\ sock[c.idx].inUse /\ sock[c.idx].conn = c

\* BmmValidateSocketOffloadReq, but for the checks of the parameters.
CanOffload(s, p) ==
  /\ \A k \in InUse : sock[k].sid # s
  /\ Cardinality(UsedBy(p)) < MaxConn
  /\ Sock \ InUse # {}

BmmReceive(t) ==
  /\ bmmQ # <<>>
  /\ Head(bmmQ).type = t
  /\ bmmQ' = Tail(bmmQ)

OffloadCfm(i, c, ok) == [type |-> "OFFLOAD_CFM", inst |-> i, conn |-> c, ok |-> ok]

\* BmmSocketRfcommOffloadReqHandler, BmmSocketLecocOffloadReqHandler: the
\* socket takes the first free entry.
HandleOffloadReq ==
  /\ BmmReceive("OFFLOAD_REQ")
  /\ LET m == Head(bmmQ)
         k == Min(Sock \ InUse)
         c == GenerateConnId(m.proto, m.sid, k)
     IN  /\ CanOffload(m.sid, m.proto)
         /\ sock' = [sock EXCEPT ![k] = [inUse |-> TRUE, conn |-> c, sid |-> m.sid,
                                         proto |-> m.proto, inError |-> FALSE,
                                         credits |-> FALSE]]
         /\ pipe' = Append(pipe, OffloadCfm(m.inst, c, TRUE))
  /\ UNCHANGED <<uappQ, halQ>>

\* The same handlers refusing: the socket cannot be taken, a parameter of the
\* request (dlci, rxCredits) is bad or the HCI arbiter has no filter for it.
RefuseOffloadReq ==
  /\ BmmReceive("OFFLOAD_REQ")
  /\ pipe' = Append(pipe, OffloadCfm(Head(bmmQ).inst, NoConn, FALSE))
  /\ UNCHANGED <<sock, uappQ, halQ>>

\* BmmSocketCloseReqHandler
HandleCloseReq ==
  /\ BmmReceive("CLOSE_REQ")
  /\ LET c == Head(bmmQ).conn
         valid == IsConnIdValid(c)
     IN  /\ sock' = IF valid THEN [sock EXCEPT ![c.idx] = FreeSock] ELSE sock
         /\ pipe' = Append(pipe, [type |-> "CLOSE_CFM", conn |-> c, ok |-> valid])
  /\ UNCHANGED <<uappQ, halQ>>

\* BmmSocketSetParamsReqHandler with BMM_SOCK_PREFERRED_RX_CREDITS, the only
\* parameter the socket manager sets.  Its confirmation is only logged.
HandleSetParamsReq ==
  /\ BmmReceive("SET_PARAMS_REQ")
  /\ LET c == Head(bmmQ).conn
     IN  sock' = IF IsConnIdValid(c) THEN [sock EXCEPT ![c.idx].credits = TRUE] ELSE sock
  /\ UNCHANGED <<pipe, uappQ, halQ>>

\* Mutant: the entry of the socket is freed at once.
LinkViolationFrees(k) ==
  /\ sock[k].inUse
  /\ sock[k].proto \in LinkFaults
  /\ sock' = [sock EXCEPT ![k] = FreeSock]
  /\ pipe' = Append(pipe, [type |-> "ERROR_IND", proto |-> sock[k].proto])
  /\ UNCHANGED <<bmmQ, uappQ, halQ>>

\* BmmRfcommDisconnectIndHandler, BmmLecocDisconnectIndHandler: the peer broke
\* a rule of the link.
LinkViolation(k) ==
  /\ sock[k].inUse
  /\ sock[k].proto \in LinkFaults
  /\ ~sock[k].inError
  /\ sock' = [sock EXCEPT ![k].inError = TRUE]
  /\ pipe' = Append(pipe, [type |-> "ERROR_IND", proto |-> sock[k].proto])
  /\ UNCHANGED <<bmmQ, uappQ, halQ>>

BmmNext ==
  \/ HandleOffloadReq
  \/ RefuseOffloadReq
  \/ HandleCloseReq
  \/ HandleSetParamsReq
  \/ \E k \in Sock : LinkViolation(k)

BmmInit == sock = [k \in Sock |-> FreeSock]

BmmTypeOK == sock \in [Sock -> UsedSock \cup {FreeSock}]
=============================================================================
