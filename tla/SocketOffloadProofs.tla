------------------------ MODULE SocketOffloadProofs -------------------------
(***************************************************************************)
(* What holds of SocketOffload for every value of its constants:           *)
(*                                                                         *)
(* 1. TypeCorrect.  TypeOK is inductive: it says of a busy instance that   *)
(*    it has a socket, so whatever its state machine sends is a message    *)
(*    of the right kind.                                                   *)
(* 2. HolderUnique, LookupFindsHolder, NoInstanceLeaks: no request of the  *)
(*    HAL is lost, answered twice or served twice.                         *)
(* 3. TableConsistent, CountsMatchSlots: the tables of sockets at the two  *)
(*    ends of the offload.                                                 *)
(* 4. LivesInOrder: the lives of the sockets of a patient HAL, from the    *)
(*    open request to the answer of the close, what each part holds of a   *)
(*    socket and what about it is on its way.  Life has ten parts, each    *)
(*    about one kind of message and the state it belongs to, and is        *)
(*    inductive with what the theorems before it show (Base).              *)
(* 5. DataFindsInstance, FreesForOwner, PartsAgree: the scans by           *)
(*    connection id, the closes of the BMM, agreement at rest.             *)
(* 6. ServiceKept: every step is one of OffloadService or does not show.   *)
(***************************************************************************)
EXTENDS SocketOffload, SequenceTheorems, WellFoundedInduction,
        FiniteSetTheorems, TLAPS

-----------------------------------------------------------------------------
(* The transition table.                                                   *)

\* NextState is the target of a row of StateTable.
LEMMA RowTaken ==
  ASSUME NEW s, NEW e, HasRow(s, e)
  PROVE  \E r \in StateTable : r.from = s /\ r.evt = e /\ r.to = NextState(s, e)
BY DEF HasRow, NextState

\* A machine leaves its idle state for an offload request only, and every
\* transition ends in a state, of which Rest is one.
LEMMA TableTyped ==
  ASSUME NEW s, NEW e, HasRow(s, e)
  PROVE  /\ NextState(s, e) \in State
         /\ s = "Idle" => e = "OFFLOAD_REQ"
BY RowTaken DEF StateTable, Row, State

\* A state comes to rest in a state.
LEMMA RestTyped ==
  ASSUME NEW s \in State
  PROVE  Rest(s) \in State
<1>1. /\ HasRow("OffloadFailure", "OFFLOAD_INSTANCE_FREE")
      /\ HasRow("UnoffloadSuccess", "OFFLOAD_INSTANCE_FREE")
      /\ HasRow("UnOffloadReqFromHAL", "UNOFFLOAD_FROM_MICROAPP_SUCCESS")
  BY DEF HasRow, StateTable, Row
<1>2. QED
  BY <1>1, TableTyped DEF Rest

-----------------------------------------------------------------------------
(* What the state machine sends.                                           *)

\* The sequence of one message, and the empty one.
LEMMA SingletonSeq ==
  ASSUME NEW S, NEW e \in S
  PROVE  <<e>> \in Seq(S) /\ <<>> \in Seq(S)
OBVIOUS

\* The messages sent on entering a state have the types of their queues when
\* the instance has a socket.
LEMMA MessagesTyped ==
  ASSUME NEW i \in Inst, NEW s \in State,
         socketId'[i] \in SocketId, socketType'[i] \in Protocol,
         epId'[i] \in Endpoint, pseudoId'[i] \in ConnId
  PROVE  /\ ToBmm(i, s) \in Seq(BmmMsg)
         /\ ToUapp(i, s) \in Seq(UappMsg)
         /\ ToHal(i, s) \in Seq(HalMsg)
<1> DEFINE open == [type |-> "OFFLOAD_REQ", sid |-> socketId'[i],
                    proto |-> socketType'[i], inst |-> i]
           close == [type |-> "CLOSE_REQ", conn |-> pseudoId'[i]]
           params == [type |-> "SET_PARAMS_REQ", conn |-> pseudoId'[i]]
<1>1. ToBmm(i, s) \in Seq(BmmMsg)
  <2>1. {open, close, params} \subseteq BmmMsg
    BY DEF BmmMsg
  <2>2. ToBmm(i, s) \in {<<open>>, <<close>>, <<params>>, <<>>}
    BY DEF ToBmm
  <2> HIDE DEF open, close, params
  <2>3. QED
    BY <2>1, <2>2, SingletonSeq, Zenon
<1>2. ToUapp(i, s) \in Seq(UappMsg)
  <2> DEFINE uopen == [type |-> "OPEN_REQ", sid |-> socketId'[i],
                       proto |-> socketType'[i], ep |-> epId'[i]]
             uclose == [type |-> "CLOSE_REQ", sid |-> socketId'[i], ep |-> epId'[i]]
  <2>1. {uopen, uclose} \subseteq UappMsg
    BY DEF UappMsg
  <2>2. ToUapp(i, s) \in {<<uopen>>, <<uclose>>, <<>>}
    BY DEF ToUapp
  <2> HIDE DEF uopen, uclose
  <2>3. QED
    BY <2>1, <2>2, SingletonSeq, Zenon
<1>3. ToHal(i, s) \in Seq(HalMsg)
  <2> DEFINE rsp(ok) == OpenRsp(socketId'[i], ok)
             done == [type |-> "CLOSE_RSP", sid |-> socketId'[i]]
  <2>1. {rsp(TRUE), rsp(FALSE), done} \subseteq HalMsg
    BY DEF HalMsg, OpenRsp
  <2>2. ToHal(i, s) \in {<<rsp(TRUE)>>, <<rsp(FALSE)>>, <<done>>, <<>>}
    BY DEF ToHal
  <2> HIDE DEF rsp, done
  <2>3. QED
    BY <2>1, <2>2, SingletonSeq, Zenon
<1>4. QED
  BY <1>1, <1>2, <1>3

\* One event processed: the state and the queues it writes keep their types.
LEMMA ProcessTyped ==
  ASSUME TypeOK, NEW i \in Inst, NEW e, Process(i, e),
         pseudoId'[i] \in ConnId, epId'[i] \in Endpoint,
         \/ e = "OFFLOAD_REQ" /\ socketId'[i] \in SocketId /\ socketType'[i] \in Protocol
         \/ e # "OFFLOAD_REQ" /\ UNCHANGED <<socketId, socketType>>
  PROVE  /\ state' \in [Inst -> State]
         /\ bmmQ' \in Seq(BmmMsg)
         /\ uappQ' \in Seq(UappMsg)
         /\ halQ' \in Seq(HalMsg)
         /\ state'[i] # "Idle" =>
              \/ e = "OFFLOAD_REQ"
              \/ socketId'[i] \in SocketId /\ socketType'[i] \in Protocol
         /\ \A j \in Inst \ {i} : state'[j] = state[j]
<1> USE DEF TypeOK, ChannelsTypeOK, MgrTypeOK
<1>1. CASE ~HasRow(state[i], e)
  BY <1>1 DEF Process, Stay
<1>2. CASE HasRow(state[i], e)
  <2> DEFINE t == NextState(state[i], e)
  <2>1. t \in State /\ Rest(t) \in State
    BY <1>2, TableTyped, RestTyped
  <2>2. Enter(i, t)
    BY <1>2 DEF Process
  <2>3. socketId'[i] \in SocketId /\ socketType'[i] \in Protocol
    BY <1>2, TableTyped
  <2>4. /\ ToBmm(i, t) \in Seq(BmmMsg)
        /\ ToUapp(i, t) \in Seq(UappMsg)
        /\ ToHal(i, t) \in Seq(HalMsg)
    BY <2>1, <2>3, MessagesTyped
  <2> HIDE DEF t
  <2>5. /\ bmmQ' \in Seq(BmmMsg)
        /\ uappQ' \in Seq(UappMsg)
        /\ halQ' \in Seq(HalMsg)
    BY <2>2, <2>4 DEF Enter
  <2>6. QED
    BY <2>1, <2>2, <2>3, <2>5 DEF Enter
<1>3. QED
  BY <1>1, <1>2

-----------------------------------------------------------------------------
(* The heads of the queues: the tag of a message tells what it carries.    *)

\* The first message of the pipe, by its type.
LEMMA PipeHead ==
  ASSUME ChannelsTypeOK, NEW t, Receive(t)
  PROVE  /\ pipe' \in Seq(PipeMsg)
         /\ t = "OPEN_SOCKET" => Head(pipe) \in OpenMsg
         /\ t = "CLOSE_SOCKET" => Head(pipe) \in CloseMsg
         /\ t = "OFFLOAD_CFM" => Head(pipe) \in OffloadCfmMsg
         /\ t = "CLOSE_CFM" => Head(pipe) \in CloseCfmMsg
         /\ t = "ERROR_IND" => Head(pipe) \in ErrorIndMsg
         /\ t = "UAPP_OPEN_RES" => Head(pipe) \in UappOpenResMsg
<1>1. /\ pipe' \in Seq(PipeMsg)
      /\ Head(pipe) \in PipeMsg
      /\ Head(pipe).type = t
  BY HeadTailProperties DEF ChannelsTypeOK, Receive
<1>2. QED
  BY <1>1 DEF PipeMsg, OpenMsg, CloseMsg, OffloadCfmMsg, CloseCfmMsg, ErrorIndMsg,
              UappOpenResMsg

\* The first message to the BMM, by its type.
LEMMA BmmHead ==
  ASSUME ChannelsTypeOK, NEW t, BmmReceive(t)
  PROVE  /\ bmmQ' \in Seq(BmmMsg)
         /\ t = "OFFLOAD_REQ" =>
              /\ Head(bmmQ).sid \in SocketId
              /\ Head(bmmQ).proto \in Protocol
              /\ Head(bmmQ).inst \in Inst
         /\ t \in {"CLOSE_REQ", "SET_PARAMS_REQ"} => Head(bmmQ).conn \in ConnId
<1>1. /\ bmmQ' \in Seq(BmmMsg)
      /\ Head(bmmQ) \in BmmMsg
      /\ Head(bmmQ).type = t
  BY HeadTailProperties DEF ChannelsTypeOK, BmmReceive
<1>2. QED
  BY <1>1 DEF BmmMsg

\* The first message to the watch processor, by its type.
LEMMA UappHead ==
  ASSUME ChannelsTypeOK, NEW t, UappReceive(t)
  PROVE  /\ uappQ' \in Seq(UappMsg)
         /\ t \in {"OPEN_REQ", "CLOSE_REQ"} =>
              Head(uappQ).sid \in SocketId /\ Head(uappQ).ep \in Endpoint
<1>1. /\ uappQ' \in Seq(UappMsg)
      /\ Head(uappQ) \in UappMsg
      /\ Head(uappQ).type = t
  BY HeadTailProperties DEF ChannelsTypeOK, UappReceive
<1>2. QED
  BY <1>1 DEF UappMsg

\* The first message to the HAL.
LEMMA HalHead ==
  ASSUME ChannelsTypeOK, halQ # <<>>
  PROVE  /\ Tail(halQ) \in Seq(HalMsg)
         /\ Head(halQ).sid \in SocketId
         /\ Head(halQ).type \in {"OPEN_RSP", "CLOSE_RSP"}
<1>1. Tail(halQ) \in Seq(HalMsg) /\ Head(halQ) \in HalMsg
  BY HeadTailProperties DEF ChannelsTypeOK
<1>2. QED
  BY <1>1 DEF HalMsg

\* The minimum of a nonempty set of naturals is its least element.
LEMMA MinIsLeast ==
  ASSUME NEW S \in SUBSET Nat, S # {}
  PROVE  Min(S) \in S /\ \A x \in S : Min(S) <= x
<1>1. PICK m \in S : \A x \in S : m <= x
  <2> DEFINE R == {xy \in Nat \X Nat : xy[1] < xy[2]}
  <2>1. IsWellFoundedOn(R, Nat)
    BY NatLessThanWellFounded DEF OpToRel
  <2> HIDE DEF R
  <2>2. PICK m \in S : \A x \in S : <<x, m>> \notin R
    BY <2>1, WFMin
  <2>3. ASSUME NEW x \in S
        PROVE  m <= x
    <3>1. x \in Nat /\ m \in Nat
      OBVIOUS
    <3>2. ~(x < m)
      BY <2>2, <3>1 DEF R
    <3>3. QED
      BY <3>1, <3>2
  <2>4. QED
    BY <2>3
<1>2. QED
  BY <1>1 DEF Min

-----------------------------------------------------------------------------
(* The steps of the offload manager.                                       *)

\* A handler that raises one event, other than an offload request, for one
\* instance it found or for none.
LEMMA HandlerTyped ==
  ASSUME TypeOK, NEW t, Receive(t), NEW i, NEW e,
         e # "OFFLOAD_REQ",
         Stay \/ (i \in Inst /\ Process(i, e)),
         pseudoId' \in [Inst -> ConnId],
         UNCHANGED <<dataVars, fatal>>
  PROVE  ChannelsTypeOK' /\ MgrTypeOK'
<1> USE DEF TypeOK, MgrTypeOK, dataVars
<1>1. pipe' \in Seq(PipeMsg)
  BY PipeHead
<1>2. CASE Stay
  BY <1>1, <1>2 DEF Stay, ChannelsTypeOK
<1>3. CASE i \in Inst /\ Process(i, e)
  <2>1. /\ state' \in [Inst -> State]
        /\ bmmQ' \in Seq(BmmMsg)
        /\ uappQ' \in Seq(UappMsg)
        /\ halQ' \in Seq(HalMsg)
        /\ state'[i] # "Idle" => socketId'[i] \in SocketId /\ socketType'[i] \in Protocol
        /\ \A j \in Inst \ {i} : state'[j] = state[j]
    BY <1>3, ProcessTyped
  <2>2. QED
    BY <1>1, <1>3, <2>1 DEF ChannelsTypeOK
<1>4. QED
  BY <1>2, <1>3

\* The steps of the offload manager keep the types.
LEMMA MgrStepTyped ==
  ASSUME TypeOK, MgrNext
  PROVE  ChannelsTypeOK' /\ MgrTypeOK'
<1> USE DEF TypeOK
<1>1. CASE HandleOpenSocket
  <2> DEFINE m == Head(pipe)
             i == FindIdleInstance
  <2>1. pipe' \in Seq(PipeMsg) /\ m \in OpenMsg
    BY <1>1, PipeHead DEF HandleOpenSocket
  <2>2. i \in Inst
    BY <1>1, MinIsLeast DEF HandleOpenSocket, FindIdleInstance, IdleInst, Inst
  <2>3. /\ socketId' = [socketId EXCEPT ![i] = m.sid]
        /\ socketType' = [socketType EXCEPT ![i] = m.proto]
        /\ epId' = [epId EXCEPT ![i] = m.ep]
        /\ UNCHANGED <<pseudoId, fatal>>
        /\ Process(i, "OFFLOAD_REQ")
    BY <1>1 DEF HandleOpenSocket
  <2>4. m.sid \in SocketId /\ m.proto \in Protocol /\ m.ep \in Endpoint
    BY <2>1 DEF OpenMsg
  <2> HIDE DEF m, i
  <2>5. /\ socketId' \in [Inst -> SocketId \cup {NoSocket}]
        /\ socketType' \in [Inst -> Protocol \cup {"NONE"}]
        /\ epId' \in [Inst -> Endpoint]
        /\ socketId'[i] \in SocketId /\ socketType'[i] \in Protocol
        /\ \A j \in Inst \ {i} :
             socketId'[j] = socketId[j] /\ socketType'[j] = socketType[j]
    BY <2>2, <2>3, <2>4 DEF MgrTypeOK
  <2>6. /\ state' \in [Inst -> State]
        /\ bmmQ' \in Seq(BmmMsg)
        /\ uappQ' \in Seq(UappMsg)
        /\ halQ' \in Seq(HalMsg)
        /\ \A j \in Inst \ {i} : state'[j] = state[j]
    BY <2>2, <2>3, <2>5, ProcessTyped DEF MgrTypeOK
  <2>7. QED
    BY <2>1, <2>2, <2>3, <2>5, <2>6 DEF ChannelsTypeOK, MgrTypeOK
<1>2. CASE HandleOpenNoInstance
  <2>1. pipe' \in Seq(PipeMsg) /\ Head(pipe) \in OpenMsg
    BY <1>2, PipeHead DEF HandleOpenNoInstance
  <2>2. OpenRsp(Head(pipe).sid, FALSE) \in HalMsg
    BY <2>1 DEF OpenMsg, HalMsg, OpenRsp
  <2>3. halQ' \in Seq(HalMsg)
    BY <1>2, <2>2, AppendProperties DEF HandleOpenNoInstance, ChannelsTypeOK
  <2>4. UNCHANGED <<mgrVars, bmmQ, uappQ>>
    BY <1>2 DEF HandleOpenNoInstance
  <2>5. QED
    BY <2>1, <2>3, <2>4 DEF ChannelsTypeOK, MgrTypeOK, mgrVars
<1>3. CASE HandleCloseSocket
  <2> DEFINE found == InstWithSocketId(Head(pipe).sid)
  <2>1. Stay \/ (Min(found) \in Inst /\ Process(Min(found), "UNOFFLOAD_REQ"))
    BY <1>3, MinIsLeast DEF HandleCloseSocket, InstWithSocketId, Inst
  <2> HIDE DEF found
  <2>2. QED
    BY <1>3, <2>1, HandlerTyped DEF HandleCloseSocket, MgrTypeOK
<1>4. CASE HandleOffloadCfm
  <2> DEFINE m == Head(pipe)
  <2>1. m.inst \in Inst /\ m.conn \in ConnId
    BY <1>4, PipeHead DEF HandleOffloadCfm, OffloadCfmMsg
  <2>2. /\ Receive("OFFLOAD_CFM")
        /\ pseudoId' = [pseudoId EXCEPT ![m.inst] = m.conn]
        /\ UNCHANGED <<dataVars, fatal>>
        /\ Process(m.inst, MicrostackEvent(m.ok))
    BY <1>4 DEF HandleOffloadCfm
  <2>3. MicrostackEvent(m.ok) # "OFFLOAD_REQ"
    BY DEF MicrostackEvent
  <2> HIDE DEF m
  <2>4. QED
    BY <2>1, <2>2, <2>3, HandlerTyped DEF MgrTypeOK
<1>5. CASE HandleCloseCfm
  <2> DEFINE found == InstWithPseudoId(Head(pipe).conn)
  <2>1. \/ Stay
        \/ Min(found) \in Inst /\ Process(Min(found), "UNOFFLOAD_FROM_MICROSTACK_SUCCESS")
    BY <1>5, MinIsLeast DEF HandleCloseCfm, InstWithPseudoId, Inst
  <2> HIDE DEF found
  <2>2. QED
    BY <1>5, <2>1, HandlerTyped DEF HandleCloseCfm, MgrTypeOK
<1>6. CASE HandleUappOpenRes
  <2> DEFINE found == InstWithSocketId(Head(pipe).sid)
             e == UappEvent(Head(pipe).ok)
  <2>1. Stay \/ (Min(found) \in Inst /\ Process(Min(found), e))
    BY <1>6, MinIsLeast DEF HandleUappOpenRes, InstWithSocketId, Inst
  <2>2. e # "OFFLOAD_REQ"
    BY DEF UappEvent
  <2> HIDE DEF found, e
  <2>3. QED
    BY <1>6, <2>1, <2>2, HandlerTyped DEF HandleUappOpenRes, MgrTypeOK
<1>7. CASE HandleErrorInd
  BY <1>7, PipeHead DEF HandleErrorInd, ChannelsTypeOK, MgrTypeOK, dataVars
<1>8. QED
  BY <1>1, <1>2, <1>3, <1>4, <1>5, <1>6, <1>7 DEF MgrNext

-----------------------------------------------------------------------------
(* The steps of the BMM.                                                   *)

\* A generated connection id is one.
LEMMA ConnIdTyped ==
  ASSUME NEW p \in Protocol, NEW s \in SocketId, NEW k \in Sock
  PROVE  GenerateConnId(p, s, k) \in ConnId
BY SocketIdAssumption, IdSpaceAssumption DEF GenerateConnId, ConnId

\* A handler of the BMM answers with one message or with none.
LEMMA BmmHandlerTyped ==
  ASSUME TypeOK, bmmQ' \in Seq(BmmMsg), NEW m \in PipeMsg,
         pipe' = pipe \/ pipe' = Append(pipe, m),
         UNCHANGED <<uappQ, halQ>>
  PROVE  ChannelsTypeOK'
<1>1. pipe \in Seq(PipeMsg) /\ uappQ \in Seq(UappMsg) /\ halQ \in Seq(HalMsg)
  BY DEF TypeOK, ChannelsTypeOK
<1>2. pipe' \in Seq(PipeMsg)
  BY SMTT(30), <1>1, AppendProperties
<1>3. QED
  BY <1>1, <1>2 DEF ChannelsTypeOK

\* The steps of the BMM keep the types.
LEMMA BmmStepTyped ==
  ASSUME TypeOK, BmmNext
  PROVE  ChannelsTypeOK' /\ BmmTypeOK'
<1> USE DEF TypeOK
<1>1. CASE HandleOffloadReq
  <2> DEFINE m == Head(bmmQ)
             k == Min(Sock \ InUse)
             c == GenerateConnId(m.proto, m.sid, k)
  <2>1. /\ bmmQ' \in Seq(BmmMsg)
        /\ m.sid \in SocketId /\ m.proto \in Protocol /\ m.inst \in Inst
    BY <1>1, BmmHead DEF HandleOffloadReq
  <2>2. k \in Sock
    <3>1. Sock \ InUse \in SUBSET Nat /\ Sock \ InUse # {}
      BY <1>1 DEF HandleOffloadReq, CanOffload, Sock
    <3>2. QED
      BY <3>1, MinIsLeast
  <2>3. /\ sock' = [sock EXCEPT ![k] = [inUse |-> TRUE, conn |-> c, sid |-> m.sid,
                                        proto |-> m.proto, inError |-> FALSE,
                                        credits |-> FALSE]]
        /\ pipe' = Append(pipe, OffloadCfm(m.inst, c, TRUE))
        /\ UNCHANGED <<uappQ, halQ>>
    BY <1>1 DEF HandleOffloadReq
  <2>4. c \in ConnId
    BY <2>1, <2>2, ConnIdTyped
  <2> HIDE DEF m, k, c
  <2>5. BmmTypeOK'
    BY <2>1, <2>2, <2>3, <2>4 DEF BmmTypeOK, UsedSock
  <2>6. OffloadCfm(m.inst, c, TRUE) \in PipeMsg
    BY <2>1, <2>4 DEF OffloadCfm, PipeMsg, OffloadCfmMsg
  <2>7. QED
    BY <2>1, <2>3, <2>5, <2>6, BmmHandlerTyped
<1>2. CASE RefuseOffloadReq
  <2> DEFINE r == OffloadCfm(Head(bmmQ).inst, NoConn, FALSE)
  <2>1. bmmQ' \in Seq(BmmMsg) /\ Head(bmmQ).inst \in Inst
    BY <1>2, BmmHead DEF RefuseOffloadReq
  <2>2. r \in PipeMsg
    BY <2>1 DEF OffloadCfm, PipeMsg, OffloadCfmMsg, ConnId
  <2>3. pipe' = Append(pipe, r) /\ UNCHANGED <<sock, uappQ, halQ>>
    BY <1>2 DEF RefuseOffloadReq
  <2> HIDE DEF r
  <2>4. QED
    BY <2>1, <2>2, <2>3, BmmHandlerTyped DEF BmmTypeOK
<1>3. CASE HandleCloseReq
  <2> DEFINE c == Head(bmmQ).conn
             r == [type |-> "CLOSE_CFM", conn |-> c, ok |-> IsConnIdValid(c)]
  <2>1. bmmQ' \in Seq(BmmMsg) /\ c \in ConnId
    BY <1>3, BmmHead DEF HandleCloseReq
  <2>2. IsConnIdValid(c) \in BOOLEAN
    BY DEF IsConnIdValid
  <2>3. r \in PipeMsg
    BY <2>1, <2>2 DEF PipeMsg, CloseCfmMsg
  <2>4. /\ sock' = sock \/ (c.idx \in Sock /\ sock' = [sock EXCEPT ![c.idx] = FreeSock])
        /\ pipe' = Append(pipe, r)
        /\ UNCHANGED <<uappQ, halQ>>
    BY <1>3 DEF HandleCloseReq, IsConnIdValid
  <2> HIDE DEF c, r
  <2>5. BmmTypeOK'
    BY <2>4 DEF BmmTypeOK
  <2>6. QED
    BY <2>1, <2>3, <2>4, <2>5, BmmHandlerTyped
<1>4. CASE HandleSetParamsReq
  <2> DEFINE c == Head(bmmQ).conn
  <2>1. bmmQ' \in Seq(BmmMsg) /\ UNCHANGED <<pipe, uappQ, halQ>>
    BY <1>4, BmmHead DEF HandleSetParamsReq
  <2>2. \/ sock' = sock
        \/ /\ c.idx \in Sock /\ sock[c.idx].inUse
           /\ sock' = [sock EXCEPT ![c.idx].credits = TRUE]
    BY <1>4 DEF HandleSetParamsReq, IsConnIdValid
  <2> HIDE DEF c
  <2>3. BmmTypeOK'
    <3>1. CASE sock' = sock
      BY <3>1 DEF BmmTypeOK
    <3>2. CASE sock' # sock
      <4>1. sock[c.idx] \in UsedSock
        BY <2>2, <3>2 DEF BmmTypeOK, FreeSock
      <4>2. [sock[c.idx] EXCEPT !.credits = TRUE] \in UsedSock
        BY <4>1 DEF UsedSock
      <4>3. QED
        BY <2>2, <3>2, <4>2 DEF BmmTypeOK
    <3>3. QED
      BY <3>1, <3>2
  <2>4. QED
    BY <2>1, <2>3 DEF ChannelsTypeOK
<1>5. ASSUME NEW k \in Sock, LinkViolation(k)
      PROVE  ChannelsTypeOK' /\ BmmTypeOK'
  <2> DEFINE r == [type |-> "ERROR_IND", proto |-> sock[k].proto]
  <2>1. sock[k] \in UsedSock
    BY <1>5 DEF LinkViolation, BmmTypeOK, FreeSock
  <2>2. r \in PipeMsg
    BY <2>1 DEF UsedSock, PipeMsg, ErrorIndMsg
  <2>3. /\ sock' = [sock EXCEPT ![k].inError = TRUE]
        /\ pipe' = Append(pipe, r)
        /\ UNCHANGED <<bmmQ, uappQ, halQ>>
    BY <1>5 DEF LinkViolation
  <2> HIDE DEF r
  <2>4. BmmTypeOK'
    BY <2>1, <2>3 DEF BmmTypeOK, UsedSock
  <2>5. QED
    BY <2>2, <2>3, <2>4, BmmHandlerTyped DEF ChannelsTypeOK
<1>6. QED
  BY <1>1, <1>2, <1>3, <1>4, <1>5 DEF BmmNext

-----------------------------------------------------------------------------
(* The steps of the microapps.                                             *)

\* The steps of the microapps keep the types.
LEMMA AppStepTyped ==
  ASSUME TypeOK, AppNext
  PROVE  ChannelsTypeOK' /\ AppTypeOK'
<1> USE DEF TypeOK
<1>1. ASSUME NEW m \in PipeMsg, uappQ' \in Seq(UappMsg),
             pipe' = pipe \/ pipe' = Append(pipe, m),
             UNCHANGED <<bmmQ, halQ>>
      PROVE  ChannelsTypeOK'
  <2>1. pipe \in Seq(PipeMsg) /\ bmmQ \in Seq(BmmMsg) /\ halQ \in Seq(HalMsg)
    BY DEF ChannelsTypeOK
  <2>2. Append(pipe, m) \in Seq(PipeMsg)
    BY <1>1, <2>1, AppendProperties
  <2>3. QED
    BY <1>1, <2>1, <2>2 DEF ChannelsTypeOK
<1>2. ASSUME NEW s \in SocketId \cup {UnknownEndpointId}, NEW ok \in BOOLEAN
      PROVE  OpenRes(s, ok) \in PipeMsg
  BY <1>2 DEF OpenRes, PipeMsg, UappOpenResMsg
<1>3. CASE AppOpens
  <2> DEFINE s == Head(uappQ).sid
             a == Head(uappQ).ep
             n == Min(FreeSlots(a))
  <2>1. /\ uappQ' \in Seq(UappMsg)
        /\ s \in SocketId /\ a \in Protocol
    BY <1>3, UappHead DEF AppOpens
  <2>2. /\ inUse' = [inUse EXCEPT ![a] = (@ + 1) % 256]
        /\ \/ UNCHANGED <<slot, pipe>>
           \/ /\ FreeSlots(a) # {}
              /\ slot' = [slot EXCEPT ![a][n] = s]
              /\ pipe' = Append(pipe, OpenRes(s, TRUE))
        /\ UNCHANGED <<bmmQ, halQ>>
    BY <1>3 DEF AppOpens
  <2>3. FreeSlots(a) # {} => n \in Slot
    <3>1. FreeSlots(a) \in SUBSET Nat
      BY DEF FreeSlots, Slot
    <3>2. QED
      BY <3>1, MinIsLeast DEF FreeSlots
  <2>4. OpenRes(s, TRUE) \in PipeMsg
    BY <1>2, <2>1
  <2> HIDE DEF s, a, n
  <2>5. inUse' \in [Protocol -> 0 .. 255]
    <3>1. \A x \in 0 .. 255 : (x + 1) % 256 \in 0 .. 255
      OBVIOUS
    <3>2. inUse \in [Protocol -> 0 .. 255]
      BY DEF AppTypeOK
    <3>3. QED
      BY ZenonT(60), <2>1, <2>2, <3>1, <3>2
  <2>6. slot' \in [Protocol -> [Slot -> SocketId \cup {ClearSlot}]]
    <3>1. CASE slot' = slot
      BY <3>1 DEF AppTypeOK
    <3>2. CASE slot' = [slot EXCEPT ![a][n] = s] /\ n \in Slot
      BY <2>1, <3>2 DEF AppTypeOK
    <3>3. QED
      BY <2>2, <2>3, <3>1, <3>2
  <2>7. QED
    BY <1>1, <2>1, <2>2, <2>4, <2>5, <2>6 DEF AppTypeOK
<1>4. CASE AppRefuses
  <2> DEFINE r == OpenRes(Head(uappQ).sid, FALSE)
  <2>1. uappQ' \in Seq(UappMsg) /\ Head(uappQ).sid \in SocketId
    BY <1>4, UappHead DEF AppRefuses
  <2>2. r \in PipeMsg
    BY <1>2, <2>1
  <2>3. pipe' = Append(pipe, r) /\ UNCHANGED <<appVars, bmmQ, halQ>>
    BY <1>4 DEF AppRefuses
  <2> HIDE DEF r
  <2>4. QED
    BY <1>1, <2>1, <2>2, <2>3 DEF AppTypeOK, appVars
<1>5. CASE EndpointNotFound
  <2> DEFINE r == OpenRes(UnknownEndpointId, FALSE)
  <2>1. uappQ' \in Seq(UappMsg)
    BY <1>5, UappHead DEF EndpointNotFound
  <2>2. r \in PipeMsg
    BY <1>2
  <2>3. pipe' = Append(pipe, r) /\ UNCHANGED <<appVars, bmmQ, halQ>>
    BY <1>5 DEF EndpointNotFound
  <2> HIDE DEF r
  <2>4. QED
    BY <1>1, <2>1, <2>2, <2>3 DEF AppTypeOK, appVars
<1>6. CASE AppCloses
  <2> DEFINE s == Head(uappQ).sid
             a == Head(uappQ).ep
             n == Min(SlotsOf(a, s))
  <2>1. uappQ' \in Seq(UappMsg) /\ UNCHANGED <<pipe, bmmQ, halQ>>
    BY <1>6, UappHead DEF AppCloses
  <2>2. \/ UNCHANGED appVars
        \/ /\ a \in Protocol /\ SlotsOf(a, s) # {}
           /\ slot' = [slot EXCEPT ![a][n] = ClearSlot]
           /\ inUse' = [inUse EXCEPT ![a] = IF a = "LECOC" /\ @ = 0 THEN 0
                                            ELSE (@ - 1) % 256]
    BY <1>6 DEF AppCloses
  <2>3. SlotsOf(a, s) # {} => n \in Slot
    <3>1. SlotsOf(a, s) \in SUBSET Nat
      BY DEF SlotsOf, Slot
    <3>2. QED
      BY <3>1, MinIsLeast DEF SlotsOf
  <2> HIDE DEF s, a, n
  <2>4. inUse' \in [Protocol -> 0 .. 255]
    BY <2>2 DEF AppTypeOK, appVars
  <2>5. slot' \in [Protocol -> [Slot -> SocketId \cup {ClearSlot}]]
    BY SMTT(30), <2>2, <2>3 DEF AppTypeOK, appVars
  <2>6. QED
    BY <2>1, <2>4, <2>5 DEF AppTypeOK, ChannelsTypeOK
<1>7. QED
  BY <1>3, <1>4, <1>5, <1>6 DEF AppNext

-----------------------------------------------------------------------------
(* The steps of the HAL.                                                   *)

\* The HAL's taking of an answer keeps the types.
LEMMA HalReceiveTyped ==
  ASSUME TypeOK, HalReceive
  PROVE  ChannelsTypeOK' /\ hal' \in [SocketId -> HalState]
<1> USE DEF TypeOK
<1>1. /\ halQ' \in Seq(HalMsg)
      /\ Head(halQ).sid \in SocketId
      /\ UNCHANGED <<pipe, bmmQ, uappQ>>
  BY HalHead DEF HalReceive
<1>2. \/ hal' = hal
      \/ hal' = [hal EXCEPT ![Head(halQ).sid] = "closed"]
      \/ hal' = [hal EXCEPT ![Head(halQ).sid] = "open"]
  BY DEF HalReceive
<1>3. QED
  BY <1>1, <1>2 DEF ChannelsTypeOK, HalState

\* The HAL's requests keep the types.
LEMMA HalRequestTyped ==
  ASSUME TypeOK, HalRequest
  PROVE  ChannelsTypeOK' /\ hal' \in [SocketId -> HalState]
<1> USE DEF TypeOK
<1>1. ASSUME NEW m \in PipeMsg, pipe' = Append(pipe, m), UNCHANGED <<bmmQ, uappQ, halQ>>
      PROVE  ChannelsTypeOK'
  <2>1. pipe' \in Seq(PipeMsg)
    BY <1>1, AppendProperties DEF ChannelsTypeOK
  <2>2. QED
    BY <1>1, <2>1 DEF ChannelsTypeOK
<1>2. ASSUME NEW s \in SocketId, NEW o \in Offers, HalOpen(s, o)
      PROVE  ChannelsTypeOK' /\ hal' \in [SocketId -> HalState]
  <2> DEFINE m == [type |-> "OPEN_SOCKET", sid |-> s, proto |-> o[1], ep |-> o[2]]
  <2>1. o[1] \in Protocol /\ o[2] \in Endpoint
    BY OffersAssumption
  <2>2. m \in PipeMsg
    BY <2>1 DEF PipeMsg, OpenMsg
  <2>3. /\ pipe' = Append(pipe, m)
        /\ hal' = [hal EXCEPT ![s] = "opening"]
        /\ UNCHANGED <<bmmQ, uappQ, halQ>>
    BY <1>2 DEF HalOpen
  <2> HIDE DEF m
  <2>4. QED
    BY <1>1, <2>2, <2>3 DEF HalState
<1>3. ASSUME NEW s \in SocketId, HalClose(s)
      PROVE  ChannelsTypeOK' /\ hal' \in [SocketId -> HalState]
  <2> DEFINE m == [type |-> "CLOSE_SOCKET", sid |-> s]
  <2>1. m \in PipeMsg
    BY DEF PipeMsg, CloseMsg
  <2>2. /\ pipe' = Append(pipe, m)
        /\ hal' = [hal EXCEPT ![s] = "closing"]
        /\ UNCHANGED <<bmmQ, uappQ, halQ>>
    BY <1>3 DEF HalClose
  <2> HIDE DEF m
  <2>3. QED
    BY <1>1, <2>1, <2>2 DEF HalState
<1>4. QED
  BY <1>2, <1>3 DEF HalRequest

-----------------------------------------------------------------------------
(* The theorem.                                                            *)

\* The initial state has its types.
LEMMA InitTyped == Init => TypeOK
<1> SUFFICES ASSUME Init
             PROVE  TypeOK
  OBVIOUS
<1>1. ChannelsTypeOK
  BY EmptySeq DEF Init, ChannelsInit, ChannelsTypeOK
<1>2. MgrTypeOK
  BY IdSpaceAssumption DEF Init, MgrInit, MgrTypeOK, State, NoSocket, ConnId, Endpoint
<1>3. BmmTypeOK
  BY DEF Init, BmmInit, BmmTypeOK
<1>4. AppTypeOK
  BY DEF Init, AppInit, AppTypeOK
<1>5. QED
  BY <1>1, <1>2, <1>3, <1>4 DEF Init, TypeOK, HalState

\* Every step keeps the types.
LEMMA NextTyped == TypeOK /\ [Next]_vars => TypeOK'
<1> SUFFICES ASSUME TypeOK, [Next]_vars
             PROVE  TypeOK'
  OBVIOUS
<1>1. CASE MgrStep
  BY <1>1, MgrStepTyped DEF MgrStep, TypeOK, BmmTypeOK, AppTypeOK, bmmVars, appVars
<1>2. CASE BmmStep
  BY <1>2, BmmStepTyped DEF BmmStep, TypeOK, MgrTypeOK, AppTypeOK, mgrVars, appVars
<1>3. CASE AppStep
  BY <1>3, AppStepTyped DEF AppStep, TypeOK, MgrTypeOK, BmmTypeOK, mgrVars, bmmVars
<1>4. CASE HalReceiveStep
  BY <1>4, HalReceiveTyped DEF HalReceiveStep, TypeOK, MgrTypeOK, BmmTypeOK, AppTypeOK,
     mgrVars, bmmVars, appVars
<1>5. CASE HalRequestStep
  BY <1>5, HalRequestTyped DEF HalRequestStep, TypeOK, MgrTypeOK, BmmTypeOK, AppTypeOK,
     mgrVars, bmmVars, appVars
<1>6. CASE UNCHANGED vars
  BY <1>6 DEF vars, TypeOK, ChannelsTypeOK, MgrTypeOK, BmmTypeOK, AppTypeOK, channels,
     mgrVars, bmmVars, appVars
<1>7. QED
  BY <1>1, <1>2, <1>3, <1>4, <1>5, <1>6 DEF Next

\* In every run of the system, for any pool and table sizes and any sockets the
\* HAL opens or closes at any time, each variable and each queue has its type,
\* and an instance that is not idle has a socket and a protocol.
THEOREM TypeCorrect == Spec => []TypeOK
BY InitTyped, NextTyped, PTL DEF Spec

-----------------------------------------------------------------------------
(***************************************************************************)
(* No request of the HAL is lost, answered twice or served twice, for      *)
(* every value of the constants and a HAL that may close at any time.      *)
(*                                                                         *)
(* The life of a socket moves from an open request in the pipe to an       *)
(* instance and from there to a final answer in the queue of the HAL, or   *)
(* from the request to the answer at once.  OneHolder says so; it is       *)
(* inductive together with TypeOK.  With it, the instance a request was    *)
(* given to is the first one that holds its id (LowestHolder): the ones    *)
(* before it were busy with other sockets then, and cannot have been given *)
(* the same socket since.                                                  *)
(***************************************************************************)

LowestHolder ==
  \A i \in Busy : \A j \in Inst : socketId[j] = socketId[i] => i <= j

-----------------------------------------------------------------------------
(* Where a queue holds messages of a set M.                                *)

Positions(q, M) == {n \in DOMAIN q : q[n] \in M}

Kept(X, Y) == (X = {} <=> Y = {}) /\ (AtMostOne(X) => AtMostOne(Y))

\* Where messages of a kind are after one is appended.
LEMMA PositionsAppend ==
  ASSUME NEW Q, NEW q \in Seq(Q), NEW e \in Q, NEW M
  PROVE  /\ e \notin M => Kept(Positions(q, M), Positions(Append(q, e), M))
         /\ e \in M /\ Positions(q, M) = {} =>
              /\ Positions(Append(q, e), M) # {}
              /\ AtMostOne(Positions(Append(q, e), M))
<1> DEFINE r == Append(q, e)
<1>1. /\ r \in Seq(Q)
      /\ Len(q) \in Nat /\ Len(r) = Len(q) + 1
      /\ DOMAIN q = 1 .. Len(q) /\ DOMAIN r = 1 .. Len(q) + 1
      /\ \A n \in 1 .. Len(q) : r[n] = q[n]
      /\ r[Len(q) + 1] = e
  BY AppendProperties, LenProperties
<1> HIDE DEF r
<1>2. Positions(r, M) = Positions(q, M) \cup (IF e \in M THEN {Len(q) + 1} ELSE {})
  BY <1>1 DEF Positions
<1>3. QED
  BY <1>2 DEF r, Kept, AtMostOne

\* Where messages of a kind are after the first is taken.
LEMMA PositionsTail ==
  ASSUME NEW Q, NEW q \in Seq(Q), q # <<>>, NEW M
  PROVE  /\ Head(q) \notin M => Kept(Positions(q, M), Positions(Tail(q), M))
         /\ Head(q) \in M =>
              /\ Positions(q, M) # {}
              /\ AtMostOne(Positions(q, M)) => Positions(Tail(q), M) = {}
<1> DEFINE r == Tail(q)
<1>1. /\ r \in Seq(Q)
      /\ Len(q) \in Nat \ {0} /\ Len(r) = Len(q) - 1
      /\ DOMAIN q = 1 .. Len(q) /\ DOMAIN r = 1 .. Len(q) - 1
      /\ \A n \in 1 .. Len(q) - 1 : r[n] = q[n + 1]
      /\ Head(q) = q[1]
  BY HeadTailProperties, LenProperties, EmptySeq
<1> HIDE DEF r
<1>2. /\ \A n \in Positions(r, M) : n \in Nat \ {0} /\ n + 1 \in Positions(q, M)
      /\ \A n \in Positions(q, M) : n = 1 \/ n - 1 \in Positions(r, M)
      /\ Head(q) \in M <=> 1 \in Positions(q, M)
      /\ Positions(q, M) \subseteq Nat
  BY <1>1 DEF Positions
<1>3. QED
  BY <1>2 DEF r, Kept, AtMostOne

-----------------------------------------------------------------------------
(* The open requests of a socket in the pipe, its final answers in the     *)
(* queue of the HAL.                                                       *)

OpensOf(s) == {m \in PipeMsg : m.type = "OPEN_SOCKET" /\ m.sid = s}
FinalsOf(s) == {m \in HalMsg : IsFinal(m) /\ m.sid = s}

\* The unread opens and final answers of a socket as positions in queues.
LEMMA QueuePositions ==
  ASSUME NEW s, ChannelsTypeOK
  PROVE  AskedAt(s) = Positions(pipe, OpensOf(s)) /\ AnsweredAt(s) = Positions(halQ, FinalsOf(s))
<1>1. \A n \in DOMAIN pipe : pipe[n] \in PipeMsg
  BY LenProperties, ElementOfSeq DEF ChannelsTypeOK
<1>2. \A n \in DOMAIN halQ : halQ[n] \in HalMsg
  BY LenProperties, ElementOfSeq DEF ChannelsTypeOK
<1>3. QED
  BY <1>1, <1>2 DEF AskedAt, AnsweredAt, Positions, OpensOf, FinalsOf

\* The same after a step.
LEMMA NextQueuePositions ==
  ASSUME NEW s, ChannelsTypeOK'
  PROVE  /\ AskedAt(s)' = Positions(pipe', OpensOf(s))
         /\ AnsweredAt(s)' = Positions(halQ', FinalsOf(s))
<1>1. \A n \in DOMAIN pipe' : pipe'[n] \in PipeMsg
  BY LenProperties, ElementOfSeq DEF ChannelsTypeOK
<1>2. \A n \in DOMAIN halQ' : halQ'[n] \in HalMsg
  BY LenProperties, ElementOfSeq DEF ChannelsTypeOK
<1>3. QED
  BY <1>1, <1>2 DEF AskedAt, AnsweredAt, Positions, OpensOf, FinalsOf

\* The pipe without a message about s: appended to, or its head taken.
LEMMA AskedKept ==
  ASSUME ChannelsTypeOK, ChannelsTypeOK', NEW s,
         \/ pipe' = pipe
         \/ \E m \in PipeMsg : pipe' = Append(pipe, m) /\ m \notin OpensOf(s)
         \/ pipe # <<>> /\ pipe' = Tail(pipe) /\ Head(pipe) \notin OpensOf(s)
  PROVE  Kept(AskedAt(s), AskedAt(s)')
<1> DEFINE M == OpensOf(s)
<1>1. pipe \in Seq(PipeMsg)
  BY DEF ChannelsTypeOK
<1>2. Kept(Positions(pipe, M), Positions(pipe', M))
  <2>1. CASE pipe' = pipe
    BY <2>1 DEF Kept
  <2>2. ASSUME NEW m \in PipeMsg, pipe' = Append(pipe, m), m \notin M
        PROVE  Kept(Positions(pipe, M), Positions(pipe', M))
    BY <1>1, <2>2, PositionsAppend
  <2>3. CASE pipe # <<>> /\ pipe' = Tail(pipe) /\ Head(pipe) \notin M
    BY <1>1, <2>3, PositionsTail
  <2>4. QED
    BY <2>1, <2>2, <2>3
<1>3. QED
  BY <1>2, QueuePositions, NextQueuePositions

\* An open that is read was there, and was the only one.
LEMMA AskedTaken ==
  ASSUME ChannelsTypeOK, ChannelsTypeOK', NEW s,
         pipe # <<>>, pipe' = Tail(pipe), Head(pipe) \in OpensOf(s)
  PROVE  AskedAt(s) # {} /\ (AtMostOne(AskedAt(s)) => AskedAt(s)' = {})
<1> DEFINE M == OpensOf(s)
<1>1. pipe \in Seq(PipeMsg)
  BY DEF ChannelsTypeOK
<1>2. /\ Positions(pipe, M) # {}
      /\ AtMostOne(Positions(pipe, M)) => Positions(pipe', M) = {}
  BY <1>1, PositionsTail
<1>3. QED
  BY <1>2, QueuePositions, NextQueuePositions

\* An open that is sent is the only one if there was none.
LEMMA AskedAdded ==
  ASSUME ChannelsTypeOK, ChannelsTypeOK', NEW s, NEW m \in OpensOf(s),
         pipe' = Append(pipe, m), AskedAt(s) = {}
  PROVE  AskedAt(s)' # {} /\ AtMostOne(AskedAt(s)')
<1> DEFINE M == OpensOf(s)
<1>1. pipe \in Seq(PipeMsg) /\ m \in PipeMsg
  BY DEF ChannelsTypeOK, OpensOf
<1>2. Positions(pipe', M) # {} /\ AtMostOne(Positions(pipe', M))
  BY <1>1, PositionsAppend, QueuePositions
<1>3. QED
  BY <1>2, NextQueuePositions

\* The queue of the HAL, in the same three ways.
LEMMA AnsweredKept ==
  ASSUME ChannelsTypeOK, ChannelsTypeOK', NEW s,
         \/ halQ' = halQ
         \/ \E m \in HalMsg : halQ' = Append(halQ, m) /\ m \notin FinalsOf(s)
         \/ halQ # <<>> /\ halQ' = Tail(halQ) /\ Head(halQ) \notin FinalsOf(s)
  PROVE  Kept(AnsweredAt(s), AnsweredAt(s)')
<1> DEFINE M == FinalsOf(s)
<1>1. halQ \in Seq(HalMsg)
  BY DEF ChannelsTypeOK
<1>2. Kept(Positions(halQ, M), Positions(halQ', M))
  <2>1. CASE halQ' = halQ
    BY <2>1 DEF Kept
  <2>2. ASSUME NEW m \in HalMsg, halQ' = Append(halQ, m), m \notin M
        PROVE  Kept(Positions(halQ, M), Positions(halQ', M))
    BY <1>1, <2>2, PositionsAppend
  <2>3. CASE halQ # <<>> /\ halQ' = Tail(halQ) /\ Head(halQ) \notin M
    BY <1>1, <2>3, PositionsTail
  <2>4. QED
    BY <2>1, <2>2, <2>3
<1>3. QED
  BY <1>2, QueuePositions, NextQueuePositions

\* A final answer that is read was there, and was the only one.
LEMMA AnsweredTaken ==
  ASSUME ChannelsTypeOK, ChannelsTypeOK', NEW s,
         halQ # <<>>, halQ' = Tail(halQ), Head(halQ) \in FinalsOf(s)
  PROVE  AnsweredAt(s) # {} /\ (AtMostOne(AnsweredAt(s)) => AnsweredAt(s)' = {})
<1> DEFINE M == FinalsOf(s)
<1>1. halQ \in Seq(HalMsg)
  BY DEF ChannelsTypeOK
<1>2. /\ Positions(halQ, M) # {}
      /\ AtMostOne(Positions(halQ, M)) => Positions(halQ', M) = {}
  BY <1>1, PositionsTail
<1>3. QED
  BY <1>2, QueuePositions, NextQueuePositions

\* A final answer that is sent is the only one if there was none.
LEMMA AnsweredAdded ==
  ASSUME ChannelsTypeOK, ChannelsTypeOK', NEW s, NEW m \in FinalsOf(s),
         halQ' = Append(halQ, m), AnsweredAt(s) = {}
  PROVE  AnsweredAt(s)' # {} /\ AtMostOne(AnsweredAt(s)')
<1> DEFINE M == FinalsOf(s)
<1>1. halQ \in Seq(HalMsg) /\ m \in HalMsg
  BY DEF ChannelsTypeOK, FinalsOf
<1>2. Positions(halQ', M) # {} /\ AtMostOne(Positions(halQ', M))
  BY <1>1, PositionsAppend, QueuePositions
<1>3. QED
  BY <1>2, NextQueuePositions

\* An element appended to a typed sequence has the type.
LEMMA AppendedTyped ==
  ASSUME NEW Q, NEW q \in Seq(Q), NEW e, Append(q, e) \in Seq(Q)
  PROVE  e \in Q
<1>1. Len(Append(q, e)) = Len(q) + 1 /\ Append(q, e)[Len(q) + 1] = e /\ Len(q) \in Nat
  OBVIOUS
<1>2. QED
  BY <1>1, ElementOfSeq

-----------------------------------------------------------------------------
(* How the holders of one socket may change.                               *)

\* Nothing changes for s.
LEMMA HeldOnceKept ==
  ASSUME NEW s, HeldOnce(s),
         Kept(AskedAt(s), AskedAt(s)'), HeldBy(s)' = HeldBy(s),
         Kept(AnsweredAt(s), AnsweredAt(s)'),
         hal'[s] = "closed" <=> hal[s] = "closed"
  PROVE  HeldOnce(s)'
BY DEF HeldOnce, Kept

\* The states entered by a row whose event is neither of the two.
LEMMA TargetOfHandler ==
  ASSUME NEW s, NEW e, HasRow(s, e), e \notin {"OFFLOAD_REQ", "OFFLOAD_INSTANCE_FREE"}
  PROVE  s # "Idle" /\ NextState(s, e) \in State \ {"Idle", "OffloadReq"}
BY RowTaken DEF StateTable, Row, State

\* Exactly the two final states fall back to Idle.
LEMMA RestOf ==
  ASSUME NEW t \in State \ {"Idle"}
  PROVE  Rest(t) = "Idle" <=> t \in {"OffloadFailure", "UnoffloadSuccess"}
<1>1. NextState("OffloadFailure", "OFFLOAD_INSTANCE_FREE") = "Idle"
  BY RowTaken DEF HasRow, StateTable, Row
<1>2. NextState("UnoffloadSuccess", "OFFLOAD_INSTANCE_FREE") = "Idle"
  BY RowTaken DEF HasRow, StateTable, Row
<1>3. NextState("UnOffloadReqFromHAL", "UNOFFLOAD_FROM_MICROAPP_SUCCESS")
        = "UnOffloadReqToMicrostack"
  BY RowTaken DEF HasRow, StateTable, Row
<1>4. QED
  BY <1>1, <1>2, <1>3 DEF Rest

\* An event raised by a handler leaves every instance as busy or idle as it
\* was, except that it may free the busy instance it is for; then, and only
\* then, it answers for good.
LEMMA ProcessFrees ==
  ASSUME TypeOK, NEW i \in Inst, NEW e, e \notin {"OFFLOAD_REQ", "OFFLOAD_INSTANCE_FREE"},
         Process(i, e), socketId' = socketId
  PROVE  \/ /\ Busy' = Busy
            /\ \/ halQ' = halQ
               \/ \E m \in HalMsg : ~IsFinal(m) /\ halQ' = Append(halQ, m)
         \/ /\ i \in Busy
            /\ Busy' = Busy \ {i}
            /\ \E m \in HalMsg : IsFinal(m) /\ m.sid = socketId[i] /\ halQ' = Append(halQ, m)
<1> USE DEF TypeOK, MgrTypeOK
<1>1. CASE ~HasRow(state[i], e)
  BY <1>1 DEF Process, Stay, Busy
<1>2. CASE HasRow(state[i], e)
  <2> DEFINE t == NextState(state[i], e)
             ack == OpenRsp(socketId[i], TRUE)
             nak == OpenRsp(socketId[i], FALSE)
             done == [type |-> "CLOSE_RSP", sid |-> socketId[i]]
  <2>1. i \in Busy /\ t \in State \ {"Idle", "OffloadReq"}
    BY <1>2, TargetOfHandler DEF Busy
  <2>2. state' = [state EXCEPT ![i] = Rest(t)] /\ halQ' = halQ \o ToHal(i, t)
    BY <1>2 DEF Process, Enter
  <2>3. socketId[i] \in SocketId
    BY <2>1 DEF Busy
  <2>4. /\ {ack, nak, done} \subseteq HalMsg
        /\ ~IsFinal(ack) /\ IsFinal(nak) /\ IsFinal(done)
        /\ nak.sid = socketId[i] /\ done.sid = socketId[i]
    BY <2>3 DEF OpenRsp, HalMsg, IsFinal
  <2>5. ToHal(i, t) = IF t = "OffloadToMicroappSuccess" THEN <<ack>>
                      ELSE IF t = "OffloadFailure" THEN <<nak>>
                      ELSE IF t = "UnoffloadSuccess" THEN <<done>> ELSE <<>>
    BY DEF ToHal
  <2> HIDE DEF t, ack, nak, done
  <2>6. /\ halQ \o <<>> = halQ
        /\ \A m \in HalMsg : halQ \o <<m>> = Append(halQ, m)
    BY ConcatEmptySeq, AppendIsConcat DEF ChannelsTypeOK
  <2>7. CASE t \in {"OffloadFailure", "UnoffloadSuccess"}
    <3>1. Busy' = Busy \ {i}
      BY <2>1, <2>2, <2>7, RestOf DEF Busy
    <3>2. QED
      BY <2>1, <2>2, <2>4, <2>5, <2>6, <2>7, <3>1
  <2>8. CASE t \notin {"OffloadFailure", "UnoffloadSuccess"}
    <3>1. Busy' = Busy
      BY <2>1, <2>2, <2>8, RestOf DEF Busy
    <3>2. QED
      BY <2>2, <2>4, <2>5, <2>6, <2>8, <3>1
  <2>9. QED
    BY <2>7, <2>8
<1>3. QED
  BY <1>1, <1>2

-----------------------------------------------------------------------------
(* The steps of the offload manager.                                       *)

\* Taking a message that is not an open request of s.
LEMMA ReceiveKeepsAsked ==
  ASSUME TypeOK, TypeOK', NEW t, Receive(t), NEW s,
         t # "OPEN_SOCKET" \/ Head(pipe).sid # s
  PROVE  Kept(AskedAt(s), AskedAt(s)')
<1>1. pipe # <<>> /\ pipe' = Tail(pipe) /\ Head(pipe) \notin OpensOf(s)
  BY DEF Receive, OpensOf
<1>2. QED
  BY <1>1, AskedKept DEF TypeOK

\* The handlers that raise an event for an instance that has its socket.
LEMMA HandlerHolders ==
  ASSUME TypeOK, TypeOK', OneHolder, LowestHolder,
         NEW t, Receive(t), t # "OPEN_SOCKET",
         NEW i, NEW e, e \notin {"OFFLOAD_REQ", "OFFLOAD_INSTANCE_FREE"},
         Stay \/ (i \in Inst /\ Process(i, e)),
         socketId' = socketId, hal' = hal
  PROVE  OneHolder' /\ LowestHolder'
<1>1. \/ /\ Busy' = Busy
         /\ \/ halQ' = halQ
            \/ \E m \in HalMsg : ~IsFinal(m) /\ halQ' = Append(halQ, m)
      \/ /\ i \in Busy
         /\ Busy' = Busy \ {i}
         /\ \E m \in HalMsg : IsFinal(m) /\ m.sid = socketId[i] /\ halQ' = Append(halQ, m)
  <2>1. CASE Stay
    BY <2>1 DEF Stay, Busy
  <2>2. CASE i \in Inst /\ Process(i, e)
    BY <2>2, ProcessFrees
  <2>3. QED
    BY <2>1, <2>2
<1>2. ASSUME NEW s \in SocketId
      PROVE  HeldOnce(s)'
  <2>1. HeldOnce(s)
    BY DEF OneHolder
  <2>2. Kept(AskedAt(s), AskedAt(s)')
    BY ReceiveKeepsAsked
  <2>3. CASE /\ Busy' = Busy
             /\ \/ halQ' = halQ
                \/ \E m \in HalMsg : ~IsFinal(m) /\ halQ' = Append(halQ, m)
    <3>1. HeldBy(s)' = HeldBy(s)
      BY <2>3 DEF HeldBy
    <3>2. Kept(AnsweredAt(s), AnsweredAt(s)')
      BY <2>3, AnsweredKept DEF TypeOK, FinalsOf
    <3>3. QED
      BY <2>1, <2>2, <3>1, <3>2, HeldOnceKept
  <2>4. ASSUME i \in Busy, Busy' = Busy \ {i},
               NEW m \in HalMsg, IsFinal(m), m.sid = socketId[i], halQ' = Append(halQ, m)
        PROVE  HeldOnce(s)'
    <3>1. CASE s # socketId[i]
      <4>1. HeldBy(s)' = HeldBy(s)
        BY <2>4, <3>1 DEF HeldBy
      <4>2. Kept(AnsweredAt(s), AnsweredAt(s)')
        BY <2>4, <3>1, AnsweredKept DEF TypeOK, FinalsOf
      <4>3. QED
        BY <2>1, <2>2, <4>1, <4>2, HeldOnceKept
    <3>2. CASE s = socketId[i]
      <4>1. i \in HeldBy(s)
        BY <2>4, <3>2 DEF HeldBy
      <4>2. HeldBy(s)' = {}
        BY <2>1, <2>4, <4>1 DEF HeldBy, HeldOnce, AtMostOne
      <4>3. m \in FinalsOf(s) /\ AnsweredAt(s) = {}
        BY <2>1, <2>4, <3>2, <4>1 DEF FinalsOf, HeldOnce
      <4>4. AnsweredAt(s)' # {} /\ AtMostOne(AnsweredAt(s)')
        BY <2>4, <4>3, AnsweredAdded DEF TypeOK
      <4>5. AskedAt(s)' = {} /\ hal'[s] # "closed"
        BY <2>1, <2>2, <4>1 DEF HeldOnce, Kept
      <4>6. QED
        BY <4>2, <4>4, <4>5 DEF HeldOnce, AtMostOne
    <3>3. QED
      BY <3>1, <3>2
  <2>5. QED
    BY <1>1, <2>3, <2>4
<1>3. LowestHolder'
  BY <1>1 DEF LowestHolder
<1>4. QED
  BY <1>2, <1>3 DEF OneHolder

\* The offload manager passes a socket on from the queue to an instance, and
\* from there to its answer.
LEMMA MgrStepHolders ==
  ASSUME TypeOK, TypeOK', OneHolder, LowestHolder, MgrNext, hal' = hal
  PROVE  OneHolder' /\ LowestHolder'
<1> USE DEF TypeOK
<1>1. CASE HandleOpenSocket
  <2> DEFINE m == Head(pipe)
             i == FindIdleInstance
  <2>1. m \in OpenMsg
    BY <1>1, PipeHead DEF HandleOpenSocket
  <2>2. i \in Inst /\ state[i] = "Idle" /\ \A j \in Inst : j < i => j \in Busy
    <3>1. IdleInst \in SUBSET Nat
      BY DEF IdleInst, Inst
    <3>2. i \in IdleInst /\ \A j \in IdleInst : i <= j
      BY <1>1, <3>1, MinIsLeast DEF HandleOpenSocket, FindIdleInstance
    <3>3. QED
      BY <3>2 DEF IdleInst, Busy, Inst
  <2>3. /\ Receive("OPEN_SOCKET")
        /\ socketId' = [socketId EXCEPT ![i] = m.sid]
        /\ Process(i, "OFFLOAD_REQ")
    BY <1>1 DEF HandleOpenSocket
  <2>4. state' = [state EXCEPT ![i] = "OffloadReq"] /\ halQ' = halQ
    <3>1. HasRow("Idle", "OFFLOAD_REQ") /\ NextState("Idle", "OFFLOAD_REQ") = "OffloadReq"
      BY RowTaken DEF HasRow, StateTable, Row
    <3>2. Enter(i, "OffloadReq")
      BY <2>2, <2>3, <3>1 DEF Process
    <3>3. Rest("OffloadReq") = "OffloadReq" /\ ToHal(i, "OffloadReq") = <<>>
      BY DEF Rest, ToHal
    <3>4. QED
      BY <3>2, <3>3, ConcatEmptySeq DEF Enter, ChannelsTypeOK
  <2>5. m \in OpensOf(m.sid) /\ m.sid \in SocketId
    BY <2>1 DEF OpenMsg, OpensOf, PipeMsg
  <2> HIDE DEF m, i
  <2>6. i \notin Busy /\ Busy' = Busy \cup {i}
    BY <2>2, <2>4 DEF Busy, MgrTypeOK
  <2>7. ASSUME NEW s \in SocketId
        PROVE  HeldOnce(s)'
    <3>1. HeldOnce(s)
      BY DEF OneHolder
    <3>2. Kept(AnsweredAt(s), AnsweredAt(s)')
      BY <2>4, AnsweredKept
    <3>3. CASE s # m.sid
      <4>1. HeldBy(s)' = HeldBy(s)
        BY <2>2, <2>3, <2>6, <3>3 DEF HeldBy, Busy, MgrTypeOK
      <4>2. Kept(AskedAt(s), AskedAt(s)')
        BY <2>3, <3>3, ReceiveKeepsAsked DEF m
      <4>3. QED
        BY <3>1, <3>2, <4>1, <4>2, HeldOnceKept
    <3>4. CASE s = m.sid
      <4>1. AskedAt(s) # {} /\ AskedAt(s)' = {}
        BY <2>3, <2>5, <3>1, <3>4, AskedTaken DEF Receive, HeldOnce, m
      <4>2. HeldBy(s)' = {i}
        BY <2>2, <2>3, <2>6, <3>1, <3>4, <4>1 DEF HeldBy, HeldOnce, Busy, MgrTypeOK
      <4>3. AnsweredAt(s)' = {} /\ hal'[s] # "closed"
        BY <3>1, <3>2, <4>1 DEF HeldOnce, Kept
      <4>4. QED
        BY <4>1, <4>2, <4>3 DEF HeldOnce, AtMostOne
    <3>5. QED
      BY <3>3, <3>4
  <2>8. HeldBy(m.sid) = {}
    <3>1. AskedAt(m.sid) # {}
      BY <2>3, <2>5, AskedTaken DEF Receive, m
    <3>2. QED
      BY <2>5, <3>1 DEF OneHolder, HeldOnce
  <2>9. LowestHolder'
    <3> SUFFICES ASSUME NEW k \in Busy', NEW j \in Inst, socketId'[j] = socketId'[k]
                 PROVE  k <= j
      BY DEF LowestHolder
    <3>1. \A l \in Busy : socketId[l] # m.sid
      BY <2>8 DEF HeldBy
    <3>2. CASE k = i
      BY <2>2, <2>3, <3>1, <3>2 DEF MgrTypeOK, Inst
    <3>3. CASE k # i
      BY <2>2, <2>3, <2>6, <3>1, <3>3 DEF LowestHolder, MgrTypeOK, Inst, Busy
    <3>4. QED
      BY <3>2, <3>3
  <2>10. QED
    BY <2>7, <2>9 DEF OneHolder
<1>2. CASE HandleOpenNoInstance
  <2> DEFINE m == Head(pipe)
             r == OpenRsp(m.sid, FALSE)
  <2>1. m \in OpenMsg
    BY <1>2, PipeHead DEF HandleOpenNoInstance
  <2>2. /\ Receive("OPEN_SOCKET")
        /\ halQ' = Append(halQ, r)
        /\ Busy' = Busy /\ socketId' = socketId
    BY <1>2 DEF HandleOpenNoInstance, mgrVars, Busy
  <2>3. m \in OpensOf(m.sid) /\ r \in FinalsOf(m.sid) /\ r.sid = m.sid
    BY <2>1 DEF OpenMsg, OpensOf, PipeMsg, FinalsOf, OpenRsp, HalMsg, IsFinal
  <2> HIDE DEF m, r
  <2>4. ASSUME NEW s \in SocketId
        PROVE  HeldOnce(s)'
    <3>1. HeldOnce(s)
      BY DEF OneHolder
    <3>2. HeldBy(s)' = HeldBy(s)
      BY <2>2 DEF HeldBy
    <3>3. CASE s # m.sid
      <4>1. Kept(AskedAt(s), AskedAt(s)')
        BY <2>2, <3>3, ReceiveKeepsAsked DEF m
      <4>2. Kept(AnsweredAt(s), AnsweredAt(s)')
        BY <2>2, <2>3, <3>3, AnsweredKept DEF FinalsOf
      <4>3. QED
        BY <3>1, <3>2, <4>1, <4>2, HeldOnceKept
    <3>4. CASE s = m.sid
      <4>1. AskedAt(s) # {} /\ AskedAt(s)' = {}
        BY <2>2, <2>3, <3>1, <3>4, AskedTaken DEF Receive, HeldOnce, m
      <4>2. AnsweredAt(s)' # {} /\ AtMostOne(AnsweredAt(s)')
        BY <2>2, <2>3, <3>1, <3>4, <4>1, AnsweredAdded DEF HeldOnce
      <4>3. HeldBy(s)' = {} /\ hal'[s] # "closed"
        BY <3>1, <3>2, <4>1 DEF HeldOnce
      <4>4. QED
        BY <4>1, <4>2, <4>3 DEF HeldOnce, AtMostOne
    <3>5. QED
      BY <3>3, <3>4
  <2>5. QED
    BY <2>2, <2>4 DEF OneHolder, LowestHolder
<1>3. CASE HandleCloseSocket
  <2> DEFINE i == Min(InstWithSocketId(Head(pipe).sid))
  <2>1. Stay \/ (i \in Inst /\ Process(i, "UNOFFLOAD_REQ"))
    BY <1>3, MinIsLeast DEF HandleCloseSocket, InstWithSocketId, Inst
  <2> HIDE DEF i
  <2>2. QED
    BY <1>3, <2>1, HandlerHolders DEF HandleCloseSocket, dataVars
<1>4. CASE HandleOffloadCfm
  <2> DEFINE i == Head(pipe).inst
             e == MicrostackEvent(Head(pipe).ok)
  <2>1. i \in Inst /\ Process(i, e)
    BY <1>4, PipeHead DEF HandleOffloadCfm, OffloadCfmMsg
  <2>2. e \notin {"OFFLOAD_REQ", "OFFLOAD_INSTANCE_FREE"}
    BY DEF MicrostackEvent
  <2> HIDE DEF i, e
  <2>3. QED
    BY <1>4, <2>1, <2>2, HandlerHolders DEF HandleOffloadCfm, dataVars
<1>5. CASE HandleCloseCfm
  <2> DEFINE i == Min(InstWithPseudoId(Head(pipe).conn))
  <2>1. Stay \/ (i \in Inst /\ Process(i, "UNOFFLOAD_FROM_MICROSTACK_SUCCESS"))
    BY <1>5, MinIsLeast DEF HandleCloseCfm, InstWithPseudoId, Inst
  <2> HIDE DEF i
  <2>2. QED
    BY <1>5, <2>1, HandlerHolders DEF HandleCloseCfm, dataVars
<1>6. CASE HandleUappOpenRes
  <2> DEFINE i == Min(InstWithSocketId(Head(pipe).sid))
             e == UappEvent(Head(pipe).ok)
  <2>1. Stay \/ (i \in Inst /\ Process(i, e))
    BY <1>6, MinIsLeast DEF HandleUappOpenRes, InstWithSocketId, Inst
  <2>2. e \notin {"OFFLOAD_REQ", "OFFLOAD_INSTANCE_FREE"}
    BY DEF UappEvent
  <2> HIDE DEF i, e
  <2>3. QED
    BY <1>6, <2>1, <2>2, HandlerHolders DEF HandleUappOpenRes, dataVars
<1>7. CASE HandleErrorInd
  <2>1. Stay
    BY <1>7 DEF HandleErrorInd, Stay
  <2>2. "none" \notin {"OFFLOAD_REQ", "OFFLOAD_INSTANCE_FREE"}
    OBVIOUS
  <2>3. QED
    BY <1>7, <2>1, <2>2, HandlerHolders DEF HandleErrorInd, dataVars
<1>8. QED
  BY <1>1, <1>2, <1>3, <1>4, <1>5, <1>6, <1>7 DEF MgrNext

-----------------------------------------------------------------------------
(* The steps of the BMM, the microapps and the HAL.                        *)

\* Posting a message that is not an open request of the HAL.
LEMMA PostHolders ==
  ASSUME TypeOK, TypeOK', OneHolder, LowestHolder,
         \/ pipe' = pipe
         \/ \E m \in PipeMsg : m.type # "OPEN_SOCKET" /\ pipe' = Append(pipe, m),
         UNCHANGED <<state, socketId, halQ>>,
         \A s \in SocketId : hal'[s] = "closed" <=> hal[s] = "closed"
  PROVE  OneHolder' /\ LowestHolder'
<1>1. Busy' = Busy
  BY DEF Busy
<1>2. ASSUME NEW s \in SocketId
      PROVE  HeldOnce(s)'
  <2>1. Kept(AskedAt(s), AskedAt(s)')
    BY AskedKept DEF TypeOK, OpensOf
  <2>2. Kept(AnsweredAt(s), AnsweredAt(s)')
    BY AnsweredKept DEF TypeOK
  <2>3. HeldBy(s)' = HeldBy(s)
    BY <1>1 DEF HeldBy
  <2>4. QED
    BY <2>1, <2>2, <2>3, HeldOnceKept DEF OneHolder
<1>3. QED
  BY <1>1, <1>2 DEF OneHolder, LowestHolder

\* The BMM changes no holder.
LEMMA BmmStepHolders ==
  ASSUME TypeOK, TypeOK', OneHolder, LowestHolder, BmmStep
  PROVE  OneHolder' /\ LowestHolder'
<1>1. UNCHANGED <<state, socketId, halQ, hal>>
  BY DEF BmmStep, BmmNext, HandleOffloadReq, RefuseOffloadReq, HandleCloseReq,
         HandleSetParamsReq, LinkViolation, mgrVars
<1>2. \/ pipe' = pipe
      \/ \E m \in PipeMsg : m.type # "OPEN_SOCKET" /\ pipe' = Append(pipe, m)
  <2>1. \/ pipe' = pipe
        \/ \E m : m.type # "OPEN_SOCKET" /\ pipe' = Append(pipe, m)
    BY DEF BmmStep, BmmNext, HandleOffloadReq, RefuseOffloadReq, HandleCloseReq,
           HandleSetParamsReq, LinkViolation, OffloadCfm
  <2>2. ASSUME NEW m, pipe' = Append(pipe, m)
        PROVE  m \in PipeMsg
    BY <2>2, AppendedTyped DEF TypeOK, ChannelsTypeOK
  <2>3. QED
    BY <2>1, <2>2
<1>3. QED
  BY <1>1, <1>2, PostHolders

\* The microapps change no holder.
LEMMA AppStepHolders ==
  ASSUME TypeOK, TypeOK', OneHolder, LowestHolder, AppStep
  PROVE  OneHolder' /\ LowestHolder'
<1>1. UNCHANGED <<state, socketId, halQ, hal>>
  BY DEF AppStep, AppNext, AppOpens, AppRefuses, EndpointNotFound, AppCloses, mgrVars
<1>2. \/ pipe' = pipe
      \/ \E m \in PipeMsg : m.type # "OPEN_SOCKET" /\ pipe' = Append(pipe, m)
  <2>1. \/ pipe' = pipe
        \/ \E m : m.type # "OPEN_SOCKET" /\ pipe' = Append(pipe, m)
    BY DEF AppStep, AppNext, AppOpens, AppRefuses, EndpointNotFound, AppCloses, OpenRes
  <2>2. ASSUME NEW m, pipe' = Append(pipe, m)
        PROVE  m \in PipeMsg
    BY <2>2, AppendedTyped DEF TypeOK, ChannelsTypeOK
  <2>3. QED
    BY <2>1, <2>2
<1>3. QED
  BY <1>1, <1>2, PostHolders

\* The HAL takes a final answer, which was the only holder.
LEMMA HalReceiveHolders ==
  ASSUME TypeOK, TypeOK', OneHolder, LowestHolder, HalReceiveStep
  PROVE  OneHolder' /\ LowestHolder'
<1> USE DEF TypeOK
<1> DEFINE m == Head(halQ)
<1>1. /\ halQ # <<>> /\ halQ' = Tail(halQ)
      /\ m \in HalMsg
  BY HeadTailProperties DEF HalReceiveStep, HalReceive, ChannelsTypeOK
<1>2. pipe' = pipe /\ Busy' = Busy /\ socketId' = socketId
  BY DEF HalReceiveStep, HalReceive, mgrVars, Busy
<1>3. /\ IsFinal(m) => hal' = [hal EXCEPT ![m.sid] = "closed"]
      /\ ~IsFinal(m) => \/ hal' = hal
                        \/ hal[m.sid] = "opening" /\ hal' = [hal EXCEPT ![m.sid] = "open"]
  BY DEF HalReceiveStep, HalReceive, IsFinal
<1> HIDE DEF m
<1>4. ASSUME NEW s \in SocketId
      PROVE  HeldOnce(s)'
  <2>1. HeldOnce(s)
    BY DEF OneHolder
  <2>2. Kept(AskedAt(s), AskedAt(s)') /\ HeldBy(s)' = HeldBy(s)
    BY <1>2, AskedKept DEF HeldBy
  <2>3. CASE m \notin FinalsOf(s)
    <3>1. Kept(AnsweredAt(s), AnsweredAt(s)')
      BY <1>1, <2>3, AnsweredKept DEF m
    <3>2. hal'[s] = "closed" <=> hal[s] = "closed"
      BY <1>1, <1>3, <2>3 DEF FinalsOf
    <3>3. QED
      BY <2>1, <2>2, <3>1, <3>2, HeldOnceKept
  <2>4. CASE m \in FinalsOf(s)
    <3>1. AnsweredAt(s) # {} /\ AnsweredAt(s)' = {}
      BY <1>1, <2>1, <2>4, AnsweredTaken DEF HeldOnce, m
    <3>2. hal'[s] = "closed"
      BY <1>3, <2>4 DEF FinalsOf
    <3>3. QED
      BY <2>1, <2>2, <3>1, <3>2 DEF HeldOnce, Kept, AtMostOne
  <2>5. QED
    BY <2>3, <2>4
<1>5. QED
  BY <1>2, <1>4 DEF OneHolder, LowestHolder

\* The HAL opens a socket that has no holder.
LEMMA HalRequestHolders ==
  ASSUME TypeOK, TypeOK', OneHolder, LowestHolder, HalRequestStep
  PROVE  OneHolder' /\ LowestHolder'
<1> USE DEF TypeOK
<1>1. Busy' = Busy /\ UNCHANGED <<state, socketId, halQ>>
  BY DEF HalRequestStep, HalRequest, HalOpen, HalClose, mgrVars, Busy
<1>2. ASSUME NEW r \in SocketId, NEW o \in Offers, HalOpen(r, o)
      PROVE  OneHolder'
  <2> DEFINE m == [type |-> "OPEN_SOCKET", sid |-> r, proto |-> o[1], ep |-> o[2]]
  <2>1. /\ hal[r] = "closed"
        /\ hal' = [hal EXCEPT ![r] = "opening"]
        /\ pipe' = Append(pipe, m)
    BY <1>2 DEF HalOpen
  <2>2. m \in OpensOf(r) /\ m \in PipeMsg
    BY <2>1, AppendedTyped DEF OpensOf, ChannelsTypeOK
  <2> HIDE DEF m
  <2>3. ASSUME NEW s \in SocketId
        PROVE  HeldOnce(s)'
    <3>1. HeldOnce(s)
      BY DEF OneHolder
    <3>2. Kept(AnsweredAt(s), AnsweredAt(s)') /\ HeldBy(s)' = HeldBy(s)
      BY <1>1, AnsweredKept DEF HeldBy
    <3>3. CASE s # r
      <4>1. Kept(AskedAt(s), AskedAt(s)')
        BY <2>1, <2>2, <3>3, AskedKept DEF OpensOf
      <4>2. hal'[s] = hal[s]
        BY <2>1, <3>3
      <4>3. QED
        BY <3>1, <3>2, <4>1, <4>2, HeldOnceKept
    <3>4. CASE s = r
      <4>1. AskedAt(s)' # {} /\ AtMostOne(AskedAt(s)')
        BY <2>1, <2>2, <3>1, <3>4, AskedAdded DEF HeldOnce
      <4>2. hal'[s] # "closed"
        BY <2>1, <3>4
      <4>3. QED
        BY <2>1, <3>1, <3>2, <3>4, <4>1, <4>2 DEF HeldOnce, Kept
    <3>5. QED
      BY <3>3, <3>4
  <2>4. QED
    BY <2>3 DEF OneHolder
<1>3. ASSUME NEW s \in SocketId, HalClose(s)
      PROVE  OneHolder'
  <2> DEFINE m == [type |-> "CLOSE_SOCKET", sid |-> s]
  <2>1. m \in PipeMsg /\ m.type # "OPEN_SOCKET" /\ pipe' = Append(pipe, m)
    BY <1>3, AppendedTyped DEF HalClose, ChannelsTypeOK
  <2>2. \A r \in SocketId : hal'[r] = "closed" <=> hal[r] = "closed"
    BY <1>3 DEF HalClose
  <2> HIDE DEF m
  <2>3. QED
    BY <1>1, <2>1, <2>2, PostHolders
<1>4. OneHolder'
  BY <1>2, <1>3 DEF HalRequestStep, HalRequest
<1>5. QED
  BY <1>1, <1>4 DEF LowestHolder

-----------------------------------------------------------------------------
(* The theorems.                                                           *)

\* At first no socket has a holder.
LEMMA InitHolders == Init => OneHolder /\ LowestHolder
<1> SUFFICES ASSUME Init
             PROVE  OneHolder /\ LowestHolder
  OBVIOUS
<1>1. Busy = {} /\ pipe = <<>> /\ halQ = <<>>
  BY DEF Init, MgrInit, ChannelsInit, Busy
<1>2. \A s : AskedAt(s) = {} /\ HeldBy(s) = {} /\ AnsweredAt(s) = {}
  BY <1>1 DEF AskedAt, HeldBy, AnsweredAt
<1>3. QED
  BY <1>1, <1>2 DEF Init, OneHolder, HeldOnce, AtMostOne, LowestHolder

\* Every step keeps one holder for each socket.
LEMMA NextHolders ==
  TypeOK /\ OneHolder /\ LowestHolder /\ [Next]_vars => (OneHolder /\ LowestHolder)'
<1> SUFFICES ASSUME TypeOK, OneHolder, LowestHolder, [Next]_vars
             PROVE  OneHolder' /\ LowestHolder'
  OBVIOUS
<1>1. TypeOK'
  BY NextTyped
<1>2. CASE MgrStep
  BY <1>1, <1>2, MgrStepHolders DEF MgrStep
<1>3. CASE BmmStep
  BY <1>1, <1>3, BmmStepHolders
<1>4. CASE AppStep
  BY <1>1, <1>4, AppStepHolders
<1>5. CASE HalReceiveStep
  BY <1>1, <1>5, HalReceiveHolders
<1>6. CASE HalRequestStep
  BY <1>1, <1>6, HalRequestHolders
<1>7. CASE UNCHANGED vars
  BY <1>1, <1>7, PostHolders DEF vars, channels, mgrVars
<1>8. QED
  BY <1>2, <1>3, <1>4, <1>5, <1>6, <1>7 DEF Next

\* Whatever the HAL opens and closes, and whenever, each socket it has not seen
\* closed is in exactly one place - an open request in the pipe, a busy instance
\* or a final answer on its way - and a closed one is in none.
THEOREM HolderUnique == Spec => []OneHolder
<1>1. Spec => [](OneHolder /\ LowestHolder)
  BY TypeCorrect, InitHolders, NextHolders, PTL DEF Spec
<1>2. QED
  BY <1>1, PTL

\* The scans of offload_instance.c by socket id, which take the first entry of
\* the pool that holds the id and look at idle entries with stale ids too, find
\* the busy instance that serves the socket.
THEOREM LookupFindsHolder == Spec => []SocketIdLookup
<1>1. LowestHolder => SocketIdLookup
  <2> SUFFICES ASSUME LowestHolder, NEW i \in Busy
               PROVE  Min(InstWithSocketId(socketId[i])) = i
    BY DEF SocketIdLookup
  <2> DEFINE S == InstWithSocketId(socketId[i])
  <2>1. S \in SUBSET Nat /\ i \in S /\ \A j \in S : i <= j
    BY DEF InstWithSocketId, LowestHolder, Busy, Inst
  <2>2. Min(S) \in S /\ Min(S) <= i
    BY <2>1, MinIsLeast
  <2> HIDE DEF S
  <2>3. i <= Min(S) /\ Min(S) \in Nat /\ i \in Nat
    BY <2>1, <2>2
  <2>4. QED
    BY <2>2, <2>3 DEF S
<1>2. Spec => [](OneHolder /\ LowestHolder)
  BY TypeCorrect, InitHolders, NextHolders, PTL DEF Spec
<1>3. QED
  BY <1>1, <1>2, PTL

\* No instance of the pool leaks: a busy one serves a socket the HAL has not
\* seen closed, and no two serve the same socket.
THEOREM NoInstanceLeaks == Spec => []NoOrphanInstance
<1>1. TypeOK /\ OneHolder => NoOrphanInstance
  <2> SUFFICES ASSUME TypeOK, OneHolder
               PROVE  NoOrphanInstance
    OBVIOUS
  <2>1. ASSUME NEW i \in Busy
        PROVE  socketId[i] \in SocketId /\ i \in HeldBy(socketId[i])
    BY DEF Busy, HeldBy, TypeOK, MgrTypeOK
  <2>2. QED
    BY <2>1 DEF NoOrphanInstance, OneHolder, HeldOnce, AtMostOne, HeldBy
<1>2. QED
  BY <1>1, TypeCorrect, HolderUnique, PTL

-----------------------------------------------------------------------------
(***************************************************************************)
(* The tables of sockets at the two ends of the offload stay consistent    *)
(* for every value of the constants: gBmm.socket[] of the BMM and the      *)
(* slots and counts of the microapps.                                      *)
(***************************************************************************)
(* The microapps.                                                          *)

\* There are MaxApp slots.
LEMMA SlotsAreAll == IsFiniteSet(Slot) /\ Cardinality(Slot) = MaxApp
<1>1. MaxApp \in Int /\ MaxApp >= 0 /\ 1 \in Int
  BY MaxAppAssumption
<1>2. /\ IsFiniteSet(1 .. MaxApp)
      /\ Cardinality(1 .. MaxApp) = IF 1 > MaxApp THEN 0 ELSE MaxApp - 1 + 1
  BY <1>1, FS_Interval
<1>3. QED
  BY <1>1, <1>2 DEF Slot

\* A set of slots is finite and no larger.
LEMMA SlotsFinite ==
  ASSUME NEW T \in SUBSET Slot
  PROVE  IsFiniteSet(T) /\ Cardinality(T) \in 0 .. MaxApp
<1>1. IsFiniteSet(Slot) /\ Cardinality(Slot) = MaxApp
  BY SlotsAreAll
<1>2. QED
  BY <1>1, MaxAppAssumption, FS_Subset, FS_CardinalityType

\* Only the two actions that write a slot matter: each also counts it.
LEMMA AppOpensCounted ==
  ASSUME TypeOK, SlotsCounted, AppOpens
  PROVE  SlotsCounted'
<1>1. PICK s \in SocketId, a \in Protocol : s = Head(uappQ).sid /\ a = Head(uappQ).ep
  BY UappHead DEF AppOpens, TypeOK
<1>2. inUse \in [Protocol -> 0 .. 255] /\ slot \in [Protocol -> [Slot -> SocketId \cup {ClearSlot}]]
  BY DEF TypeOK, AppTypeOK
<1>3. \A b \in Protocol : FreeSlots(b) \in SUBSET Slot
  BY DEF FreeSlots
<1>4. inUse[a] < MaxApp /\ FreeSlots(a) # {}
  <2>1. inUse[a] < MaxApp
    BY <1>1 DEF AppOpens
  <2>2. Cardinality({}) = 0
    BY FS_EmptySet
  <2>3. QED
    BY <2>1, <2>2, MaxAppAssumption DEF SlotsCounted
<1>5. PICK n \in FreeSlots(a) : n = Min(FreeSlots(a))
  <2>1. FreeSlots(a) \in SUBSET Nat
    BY DEF FreeSlots, Slot
  <2>2. QED
    BY <1>4, <2>1, MinIsLeast
<1>6. /\ inUse' = [inUse EXCEPT ![a] = (@ + 1) % 256]
      /\ slot' = [slot EXCEPT ![a][n] = s]
  BY <1>1, <1>4, <1>5 DEF AppOpens
<1>7. s # ClearSlot
  BY SocketIdAssumption DEF ClearSlot
<1>8. /\ FreeSlots(a)' = FreeSlots(a) \ {n}
      /\ \A b \in Protocol \ {a} : FreeSlots(b)' = FreeSlots(b)
  BY <1>1, <1>2, <1>5, <1>6, <1>7 DEF FreeSlots
<1>9. inUse'[a] = inUse[a] + 1 /\ \A b \in Protocol \ {a} : inUse'[b] = inUse[b]
  <2>1. \A x \in 0 .. 254 : (x + 1) % 256 = x + 1
    OBVIOUS
  <2>2. inUse[a] \in 0 .. 254
    BY <1>2, <1>4, MaxAppAssumption
  <2>3. QED
    BY <1>2, <1>6, <2>1, <2>2
<1>10. Cardinality(FreeSlots(a) \ {n}) = Cardinality(FreeSlots(a)) - 1
  BY <1>1, <1>3, <1>5, SlotsFinite, FS_RemoveElement
<1>11. Cardinality(FreeSlots(a)) \in 0 .. MaxApp
  BY <1>1, <1>3, SlotsFinite
<1>12. QED
  <2> SUFFICES ASSUME NEW b \in Protocol
               PROVE  inUse'[b] = MaxApp - Cardinality(FreeSlots(b)')
    BY DEF SlotsCounted
  <2>1. CASE b = a
    <3>1. inUse[a] = MaxApp - Cardinality(FreeSlots(a))
      BY <1>1 DEF SlotsCounted
    <3>2. Cardinality(FreeSlots(b)') = Cardinality(FreeSlots(a)) - 1
      BY <1>8, <1>10, <2>1, Zenon
    <3>3. inUse'[b] = inUse[a] + 1
      BY <1>9, <2>1
    <3>4. QED
      BY <1>11, <3>1, <3>2, <3>3, MaxAppAssumption
  <2>2. CASE b # a
    BY <1>8, <1>9, <2>2 DEF SlotsCounted
  <2>3. QED
    BY <2>1, <2>2

\* Closing clears the slots of the socket and counts it down.
LEMMA AppClosesCounted ==
  ASSUME TypeOK, SlotsCounted, AppCloses
  PROVE  SlotsCounted'
<1>1. PICK s \in SocketId, a \in Endpoint : s = Head(uappQ).sid /\ a = Head(uappQ).ep
  BY UappHead DEF AppCloses, TypeOK
<1>2. inUse \in [Protocol -> 0 .. 255] /\ slot \in [Protocol -> [Slot -> SocketId \cup {ClearSlot}]]
  BY DEF TypeOK, AppTypeOK
<1>3. CASE UNCHANGED appVars
  BY <1>3 DEF appVars, SlotsCounted, FreeSlots
<1>4. CASE ~UNCHANGED appVars
  <2>1. /\ a \in Protocol /\ SlotsOf(a, s) # {}
        /\ slot' = [slot EXCEPT ![a][Min(SlotsOf(a, s))] = ClearSlot]
        /\ inUse' = [inUse EXCEPT ![a] = IF a = "LECOC" /\ @ = 0 THEN 0 ELSE (@ - 1) % 256]
    BY <1>1, <1>4 DEF AppCloses
  <2>2. PICK n \in SlotsOf(a, s) : n = Min(SlotsOf(a, s))
    <3>1. SlotsOf(a, s) \in SUBSET Nat
      BY DEF SlotsOf, Slot
    <3>2. QED
      BY <2>1, <3>1, MinIsLeast
  <2>3. s # ClearSlot /\ slot' = [slot EXCEPT ![a][n] = ClearSlot]
    BY <2>1, <2>2, SocketIdAssumption DEF ClearSlot
  <2>4. n \in Slot \ FreeSlots(a)
    BY <2>2, <2>3 DEF SlotsOf, FreeSlots
  <2>5. /\ FreeSlots(a)' = FreeSlots(a) \cup {n}
        /\ \A b \in Protocol \ {a} : FreeSlots(b)' = FreeSlots(b)
    BY <1>2, <2>1, <2>3, <2>4 DEF FreeSlots
  <2>6. /\ FreeSlots(a) \in SUBSET Slot
        /\ FreeSlots(a) \cup {n} \in SUBSET Slot
    BY <2>4 DEF FreeSlots
  <2>7. Cardinality(FreeSlots(a) \cup {n}) = Cardinality(FreeSlots(a)) + 1
    BY <2>4, <2>6, SlotsFinite, FS_AddElement
  <2>8. /\ Cardinality(FreeSlots(a)) \in 0 .. MaxApp
        /\ Cardinality(FreeSlots(a)) + 1 \in 0 .. MaxApp
    BY <2>6, <2>7, SlotsFinite
  <2>9. inUse[a] = MaxApp - Cardinality(FreeSlots(a))
    BY <2>1 DEF SlotsCounted
  <2>10. inUse'[a] = inUse[a] - 1 /\ \A b \in Protocol \ {a} : inUse'[b] = inUse[b]
    <3>1. \A x \in 1 .. 255 : (x - 1) % 256 = x - 1
      OBVIOUS
    <3>2. inUse[a] \in 1 .. 255
      BY <1>2, <2>1, <2>8, <2>9, MaxAppAssumption
    <3>3. inUse'[a] = (inUse[a] - 1) % 256
      BY <1>2, <2>1, <3>2
    <3>4. QED
      BY <1>2, <2>1, <3>1, <3>2, <3>3
  <2>11. ASSUME NEW b \in Protocol
         PROVE  inUse'[b] = MaxApp - Cardinality(FreeSlots(b)')
    <3>1. CASE b = a
      <4>1. Cardinality(FreeSlots(b)') = Cardinality(FreeSlots(a)) + 1
        BY <2>5, <2>7, <3>1, Zenon
      <4>2. inUse'[b] = inUse[a] - 1
        BY <2>10, <3>1
      <4>3. QED
        BY <2>8, <2>9, <4>1, <4>2, MaxAppAssumption
    <3>2. CASE b # a
      BY <2>5, <2>10, <3>2 DEF SlotsCounted
    <3>3. QED
      BY <3>1, <3>2
  <2>12. QED
    BY <2>11 DEF SlotsCounted
<1>5. QED
  BY <1>3, <1>4

\* The count a microapp keeps of its sockets is the number of its slots in use,
\* in every run in which Bluetooth stays on: no sequence of opens, refusals,
\* closes and closes of sockets it does not have wraps or drifts it.
THEOREM CountsMatchSlots == Spec => []SlotsCounted
<1>1. Init => SlotsCounted
  <2> SUFFICES ASSUME Init, NEW a \in Protocol
               PROVE  inUse[a] = MaxApp - Cardinality(FreeSlots(a))
    BY DEF SlotsCounted
  <2>1. FreeSlots(a) = Slot /\ inUse[a] = 0
    BY DEF Init, AppInit, FreeSlots
  <2>2. QED
    BY <2>1, SlotsAreAll, MaxAppAssumption
<1>2. TypeOK /\ SlotsCounted /\ [Next]_vars => SlotsCounted'
  <2> SUFFICES ASSUME TypeOK, SlotsCounted, [Next]_vars
               PROVE  SlotsCounted'
    OBVIOUS
  <2>1. CASE UNCHANGED appVars
    BY <2>1 DEF appVars, SlotsCounted, FreeSlots
  <2>2. CASE AppStep
    BY <2>1, <2>2, AppOpensCounted, AppClosesCounted
       DEF AppStep, AppNext, AppRefuses, EndpointNotFound
  <2>3. QED
    BY <2>1, <2>2 DEF Next, MgrStep, BmmStep, HalReceiveStep, HalRequestStep, vars
<1>3. QED
  BY <1>1, <1>2, TypeCorrect, PTL DEF Spec

-----------------------------------------------------------------------------
(* The BMM.                                                                *)

\* The entries of a protocol can be counted.
LEMMA UsedByFinite ==
  ASSUME NEW p
  PROVE  IsFiniteSet(UsedBy(p)) /\ Cardinality(UsedBy(p)) \in Nat
<1>1. IsFiniteSet(Sock)
  BY NumSockAssumption, FS_Interval DEF Sock
<1>2. UsedBy(p) \in SUBSET Sock
  BY DEF UsedBy, InUse
<1>3. QED
  BY <1>1, <1>2, FS_Subset, FS_CardinalityType

\* Entries may be freed, and the fields other than the id, the socket and the
\* protocol of one in use may change.
LEMMA EntriesKept ==
  ASSUME TypeOK, BmmConsistent,
         \A k \in Sock :
           sock'[k].inUse =>
             /\ sock[k].inUse
             /\ sock'[k].conn = sock[k].conn
             /\ sock'[k].sid = sock[k].sid
             /\ sock'[k].proto = sock[k].proto
  PROVE  BmmConsistent'
<1>1. InUse' \subseteq InUse
  BY DEF InUse
<1>2. \A k \in InUse' : sock'[k].conn.idx = k /\ sock'[k].conn.proto = sock'[k].proto
  BY <1>1 DEF BmmConsistent, InUse
<1>3. \A k, l \in InUse' : k # l => sock'[k].sid # sock'[l].sid
  BY <1>1 DEF BmmConsistent, InUse
<1>4. ASSUME NEW p \in Protocol
      PROVE  Cardinality(UsedBy(p)') <= MaxConn
  <2>1. UsedBy(p)' \in SUBSET UsedBy(p)
    BY <1>1 DEF UsedBy, InUse
  <2>2. IsFiniteSet(UsedBy(p)')
    BY <2>1, UsedByFinite, FS_Subset
  <2>3. Cardinality(UsedBy(p)') \in Nat /\ Cardinality(UsedBy(p)') <= Cardinality(UsedBy(p))
    BY <2>1, <2>2, UsedByFinite, FS_Subset, FS_CardinalityType
  <2>4. Cardinality(UsedBy(p)) <= MaxConn
    BY DEF BmmConsistent
  <2>5. QED
    BY <2>3, <2>4, UsedByFinite, MaxConnAssumption
<1>5. QED
  BY <1>2, <1>3, <1>4 DEF BmmConsistent

\* An entry is taken only for a socket without one and below the limit.
LEMMA OffloadConsistent ==
  ASSUME TypeOK, BmmConsistent, HandleOffloadReq
  PROVE  BmmConsistent'
<1>1. PICK s \in SocketId, q \in Protocol : s = Head(bmmQ).sid /\ q = Head(bmmQ).proto
  BY BmmHead DEF HandleOffloadReq, TypeOK
<1>2. /\ \A l \in InUse : sock[l].sid # s
      /\ Cardinality(UsedBy(q)) < MaxConn
      /\ Sock \ InUse # {}
  BY <1>1 DEF HandleOffloadReq, CanOffload
<1>3. PICK k \in Sock \ InUse : k = Min(Sock \ InUse)
  <2>1. Sock \ InUse \in SUBSET Nat
    BY DEF Sock
  <2>2. QED
    BY <1>2, <2>1, MinIsLeast
<1>4. PICK c : c = GenerateConnId(q, s, k)
  OBVIOUS
<1>5. c.idx = k /\ c.proto = q
  BY <1>4 DEF GenerateConnId
<1>6. sock' = [sock EXCEPT ![k] = [inUse |-> TRUE, conn |-> c, sid |-> s, proto |-> q,
                                   inError |-> FALSE, credits |-> FALSE]]
  BY <1>1, <1>3, <1>4 DEF HandleOffloadReq
<1>7. /\ InUse' = InUse \cup {k}
      /\ sock'[k].conn = c /\ sock'[k].sid = s /\ sock'[k].proto = q
      /\ \A l \in InUse : l # k /\ sock'[l] = sock[l]
  BY <1>3, <1>6 DEF InUse, TypeOK, BmmTypeOK
<1>8. \A l \in InUse' : sock'[l].conn.idx = l /\ sock'[l].conn.proto = sock'[l].proto
  BY <1>5, <1>7 DEF BmmConsistent
<1>9. \A l, m \in InUse' : l # m => sock'[l].sid # sock'[m].sid
  BY <1>2, <1>7 DEF BmmConsistent
<1>10. ASSUME NEW p \in Protocol
       PROVE  Cardinality(UsedBy(p)') <= MaxConn
  <2>1. CASE p = q
    <3>1. UsedBy(p)' = UsedBy(q) \cup {k}
      BY <1>7, <2>1 DEF UsedBy
    <3>2. k \notin UsedBy(q)
      BY <1>3 DEF UsedBy
    <3>3. Cardinality(UsedBy(q) \cup {k}) = Cardinality(UsedBy(q)) + 1
      BY <3>2, UsedByFinite, FS_AddElement
    <3>4. Cardinality(UsedBy(p)') = Cardinality(UsedBy(q)) + 1
      BY <3>1, <3>3, Zenon
    <3>5. QED
      BY <1>2, <3>4, UsedByFinite, MaxConnAssumption
  <2>2. CASE p # q
    <3>1. UsedBy(p)' = UsedBy(p)
      BY <1>7, <2>2 DEF UsedBy
    <3>2. QED
      BY <3>1 DEF BmmConsistent
  <2>3. QED
    BY <2>1, <2>2
<1>11. QED
  BY <1>8, <1>9, <1>10 DEF BmmConsistent

\* Whatever the manager and the HAL ask for, in any order: no socket has two
\* entries of gBmm.socket[], no protocol has more sockets than it may, and the
\* connection id of an entry names that entry and its protocol, so the panics
\* of BmmIsConnIdValid are not reached.
THEOREM TableConsistent == Spec => []BmmConsistent
<1>1. Init => BmmConsistent
  <2> SUFFICES ASSUME Init
               PROVE  BmmConsistent
    OBVIOUS
  <2>1. InUse = {} /\ \A p : UsedBy(p) = {}
    BY DEF Init, BmmInit, InUse, UsedBy, FreeSock
  <2>2. Cardinality({}) = 0
    BY FS_EmptySet
  <2>3. QED
    BY <2>1, <2>2, MaxConnAssumption DEF BmmConsistent
<1>2. TypeOK /\ BmmConsistent /\ [Next]_vars => BmmConsistent'
  <2> SUFFICES ASSUME TypeOK, BmmConsistent, [Next]_vars
               PROVE  BmmConsistent'
    OBVIOUS
  <2>1. sock \in [Sock -> UsedSock \cup {FreeSock}]
    BY DEF TypeOK, BmmTypeOK
  <2>2. CASE sock' = sock
    BY <2>2, EntriesKept
  <2>3. CASE HandleOffloadReq
    BY <2>3, OffloadConsistent
  <2>4. CASE HandleCloseReq
    <3>1. sock' = sock \/ \E k \in Sock : sock' = [sock EXCEPT ![k] = FreeSock]
      BY <2>4 DEF HandleCloseReq, IsConnIdValid
    <3>2. QED
      BY <2>1, <3>1, EntriesKept DEF FreeSock
  <2>5. CASE HandleSetParamsReq
    <3>1. \/ sock' = sock
          \/ \E k \in Sock : sock[k].inUse /\ sock' = [sock EXCEPT ![k].credits = TRUE]
      BY <2>5 DEF HandleSetParamsReq, IsConnIdValid
    <3>2. ASSUME NEW k \in Sock, sock[k].inUse, sock' = [sock EXCEPT ![k].credits = TRUE]
          PROVE  BmmConsistent'
      BY <2>1, <3>2, EntriesKept DEF UsedSock, FreeSock
    <3>3. QED
      BY <2>2, <3>1, <3>2
  <2>6. ASSUME NEW k \in Sock, LinkViolation(k)
        PROVE  BmmConsistent'
    BY <2>1, <2>6, EntriesKept DEF LinkViolation, UsedSock, FreeSock
  <2>7. QED
    BY <2>2, <2>3, <2>4, <2>5, <2>6
       DEF Next, MgrStep, BmmStep, BmmNext, RefuseOffloadReq, AppStep, HalReceiveStep,
           HalRequestStep, bmmVars, vars
<1>3. QED
  BY <1>1, <1>2, TypeCorrect, PTL DEF Spec

-----------------------------------------------------------------------------
(* The lives of sockets.                                                   *)

(***************************************************************************)
(* What the guarantees of a socket rest on beyond the code of the offload: *)
(* the HAL closes no socket whose open it was not answered, no socket id   *)
(* is the one an unknown endpoint is answered with, and no two agree in    *)
(* the bits a connection id has of them.  Without the first, the table     *)
(* takes an instance to UnOffloadReqToMicrostack whose connection is not   *)
(* there or whose id is stale.                                             *)
(***************************************************************************)
PatientHal ==
  /\ ~EarlyClose
  /\ UnknownEndpointId \notin SocketId
  /\ \A s, t \in SocketId : s % IdSpace = t % IdSpace => s = t

-----------------------------------------------------------------------------
(* Where a queue holds messages of a set.                                  *)

In(q, M) == \E n \in DOMAIN q : q[n] \in M
Once(q, M) == \A n, l \in DOMAIN q : q[n] \in M /\ q[l] \in M => n = l
Ahead(q, M, N) == \A n, l \in DOMAIN q : q[n] \in M /\ q[l] \in N => n < l

\* The messages of each kind: about a socket s, an instance i, a connection c.
AskOf(s) == [type : {"OPEN_SOCKET"}, sid : {s}, proto : Protocol, ep : Endpoint]
CloseOf(s) == [type : {"CLOSE_SOCKET"}, sid : {s}]
ReqOf(i) == [type : {"OFFLOAD_REQ"}, sid : SocketId, proto : Protocol, inst : {i}]
ReqFor(i, s) == [type : {"OFFLOAD_REQ"}, sid : {s}, proto : Protocol, inst : {i}]
CfmOf(i) == [type : {"OFFLOAD_CFM"}, inst : {i}, conn : ConnId, ok : BOOLEAN]
TakenOf(i, c) == {OffloadCfm(i, c, TRUE)}
RefusedAs == [type : {"OFFLOAD_CFM"}, inst : Inst, conn : ConnId \ {NoConn}, ok : {FALSE}]
OpenReqOf(s) == [type : {"OPEN_REQ"}, sid : {s}, proto : Protocol, ep : Endpoint]
OpenReqFor(s, e) == [type : {"OPEN_REQ"}, sid : {s}, proto : Protocol, ep : {e}]
ResOf(s) == [type : {"UAPP_OPEN_RES"}, sid : {s}, ok : BOOLEAN]
OpenedOf(s) == {OpenRes(s, TRUE)}
ParamsOf(c) == {[type |-> "SET_PARAMS_REQ", conn |-> c]}
DropOf(c) == {[type |-> "CLOSE_REQ", conn |-> c]}
DroppedOf(c) == [type : {"CLOSE_CFM"}, conn : {c}, ok : BOOLEAN]
NotDropped == [type : {"CLOSE_CFM"}, conn : ConnId, ok : {FALSE}]
LeaveOf(s) == [type : {"CLOSE_REQ"}, sid : {s}, ep : Endpoint]
LeaveFor(s, e) == {[type |-> "CLOSE_REQ", sid |-> s, ep |-> e]}
AckOf(s) == {OpenRsp(s, TRUE)}
NakOf(s) == {OpenRsp(s, FALSE)}
DoneOf(s) == {[type |-> "CLOSE_RSP", sid |-> s]}

-----------------------------------------------------------------------------
(* The invariant.                                                          *)

Closing == {"UnOffloadReqToMicrostack", "OffloadToMicroappFailure"}
Open == {"OffloadToMicrostackSuccess", "OffloadToMicroappSuccess"}
Known == Open \cup Closing

Offered(s) == \E i \in Inst : socketId[i] = s /\ state[i] = "OffloadToMicroappSuccess"

\* No machine rests in a state it only passes.
Resting ==
  \A i \in Inst : state[i] \in {"Idle", "OffloadReq"} \cup Known

\* Entry c.idx of the table serves instance i under the id c.
Serves(c, i) ==
  /\ c.idx \in Sock /\ sock[c.idx].inUse
  /\ sock[c.idx].conn = c /\ sock[c.idx].sid = socketId[i]
  /\ c.low = socketId[i] % IdSpace

Requests ==
  /\ \A i \in Inst :
       /\ Once(bmmQ, ReqOf(i)) /\ Once(pipe, CfmOf(i))
       /\ ~In(bmmQ, ReqOf(i)) \/ ~In(pipe, CfmOf(i))
       /\ state[i] = "OffloadReq" <=> In(bmmQ, ReqOf(i)) \/ In(pipe, CfmOf(i))
  /\ ~In(pipe, RefusedAs)
  /\ \A i \in Inst, s \in SocketId : In(bmmQ, ReqFor(i, s)) => socketId[i] = s

Entries ==
  /\ \A i \in Inst, c \in ConnId : In(pipe, TakenOf(i, c)) => Serves(c, i)
  /\ \A i \in Inst : state[i] \in Open => Serves(pseudoId[i], i)
  /\ \A i \in Inst :
       state[i] \in Closing /\ In(bmmQ, DropOf(pseudoId[i])) => Serves(pseudoId[i], i)
  /\ \A k \in InUse : \E i \in Inst :
       /\ socketId[i] = sock[k].sid
       /\ \/ state[i] \in Open
          \/ state[i] \in Closing /\ In(bmmQ, DropOf(pseudoId[i]))
          \/ In(pipe, TakenOf(i, sock[k].conn))

Answers ==
  /\ \A s \in SocketId :
       /\ Once(uappQ, OpenReqOf(s)) /\ Once(pipe, ResOf(s))
       /\ ~In(uappQ, OpenReqOf(s)) \/ ~In(pipe, ResOf(s))
       /\ In(uappQ, OpenReqOf(s)) \/ In(pipe, ResOf(s)) =>
            \E i \in Inst : socketId[i] = s /\ state[i] = "OffloadToMicrostackSuccess"
  /\ \A i \in Inst :
       state[i] = "OffloadToMicrostackSuccess" /\ epId[i] \in Protocol =>
         In(uappQ, OpenReqOf(socketId[i])) \/ In(pipe, ResOf(socketId[i]))
  /\ \A i \in Inst, e \in Endpoint :
       state[i] = "OffloadToMicrostackSuccess" /\ In(uappQ, OpenReqFor(socketId[i], e))
         => epId[i] = e

Drops ==
  /\ \A c \in ConnId :
       /\ Once(bmmQ, DropOf(c)) /\ Once(pipe, DroppedOf(c))
       /\ ~In(bmmQ, DropOf(c)) \/ ~In(pipe, DroppedOf(c))
       /\ In(bmmQ, DropOf(c)) \/ In(pipe, DroppedOf(c)) =>
            \E i \in Inst : pseudoId[i] = c /\ state[i] \in Closing
  /\ \A i \in Inst :
       state[i] \in Closing => In(bmmQ, DropOf(pseudoId[i])) \/ In(pipe, DroppedOf(pseudoId[i]))
  /\ ~In(pipe, NotDropped)

HalKnows ==
  /\ \A s \in SocketId :
       /\ Once(pipe, CloseOf(s)) /\ Once(halQ, AckOf(s))
       /\ In(pipe, CloseOf(s)) => hal[s] = "closing" /\ Offered(s)
       /\ In(halQ, AckOf(s)) => hal[s] = "opening" /\ Offered(s)
       /\ In(pipe, AskOf(s)) \/ In(halQ, NakOf(s)) => hal[s] = "opening"
       /\ In(halQ, DoneOf(s)) => hal[s] = "closing"
  /\ \A i \in Inst :
       /\ state[i] = "OffloadToMicroappSuccess" =>
            LET s == socketId[i] IN
            \/ hal[s] = "open"
            \/ hal[s] = "opening" /\ In(halQ, AckOf(s))
            \/ hal[s] = "closing" /\ In(pipe, CloseOf(s))
       /\ state[i] \in {"OffloadReq", "OffloadToMicrostackSuccess", "OffloadToMicroappFailure"}
            => hal[socketId[i]] = "opening"
       /\ state[i] = "UnOffloadReqToMicrostack" => hal[socketId[i]] = "closing"

Slots ==
  /\ \A a, b \in Protocol, n, l \in Slot :
       slot[a][n] = slot[b][l] /\ slot[a][n] # ClearSlot => a = b /\ n = l
  /\ \A a \in Protocol, n \in Slot :
       slot[a][n] # ClearSlot =>
         \/ In(uappQ, LeaveFor(slot[a][n], a))
         \/ \E i \in Inst :
              /\ socketId[i] = slot[a][n] /\ epId[i] = a
              /\ \/ state[i] = "OffloadToMicroappSuccess"
                 \/ /\ state[i] = "OffloadToMicrostackSuccess"
                    /\ In(pipe, OpenedOf(slot[a][n]))
  /\ \A i \in Inst :
       \/ state[i] = "OffloadToMicroappSuccess"
       \/ state[i] = "OffloadToMicrostackSuccess" /\ In(pipe, OpenedOf(socketId[i]))
       => epId[i] \in Protocol /\ SlotsOf(epId[i], socketId[i]) # {}

Leaving ==
  \A s \in SocketId :
    /\ Once(uappQ, LeaveOf(s))
    /\ Ahead(uappQ, LeaveOf(s), OpenReqOf(s))
    /\ \A e \in Endpoint :
         In(uappQ, LeaveFor(s, e)) => e \in Protocol /\ SlotsOf(e, s) # {}
    /\ In(uappQ, LeaveOf(s)) =>
         \A i \in Inst :
           socketId[i] = s /\ state[i] \in Known =>
             \/ state[i] = "UnOffloadReqToMicrostack"
             \/ state[i] = "OffloadToMicrostackSuccess" /\ In(uappQ, OpenReqOf(s))

Conns ==
  /\ \A i \in Inst :
       state[i] \in Known =>
         /\ pseudoId[i] # NoConn /\ pseudoId[i].low = socketId[i] % IdSpace
         /\ \A j \in Inst : pseudoId[j] = pseudoId[i] => i <= j
  /\ \A i, j \in Inst :
       /\ state[i] = "OffloadReq" /\ j < i
       /\ pseudoId[j] # NoConn /\ pseudoId[j].low = socketId[i] % IdSpace
       => /\ state[j] = "OffloadReq"
          /\ Ahead(pipe, CfmOf(j), CfmOf(i))
          /\ Ahead(bmmQ, ReqOf(j), ReqOf(i))
          /\ ~In(pipe, CfmOf(i)) \/ ~In(bmmQ, ReqOf(j))

Granted ==
  \A i \in Inst :
    state[i] = "OffloadToMicroappSuccess" =>
      sock[pseudoId[i].idx].credits \/ In(bmmQ, ParamsOf(pseudoId[i]))

\* What is known of a state before its life is looked at.
Base == TypeOK /\ OneHolder /\ SocketIdLookup /\ BmmConsistent /\ SlotsCounted

Life ==
  /\ Resting /\ Requests /\ Entries /\ Answers /\ Drops /\ HalKnows
  /\ Slots /\ Leaving /\ Conns /\ Granted

-----------------------------------------------------------------------------
(* Taking from a queue and adding to it.                                   *)

\* What is in a queue after a message is appended.
LEMMA QueueGains ==
  ASSUME NEW Q, NEW q \in Seq(Q), NEW e
  PROVE  /\ \A M : In(Append(q, e), M) <=> In(q, M) \/ e \in M
         /\ \A M : Once(q, M) /\ ~(In(q, M) /\ e \in M) => Once(Append(q, e), M)
         /\ \A M, N : Ahead(q, M, N) /\ ~(e \in M /\ (In(q, N) \/ e \in N))
                        => Ahead(Append(q, e), M, N)
<1> DEFINE r == Append(q, e)
<1>1. /\ Len(q) \in Nat /\ Len(r) = Len(q) + 1
      /\ DOMAIN q = 1 .. Len(q) /\ DOMAIN r = 1 .. Len(q) + 1
      /\ \A n \in 1 .. Len(q) : r[n] = q[n]
      /\ r[Len(q) + 1] = e
  OBVIOUS
<1> HIDE DEF r
<1>2. /\ \A n \in DOMAIN r :
           (n \in DOMAIN q /\ r[n] = q[n] /\ n < Len(q) + 1) \/ (n = Len(q) + 1 /\ r[n] = e)
      /\ \A n \in DOMAIN q : n \in DOMAIN r /\ r[n] = q[n] /\ n < Len(q) + 1
      /\ Len(q) + 1 \in DOMAIN r /\ r[Len(q) + 1] = e
  BY <1>1
<1>3. /\ \A M : In(r, M) <=> In(q, M) \/ e \in M
      /\ \A M : Once(q, M) /\ ~(In(q, M) /\ e \in M) => Once(r, M)
      /\ \A M, N : Ahead(q, M, N) /\ ~(e \in M /\ (In(q, N) \/ e \in N)) => Ahead(r, M, N)
  BY <1>2 DEF In, Once, Ahead
<1>4. QED
  BY <1>3 DEF r

\* What is in a queue before and after its first message is taken.
LEMMA QueueLoses ==
  ASSUME NEW Q, NEW q \in Seq(Q), q # <<>>
  PROVE  /\ \A M : In(q, M) <=> In(Tail(q), M) \/ Head(q) \in M
         /\ \A M : Once(q, M) => Once(Tail(q), M) /\ (Head(q) \in M => ~In(Tail(q), M))
         /\ \A M, N : Ahead(q, M, N) => Ahead(Tail(q), M, N) /\ (Head(q) \in N => ~In(q, M))
<1> DEFINE r == Tail(q)
<1>1. /\ Len(q) \in Nat \ {0} /\ Len(r) = Len(q) - 1
      /\ DOMAIN q = 1 .. Len(q) /\ DOMAIN r = 1 .. Len(q) - 1
      /\ \A n \in 1 .. Len(q) - 1 : r[n] = q[n + 1]
      /\ Head(q) = q[1]
  BY HeadTailProperties, LenProperties, EmptySeq
<1> HIDE DEF r
<1>2. /\ \A n \in DOMAIN r : n \in Nat /\ n + 1 \in DOMAIN q /\ r[n] = q[n + 1] /\ n + 1 # 1
      /\ \A n \in DOMAIN q : n = 1 \/ (n - 1 \in DOMAIN r /\ r[n - 1] = q[n])
      /\ \A n, l \in DOMAIN r : n + 1 < l + 1 => n < l
      /\ \A n, l \in DOMAIN r : n + 1 = l + 1 => n = l
      /\ 1 \in DOMAIN q /\ q[1] = Head(q)
      /\ \A n \in DOMAIN q : n \in Nat /\ ~(n < 1)
  BY <1>1
<1>3. \A M : In(q, M) <=> In(r, M) \/ Head(q) \in M
  BY <1>2 DEF In
<1>4. \A M : Once(q, M) => Once(r, M) /\ (Head(q) \in M => ~In(r, M))
  BY <1>2 DEF In, Once
<1>5. ASSUME NEW M, NEW N, Ahead(q, M, N)
      PROVE  Ahead(r, M, N) /\ (Head(q) \in N => ~In(q, M))
  <2>1. Ahead(r, M, N)
    BY <1>2, <1>5 DEF Ahead
  <2>2. QED
    BY <1>2, <1>5, <2>1 DEF Ahead, In
<1>6. QED
  BY <1>3, <1>4, <1>5 DEF r

\* Nothing is in an empty queue, and a smaller set is found no more often.
LEMMA InSubset ==
  ASSUME NEW q, NEW M, NEW N, M \subseteq N, In(q, M)
  PROVE  In(q, N)
BY DEF In

\* The kind of a message of the pipe is told by its fields.
LEMMA PipeKinds ==
  ASSUME NEW m \in PipeMsg
  PROVE  /\ \A s \in SocketId : m \in AskOf(s) <=> m.type = "OPEN_SOCKET" /\ m.sid = s
         /\ \A s : m \in CloseOf(s) <=> m.type = "CLOSE_SOCKET" /\ m.sid = s
         /\ \A i : m \in CfmOf(i) <=> m.type = "OFFLOAD_CFM" /\ m.inst = i
         /\ \A i, c : m \in TakenOf(i, c) <=>
                        m.type = "OFFLOAD_CFM" /\ m.inst = i /\ m.conn = c /\ m.ok
         /\ \A s : m \in ResOf(s) <=> m.type = "UAPP_OPEN_RES" /\ m.sid = s
         /\ \A s : m \in OpenedOf(s) <=> m.type = "UAPP_OPEN_RES" /\ m.sid = s /\ m.ok
         /\ \A c : m \in DroppedOf(c) <=> m.type = "CLOSE_CFM" /\ m.conn = c
         /\ m \in NotDropped <=> m.type = "CLOSE_CFM" /\ ~m.ok
         /\ m \in RefusedAs <=> m.type = "OFFLOAD_CFM" /\ m.conn # NoConn /\ ~m.ok
<1> USE DEF PipeMsg, OpenMsg, CloseMsg, OffloadCfmMsg, CloseCfmMsg, ErrorIndMsg,
            UappOpenResMsg
<1>1. \A s \in SocketId : m \in AskOf(s) <=> m.type = "OPEN_SOCKET" /\ m.sid = s
  BY DEF AskOf
<1>2. \A s : m \in CloseOf(s) <=> m.type = "CLOSE_SOCKET" /\ m.sid = s
  BY DEF CloseOf
<1>3. \A i : m \in CfmOf(i) <=> m.type = "OFFLOAD_CFM" /\ m.inst = i
  BY DEF CfmOf
<1>4. \A i, c : m \in TakenOf(i, c) <=>
            m.type = "OFFLOAD_CFM" /\ m.inst = i /\ m.conn = c /\ m.ok
  BY DEF TakenOf, OffloadCfm
<1>5. \A s : m \in ResOf(s) <=> m.type = "UAPP_OPEN_RES" /\ m.sid = s
  BY DEF ResOf
<1>6. \A s : m \in OpenedOf(s) <=> m.type = "UAPP_OPEN_RES" /\ m.sid = s /\ m.ok
  BY DEF OpenedOf, OpenRes
<1>7. \A c : m \in DroppedOf(c) <=> m.type = "CLOSE_CFM" /\ m.conn = c
  BY DEF DroppedOf
<1>8. m \in NotDropped <=> m.type = "CLOSE_CFM" /\ ~m.ok
  BY DEF NotDropped
<1>9. m \in RefusedAs <=> m.type = "OFFLOAD_CFM" /\ m.conn # NoConn /\ ~m.ok
  BY DEF RefusedAs
<1>10. QED
  BY <1>1, <1>2, <1>3, <1>4, <1>5, <1>6, <1>7, <1>8, <1>9

\* The same of the messages to the BMM.
LEMMA BmmKinds ==
  ASSUME NEW m \in BmmMsg
  PROVE  /\ \A i : m \in ReqOf(i) <=> m.type = "OFFLOAD_REQ" /\ m.inst = i
         /\ \A i, s : m \in ReqFor(i, s) <=>
                        m.type = "OFFLOAD_REQ" /\ m.inst = i /\ m.sid = s
         /\ \A c : m \in DropOf(c) <=> m.type = "CLOSE_REQ" /\ m.conn = c
         /\ \A c : m \in ParamsOf(c) <=> m.type = "SET_PARAMS_REQ" /\ m.conn = c
<1> USE DEF ReqOf, ReqFor, DropOf, ParamsOf
<1>1. CASE m \in [type : {"OFFLOAD_REQ"}, sid : SocketId, proto : Protocol, inst : Inst]
  BY <1>1
<1>2. CASE m \in [type : {"CLOSE_REQ"}, conn : ConnId]
  BY <1>2
<1>3. CASE m \in [type : {"SET_PARAMS_REQ"}, conn : ConnId]
  BY <1>3
<1>4. QED
  BY <1>1, <1>2, <1>3 DEF BmmMsg

\* The same of the messages to the watch processor.
LEMMA UappKinds ==
  ASSUME NEW m \in UappMsg
  PROVE  /\ \A s : m \in OpenReqOf(s) <=> m.type = "OPEN_REQ" /\ m.sid = s
         /\ \A s, e : m \in OpenReqFor(s, e) <=> m.type = "OPEN_REQ" /\ m.sid = s /\ m.ep = e
         /\ \A s : m \in LeaveOf(s) <=> m.type = "CLOSE_REQ" /\ m.sid = s
         /\ \A s, e : m \in LeaveFor(s, e) <=> m.type = "CLOSE_REQ" /\ m.sid = s /\ m.ep = e
<1> USE DEF OpenReqOf, OpenReqFor, LeaveOf, LeaveFor
<1>1. CASE m \in [type : {"OPEN_REQ"}, sid : SocketId, proto : Protocol, ep : Endpoint]
  BY <1>1
<1>2. CASE m \in [type : {"CLOSE_REQ"}, sid : SocketId, ep : Endpoint]
  BY <1>2
<1>3. CASE m \in [type : {"BT_STATUS"}, on : BOOLEAN]
  BY <1>3
<1>4. QED
  BY <1>1, <1>2, <1>3 DEF UappMsg

\* The same of the answers to the HAL.
LEMMA HalKinds ==
  ASSUME NEW m \in HalMsg
  PROVE  /\ \A s : m \in AckOf(s) <=> m.type = "OPEN_RSP" /\ m.sid = s /\ m.ok
         /\ \A s : m \in NakOf(s) <=> m.type = "OPEN_RSP" /\ m.sid = s /\ ~m.ok
         /\ \A s : m \in DoneOf(s) <=> m.type = "CLOSE_RSP" /\ m.sid = s
<1> USE DEF AckOf, NakOf, DoneOf, OpenRsp
<1>1. CASE m \in [type : {"OPEN_RSP"}, sid : SocketId, ok : BOOLEAN]
  BY <1>1
<1>2. CASE m \in [type : {"CLOSE_RSP"}, sid : SocketId]
  BY <1>2
<1>3. QED
  BY <1>1, <1>2 DEF HalMsg

-----------------------------------------------------------------------------
(* The same of each queue, by the kinds of the messages it carries.        *)

\* What is in the pipe before and after its first message, m, is taken.
LEMMA PipeTaken ==
  ASSUME NEW m, pipe \in Seq(PipeMsg), pipe # <<>>, m = Head(pipe), pipe' = Tail(pipe)
  PROVE  /\ m \in PipeMsg /\ pipe' \in Seq(PipeMsg)
         /\ \A s \in SocketId :
              In(pipe, AskOf(s)) <=> In(pipe', AskOf(s)) \/ (m.type = "OPEN_SOCKET" /\ m.sid = s)
         /\ \A s \in SocketId :
              In(pipe, CloseOf(s)) <=> In(pipe', CloseOf(s)) \/ (m.type = "CLOSE_SOCKET" /\ m.sid = s)
         /\ \A s \in SocketId :
              Once(pipe, CloseOf(s)) =>
                Once(pipe', CloseOf(s)) /\ (m.type = "CLOSE_SOCKET" /\ m.sid = s => ~In(pipe', CloseOf(s)))
         /\ \A i \in Inst :
              In(pipe, CfmOf(i)) <=> In(pipe', CfmOf(i)) \/ (m.type = "OFFLOAD_CFM" /\ m.inst = i)
         /\ \A i \in Inst :
              Once(pipe, CfmOf(i)) =>
                Once(pipe', CfmOf(i)) /\ (m.type = "OFFLOAD_CFM" /\ m.inst = i => ~In(pipe', CfmOf(i)))
         /\ \A i \in Inst, c \in ConnId :
              In(pipe, TakenOf(i, c)) <=> In(pipe', TakenOf(i, c)) \/ (m.type = "OFFLOAD_CFM" /\ m.inst = i /\ m.conn = c /\ m.ok)
         /\ \A s \in SocketId :
              In(pipe, ResOf(s)) <=> In(pipe', ResOf(s)) \/ (m.type = "UAPP_OPEN_RES" /\ m.sid = s)
         /\ \A s \in SocketId :
              Once(pipe, ResOf(s)) =>
                Once(pipe', ResOf(s)) /\ (m.type = "UAPP_OPEN_RES" /\ m.sid = s => ~In(pipe', ResOf(s)))
         /\ \A s \in SocketId :
              In(pipe, OpenedOf(s)) <=> In(pipe', OpenedOf(s)) \/ (m.type = "UAPP_OPEN_RES" /\ m.sid = s /\ m.ok)
         /\ \A c \in ConnId :
              In(pipe, DroppedOf(c)) <=> In(pipe', DroppedOf(c)) \/ (m.type = "CLOSE_CFM" /\ m.conn = c)
         /\ \A c \in ConnId :
              Once(pipe, DroppedOf(c)) =>
                Once(pipe', DroppedOf(c)) /\ (m.type = "CLOSE_CFM" /\ m.conn = c => ~In(pipe', DroppedOf(c)))
         /\ In(pipe, NotDropped) <=> In(pipe', NotDropped) \/ (m.type = "CLOSE_CFM" /\ ~m.ok)
         /\ In(pipe, RefusedAs)
              <=> In(pipe', RefusedAs) \/ (m.type = "OFFLOAD_CFM" /\ m.conn # NoConn /\ ~m.ok)
         /\ \A i, j \in Inst :
              Ahead(pipe, CfmOf(j), CfmOf(i)) =>
                Ahead(pipe', CfmOf(j), CfmOf(i)) /\ (m.type = "OFFLOAD_CFM" /\ m.inst = i => ~In(pipe, CfmOf(j)))
<1>1. m \in PipeMsg /\ pipe' \in Seq(PipeMsg)
  BY HeadTailProperties
<1>2. /\ \A M : In(pipe, M) <=> In(pipe', M) \/ m \in M
      /\ \A M : Once(pipe, M) => Once(pipe', M) /\ (m \in M => ~In(pipe', M))
      /\ \A M, N : Ahead(pipe, M, N) => Ahead(pipe', M, N) /\ (m \in N => ~In(pipe, M))
  BY QueueLoses
<1>3. QED
  BY <1>1, <1>2, PipeKinds

\* What is in the pipe after a message m is sent.
LEMMA PipeSent ==
  ASSUME NEW m \in PipeMsg, pipe \in Seq(PipeMsg), pipe' = Append(pipe, m)
  PROVE  /\ \A s \in SocketId :
              In(pipe', AskOf(s)) <=> In(pipe, AskOf(s)) \/ (m.type = "OPEN_SOCKET" /\ m.sid = s)
         /\ \A s \in SocketId :
              In(pipe', CloseOf(s)) <=> In(pipe, CloseOf(s)) \/ (m.type = "CLOSE_SOCKET" /\ m.sid = s)
         /\ \A s \in SocketId :
              Once(pipe, CloseOf(s)) /\ ~(In(pipe, CloseOf(s)) /\ m.type = "CLOSE_SOCKET" /\ m.sid = s) => Once(pipe', CloseOf(s))
         /\ \A i \in Inst :
              In(pipe', CfmOf(i)) <=> In(pipe, CfmOf(i)) \/ (m.type = "OFFLOAD_CFM" /\ m.inst = i)
         /\ \A i \in Inst :
              Once(pipe, CfmOf(i)) /\ ~(In(pipe, CfmOf(i)) /\ m.type = "OFFLOAD_CFM" /\ m.inst = i) => Once(pipe', CfmOf(i))
         /\ \A i \in Inst, c \in ConnId :
              In(pipe', TakenOf(i, c)) <=> In(pipe, TakenOf(i, c)) \/ (m.type = "OFFLOAD_CFM" /\ m.inst = i /\ m.conn = c /\ m.ok)
         /\ \A s \in SocketId :
              In(pipe', ResOf(s)) <=> In(pipe, ResOf(s)) \/ (m.type = "UAPP_OPEN_RES" /\ m.sid = s)
         /\ \A s \in SocketId :
              Once(pipe, ResOf(s)) /\ ~(In(pipe, ResOf(s)) /\ m.type = "UAPP_OPEN_RES" /\ m.sid = s) => Once(pipe', ResOf(s))
         /\ \A s \in SocketId :
              In(pipe', OpenedOf(s)) <=> In(pipe, OpenedOf(s)) \/ (m.type = "UAPP_OPEN_RES" /\ m.sid = s /\ m.ok)
         /\ \A c \in ConnId :
              In(pipe', DroppedOf(c)) <=> In(pipe, DroppedOf(c)) \/ (m.type = "CLOSE_CFM" /\ m.conn = c)
         /\ \A c \in ConnId :
              Once(pipe, DroppedOf(c)) /\ ~(In(pipe, DroppedOf(c)) /\ m.type = "CLOSE_CFM" /\ m.conn = c) => Once(pipe', DroppedOf(c))
         /\ In(pipe', NotDropped) <=> In(pipe, NotDropped) \/ (m.type = "CLOSE_CFM" /\ ~m.ok)
         /\ In(pipe', RefusedAs)
              <=> In(pipe, RefusedAs) \/ (m.type = "OFFLOAD_CFM" /\ m.conn # NoConn /\ ~m.ok)
         /\ \A i, j \in Inst :
              Ahead(pipe, CfmOf(j), CfmOf(i)) /\ ~(m.type = "OFFLOAD_CFM" /\ m.inst = j /\ (In(pipe, CfmOf(i)) \/ (m.type = "OFFLOAD_CFM" /\ m.inst = i)))
                => Ahead(pipe', CfmOf(j), CfmOf(i))
<1>1. /\ \A M : In(pipe', M) <=> In(pipe, M) \/ m \in M
      /\ \A M : Once(pipe, M) /\ ~(In(pipe, M) /\ m \in M) => Once(pipe', M)
      /\ \A M, N : Ahead(pipe, M, N) /\ ~(m \in M /\ (In(pipe, N) \/ m \in N))
                     => Ahead(pipe', M, N)
  BY QueueGains
<1>2. QED
  BY <1>1, PipeKinds

\* What is in the queue of the BMM before and after its first message is taken.
LEMMA BmmTaken ==
  ASSUME NEW m, bmmQ \in Seq(BmmMsg), bmmQ # <<>>, m = Head(bmmQ), bmmQ' = Tail(bmmQ)
  PROVE  /\ m \in BmmMsg /\ bmmQ' \in Seq(BmmMsg)
         /\ \A i \in Inst :
              In(bmmQ, ReqOf(i)) <=> In(bmmQ', ReqOf(i)) \/ (m.type = "OFFLOAD_REQ" /\ m.inst = i)
         /\ \A i \in Inst :
              Once(bmmQ, ReqOf(i)) =>
                Once(bmmQ', ReqOf(i)) /\ (m.type = "OFFLOAD_REQ" /\ m.inst = i => ~In(bmmQ', ReqOf(i)))
         /\ \A i \in Inst, s \in SocketId :
              In(bmmQ, ReqFor(i, s)) <=> In(bmmQ', ReqFor(i, s)) \/ (m.type = "OFFLOAD_REQ" /\ m.inst = i /\ m.sid = s)
         /\ \A c \in ConnId :
              In(bmmQ, DropOf(c)) <=> In(bmmQ', DropOf(c)) \/ (m.type = "CLOSE_REQ" /\ m.conn = c)
         /\ \A c \in ConnId :
              Once(bmmQ, DropOf(c)) =>
                Once(bmmQ', DropOf(c)) /\ (m.type = "CLOSE_REQ" /\ m.conn = c => ~In(bmmQ', DropOf(c)))
         /\ \A c \in ConnId :
              In(bmmQ, ParamsOf(c)) <=> In(bmmQ', ParamsOf(c)) \/ (m.type = "SET_PARAMS_REQ" /\ m.conn = c)
         /\ \A i, j \in Inst :
              Ahead(bmmQ, ReqOf(j), ReqOf(i)) =>
                Ahead(bmmQ', ReqOf(j), ReqOf(i)) /\ (m.type = "OFFLOAD_REQ" /\ m.inst = i => ~In(bmmQ, ReqOf(j)))
<1>1. m \in BmmMsg /\ bmmQ' \in Seq(BmmMsg)
  BY HeadTailProperties
<1>2. /\ \A M : In(bmmQ, M) <=> In(bmmQ', M) \/ m \in M
      /\ \A M : Once(bmmQ, M) => Once(bmmQ', M) /\ (m \in M => ~In(bmmQ', M))
      /\ \A M, N : Ahead(bmmQ, M, N) => Ahead(bmmQ', M, N) /\ (m \in N => ~In(bmmQ, M))
  BY QueueLoses
<1>3. QED
  BY <1>1, <1>2, BmmKinds

\* What is in the queue of the BMM after a message is sent.
LEMMA BmmSent ==
  ASSUME NEW m \in BmmMsg, bmmQ \in Seq(BmmMsg), bmmQ' = Append(bmmQ, m)
  PROVE  /\ \A i \in Inst :
              In(bmmQ', ReqOf(i)) <=> In(bmmQ, ReqOf(i)) \/ (m.type = "OFFLOAD_REQ" /\ m.inst = i)
         /\ \A i \in Inst :
              Once(bmmQ, ReqOf(i)) /\ ~(In(bmmQ, ReqOf(i)) /\ m.type = "OFFLOAD_REQ" /\ m.inst = i) => Once(bmmQ', ReqOf(i))
         /\ \A i \in Inst, s \in SocketId :
              In(bmmQ', ReqFor(i, s)) <=> In(bmmQ, ReqFor(i, s)) \/ (m.type = "OFFLOAD_REQ" /\ m.inst = i /\ m.sid = s)
         /\ \A c \in ConnId :
              In(bmmQ', DropOf(c)) <=> In(bmmQ, DropOf(c)) \/ (m.type = "CLOSE_REQ" /\ m.conn = c)
         /\ \A c \in ConnId :
              Once(bmmQ, DropOf(c)) /\ ~(In(bmmQ, DropOf(c)) /\ m.type = "CLOSE_REQ" /\ m.conn = c) => Once(bmmQ', DropOf(c))
         /\ \A c \in ConnId :
              In(bmmQ', ParamsOf(c)) <=> In(bmmQ, ParamsOf(c)) \/ (m.type = "SET_PARAMS_REQ" /\ m.conn = c)
         /\ \A i, j \in Inst :
              Ahead(bmmQ, ReqOf(j), ReqOf(i)) /\ ~(m.type = "OFFLOAD_REQ" /\ m.inst = j /\ (In(bmmQ, ReqOf(i)) \/ (m.type = "OFFLOAD_REQ" /\ m.inst = i)))
                => Ahead(bmmQ', ReqOf(j), ReqOf(i))
<1>1. /\ \A M : In(bmmQ', M) <=> In(bmmQ, M) \/ m \in M
      /\ \A M : Once(bmmQ, M) /\ ~(In(bmmQ, M) /\ m \in M) => Once(bmmQ', M)
      /\ \A M, N : Ahead(bmmQ, M, N) /\ ~(m \in M /\ (In(bmmQ, N) \/ m \in N))
                     => Ahead(bmmQ', M, N)
  BY QueueGains
<1>2. QED
  BY <1>1, BmmKinds

\* The same of the queue of the watch processor.
LEMMA UappTaken ==
  ASSUME NEW m, uappQ \in Seq(UappMsg), uappQ # <<>>, m = Head(uappQ), uappQ' = Tail(uappQ)
  PROVE  /\ m \in UappMsg /\ uappQ' \in Seq(UappMsg)
         /\ \A s \in SocketId :
              In(uappQ, OpenReqOf(s)) <=> In(uappQ', OpenReqOf(s)) \/ (m.type = "OPEN_REQ" /\ m.sid = s)
         /\ \A s \in SocketId :
              Once(uappQ, OpenReqOf(s)) =>
                Once(uappQ', OpenReqOf(s)) /\ (m.type = "OPEN_REQ" /\ m.sid = s => ~In(uappQ', OpenReqOf(s)))
         /\ \A s \in SocketId, e \in Endpoint :
              In(uappQ, OpenReqFor(s, e)) <=> In(uappQ', OpenReqFor(s, e)) \/ (m.type = "OPEN_REQ" /\ m.sid = s /\ m.ep = e)
         /\ \A s \in SocketId :
              In(uappQ, LeaveOf(s)) <=> In(uappQ', LeaveOf(s)) \/ (m.type = "CLOSE_REQ" /\ m.sid = s)
         /\ \A s \in SocketId :
              Once(uappQ, LeaveOf(s)) =>
                Once(uappQ', LeaveOf(s)) /\ (m.type = "CLOSE_REQ" /\ m.sid = s => ~In(uappQ', LeaveOf(s)))
         /\ \A s \in SocketId, e \in Endpoint :
              In(uappQ, LeaveFor(s, e)) <=> In(uappQ', LeaveFor(s, e)) \/ (m.type = "CLOSE_REQ" /\ m.sid = s /\ m.ep = e)
         /\ \A s \in SocketId :
              Ahead(uappQ, LeaveOf(s), OpenReqOf(s)) =>
                Ahead(uappQ', LeaveOf(s), OpenReqOf(s)) /\ (m.type = "OPEN_REQ" /\ m.sid = s => ~In(uappQ, LeaveOf(s)))
<1>1. m \in UappMsg /\ uappQ' \in Seq(UappMsg)
  BY HeadTailProperties
<1>2. /\ \A M : In(uappQ, M) <=> In(uappQ', M) \/ m \in M
      /\ \A M : Once(uappQ, M) => Once(uappQ', M) /\ (m \in M => ~In(uappQ', M))
      /\ \A M, N : Ahead(uappQ, M, N) => Ahead(uappQ', M, N) /\ (m \in N => ~In(uappQ, M))
  BY QueueLoses
<1>3. QED
  BY <1>1, <1>2, UappKinds

\* The same of the queue of the watch processor.
LEMMA UappSent ==
  ASSUME NEW m \in UappMsg, uappQ \in Seq(UappMsg), uappQ' = Append(uappQ, m)
  PROVE  /\ \A s \in SocketId :
              In(uappQ', OpenReqOf(s)) <=> In(uappQ, OpenReqOf(s)) \/ (m.type = "OPEN_REQ" /\ m.sid = s)
         /\ \A s \in SocketId :
              Once(uappQ, OpenReqOf(s)) /\ ~(In(uappQ, OpenReqOf(s)) /\ m.type = "OPEN_REQ" /\ m.sid = s) => Once(uappQ', OpenReqOf(s))
         /\ \A s \in SocketId, e \in Endpoint :
              In(uappQ', OpenReqFor(s, e)) <=> In(uappQ, OpenReqFor(s, e)) \/ (m.type = "OPEN_REQ" /\ m.sid = s /\ m.ep = e)
         /\ \A s \in SocketId :
              In(uappQ', LeaveOf(s)) <=> In(uappQ, LeaveOf(s)) \/ (m.type = "CLOSE_REQ" /\ m.sid = s)
         /\ \A s \in SocketId :
              Once(uappQ, LeaveOf(s)) /\ ~(In(uappQ, LeaveOf(s)) /\ m.type = "CLOSE_REQ" /\ m.sid = s) => Once(uappQ', LeaveOf(s))
         /\ \A s \in SocketId, e \in Endpoint :
              In(uappQ', LeaveFor(s, e)) <=> In(uappQ, LeaveFor(s, e)) \/ (m.type = "CLOSE_REQ" /\ m.sid = s /\ m.ep = e)
         /\ \A s \in SocketId :
              Ahead(uappQ, LeaveOf(s), OpenReqOf(s)) /\ ~(m.type = "CLOSE_REQ" /\ m.sid = s /\ (In(uappQ, OpenReqOf(s)) \/ (m.type = "OPEN_REQ" /\ m.sid = s)))
                => Ahead(uappQ', LeaveOf(s), OpenReqOf(s))
<1>1. /\ \A M : In(uappQ', M) <=> In(uappQ, M) \/ m \in M
      /\ \A M : Once(uappQ, M) /\ ~(In(uappQ, M) /\ m \in M) => Once(uappQ', M)
      /\ \A M, N : Ahead(uappQ, M, N) /\ ~(m \in M /\ (In(uappQ, N) \/ m \in N))
                     => Ahead(uappQ', M, N)
  BY QueueGains
<1>2. QED
  BY <1>1, UappKinds

\* The same of the queue of the HAL.
LEMMA HalTaken ==
  ASSUME NEW m, halQ \in Seq(HalMsg), halQ # <<>>, m = Head(halQ), halQ' = Tail(halQ)
  PROVE  /\ m \in HalMsg /\ halQ' \in Seq(HalMsg)
         /\ \A s \in SocketId :
              In(halQ, AckOf(s)) <=> In(halQ', AckOf(s)) \/ (m.type = "OPEN_RSP" /\ m.sid = s /\ m.ok)
         /\ \A s \in SocketId :
              Once(halQ, AckOf(s)) =>
                Once(halQ', AckOf(s)) /\ (m.type = "OPEN_RSP" /\ m.sid = s /\ m.ok => ~In(halQ', AckOf(s)))
         /\ \A s \in SocketId :
              In(halQ, NakOf(s)) <=> In(halQ', NakOf(s)) \/ (m.type = "OPEN_RSP" /\ m.sid = s /\ ~m.ok)
         /\ \A s \in SocketId :
              In(halQ, DoneOf(s)) <=> In(halQ', DoneOf(s)) \/ (m.type = "CLOSE_RSP" /\ m.sid = s)
<1>1. m \in HalMsg /\ halQ' \in Seq(HalMsg)
  BY HeadTailProperties
<1>2. /\ \A M : In(halQ, M) <=> In(halQ', M) \/ m \in M
      /\ \A M : Once(halQ, M) => Once(halQ', M) /\ (m \in M => ~In(halQ', M))
      /\ \A M, N : Ahead(halQ, M, N) => Ahead(halQ', M, N) /\ (m \in N => ~In(halQ, M))
  BY QueueLoses
<1>3. QED
  BY <1>1, <1>2, HalKinds

\* The same of the queue of the HAL.
LEMMA HalSent ==
  ASSUME NEW m \in HalMsg, halQ \in Seq(HalMsg), halQ' = Append(halQ, m)
  PROVE  /\ \A s \in SocketId :
              In(halQ', AckOf(s)) <=> In(halQ, AckOf(s)) \/ (m.type = "OPEN_RSP" /\ m.sid = s /\ m.ok)
         /\ \A s \in SocketId :
              Once(halQ, AckOf(s)) /\ ~(In(halQ, AckOf(s)) /\ m.type = "OPEN_RSP" /\ m.sid = s /\ m.ok) => Once(halQ', AckOf(s))
         /\ \A s \in SocketId :
              In(halQ', NakOf(s)) <=> In(halQ, NakOf(s)) \/ (m.type = "OPEN_RSP" /\ m.sid = s /\ ~m.ok)
         /\ \A s \in SocketId :
              In(halQ', DoneOf(s)) <=> In(halQ, DoneOf(s)) \/ (m.type = "CLOSE_RSP" /\ m.sid = s)
<1>1. /\ \A M : In(halQ', M) <=> In(halQ, M) \/ m \in M
      /\ \A M : Once(halQ, M) /\ ~(In(halQ, M) /\ m \in M) => Once(halQ', M)
      /\ \A M, N : Ahead(halQ, M, N) /\ ~(m \in M /\ (In(halQ, N) \/ m \in N))
                     => Ahead(halQ', M, N)
  BY QueueGains
<1>2. QED
  BY <1>1, HalKinds
-----------------------------------------------------------------------------
(* What the earlier invariants give.                                       *)

\* A busy instance is the only busy one with its socket, and the scan by
\* socket id finds it.
LEMMA OnlyHolder ==
  ASSUME Base
  PROVE  /\ \A i \in Inst : state[i] # "Idle" => socketId[i] \in SocketId
         /\ \A i, j \in Inst :
              state[i] # "Idle" /\ state[j] # "Idle" /\ socketId[i] = socketId[j] => i = j
         /\ \A i \in Inst :
              state[i] # "Idle" =>
                /\ InstWithSocketId(socketId[i]) # {}
                /\ Min(InstWithSocketId(socketId[i])) = i
<1>1. \A i \in Inst : state[i] # "Idle" => socketId[i] \in SocketId
  BY DEF Base, TypeOK, MgrTypeOK
<1>2. ASSUME NEW i \in Inst, NEW j \in Inst, state[i] # "Idle", state[j] # "Idle",
             socketId[i] = socketId[j]
      PROVE  i = j
  <2>1. HeldOnce(socketId[i])
    BY <1>1, <1>2 DEF Base, OneHolder
  <2>2. i \in HeldBy(socketId[i]) /\ j \in HeldBy(socketId[i])
    BY <1>2 DEF HeldBy, Busy
  <2>3. QED
    BY <2>1, <2>2 DEF HeldOnce, AtMostOne
<1>3. ASSUME NEW i \in Inst, state[i] # "Idle"
      PROVE  /\ InstWithSocketId(socketId[i]) # {}
             /\ Min(InstWithSocketId(socketId[i])) = i
  BY <1>3 DEF Base, SocketIdLookup, Busy, InstWithSocketId
<1>4. QED
  BY <1>1, <1>2, <1>3

\* OneHolder in terms of what is in the queues.
LEMMA WhereLifeIs ==
  ASSUME Base, NEW s \in SocketId
  PROVE  /\ hal[s] = "closed" <=>
              /\ ~In(pipe, AskOf(s))
              /\ ~\E i \in Inst : state[i] # "Idle" /\ socketId[i] = s
              /\ ~In(halQ, NakOf(s)) /\ ~In(halQ, DoneOf(s))
         /\ In(pipe, AskOf(s)) =>
              /\ ~In(halQ, NakOf(s)) /\ ~In(halQ, DoneOf(s))
              /\ \A i \in Inst : socketId[i] = s => state[i] = "Idle"
         /\ In(halQ, NakOf(s)) \/ In(halQ, DoneOf(s)) =>
              \A i \in Inst : socketId[i] = s => state[i] = "Idle"
<1>1. HeldOnce(s)
  BY DEF Base, OneHolder
<1>2. AskedAt(s) # {} <=> In(pipe, AskOf(s))
  <2>1. \A n \in DOMAIN pipe : pipe[n] \in PipeMsg
    BY LenProperties, ElementOfSeq DEF Base, TypeOK, ChannelsTypeOK
  <2>2. QED
    BY <2>1, PipeKinds DEF AskedAt, In
<1>3. AnsweredAt(s) # {} <=> In(halQ, NakOf(s)) \/ In(halQ, DoneOf(s))
  <2>1. \A n \in DOMAIN halQ : halQ[n] \in HalMsg
    BY LenProperties, ElementOfSeq DEF Base, TypeOK, ChannelsTypeOK
  <2>2. \A n \in DOMAIN halQ :
          IsFinal(halQ[n]) /\ halQ[n].sid = s
            <=> halQ[n] \in NakOf(s) \/ halQ[n] \in DoneOf(s)
    BY <2>1, HalKinds DEF IsFinal
  <2>3. QED
    BY <2>2 DEF AnsweredAt, In
<1>4. HeldBy(s) # {} <=> \E i \in Inst : state[i] # "Idle" /\ socketId[i] = s
  BY DEF HeldBy, Busy
<1>5. QED
  BY <1>1, <1>2, <1>3, <1>4 DEF HeldOnce

\* The rows of the table for the events of a patient HAL.
LEMMA Moves ==
  /\ HasRow("Idle", "OFFLOAD_REQ")
  /\ NextState("Idle", "OFFLOAD_REQ") = "OffloadReq"
  /\ HasRow("OffloadReq", "OFFLOAD_TO_MICROSTACK_SUCCESS")
  /\ NextState("OffloadReq", "OFFLOAD_TO_MICROSTACK_SUCCESS") = "OffloadToMicrostackSuccess"
  /\ HasRow("OffloadReq", "OFFLOAD_TO_MICROSTACK_FAILURE")
  /\ NextState("OffloadReq", "OFFLOAD_TO_MICROSTACK_FAILURE") = "OffloadFailure"
  /\ HasRow("OffloadToMicroappSuccess", "UNOFFLOAD_REQ")
  /\ NextState("OffloadToMicroappSuccess", "UNOFFLOAD_REQ") = "UnOffloadReqFromHAL"
  /\ HasRow("OffloadToMicroappFailure", "UNOFFLOAD_FROM_MICROSTACK_SUCCESS")
  /\ NextState("OffloadToMicroappFailure", "UNOFFLOAD_FROM_MICROSTACK_SUCCESS")
       = "OffloadFailure"
  /\ HasRow("UnOffloadReqToMicrostack", "UNOFFLOAD_FROM_MICROSTACK_SUCCESS")
  /\ NextState("UnOffloadReqToMicrostack", "UNOFFLOAD_FROM_MICROSTACK_SUCCESS")
       = "UnoffloadSuccess"
  /\ HasRow("OffloadToMicrostackSuccess", "OFFLOAD_TO_MICROAPP_SUCCESS")
  /\ NextState("OffloadToMicrostackSuccess", "OFFLOAD_TO_MICROAPP_SUCCESS")
       = "OffloadToMicroappSuccess"
  /\ HasRow("OffloadToMicrostackSuccess", "OFFLOAD_TO_MICROAPP_FAILURE")
  /\ NextState("OffloadToMicrostackSuccess", "OFFLOAD_TO_MICROAPP_FAILURE")
       = "OffloadToMicroappFailure"
<1> DEFINE To(s, e, t) == HasRow(s, e) /\ NextState(s, e) = t
<1>1. ASSUME NEW s, NEW e, NEW t, Row(s, e, t) \in StateTable,
             \A r \in StateTable : r.from = s /\ r.evt = e => r.to = t
      PROVE  To(s, e, t)
  <2>1. HasRow(s, e)
    BY <1>1 DEF HasRow, Row
  <2>2. QED
    BY <1>1, <2>1, RowTaken
<1> HIDE DEF To
<1>2. To("Idle", "OFFLOAD_REQ", "OffloadReq")
  BY <1>1 DEF StateTable, Row
<1>3. To("OffloadReq", "OFFLOAD_TO_MICROSTACK_SUCCESS", "OffloadToMicrostackSuccess")
  BY <1>1 DEF StateTable, Row
<1>4. To("OffloadReq", "OFFLOAD_TO_MICROSTACK_FAILURE", "OffloadFailure")
  BY <1>1 DEF StateTable, Row
<1>5. To("OffloadToMicroappSuccess", "UNOFFLOAD_REQ", "UnOffloadReqFromHAL")
  BY <1>1 DEF StateTable, Row
<1>6. To("OffloadToMicroappFailure", "UNOFFLOAD_FROM_MICROSTACK_SUCCESS", "OffloadFailure")
  BY <1>1 DEF StateTable, Row
<1>7. To("UnOffloadReqToMicrostack", "UNOFFLOAD_FROM_MICROSTACK_SUCCESS", "UnoffloadSuccess")
  BY <1>1 DEF StateTable, Row
<1>8. To("OffloadToMicrostackSuccess", "OFFLOAD_TO_MICROAPP_SUCCESS", "OffloadToMicroappSuccess")
  BY <1>1 DEF StateTable, Row
<1>9. To("OffloadToMicrostackSuccess", "OFFLOAD_TO_MICROAPP_FAILURE", "OffloadToMicroappFailure")
  BY <1>1 DEF StateTable, Row
<1>10. QED
  BY <1>2, <1>3, <1>4, <1>5, <1>6, <1>7, <1>8, <1>9 DEF To

\* Where a machine rests after each of them.
LEMMA Rests ==
  /\ \A t \in {"OffloadReq"} \cup Known : Rest(t) = t
  /\ Rest("OffloadFailure") = "Idle"
  /\ Rest("UnoffloadSuccess") = "Idle"
  /\ Rest("UnOffloadReqFromHAL") = "UnOffloadReqToMicrostack"
<1>1. NextState("OffloadFailure", "OFFLOAD_INSTANCE_FREE") = "Idle"
  BY RowTaken DEF HasRow, StateTable, Row
<1>2. NextState("UnoffloadSuccess", "OFFLOAD_INSTANCE_FREE") = "Idle"
  BY RowTaken DEF HasRow, StateTable, Row
<1>3. NextState("UnOffloadReqFromHAL", "UNOFFLOAD_FROM_MICROAPP_SUCCESS")
        = "UnOffloadReqToMicrostack"
  BY RowTaken DEF HasRow, StateTable, Row
<1>4. QED
  BY <1>1, <1>2, <1>3 DEF Rest, Known, Open, Closing
\* A message of a narrower kind is one of the wider.
LEMMA Wider ==
  /\ \A i \in Inst, s \in SocketId : In(bmmQ, ReqFor(i, s)) => In(bmmQ, ReqOf(i))
  /\ \A i \in Inst, c \in ConnId : In(pipe, TakenOf(i, c)) => In(pipe, CfmOf(i))
  /\ \A s \in SocketId, e \in Endpoint : In(uappQ, OpenReqFor(s, e)) => In(uappQ, OpenReqOf(s))
  /\ \A s \in SocketId : In(pipe, OpenedOf(s)) => In(pipe, ResOf(s))
  /\ \A s \in SocketId, e \in Endpoint : In(uappQ, LeaveFor(s, e)) => In(uappQ, LeaveOf(s))
<1>1. \A i \in Inst, s \in SocketId : ReqFor(i, s) \subseteq ReqOf(i)
  BY DEF ReqFor, ReqOf
<1>2. \A i \in Inst, c \in ConnId : TakenOf(i, c) \subseteq CfmOf(i)
  BY DEF TakenOf, CfmOf, OffloadCfm
<1>3. \A s \in SocketId, e \in Endpoint : OpenReqFor(s, e) \subseteq OpenReqOf(s)
  BY DEF OpenReqFor, OpenReqOf
<1>4. \A s \in SocketId : OpenedOf(s) \subseteq ResOf(s)
  BY DEF OpenedOf, ResOf, OpenRes
<1>5. \A s \in SocketId, e \in Endpoint : LeaveFor(s, e) \subseteq LeaveOf(s)
  BY DEF LeaveFor, LeaveOf
<1>6. QED
  BY <1>1, <1>2, <1>3, <1>4, <1>5, InSubset

-----------------------------------------------------------------------------
(* A step that leaves the messages of a kind alone.                        *)

AsksKept == \A s \in SocketId : In(pipe', AskOf(s)) <=> In(pipe, AskOf(s))
ClosesKept ==
  \A s \in SocketId :
    /\ In(pipe', CloseOf(s)) <=> In(pipe, CloseOf(s))
    /\ Once(pipe, CloseOf(s)) => Once(pipe', CloseOf(s))
CfmsKept ==
  /\ \A i \in Inst :
       /\ In(pipe', CfmOf(i)) <=> In(pipe, CfmOf(i))
       /\ Once(pipe, CfmOf(i)) => Once(pipe', CfmOf(i))
       /\ \A c \in ConnId : In(pipe', TakenOf(i, c)) <=> In(pipe, TakenOf(i, c))
  /\ \A i, j \in Inst : Ahead(pipe, CfmOf(j), CfmOf(i)) => Ahead(pipe', CfmOf(j), CfmOf(i))
  /\ In(pipe', RefusedAs) <=> In(pipe, RefusedAs)
RessKept ==
  \A s \in SocketId :
    /\ In(pipe', ResOf(s)) <=> In(pipe, ResOf(s))
    /\ Once(pipe, ResOf(s)) => Once(pipe', ResOf(s))
    /\ In(pipe', OpenedOf(s)) <=> In(pipe, OpenedOf(s))
DroppedKept ==
  /\ \A c \in ConnId :
       /\ In(pipe', DroppedOf(c)) <=> In(pipe, DroppedOf(c))
       /\ Once(pipe, DroppedOf(c)) => Once(pipe', DroppedOf(c))
  /\ In(pipe', NotDropped) <=> In(pipe, NotDropped)
ReqsKept ==
  /\ \A i \in Inst :
       /\ In(bmmQ', ReqOf(i)) <=> In(bmmQ, ReqOf(i))
       /\ Once(bmmQ, ReqOf(i)) => Once(bmmQ', ReqOf(i))
       /\ \A s \in SocketId : In(bmmQ', ReqFor(i, s)) <=> In(bmmQ, ReqFor(i, s))
  /\ \A i, j \in Inst : Ahead(bmmQ, ReqOf(j), ReqOf(i)) => Ahead(bmmQ', ReqOf(j), ReqOf(i))
DropsKept ==
  \A c \in ConnId :
    /\ In(bmmQ', DropOf(c)) <=> In(bmmQ, DropOf(c))
    /\ Once(bmmQ, DropOf(c)) => Once(bmmQ', DropOf(c))
ParamsKept == \A c \in ConnId : In(bmmQ', ParamsOf(c)) <=> In(bmmQ, ParamsOf(c))
OpenReqsKept ==
  \A s \in SocketId :
    /\ In(uappQ', OpenReqOf(s)) <=> In(uappQ, OpenReqOf(s))
    /\ Once(uappQ, OpenReqOf(s)) => Once(uappQ', OpenReqOf(s))
    /\ \A e \in Endpoint : In(uappQ', OpenReqFor(s, e)) <=> In(uappQ, OpenReqFor(s, e))
LeavesKept ==
  \A s \in SocketId :
    /\ In(uappQ', LeaveOf(s)) <=> In(uappQ, LeaveOf(s))
    /\ Once(uappQ, LeaveOf(s)) => Once(uappQ', LeaveOf(s))
    /\ \A e \in Endpoint : In(uappQ', LeaveFor(s, e)) <=> In(uappQ, LeaveFor(s, e))
AcksKept ==
  \A s \in SocketId :
    /\ In(halQ', AckOf(s)) <=> In(halQ, AckOf(s))
    /\ Once(halQ, AckOf(s)) => Once(halQ', AckOf(s))
FinalsKept ==
  \A s \in SocketId :
    /\ In(halQ', NakOf(s)) <=> In(halQ, NakOf(s))
    /\ In(halQ', DoneOf(s)) <=> In(halQ, DoneOf(s))

PipeKept == AsksKept /\ ClosesKept /\ CfmsKept /\ RessKept /\ DroppedKept
BmmQKept == ReqsKept /\ DropsKept /\ ParamsKept
UappQKept == OpenReqsKept /\ LeavesKept /\ \A s \in SocketId :
               Ahead(uappQ, LeaveOf(s), OpenReqOf(s)) => Ahead(uappQ', LeaveOf(s), OpenReqOf(s))
HalQKept == AcksKept /\ FinalsKept

\* A queue that does not change keeps everything.
LEMMA QueuesKept ==
  /\ pipe' = pipe => PipeKept
  /\ bmmQ' = bmmQ => BmmQKept
  /\ uappQ' = uappQ => UappQKept
  /\ halQ' = halQ => HalQKept
<1> USE DEF AsksKept, ClosesKept, CfmsKept, RessKept, DroppedKept, ReqsKept, DropsKept,
            ParamsKept, OpenReqsKept, LeavesKept, AcksKept, FinalsKept
<1>1. pipe' = pipe => PipeKept
  BY DEF PipeKept
<1>2. bmmQ' = bmmQ => BmmQKept
  BY DEF BmmQKept
<1>3. uappQ' = uappQ => UappQKept
  BY DEF UappQKept
<1>4. halQ' = halQ => HalQKept
  BY DEF HalQKept
<1>5. QED
  BY <1>1, <1>2, <1>3, <1>4

\* The message read from the pipe was the only one of its kind about its
\* socket, instance or connection; all others stay.
LEMMA PipeRead ==
  ASSUME Base, Life, NEW t, Receive(t), NEW m, m = Head(pipe)
  PROVE  /\ m \in PipeMsg /\ m.type = t
         /\ t # "OPEN_SOCKET" => AsksKept
         /\ t # "CLOSE_SOCKET" => ClosesKept
         /\ t # "OFFLOAD_CFM" => CfmsKept
         /\ t # "UAPP_OPEN_RES" => RessKept
         /\ t # "CLOSE_CFM" => DroppedKept
         /\ t = "OPEN_SOCKET" =>
              \A s \in SocketId : In(pipe, AskOf(s)) <=> In(pipe', AskOf(s)) \/ s = m.sid
         /\ t = "CLOSE_SOCKET" =>
              \A s \in SocketId :
                /\ Once(pipe', CloseOf(s))
                /\ In(pipe, CloseOf(s)) <=> In(pipe', CloseOf(s)) \/ s = m.sid
                /\ s = m.sid => ~In(pipe', CloseOf(s))
         /\ t = "OFFLOAD_CFM" =>
              /\ \A i \in Inst :
                   /\ Once(pipe', CfmOf(i))
                   /\ In(pipe, CfmOf(i)) <=> In(pipe', CfmOf(i)) \/ i = m.inst
                   /\ i = m.inst => ~In(pipe', CfmOf(i))
                   /\ \A c \in ConnId :
                        In(pipe, TakenOf(i, c))
                          <=> In(pipe', TakenOf(i, c)) \/ (i = m.inst /\ c = m.conn /\ m.ok)
              /\ \A i, j \in Inst :
                   Ahead(pipe, CfmOf(j), CfmOf(i)) =>
                     /\ Ahead(pipe', CfmOf(j), CfmOf(i))
                     /\ i = m.inst => ~In(pipe, CfmOf(j))
              /\ ~In(pipe', RefusedAs) /\ (m.ok \/ m.conn = NoConn)
         /\ t = "UAPP_OPEN_RES" =>
              \A s \in SocketId :
                /\ Once(pipe', ResOf(s))
                /\ In(pipe, ResOf(s)) <=> In(pipe', ResOf(s)) \/ s = m.sid
                /\ s = m.sid => ~In(pipe', ResOf(s))
                /\ In(pipe, OpenedOf(s)) <=> In(pipe', OpenedOf(s)) \/ (s = m.sid /\ m.ok)
         /\ t = "CLOSE_CFM" =>
              /\ \A c \in ConnId :
                   /\ Once(pipe', DroppedOf(c))
                   /\ In(pipe, DroppedOf(c)) <=> In(pipe', DroppedOf(c)) \/ c = m.conn
                   /\ c = m.conn => ~In(pipe', DroppedOf(c))
              /\ m.ok /\ ~In(pipe', NotDropped)
<1>1. /\ pipe \in Seq(PipeMsg) /\ pipe # <<>> /\ m = Head(pipe) /\ pipe' = Tail(pipe)
      /\ m.type = t
  BY DEF Receive, Base, TypeOK, ChannelsTypeOK
<1>2. /\ \A s \in SocketId : Once(pipe, CloseOf(s)) /\ Once(pipe, ResOf(s))
      /\ \A i \in Inst : Once(pipe, CfmOf(i))
      /\ ~In(pipe, RefusedAs)
      /\ \A c \in ConnId : Once(pipe, DroppedOf(c))
      /\ ~In(pipe, NotDropped)
  BY DEF Life, HalKnows, Answers, Requests, Drops
<1> HIDE DEF Life, Base
<1>3. QED
  BY ONLY <1>1, <1>2, PipeTaken DEF AsksKept, ClosesKept, CfmsKept, RessKept, DroppedKept

\* A message sent to the pipe adds its kind only.
LEMMA PipePosted ==
  ASSUME Base, NEW m \in PipeMsg, pipe' = Append(pipe, m)
  PROVE  /\ m.type # "OPEN_SOCKET" => AsksKept
         /\ m.type # "CLOSE_SOCKET" => ClosesKept
         /\ m.type # "OFFLOAD_CFM" => CfmsKept
         /\ m.type # "UAPP_OPEN_RES" \/ m.sid \notin SocketId => RessKept
         /\ m.type # "CLOSE_CFM" => DroppedKept
         /\ m.type = "OPEN_SOCKET" =>
              \A s \in SocketId : In(pipe', AskOf(s)) <=> In(pipe, AskOf(s)) \/ s = m.sid
         /\ m.type = "CLOSE_SOCKET" =>
              \A s \in SocketId :
                /\ In(pipe', CloseOf(s)) <=> In(pipe, CloseOf(s)) \/ s = m.sid
                /\ Once(pipe, CloseOf(s)) /\ ~(s = m.sid /\ In(pipe, CloseOf(s)))
                     => Once(pipe', CloseOf(s))
         /\ m.type = "OFFLOAD_CFM" =>
              /\ \A i \in Inst :
                   /\ In(pipe', CfmOf(i)) <=> In(pipe, CfmOf(i)) \/ i = m.inst
                   /\ Once(pipe, CfmOf(i)) /\ ~(i = m.inst /\ In(pipe, CfmOf(i)))
                        => Once(pipe', CfmOf(i))
                   /\ \A c \in ConnId :
                        In(pipe', TakenOf(i, c))
                          <=> In(pipe, TakenOf(i, c)) \/ (i = m.inst /\ c = m.conn /\ m.ok)
              /\ \A i, j \in Inst :
                   Ahead(pipe, CfmOf(j), CfmOf(i))
                   /\ ~(j = m.inst /\ (In(pipe, CfmOf(i)) \/ i = m.inst))
                     => Ahead(pipe', CfmOf(j), CfmOf(i))
              /\ m.ok \/ m.conn = NoConn => (In(pipe', RefusedAs) <=> In(pipe, RefusedAs))
         /\ m.type = "UAPP_OPEN_RES" =>
              \A s \in SocketId :
                /\ In(pipe', ResOf(s)) <=> In(pipe, ResOf(s)) \/ s = m.sid
                /\ Once(pipe, ResOf(s)) /\ ~(s = m.sid /\ In(pipe, ResOf(s)))
                     => Once(pipe', ResOf(s))
                /\ In(pipe', OpenedOf(s)) <=> In(pipe, OpenedOf(s)) \/ (s = m.sid /\ m.ok)
         /\ m.type = "CLOSE_CFM" =>
              /\ \A c \in ConnId :
                   /\ In(pipe', DroppedOf(c)) <=> In(pipe, DroppedOf(c)) \/ c = m.conn
                   /\ Once(pipe, DroppedOf(c)) /\ ~(c = m.conn /\ In(pipe, DroppedOf(c)))
                        => Once(pipe', DroppedOf(c))
              /\ m.ok => (In(pipe', NotDropped) <=> In(pipe, NotDropped))
<1>1. pipe \in Seq(PipeMsg) /\ m \in PipeMsg /\ pipe' = Append(pipe, m)
  BY DEF Base, TypeOK, ChannelsTypeOK
<1>2. QED
  BY ONLY <1>1, PipeSent DEF AsksKept, ClosesKept, CfmsKept, RessKept, DroppedKept

\* The same of the queue of the BMM: reading it,
LEMMA BmmQRead ==
  ASSUME Base, Life, NEW t, BmmReceive(t), NEW m, m = Head(bmmQ)
  PROVE  /\ m \in BmmMsg /\ m.type = t
         /\ t # "OFFLOAD_REQ" => ReqsKept
         /\ t # "CLOSE_REQ" => DropsKept
         /\ t # "SET_PARAMS_REQ" => ParamsKept
         /\ t = "OFFLOAD_REQ" =>
              /\ \A i \in Inst :
                   /\ Once(bmmQ', ReqOf(i))
                   /\ In(bmmQ, ReqOf(i)) <=> In(bmmQ', ReqOf(i)) \/ i = m.inst
                   /\ i = m.inst => ~In(bmmQ', ReqOf(i))
                   /\ \A s \in SocketId :
                        In(bmmQ, ReqFor(i, s))
                          <=> In(bmmQ', ReqFor(i, s)) \/ (i = m.inst /\ s = m.sid)
              /\ \A i, j \in Inst :
                   Ahead(bmmQ, ReqOf(j), ReqOf(i)) =>
                     /\ Ahead(bmmQ', ReqOf(j), ReqOf(i))
                     /\ i = m.inst => ~In(bmmQ, ReqOf(j))
         /\ t = "CLOSE_REQ" =>
              \A c \in ConnId :
                /\ Once(bmmQ', DropOf(c))
                /\ In(bmmQ, DropOf(c)) <=> In(bmmQ', DropOf(c)) \/ c = m.conn
                /\ c = m.conn => ~In(bmmQ', DropOf(c))
         /\ t = "SET_PARAMS_REQ" =>
              \A c \in ConnId :
                In(bmmQ, ParamsOf(c)) <=> In(bmmQ', ParamsOf(c)) \/ c = m.conn
<1>1. /\ bmmQ \in Seq(BmmMsg) /\ bmmQ # <<>> /\ m = Head(bmmQ) /\ bmmQ' = Tail(bmmQ)
      /\ m.type = t
  BY DEF BmmReceive, Base, TypeOK, ChannelsTypeOK
<1>2. /\ \A i \in Inst : Once(bmmQ, ReqOf(i))
      /\ \A c \in ConnId : Once(bmmQ, DropOf(c))
  BY DEF Life, Requests, Drops
<1>3. QED
  BY ONLY <1>1, <1>2, BmmTaken DEF ReqsKept, DropsKept, ParamsKept

\* and sending to it.
LEMMA BmmQPosted ==
  ASSUME Base, NEW m \in BmmMsg, bmmQ' = Append(bmmQ, m)
  PROVE  /\ m.type # "OFFLOAD_REQ" => ReqsKept
         /\ m.type # "CLOSE_REQ" => DropsKept
         /\ m.type # "SET_PARAMS_REQ" => ParamsKept
         /\ m.type = "OFFLOAD_REQ" =>
              /\ \A i \in Inst :
                   /\ In(bmmQ', ReqOf(i)) <=> In(bmmQ, ReqOf(i)) \/ i = m.inst
                   /\ Once(bmmQ, ReqOf(i)) /\ ~(i = m.inst /\ In(bmmQ, ReqOf(i)))
                        => Once(bmmQ', ReqOf(i))
                   /\ \A s \in SocketId :
                        In(bmmQ', ReqFor(i, s))
                          <=> In(bmmQ, ReqFor(i, s)) \/ (i = m.inst /\ s = m.sid)
              /\ \A i, j \in Inst :
                   Ahead(bmmQ, ReqOf(j), ReqOf(i))
                   /\ ~(j = m.inst /\ (In(bmmQ, ReqOf(i)) \/ i = m.inst))
                     => Ahead(bmmQ', ReqOf(j), ReqOf(i))
         /\ m.type = "CLOSE_REQ" =>
              \A c \in ConnId :
                /\ In(bmmQ', DropOf(c)) <=> In(bmmQ, DropOf(c)) \/ c = m.conn
                /\ Once(bmmQ, DropOf(c)) /\ ~(c = m.conn /\ In(bmmQ, DropOf(c)))
                     => Once(bmmQ', DropOf(c))
         /\ m.type = "SET_PARAMS_REQ" =>
              \A c \in ConnId :
                In(bmmQ', ParamsOf(c)) <=> In(bmmQ, ParamsOf(c)) \/ c = m.conn
<1>1. bmmQ \in Seq(BmmMsg) /\ m \in BmmMsg /\ bmmQ' = Append(bmmQ, m)
  BY DEF Base, TypeOK, ChannelsTypeOK
<1>2. QED
  BY ONLY <1>1, BmmSent DEF ReqsKept, DropsKept, ParamsKept

\* The same of the queue of the watch processor.
LEMMA UappQRead ==
  ASSUME Base, Life, NEW t, UappReceive(t), NEW m, m = Head(uappQ)
  PROVE  /\ m \in UappMsg /\ m.type = t
         /\ t # "OPEN_REQ" => OpenReqsKept
         /\ t # "CLOSE_REQ" => LeavesKept
         /\ \A s \in SocketId :
              /\ Ahead(uappQ', LeaveOf(s), OpenReqOf(s))
              /\ t = "OPEN_REQ" /\ m.sid = s => ~In(uappQ, LeaveOf(s))
         /\ t = "OPEN_REQ" =>
              \A s \in SocketId :
                /\ Once(uappQ', OpenReqOf(s))
                /\ In(uappQ, OpenReqOf(s)) <=> In(uappQ', OpenReqOf(s)) \/ s = m.sid
                /\ s = m.sid => ~In(uappQ', OpenReqOf(s))
                /\ \A e \in Endpoint :
                     In(uappQ, OpenReqFor(s, e))
                       <=> In(uappQ', OpenReqFor(s, e)) \/ (s = m.sid /\ e = m.ep)
         /\ t = "CLOSE_REQ" =>
              \A s \in SocketId :
                /\ Once(uappQ', LeaveOf(s))
                /\ In(uappQ, LeaveOf(s)) <=> In(uappQ', LeaveOf(s)) \/ s = m.sid
                /\ s = m.sid => ~In(uappQ', LeaveOf(s))
                /\ \A e \in Endpoint :
                     In(uappQ, LeaveFor(s, e))
                       <=> In(uappQ', LeaveFor(s, e)) \/ (s = m.sid /\ e = m.ep)
<1>1. /\ uappQ \in Seq(UappMsg) /\ uappQ # <<>> /\ m = Head(uappQ) /\ uappQ' = Tail(uappQ)
      /\ m.type = t
  BY DEF UappReceive, Base, TypeOK, ChannelsTypeOK
<1>2. \A s \in SocketId :
        /\ Once(uappQ, OpenReqOf(s)) /\ Once(uappQ, LeaveOf(s))
        /\ Ahead(uappQ, LeaveOf(s), OpenReqOf(s))
  BY DEF Life, Answers, Leaving
<1>3. QED
  BY ONLY <1>1, <1>2, UappTaken DEF OpenReqsKept, LeavesKept

\* and sending to it.
LEMMA UappQPosted ==
  ASSUME Base, Life, NEW m \in UappMsg, uappQ' = Append(uappQ, m)
  PROVE  /\ m.type # "OPEN_REQ" => OpenReqsKept
         /\ m.type # "CLOSE_REQ" => LeavesKept
         /\ \A s \in SocketId :
              ~(m.type = "CLOSE_REQ" /\ s = m.sid /\ In(uappQ, OpenReqOf(s)))
                => Ahead(uappQ', LeaveOf(s), OpenReqOf(s))
         /\ m.type = "OPEN_REQ" =>
              \A s \in SocketId :
                /\ In(uappQ', OpenReqOf(s)) <=> In(uappQ, OpenReqOf(s)) \/ s = m.sid
                /\ ~(s = m.sid /\ In(uappQ, OpenReqOf(s))) => Once(uappQ', OpenReqOf(s))
                /\ \A e \in Endpoint :
                     In(uappQ', OpenReqFor(s, e))
                       <=> In(uappQ, OpenReqFor(s, e)) \/ (s = m.sid /\ e = m.ep)
         /\ m.type = "CLOSE_REQ" =>
              \A s \in SocketId :
                /\ In(uappQ', LeaveOf(s)) <=> In(uappQ, LeaveOf(s)) \/ s = m.sid
                /\ ~(s = m.sid /\ In(uappQ, LeaveOf(s))) => Once(uappQ', LeaveOf(s))
                /\ \A e \in Endpoint :
                     In(uappQ', LeaveFor(s, e))
                       <=> In(uappQ, LeaveFor(s, e)) \/ (s = m.sid /\ e = m.ep)
<1>1. uappQ \in Seq(UappMsg) /\ m \in UappMsg /\ uappQ' = Append(uappQ, m)
  BY DEF Base, TypeOK, ChannelsTypeOK
<1>2. \A s \in SocketId :
        /\ Once(uappQ, OpenReqOf(s)) /\ Once(uappQ, LeaveOf(s))
        /\ Ahead(uappQ, LeaveOf(s), OpenReqOf(s))
  BY DEF Life, Answers, Leaving
<1>3. QED
  BY ONLY <1>1, <1>2, UappSent DEF OpenReqsKept, LeavesKept

\* The same of the queue of the HAL.
LEMMA HalQRead ==
  ASSUME Base, Life, halQ # <<>>, halQ' = Tail(halQ), NEW m, m = Head(halQ)
  PROVE  /\ m \in HalMsg
         /\ \A s \in SocketId :
              /\ Once(halQ', AckOf(s))
              /\ In(halQ, AckOf(s))
                   <=> In(halQ', AckOf(s)) \/ (m.type = "OPEN_RSP" /\ m.ok /\ s = m.sid)
              /\ m.type = "OPEN_RSP" /\ m.ok /\ s = m.sid => ~In(halQ', AckOf(s))
              /\ In(halQ, NakOf(s))
                   <=> In(halQ', NakOf(s)) \/ (m.type = "OPEN_RSP" /\ ~m.ok /\ s = m.sid)
              /\ In(halQ, DoneOf(s)) <=> In(halQ', DoneOf(s)) \/ (m.type = "CLOSE_RSP" /\ s = m.sid)
<1>1. halQ \in Seq(HalMsg) /\ halQ # <<>> /\ m = Head(halQ) /\ halQ' = Tail(halQ)
  BY DEF Base, TypeOK, ChannelsTypeOK
<1>2. \A s \in SocketId : Once(halQ, AckOf(s))
  BY DEF Life, HalKnows
<1>3. QED
  BY ONLY <1>1, <1>2, HalTaken

\* and sending to it.
LEMMA HalQPosted ==
  ASSUME Base, NEW m \in HalMsg, halQ' = Append(halQ, m)
  PROVE  /\ ~(m.type = "OPEN_RSP" /\ m.ok) => AcksKept
         /\ m.type = "OPEN_RSP" /\ m.ok => FinalsKept
         /\ \A s \in SocketId :
              /\ In(halQ', AckOf(s))
                   <=> In(halQ, AckOf(s)) \/ (m.type = "OPEN_RSP" /\ m.ok /\ s = m.sid)
              /\ Once(halQ, AckOf(s)) /\ ~(s = m.sid /\ In(halQ, AckOf(s)))
                   => Once(halQ', AckOf(s))
              /\ In(halQ', NakOf(s))
                   <=> In(halQ, NakOf(s)) \/ (m.type = "OPEN_RSP" /\ ~m.ok /\ s = m.sid)
              /\ In(halQ', DoneOf(s))
                   <=> In(halQ, DoneOf(s)) \/ (m.type = "CLOSE_RSP" /\ s = m.sid)
<1>1. halQ \in Seq(HalMsg) /\ m \in HalMsg /\ halQ' = Append(halQ, m)
  BY DEF Base, TypeOK, ChannelsTypeOK
<1>2. QED
  BY ONLY <1>1, HalSent DEF AcksKept, FinalsKept

-----------------------------------------------------------------------------
(* A step that leaves the instances and the messages of a part alone keeps *)
(* that part of the invariant.                                             *)

InstancesKept == UNCHANGED <<state, socketId, pseudoId, epId>>

\* Values the parts are about have their types.
LEMMA Typed ==
  ASSUME Base
  PROVE  /\ \A i \in Inst : pseudoId[i] \in ConnId /\ epId[i] \in Endpoint
         /\ \A i \in Inst : state[i] # "Idle" => socketId[i] \in SocketId
         /\ \A a \in Protocol, n \in Slot : slot[a][n] # ClearSlot => slot[a][n] \in SocketId
         /\ \A k \in Sock : sock[k] \in UsedSock \cup {FreeSock}
         /\ \A k \in InUse : sock[k].sid \in SocketId /\ sock[k].conn \in ConnId
<1>1. \A i \in Inst : pseudoId[i] \in ConnId /\ epId[i] \in Endpoint
  BY DEF Base, TypeOK, MgrTypeOK
<1>2. \A i \in Inst : state[i] # "Idle" => socketId[i] \in SocketId
  BY DEF Base, TypeOK, MgrTypeOK
<1>3. \A a \in Protocol, n \in Slot : slot[a][n] # ClearSlot => slot[a][n] \in SocketId
  BY DEF Base, TypeOK, AppTypeOK
<1>4. \A k \in Sock : sock[k] \in UsedSock \cup {FreeSock}
  BY DEF Base, TypeOK, BmmTypeOK
<1>5. \A k \in InUse : sock[k].sid \in SocketId /\ sock[k].conn \in ConnId
  <2>1. SUFFICES ASSUME NEW k \in Sock, sock[k].inUse
                 PROVE  sock[k].sid \in SocketId /\ sock[k].conn \in ConnId
    BY DEF InUse
  <2>2. sock[k] \in UsedSock
    BY <1>4, <2>1 DEF FreeSock
  <2>3. QED
    BY <2>2 DEF UsedSock
<1>6. QED
  BY <1>1, <1>2, <1>3, <1>4, <1>5

\* Requests.
LEMMA RequestsKept ==
  ASSUME Requests, CfmsKept, ReqsKept, InstancesKept
  PROVE  Requests'
BY DEF Requests, CfmsKept, ReqsKept, InstancesKept

\* Entries.
LEMMA EntriesKeep ==
  ASSUME Base, Entries, CfmsKept, DropsKept, InstancesKept,
         \A k \in Sock : /\ sock'[k].inUse = sock[k].inUse
                         /\ sock'[k].conn = sock[k].conn /\ sock'[k].sid = sock[k].sid
  PROVE  Entries'
<1>1. \A c \in ConnId, i \in Inst : Serves(c, i)' <=> Serves(c, i)
  BY DEF Serves, InstancesKept
<1>2. InUse' = InUse
  BY DEF InUse
<1>3. \A k \in InUse' : sock'[k].sid = sock[k].sid /\ sock'[k].conn = sock[k].conn
                        /\ sock[k].conn \in ConnId
  BY <1>2, Typed DEF InUse
<1>4. QED
  BY <1>1, <1>2, <1>3, Typed DEF Entries, CfmsKept, DropsKept, InstancesKept

\* Answers.
LEMMA AnswersKept ==
  ASSUME Base, Answers, RessKept, OpenReqsKept, InstancesKept
  PROVE  Answers'
BY Typed DEF Answers, RessKept, OpenReqsKept, InstancesKept

\* Drops.
LEMMA DropsKeep ==
  ASSUME Base, Drops, DropsKept, DroppedKept, InstancesKept
  PROVE  Drops'
BY Typed DEF Drops, DropsKept, DroppedKept, InstancesKept

\* HalKnows.
LEMMA HalKnowsKept ==
  ASSUME Base, HalKnows, AsksKept, ClosesKept, AcksKept, FinalsKept, InstancesKept, hal' = hal
  PROVE  HalKnows'
<1>1. \A s \in SocketId : Offered(s)' <=> Offered(s)
  BY DEF Offered, InstancesKept
<1>2. QED
  BY <1>1, Typed DEF HalKnows, AsksKept, ClosesKept, AcksKept, FinalsKept, InstancesKept

\* Slots.
LEMMA SlotsKept ==
  ASSUME Base, Slots, RessKept, LeavesKept, InstancesKept, slot' = slot
  PROVE  Slots'
<1>1. Protocol \subseteq Endpoint
  BY DEF Endpoint
<1>2. QED
  BY <1>1, Typed DEF Slots, RessKept, LeavesKept, InstancesKept, SlotsOf

\* Leaving.
LEMMA LeavingKept ==
  ASSUME Leaving, UappQKept, InstancesKept, slot' = slot
  PROVE  Leaving'
BY DEF Leaving, UappQKept, OpenReqsKept, LeavesKept, InstancesKept, SlotsOf

\* Conns.
LEMMA ConnsKept ==
  ASSUME Conns, CfmsKept, ReqsKept, InstancesKept
  PROVE  Conns'
BY DEF Conns, CfmsKept, ReqsKept, InstancesKept

\* Granted.
LEMMA GrantedKept ==
  ASSUME Base, Life, Granted, ParamsKept, InstancesKept,
         \A k \in Sock : sock[k].credits => sock'[k].credits
  PROVE  Granted'
<1>1. \A i \in Inst : state[i] = "OffloadToMicroappSuccess" => pseudoId[i].idx \in Sock
  BY DEF Life, Entries, Serves, Open
<1>2. QED
  BY <1>1, Typed DEF Granted, ParamsKept, InstancesKept

-----------------------------------------------------------------------------
(* The steps of the microapps.                                             *)

\* A microapp that has room by its count has a clear slot.
LEMMA RoomMeansSlot ==
  ASSUME Base, NEW a \in Protocol, inUse[a] < MaxApp
  PROVE  /\ FreeSlots(a) # {}
         /\ Min(FreeSlots(a)) \in Slot
         /\ slot[a][Min(FreeSlots(a))] = ClearSlot
<1>1. IsFiniteSet(FreeSlots(a)) /\ Cardinality(FreeSlots(a)) \in Nat
  <2>1. FreeSlots(a) \in SUBSET Slot
    BY DEF FreeSlots
  <2>2. QED
    BY <2>1, SlotsFinite
<1>2. FreeSlots(a) # {}
  <2>1. inUse[a] = MaxApp - Cardinality(FreeSlots(a)) /\ MaxApp \in Nat
    BY MaxAppAssumption DEF Base, SlotsCounted
  <2>2. SUFFICES ASSUME FreeSlots(a) = {} PROVE FALSE
    OBVIOUS
  <2>3. Cardinality(FreeSlots(a)) = 0
    BY <2>2, FS_EmptySet
  <2>4. QED
    BY <2>1, <2>3
<1>3. Min(FreeSlots(a)) \in FreeSlots(a)
  <2>1. FreeSlots(a) \subseteq Nat
    BY DEF FreeSlots, Slot
  <2>2. QED
    BY <1>2, <2>1, MinIsLeast
<1>4. QED
  BY <1>2, <1>3 DEF FreeSlots

\* The microapp stores a socket and answers.
LEMMA AppOpensLife ==
  ASSUME Base, Life, AppOpens, UNCHANGED <<mgrVars, bmmVars, hal>>
  PROVE  Life'
<1> DEFINE m == Head(uappQ)
           s == m.sid
           a == m.ep
           f == Min(FreeSlots(a))
           r == OpenRes(s, TRUE)
<1>1. /\ UappReceive("OPEN_REQ") /\ m = Head(uappQ) /\ s = m.sid /\ a = m.ep
      /\ s \in SocketId /\ a \in Protocol /\ a \in Endpoint /\ inUse[a] < MaxApp
  BY UappHead DEF AppOpens, Base, TypeOK, Endpoint
<1>2. FreeSlots(a) # {} /\ f \in Slot /\ slot[a][f] = ClearSlot
  BY <1>1, RoomMeansSlot
<1>3. /\ r \in PipeMsg /\ r.type = "UAPP_OPEN_RES" /\ r.sid = s /\ r.ok
  BY <1>1 DEF PipeMsg, UappOpenResMsg, OpenRes
<1>4. /\ pipe' = Append(pipe, r) /\ bmmQ' = bmmQ /\ halQ' = halQ
      /\ slot' = [slot EXCEPT ![a][f] = s]
  BY <1>2 DEF AppOpens
<1>5. s # ClearSlot
  BY <1>1, SocketIdAssumption DEF ClearSlot
<1>6. \A b \in Protocol, n \in Slot :
        slot'[b][n] = IF b = a /\ n = f THEN s ELSE slot[b][n]
  BY <1>1, <1>2, <1>4 DEF Base, TypeOK, AppTypeOK
<1>7. InstancesKept /\ hal' = hal /\ sock' = sock /\ state' = state
  BY DEF InstancesKept, mgrVars, bmmVars
<1> HIDE DEF m, s, a, f, r
<1>8. BmmQKept /\ HalQKept /\ AsksKept /\ ClosesKept /\ CfmsKept /\ DroppedKept /\ LeavesKept
  BY <1>1, <1>3, <1>4, QueuesKept, PipePosted, UappQRead
<1>9. /\ \A t \in SocketId : In(pipe', ResOf(t)) <=> In(pipe, ResOf(t)) \/ t = s
      /\ \A t \in SocketId : In(pipe', OpenedOf(t)) <=> In(pipe, OpenedOf(t)) \/ t = s
      /\ \A t \in SocketId : Once(pipe, ResOf(t)) /\ ~(t = s /\ In(pipe, ResOf(t)))
                               => Once(pipe', ResOf(t))
  BY ONLY <1>3, <1>4, Base, PipePosted
<1>10. \A t \in SocketId :
         /\ Ahead(uappQ', LeaveOf(t), OpenReqOf(t))
         /\ Once(uappQ', OpenReqOf(t))
         /\ In(uappQ, OpenReqOf(t)) <=> In(uappQ', OpenReqOf(t)) \/ t = s
         /\ t = s => ~In(uappQ', OpenReqOf(t)) /\ ~In(uappQ, LeaveOf(t))
         /\ \A e \in Endpoint :
              In(uappQ, OpenReqFor(t, e)) <=> In(uappQ', OpenReqFor(t, e)) \/ (t = s /\ e = a)
  BY ONLY <1>1, Base, Life, UappQRead
<1>11. PICK i \in Inst : socketId[i] = s /\ state[i] = "OffloadToMicrostackSuccess"
  BY <1>1, <1>10 DEF Life, Answers
<1>12. /\ epId[i] = a /\ ~In(pipe, ResOf(s)) /\ ~In(pipe, OpenedOf(s))
       /\ ~In(uappQ, LeaveOf(s)) /\ \A e \in Endpoint : ~In(uappQ, LeaveFor(s, e))
       /\ \A j \in Inst : state[j] # "Idle" /\ socketId[j] = s => j = i
  BY <1>1, <1>10, <1>11, Wider, OnlyHolder DEF Life, Answers
<1>13. \A b \in Protocol, n \in Slot : slot[b][n] # s
  BY <1>1, <1>5, <1>11, <1>12 DEF Life, Slots, Endpoint
<1>14. Resting' /\ Requests' /\ Conns' /\ Drops' /\ HalKnows'
  BY <1>7, <1>8, RequestsKept, ConnsKept, DropsKeep, HalKnowsKept
     DEF Life, Resting, BmmQKept, HalQKept
<1>15. Entries' /\ Granted'
  BY <1>7, <1>8, EntriesKeep, GrantedKept DEF Life, BmmQKept
<1>16. Answers'
  BY <1>1, <1>7, <1>9, <1>10, <1>11, <1>12, Typed DEF Life, Answers, InstancesKept
<1>17. Slots'
  <2>1. \A b, c \in Protocol, n, l \in Slot :
          slot'[b][n] = slot'[c][l] /\ slot'[b][n] # ClearSlot => b = c /\ n = l
    BY <1>6, <1>13 DEF Life, Slots
  <2>2. ASSUME NEW b \in Protocol, NEW n \in Slot, slot'[b][n] # ClearSlot
        PROVE  \/ In(uappQ', LeaveFor(slot'[b][n], b))
               \/ \E j \in Inst :
                    /\ socketId'[j] = slot'[b][n] /\ epId'[j] = b
                    /\ \/ state'[j] = "OffloadToMicroappSuccess"
                       \/ /\ state'[j] = "OffloadToMicrostackSuccess"
                          /\ In(pipe', OpenedOf(slot'[b][n]))
    <3>1. CASE b = a /\ n = f
      BY <1>1, <1>6, <1>7, <1>9, <1>11, <1>12, <3>1 DEF InstancesKept
    <3>2. CASE ~(b = a /\ n = f)
      <4>1. slot'[b][n] = slot[b][n] /\ slot[b][n] \in SocketId /\ b \in Endpoint
        BY <1>6, <2>2, <3>2, Typed DEF Endpoint
      <4>2. QED
        BY <1>7, <1>8, <1>9, <2>2, <4>1 DEF Life, Slots, InstancesKept, LeavesKept
    <3>3. QED
      BY <3>1, <3>2
  <2>3. ASSUME NEW j \in Inst,
               \/ state'[j] = "OffloadToMicroappSuccess"
               \/ state'[j] = "OffloadToMicrostackSuccess" /\ In(pipe', OpenedOf(socketId'[j]))
        PROVE  epId'[j] \in Protocol /\ \E n \in Slot : slot'[epId'[j]][n] = socketId'[j]
    <3>1. socketId[j] \in SocketId /\ socketId[j] # ClearSlot
      BY <1>7, <2>3, Typed, SocketIdAssumption DEF InstancesKept, ClearSlot
    <3>2. CASE socketId[j] = s
      <4>1. j = i
        BY <1>7, <1>12, <2>3, <3>2 DEF InstancesKept
      <4>2. epId'[j] = a /\ slot'[a][f] = socketId'[j]
        BY <1>1, <1>2, <1>6, <1>7, <1>12, <3>2, <4>1 DEF InstancesKept
      <4>3. QED
        BY <1>1, <1>2, <4>2
    <3>3. CASE socketId[j] # s
      <4>1. epId[j] \in Protocol /\ SlotsOf(epId[j], socketId[j]) # {}
        BY <1>7, <1>9, <2>3, <3>1, <3>3 DEF Life, Slots, InstancesKept
      <4>2. PICK n \in Slot : slot[epId[j]][n] = socketId[j]
        BY <4>1 DEF SlotsOf
      <4>3. slot'[epId[j]][n] = socketId[j]
        BY <1>2, <1>6, <3>1, <4>1, <4>2
      <4>4. QED
        BY <1>7, <4>1, <4>3 DEF InstancesKept
    <3>4. QED
      BY <3>2, <3>3
  <2>4. QED
    BY <2>1, <2>2, <2>3 DEF Slots, SlotsOf
<1>18. Leaving'
  <2>1. ASSUME NEW t \in SocketId, NEW e \in Endpoint, In(uappQ', LeaveFor(t, e))
        PROVE  e \in Protocol /\ SlotsOf(e, t)' # {}
    <3>1. e \in Protocol /\ SlotsOf(e, t) # {} /\ t # ClearSlot
      BY <1>8, <2>1, SocketIdAssumption DEF Life, Leaving, LeavesKept, ClearSlot
    <3>2. PICK n \in Slot : slot[e][n] = t
      BY <3>1 DEF SlotsOf
    <3>3. slot'[e][n] = t
      BY <1>2, <1>6, <3>1, <3>2
    <3>4. QED
      BY <3>1, <3>3 DEF SlotsOf
  <2>2. \A t \in SocketId : Once(uappQ', LeaveOf(t)) /\ Ahead(uappQ', LeaveOf(t), OpenReqOf(t))
    BY <1>8, <1>10 DEF Life, Leaving, LeavesKept
  <2>3. ASSUME NEW t \in SocketId, In(uappQ', LeaveOf(t)), NEW j \in Inst,
               socketId'[j] = t, state'[j] \in Known
        PROVE  \/ state'[j] = "UnOffloadReqToMicrostack"
               \/ state'[j] = "OffloadToMicrostackSuccess" /\ In(uappQ', OpenReqOf(t))
    <3>1. t # s
      BY <1>8, <1>12, <2>3 DEF LeavesKept
    <3>2. QED
      BY <1>7, <1>8, <1>10, <2>3, <3>1 DEF Life, Leaving, LeavesKept, InstancesKept
  <2>4. QED
    BY <2>1, <2>2, <2>3 DEF Leaving
<1>19. QED
  BY <1>14, <1>15, <1>16, <1>17, <1>18 DEF Life

\* The microapp refuses a socket, or there is none for its endpoint.
LEMMA AppRefusesLife ==
  ASSUME Base, Life, PatientHal, AppRefuses \/ EndpointNotFound,
         UNCHANGED <<mgrVars, bmmVars, hal>>
  PROVE  Life'
<1> DEFINE m == Head(uappQ)
           s == m.sid
           a == m.ep
<1>1. /\ UappReceive("OPEN_REQ") /\ m = Head(uappQ) /\ s = m.sid /\ a = m.ep
      /\ s \in SocketId /\ a \in Endpoint
      /\ slot' = slot /\ bmmQ' = bmmQ /\ halQ' = halQ
  BY UappHead DEF AppRefuses, EndpointNotFound, Base, TypeOK, appVars
<1>2. PICK x \in {s, UnknownEndpointId} :
        /\ pipe' = Append(pipe, OpenRes(x, FALSE))
        /\ a \in Protocol => x = s
        /\ x = s => a \in Protocol
        /\ x # s => x \notin SocketId
  BY <1>1 DEF AppRefuses, EndpointNotFound, Endpoint, Protocol, PatientHal
<1> DEFINE r == OpenRes(x, FALSE)
<1>3. /\ r \in PipeMsg /\ r.type = "UAPP_OPEN_RES" /\ r.sid = x /\ ~r.ok
      /\ pipe' = Append(pipe, r)
  BY <1>1, <1>2 DEF PipeMsg, UappOpenResMsg, OpenRes
<1>7. InstancesKept /\ hal' = hal /\ sock' = sock /\ state' = state
  BY DEF InstancesKept, mgrVars, bmmVars
<1> HIDE DEF m, s, a, r
<1>8. BmmQKept /\ HalQKept /\ AsksKept /\ ClosesKept /\ CfmsKept /\ DroppedKept /\ LeavesKept
  BY <1>1, <1>3, QueuesKept, PipePosted, UappQRead
<1>9. /\ \A t \in SocketId : In(pipe', ResOf(t)) <=> In(pipe, ResOf(t)) \/ t = x
      /\ \A t \in SocketId : In(pipe', OpenedOf(t)) <=> In(pipe, OpenedOf(t))
      /\ \A t \in SocketId : Once(pipe, ResOf(t)) /\ ~(t = x /\ In(pipe, ResOf(t)))
                               => Once(pipe', ResOf(t))
  BY ONLY <1>3, Base, PipePosted
<1>10. \A t \in SocketId :
         /\ Ahead(uappQ', LeaveOf(t), OpenReqOf(t))
         /\ Once(uappQ', OpenReqOf(t))
         /\ In(uappQ, OpenReqOf(t)) <=> In(uappQ', OpenReqOf(t)) \/ t = s
         /\ t = s => ~In(uappQ', OpenReqOf(t)) /\ ~In(uappQ, LeaveOf(t))
         /\ \A e \in Endpoint :
              In(uappQ, OpenReqFor(t, e)) <=> In(uappQ', OpenReqFor(t, e)) \/ (t = s /\ e = a)
  BY ONLY <1>1, Base, Life, UappQRead
<1>11. PICK i \in Inst : socketId[i] = s /\ state[i] = "OffloadToMicrostackSuccess"
  BY <1>1, <1>10 DEF Life, Answers
<1>12. /\ epId[i] = a /\ ~In(pipe, ResOf(s))
       /\ ~In(uappQ, LeaveOf(s))
       /\ \A j \in Inst : state[j] # "Idle" /\ socketId[j] = s => j = i
  BY <1>1, <1>10, <1>11, OnlyHolder DEF Life, Answers
<1>14. Resting' /\ Requests' /\ Conns' /\ Drops' /\ HalKnows'
  BY <1>7, <1>8, RequestsKept, ConnsKept, DropsKeep, HalKnowsKept
     DEF Life, Resting, BmmQKept, HalQKept
<1>15. Entries' /\ Granted'
  BY <1>7, <1>8, EntriesKeep, GrantedKept DEF Life, BmmQKept
<1>16. Answers'
  <2>1. ASSUME NEW t \in SocketId
        PROVE  /\ Once(uappQ', OpenReqOf(t)) /\ Once(pipe', ResOf(t))
               /\ ~In(uappQ', OpenReqOf(t)) \/ ~In(pipe', ResOf(t))
               /\ In(uappQ', OpenReqOf(t)) \/ In(pipe', ResOf(t)) =>
                    \E j \in Inst :
                      socketId'[j] = t /\ state'[j] = "OffloadToMicrostackSuccess"
    <3>1. CASE t = s
      BY <1>2, <1>7, <1>9, <1>10, <1>11, <1>12, <3>1 DEF Life, Answers, InstancesKept
    <3>2. CASE t # s
      <4>1. t # x
        BY <1>2, <3>2
      <4>2. QED
        BY <1>7, <1>9, <1>10, <3>2, <4>1 DEF Life, Answers, InstancesKept
    <3>3. QED
      BY <3>1, <3>2
  <2>2. ASSUME NEW j \in Inst, state'[j] = "OffloadToMicrostackSuccess", epId'[j] \in Protocol
        PROVE  In(uappQ', OpenReqOf(socketId'[j])) \/ In(pipe', ResOf(socketId'[j]))
    <3>1. CASE socketId[j] = s
      <4>1. j = i /\ a \in Protocol
        BY <1>7, <1>12, <2>2, <3>1 DEF InstancesKept
      <4>2. QED
        BY <1>1, <1>2, <1>7, <1>9, <3>1, <4>1 DEF InstancesKept
    <3>2. CASE socketId[j] # s
      BY <1>7, <1>9, <1>10, <2>2, <3>2, Typed DEF Life, Answers, InstancesKept
    <3>3. QED
      BY <3>1, <3>2
  <2>3. ASSUME NEW j \in Inst, NEW e \in Endpoint, state'[j] = "OffloadToMicrostackSuccess",
               In(uappQ', OpenReqFor(socketId'[j], e))
        PROVE  epId'[j] = e
    BY <1>7, <1>10, <2>3, Typed DEF Life, Answers, InstancesKept
  <2>4. QED
    BY <2>1, <2>2, <2>3 DEF Answers
<1>17. Slots'
  BY <1>1, <1>7, <1>8, <1>9, Typed DEF Life, Slots, SlotsOf, InstancesKept, LeavesKept, Endpoint
<1>18. Leaving'
  BY <1>1, <1>7, <1>8, <1>10, <1>12 DEF Life, Leaving, SlotsOf, InstancesKept, LeavesKept
<1>19. QED
  BY <1>14, <1>15, <1>16, <1>17, <1>18 DEF Life

\* The microapp forgets a socket.
LEMMA AppClosesLife ==
  ASSUME Base, Life, AppCloses, UNCHANGED <<mgrVars, bmmVars, hal>>
  PROVE  Life'
<1> DEFINE m == Head(uappQ)
           s == m.sid
           a == m.ep
           f == Min(SlotsOf(a, s))
<1>1. /\ UappReceive("CLOSE_REQ") /\ m = Head(uappQ) /\ s = m.sid /\ a = m.ep
      /\ s \in SocketId /\ a \in Endpoint
      /\ pipe' = pipe /\ bmmQ' = bmmQ /\ halQ' = halQ
  BY UappHead DEF AppCloses, Base, TypeOK
<1>7. InstancesKept /\ hal' = hal /\ sock' = sock /\ state' = state
  BY DEF InstancesKept, mgrVars, bmmVars
<1>10. /\ OpenReqsKept
       /\ \A t \in SocketId :
            /\ Ahead(uappQ', LeaveOf(t), OpenReqOf(t))
            /\ Once(uappQ', LeaveOf(t))
            /\ In(uappQ, LeaveOf(t)) <=> In(uappQ', LeaveOf(t)) \/ t = s
            /\ t = s => ~In(uappQ', LeaveOf(t))
            /\ \A e \in Endpoint :
                 In(uappQ, LeaveFor(t, e)) <=> In(uappQ', LeaveFor(t, e)) \/ (t = s /\ e = a)
  <2> HIDE DEF m, s, a
  <2>1. QED
    BY ONLY <1>1, Base, Life, UappQRead
<1>2. a \in Protocol /\ SlotsOf(a, s) # {} /\ In(uappQ, LeaveOf(s))
  BY <1>1, <1>10 DEF Life, Leaving
<1>3. f \in Slot /\ slot[a][f] = s
  <2>1. SlotsOf(a, s) \subseteq Nat
    BY DEF SlotsOf, Slot
  <2> HIDE DEF a, s
  <2>2. f \in SlotsOf(a, s)
    BY <1>2, <2>1, MinIsLeast
  <2>3. QED
    BY <2>2 DEF SlotsOf
<1>4. slot' = [slot EXCEPT ![a][f] = ClearSlot]
  BY <1>2 DEF AppCloses
<1>5. s # ClearSlot
  BY <1>1, SocketIdAssumption DEF ClearSlot
<1>6. \A b \in Protocol, n \in Slot :
        slot'[b][n] = IF b = a /\ n = f THEN ClearSlot ELSE slot[b][n]
  BY <1>2, <1>3, <1>4 DEF Base, TypeOK, AppTypeOK
<1> HIDE DEF m, s, a, f
<1>8. PipeKept /\ BmmQKept /\ HalQKept /\ AsksKept /\ ClosesKept /\ CfmsKept /\ DroppedKept
      /\ RessKept
  BY <1>1, QueuesKept DEF PipeKept
<1>12. \A b \in Protocol, n \in Slot : slot[b][n] = s => b = a /\ n = f
  BY <1>2, <1>3, <1>5 DEF Life, Slots
<1>13. \A j \in Inst :
         /\ socketId[j] = s
         /\ \/ state[j] = "OffloadToMicroappSuccess"
            \/ state[j] = "OffloadToMicrostackSuccess" /\ In(pipe, OpenedOf(s))
         => FALSE
  BY <1>1, <1>2, Wider DEF Life, Leaving, Answers, Known, Open
<1>14. Resting' /\ Requests' /\ Conns' /\ Drops' /\ HalKnows'
  BY <1>7, <1>8, RequestsKept, ConnsKept, DropsKeep, HalKnowsKept
     DEF Life, Resting, BmmQKept, HalQKept
<1>15. Entries' /\ Granted' /\ Answers'
  BY <1>7, <1>8, <1>10, EntriesKeep, GrantedKept, AnswersKept DEF Life, BmmQKept
<1>16. \A b \in Protocol, t \in SocketId : t # s /\ SlotsOf(b, t) # {} =>
         \E n \in Slot : slot'[b][n] = t
  BY <1>3, <1>6 DEF SlotsOf
<1>17. Slots'
  <2>1. \A b, c \in Protocol, n, l \in Slot :
          slot'[b][n] = slot'[c][l] /\ slot'[b][n] # ClearSlot => b = c /\ n = l
    BY <1>6 DEF Life, Slots
  <2>2. ASSUME NEW b \in Protocol, NEW n \in Slot, slot'[b][n] # ClearSlot
        PROVE  \/ In(uappQ', LeaveFor(slot'[b][n], b))
               \/ \E j \in Inst :
                    /\ socketId'[j] = slot'[b][n] /\ epId'[j] = b
                    /\ \/ state'[j] = "OffloadToMicroappSuccess"
                       \/ /\ state'[j] = "OffloadToMicrostackSuccess"
                          /\ In(pipe', OpenedOf(slot'[b][n]))
    <3>1. slot'[b][n] = slot[b][n] /\ slot[b][n] \in SocketId /\ b \in Endpoint
          /\ slot[b][n] # s
      BY <1>6, <1>12, <2>2, Typed DEF Endpoint
    <3>2. QED
      BY <1>7, <1>8, <1>10, <2>2, <3>1 DEF Life, Slots, InstancesKept, RessKept
  <2>3. ASSUME NEW j \in Inst,
               \/ state'[j] = "OffloadToMicroappSuccess"
               \/ state'[j] = "OffloadToMicrostackSuccess" /\ In(pipe', OpenedOf(socketId'[j]))
        PROVE  epId'[j] \in Protocol /\ \E n \in Slot : slot'[epId'[j]][n] = socketId'[j]
    <3>1. socketId[j] \in SocketId /\ socketId[j] # s
      BY <1>1, <1>7, <1>8, <1>13, <2>3, Typed DEF InstancesKept, RessKept
    <3>2. epId[j] \in Protocol /\ SlotsOf(epId[j], socketId[j]) # {}
      BY <1>7, <1>8, <2>3, <3>1 DEF Life, Slots, InstancesKept, RessKept
    <3>3. QED
      BY <1>7, <1>16, <3>1, <3>2 DEF InstancesKept
  <2>4. QED
    BY <2>1, <2>2, <2>3 DEF Slots, SlotsOf
<1>18. Leaving'
  <2>1. ASSUME NEW t \in SocketId, NEW e \in Endpoint, In(uappQ', LeaveFor(t, e))
        PROVE  e \in Protocol /\ \E n \in Slot : slot'[e][n] = t
    <3>1. LeaveFor(t, e) \subseteq LeaveOf(t)
      BY <2>1 DEF LeaveFor, LeaveOf
    <3>2. t # s
      BY <1>10, <2>1, <3>1, InSubset
    <3>3. e \in Protocol /\ SlotsOf(e, t) # {}
      BY <1>10, <2>1 DEF Life, Leaving
    <3>4. QED
      BY <1>16, <3>2, <3>3
  <2>2. ASSUME NEW t \in SocketId, In(uappQ', LeaveOf(t)), NEW j \in Inst,
               socketId'[j] = t, state'[j] \in Known
        PROVE  \/ state'[j] = "UnOffloadReqToMicrostack"
               \/ state'[j] = "OffloadToMicrostackSuccess" /\ In(uappQ', OpenReqOf(t))
    BY <1>7, <1>10, <2>2 DEF Life, Leaving, OpenReqsKept, InstancesKept
  <2>4. QED
    BY <1>10, <2>1, <2>2 DEF Leaving, SlotsOf
<1>19. QED
  BY <1>14, <1>15, <1>17, <1>18 DEF Life

-----------------------------------------------------------------------------
(* The steps of the BMM.                                                   *)

\* An entry in use that keeps its ids serves the same instance.
LEMMA ServesKept ==
  ASSUME InstancesKept, NEW k \in Sock,
         \A l \in Sock \ {k} : /\ sock'[l].inUse = sock[l].inUse
                               /\ sock'[l].conn = sock[l].conn /\ sock'[l].sid = sock[l].sid
  PROVE  \A c \in ConnId, i \in Inst : c.idx # k => (Serves(c, i)' <=> Serves(c, i))
BY DEF Serves, InstancesKept

\* The BMM answers an offload request, in the order of the requests.
LEMMA AnswersRequest ==
  ASSUME Base, Life, BmmReceive("OFFLOAD_REQ"), NEW m, m = Head(bmmQ),
         NEW c \in ConnId, NEW ok \in BOOLEAN, ok \/ c = NoConn,
         pipe' = Append(pipe, OffloadCfm(m.inst, c, ok)), InstancesKept
  PROVE  /\ m.inst \in Inst /\ m.sid \in SocketId /\ m.proto \in Protocol
         /\ socketId[m.inst] = m.sid /\ state[m.inst] = "OffloadReq"
         /\ Requests' /\ Conns'
         /\ AsksKept /\ ClosesKept /\ RessKept /\ DroppedKept /\ DropsKept /\ ParamsKept
         /\ \A i \in Inst, d \in ConnId :
              In(pipe', TakenOf(i, d))
                <=> In(pipe, TakenOf(i, d)) \/ (i = m.inst /\ d = c /\ ok)
<1> DEFINE r == OffloadCfm(m.inst, c, ok)
<1>1. /\ m.inst \in Inst /\ m.sid \in SocketId /\ m.proto \in Protocol
  BY BmmHead DEF Base, TypeOK
<1>2. /\ r \in PipeMsg /\ r.type = "OFFLOAD_CFM" /\ r.inst = m.inst /\ r.conn = c /\ r.ok = ok
      /\ pipe' = Append(pipe, r)
  BY <1>1 DEF PipeMsg, OffloadCfmMsg, OffloadCfm
<1> HIDE DEF r
<1>3. AsksKept /\ ClosesKept /\ RessKept /\ DroppedKept /\ DropsKept /\ ParamsKept
  BY <1>2, PipePosted, BmmQRead
<1>4. /\ \A i \in Inst :
           /\ In(pipe', CfmOf(i)) <=> In(pipe, CfmOf(i)) \/ i = m.inst
           /\ Once(pipe, CfmOf(i)) /\ ~(i = m.inst /\ In(pipe, CfmOf(i)))
                => Once(pipe', CfmOf(i))
           /\ \A d \in ConnId :
                In(pipe', TakenOf(i, d)) <=> In(pipe, TakenOf(i, d)) \/ (i = m.inst /\ d = c /\ ok)
      /\ \A i, j \in Inst :
           Ahead(pipe, CfmOf(j), CfmOf(i)) /\ ~(j = m.inst /\ (In(pipe, CfmOf(i)) \/ i = m.inst))
             => Ahead(pipe', CfmOf(j), CfmOf(i))
      /\ In(pipe', RefusedAs) <=> In(pipe, RefusedAs)
  BY ONLY <1>2, Base, ok \/ c = NoConn, PipePosted
<1>5. /\ \A i \in Inst :
           /\ Once(bmmQ', ReqOf(i))
           /\ In(bmmQ, ReqOf(i)) <=> In(bmmQ', ReqOf(i)) \/ i = m.inst
           /\ i = m.inst => ~In(bmmQ', ReqOf(i))
           /\ \A s \in SocketId :
                In(bmmQ, ReqFor(i, s)) <=> In(bmmQ', ReqFor(i, s)) \/ (i = m.inst /\ s = m.sid)
      /\ \A i, j \in Inst :
           Ahead(bmmQ, ReqOf(j), ReqOf(i)) =>
             Ahead(bmmQ', ReqOf(j), ReqOf(i)) /\ (i = m.inst => ~In(bmmQ, ReqOf(j)))
  BY ONLY Base, Life, BmmReceive("OFFLOAD_REQ"), m = Head(bmmQ), BmmQRead
<1>6. socketId[m.inst] = m.sid /\ state[m.inst] = "OffloadReq"
  BY <1>1, <1>5 DEF Life, Requests
<1>7. Requests'
  BY <1>1, <1>4, <1>5 DEF Life, Requests, InstancesKept
<1>8. Conns'
  <2>1. \A i, j \in Inst : j < i => i # j
    BY DEF Inst
  <2>2. QED
    BY <1>1, <1>4, <1>5, <2>1 DEF Life, Conns, InstancesKept
<1>9. QED
  BY <1>1, <1>3, <1>4, <1>6, <1>7, <1>8

\* The BMM takes a socket.
LEMMA OffloadReqLife ==
  ASSUME Base, Life, HandleOffloadReq, UNCHANGED <<mgrVars, appVars, hal>>
  PROVE  Life'
<1> DEFINE m == Head(bmmQ)
           i == m.inst
           k == Min(Sock \ InUse)
           c == GenerateConnId(m.proto, m.sid, k)
<1>1. /\ BmmReceive("OFFLOAD_REQ") /\ CanOffload(m.sid, m.proto)
      /\ m.sid \in SocketId /\ m.proto \in Protocol
      /\ pipe' = Append(pipe, OffloadCfm(m.inst, c, TRUE))
      /\ sock' = [sock EXCEPT ![k] = [inUse |-> TRUE, conn |-> c, sid |-> m.sid,
                                      proto |-> m.proto, inError |-> FALSE, credits |-> FALSE]]
      /\ uappQ' = uappQ /\ halQ' = halQ /\ slot' = slot
  BY BmmHead DEF HandleOffloadReq, Base, TypeOK, appVars
<1>2. k \in Sock /\ ~sock[k].inUse
  <2>1. Sock \ InUse # {} /\ Sock \ InUse \subseteq Nat
    BY <1>1 DEF CanOffload, Sock
  <2>2. QED
    BY <2>1, MinIsLeast DEF InUse
<1>3. c \in ConnId /\ c.idx = k /\ c.low = m.sid % IdSpace
  BY <1>1, <1>2, ConnIdTyped DEF GenerateConnId
<1>4. /\ \A l \in Sock \ {k} : sock'[l] = sock[l]
      /\ sock'[k].inUse /\ sock'[k].conn = c /\ sock'[k].sid = m.sid
  BY <1>1, <1>2 DEF Base, TypeOK, BmmTypeOK
<1>5. InstancesKept /\ hal' = hal /\ UappQKept /\ HalQKept
  BY <1>1, QueuesKept DEF InstancesKept, mgrVars
<1>6. m = Head(bmmQ)
  OBVIOUS
<1> HIDE DEF m, k, c, i
<1>7. /\ m.inst \in Inst /\ m.sid \in SocketId
      /\ socketId[m.inst] = m.sid /\ state[m.inst] = "OffloadReq"
      /\ Requests' /\ Conns'
      /\ AsksKept /\ ClosesKept /\ RessKept /\ DroppedKept /\ DropsKept /\ ParamsKept
      /\ \A j \in Inst, d \in ConnId :
              In(pipe', TakenOf(j, d)) <=> In(pipe, TakenOf(j, d)) \/ (j = m.inst /\ d = c)
  BY ZenonT(60), <1>1, <1>3, <1>5, <1>6, AnswersRequest
<1>8. Entries'
  <2>1. \A d \in ConnId, j \in Inst : Serves(d, j) => Serves(d, j)'
    <3>1. \A d \in ConnId, j \in Inst : Serves(d, j) => d.idx # k
      BY <1>2 DEF Serves
    <3>2. QED
      BY <1>2, <1>4, <1>5, <3>1, ServesKept
  <2>2. ASSUME NEW d \in ConnId, NEW j \in Inst, d = c, j = m.inst
        PROVE  Serves(d, j)'
    BY <2>2, <1>2, <1>3, <1>4, <1>5, <1>7 DEF Serves, InstancesKept
  <2>3. \A j \in Inst, d \in ConnId : In(pipe', TakenOf(j, d)) => Serves(d, j)'
    BY <1>7, <2>1, <2>2 DEF Life, Entries
  <2>4. \A j \in Inst :
          /\ state'[j] \in Open => Serves(pseudoId[j], j)'
          /\ state'[j] \in Closing /\ In(bmmQ', DropOf(pseudoId[j])) => Serves(pseudoId[j], j)'
    BY <1>5, <1>7, <2>1, Typed DEF Life, Entries, DropsKept, InstancesKept
  <2>5. ASSUME NEW l \in Sock, sock'[l].inUse
        PROVE  \E j \in Inst :
                 /\ socketId'[j] = sock'[l].sid
                 /\ \/ state'[j] \in Open
                    \/ state'[j] \in Closing /\ In(bmmQ', DropOf(pseudoId'[j]))
                    \/ In(pipe', TakenOf(j, sock'[l].conn))
    <3>1. CASE l = k
      BY <1>3, <1>4, <1>5, <1>7, <3>1 DEF InstancesKept
    <3>2. CASE l # k
      <4>1. l \in InUse /\ sock'[l] = sock[l] /\ sock[l].conn \in ConnId
        BY <1>4, <2>5, <3>2, Typed DEF InUse
      <4>2. QED
        BY <1>5, <1>7, <4>1, Typed DEF Life, Entries, DropsKept, InstancesKept
    <3>3. QED
      BY <3>1, <3>2
  <2>6. pseudoId' = pseudoId
    BY <1>5 DEF InstancesKept
  <2>7. QED
    BY <2>3, <2>4, <2>5, <2>6 DEF Entries, InUse
<1>9. Resting' /\ Answers' /\ Drops' /\ HalKnows' /\ Slots' /\ Leaving'
  BY <1>1, <1>5, <1>7, AnswersKept, DropsKeep, HalKnowsKept, SlotsKept, LeavingKept
     DEF Life, Resting, InstancesKept, UappQKept, HalQKept
<1>10. Granted'
  <2>1. \A l \in Sock : sock[l].credits => sock[l].inUse
    <3>1. ASSUME NEW l \in Sock, sock[l].credits
          PROVE  sock[l].inUse
      <4>1. sock[l] \in UsedSock
        BY <3>1, Typed DEF FreeSock
      <4>2. QED
        BY <4>1 DEF UsedSock
    <3>2. QED
      BY <3>1
  <2>2. \A l \in Sock : sock[l].credits => sock'[l].credits
    BY <1>2, <1>4, <2>1
  <2>3. QED
    BY <1>5, <1>7, <2>2, GrantedKept DEF Life
<1>11. QED
  BY <1>7, <1>8, <1>9, <1>10 DEF Life

\* The BMM refuses a socket.
LEMMA RefuseOffloadLife ==
  ASSUME Base, Life, RefuseOffloadReq, UNCHANGED <<mgrVars, appVars, hal>>
  PROVE  Life'
<1> DEFINE m == Head(bmmQ)
<1>1. /\ BmmReceive("OFFLOAD_REQ") /\ m = Head(bmmQ)
      /\ pipe' = Append(pipe, OffloadCfm(m.inst, NoConn, FALSE))
      /\ sock' = sock /\ uappQ' = uappQ /\ halQ' = halQ /\ slot' = slot /\ NoConn \in ConnId
  BY DEF RefuseOffloadReq, ConnId, appVars
<1>2. InstancesKept /\ hal' = hal /\ UappQKept /\ HalQKept
  BY <1>1, QueuesKept DEF InstancesKept, mgrVars
<1> HIDE DEF m
<1>3. /\ Requests' /\ Conns'
      /\ AsksKept /\ ClosesKept /\ RessKept /\ DroppedKept /\ DropsKept /\ ParamsKept
      /\ \A j \in Inst, d \in ConnId : In(pipe', TakenOf(j, d)) <=> In(pipe, TakenOf(j, d))
  BY <1>1, <1>2, AnswersRequest
<1>4. Entries'
  <2>1. \A d \in ConnId, j \in Inst : Serves(d, j)' <=> Serves(d, j)
    BY <1>1, <1>2 DEF Serves, InstancesKept
  <2>2. InUse' = InUse
    BY <1>1 DEF InUse
  <2>3. QED
    BY ZenonT(60), <1>1, <1>2, <1>3, <2>1, <2>2, Typed DEF Life, Entries, DropsKept, InstancesKept
<1>5. Resting' /\ Answers' /\ Drops' /\ HalKnows' /\ Slots' /\ Leaving' /\ Granted'
  BY <1>1, <1>2, <1>3, AnswersKept, DropsKeep, HalKnowsKept, SlotsKept, LeavingKept, GrantedKept
     DEF Life, Resting, InstancesKept, UappQKept, HalQKept
<1>6. QED
  BY <1>3, <1>4, <1>5 DEF Life

\* An entry serves the instance of its socket only.
LEMMA ServesOne ==
  ASSUME Base, NEW c \in ConnId, NEW d \in ConnId, NEW i \in Inst, NEW j \in Inst,
         Serves(c, i), Serves(d, j), d.idx = c.idx, state[i] # "Idle", state[j] # "Idle"
  PROVE  c = d /\ i = j
BY OnlyHolder DEF Serves

\* The BMM lets a socket go.
LEMMA CloseReqLife ==
  ASSUME Base, Life, HandleCloseReq, UNCHANGED <<mgrVars, appVars, hal>>
  PROVE  Life'
<1>1. PICK c \in ConnId : c = Head(bmmQ).conn
  BY BmmHead DEF HandleCloseReq, Base, TypeOK
<1>2. PICK m : m = Head(bmmQ)
  OBVIOUS
<1>3. /\ BmmReceive("CLOSE_REQ") /\ m.conn = c
      /\ uappQ' = uappQ /\ halQ' = halQ /\ slot' = slot
  BY <1>1, <1>2 DEF HandleCloseReq, appVars
<1>4. InstancesKept /\ hal' = hal /\ UappQKept /\ HalQKept
  BY <1>3, QueuesKept DEF InstancesKept, mgrVars
<1>5. /\ ReqsKept /\ ParamsKept
      /\ \A d \in ConnId :
           /\ Once(bmmQ', DropOf(d))
           /\ In(bmmQ, DropOf(d)) <=> In(bmmQ', DropOf(d)) \/ d = c
           /\ d = c => ~In(bmmQ', DropOf(d))
  BY ONLY <1>2, <1>3, Base, Life, BmmQRead
<1>6. PICK i \in Inst : pseudoId[i] = c /\ state[i] \in Closing /\ Serves(c, i)
  BY <1>5 DEF Life, Drops, Entries
<1>7. c.idx \in Sock /\ IsConnIdValid(c) /\ sock[c.idx].inUse
  BY <1>6 DEF Serves, IsConnIdValid
<1>8. sock' = [sock EXCEPT ![c.idx] = FreeSock]
  BY <1>1, <1>7 DEF HandleCloseReq
<1> DEFINE r == [type |-> "CLOSE_CFM", conn |-> c, ok |-> TRUE]
<1>9. /\ pipe' = Append(pipe, r) /\ r \in PipeMsg /\ r.type = "CLOSE_CFM" /\ r.conn = c /\ r.ok
  BY <1>1, <1>7 DEF HandleCloseReq, PipeMsg, CloseCfmMsg
<1>10. /\ \A l \in Sock \ {c.idx} : sock'[l] = sock[l]
       /\ ~sock'[c.idx].inUse
  BY <1>7, <1>8 DEF Base, TypeOK, BmmTypeOK, FreeSock
<1> HIDE DEF r
<1>11. AsksKept /\ ClosesKept /\ CfmsKept /\ RessKept
  BY <1>9, PipePosted
<1>12. /\ \A d \in ConnId :
            /\ In(pipe', DroppedOf(d)) <=> In(pipe, DroppedOf(d)) \/ d = c
            /\ Once(pipe, DroppedOf(d)) /\ ~(d = c /\ In(pipe, DroppedOf(d)))
                 => Once(pipe', DroppedOf(d))
       /\ In(pipe', NotDropped) <=> In(pipe, NotDropped)
  BY ONLY <1>9, Base, PipePosted
<1>13. state[i] # "Idle" /\ state[i] # "OffloadReq" /\ state[i] \notin Open
  BY <1>6 DEF Closing, Open
<1>14. ASSUME NEW d \in ConnId, NEW j \in Inst, Serves(d, j), state[j] # "Idle", d # c \/ j # i
       PROVE  d.idx # c.idx /\ Serves(d, j)'
  <2>1. d.idx # c.idx
    BY <1>6, <1>13, <1>14, ServesOne
  <2>2. QED
    BY <1>4, <1>7, <1>10, <1>14, <2>1, ServesKept
<1>15. Requests' /\ Answers' /\ HalKnows' /\ Slots' /\ Leaving' /\ Conns' /\ Resting'
  BY <1>3, <1>4, <1>5, <1>11, RequestsKept, AnswersKept, HalKnowsKept, SlotsKept, LeavingKept,
     ConnsKept DEF Life, Resting, InstancesKept, UappQKept, HalQKept
<1>16. Drops'
  BY <1>4, <1>5, <1>6, <1>12, Typed DEF Life, Drops, InstancesKept
<1>17. Entries'
  <2>1. ASSUME NEW j \in Inst, NEW d \in ConnId, In(pipe', TakenOf(j, d))
        PROVE  Serves(d, j)'
    <3>1. Serves(d, j) /\ In(pipe, TakenOf(j, d))
      BY <1>11, <2>1 DEF Life, Entries, CfmsKept
    <3>2. state[j] = "OffloadReq"
      BY <3>1, Wider DEF Life, Requests
    <3>3. QED
      BY <1>13, <1>14, <3>1, <3>2
  <2>2. ASSUME NEW j \in Inst, \/ state[j] \in Open
                               \/ state[j] \in Closing /\ In(bmmQ', DropOf(pseudoId[j]))
        PROVE  Serves(pseudoId[j], j)'
    <3>1. pseudoId[j] \in ConnId /\ pseudoId' = pseudoId /\ state[j] # "Idle"
      BY <1>4, <2>2, Typed DEF InstancesKept, Open, Closing
    <3>2. Serves(pseudoId[j], j)
      BY <1>5, <2>2, <3>1 DEF Life, Entries
    <3>3. j # i \/ pseudoId[j] # c
      BY <1>5, <1>13, <2>2, <3>1
    <3>4. PICK d \in ConnId : d = pseudoId[j]
      BY <3>1
    <3>5. Serves(d, j)'
      BY <1>14, <3>1, <3>2, <3>3, <3>4
    <3>6. QED
      BY <3>1, <3>4, <3>5 DEF Serves
  <2>3. ASSUME NEW l \in Sock, sock'[l].inUse
        PROVE  \E j \in Inst :
                 /\ socketId'[j] = sock'[l].sid
                 /\ \/ state'[j] \in Open
                    \/ state'[j] \in Closing /\ In(bmmQ', DropOf(pseudoId'[j]))
                    \/ In(pipe', TakenOf(j, sock'[l].conn))
    <3>1. l # c.idx /\ sock'[l] = sock[l] /\ l \in InUse /\ sock[l].conn \in ConnId
      BY <1>7, <1>10, <2>3, Typed DEF InUse
    <3>2. PICK j \in Inst :
            /\ socketId[j] = sock[l].sid
            /\ \/ state[j] \in Open
               \/ state[j] \in Closing /\ In(bmmQ, DropOf(pseudoId[j]))
               \/ In(pipe, TakenOf(j, sock[l].conn))
      BY <3>1 DEF Life, Entries
    <3>3. j # i
      <4>1. sock[l].sid # sock[c.idx].sid
        BY <1>7, <3>1 DEF Base, BmmConsistent, InUse
      <4>2. QED
        BY <1>6, <3>2, <4>1 DEF Serves
    <3>4. pseudoId[j] = c /\ state[j] \in Closing /\ In(bmmQ, DropOf(c)) => FALSE
      <4>1. SUFFICES ASSUME pseudoId[j] = c, state[j] \in Closing, In(bmmQ, DropOf(c))
                     PROVE  FALSE
        OBVIOUS
      <4>2. Serves(c, j) /\ state[j] # "Idle"
        BY <4>1 DEF Life, Entries, Closing
      <4>3. QED
        BY <1>6, <1>13, <3>3, <4>2, ServesOne
    <3>5. QED
      BY <1>4, <1>5, <1>11, <3>1, <3>2, <3>4, Typed DEF InstancesKept, CfmsKept
  <2>4. pseudoId' = pseudoId /\ state' = state
    BY <1>4 DEF InstancesKept
  <2>5. QED
    BY <2>1, <2>2, <2>3, <2>4 DEF Entries, InUse
<1>18. Granted'
  <2>1. SUFFICES ASSUME NEW j \in Inst, state[j] = "OffloadToMicroappSuccess"
                 PROVE  sock'[pseudoId[j].idx].credits \/ In(bmmQ', ParamsOf(pseudoId[j]))
    BY <1>4 DEF Granted, InstancesKept
  <2>2. /\ pseudoId[j] \in ConnId /\ Serves(pseudoId[j], j) /\ state[j] # "Idle" /\ j # i
    BY <1>13, <2>1, Typed DEF Life, Entries, Open
  <2>3. pseudoId[j].idx # c.idx /\ pseudoId[j].idx \in Sock
    BY <1>14, <2>2 DEF Serves
  <2>4. sock[pseudoId[j].idx].credits \/ In(bmmQ, ParamsOf(pseudoId[j]))
    BY <2>1 DEF Life, Granted
  <2>5. QED
    BY <1>5, <1>10, <2>2, <2>3, <2>4 DEF ParamsKept
<1>19. QED
  BY <1>15, <1>16, <1>17, <1>18 DEF Life

\* The BMM sets the credits of a socket.
LEMMA SetParamsLife ==
  ASSUME Base, Life, HandleSetParamsReq, UNCHANGED <<mgrVars, appVars, hal>>
  PROVE  Life'
<1>1. PICK c \in ConnId : c = Head(bmmQ).conn
  BY BmmHead DEF HandleSetParamsReq, Base, TypeOK
<1>2. PICK m : m = Head(bmmQ)
  OBVIOUS
<1>3. /\ BmmReceive("SET_PARAMS_REQ") /\ m.conn = c
      /\ pipe' = pipe /\ uappQ' = uappQ /\ halQ' = halQ /\ slot' = slot
      /\ sock' = IF IsConnIdValid(c) THEN [sock EXCEPT ![c.idx].credits = TRUE] ELSE sock
  BY <1>1, <1>2 DEF HandleSetParamsReq, appVars
<1>4. InstancesKept /\ hal' = hal /\ PipeKept /\ UappQKept /\ HalQKept
  BY <1>3, QueuesKept DEF InstancesKept, mgrVars
<1>5. /\ ReqsKept /\ DropsKept
      /\ \A d \in ConnId : In(bmmQ, ParamsOf(d)) <=> In(bmmQ', ParamsOf(d)) \/ d = c
  BY ONLY <1>2, <1>3, Base, Life, BmmQRead
<1>6. /\ \A k \in Sock : /\ sock'[k].inUse = sock[k].inUse
                         /\ sock'[k].conn = sock[k].conn /\ sock'[k].sid = sock[k].sid
                         /\ sock[k].credits => sock'[k].credits
      /\ IsConnIdValid(c) => c.idx \in Sock /\ sock'[c.idx].credits
  BY <1>3 DEF IsConnIdValid, Base, TypeOK, BmmTypeOK, UsedSock, FreeSock
<1>7. Requests' /\ Entries' /\ Answers' /\ Drops' /\ HalKnows' /\ Slots' /\ Leaving' /\ Conns'
      /\ Resting'
  BY <1>3, <1>4, <1>5, <1>6, RequestsKept, EntriesKeep, AnswersKept, DropsKeep, HalKnowsKept,
     SlotsKept, LeavingKept, ConnsKept
     DEF Life, Resting, InstancesKept, PipeKept, UappQKept, HalQKept
<1>8. Granted'
  <2>1. SUFFICES ASSUME NEW j \in Inst, state[j] = "OffloadToMicroappSuccess"
                 PROVE  sock'[pseudoId[j].idx].credits \/ In(bmmQ', ParamsOf(pseudoId[j]))
    BY <1>4 DEF Granted, InstancesKept
  <2>2. /\ pseudoId[j] \in ConnId /\ Serves(pseudoId[j], j)
    BY <2>1, Typed DEF Life, Entries, Open
  <2>3. sock[pseudoId[j].idx].credits \/ In(bmmQ, ParamsOf(pseudoId[j]))
    BY <2>1 DEF Life, Granted
  <2>4. CASE pseudoId[j] = c
    BY <1>6, <2>2, <2>4 DEF Serves, IsConnIdValid
  <2>5. CASE pseudoId[j] # c
    BY <1>5, <1>6, <2>2, <2>3, <2>5 DEF Serves
  <2>6. QED
    BY <2>4, <2>5
<1>9. QED
  BY <1>7, <1>8 DEF Life

\* The peer of a socket breaks a rule of the link.
LEMMA LinkViolationLife ==
  ASSUME Base, Life, NEW k \in Sock, LinkViolation(k), UNCHANGED <<mgrVars, appVars, hal>>
  PROVE  Life'
<1> DEFINE r == [type |-> "ERROR_IND", proto |-> sock[k].proto]
<1>1. /\ bmmQ' = bmmQ /\ uappQ' = uappQ /\ halQ' = halQ /\ slot' = slot
      /\ pipe' = Append(pipe, r) /\ r.type = "ERROR_IND"
      /\ sock' = [sock EXCEPT ![k].inError = TRUE] /\ sock[k].inUse
  BY DEF LinkViolation, appVars
<1>2. r \in PipeMsg
  <2>1. sock[k] \in UsedSock
    BY <1>1, Typed DEF FreeSock
  <2>2. QED
    BY <2>1 DEF UsedSock, PipeMsg, ErrorIndMsg
<1>3. InstancesKept /\ hal' = hal /\ BmmQKept /\ UappQKept /\ HalQKept
  BY <1>1, QueuesKept DEF InstancesKept, mgrVars
<1>4. \A l \in Sock : /\ sock'[l].inUse = sock[l].inUse
                      /\ sock'[l].conn = sock[l].conn /\ sock'[l].sid = sock[l].sid
                      /\ sock[l].credits => sock'[l].credits
  BY <1>1 DEF Base, TypeOK, BmmTypeOK, UsedSock, FreeSock
<1> HIDE DEF r
<1>5. PipeKept
  BY <1>1, <1>2, PipePosted DEF PipeKept
<1>6. QED
  BY <1>1, <1>3, <1>4, <1>5, RequestsKept, EntriesKeep, AnswersKept, DropsKeep, HalKnowsKept,
     SlotsKept, LeavingKept, ConnsKept, GrantedKept
     DEF Life, Resting, InstancesKept, PipeKept, BmmQKept, UappQKept, HalQKept

-----------------------------------------------------------------------------
(* The steps of the HAL.                                                   *)

\* At most one answer in the queue of the HAL ends the life of a socket.
LEMMA OneFinal ==
  ASSUME Base, NEW s \in SocketId
  PROVE  Once(halQ, NakOf(s) \cup DoneOf(s))
<1>1. AtMostOne(AnsweredAt(s))
  BY DEF Base, OneHolder, HeldOnce
<1>2. \A n \in DOMAIN halQ : halQ[n] \in HalMsg
  BY LenProperties, ElementOfSeq DEF Base, TypeOK, ChannelsTypeOK
<1>3. \A n \in DOMAIN halQ :
        halQ[n] \in NakOf(s) \cup DoneOf(s) => IsFinal(halQ[n]) /\ halQ[n].sid = s
  BY <1>2, HalKinds DEF IsFinal
<1>4. QED
  BY <1>1, <1>3 DEF AtMostOne, AnsweredAt, Once

\* What the HAL does touches only what is known about its sockets.
LEMMA HalActsLife ==
  ASSUME Base, Life, HalKnows', CfmsKept, RessKept, DroppedKept, BmmQKept, UappQKept,
         UNCHANGED <<mgrVars, bmmVars, appVars>>
  PROVE  Life'
<1>1. InstancesKept /\ sock' = sock /\ slot' = slot /\ state' = state
  BY DEF InstancesKept, mgrVars, bmmVars, appVars
<1>2. QED
  BY <1>1, RequestsKept, EntriesKeep, AnswersKept, DropsKeep, SlotsKept, LeavingKept, ConnsKept,
     GrantedKept DEF Life, Resting, BmmQKept, UappQKept

\* The HAL asks for a socket it does not hold.
LEMMA HalOpenLife ==
  ASSUME Base, Life, NEW s \in SocketId, NEW o \in Offers, HalOpen(s, o),
         UNCHANGED <<mgrVars, bmmVars, appVars>>
  PROVE  Life'
<1> DEFINE r == [type |-> "OPEN_SOCKET", sid |-> s, proto |-> o[1], ep |-> o[2]]
<1>1. /\ hal[s] = "closed" /\ hal' = [hal EXCEPT ![s] = "opening"]
      /\ pipe' = Append(pipe, r) /\ r.type = "OPEN_SOCKET" /\ r.sid = s
      /\ bmmQ' = bmmQ /\ uappQ' = uappQ /\ halQ' = halQ
  BY DEF HalOpen
<1>2. r \in PipeMsg
  BY OffersAssumption DEF PipeMsg, OpenMsg
<1> HIDE DEF r
<1>3. /\ ClosesKept /\ CfmsKept /\ RessKept /\ DroppedKept /\ BmmQKept /\ UappQKept /\ AcksKept
      /\ FinalsKept
  BY <1>1, <1>2, QueuesKept, PipePosted DEF HalQKept
<1>4. \A t \in SocketId : In(pipe', AskOf(t)) <=> In(pipe, AskOf(t)) \/ t = s
  BY ONLY <1>1, <1>2, Base, PipePosted
<1>5. \A t \in SocketId : hal'[t] = IF t = s THEN "opening" ELSE hal[t]
  BY <1>1 DEF Base, TypeOK
<1>6. /\ \A i \in Inst : state[i] # "Idle" => socketId[i] # s
      /\ ~In(halQ, NakOf(s)) /\ ~In(halQ, DoneOf(s))
  BY <1>1, WhereLifeIs
<1>7. ~In(pipe, CloseOf(s)) /\ ~In(halQ, AckOf(s))
  BY <1>1 DEF Life, HalKnows
<1>8. UNCHANGED <<state, socketId>> /\ \A t \in SocketId : Offered(t)' <=> Offered(t)
  BY DEF Offered, mgrVars
<1>9. HalKnows'
  BY <1>3, <1>4, <1>5, <1>6, <1>7, <1>8, Typed
     DEF Life, HalKnows, ClosesKept, AcksKept, FinalsKept
<1>10. QED
  BY <1>3, <1>9, HalActsLife

\* The HAL closes a socket it holds.
LEMMA HalCloseLife ==
  ASSUME Base, Life, PatientHal, NEW s \in SocketId, HalClose(s),
         UNCHANGED <<mgrVars, bmmVars, appVars>>
  PROVE  Life'
<1> DEFINE r == [type |-> "CLOSE_SOCKET", sid |-> s]
<1>1. /\ hal[s] = "open" /\ hal' = [hal EXCEPT ![s] = "closing"]
      /\ pipe' = Append(pipe, r) /\ r.type = "CLOSE_SOCKET" /\ r.sid = s
      /\ bmmQ' = bmmQ /\ uappQ' = uappQ /\ halQ' = halQ
  BY DEF HalClose, PatientHal
<1>2. r \in PipeMsg
  BY DEF PipeMsg, CloseMsg
<1> HIDE DEF r
<1>3. /\ AsksKept /\ CfmsKept /\ RessKept /\ DroppedKept /\ BmmQKept /\ UappQKept /\ AcksKept
      /\ FinalsKept
  BY <1>1, <1>2, QueuesKept, PipePosted DEF HalQKept
<1>4. \A t \in SocketId :
        /\ In(pipe', CloseOf(t)) <=> In(pipe, CloseOf(t)) \/ t = s
        /\ Once(pipe, CloseOf(t)) /\ ~(t = s /\ In(pipe, CloseOf(t))) => Once(pipe', CloseOf(t))
  BY ONLY <1>1, <1>2, Base, PipePosted
<1>5. \A t \in SocketId : hal'[t] = IF t = s THEN "closing" ELSE hal[t]
  BY <1>1 DEF Base, TypeOK
<1>6. /\ ~In(pipe, CloseOf(s)) /\ ~In(halQ, AckOf(s)) /\ ~In(pipe, AskOf(s))
      /\ ~In(halQ, NakOf(s)) /\ ~In(halQ, DoneOf(s))
  BY <1>1 DEF Life, HalKnows
<1>7. PICK i \in Inst : state[i] = "OffloadToMicroappSuccess" /\ socketId[i] = s
  <2>1. PICK i \in Inst : state[i] # "Idle" /\ socketId[i] = s
    BY <1>1, <1>6, WhereLifeIs
  <2>2. state[i] = "OffloadToMicroappSuccess"
    BY <1>1, <2>1 DEF Life, HalKnows, Resting, Known, Open, Closing
  <2>3. QED
    BY <2>1, <2>2
<1>8. UNCHANGED <<state, socketId>> /\ \A t \in SocketId : Offered(t)' <=> Offered(t)
  BY DEF Offered, mgrVars
<1>9. Offered(s)
  BY <1>7 DEF Offered
<1>10. \A j \in Inst : state[j] # "Idle" /\ socketId[j] = s => j = i
  BY <1>7, OnlyHolder
<1>11. HalKnows'
  BY <1>3, <1>4, <1>5, <1>6, <1>7, <1>8, <1>9, <1>10, Typed
     DEF Life, HalKnows, AsksKept, AcksKept, FinalsKept
<1>12. QED
  BY <1>3, <1>11, HalActsLife

\* The HAL reads an answer.
LEMMA HalReceiveLife ==
  ASSUME Base, Life, HalReceive, UNCHANGED <<mgrVars, bmmVars, appVars>>
  PROVE  Life'
<1>1. PICK m : m = Head(halQ)
  OBVIOUS
<1>2. /\ halQ # <<>> /\ halQ' = Tail(halQ) /\ pipe' = pipe /\ bmmQ' = bmmQ /\ uappQ' = uappQ
      /\ hal' = CASE m.type = "CLOSE_RSP" -> [hal EXCEPT ![m.sid] = "closed"]
                  [] m.type = "OPEN_RSP" /\ ~m.ok -> [hal EXCEPT ![m.sid] = "closed"]
                  [] m.type = "OPEN_RSP" /\ m.ok /\ hal[m.sid] = "opening" ->
                       [hal EXCEPT ![m.sid] = "open"]
                  [] OTHER -> hal
  BY <1>1 DEF HalReceive
<1>3. /\ m \in HalMsg
      /\ \A t \in SocketId :
           /\ Once(halQ', AckOf(t))
           /\ In(halQ, AckOf(t))
                <=> In(halQ', AckOf(t)) \/ (m.type = "OPEN_RSP" /\ m.ok /\ t = m.sid)
           /\ m.type = "OPEN_RSP" /\ m.ok /\ t = m.sid => ~In(halQ', AckOf(t))
           /\ In(halQ, NakOf(t))
                <=> In(halQ', NakOf(t)) \/ (m.type = "OPEN_RSP" /\ ~m.ok /\ t = m.sid)
           /\ In(halQ, DoneOf(t)) <=> In(halQ', DoneOf(t)) \/ (m.type = "CLOSE_RSP" /\ t = m.sid)
  BY ONLY <1>1, <1>2, Base, Life, HalQRead
<1>4. PICK s \in SocketId : s = m.sid
  BY <1>1, <1>2, HalHead DEF Base, TypeOK
<1>5. PipeKept /\ BmmQKept /\ UappQKept
  BY <1>2, QueuesKept
<1>6. UNCHANGED <<state, socketId>> /\ \A t \in SocketId : Offered(t)' <=> Offered(t)
  BY DEF Offered, mgrVars
<1>7. AsksKept /\ ClosesKept
  BY <1>5 DEF PipeKept
<1>8. HalKnows'
  <2>1. CASE m.type = "OPEN_RSP" /\ m.ok
    <3>1. hal[s] = "opening" /\ Offered(s) /\ In(halQ, AckOf(s))
      BY <1>3, <1>4, <2>1 DEF Life, HalKnows
    <3>2. \A t \in SocketId : hal'[t] = IF t = s THEN "open" ELSE hal[t]
      BY <1>2, <1>4, <2>1, <3>1 DEF Base, TypeOK
    <3>3. PICK i \in Inst : state[i] = "OffloadToMicroappSuccess" /\ socketId[i] = s
      BY <3>1 DEF Offered
    <3>4. \A j \in Inst : state[j] # "Idle" /\ socketId[j] = s => j = i
      BY <3>3, OnlyHolder
    <3>5. ~In(pipe, AskOf(s)) /\ ~In(halQ, NakOf(s)) /\ ~In(halQ, DoneOf(s))
      BY <3>3, WhereLifeIs
    <3>6. ~In(pipe, CloseOf(s))
      BY <3>1 DEF Life, HalKnows
    <3>7. QED
      BY <1>3, <1>4, <1>6, <1>7, <2>1, <3>2, <3>3, <3>4, <3>5, <3>6, Typed
         DEF Life, HalKnows, AsksKept, ClosesKept
  <2>2. CASE m.type = "CLOSE_RSP" \/ (m.type = "OPEN_RSP" /\ ~m.ok)
    <3>1. In(halQ, NakOf(s)) \/ In(halQ, DoneOf(s))
      BY <1>3, <1>4, <2>2
    <3>2. \A t \in SocketId : hal'[t] = IF t = s THEN "closed" ELSE hal[t]
      BY <1>2, <1>4, <2>2 DEF Base, TypeOK
    <3>3. \A i \in Inst : state[i] # "Idle" => socketId[i] # s
      BY <3>1, WhereLifeIs
    <3>4. ~Offered(s)
      BY <3>3 DEF Offered
    <3>5. ~In(pipe, CloseOf(s)) /\ ~In(halQ, AckOf(s)) /\ ~In(pipe, AskOf(s))
      BY <3>1, <3>4, WhereLifeIs DEF Life, HalKnows
    <3>6. ~In(halQ', NakOf(s)) /\ ~In(halQ', DoneOf(s))
      <4> DEFINE M == NakOf(s) \cup DoneOf(s)
      <4>1. m \in M
        BY <1>3, <1>4, <2>2, HalKinds
      <4>2. Once(halQ, M)
        BY OneFinal
      <4> HIDE DEF M
      <4>3. ~In(halQ', M)
        BY <1>1, <1>2, <4>1, <4>2, QueueLoses DEF Base, TypeOK, ChannelsTypeOK
      <4>4. QED
        BY <4>3, InSubset DEF M
    <3>7. QED
      BY <1>3, <1>4, <1>6, <1>7, <2>2, <3>2, <3>3, <3>5, <3>6, Typed
         DEF Life, HalKnows, AsksKept, ClosesKept
  <2>3. QED
    BY <1>3, <2>1, <2>2 DEF HalMsg
<1>9. QED
  BY <1>5, <1>8, HalActsLife DEF PipeKept

-----------------------------------------------------------------------------
(* The steps of the offload manager.                                       *)

\* What a handler does that raises an event the table has a row for.
LEMMA Processed ==
  ASSUME Base, NEW i \in Inst, NEW e, NEW u, HasRow(state[i], e), NextState(state[i], e) = u,
         Process(i, e)
  PROVE  /\ \A j \in Inst : state'[j] = IF j = i THEN Rest(u) ELSE state[j]
         /\ ToBmm(i, u) = <<>> => bmmQ' = bmmQ
         /\ ToUapp(i, u) = <<>> => uappQ' = uappQ
         /\ ToHal(i, u) = <<>> => halQ' = halQ
         /\ \A m \in BmmMsg : ToBmm(i, u) = <<m>> => bmmQ' = Append(bmmQ, m)
         /\ \A m \in UappMsg : ToUapp(i, u) = <<m>> => uappQ' = Append(uappQ, m)
         /\ \A m \in HalMsg : ToHal(i, u) = <<m>> => halQ' = Append(halQ, m)
<1>1. Enter(i, u) /\ state \in [Inst -> State]
  BY DEF Process, Base, TypeOK, MgrTypeOK
<1>2. /\ bmmQ \in Seq(BmmMsg) /\ uappQ \in Seq(UappMsg) /\ halQ \in Seq(HalMsg)
  BY DEF Base, TypeOK, ChannelsTypeOK
<1>3. /\ bmmQ \o <<>> = bmmQ /\ uappQ \o <<>> = uappQ /\ halQ \o <<>> = halQ
      /\ \A m \in BmmMsg : bmmQ \o <<m>> = Append(bmmQ, m)
      /\ \A m \in UappMsg : uappQ \o <<m>> = Append(uappQ, m)
      /\ \A m \in HalMsg : halQ \o <<m>> = Append(halQ, m)
  BY <1>2, ConcatEmptySeq, AppendIsConcat
<1>4. QED
  BY <1>1, <1>3 DEF Enter

\* A queue without messages of a kind has them ahead and behind as one likes.
LEMMA NoneAhead ==
  ASSUME NEW q, NEW M, NEW N, ~In(q, M) \/ ~In(q, N)
  PROVE  Ahead(q, M, N)
BY DEF In, Ahead

\* A busy instance whose connection has the low bits of a socket id is the one
\* of that socket.
LEMMA LowIsSocket ==
  ASSUME Base, Life, PatientHal, NEW j \in Inst, state[j] \in Known,
         NEW s \in SocketId, pseudoId[j].low = s % IdSpace
  PROVE  socketId[j] = s
<1>1. state[j] # "Idle" /\ socketId[j] \in SocketId
  BY Typed DEF Known, Open, Closing
<1>2. pseudoId[j].low = socketId[j] % IdSpace
  BY DEF Life, Conns
<1>3. QED
  BY <1>1, <1>2 DEF PatientHal

\* An open request takes an idle instance and asks the BMM.
LEMMA OpenSocketLife ==
  ASSUME Base, Life, PatientHal, HandleOpenSocket, UNCHANGED <<bmmVars, appVars, hal>>
  PROVE  Life'
<1>1. PICK m \in OpenMsg : m = Head(pipe)
  BY PipeHead DEF HandleOpenSocket, Base, TypeOK
<1>2. PICK s \in SocketId, p \in Protocol, ep \in Endpoint :
        m.sid = s /\ m.proto = p /\ m.ep = ep
  BY DEF OpenMsg
<1>3. PICK i \in Inst :
        i = FindIdleInstance /\ state[i] = "Idle" /\ \A j \in Inst : j < i => state[j] # "Idle"
  <2>1. IdleInst # {} /\ IdleInst \subseteq Nat
    BY DEF HandleOpenSocket, IdleInst, Inst
  <2>2. FindIdleInstance \in IdleInst /\ \A j \in IdleInst : FindIdleInstance <= j
    BY <2>1, MinIsLeast DEF FindIdleInstance
  <2>3. QED
    BY <2>2 DEF IdleInst, Inst
<1>4. /\ Receive("OPEN_SOCKET")
      /\ socketId' = [socketId EXCEPT ![i] = s] /\ epId' = [epId EXCEPT ![i] = ep]
      /\ socketType' = [socketType EXCEPT ![i] = p]
      /\ pseudoId' = pseudoId /\ Process(i, "OFFLOAD_REQ")
  BY <1>1, <1>2, <1>3 DEF HandleOpenSocket
<1>5. /\ \A j \in Inst : socketId'[j] = IF j = i THEN s ELSE socketId[j]
      /\ \A j \in Inst : epId'[j] = IF j = i THEN ep ELSE epId[j]
      /\ socketType'[i] = p
  BY <1>3, <1>4 DEF Base, TypeOK, MgrTypeOK
<1> DEFINE r == [type |-> "OFFLOAD_REQ", sid |-> s, proto |-> p, inst |-> i]
<1>6. r \in BmmMsg /\ r.type = "OFFLOAD_REQ" /\ r.inst = i /\ r.sid = s
  BY <1>2, <1>3 DEF BmmMsg
<1>7. /\ ToBmm(i, "OffloadReq") = <<r>>
      /\ ToUapp(i, "OffloadReq") = <<>> /\ ToHal(i, "OffloadReq") = <<>>
  BY <1>3, <1>5 DEF ToBmm, ToUapp, ToHal
<1> HIDE DEF r
<1>8. /\ \A j \in Inst : state'[j] = IF j = i THEN "OffloadReq" ELSE state[j]
      /\ bmmQ' = Append(bmmQ, r) /\ uappQ' = uappQ /\ halQ' = halQ
  <2>1. PICK e, u : e = "OFFLOAD_REQ" /\ u = "OffloadReq"
    OBVIOUS
  <2>2. HasRow(state[i], e) /\ NextState(state[i], e) = u /\ Rest(u) = u /\ Process(i, e)
    BY <1>3, <1>4, <2>1, Moves, Rests
  <2>3. ToBmm(i, u) = <<r>> /\ ToUapp(i, u) = <<>> /\ ToHal(i, u) = <<>>
    BY <1>7, <2>1
  <2>4. /\ \A j \in Inst : state'[j] = IF j = i THEN u ELSE state[j]
        /\ bmmQ' = Append(bmmQ, r) /\ uappQ' = uappQ /\ halQ' = halQ
    <3>1. i \in Inst
      OBVIOUS
    <3>2. QED
      BY ONLY Base, <1>6, <2>2, <2>3, <3>1, Processed
  <2>5. QED
    BY <2>1, <2>4
<1>9. hal' = hal /\ sock' = sock /\ slot' = slot
  BY DEF bmmVars, appVars
<1>10. /\ ClosesKept /\ CfmsKept /\ RessKept /\ DroppedKept /\ DropsKept /\ ParamsKept
       /\ UappQKept /\ OpenReqsKept /\ LeavesKept /\ AcksKept /\ FinalsKept
  BY <1>1, <1>4, <1>6, <1>8, QueuesKept, PipeRead, BmmQPosted DEF UappQKept, HalQKept
<1>11. \A t \in SocketId : In(pipe, AskOf(t)) <=> In(pipe', AskOf(t)) \/ t = s
  BY ONLY <1>1, <1>2, <1>4, Base, Life, PipeRead
<1>12. /\ \A j \in Inst :
            /\ In(bmmQ', ReqOf(j)) <=> In(bmmQ, ReqOf(j)) \/ j = i
            /\ Once(bmmQ, ReqOf(j)) /\ ~(j = i /\ In(bmmQ, ReqOf(j))) => Once(bmmQ', ReqOf(j))
            /\ \A t \in SocketId :
                 In(bmmQ', ReqFor(j, t)) <=> In(bmmQ, ReqFor(j, t)) \/ (j = i /\ t = s)
       /\ \A j, l \in Inst :
            Ahead(bmmQ, ReqOf(l), ReqOf(j)) /\ ~(l = i /\ (In(bmmQ, ReqOf(j)) \/ j = i))
              => Ahead(bmmQ', ReqOf(l), ReqOf(j))
  BY ONLY <1>6, <1>8, Base, BmmQPosted
<1>13. /\ hal[s] = "opening" /\ \A j \in Inst : state[j] # "Idle" => socketId[j] # s
  BY <1>11, WhereLifeIs DEF Life, HalKnows
<1>14. /\ ~In(bmmQ, ReqOf(i)) /\ ~In(pipe, CfmOf(i)) /\ ~In(pipe', CfmOf(i))
       /\ \A t \in SocketId : ~In(bmmQ, ReqFor(i, t))
       /\ \A c \in ConnId : ~In(pipe, TakenOf(i, c))
  BY <1>3, <1>10, Wider DEF Life, Requests, CfmsKept
<1>15. Resting'
  BY <1>8 DEF Life, Resting
<1>16. Requests'
  <2>1. ASSUME NEW j \in Inst
        PROVE  /\ Once(bmmQ', ReqOf(j)) /\ Once(pipe', CfmOf(j))
               /\ ~In(bmmQ', ReqOf(j)) \/ ~In(pipe', CfmOf(j))
               /\ state'[j] = "OffloadReq" <=> In(bmmQ', ReqOf(j)) \/ In(pipe', CfmOf(j))
    BY <1>8, <1>10, <1>12, <1>14 DEF Life, Requests, CfmsKept
  <2>2. \A j \in Inst, t \in SocketId : In(bmmQ', ReqFor(j, t)) => socketId'[j] = t
    BY <1>5, <1>12, <1>14 DEF Life, Requests
  <2>3. ~In(pipe', RefusedAs)
    BY <1>10 DEF Life, Requests, CfmsKept
  <2>4. QED
    BY <2>1, <2>2, <2>3 DEF Requests
<1>17. Entries'
  <2>1. \A c \in ConnId, j \in Inst : j # i => (Serves(c, j)' <=> Serves(c, j))
    BY <1>5, <1>9 DEF Serves
  <2>2. InUse' = InUse
    BY <1>9 DEF InUse
  <2>3. \A j \in Inst, c \in ConnId : In(pipe', TakenOf(j, c)) => j # i /\ Serves(c, j)'
    BY <1>10, <1>14, <2>1 DEF Life, Entries, CfmsKept
  <2>4. \A j \in Inst :
          state'[j] \in Open \/ (state'[j] \in Closing /\ In(bmmQ', DropOf(pseudoId[j])))
            => Serves(pseudoId[j], j)'
    <3>1. ASSUME NEW j \in Inst, NEW c \in ConnId, c = pseudoId[j],
                 state'[j] \in Open \/ (state'[j] \in Closing /\ In(bmmQ', DropOf(c)))
          PROVE  Serves(c, j)'
      <4>1. j # i /\ state'[j] = state[j]
        BY <1>8, <3>1 DEF Open, Closing
      <4>2. Serves(c, j)
        BY <1>10, <3>1, <4>1 DEF Life, Entries, DropsKept
      <4>3. QED
        BY <2>1, <4>1, <4>2
    <3>2. QED
      BY <1>4, <3>1, Typed DEF Serves
  <2>5. ASSUME NEW k \in InUse
        PROVE  \E j \in Inst :
                 /\ socketId'[j] = sock[k].sid
                 /\ \/ state'[j] \in Open
                    \/ state'[j] \in Closing /\ In(bmmQ', DropOf(pseudoId[j]))
                    \/ In(pipe', TakenOf(j, sock[k].conn))
    <3>1. PICK j \in Inst :
            /\ socketId[j] = sock[k].sid
            /\ \/ state[j] \in Open
               \/ state[j] \in Closing /\ In(bmmQ, DropOf(pseudoId[j]))
               \/ In(pipe, TakenOf(j, sock[k].conn))
      BY DEF Life, Entries
    <3>2. sock[k].conn \in ConnId /\ pseudoId[j] \in ConnId
      BY Typed
    <3>3. j # i
      BY <1>3, <1>14, <3>1, <3>2 DEF Open, Closing
    <3>4. QED
      BY <1>5, <1>8, <1>10, <3>1, <3>2, <3>3 DEF CfmsKept, DropsKept
  <2>6. QED
    BY <1>4, <1>9, <2>2, <2>3, <2>4, <2>5 DEF Entries
<1>18. Answers'
  <2>1. \A j \in Inst : state'[j] = "OffloadToMicrostackSuccess" =>
          j # i /\ state[j] = "OffloadToMicrostackSuccess" /\ socketId[j] \in SocketId
    BY <1>8, Typed
  <2>2. \A j \in Inst : state[j] = "OffloadToMicrostackSuccess" =>
          j # i /\ state'[j] = "OffloadToMicrostackSuccess"
    BY <1>3, <1>8
  <2>3. QED
    BY <1>5, <1>10, <2>1, <2>2 DEF Life, Answers, RessKept, OpenReqsKept
<1>19. Drops'
  <2>1. \A j \in Inst : state'[j] \in Closing <=> state[j] \in Closing
    BY <1>3, <1>8 DEF Closing
  <2>2. QED
    BY <1>4, <1>10, <2>1, Typed DEF Life, Drops, DropsKept, DroppedKept
<1>20. \A j \in Inst :
         state'[j] = "OffloadToMicroappSuccess" <=> state[j] = "OffloadToMicroappSuccess"
  BY <1>3, <1>8
<1>21. HalKnows'
  <2>1. \A t \in SocketId : Offered(t)' <=> Offered(t)
    BY <1>3, <1>5, <1>20 DEF Offered
  <2>2. \A t \in SocketId : In(pipe', AskOf(t)) => In(pipe, AskOf(t))
    BY <1>11
  <2>3. \A j \in Inst : \/ state'[j] = state[j] /\ socketId'[j] = socketId[j]
                        \/ state'[j] = "OffloadReq" /\ hal[socketId'[j]] = "opening"
    BY <1>5, <1>8, <1>13
  <2>4. QED
    BY <1>9, <1>10, <2>1, <2>2, <2>3, Typed DEF Life, HalKnows, ClosesKept, AcksKept, FinalsKept
<1>22. Slots'
  <2>1. ASSUME NEW j \in Inst,
               state[j] = "OffloadToMicroappSuccess" \/ state[j] = "OffloadToMicrostackSuccess"
        PROVE  state'[j] = state[j] /\ socketId'[j] = socketId[j] /\ epId'[j] = epId[j]
    BY <1>3, <1>5, <1>8, <2>1
  <2>2. ASSUME NEW j \in Inst,
               state'[j] = "OffloadToMicroappSuccess" \/ state'[j] = "OffloadToMicrostackSuccess"
        PROVE  /\ state'[j] = state[j] /\ socketId'[j] = socketId[j] /\ epId'[j] = epId[j]
               /\ socketId[j] \in SocketId
    BY <1>5, <1>8, <2>2, Typed
  <2>3. QED
    BY <1>9, <1>10, <2>1, <2>2, Typed DEF Life, Slots, SlotsOf, RessKept, LeavesKept, Endpoint
<1>23. Leaving'
  <2>1. \A j \in Inst : state'[j] \in Known => state'[j] = state[j] /\ socketId'[j] = socketId[j]
    BY <1>5, <1>8 DEF Known, Open, Closing
  <2>2. QED
    BY <1>9, <1>10, <2>1 DEF Life, Leaving, SlotsOf, UappQKept, LeavesKept, OpenReqsKept
<1>24. Conns'
  <2>1. \A j \in Inst : state'[j] \in Known => state'[j] = state[j] /\ socketId'[j] = socketId[j]
    BY <1>5, <1>8 DEF Known, Open, Closing
  <2>2. \A j \in Inst :
          state'[j] \in Known =>
            /\ pseudoId[j] # NoConn /\ pseudoId[j].low = socketId'[j] % IdSpace
            /\ \A l \in Inst : pseudoId[l] = pseudoId[j] => j <= l
    BY <2>1 DEF Life, Conns
  <2>3. ASSUME NEW j \in Inst, NEW l \in Inst, state'[j] = "OffloadReq", l < j,
               pseudoId[l] # NoConn, pseudoId[l].low = socketId'[j] % IdSpace
        PROVE  /\ state'[l] = "OffloadReq"
               /\ Ahead(pipe', CfmOf(l), CfmOf(j)) /\ Ahead(bmmQ', ReqOf(l), ReqOf(j))
               /\ ~In(pipe', CfmOf(j)) \/ ~In(bmmQ', ReqOf(l))
    <3>1. l # j
      BY <2>3 DEF Inst
    <3>2. CASE j = i
      <4>1. state[l] # "Idle" /\ pseudoId[l].low = s % IdSpace
        BY <1>3, <1>5, <2>3, <3>2
      <4>2. state[l] \notin Known
        BY <1>13, <4>1, LowIsSocket
      <4>3. state[l] = "OffloadReq"
        BY <4>1, <4>2 DEF Life, Resting
      <4>4. Ahead(pipe', CfmOf(l), CfmOf(i)) /\ Ahead(bmmQ, ReqOf(l), ReqOf(i))
        BY <1>14, NoneAhead
      <4>5. QED
        BY <1>8, <1>12, <1>14, <3>1, <3>2, <4>3, <4>4
    <3>3. CASE j # i
      <4>1. /\ state[l] = "OffloadReq"
            /\ Ahead(pipe, CfmOf(l), CfmOf(j)) /\ Ahead(bmmQ, ReqOf(l), ReqOf(j))
            /\ ~In(pipe, CfmOf(j)) \/ ~In(bmmQ, ReqOf(l))
        BY <1>5, <1>8, <2>3, <3>3 DEF Life, Conns
      <4>2. l # i
        BY <1>3, <4>1
      <4>3. QED
        BY <1>8, <1>10, <1>12, <4>1, <4>2 DEF CfmsKept
    <3>4. QED
      BY <3>2, <3>3
  <2>4. QED
    BY <1>4, <2>2, <2>3 DEF Conns
<1>25. Granted'
  BY <1>4, <1>9, <1>10, <1>20, Typed DEF Life, Granted, ParamsKept
<1>26. QED
  BY <1>15, <1>16, <1>17, <1>18, <1>19, <1>21, <1>22, <1>23, <1>24, <1>25 DEF Life

\* An open request finds no idle instance and is answered at once.
LEMMA NoInstanceLife ==
  ASSUME Base, Life, HandleOpenNoInstance, UNCHANGED <<bmmVars, appVars, hal>>
  PROVE  Life'
<1>1. PICK m \in OpenMsg : m = Head(pipe)
  BY PipeHead DEF HandleOpenNoInstance, Base, TypeOK
<1>2. PICK s \in SocketId : m.sid = s
  BY DEF OpenMsg
<1>3. PICK r : r = OpenRsp(s, FALSE)
  OBVIOUS
<1>4. /\ Receive("OPEN_SOCKET") /\ halQ' = Append(halQ, r) /\ bmmQ' = bmmQ /\ uappQ' = uappQ
      /\ InstancesKept /\ sock' = sock /\ slot' = slot /\ hal' = hal
  BY <1>1, <1>2, <1>3 DEF HandleOpenNoInstance, InstancesKept, mgrVars, bmmVars, appVars
<1>5. r \in HalMsg /\ r.type = "OPEN_RSP" /\ ~r.ok /\ r.sid = s
  BY <1>3 DEF HalMsg, OpenRsp
<1>6. /\ ClosesKept /\ CfmsKept /\ RessKept /\ DroppedKept /\ BmmQKept /\ UappQKept /\ AcksKept
      /\ \A t \in SocketId : In(pipe, AskOf(t)) <=> In(pipe', AskOf(t)) \/ t = s
  BY <1>1, <1>2, <1>4, <1>5, QueuesKept, PipeRead, HalQPosted
<1>7. \A t \in SocketId :
        /\ In(halQ', NakOf(t)) <=> In(halQ, NakOf(t)) \/ t = s
        /\ In(halQ', DoneOf(t)) <=> In(halQ, DoneOf(t))
  BY ONLY <1>4, <1>5, Base, HalQPosted
<1>8. hal[s] = "opening"
  BY <1>6 DEF Life, HalKnows
<1>9. \A t \in SocketId : Offered(t)' <=> Offered(t)
  BY <1>4 DEF Offered, InstancesKept
<1>10. HalKnows'
  BY <1>4, <1>6, <1>7, <1>8, <1>9, Typed DEF Life, HalKnows, ClosesKept, AcksKept, InstancesKept
<1>11. QED
  BY <1>4, <1>6, <1>10, RequestsKept, EntriesKeep, AnswersKept, DropsKeep, SlotsKept,
     LeavingKept, ConnsKept, GrantedKept
     DEF Life, Resting, InstancesKept, BmmQKept, UappQKept

\* An error of a link is not acted on.
LEMMA ErrorIndLife ==
  ASSUME Base, Life, HandleErrorInd, UNCHANGED <<bmmVars, appVars, hal>>
  PROVE  Life'
<1>1. PICK m : m = Head(pipe)
  OBVIOUS
<1>2. /\ Receive("ERROR_IND") /\ bmmQ' = bmmQ /\ uappQ' = uappQ /\ halQ' = halQ
      /\ InstancesKept /\ sock' = sock /\ slot' = slot /\ hal' = hal
  BY DEF HandleErrorInd, InstancesKept, dataVars, bmmVars, appVars
<1>3. /\ AsksKept /\ ClosesKept /\ CfmsKept /\ RessKept /\ DroppedKept
      /\ BmmQKept /\ UappQKept /\ HalQKept
  BY <1>1, <1>2, QueuesKept, PipeRead
<1>4. QED
  BY <1>2, <1>3, RequestsKept, EntriesKeep, AnswersKept, DropsKeep, SlotsKept, HalKnowsKept,
     LeavingKept, ConnsKept, GrantedKept
     DEF Life, Resting, InstancesKept, BmmQKept, UappQKept, HalQKept

\* The parts that are about the BMM, when an instance leaves its open states
\* and asks the BMM to let its connection go.
LEMMA LetsGo ==
  ASSUME Base, Life, NEW i \in Inst, NEW t \in Closing, NEW c \in ConnId,
         state[i] \in Open, pseudoId[i] = c,
         \A j \in Inst : state'[j] = IF j = i THEN t ELSE state[j],
         UNCHANGED <<socketId, pseudoId, epId, sock>>,
         CfmsKept, DroppedKept, NEW r \in BmmMsg, r.type = "CLOSE_REQ", r.conn = c,
         bmmQ' = Append(bmmQ, r)
  PROVE  Resting' /\ Requests' /\ Entries' /\ Drops' /\ Conns' /\ Granted'
<1>1. ReqsKept /\ ParamsKept
  BY BmmQPosted
<1>2. \A d \in ConnId :
        /\ In(bmmQ', DropOf(d)) <=> In(bmmQ, DropOf(d)) \/ d = c
        /\ Once(bmmQ, DropOf(d)) /\ ~(d = c /\ In(bmmQ, DropOf(d))) => Once(bmmQ', DropOf(d))
  BY ONLY Base, r \in BmmMsg, r.type = "CLOSE_REQ", r.conn = c, bmmQ' = Append(bmmQ, r),
          BmmQPosted
<1>3. /\ \A j \in Inst : state'[j] = "OffloadReq" <=> state[j] = "OffloadReq"
      /\ \A j \in Inst : state'[j] \in Known <=> state[j] \in Known
      /\ \A j \in Inst : state'[j] \in Open <=> state[j] \in Open /\ j # i
      /\ \A j \in Inst : state'[j] \in Closing <=> state[j] \in Closing \/ j = i
      /\ \A j \in Inst : state'[j] = "OffloadToMicroappSuccess" =>
           j # i /\ state[j] = "OffloadToMicroappSuccess"
      /\ state[i] \notin Closing
  BY DEF Known, Open, Closing
<1>4. \A j \in Inst : state[j] \in Closing => pseudoId[j] # c
  <2>1. SUFFICES ASSUME NEW j \in Inst, state[j] \in Closing, pseudoId[j] = c
                 PROVE  FALSE
    OBVIOUS
  <2>2. i <= j /\ j <= i
    BY <2>1 DEF Life, Conns, Known
  <2>3. i = j
    BY <2>2 DEF Inst
  <2>4. QED
    BY <1>3, <2>1, <2>3
<1>5. ~In(bmmQ, DropOf(c)) /\ ~In(pipe, DroppedOf(c))
  BY <1>4 DEF Life, Drops
<1>6. Resting'
  BY DEF Life, Resting, Known
<1>7. Requests'
  BY <1>1, <1>3 DEF Life, Requests, CfmsKept, ReqsKept
<1>8. Entries'
  <2>1. \A d \in ConnId, j \in Inst : Serves(d, j)' <=> Serves(d, j)
    BY DEF Serves
  <2>2. InUse' = InUse
    BY DEF InUse
  <2>3. Serves(c, i)
    BY DEF Life, Entries
  <2>4. \A j \in Inst, d \in ConnId : In(pipe', TakenOf(j, d)) => Serves(d, j)'
    BY <2>1 DEF Life, Entries, CfmsKept
  <2>5. ASSUME NEW j \in Inst, NEW d \in ConnId, d = pseudoId[j],
               state'[j] \in Open \/ (state'[j] \in Closing /\ In(bmmQ', DropOf(d)))
        PROVE  Serves(d, j)'
    <3>1. CASE j = i
      BY <2>1, <2>3, <2>5, <3>1
    <3>2. CASE j # i
      <4>1. state'[j] \in Closing => d # c
        BY <1>3, <1>4, <2>5, <3>2
      <4>2. Serves(d, j)
        BY <1>2, <1>3, <2>5, <3>2, <4>1 DEF Life, Entries
      <4>3. QED
        BY <2>1, <4>2
    <3>3. QED
      BY <3>1, <3>2
  <2>6. \A j \in Inst :
          /\ state'[j] \in Open => Serves(pseudoId[j], j)'
          /\ state'[j] \in Closing /\ In(bmmQ', DropOf(pseudoId[j])) => Serves(pseudoId[j], j)'
    BY <2>5, Typed DEF Serves
  <2>7. ASSUME NEW k \in InUse
        PROVE  \E j \in Inst :
                 /\ socketId[j] = sock[k].sid
                 /\ \/ state'[j] \in Open
                    \/ state'[j] \in Closing /\ In(bmmQ', DropOf(pseudoId[j]))
                    \/ In(pipe', TakenOf(j, sock[k].conn))
    <3>1. PICK j \in Inst :
            /\ socketId[j] = sock[k].sid
            /\ \/ state[j] \in Open
               \/ state[j] \in Closing /\ In(bmmQ, DropOf(pseudoId[j]))
               \/ In(pipe, TakenOf(j, sock[k].conn))
      BY DEF Life, Entries
    <3>2. sock[k].conn \in ConnId /\ pseudoId[j] \in ConnId
      BY Typed
    <3>3. QED
      BY <1>2, <1>3, <3>1, <3>2 DEF CfmsKept
  <2>8. QED
    BY <2>2, <2>4, <2>6, <2>7 DEF Entries
<1>9. Drops'
  BY <1>2, <1>3, <1>5, Typed DEF Life, Drops, DroppedKept
<1>10. Conns'
  BY <1>1, <1>3 DEF Life, Conns, CfmsKept, ReqsKept
<1>11. Granted'
  BY <1>1, <1>3, Typed DEF Life, Granted, ParamsKept
<1>12. QED
  BY <1>6, <1>7, <1>8, <1>9, <1>10, <1>11

\* A close of the HAL reaches the microapp and the BMM.
LEMMA CloseSocketLife ==
  ASSUME Base, Life, HandleCloseSocket, UNCHANGED <<bmmVars, appVars, hal>>
  PROVE  Life'
<1>1. PICK m \in CloseMsg : m = Head(pipe)
  BY PipeHead DEF HandleCloseSocket, Base, TypeOK
<1>2. PICK s \in SocketId : m.sid = s
  BY DEF CloseMsg
<1>3. Receive("CLOSE_SOCKET")
  BY DEF HandleCloseSocket
<1>4. /\ AsksKept /\ CfmsKept /\ RessKept /\ DroppedKept
      /\ \A t \in SocketId :
           /\ Once(pipe', CloseOf(t))
           /\ In(pipe, CloseOf(t)) <=> In(pipe', CloseOf(t)) \/ t = s
           /\ t = s => ~In(pipe', CloseOf(t))
  BY ONLY <1>1, <1>2, <1>3, Base, Life, PipeRead
<1>5. hal[s] = "closing" /\ Offered(s)
  BY <1>4 DEF Life, HalKnows
<1>6. PICK i \in Inst : socketId[i] = s /\ state[i] = "OffloadToMicroappSuccess"
  BY <1>5 DEF Offered
<1>7. InstWithSocketId(s) # {} /\ Min(InstWithSocketId(s)) = i
  BY <1>6, OnlyHolder
<1>8. /\ Process(i, "UNOFFLOAD_REQ") /\ UNCHANGED <<socketId, pseudoId, epId, sock, slot, hal>>
  BY <1>1, <1>2, <1>7 DEF HandleCloseSocket, dataVars, bmmVars, appVars
<1>9. PICK c \in ConnId, e \in Endpoint : pseudoId[i] = c /\ epId[i] = e
  BY Typed
<1> DEFINE r == [type |-> "CLOSE_REQ", conn |-> c]
           l == [type |-> "CLOSE_REQ", sid |-> s, ep |-> e]
<1>10. /\ r \in BmmMsg /\ r.type = "CLOSE_REQ" /\ r.conn = c
       /\ l \in UappMsg /\ l.type = "CLOSE_REQ" /\ l.sid = s /\ l.ep = e
  BY DEF BmmMsg, UappMsg
<1>11. /\ ToBmm(i, "UnOffloadReqFromHAL") = <<r>>
       /\ ToUapp(i, "UnOffloadReqFromHAL") = <<l>> /\ ToHal(i, "UnOffloadReqFromHAL") = <<>>
  BY <1>6, <1>8, <1>9 DEF ToBmm, ToUapp, ToHal
<1> HIDE DEF r, l
<1>12. /\ \A j \in Inst : state'[j] = IF j = i THEN "UnOffloadReqToMicrostack" ELSE state[j]
       /\ bmmQ' = Append(bmmQ, r) /\ uappQ' = Append(uappQ, l) /\ halQ' = halQ
  <2>1. PICK e1, u, v : e1 = "UNOFFLOAD_REQ" /\ u = "UnOffloadReqFromHAL"
                        /\ v = "UnOffloadReqToMicrostack"
    OBVIOUS
  <2>2. HasRow(state[i], e1) /\ NextState(state[i], e1) = u /\ Rest(u) = v /\ Process(i, e1)
    BY <1>6, <1>8, <2>1, Moves, Rests
  <2>3. ToBmm(i, u) = <<r>> /\ ToUapp(i, u) = <<l>> /\ ToHal(i, u) = <<>> /\ i \in Inst
    BY <1>11, <2>1
  <2>4. /\ \A j \in Inst : state'[j] = IF j = i THEN v ELSE state[j]
        /\ bmmQ' = Append(bmmQ, r) /\ uappQ' = Append(uappQ, l) /\ halQ' = halQ
    BY ONLY Base, <1>10, <2>2, <2>3, Processed
  <2>5. QED
    BY <2>1, <2>4
<1>13. Resting' /\ Requests' /\ Entries' /\ Drops' /\ Conns' /\ Granted'
  BY <1>4, <1>6, <1>8, <1>9, <1>10, <1>12, LetsGo DEF Open, Closing
<1>14. OpenReqsKept /\ HalQKept
  BY <1>10, <1>12, QueuesKept, UappQPosted
<1>15. \A t \in SocketId :
         /\ ~(t = s /\ In(uappQ, OpenReqOf(t))) => Ahead(uappQ', LeaveOf(t), OpenReqOf(t))
         /\ In(uappQ', LeaveOf(t)) <=> In(uappQ, LeaveOf(t)) \/ t = s
         /\ ~(t = s /\ In(uappQ, LeaveOf(t))) => Once(uappQ', LeaveOf(t))
         /\ \A d \in Endpoint :
              In(uappQ', LeaveFor(t, d)) <=> In(uappQ, LeaveFor(t, d)) \/ (t = s /\ d = e)
  BY ONLY <1>10, <1>12, Base, Life, UappQPosted
<1>16. \A j \in Inst : state[j] # "Idle" /\ socketId[j] = s => j = i
  BY <1>6, OnlyHolder
<1>17. ~In(uappQ, LeaveOf(s)) /\ ~In(uappQ, OpenReqOf(s))
  BY <1>6, <1>16 DEF Life, Leaving, Answers, Known, Open
<1>18. Answers'
  <2>1. \A j \in Inst : state'[j] = "OffloadToMicrostackSuccess"
                          <=> state[j] = "OffloadToMicrostackSuccess"
    BY <1>6, <1>12
  <2>2. QED
    BY <1>4, <1>8, <1>14, <2>1, Typed DEF Life, Answers, RessKept, OpenReqsKept
<1>19. HalKnows'
  <2>1. \A t \in SocketId : t # s => (Offered(t)' <=> Offered(t))
    BY <1>6, <1>8, <1>12 DEF Offered
  <2>2. \A j \in Inst : j # i /\ state'[j] # "Idle" => socketId[j] # s /\ socketId[j] \in SocketId
    BY <1>12, <1>16, Typed
  <2>3. ~In(halQ', AckOf(s))
    BY <1>5, <1>14 DEF Life, HalKnows, HalQKept, AcksKept
  <2>4. QED
    BY <1>4, <1>5, <1>6, <1>8, <1>12, <1>14, <2>1, <2>2, <2>3
       DEF Life, HalKnows, AsksKept, HalQKept, AcksKept, FinalsKept
<1>20. Slots'
  <2>1. \A a, b \in Protocol, n, k \in Slot :
          slot'[a][n] = slot'[b][k] /\ slot'[a][n] # ClearSlot => a = b /\ n = k
    BY <1>8 DEF Life, Slots
  <2>2. ASSUME NEW a \in Protocol, NEW n \in Slot, slot[a][n] # ClearSlot
        PROVE  \/ In(uappQ', LeaveFor(slot[a][n], a))
               \/ \E j \in Inst :
                    /\ socketId[j] = slot[a][n] /\ epId[j] = a
                    /\ \/ state'[j] = "OffloadToMicroappSuccess"
                       \/ /\ state'[j] = "OffloadToMicrostackSuccess"
                          /\ In(pipe', OpenedOf(slot[a][n]))
    <3>1. slot[a][n] \in SocketId /\ a \in Endpoint
      BY <2>2, Typed DEF Endpoint
    <3>2. CASE slot[a][n] = s
      BY <1>4, <1>6, <1>9, <1>12, <1>15, <1>16, <1>17, <2>2, <3>1, <3>2, Wider
         DEF Life, Slots, RessKept
    <3>3. CASE slot[a][n] # s
      BY <1>4, <1>6, <1>12, <1>15, <2>2, <3>1, <3>3 DEF Life, Slots, RessKept
    <3>4. QED
      BY <3>2, <3>3
  <2>3. \A j \in Inst :
          \/ state'[j] = "OffloadToMicroappSuccess"
          \/ state'[j] = "OffloadToMicrostackSuccess" /\ In(pipe', OpenedOf(socketId[j]))
          => epId[j] \in Protocol /\ SlotsOf(epId[j], socketId[j]) # {}
    BY <1>4, <1>12, Typed DEF Life, Slots, RessKept
  <2>4. QED
    BY <1>8, <2>1, <2>2, <2>3 DEF Slots, SlotsOf
<1>21. Leaving'
  <2>1. e \in Protocol /\ SlotsOf(e, s) # {}
    BY <1>6, <1>9 DEF Life, Slots
  <2>2. ASSUME NEW t \in SocketId
        PROVE  /\ Once(uappQ', LeaveOf(t)) /\ Ahead(uappQ', LeaveOf(t), OpenReqOf(t))
               /\ \A d \in Endpoint :
                    In(uappQ', LeaveFor(t, d)) => d \in Protocol /\ SlotsOf(d, t) # {}
    BY <1>15, <1>17, <2>1 DEF Life, Leaving
  <2>3. ASSUME NEW t \in SocketId, In(uappQ', LeaveOf(t)), NEW j \in Inst,
               socketId[j] = t, state'[j] \in Known
        PROVE  \/ state'[j] = "UnOffloadReqToMicrostack"
               \/ state'[j] = "OffloadToMicrostackSuccess" /\ In(uappQ', OpenReqOf(t))
    <3>1. CASE j = i
      BY <1>12, <3>1
    <3>2. CASE j # i
      <4>1. state'[j] = state[j] /\ state[j] # "Idle" /\ t # s
        BY <1>12, <1>16, <2>3, <3>2 DEF Known, Open, Closing
      <4>2. QED
        BY <1>14, <1>15, <2>3, <4>1 DEF Life, Leaving, OpenReqsKept
    <3>3. QED
      BY <3>1, <3>2
  <2>4. QED
    BY <1>8, <2>2, <2>3 DEF Leaving, SlotsOf
<1>22. QED
  BY <1>13, <1>18, <1>19, <1>20, <1>21 DEF Life

\* What is read of the answer of the BMM to an offload request.
LEMMA CfmRead ==
  ASSUME Base, Life, Receive("OFFLOAD_CFM"), NEW i \in Inst, NEW c \in ConnId,
         NEW ok \in BOOLEAN, NEW m, m = Head(pipe), m.inst = i, m.conn = c, m.ok = ok
  PROVE  /\ AsksKept /\ ClosesKept /\ RessKept /\ DroppedKept
         /\ \A j \in Inst :
              /\ Once(pipe', CfmOf(j))
              /\ In(pipe, CfmOf(j)) <=> In(pipe', CfmOf(j)) \/ j = i
              /\ j = i => ~In(pipe', CfmOf(j))
              /\ \A d \in ConnId :
                   In(pipe, TakenOf(j, d)) <=> In(pipe', TakenOf(j, d)) \/ (j = i /\ d = c /\ ok)
         /\ \A j, l \in Inst :
              Ahead(pipe, CfmOf(l), CfmOf(j)) =>
                Ahead(pipe', CfmOf(l), CfmOf(j)) /\ (j = i => ~In(pipe, CfmOf(l)))
         /\ ~In(pipe', RefusedAs) /\ (ok \/ c = NoConn)
         /\ state[i] = "OffloadReq" /\ ~In(bmmQ, ReqOf(i))
         /\ \A d \in ConnId : ~In(pipe', TakenOf(i, d))
<1>1. /\ AsksKept /\ ClosesKept /\ RessKept /\ DroppedKept
      /\ \A j \in Inst :
           /\ Once(pipe', CfmOf(j))
           /\ In(pipe, CfmOf(j)) <=> In(pipe', CfmOf(j)) \/ j = i
           /\ j = i => ~In(pipe', CfmOf(j))
           /\ \A d \in ConnId :
                In(pipe, TakenOf(j, d)) <=> In(pipe', TakenOf(j, d)) \/ (j = i /\ d = c /\ ok)
      /\ \A j, l \in Inst :
           Ahead(pipe, CfmOf(l), CfmOf(j)) =>
             Ahead(pipe', CfmOf(l), CfmOf(j)) /\ (j = i => ~In(pipe, CfmOf(l)))
      /\ ~In(pipe', RefusedAs) /\ (ok \/ c = NoConn)
  BY ONLY Base, Life, Receive("OFFLOAD_CFM"), m = Head(pipe), m.inst = i, m.conn = c, m.ok = ok,
          PipeRead
<1>2. state[i] = "OffloadReq" /\ ~In(bmmQ, ReqOf(i))
  BY <1>1 DEF Life, Requests
<1>3. \A d \in ConnId : ~In(pipe', TakenOf(i, d))
  <2>1. \A d \in ConnId : TakenOf(i, d) \subseteq CfmOf(i)
    BY DEF TakenOf, CfmOf, OffloadCfm
  <2>2. ~In(pipe', CfmOf(i))
    BY <1>1
  <2>3. QED
    BY <2>1, <2>2, InSubset
<1>4. QED
  BY <1>1, <1>2, <1>3

\* The BMM took the socket: its microapp is asked next.
LEMMA TakenLife ==
  ASSUME Base, Life, PatientHal, HandleOffloadCfm, UNCHANGED <<bmmVars, appVars, hal>>,
         Head(pipe).ok
  PROVE  Life'
<1>1. PICK m \in OffloadCfmMsg : m = Head(pipe)
  BY PipeHead DEF HandleOffloadCfm, Base, TypeOK
<1>2. PICK i \in Inst, c \in ConnId : m.inst = i /\ m.conn = c /\ m.ok /\ m.ok = TRUE
  BY <1>1 DEF OffloadCfmMsg
<1>3. /\ Receive("OFFLOAD_CFM") /\ Process(i, MicrostackEvent(TRUE))
      /\ pseudoId' = [pseudoId EXCEPT ![i] = c]
      /\ UNCHANGED <<socketId, epId, sock, slot, hal, socketType>>
  BY <1>1, <1>2 DEF HandleOffloadCfm, dataVars, bmmVars, appVars
<1>4. \A j \in Inst : pseudoId'[j] = IF j = i THEN c ELSE pseudoId[j]
  BY <1>3 DEF Base, TypeOK, MgrTypeOK
<1>5. /\ AsksKept /\ ClosesKept /\ RessKept /\ DroppedKept
      /\ \A j \in Inst :
           /\ Once(pipe', CfmOf(j))
           /\ In(pipe, CfmOf(j)) <=> In(pipe', CfmOf(j)) \/ j = i
           /\ j = i => ~In(pipe', CfmOf(j))
           /\ \A d \in ConnId :
                In(pipe, TakenOf(j, d)) <=> In(pipe', TakenOf(j, d)) \/ (j = i /\ d = c)
      /\ \A j, l \in Inst :
           Ahead(pipe, CfmOf(l), CfmOf(j)) =>
             Ahead(pipe', CfmOf(l), CfmOf(j)) /\ (j = i => ~In(pipe, CfmOf(l)))
      /\ ~In(pipe', RefusedAs)
      /\ state[i] = "OffloadReq" /\ ~In(bmmQ, ReqOf(i))
      /\ \A d \in ConnId : ~In(pipe', TakenOf(i, d))
  <2>1. PICK ok \in BOOLEAN : ok = TRUE /\ m.ok = ok
    BY <1>2
  <2>2. /\ Receive("OFFLOAD_CFM") /\ i \in Inst /\ c \in ConnId /\ ok \in BOOLEAN
        /\ m = Head(pipe) /\ m.inst = i /\ m.conn = c /\ m.ok = ok
    BY <1>1, <1>2, <1>3, <2>1
  <2>3. /\ AsksKept /\ ClosesKept /\ RessKept /\ DroppedKept
        /\ \A j \in Inst :
             /\ Once(pipe', CfmOf(j))
             /\ In(pipe, CfmOf(j)) <=> In(pipe', CfmOf(j)) \/ j = i
             /\ j = i => ~In(pipe', CfmOf(j))
             /\ \A d \in ConnId :
                  In(pipe, TakenOf(j, d)) <=> In(pipe', TakenOf(j, d)) \/ (j = i /\ d = c /\ ok)
        /\ \A j, l \in Inst :
             Ahead(pipe, CfmOf(l), CfmOf(j)) =>
               Ahead(pipe', CfmOf(l), CfmOf(j)) /\ (j = i => ~In(pipe, CfmOf(l)))
        /\ ~In(pipe', RefusedAs)
        /\ state[i] = "OffloadReq" /\ ~In(bmmQ, ReqOf(i))
        /\ \A d \in ConnId : ~In(pipe', TakenOf(i, d))
    BY ONLY <2>2, Base, Life, CfmRead
  <2>4. QED
    BY ONLY <2>1, <2>3
<1>6. PICK s \in SocketId, p \in Protocol, e \in Endpoint :
        socketId[i] = s /\ socketType[i] = p /\ epId[i] = e
  BY <1>5 DEF Base, TypeOK, MgrTypeOK
<1> DEFINE r == [type |-> "OPEN_REQ", sid |-> s, proto |-> p, ep |-> e]
<1>7. r \in UappMsg /\ r.type = "OPEN_REQ" /\ r.sid = s /\ r.ep = e
  BY DEF UappMsg
<1>8. /\ ToBmm(i, "OffloadToMicrostackSuccess") = <<>>
      /\ ToUapp(i, "OffloadToMicrostackSuccess") = <<r>>
      /\ ToHal(i, "OffloadToMicrostackSuccess") = <<>>
  BY <1>3, <1>6 DEF ToBmm, ToUapp, ToHal
<1> HIDE DEF r
<1>9. /\ \A j \in Inst : state'[j] = IF j = i THEN "OffloadToMicrostackSuccess" ELSE state[j]
      /\ bmmQ' = bmmQ /\ uappQ' = Append(uappQ, r) /\ halQ' = halQ
  <2>1. PICK e1, u : e1 = "OFFLOAD_TO_MICROSTACK_SUCCESS" /\ u = "OffloadToMicrostackSuccess"
    OBVIOUS
  <2>2. HasRow(state[i], e1) /\ NextState(state[i], e1) = u /\ Rest(u) = u /\ Process(i, e1)
    BY <1>3, <1>5, <2>1, Moves, Rests DEF MicrostackEvent, Known, Open
  <2>3. ToBmm(i, u) = <<>> /\ ToUapp(i, u) = <<r>> /\ ToHal(i, u) = <<>> /\ i \in Inst
    BY <1>8, <2>1
  <2>4. /\ \A j \in Inst : state'[j] = IF j = i THEN u ELSE state[j]
        /\ bmmQ' = bmmQ /\ uappQ' = Append(uappQ, r) /\ halQ' = halQ
    BY ONLY Base, <1>7, <2>2, <2>3, Processed
  <2>5. QED
    BY <2>1, <2>4
<1>10. Serves(c, i)
  BY <1>5 DEF Life, Entries
<1>11. ReqsKept /\ DropsKept /\ ParamsKept /\ LeavesKept /\ AcksKept /\ FinalsKept
  BY <1>7, <1>9, QueuesKept, UappQPosted DEF BmmQKept, HalQKept
<1>12. \A t \in SocketId :
         /\ Ahead(uappQ', LeaveOf(t), OpenReqOf(t))
         /\ In(uappQ', OpenReqOf(t)) <=> In(uappQ, OpenReqOf(t)) \/ t = s
         /\ ~(t = s /\ In(uappQ, OpenReqOf(t))) => Once(uappQ', OpenReqOf(t))
         /\ \A d \in Endpoint :
              In(uappQ', OpenReqFor(t, d)) <=> In(uappQ, OpenReqFor(t, d)) \/ (t = s /\ d = e)
  BY ONLY <1>7, <1>9, Base, Life, UappQPosted
<1>13. \A j \in Inst : state[j] # "Idle" /\ socketId[j] = s => j = i
  BY <1>5, <1>6, OnlyHolder
<1>14. /\ \A j \in Inst : j # i => state'[j] = state[j] /\ pseudoId'[j] = pseudoId[j]
       /\ state'[i] = "OffloadToMicrostackSuccess" /\ pseudoId'[i] = c
       /\ state'[i] \notin Closing /\ state'[i] \in Open /\ state[i] \notin Closing
       /\ state[i] \notin Open
  BY <1>4, <1>5, <1>9 DEF Closing, Open
<1>15. /\ ~In(uappQ, OpenReqOf(s)) /\ ~In(pipe, ResOf(s)) /\ ~In(pipe', ResOf(s))
       /\ ~In(pipe', OpenedOf(s)) /\ \A d \in Endpoint : ~In(uappQ, OpenReqFor(s, d))
  <2>1. ~In(uappQ, OpenReqOf(s)) /\ ~In(pipe, ResOf(s))
    BY <1>5, <1>6, <1>13 DEF Life, Answers
  <2>2. QED
    BY <1>5, <2>1, Wider DEF RessKept
<1>16. Resting'
  BY <1>14 DEF Life, Resting, Known
<1>17. Requests'
  BY <1>3, <1>5, <1>9, <1>11 DEF Life, Requests, ReqsKept
<1>18. Entries'
  <2>1. \A d \in ConnId, j \in Inst : Serves(d, j)' <=> Serves(d, j)
    BY <1>3 DEF Serves
  <2>2. InUse' = InUse
    BY <1>3 DEF InUse
  <2>3. \A j \in Inst, d \in ConnId : In(pipe', TakenOf(j, d)) => Serves(d, j)'
    BY <1>5, <2>1 DEF Life, Entries
  <2>4. ASSUME NEW j \in Inst, NEW d \in ConnId, d = pseudoId'[j],
               state'[j] \in Open \/ (state'[j] \in Closing /\ In(bmmQ', DropOf(d)))
        PROVE  Serves(d, j)'
    <3>1. CASE j = i
      BY <1>10, <1>14, <2>1, <2>4, <3>1
    <3>2. CASE j # i
      <4>1. Serves(d, j)
        BY <1>11, <1>14, <2>4, <3>2 DEF Life, Entries, DropsKept
      <4>2. QED
        BY <2>1, <4>1
    <3>3. QED
      BY <3>1, <3>2
  <2>5. \A j \in Inst : pseudoId'[j] \in ConnId
    BY <1>14, Typed
  <2>6. \A j \in Inst :
          /\ state'[j] \in Open => Serves(pseudoId[j], j)'
          /\ state'[j] \in Closing /\ In(bmmQ', DropOf(pseudoId'[j])) => Serves(pseudoId[j], j)'
    BY <2>4, <2>5 DEF Serves
  <2>7. ASSUME NEW k \in InUse
        PROVE  \E j \in Inst :
                 /\ socketId[j] = sock[k].sid
                 /\ \/ state'[j] \in Open
                    \/ state'[j] \in Closing /\ In(bmmQ', DropOf(pseudoId'[j]))
                    \/ In(pipe', TakenOf(j, sock[k].conn))
    <3>1. PICK j \in Inst :
            /\ socketId[j] = sock[k].sid
            /\ \/ state[j] \in Open
               \/ state[j] \in Closing /\ In(bmmQ, DropOf(pseudoId[j]))
               \/ In(pipe, TakenOf(j, sock[k].conn))
      BY DEF Life, Entries
    <3>2. sock[k].conn \in ConnId /\ pseudoId[j] \in ConnId
      BY Typed
    <3>3. CASE j = i
      BY <1>14, <3>1, <3>3
    <3>4. CASE j # i
      BY <1>5, <1>11, <1>14, <3>1, <3>2, <3>4 DEF DropsKept
    <3>5. QED
      BY <3>3, <3>4
  <2>8. QED
    BY <1>3, <2>2, <2>3, <2>6, <2>7 DEF Entries
<1>19. Answers'
  <2>1. ASSUME NEW t \in SocketId
        PROVE  /\ Once(uappQ', OpenReqOf(t)) /\ Once(pipe', ResOf(t))
               /\ ~In(uappQ', OpenReqOf(t)) \/ ~In(pipe', ResOf(t))
               /\ In(uappQ', OpenReqOf(t)) \/ In(pipe', ResOf(t)) =>
                    \E j \in Inst : socketId[j] = t /\ state'[j] = "OffloadToMicrostackSuccess"
    <3>1. CASE t = s
      BY <1>5, <1>6, <1>12, <1>14, <1>15, <3>1 DEF Life, Answers, RessKept
    <3>2. CASE t # s
      BY <1>5, <1>9, <1>12, <3>2 DEF Life, Answers, RessKept
    <3>3. QED
      BY <3>1, <3>2
  <2>2. ASSUME NEW j \in Inst, state'[j] = "OffloadToMicrostackSuccess"
        PROVE  /\ epId[j] \in Protocol => In(uappQ', OpenReqOf(socketId[j])) \/ In(pipe', ResOf(socketId[j]))
               /\ \A d \in Endpoint : In(uappQ', OpenReqFor(socketId[j], d)) => epId[j] = d
    <3>1. CASE j = i
      BY <1>6, <1>12, <1>15, <3>1
    <3>2. CASE j # i
      <4>1. state[j] = "OffloadToMicrostackSuccess" /\ socketId[j] \in SocketId /\ socketId[j] # s
        BY <1>13, <1>14, <2>2, <3>2, Typed
      <4>2. QED
        BY <1>5, <1>12, <4>1 DEF Life, Answers, RessKept
    <3>3. QED
      BY <3>1, <3>2
  <2>3. QED
    BY <1>3, <2>1, <2>2 DEF Answers
<1>20. Drops'
  <2>1. \A j \in Inst : state'[j] \in Closing <=> state[j] \in Closing
    BY <1>14
  <2>2. \A j \in Inst : state[j] \in Closing => pseudoId'[j] = pseudoId[j]
    BY <1>14
  <2>3. QED
    BY <1>5, <1>11, <2>1, <2>2, Typed DEF Life, Drops, DropsKept, DroppedKept
<1>21. \A j \in Inst :
         state'[j] = "OffloadToMicroappSuccess" <=> state[j] = "OffloadToMicroappSuccess"
  BY <1>5, <1>9
<1>22. HalKnows'
  <2>1. \A t \in SocketId : Offered(t)' <=> Offered(t)
    BY <1>3, <1>21 DEF Offered
  <2>2. hal[s] = "opening"
    BY <1>5, <1>6 DEF Life, HalKnows
  <2>3. \A j \in Inst : state'[j] = state[j] \/
                        (state'[j] = "OffloadToMicrostackSuccess" /\ socketId[j] = s)
    BY <1>6, <1>9
  <2>4. QED
    BY <1>3, <1>5, <1>11, <2>1, <2>2, <2>3, Typed
       DEF Life, HalKnows, AsksKept, ClosesKept, AcksKept, FinalsKept
<1>23. Slots'
  <2>1. \A j \in Inst :
          state[j] = "OffloadToMicroappSuccess" \/ state[j] = "OffloadToMicrostackSuccess"
            => state'[j] = state[j]
    BY <1>5, <1>9
  <2>2. \A j \in Inst :
          \/ state'[j] = "OffloadToMicroappSuccess"
          \/ state'[j] = "OffloadToMicrostackSuccess" /\ In(pipe', OpenedOf(socketId[j]))
          => state'[j] = state[j] /\ socketId[j] \in SocketId
    BY <1>6, <1>9, <1>15, Typed
  <2>3. QED
    BY <1>3, <1>5, <1>11, <2>1, <2>2, Typed DEF Life, Slots, SlotsOf, RessKept, LeavesKept, Endpoint
<1>24. Leaving'
  <2>1. \A j \in Inst : state'[j] \in Known =>
          state'[j] = state[j]
          \/ (state'[j] = "OffloadToMicrostackSuccess" /\ In(uappQ', OpenReqOf(socketId[j])))
    BY <1>6, <1>9, <1>12
  <2>2. QED
    BY <1>3, <1>11, <1>12, <2>1 DEF Life, Leaving, SlotsOf, LeavesKept
<1>25. Conns'
  <2>1. c # NoConn /\ c.low = s % IdSpace
    BY <1>6, <1>10 DEF Serves, NoConn, Sock
  <2>2. ASSUME NEW j \in Inst, pseudoId[j] = c
        PROVE  i <= j
    <3>1. SUFFICES ASSUME j < i PROVE FALSE
      BY DEF Inst
    <3>2. /\ state[j] = "OffloadReq" /\ Ahead(pipe, CfmOf(j), CfmOf(i))
          /\ ~In(pipe, CfmOf(i)) \/ ~In(bmmQ, ReqOf(j))
      BY <1>5, <1>6, <2>1, <2>2, <3>1 DEF Life, Conns
    <3>3. ~In(pipe, CfmOf(j)) /\ In(pipe, CfmOf(i))
      BY <1>5, <3>2
    <3>4. QED
      BY <3>2, <3>3 DEF Life, Requests
  <2>3. ASSUME NEW j \in Inst, j # i, state[j] \in Known
        PROVE  pseudoId[j] # c
    <3>1. socketId[j] # s
      BY <1>13, <2>3 DEF Known, Open, Closing
    <3>2. QED
      BY <2>1, <2>3, <3>1, LowIsSocket
  <2>4. ASSUME NEW j \in Inst, state'[j] \in Known
        PROVE  /\ pseudoId'[j] # NoConn /\ pseudoId'[j].low = socketId[j] % IdSpace
               /\ \A l \in Inst : pseudoId'[l] = pseudoId'[j] => j <= l
    <3>1. CASE j = i
      <4>1. \A l \in Inst : pseudoId'[l] = c => l = i \/ pseudoId[l] = c
        BY <1>4
      <4>2. i <= i
        BY DEF Inst
      <4>3. QED
        BY <1>6, <1>14, <2>1, <2>2, <3>1, <4>1, <4>2
    <3>2. CASE j # i
      <4>1. state[j] \in Known /\ pseudoId'[j] = pseudoId[j] /\ pseudoId[j] # c
        BY <1>14, <2>3, <2>4, <3>2
      <4>2. QED
        BY <1>4, <4>1 DEF Life, Conns
    <3>3. QED
      BY <3>1, <3>2
  <2>5. ASSUME NEW j \in Inst, NEW l \in Inst, state'[j] = "OffloadReq", l < j,
               pseudoId'[l] # NoConn, pseudoId'[l].low = socketId[j] % IdSpace
        PROVE  /\ state'[l] = "OffloadReq"
               /\ Ahead(pipe', CfmOf(l), CfmOf(j)) /\ Ahead(bmmQ', ReqOf(l), ReqOf(j))
               /\ ~In(pipe', CfmOf(j)) \/ ~In(bmmQ', ReqOf(l))
    <3>1. j # i /\ state[j] = "OffloadReq" /\ socketId[j] \in SocketId
      BY <1>9, <2>5, Typed
    <3>2. l # i
      <4>1. SUFFICES ASSUME l = i PROVE FALSE
        OBVIOUS
      <4>2. s % IdSpace = socketId[j] % IdSpace
        BY <1>14, <2>1, <2>5, <4>1
      <4>3. socketId[j] = s
        BY <3>1, <4>2 DEF PatientHal
      <4>4. QED
        BY <1>13, <3>1, <4>3
    <3>3. /\ state[l] = "OffloadReq" /\ Ahead(pipe, CfmOf(l), CfmOf(j))
          /\ Ahead(bmmQ, ReqOf(l), ReqOf(j))
          /\ ~In(pipe, CfmOf(j)) \/ ~In(bmmQ, ReqOf(l))
      BY <1>14, <2>5, <3>1, <3>2 DEF Life, Conns
    <3>4. /\ In(pipe', CfmOf(j)) => In(pipe, CfmOf(j))
          /\ Ahead(pipe', CfmOf(l), CfmOf(j))
      BY <1>5, <3>3
    <3>5. Ahead(bmmQ', ReqOf(l), ReqOf(j)) /\ (In(bmmQ', ReqOf(l)) => In(bmmQ, ReqOf(l)))
      BY <1>11, <3>3 DEF ReqsKept
    <3>6. QED
      BY <1>14, <3>2, <3>3, <3>4, <3>5
  <2>6. QED
    BY <1>3, <2>4, <2>5 DEF Conns
<1>26. Granted'
  <2>1. \A j \in Inst : state'[j] = "OffloadToMicroappSuccess" =>
          state[j] = "OffloadToMicroappSuccess" /\ pseudoId'[j] = pseudoId[j]
    BY <1>5, <1>14
  <2>2. QED
    BY <1>3, <1>11, <2>1, Typed DEF Life, Granted, ParamsKept
<1>27. QED
  BY <1>16, <1>17, <1>18, <1>19, <1>20, <1>22, <1>23, <1>24, <1>25, <1>26 DEF Life

\* An instance that ends, with the answer the HAL waits for.
LEMMA Ends ==
  ASSUME Base, Life, NEW i \in Inst, NEW s \in SocketId, socketId[i] = s, state[i] # "Idle",
         state[i] # "OffloadToMicroappSuccess",
         \A j \in Inst : state'[j] = IF j = i THEN "Idle" ELSE state[j],
         UNCHANGED <<socketId, epId, hal, slot, bmmQ, uappQ>>,
         AsksKept, ClosesKept, RessKept, AcksKept,
         state[i] # "OffloadToMicrostackSuccess",
         NEW d \in {"opening", "closing"}, hal[s] = d,
         \A t \in SocketId :
           /\ In(halQ', NakOf(t)) <=> In(halQ, NakOf(t)) \/ (t = s /\ d = "opening")
           /\ In(halQ', DoneOf(t)) <=> In(halQ, DoneOf(t)) \/ (t = s /\ d = "closing")
  PROVE  Resting' /\ Answers' /\ HalKnows' /\ Slots' /\ Leaving'
<1>1. BmmQKept /\ UappQKept /\ OpenReqsKept /\ LeavesKept
  BY QueuesKept DEF UappQKept
<1>2. /\ \A j \in Inst : state'[j] # "Idle" => j # i /\ state'[j] = state[j]
      /\ \A j \in Inst : state'[j] = "OffloadToMicroappSuccess"
                           <=> state[j] = "OffloadToMicroappSuccess"
      /\ \A j \in Inst : state'[j] = "OffloadToMicrostackSuccess"
                           <=> state[j] = "OffloadToMicrostackSuccess"
      /\ \A j \in Inst : state'[j] \in Known => j # i /\ state'[j] = state[j]
  BY DEF Known, Open, Closing
<1>3. Resting'
  BY DEF Life, Resting
<1>4. Answers'
  BY <1>1, <1>2, Typed DEF Life, Answers, RessKept, OpenReqsKept
<1>5. HalKnows'
  <2>1. \A t \in SocketId : Offered(t)' <=> Offered(t)
    BY <1>2 DEF Offered
  <2>2. QED
    BY <1>2, <2>1, Typed DEF Life, HalKnows, AsksKept, ClosesKept, AcksKept
<1>6. Slots'
  BY <1>1, <1>2, Typed DEF Life, Slots, SlotsOf, RessKept, LeavesKept, Endpoint
<1>7. Leaving'
  BY <1>1, <1>2 DEF Life, Leaving, SlotsOf, UappQKept, OpenReqsKept, LeavesKept
<1>8. QED
  BY <1>3, <1>4, <1>5, <1>6, <1>7

\* The BMM refused the socket: the open failed.
LEMMA NotTakenLife ==
  ASSUME Base, Life, HandleOffloadCfm, UNCHANGED <<bmmVars, appVars, hal>>, ~Head(pipe).ok
  PROVE  Life'
<1>1. PICK m \in OffloadCfmMsg : m = Head(pipe)
  BY PipeHead DEF HandleOffloadCfm, Base, TypeOK
<1>2. PICK i \in Inst, c \in ConnId, ok \in BOOLEAN :
        m.inst = i /\ m.conn = c /\ m.ok = ok /\ ok = FALSE
  BY <1>1 DEF OffloadCfmMsg
<1>3. /\ Receive("OFFLOAD_CFM") /\ Process(i, MicrostackEvent(FALSE))
      /\ pseudoId' = [pseudoId EXCEPT ![i] = c]
      /\ UNCHANGED <<socketId, epId, sock, slot, hal, socketType>>
  BY <1>1, <1>2 DEF HandleOffloadCfm, dataVars, bmmVars, appVars
<1>4. /\ AsksKept /\ ClosesKept /\ RessKept /\ DroppedKept
      /\ \A j \in Inst :
           /\ Once(pipe', CfmOf(j))
           /\ In(pipe, CfmOf(j)) <=> In(pipe', CfmOf(j)) \/ j = i
           /\ j = i => ~In(pipe', CfmOf(j))
           /\ \A d \in ConnId :
                In(pipe, TakenOf(j, d)) <=> In(pipe', TakenOf(j, d)) \/ (j = i /\ d = c /\ ok)
      /\ \A j, l \in Inst :
           Ahead(pipe, CfmOf(l), CfmOf(j)) =>
             Ahead(pipe', CfmOf(l), CfmOf(j)) /\ (j = i => ~In(pipe, CfmOf(l)))
      /\ ~In(pipe', RefusedAs) /\ (ok \/ c = NoConn)
      /\ state[i] = "OffloadReq" /\ ~In(bmmQ, ReqOf(i))
      /\ \A d \in ConnId : ~In(pipe', TakenOf(i, d))
  BY ONLY <1>1, <1>2, <1>3, Base, Life, CfmRead
<1>5. \A j \in Inst : pseudoId'[j] = IF j = i THEN NoConn ELSE pseudoId[j]
  BY <1>2, <1>3, <1>4 DEF Base, TypeOK, MgrTypeOK
<1>6. PICK s \in SocketId : socketId[i] = s
  BY <1>4 DEF Base, TypeOK, MgrTypeOK
<1>7. PICK r : r = OpenRsp(s, FALSE)
  OBVIOUS
<1>8. r \in HalMsg /\ r.type = "OPEN_RSP" /\ ~r.ok /\ r.sid = s
  BY <1>7 DEF HalMsg, OpenRsp
<1>9. /\ ToBmm(i, "OffloadFailure") = <<>> /\ ToUapp(i, "OffloadFailure") = <<>>
      /\ ToHal(i, "OffloadFailure") = <<r>>
  BY <1>3, <1>6, <1>7 DEF ToBmm, ToUapp, ToHal
<1>10. /\ \A j \in Inst : state'[j] = IF j = i THEN "Idle" ELSE state[j]
       /\ bmmQ' = bmmQ /\ uappQ' = uappQ /\ halQ' = Append(halQ, r)
  <2>1. PICK e1, u, v : e1 = "OFFLOAD_TO_MICROSTACK_FAILURE" /\ u = "OffloadFailure" /\ v = "Idle"
    OBVIOUS
  <2>2. HasRow(state[i], e1) /\ NextState(state[i], e1) = u /\ Rest(u) = v /\ Process(i, e1)
    BY <1>3, <1>4, <2>1, Moves, Rests DEF MicrostackEvent
  <2>3. ToBmm(i, u) = <<>> /\ ToUapp(i, u) = <<>> /\ ToHal(i, u) = <<r>> /\ i \in Inst
    BY <1>9, <2>1
  <2>4. /\ \A j \in Inst : state'[j] = IF j = i THEN v ELSE state[j]
        /\ bmmQ' = bmmQ /\ uappQ' = uappQ /\ halQ' = Append(halQ, r)
    BY ONLY Base, <1>8, <2>2, <2>3, Processed
  <2>5. QED
    BY <2>1, <2>4
<1>11. AcksKept /\ ReqsKept /\ DropsKept /\ ParamsKept
  BY <1>8, <1>10, HalQPosted, QueuesKept DEF BmmQKept
<1>12. \A t \in SocketId :
         /\ In(halQ', NakOf(t)) <=> In(halQ, NakOf(t)) \/ t = s
         /\ In(halQ', DoneOf(t)) <=> In(halQ, DoneOf(t))
  BY ONLY <1>8, <1>10, Base, HalQPosted
<1>13. hal[s] = "opening"
  BY <1>4, <1>6 DEF Life, HalKnows
<1>14. Resting' /\ Answers' /\ HalKnows' /\ Slots' /\ Leaving'
  <2>1. PICK d \in {"opening", "closing"} : d = "opening"
    OBVIOUS
  <2>2. \A t \in SocketId :
           /\ In(halQ', NakOf(t)) <=> In(halQ, NakOf(t)) \/ (t = s /\ d = "opening")
           /\ In(halQ', DoneOf(t)) <=> In(halQ, DoneOf(t)) \/ (t = s /\ d = "closing")
    BY <1>12, <2>1
  <2>3. QED
    BY <1>3, <1>4, <1>6, <1>10, <1>11, <1>13, <2>1, <2>2, Ends
<1>15. /\ \A j \in Inst : j # i => state'[j] = state[j] /\ pseudoId'[j] = pseudoId[j]
       /\ state'[i] = "Idle" /\ pseudoId'[i] = NoConn
       /\ \A j \in Inst : state'[j] \in Open <=> state[j] \in Open
       /\ \A j \in Inst : state'[j] \in Closing <=> state[j] \in Closing
       /\ \A j \in Inst : state'[j] \in Known <=> state[j] \in Known
       /\ state[i] \notin Known /\ state[i] \notin Open /\ state[i] \notin Closing
  BY <1>4, <1>5, <1>10 DEF Known, Closing, Open
<1>16. Requests'
  BY <1>3, <1>4, <1>10, <1>11 DEF Life, Requests, ReqsKept
<1>17. Entries'
  <2>1. \A d \in ConnId, j \in Inst : Serves(d, j)' <=> Serves(d, j)
    BY <1>3 DEF Serves
  <2>2. InUse' = InUse
    BY <1>3 DEF InUse
  <2>3. \A j \in Inst, d \in ConnId : In(pipe', TakenOf(j, d)) => Serves(d, j)'
    BY <1>4, <2>1 DEF Life, Entries
  <2>4. ASSUME NEW j \in Inst, NEW d \in ConnId, d = pseudoId'[j],
               state'[j] \in Open \/ (state'[j] \in Closing /\ In(bmmQ', DropOf(d)))
        PROVE  Serves(d, j)'
    <3>1. j # i /\ pseudoId[j] = d /\ state'[j] = state[j]
      BY <1>15, <2>4
    <3>2. Serves(d, j)
      BY <1>11, <2>4, <3>1 DEF Life, Entries, DropsKept
    <3>3. QED
      BY <2>1, <3>2
  <2>5. \A j \in Inst : pseudoId'[j] \in ConnId
    BY <1>15, Typed DEF ConnId
  <2>6. \A j \in Inst :
          /\ state'[j] \in Open => Serves(pseudoId[j], j)'
          /\ state'[j] \in Closing /\ In(bmmQ', DropOf(pseudoId'[j])) => Serves(pseudoId[j], j)'
    BY <2>4, <2>5 DEF Serves
  <2>7. ASSUME NEW k \in InUse
        PROVE  \E j \in Inst :
                 /\ socketId[j] = sock[k].sid
                 /\ \/ state'[j] \in Open
                    \/ state'[j] \in Closing /\ In(bmmQ', DropOf(pseudoId'[j]))
                    \/ In(pipe', TakenOf(j, sock[k].conn))
    <3>1. PICK j \in Inst :
            /\ socketId[j] = sock[k].sid
            /\ \/ state[j] \in Open
               \/ state[j] \in Closing /\ In(bmmQ, DropOf(pseudoId[j]))
               \/ In(pipe, TakenOf(j, sock[k].conn))
      BY DEF Life, Entries
    <3>2. sock[k].conn \in ConnId /\ pseudoId[j] \in ConnId
      BY Typed
    <3>3. j # i
      BY <1>2, <1>4, <1>15, <3>1, <3>2
    <3>4. QED
      BY <1>2, <1>4, <1>11, <1>15, <3>1, <3>2, <3>3 DEF DropsKept
  <2>8. QED
    BY <1>3, <2>2, <2>3, <2>6, <2>7 DEF Entries
<1>18. Drops'
  <2>1. \A j \in Inst : state[j] \in Closing => pseudoId'[j] = pseudoId[j]
    BY <1>15
  <2>2. QED
    BY <1>4, <1>11, <1>15, <2>1, Typed DEF Life, Drops, DropsKept, DroppedKept
<1>19. Conns'
  <2>1. \A j \in Inst : state[j] \in Known =>
          /\ pseudoId'[j] = pseudoId[j] /\ pseudoId[j] # NoConn
          /\ \A l \in Inst : pseudoId'[l] = pseudoId[j] => j <= l
    BY <1>5, <1>15 DEF Life, Conns
  <2>2. \A j \in Inst : state'[j] = "OffloadReq" => j # i /\ state[j] = "OffloadReq"
    BY <1>15
  <2>3. \A l \in Inst : pseudoId'[l] # NoConn =>
          l # i /\ pseudoId'[l] = pseudoId[l] /\ state'[l] = state[l]
    BY <1>15
  <2>4. QED
    BY <1>3, <1>4, <1>11, <1>15, <2>1, <2>2, <2>3 DEF Life, Conns, ReqsKept
<1>20. Granted'
  <2>1. \A j \in Inst : state'[j] = "OffloadToMicroappSuccess" =>
          state[j] = "OffloadToMicroappSuccess" /\ pseudoId'[j] = pseudoId[j]
    BY <1>15
  <2>2. QED
    BY <1>3, <1>11, <2>1, Typed DEF Life, Granted, ParamsKept
<1>21. QED
  BY <1>14, <1>16, <1>17, <1>18, <1>19, <1>20 DEF Life

\* The BMM let a connection go: the life of the socket ends.
LEMMA CloseCfmLife ==
  ASSUME Base, Life, HandleCloseCfm, UNCHANGED <<bmmVars, appVars, hal>>
  PROVE  Life'
<1>1. PICK m \in CloseCfmMsg : m = Head(pipe)
  BY PipeHead DEF HandleCloseCfm, Base, TypeOK
<1>2. PICK c \in ConnId : m.conn = c
  BY <1>1 DEF CloseCfmMsg
<1>3. Receive("CLOSE_CFM")
  BY DEF HandleCloseCfm
<1>4. /\ AsksKept /\ ClosesKept /\ CfmsKept /\ RessKept
      /\ \A d \in ConnId :
           /\ Once(pipe', DroppedOf(d))
           /\ In(pipe, DroppedOf(d)) <=> In(pipe', DroppedOf(d)) \/ d = c
           /\ d = c => ~In(pipe', DroppedOf(d))
      /\ m.ok /\ ~In(pipe', NotDropped)
  BY ONLY <1>1, <1>2, <1>3, Base, Life, PipeRead
<1>5. PICK i \in Inst : pseudoId[i] = c /\ state[i] \in Closing
  BY <1>4 DEF Life, Drops
<1>6. InstWithPseudoId(c) # {} /\ Min(InstWithPseudoId(c)) = i
  <2>1. i \in InstWithPseudoId(c) /\ \A j \in InstWithPseudoId(c) : i <= j
    BY <1>5 DEF Life, Conns, Known, InstWithPseudoId
  <2>2. InstWithPseudoId(c) \in SUBSET Nat /\ InstWithPseudoId(c) # {} /\ i \in Nat
    BY <2>1 DEF InstWithPseudoId, Inst
  <2>3. /\ Min(InstWithPseudoId(c)) \in InstWithPseudoId(c)
        /\ \A j \in InstWithPseudoId(c) : Min(InstWithPseudoId(c)) <= j
    BY <2>2, MinIsLeast
  <2>4. Min(InstWithPseudoId(c)) <= i /\ i <= Min(InstWithPseudoId(c))
        /\ Min(InstWithPseudoId(c)) \in Nat
    BY <2>1, <2>2, <2>3
  <2>5. QED
    BY <2>2, <2>4
<1>7. /\ Process(i, "UNOFFLOAD_FROM_MICROSTACK_SUCCESS")
      /\ UNCHANGED <<socketId, pseudoId, epId, sock, slot, hal>>
  BY <1>1, <1>2, <1>4, <1>6 DEF HandleCloseCfm, dataVars, bmmVars, appVars
<1>8. PICK s \in SocketId : socketId[i] = s
  BY <1>5, Typed DEF Closing
<1>9. PICK d \in {"opening", "closing"} :
        /\ hal[s] = d
        /\ d = "closing" <=> state[i] = "UnOffloadReqToMicrostack"
        /\ d = "opening" <=> state[i] = "OffloadToMicroappFailure"
  BY <1>5, <1>8 DEF Life, HalKnows, Closing
<1>10. PICK u, r :
         /\ NextState(state[i], "UNOFFLOAD_FROM_MICROSTACK_SUCCESS") = u
         /\ HasRow(state[i], "UNOFFLOAD_FROM_MICROSTACK_SUCCESS")
         /\ Rest(u) = "Idle" /\ ToBmm(i, u) = <<>> /\ ToUapp(i, u) = <<>> /\ ToHal(i, u) = <<r>>
         /\ r \in HalMsg /\ r.sid = s
         /\ d = "opening" => r.type = "OPEN_RSP" /\ ~r.ok
         /\ d = "closing" => r.type = "CLOSE_RSP"
  <2>1. CASE state[i] = "UnOffloadReqToMicrostack"
    <3>1. PICK r : r = [type |-> "CLOSE_RSP", sid |-> s]
      OBVIOUS
    <3>2. r \in HalMsg /\ r.sid = s /\ r.type = "CLOSE_RSP" /\ d = "closing"
      BY <1>9, <2>1, <3>1 DEF HalMsg
    <3>3. /\ ToBmm(i, "UnoffloadSuccess") = <<>> /\ ToUapp(i, "UnoffloadSuccess") = <<>>
          /\ ToHal(i, "UnoffloadSuccess") = <<r>>
      BY <1>7, <1>8, <3>1 DEF ToBmm, ToUapp, ToHal
    <3>4. QED
      BY <2>1, <3>2, <3>3, Moves, Rests
  <2>2. CASE state[i] = "OffloadToMicroappFailure"
    <3>1. PICK r : r = OpenRsp(s, FALSE)
      OBVIOUS
    <3>2. r \in HalMsg /\ r.sid = s /\ r.type = "OPEN_RSP" /\ ~r.ok /\ d = "opening"
      BY <1>9, <2>2, <3>1 DEF HalMsg, OpenRsp
    <3>3. /\ ToBmm(i, "OffloadFailure") = <<>> /\ ToUapp(i, "OffloadFailure") = <<>>
          /\ ToHal(i, "OffloadFailure") = <<r>>
      BY <1>7, <1>8, <3>1 DEF ToBmm, ToUapp, ToHal
    <3>4. QED
      BY <2>2, <3>2, <3>3, Moves, Rests
  <2>3. QED
    BY <1>5, <2>1, <2>2 DEF Closing
<1>11. /\ \A j \in Inst : state'[j] = IF j = i THEN "Idle" ELSE state[j]
       /\ bmmQ' = bmmQ /\ uappQ' = uappQ /\ halQ' = Append(halQ, r)
  <2>1. PICK e1 : e1 = "UNOFFLOAD_FROM_MICROSTACK_SUCCESS"
    OBVIOUS
  <2>2. HasRow(state[i], e1) /\ NextState(state[i], e1) = u /\ Process(i, e1) /\ i \in Inst
    BY <1>7, <1>10, <2>1
  <2>3. /\ \A j \in Inst : state'[j] = IF j = i THEN Rest(u) ELSE state[j]
        /\ bmmQ' = bmmQ /\ uappQ' = uappQ /\ halQ' = Append(halQ, r)
    BY ONLY Base, <1>10, <2>2, Processed
  <2>4. QED
    BY <1>10, <2>3
<1>12. AcksKept /\ ReqsKept /\ DropsKept /\ ParamsKept
  BY <1>9, <1>10, <1>11, HalQPosted, QueuesKept DEF BmmQKept
<1>13. \A t \in SocketId :
         /\ In(halQ', NakOf(t)) <=> In(halQ, NakOf(t)) \/ (t = s /\ d = "opening")
         /\ In(halQ', DoneOf(t)) <=> In(halQ, DoneOf(t)) \/ (t = s /\ d = "closing")
  BY ONLY <1>9, <1>10, <1>11, Base, HalQPosted
<1>14. Resting' /\ Answers' /\ HalKnows' /\ Slots' /\ Leaving'
  <2>1. /\ state[i] # "Idle" /\ state[i] # "OffloadToMicroappSuccess"
        /\ state[i] # "OffloadToMicrostackSuccess"
    BY <1>5 DEF Closing
  <2>2. QED
    BY <1>4, <1>7, <1>8, <1>9, <1>11, <1>12, <1>13, <2>1, Ends
<1>15. /\ \A j \in Inst : state'[j] = "OffloadReq" <=> state[j] = "OffloadReq"
       /\ \A j \in Inst : state'[j] \in Known <=> state[j] \in Known /\ j # i
       /\ \A j \in Inst : state'[j] \in Open <=> state[j] \in Open
       /\ \A j \in Inst : state'[j] \in Closing <=> state[j] \in Closing /\ j # i
       /\ \A j \in Inst : state'[j] = "OffloadToMicroappSuccess"
                            => state[j] = "OffloadToMicroappSuccess"
       /\ state[i] \notin Open /\ state[i] # "OffloadReq"
  BY <1>5, <1>11 DEF Known, Open, Closing
<1>16. \A j \in Inst : state[j] \in Closing /\ j # i => pseudoId[j] # c
  <2>1. SUFFICES ASSUME NEW j \in Inst, state[j] \in Closing, j # i, pseudoId[j] = c
                 PROVE  FALSE
    OBVIOUS
  <2>2. i <= j /\ j <= i
    BY <1>5, <2>1 DEF Life, Conns, Known
  <2>3. QED
    BY <2>1, <2>2 DEF Inst
<1>17. ~In(bmmQ, DropOf(c))
  BY <1>4 DEF Life, Drops
<1>18. Requests'
  BY <1>4, <1>7, <1>12, <1>15 DEF Life, Requests, CfmsKept, ReqsKept
<1>19. Entries'
  <2>1. \A d1 \in ConnId, j \in Inst : Serves(d1, j)' <=> Serves(d1, j)
    BY <1>7 DEF Serves
  <2>2. InUse' = InUse
    BY <1>7 DEF InUse
  <2>3. ASSUME NEW k \in InUse
        PROVE  \E j \in Inst :
                 /\ socketId[j] = sock[k].sid
                 /\ \/ state'[j] \in Open
                    \/ state'[j] \in Closing /\ In(bmmQ', DropOf(pseudoId[j]))
                    \/ In(pipe', TakenOf(j, sock[k].conn))
    <3>1. PICK j \in Inst :
            /\ socketId[j] = sock[k].sid
            /\ \/ state[j] \in Open
               \/ state[j] \in Closing /\ In(bmmQ, DropOf(pseudoId[j]))
               \/ In(pipe, TakenOf(j, sock[k].conn))
      BY DEF Life, Entries
    <3>2. sock[k].conn \in ConnId /\ pseudoId[j] \in ConnId
      BY Typed
    <3>3. QED
      BY <1>4, <1>5, <1>12, <1>15, <1>17, <3>1, <3>2 DEF DropsKept, CfmsKept
  <2>4. \A j \in Inst, d1 \in ConnId : In(pipe', TakenOf(j, d1)) => Serves(d1, j)'
    BY <1>4, <2>1 DEF Life, Entries, CfmsKept
  <2>5. \A j \in Inst :
          /\ state'[j] \in Open => Serves(pseudoId[j], j)
          /\ state'[j] \in Closing /\ In(bmmQ', DropOf(pseudoId[j])) => Serves(pseudoId[j], j)
    BY <1>12, <1>15, Typed DEF Life, Entries, DropsKept
  <2>6. \A j \in Inst : Serves(pseudoId[j], j) => Serves(pseudoId[j], j)'
    BY <1>7 DEF Serves
  <2>7. QED
    BY <1>7, <2>2, <2>3, <2>4, <2>5, <2>6 DEF Entries
<1>20. Drops'
  BY <1>4, <1>5, <1>7, <1>12, <1>15, <1>16, <1>17, Typed DEF Life, Drops, DropsKept
<1>21. Conns'
  BY <1>4, <1>7, <1>12, <1>15 DEF Life, Conns, CfmsKept, ReqsKept
<1>22. Granted'
  BY <1>7, <1>12, <1>15, Typed DEF Life, Granted, ParamsKept
<1>23. QED
  BY <1>14, <1>18, <1>19, <1>20, <1>21, <1>22 DEF Life

\* What is read of the answer of a microapp, and whom it is for.
LEMMA ResRead ==
  ASSUME Base, Life, Receive("UAPP_OPEN_RES"), NEW s \in SocketId, NEW ok \in BOOLEAN,
         NEW m, m = Head(pipe), m.sid = s, m.ok = ok
  PROVE  /\ AsksKept /\ ClosesKept /\ CfmsKept /\ DroppedKept
         /\ \A t \in SocketId :
              /\ Once(pipe', ResOf(t))
              /\ In(pipe, ResOf(t)) <=> In(pipe', ResOf(t)) \/ t = s
              /\ t = s => ~In(pipe', ResOf(t)) /\ ~In(pipe', OpenedOf(t))
              /\ In(pipe, OpenedOf(t)) <=> In(pipe', OpenedOf(t)) \/ (t = s /\ ok)
         /\ \E i \in Inst :
              /\ socketId[i] = s /\ state[i] = "OffloadToMicrostackSuccess"
              /\ InstWithSocketId(s) # {} /\ Min(InstWithSocketId(s)) = i
              /\ \A j \in Inst : state[j] # "Idle" /\ socketId[j] = s => j = i
         /\ hal[s] = "opening"
         /\ ~In(uappQ, OpenReqOf(s)) /\ ~In(uappQ, LeaveOf(s))
         /\ \A e \in Endpoint : ~In(uappQ, OpenReqFor(s, e)) /\ ~In(uappQ, LeaveFor(s, e))
<1>1. /\ AsksKept /\ ClosesKept /\ CfmsKept /\ DroppedKept
      /\ \A t \in SocketId :
           /\ Once(pipe', ResOf(t))
           /\ In(pipe, ResOf(t)) <=> In(pipe', ResOf(t)) \/ t = s
           /\ t = s => ~In(pipe', ResOf(t))
           /\ In(pipe, OpenedOf(t)) <=> In(pipe', OpenedOf(t)) \/ (t = s /\ ok)
  BY ONLY Base, Life, Receive("UAPP_OPEN_RES"), m = Head(pipe), m.sid = s, m.ok = ok, PipeRead
<1>2. PICK i \in Inst : socketId[i] = s /\ state[i] = "OffloadToMicrostackSuccess"
  BY <1>1 DEF Life, Answers
<1>3. /\ InstWithSocketId(s) # {} /\ Min(InstWithSocketId(s)) = i
      /\ \A j \in Inst : state[j] # "Idle" /\ socketId[j] = s => j = i
  BY <1>2, OnlyHolder
<1>4. hal[s] = "opening"
  BY <1>2 DEF Life, HalKnows
<1>5. ~In(uappQ, OpenReqOf(s))
  BY <1>1 DEF Life, Answers
<1>6. ~In(uappQ, LeaveOf(s))
  BY <1>2, <1>5 DEF Life, Leaving, Known, Open
<1>7. \A e \in Endpoint : ~In(uappQ, OpenReqFor(s, e)) /\ ~In(uappQ, LeaveFor(s, e))
  BY <1>5, <1>6, Wider
<1>8. ~In(pipe', OpenedOf(s))
  <2>1. OpenedOf(s) \subseteq ResOf(s)
    BY DEF OpenedOf, ResOf, OpenRes
  <2>2. QED
    BY <1>1, <2>1, InSubset
<1>9. QED
  BY <1>1, <1>2, <1>3, <1>4, <1>5, <1>6, <1>7, <1>8

\* The microapp took the socket: the HAL is told that it is open.
LEMMA OpenedLife ==
  ASSUME Base, Life, HandleUappOpenRes, UNCHANGED <<bmmVars, appVars, hal>>,
         Head(pipe).sid \in SocketId, Head(pipe).ok
  PROVE  Life'
<1>1. PICK m \in UappOpenResMsg : m = Head(pipe)
  BY PipeHead DEF HandleUappOpenRes, Base, TypeOK
<1>2. PICK s \in SocketId, ok \in BOOLEAN : m.sid = s /\ m.ok = ok /\ ok = TRUE
  BY <1>1
<1>3. Receive("UAPP_OPEN_RES")
  BY DEF HandleUappOpenRes
<1>4. /\ AsksKept /\ ClosesKept /\ CfmsKept /\ DroppedKept
      /\ \A t \in SocketId :
           /\ Once(pipe', ResOf(t))
           /\ In(pipe, ResOf(t)) <=> In(pipe', ResOf(t)) \/ t = s
           /\ t = s => ~In(pipe', ResOf(t)) /\ ~In(pipe', OpenedOf(t))
           /\ In(pipe, OpenedOf(t)) <=> In(pipe', OpenedOf(t)) \/ (t = s /\ ok)
      /\ \E i \in Inst :
           /\ socketId[i] = s /\ state[i] = "OffloadToMicrostackSuccess"
           /\ InstWithSocketId(s) # {} /\ Min(InstWithSocketId(s)) = i
           /\ \A j \in Inst : state[j] # "Idle" /\ socketId[j] = s => j = i
      /\ hal[s] = "opening"
      /\ ~In(uappQ, OpenReqOf(s)) /\ ~In(uappQ, LeaveOf(s))
      /\ \A e \in Endpoint : ~In(uappQ, OpenReqFor(s, e)) /\ ~In(uappQ, LeaveFor(s, e))
  BY ONLY ZenonT(60), <1>1, <1>2, <1>3, Base, Life, ResRead
<1>5. PICK i \in Inst :
        /\ socketId[i] = s /\ state[i] = "OffloadToMicrostackSuccess"
        /\ InstWithSocketId(s) # {} /\ Min(InstWithSocketId(s)) = i
        /\ \A j \in Inst : state[j] # "Idle" /\ socketId[j] = s => j = i
  BY <1>4
<1>6. /\ Process(i, UappEvent(TRUE))
      /\ UNCHANGED <<socketId, pseudoId, epId, sock, slot, hal>>
  BY <1>1, <1>2, <1>5 DEF HandleUappOpenRes, dataVars, bmmVars, appVars
<1>7. PICK c \in ConnId, e \in Endpoint : pseudoId[i] = c /\ epId[i] = e
  BY Typed
<1>8. PICK r : r = [type |-> "SET_PARAMS_REQ", conn |-> c]
  OBVIOUS
<1>9. PICK a : a = OpenRsp(s, TRUE)
  OBVIOUS
<1>10. /\ r \in BmmMsg /\ r.type = "SET_PARAMS_REQ" /\ r.conn = c
       /\ a \in HalMsg /\ a.type = "OPEN_RSP" /\ a.ok /\ a.sid = s
  BY <1>8, <1>9 DEF BmmMsg, HalMsg, OpenRsp
<1>11. /\ ToBmm(i, "OffloadToMicroappSuccess") = <<r>>
       /\ ToUapp(i, "OffloadToMicroappSuccess") = <<>>
       /\ ToHal(i, "OffloadToMicroappSuccess") = <<a>>
  BY <1>5, <1>6, <1>7, <1>8, <1>9 DEF ToBmm, ToUapp, ToHal
<1>12. /\ \A j \in Inst : state'[j] = IF j = i THEN "OffloadToMicroappSuccess" ELSE state[j]
       /\ bmmQ' = Append(bmmQ, r) /\ uappQ' = uappQ /\ halQ' = Append(halQ, a)
  <2>1. PICK e1, u : e1 = "OFFLOAD_TO_MICROAPP_SUCCESS" /\ u = "OffloadToMicroappSuccess"
    OBVIOUS
  <2>2. HasRow(state[i], e1) /\ NextState(state[i], e1) = u /\ Rest(u) = u /\ Process(i, e1)
    BY <1>5, <1>6, <2>1, Moves, Rests DEF UappEvent, Known, Open
  <2>3. ToBmm(i, u) = <<r>> /\ ToUapp(i, u) = <<>> /\ ToHal(i, u) = <<a>> /\ i \in Inst
    BY <1>11, <2>1
  <2>4. /\ \A j \in Inst : state'[j] = IF j = i THEN u ELSE state[j]
        /\ bmmQ' = Append(bmmQ, r) /\ uappQ' = uappQ /\ halQ' = Append(halQ, a)
    BY ONLY Base, <1>10, <2>2, <2>3, Processed
  <2>5. QED
    BY <2>1, <2>4
<1>13. ReqsKept /\ DropsKept /\ UappQKept /\ OpenReqsKept /\ LeavesKept /\ FinalsKept
  BY <1>10, <1>12, QueuesKept, BmmQPosted, HalQPosted DEF UappQKept
<1>14. \A d \in ConnId : In(bmmQ', ParamsOf(d)) <=> In(bmmQ, ParamsOf(d)) \/ d = c
  BY ONLY <1>10, <1>12, Base, BmmQPosted
<1>15. \A t \in SocketId :
         /\ In(halQ', AckOf(t)) <=> In(halQ, AckOf(t)) \/ t = s
         /\ Once(halQ, AckOf(t)) /\ ~(t = s /\ In(halQ, AckOf(t))) => Once(halQ', AckOf(t))
  BY ONLY <1>10, <1>12, Base, HalQPosted
<1>16. /\ \A j \in Inst : j # i => state'[j] = state[j]
       /\ \A j \in Inst : state'[j] \in Open <=> state[j] \in Open
       /\ \A j \in Inst : state'[j] \in Closing <=> state[j] \in Closing
       /\ \A j \in Inst : state'[j] \in Known <=> state[j] \in Known
       /\ \A j \in Inst : state'[j] = "OffloadReq" <=> state[j] = "OffloadReq"
       /\ state'[i] = "OffloadToMicroappSuccess"
  BY <1>5, <1>12 DEF Open, Closing, Known
<1>17. ~Offered(s)
  BY <1>5 DEF Offered
<1>18. ~In(halQ, AckOf(s)) /\ ~In(pipe, CloseOf(s))
  BY <1>17 DEF Life, HalKnows
<1>19. Resting'
  BY <1>16 DEF Life, Resting, Known, Open
<1>20. Requests'
  BY <1>4, <1>6, <1>13, <1>16 DEF Life, Requests, CfmsKept, ReqsKept
<1>21. Entries'
  <2>1. \A d \in ConnId, j \in Inst : Serves(d, j)' <=> Serves(d, j)
    BY <1>6 DEF Serves
  <2>2. InUse' = InUse
    BY <1>6 DEF InUse
  <2>3. \A j \in Inst : Serves(pseudoId[j], j) => Serves(pseudoId[j], j)'
    BY <1>6 DEF Serves
  <2>4. QED
    BY <1>4, <1>6, <1>13, <1>16, <2>1, <2>2, <2>3, Typed DEF Life, Entries, CfmsKept, DropsKept
<1>22. Answers'
  <2>1. \A j \in Inst : state'[j] = "OffloadToMicrostackSuccess" =>
          j # i /\ state[j] = "OffloadToMicrostackSuccess" /\ socketId[j] # s
          /\ socketId[j] \in SocketId
    BY <1>5, <1>12, Typed
  <2>2. ASSUME NEW t \in SocketId
        PROVE  /\ Once(uappQ', OpenReqOf(t)) /\ Once(pipe', ResOf(t))
               /\ ~In(uappQ', OpenReqOf(t)) \/ ~In(pipe', ResOf(t))
               /\ In(uappQ', OpenReqOf(t)) \/ In(pipe', ResOf(t)) =>
                    \E j \in Inst : socketId[j] = t /\ state'[j] = "OffloadToMicrostackSuccess"
    <3>1. CASE t = s
      BY <1>4, <1>13, <3>1 DEF Life, Answers, OpenReqsKept
    <3>2. CASE t # s
      BY <1>4, <1>5, <1>12, <1>13, <3>2 DEF Life, Answers, OpenReqsKept
    <3>3. QED
      BY <3>1, <3>2
  <2>3. QED
    BY <1>4, <1>6, <1>13, <2>1, <2>2 DEF Life, Answers, OpenReqsKept
<1>23. Drops'
  BY <1>4, <1>6, <1>13, <1>16, Typed DEF Life, Drops, DropsKept, DroppedKept
<1>24. HalKnows'
  <2>1. \A t \in SocketId : Offered(t)' <=> Offered(t) \/ t = s
    BY <1>5, <1>6, <1>12 DEF Offered
  <2>2. \A j \in Inst : j # i /\ state'[j] # "Idle" =>
          socketId[j] # s /\ socketId[j] \in SocketId /\ state'[j] = state[j]
    BY <1>5, <1>16, Typed
  <2>3. ASSUME NEW t \in SocketId
        PROVE  /\ Once(pipe', CloseOf(t)) /\ Once(halQ', AckOf(t))
               /\ In(pipe', CloseOf(t)) => hal[t] = "closing" /\ Offered(t)'
               /\ In(halQ', AckOf(t)) => hal[t] = "opening" /\ Offered(t)'
               /\ In(pipe', AskOf(t)) \/ In(halQ', NakOf(t)) => hal[t] = "opening"
               /\ In(halQ', DoneOf(t)) => hal[t] = "closing"
    BY <1>4, <1>13, <1>15, <1>18, <2>1 DEF Life, HalKnows, AsksKept, ClosesKept, FinalsKept
  <2>4. ASSUME NEW j \in Inst
        PROVE  /\ state'[j] = "OffloadToMicroappSuccess" =>
                    \/ hal[socketId[j]] = "open"
                    \/ hal[socketId[j]] = "opening" /\ In(halQ', AckOf(socketId[j]))
                    \/ hal[socketId[j]] = "closing" /\ In(pipe', CloseOf(socketId[j]))
               /\ state'[j] \in {"OffloadReq", "OffloadToMicrostackSuccess",
                                 "OffloadToMicroappFailure"} => hal[socketId[j]] = "opening"
               /\ state'[j] = "UnOffloadReqToMicrostack" => hal[socketId[j]] = "closing"
    <3>1. CASE j = i
      BY <1>4, <1>5, <1>15, <1>16, <3>1
    <3>2. CASE j # i
      BY <1>4, <1>15, <2>2, <3>2 DEF Life, HalKnows, ClosesKept
    <3>3. QED
      BY <3>1, <3>2
  <2>5. QED
    BY <1>6, <2>3, <2>4 DEF HalKnows
<1>25. Slots'
  <2>1. \A a1 \in Protocol : a1 \in Endpoint
    BY DEF Endpoint
  <2>2. ASSUME NEW a1 \in Protocol, NEW n \in Slot, slot[a1][n] # ClearSlot
        PROVE  \/ In(uappQ', LeaveFor(slot[a1][n], a1))
               \/ \E j \in Inst :
                    /\ socketId[j] = slot[a1][n] /\ epId[j] = a1
                    /\ \/ state'[j] = "OffloadToMicroappSuccess"
                       \/ /\ state'[j] = "OffloadToMicrostackSuccess"
                          /\ In(pipe', OpenedOf(slot[a1][n]))
    <3>1. slot[a1][n] \in SocketId
      BY <2>2, Typed
    <3>2. CASE slot[a1][n] = s
      BY <1>4, <1>5, <1>16, <2>1, <2>2, <3>2 DEF Life, Slots
    <3>3. CASE slot[a1][n] # s
      BY <1>4, <1>12, <1>5, <1>13, <2>1, <2>2, <3>1, <3>3 DEF Life, Slots, LeavesKept
    <3>4. QED
      BY <3>2, <3>3
  <2>3. \A j \in Inst :
          \/ state'[j] = "OffloadToMicroappSuccess"
          \/ state'[j] = "OffloadToMicrostackSuccess" /\ In(pipe', OpenedOf(socketId[j]))
          => epId[j] \in Protocol /\ SlotsOf(epId[j], socketId[j]) # {}
    <3>1. epId[i] \in Protocol /\ SlotsOf(epId[i], socketId[i]) # {}
      BY <1>2, <1>4, <1>5 DEF Life, Slots
    <3>2. QED
      BY <1>4, <1>16, <3>1, Typed DEF Life, Slots
  <2>4. QED
    BY <1>6, <2>2, <2>3 DEF Life, Slots, SlotsOf
<1>26. Leaving'
  <2>1. \A t \in SocketId : In(uappQ', LeaveOf(t)) => t # s
    BY <1>4, <1>13 DEF LeavesKept
  <2>2. \A j \in Inst : state'[j] \in Known /\ socketId[j] # s => state'[j] = state[j]
    BY <1>5, <1>16
  <2>3. QED
    BY <1>6, <1>13, <2>1, <2>2 DEF Life, Leaving, SlotsOf, UappQKept, OpenReqsKept, LeavesKept
<1>27. Conns'
  BY <1>4, <1>6, <1>13, <1>16 DEF Life, Conns, CfmsKept, ReqsKept
<1>28. Granted'
  BY <1>6, <1>7, <1>14, <1>16, Typed DEF Life, Granted
<1>29. QED
  BY <1>19, <1>20, <1>21, <1>22, <1>23, <1>24, <1>25, <1>26, <1>27, <1>28 DEF Life

\* The microapp refused the socket: the BMM is asked to let its connection go.
LEMMA NotOpenedLife ==
  ASSUME Base, Life, HandleUappOpenRes, UNCHANGED <<bmmVars, appVars, hal>>,
         Head(pipe).sid \in SocketId, ~Head(pipe).ok
  PROVE  Life'
<1>1. PICK m \in UappOpenResMsg : m = Head(pipe)
  BY PipeHead DEF HandleUappOpenRes, Base, TypeOK
<1>2. PICK s \in SocketId, ok \in BOOLEAN : m.sid = s /\ m.ok = ok /\ ok = FALSE
  BY <1>1 DEF UappOpenResMsg
<1>3. Receive("UAPP_OPEN_RES")
  BY DEF HandleUappOpenRes
<1>4. /\ AsksKept /\ ClosesKept /\ CfmsKept /\ DroppedKept
      /\ \A t \in SocketId :
           /\ Once(pipe', ResOf(t))
           /\ In(pipe, ResOf(t)) <=> In(pipe', ResOf(t)) \/ t = s
           /\ t = s => ~In(pipe', ResOf(t)) /\ ~In(pipe', OpenedOf(t))
           /\ In(pipe, OpenedOf(t)) <=> In(pipe', OpenedOf(t)) \/ (t = s /\ ok)
      /\ \E i \in Inst :
           /\ socketId[i] = s /\ state[i] = "OffloadToMicrostackSuccess"
           /\ InstWithSocketId(s) # {} /\ Min(InstWithSocketId(s)) = i
           /\ \A j \in Inst : state[j] # "Idle" /\ socketId[j] = s => j = i
      /\ hal[s] = "opening"
      /\ ~In(uappQ, OpenReqOf(s)) /\ ~In(uappQ, LeaveOf(s))
      /\ \A e \in Endpoint : ~In(uappQ, OpenReqFor(s, e)) /\ ~In(uappQ, LeaveFor(s, e))
  BY ONLY <1>1, <1>2, <1>3, Base, Life, ResRead
<1>5. PICK i \in Inst :
        /\ socketId[i] = s /\ state[i] = "OffloadToMicrostackSuccess"
        /\ InstWithSocketId(s) # {} /\ Min(InstWithSocketId(s)) = i
        /\ \A j \in Inst : state[j] # "Idle" /\ socketId[j] = s => j = i
  BY <1>4
<1>6. /\ Process(i, UappEvent(FALSE))
      /\ UNCHANGED <<socketId, pseudoId, epId, sock, slot, hal>>
  BY <1>1, <1>2, <1>5 DEF HandleUappOpenRes, dataVars, bmmVars, appVars
<1>7. PICK c \in ConnId : pseudoId[i] = c
  BY Typed
<1>8. PICK r : r = [type |-> "CLOSE_REQ", conn |-> c]
  OBVIOUS
<1>10. r \in BmmMsg /\ r.type = "CLOSE_REQ" /\ r.conn = c
  BY <1>8 DEF BmmMsg
<1>11. /\ ToBmm(i, "OffloadToMicroappFailure") = <<r>>
       /\ ToUapp(i, "OffloadToMicroappFailure") = <<>>
       /\ ToHal(i, "OffloadToMicroappFailure") = <<>>
  BY <1>6, <1>7, <1>8 DEF ToBmm, ToUapp, ToHal
<1>12. /\ \A j \in Inst : state'[j] = IF j = i THEN "OffloadToMicroappFailure" ELSE state[j]
       /\ bmmQ' = Append(bmmQ, r) /\ uappQ' = uappQ /\ halQ' = halQ
  <2>1. PICK e1, u : e1 = "OFFLOAD_TO_MICROAPP_FAILURE" /\ u = "OffloadToMicroappFailure"
    OBVIOUS
  <2>2. HasRow(state[i], e1) /\ NextState(state[i], e1) = u /\ Rest(u) = u /\ Process(i, e1)
    BY <1>5, <1>6, <2>1, Moves, Rests DEF UappEvent, Known, Closing
  <2>3. ToBmm(i, u) = <<r>> /\ ToUapp(i, u) = <<>> /\ ToHal(i, u) = <<>> /\ i \in Inst
    BY <1>11, <2>1
  <2>4. /\ \A j \in Inst : state'[j] = IF j = i THEN u ELSE state[j]
        /\ bmmQ' = Append(bmmQ, r) /\ uappQ' = uappQ /\ halQ' = halQ
    BY ONLY Base, <1>10, <2>2, <2>3, Processed
  <2>5. QED
    BY <2>1, <2>4
<1>13. Resting' /\ Requests' /\ Entries' /\ Drops' /\ Conns' /\ Granted'
  BY <1>4, <1>5, <1>6, <1>7, <1>10, <1>12, LetsGo DEF Open, Closing
<1>14. UappQKept /\ OpenReqsKept /\ LeavesKept /\ AcksKept /\ FinalsKept
  BY <1>12, QueuesKept DEF UappQKept, HalQKept
<1>15. /\ \A j \in Inst : j # i => state'[j] = state[j]
       /\ state'[i] = "OffloadToMicroappFailure"
  BY <1>12
<1>16. Answers'
  <2>1. \A j \in Inst : state'[j] = "OffloadToMicrostackSuccess" =>
          j # i /\ state[j] = "OffloadToMicrostackSuccess" /\ socketId[j] # s
          /\ socketId[j] \in SocketId
    BY <1>5, <1>12, Typed
  <2>2. ASSUME NEW t \in SocketId
        PROVE  /\ Once(uappQ', OpenReqOf(t)) /\ Once(pipe', ResOf(t))
               /\ ~In(uappQ', OpenReqOf(t)) \/ ~In(pipe', ResOf(t))
               /\ In(uappQ', OpenReqOf(t)) \/ In(pipe', ResOf(t)) =>
                    \E j \in Inst : socketId[j] = t /\ state'[j] = "OffloadToMicrostackSuccess"
    <3>1. CASE t = s
      BY <1>4, <1>14, <3>1 DEF Life, Answers, OpenReqsKept
    <3>2. CASE t # s
      BY <1>4, <1>5, <1>12, <1>14, <3>2 DEF Life, Answers, OpenReqsKept
    <3>3. QED
      BY <3>1, <3>2
  <2>3. QED
    BY <1>4, <1>6, <1>14, <2>1, <2>2 DEF Life, Answers, OpenReqsKept
<1>17. \A j \in Inst : state'[j] = "OffloadToMicroappSuccess"
                         <=> state[j] = "OffloadToMicroappSuccess"
  BY <1>5, <1>12
<1>18. HalKnows'
  <2>1. \A t \in SocketId : Offered(t)' <=> Offered(t)
    BY <1>6, <1>17 DEF Offered
  <2>2. \A j \in Inst : \/ state'[j] = state[j]
                        \/ /\ state'[j] = "OffloadToMicroappFailure"
                           /\ hal[socketId[j]] = "opening"
    BY <1>4, <1>5, <1>15
  <2>3. QED
    BY <1>4, <1>6, <1>14, <2>1, <2>2, Typed
       DEF Life, HalKnows, AsksKept, ClosesKept, AcksKept, FinalsKept
<1>19. Slots'
  <2>1. ASSUME NEW a1 \in Protocol, NEW n \in Slot, slot[a1][n] # ClearSlot
        PROVE  \/ In(uappQ', LeaveFor(slot[a1][n], a1))
               \/ \E j \in Inst :
                    /\ socketId[j] = slot[a1][n] /\ epId[j] = a1
                    /\ \/ state'[j] = "OffloadToMicroappSuccess"
                       \/ /\ state'[j] = "OffloadToMicrostackSuccess"
                          /\ In(pipe', OpenedOf(slot[a1][n]))
    <3>1. slot[a1][n] \in SocketId /\ a1 \in Endpoint
      BY <2>1, Typed DEF Endpoint
    <3>2. ~In(pipe, OpenedOf(s))
      BY <1>2, <1>4
    <3>3. slot[a1][n] # s
      BY <1>4, <1>5, <2>1, <3>1, <3>2 DEF Life, Slots
    <3>4. QED
      BY <1>4, <1>12, <1>5, <1>14, <2>1, <3>1, <3>3 DEF Life, Slots, LeavesKept
  <2>2. \A j \in Inst :
          \/ state'[j] = "OffloadToMicroappSuccess"
          \/ state'[j] = "OffloadToMicrostackSuccess" /\ In(pipe', OpenedOf(socketId[j]))
          => epId[j] \in Protocol /\ SlotsOf(epId[j], socketId[j]) # {}
    BY <1>4, <1>15, Typed DEF Life, Slots
  <2>3. QED
    BY <1>6, <2>1, <2>2 DEF Life, Slots, SlotsOf
<1>20. Leaving'
  <2>1. \A t \in SocketId : In(uappQ', LeaveOf(t)) => t # s
    BY <1>4, <1>14 DEF LeavesKept
  <2>2. \A j \in Inst : state'[j] \in Known /\ socketId[j] # s => state'[j] = state[j]
    BY <1>5, <1>15
  <2>3. QED
    BY <1>6, <1>14, <2>1, <2>2 DEF Life, Leaving, SlotsOf, UappQKept, OpenReqsKept, LeavesKept
<1>21. QED
  BY <1>13, <1>16, <1>18, <1>19, <1>20 DEF Life

\* An answer that names no socket of the HAL finds no instance.
LEMMA UnknownAnswerLife ==
  ASSUME Base, Life, HandleUappOpenRes, UNCHANGED <<bmmVars, appVars, hal>>,
         Head(pipe).sid \notin SocketId
  PROVE  Life'
<1>1. PICK m \in UappOpenResMsg : m = Head(pipe)
  BY PipeHead DEF HandleUappOpenRes, Base, TypeOK
<1>2. Receive("UAPP_OPEN_RES") /\ m.sid = UnknownEndpointId /\ m.sid \notin SocketId
  BY <1>1 DEF HandleUappOpenRes, UappOpenResMsg
<1>3. InstWithSocketId(m.sid) = {}
  BY <1>2 DEF Base, TypeOK, MgrTypeOK, InstWithSocketId, NoSocket, UnknownEndpointId
<1>4. /\ UNCHANGED <<state, bmmQ, uappQ, halQ>>
      /\ InstancesKept /\ sock' = sock /\ slot' = slot /\ hal' = hal
  BY <1>1, <1>3 DEF HandleUappOpenRes, Stay, InstancesKept, dataVars, bmmVars, appVars
<1>5. /\ AsksKept /\ ClosesKept /\ CfmsKept /\ DroppedKept /\ m \in PipeMsg
      /\ BmmQKept /\ UappQKept /\ HalQKept
  BY <1>1, <1>2, <1>4, QueuesKept, PipeRead
<1>6. RessKept
  BY ONLY <1>1, <1>2, Base, Life, PipeRead DEF RessKept
<1>7. QED
  BY <1>4, <1>5, <1>6, RequestsKept, EntriesKeep, AnswersKept, DropsKeep, SlotsKept, HalKnowsKept,
     LeavingKept, ConnsKept, GrantedKept
     DEF Life, Resting, InstancesKept, BmmQKept, UappQKept, HalQKept

-----------------------------------------------------------------------------
(* The invariant holds.                                                    *)

\* At first nothing is on its way and nothing is held.
LEMMA InitLife == Init => Life
<1> SUFFICES ASSUME Init
             PROVE  Life
  OBVIOUS
<1>1. /\ pipe = <<>> /\ bmmQ = <<>> /\ uappQ = <<>> /\ halQ = <<>>
      /\ \A i \in Inst : state[i] = "Idle" /\ pseudoId[i] = NoConn
      /\ \A k \in Sock : ~sock[k].inUse
      /\ \A a \in Protocol, n \in Slot : slot[a][n] = ClearSlot
  BY DEF Init, ChannelsInit, MgrInit, BmmInit, AppInit, FreeSock
<1>2. \A M, N : /\ ~In(pipe, M) /\ ~In(bmmQ, M) /\ ~In(uappQ, M) /\ ~In(halQ, M)
                /\ Once(pipe, M) /\ Once(bmmQ, M) /\ Once(uappQ, M) /\ Once(halQ, M)
                /\ Ahead(pipe, M, N) /\ Ahead(bmmQ, M, N) /\ Ahead(uappQ, M, N)
  BY <1>1 DEF In, Once, Ahead
<1>3. \A i \in Inst : state[i] \notin Open /\ state[i] \notin Closing /\ state[i] \notin Known
  BY <1>1 DEF Open, Closing, Known
<1>4. InUse = {}
  BY <1>1 DEF InUse
<1>5. Resting /\ Requests /\ Entries /\ Answers /\ Drops
  BY <1>1, <1>2, <1>3, <1>4 DEF Resting, Requests, Entries, Answers, Drops
<1>6. HalKnows /\ Slots /\ Leaving /\ Conns /\ Granted
  BY <1>1, <1>2, <1>3 DEF HalKnows, Slots, Leaving, Conns, Granted
<1>7. QED
  BY <1>5, <1>6 DEF Life

\* Every step keeps the lives of the sockets in order.
LEMMA NextLife ==
  ASSUME PatientHal, Base, Life, [Next]_vars
  PROVE  Life'
<1>1. CASE MgrStep
  <2>1. UNCHANGED <<bmmVars, appVars, hal>> /\ MgrNext
    BY <1>1 DEF MgrStep
  <2>2. CASE HandleOpenSocket
    BY <2>1, <2>2, OpenSocketLife
  <2>3. CASE HandleOpenNoInstance
    BY <2>1, <2>3, NoInstanceLife
  <2>4. CASE HandleCloseSocket
    BY <2>1, <2>4, CloseSocketLife
  <2>5. CASE HandleOffloadCfm
    BY <2>1, <2>5, TakenLife, NotTakenLife
  <2>6. CASE HandleCloseCfm
    BY <2>1, <2>6, CloseCfmLife
  <2>7. CASE HandleUappOpenRes
    BY <2>1, <2>7, OpenedLife, NotOpenedLife, UnknownAnswerLife
  <2>8. CASE HandleErrorInd
    BY <2>1, <2>8, ErrorIndLife
  <2>9. QED
    BY <2>1, <2>2, <2>3, <2>4, <2>5, <2>6, <2>7, <2>8 DEF MgrNext
<1>2. CASE BmmStep
  <2>1. UNCHANGED <<mgrVars, appVars, hal>> /\ BmmNext
    BY <1>2 DEF BmmStep
  <2>2. ASSUME NEW k \in Sock, LinkViolation(k)
        PROVE  Life'
    BY <2>1, <2>2, LinkViolationLife
  <2>3. QED
    BY <2>1, <2>2, OffloadReqLife, RefuseOffloadLife, CloseReqLife, SetParamsLife DEF BmmNext
<1>3. CASE AppStep
  <2>1. UNCHANGED <<mgrVars, bmmVars, hal>> /\ AppNext
    BY <1>3 DEF AppStep
  <2>2. QED
    BY <2>1, AppOpensLife, AppRefusesLife, AppClosesLife DEF AppNext
<1>4. CASE HalReceiveStep
  BY <1>4, HalReceiveLife DEF HalReceiveStep
<1>5. CASE HalRequestStep
  <2>1. UNCHANGED <<mgrVars, bmmVars, appVars>> /\ HalRequest
    BY <1>5 DEF HalRequestStep
  <2>2. ASSUME NEW s \in SocketId, NEW o \in Offers, HalOpen(s, o)
        PROVE  Life'
    BY <2>1, <2>2, HalOpenLife
  <2>3. ASSUME NEW s \in SocketId, HalClose(s)
        PROVE  Life'
    BY <2>1, <2>3, HalCloseLife
  <2>4. QED
    BY <2>1, <2>2, <2>3 DEF HalRequest
<1>6. CASE UNCHANGED vars
  <2>1. /\ pipe' = pipe /\ bmmQ' = bmmQ /\ uappQ' = uappQ /\ halQ' = halQ
        /\ InstancesKept /\ sock' = sock /\ slot' = slot /\ hal' = hal
    BY <1>6 DEF vars, channels, mgrVars, bmmVars, appVars, InstancesKept
  <2>2. PipeKept /\ BmmQKept /\ UappQKept /\ HalQKept
    BY <2>1, QueuesKept
  <2>3. QED
    BY <2>1, <2>2, RequestsKept, EntriesKeep, AnswersKept, DropsKeep, SlotsKept, HalKnowsKept,
       LeavingKept, ConnsKept, GrantedKept
       DEF Life, Resting, InstancesKept, PipeKept, BmmQKept, UappQKept, HalQKept
<1>7. QED
  BY <1>1, <1>2, <1>3, <1>4, <1>5, <1>6 DEF Next

\* In every run of the system, for any pool, table and slot sizes, any link
\* faults and any number of sockets, a patient HAL finds the lives of its
\* sockets in order.
THEOREM LivesInOrder ==
  ASSUME PatientHal
  PROVE  Spec => [](Base /\ Life)
<1>1. Spec => []Base
  BY TypeCorrect, HolderUnique, LookupFindsHolder, TableConsistent, CountsMatchSlots, PTL DEF Base
<1>2. Base /\ Life /\ [Next]_vars => Life'
  BY NextLife
<1>3. QED
  BY <1>1, <1>2, InitLife, PTL DEF Spec

-----------------------------------------------------------------------------
(* What follows from the invariant.                                        *)

\* The scan by connection id that serves the close confirmations and the
\* received data finds the instance that offers the connection, for every
\* number of sockets, entries and instances, when the HAL closes no socket whose
\* open it was not answered.
THEOREM DataFindsInstance ==
  ASSUME PatientHal
  PROVE  Spec => []PseudoIdLookup
<1>1. Life => PseudoIdLookup
  <2> SUFFICES ASSUME Life, NEW i \in Established
               PROVE  Min(InstWithPseudoId(pseudoId[i])) = i
    BY DEF PseudoIdLookup
  <2>1. PICK S : S = InstWithPseudoId(pseudoId[i])
    OBVIOUS
  <2>2. S \in SUBSET Nat /\ i \in S /\ \A j \in S : i <= j
    BY <2>1 DEF InstWithPseudoId, Life, Conns, Established, Known, Open, Inst
  <2>3. Min(S) \in S /\ Min(S) <= i
    BY <2>2, MinIsLeast
  <2>4. i <= Min(S) /\ Min(S) \in Nat /\ i \in Nat
    BY <2>2, <2>3
  <2>5. QED
    BY <2>1, <2>3, <2>4
<1>2. QED
  BY <1>1, LivesInOrder, PTL

\* The BMM frees an entry only for the instance the HAL is closing or whose
\* microapp refused: under a patient HAL no close, however late it is handled,
\* takes the connection from under an instance that still offers the socket.
THEOREM FreesForOwner ==
  ASSUME PatientHal
  PROVE  Spec => CloseIsOwned
<1>1. ASSUME Base, Life, [Next]_vars, NEW k \in Sock, sock[k].inUse, ~sock'[k].inUse,
             NEW i \in Busy, pseudoId[i] = sock[k].conn, socketId[i] = sock[k].sid
      PROVE  state[i] \in {"UnOffloadReqToMicrostack", "OffloadToMicroappFailure"}
  <2>1. sock' # sock
    BY <1>1
  <2>2. BmmNext
    BY <1>1, <2>1 DEF Next, MgrStep, BmmStep, AppStep, HalReceiveStep, HalRequestStep, vars,
                      bmmVars
  <2>3. ~RefuseOffloadReq
    BY <2>1 DEF RefuseOffloadReq
  <2>4. ~HandleOffloadReq /\ ~HandleSetParamsReq /\ \A l \in Sock : ~LinkViolation(l)
    <3>1. sock \in [Sock -> UsedSock \cup {FreeSock}]
      BY <1>1 DEF Base, TypeOK, BmmTypeOK
    <3>2. sock[k] \in UsedSock
      BY <1>1, <3>1 DEF FreeSock
    <3>3. \A l, v : sock' = [sock EXCEPT ![l] = v] => l = k /\ ~v.inUse
      BY <1>1, <3>1
    <3>4. ~HandleOffloadReq
      <4>1. SUFFICES ASSUME HandleOffloadReq PROVE FALSE
        OBVIOUS
      <4>2. PICK l, c, m : sock' = [sock EXCEPT ![l] = [inUse |-> TRUE, conn |-> c,
                              sid |-> m.sid, proto |-> m.proto, inError |-> FALSE,
                              credits |-> FALSE]]
        BY <4>1 DEF HandleOffloadReq
      <4>3. PICK v : v = [inUse |-> TRUE, conn |-> c, sid |-> m.sid, proto |-> m.proto,
                          inError |-> FALSE, credits |-> FALSE]
        OBVIOUS
      <4>4. sock' = [sock EXCEPT ![l] = v] /\ v.inUse
        BY <4>2, <4>3
      <4>5. QED
        BY <3>3, <4>4
    <3>5. \A l : sock' # [sock EXCEPT ![l].credits = TRUE] /\ sock' # [sock EXCEPT ![l].inError = TRUE]
      BY <1>1, <3>1, <3>2 DEF UsedSock
    <3>6. ~HandleSetParamsReq
      BY <2>1, <3>5 DEF HandleSetParamsReq
    <3>7. \A l \in Sock : ~LinkViolation(l)
      BY <3>5 DEF LinkViolation
    <3>8. QED
      BY <3>4, <3>6, <3>7
  <2>5. HandleCloseReq
    BY <2>2, <2>3, <2>4 DEF BmmNext
  <2>6. PICK c \in ConnId : c = Head(bmmQ).conn
    BY <1>1, <2>5, BmmHead DEF HandleCloseReq, Base, TypeOK
  <2>7. k = c.idx /\ IsConnIdValid(c)
    BY <1>1, <2>1, <2>5, <2>6 DEF HandleCloseReq, Base, TypeOK, BmmTypeOK
  <2>8. PICK m : m = Head(bmmQ)
    OBVIOUS
  <2>9. BmmReceive("CLOSE_REQ") /\ m.conn = c
    BY <2>5, <2>6, <2>8 DEF HandleCloseReq
  <2>10. \A d \in ConnId : In(bmmQ, DropOf(d)) <=> In(bmmQ', DropOf(d)) \/ d = c
    BY ONLY <1>1, <2>8, <2>9, BmmQRead
  <2>11. PICK j \in Inst : pseudoId[j] = c /\ state[j] \in Closing /\ Serves(c, j)
    BY <1>1, <2>10 DEF Life, Drops, Entries
  <2>12. state[j] # "Idle" /\ socketId[j] = socketId[i]
    BY <1>1, <2>7, <2>11 DEF Serves, Closing
  <2>13. i = j
    BY <1>1, <2>12, OnlyHolder DEF Busy
  <2>14. QED
    BY <2>11, <2>13 DEF Closing
<1>2. Base /\ Life /\ [Next]_vars =>
        [\A k \in Sock :
           sock[k].inUse /\ ~sock'[k].inUse =>
             \A i \in Busy :
               pseudoId[i] = sock[k].conn /\ socketId[i] = sock[k].sid =>
                  state[i] \in {"UnOffloadReqToMicrostack", "OffloadToMicroappFailure"}]_vars
  BY <1>1
<1>3. QED
  BY <1>2, LivesInOrder, PTL DEF Spec, CloseIsOwned

-----------------------------------------------------------------------------
(* Agreement when nothing is on its way.                                   *)

RegisteredOffers == \A o \in Offers : o[2] \in Protocol

Unregistered == [type : {"OPEN_SOCKET"}, sid : SocketId, proto : Protocol, ep : {"NONE"}]

\* An open request names a microapp, from the HAL to the instance.
NamesMicroapp ==
  /\ ~In(pipe, Unregistered)
  /\ \A i \in Inst : state[i] # "Idle" => epId[i] \in Protocol

\* A HAL that names microapps only has them asked.
LEMMA MicroappsNamed ==
  ASSUME RegisteredOffers
  PROVE  Spec => []NamesMicroapp
<1>1. Init => NamesMicroapp
  BY DEF Init, ChannelsInit, MgrInit, NamesMicroapp, In
<1>2. ASSUME TypeOK, TypeOK', NamesMicroapp, [Next]_vars
      PROVE  NamesMicroapp'
  <2>1. pipe \in Seq(PipeMsg) /\ pipe' \in Seq(PipeMsg)
    BY <1>2 DEF TypeOK, ChannelsTypeOK
  <2>2. ASSUME NEW m, pipe' = Append(pipe, m), m.type # "OPEN_SOCKET"
        PROVE  ~In(pipe', Unregistered)
    <3>1. m \notin Unregistered
      BY <2>2 DEF Unregistered
    <3>2. QED
      BY <1>2, <2>1, <2>2, <3>1, QueueGains DEF NamesMicroapp
  <2>3. pipe # <<>> /\ pipe' = Tail(pipe) => ~In(pipe', Unregistered)
    BY <1>2, <2>1, QueueLoses DEF NamesMicroapp
  <2>4. CASE MgrStep
    <3>1. MgrNext
      BY <2>4 DEF MgrStep
    <3>2. ~In(pipe', Unregistered)
      <4>1. pipe # <<>> /\ pipe' = Tail(pipe)
        BY <3>1 DEF MgrNext, HandleOpenSocket, HandleOpenNoInstance, HandleCloseSocket,
                    HandleOffloadCfm, HandleCloseCfm, HandleUappOpenRes, HandleErrorInd, Receive
      <4>2. QED
        BY <2>3, <4>1
    <3>3. CASE HandleOpenSocket
      <4>1. PICK i : /\ epId' = [epId EXCEPT ![i] = Head(pipe).ep]
                     /\ Process(i, "OFFLOAD_REQ")
        BY <3>3 DEF HandleOpenSocket
      <4>2. Head(pipe) \in OpenMsg /\ pipe # <<>>
        BY <1>2, <3>3, PipeHead DEF HandleOpenSocket, TypeOK, Receive
      <4>3. Head(pipe) \notin Unregistered
        BY <1>2, <2>1, <4>2, QueueLoses DEF NamesMicroapp
      <4>4. Head(pipe).ep \in Protocol
        BY <4>2, <4>3 DEF OpenMsg, Unregistered, Endpoint
      <4>5. \A j \in Inst : j # i => state'[j] = state[j]
        BY <1>2, <4>1 DEF Process, Enter, Stay, TypeOK, MgrTypeOK
      <4>6. \A j \in Inst : epId'[j] = IF j = i THEN Head(pipe).ep ELSE epId[j]
        BY <1>2, <4>1 DEF TypeOK, MgrTypeOK
      <4>7. QED
        BY <1>2, <3>2, <4>4, <4>5, <4>6 DEF NamesMicroapp
    <3>4. CASE ~HandleOpenSocket
      <4>1. epId' = epId
        BY <3>1, <3>4 DEF MgrNext, HandleOpenNoInstance, HandleCloseSocket, HandleOffloadCfm,
                          HandleCloseCfm, HandleUappOpenRes, HandleErrorInd, dataVars, mgrVars
      <4>2. \A j \in Inst : state[j] = "Idle" => state'[j] = "Idle"
        <5>1. ASSUME NEW i, NEW e, e # "OFFLOAD_REQ", Process(i, e)
              PROVE  \A j \in Inst : state[j] = "Idle" => state'[j] = "Idle"
          <6>1. CASE HasRow(state[i], e)
            <7>1. state[i] # "Idle" /\ state' = [state EXCEPT ![i] = Rest(NextState(state[i], e))]
              BY <5>1, <6>1, TableTyped DEF Process, Enter
            <7>2. QED
              BY <1>2, <7>1 DEF TypeOK, MgrTypeOK
          <6>2. CASE ~HasRow(state[i], e)
            BY <5>1, <6>2 DEF Process, Stay
          <6>3. QED
            BY <6>1, <6>2
        <5>2. CASE HandleCloseSocket
          BY <5>1, <5>2 DEF HandleCloseSocket, Stay
        <5>3. CASE HandleOffloadCfm
          BY <5>1, <5>3 DEF HandleOffloadCfm, MicrostackEvent
        <5>4. CASE HandleCloseCfm
          BY <5>1, <5>4 DEF HandleCloseCfm, Stay
        <5>5. CASE HandleUappOpenRes
          BY <5>1, <5>5 DEF HandleUappOpenRes, Stay, UappEvent
        <5>6. CASE HandleOpenNoInstance \/ HandleErrorInd
          BY <5>6 DEF HandleOpenNoInstance, HandleErrorInd, mgrVars
        <5>7. QED
          BY <3>1, <3>4, <5>2, <5>3, <5>4, <5>5, <5>6 DEF MgrNext
      <4>3. QED
        BY <1>2, <3>2, <4>1, <4>2 DEF NamesMicroapp
    <3>5. QED
      BY <3>3, <3>4
  <2>5. CASE BmmStep
    <3>1. \/ pipe' = pipe
          \/ \E m : pipe' = Append(pipe, m) /\ m.type # "OPEN_SOCKET"
      <4>1. CASE HandleOffloadReq \/ RefuseOffloadReq
        <5>1. PICK i, c, ok : pipe' = Append(pipe, OffloadCfm(i, c, ok))
          BY <4>1 DEF HandleOffloadReq, RefuseOffloadReq
        <5>2. OffloadCfm(i, c, ok).type # "OPEN_SOCKET"
          BY DEF OffloadCfm
        <5>3. QED
          BY <5>1, <5>2
      <4>2. CASE HandleCloseReq
        BY <4>2 DEF HandleCloseReq
      <4>3. CASE HandleSetParamsReq
        BY <4>3 DEF HandleSetParamsReq
      <4>4. ASSUME NEW k \in Sock, LinkViolation(k)
            PROVE  \E m : pipe' = Append(pipe, m) /\ m.type # "OPEN_SOCKET"
        BY <4>4 DEF LinkViolation
      <4>5. QED
        BY <2>5, <4>1, <4>2, <4>3, <4>4 DEF BmmStep, BmmNext
    <3>2. QED
      BY <1>2, <2>2, <2>5, <3>1 DEF BmmStep, NamesMicroapp, mgrVars
  <2>6. CASE AppStep
    <3>1. \/ pipe' = pipe
          \/ \E m : pipe' = Append(pipe, m) /\ m.type # "OPEN_SOCKET"
      <4>1. \A s, ok : OpenRes(s, ok).type # "OPEN_SOCKET"
        BY DEF OpenRes
      <4>2. CASE AppOpens
        <5>1. PICK s : pipe' = pipe \/ pipe' = Append(pipe, OpenRes(s, TRUE))
          BY <4>2 DEF AppOpens
        <5>2. QED
          BY <4>1, <5>1
      <4>3. CASE AppRefuses
        <5>1. PICK s : pipe' = Append(pipe, OpenRes(s, FALSE))
          BY <4>3 DEF AppRefuses
        <5>2. QED
          BY <4>1, <5>1
      <4>4. CASE EndpointNotFound
        BY <4>1, <4>4 DEF EndpointNotFound
      <4>5. CASE AppCloses
        BY <4>5 DEF AppCloses
      <4>6. QED
        BY <2>6, <4>2, <4>3, <4>4, <4>5 DEF AppStep, AppNext
    <3>2. QED
      BY <1>2, <2>2, <2>6, <3>1 DEF AppStep, NamesMicroapp, mgrVars
  <2>7. CASE HalReceiveStep
    BY <1>2, <2>7 DEF HalReceiveStep, HalReceive, NamesMicroapp, mgrVars
  <2>8. CASE HalRequestStep
    <3>1. state' = state /\ epId' = epId
      BY <2>8 DEF HalRequestStep, mgrVars
    <3>2. ASSUME NEW s \in SocketId, NEW o \in Offers, HalOpen(s, o)
          PROVE  ~In(pipe', Unregistered)
      <4>1. PICK r : r = [type |-> "OPEN_SOCKET", sid |-> s, proto |-> o[1], ep |-> o[2]]
        OBVIOUS
      <4>2. pipe' = Append(pipe, r) /\ r.ep \in Protocol
        BY <3>2, <4>1 DEF HalOpen, RegisteredOffers
      <4>3. r \notin Unregistered
        BY <4>2 DEF Unregistered, Protocol
      <4>4. QED
        BY <1>2, <2>1, <4>2, <4>3, QueueGains DEF NamesMicroapp
    <3>3. ASSUME NEW s \in SocketId, HalClose(s)
          PROVE  ~In(pipe', Unregistered)
      <4>1. \E m : pipe' = Append(pipe, m) /\ m.type # "OPEN_SOCKET"
        BY <3>3 DEF HalClose
      <4>2. QED
        BY <2>2, <4>1
    <3>4. QED
      BY <1>2, <2>8, <3>1, <3>2, <3>3 DEF HalRequestStep, HalRequest, NamesMicroapp
  <2>9. CASE UNCHANGED vars
    BY <1>2, <2>9 DEF vars, channels, mgrVars, NamesMicroapp
  <2>10. QED
    BY <1>2, <2>4, <2>5, <2>6, <2>7, <2>8, <2>9 DEF Next
<1>3. QED
  BY <1>1, <1>2, TypeCorrect, PTL DEF Spec

\* When every queue is empty, the sockets the HAL holds are those of the
\* instances, of the table of the BMM and of the slots of the microapps, for
\* every number of each, under a patient HAL that names microapps.
THEOREM PartsAgree ==
  ASSUME PatientHal, RegisteredOffers
  PROVE  Spec => []QuiescentAgreement
<1>1. ASSUME Base, Life, NamesMicroapp, Quiet
      PROVE  /\ HalHolds = {socketId[i] : i \in Busy}
             /\ HalHolds = {sock[k].sid : k \in InUse}
             /\ HalHolds = (UNION {{slot[a][n] : n \in Slot} : a \in Protocol}) \ {ClearSlot}
             /\ Cardinality(Busy) = Cardinality(HalHolds)
             /\ \A k \in InUse : sock[k].credits
  <2>1. \A M : ~In(pipe, M) /\ ~In(bmmQ, M) /\ ~In(uappQ, M) /\ ~In(halQ, M)
    BY <1>1 DEF Quiet, In
  <2>2. \A i \in Busy : state[i] = "OffloadToMicroappSuccess" /\ hal[socketId[i]] = "open"
    <3>1. SUFFICES ASSUME NEW i \in Inst, state[i] # "Idle"
                   PROVE  state[i] = "OffloadToMicroappSuccess" /\ hal[socketId[i]] = "open"
      BY DEF Busy
    <3>2. state[i] # "OffloadReq"
      BY <1>1, <2>1 DEF Life, Requests
    <3>3. state[i] # "OffloadToMicrostackSuccess"
      BY <1>1, <2>1, <3>1 DEF Life, Answers, NamesMicroapp
    <3>4. state[i] \notin Closing
      BY <1>1, <2>1 DEF Life, Drops
    <3>5. state[i] = "OffloadToMicroappSuccess"
      BY <1>1, <3>1, <3>2, <3>3, <3>4 DEF Life, Resting, Known, Open
    <3>6. QED
      BY <1>1, <2>1, <3>5 DEF Life, HalKnows
  <2>3. \A i \in Busy : i \in Inst /\ socketId[i] \in SocketId
    BY <1>1, OnlyHolder DEF Busy
  <2>4. ASSUME NEW s \in HalHolds
        PROVE  \E i \in Busy : socketId[i] = s
    <3>1. s \in SocketId /\ hal[s] # "closed"
      BY <2>4 DEF HalHolds
    <3>2. AskedAt(s) \cup HeldBy(s) \cup AnsweredAt(s) # {}
      BY <1>1, <3>1 DEF Base, OneHolder, HeldOnce
    <3>3. AskedAt(s) = {} /\ AnsweredAt(s) = {}
      BY <1>1 DEF Quiet, AskedAt, AnsweredAt
    <3>4. QED
      BY <3>2, <3>3 DEF HeldBy
  <2>5. \A i \in Busy : socketId[i] \in HalHolds
    BY <2>2, <2>3 DEF HalHolds
  <2>6. HalHolds = {socketId[i] : i \in Busy}
    BY <2>4, <2>5
  <2>7. ASSUME NEW k \in InUse
        PROVE  sock[k].sid \in HalHolds /\ sock[k].credits
    <3>1. PICK i \in Inst : socketId[i] = sock[k].sid /\ state[i] # "Idle"
      BY <1>1, <2>1, <2>7 DEF Life, Entries, Open, Closing
    <3>2. i \in Busy /\ state[i] = "OffloadToMicroappSuccess"
      BY <2>2, <3>1 DEF Busy
    <3>3. Serves(pseudoId[i], i)
      BY <1>1, <3>2 DEF Life, Entries, Open
    <3>4. pseudoId[i].idx \in InUse /\ sock[pseudoId[i].idx].sid = sock[k].sid
      BY <3>1, <3>3 DEF Serves, InUse
    <3>5. pseudoId[i].idx = k
      BY <1>1, <2>7, <3>4 DEF Base, BmmConsistent
    <3>6. sock[pseudoId[i].idx].credits
      BY <1>1, <2>1, <3>2 DEF Life, Granted
    <3>7. QED
      BY <2>5, <3>1, <3>2, <3>5, <3>6
  <2>8. \A i \in Busy : \E k \in InUse : sock[k].sid = socketId[i]
    BY <1>1, <2>2, <2>3 DEF Life, Entries, Open, Serves, InUse
  <2>9. HalHolds = {sock[k].sid : k \in InUse}
    BY <2>4, <2>7, <2>8
  <2>10. ASSUME NEW a \in Protocol, NEW n \in Slot, slot[a][n] # ClearSlot
         PROVE  slot[a][n] \in HalHolds
    <3>1. PICK i \in Inst : socketId[i] = slot[a][n] /\ state[i] # "Idle"
      BY <1>1, <2>1, <2>10 DEF Life, Slots
    <3>2. QED
      BY <2>5, <3>1 DEF Busy
  <2>11. \A i \in Busy : \E a \in Protocol, n \in Slot : slot[a][n] = socketId[i]
    BY <1>1, <2>2, <2>3 DEF Life, Slots, SlotsOf
  <2>12. ClearSlot \notin SocketId
    BY SocketIdAssumption DEF ClearSlot
  <2>13. HalHolds = (UNION {{slot[a][n] : n \in Slot} : a \in Protocol}) \ {ClearSlot}
    <3>1. HalHolds \subseteq (UNION {{slot[a][n] : n \in Slot} : a \in Protocol}) \ {ClearSlot}
      BY <2>4, <2>11, <2>12 DEF HalHolds
    <3>2. (UNION {{slot[a][n] : n \in Slot} : a \in Protocol}) \ {ClearSlot} \subseteq HalHolds
      BY <2>10
    <3>3. QED
      BY <3>1, <3>2
  <2>14. Cardinality(Busy) = Cardinality(HalHolds)
    <3> DEFINE f == [i \in Busy |-> socketId[i]]
    <3>1. f \in [Busy -> HalHolds] /\ \A t \in HalHolds : \E i \in Busy : f[i] = t
      BY <2>4, <2>5
    <3>2. \A i, j \in Busy : f[i] = f[j] => i = j
      BY <1>1, <2>3, OnlyHolder DEF Busy
    <3>3. f \in Surjection(Busy, HalHolds) /\ f \in Injection(Busy, HalHolds)
      BY <3>1, <3>2 DEF Surjection, Injection, IsInjective
    <3>4. IsFiniteSet(Busy)
      <4>1. IsFiniteSet(Inst)
        BY FS_Interval, NumInstAssumption DEF Inst
      <4>2. QED
        BY <4>1, FS_Subset DEF Busy
    <3> HIDE DEF f
    <3>5. QED
      BY <3>3, <3>4, FS_Surjection
  <2>15. QED
    BY <2>6, <2>7, <2>9, <2>13, <2>14
<1>2. Base /\ Life /\ NamesMicroapp => QuiescentAgreement
  BY <1>1 DEF QuiescentAgreement
<1>3. QED
  BY <1>2, LivesInOrder, MicroappsNamed, PTL

-----------------------------------------------------------------------------
(* The service the HAL is promised.                                        *)

\* The instance of s serves it, or will when it reads the answer of the microapp.
Served(s) ==
  \E i \in Inst :
    /\ socketId[i] = s
    /\ \/ state[i] = "OffloadToMicroappSuccess"
       \/ state[i] = "OffloadToMicrostackSuccess" /\ In(pipe, OpenedOf(s))

\* Both ends of the offload have s.
BothHold(s) == AppHolds(s) /\ \E k \in InUse : sock[k].sid = s

\* Two more ways to say that a socket is offloaded.
Views ==
  \A s \in SocketId :
    /\ s \in OffloadedSockets <=> BothHold(s) /\ ~In(uappQ, LeaveOf(s))
    /\ s \in OffloadedSockets <=> Served(s)

\* The socket of an instance that serves is at both ends with no close on its
\* way, and there is no other such socket.
LEMMA ViewsAgree ==
  ASSUME Base, Life
  PROVE  Views
<1> SUFFICES ASSUME NEW s \in SocketId
             PROVE  /\ s \in OffloadedSockets <=> BothHold(s) /\ ~In(uappQ, LeaveOf(s))
                    /\ s \in OffloadedSockets <=> Served(s)
  BY DEF Views
<1>1. s \in OffloadedSockets <=> BothHold(s) /\ ~In(uappQ, LeaveOf(s))
  <2>1. \A n \in DOMAIN uappQ : uappQ[n] \in UappMsg
    BY LenProperties, ElementOfSeq DEF Base, TypeOK, ChannelsTypeOK
  <2>2. DOMAIN uappQ = 1 .. Len(uappQ)
    BY LenProperties DEF Base, TypeOK, ChannelsTypeOK
  <2>3. \A n \in DOMAIN uappQ :
          uappQ[n] \in LeaveOf(s) <=> uappQ[n].type = "CLOSE_REQ" /\ uappQ[n].sid = s
    BY <2>1, UappKinds
  <2>4. QED
    BY <2>2, <2>3 DEF OffloadedSockets, BothHold, In
<1>2. ASSUME BothHold(s), ~In(uappQ, LeaveOf(s))
      PROVE  Served(s)
  <2>1. PICK a \in Protocol, n \in Slot : slot[a][n] = s
    BY <1>2 DEF BothHold, AppHolds, SlotsOf
  <2>2. s # ClearSlot /\ a \in Endpoint
    BY SocketIdAssumption DEF ClearSlot, Endpoint
  <2>3. ~In(uappQ, LeaveFor(s, a))
    BY <1>2, <2>2, Wider
  <2>4. QED
    BY <2>1, <2>2, <2>3 DEF Life, Slots, Served
<1>3. ASSUME Served(s)
      PROVE  BothHold(s) /\ ~In(uappQ, LeaveOf(s))
  <2>1. PICK i \in Inst :
          /\ socketId[i] = s
          /\ \/ state[i] = "OffloadToMicroappSuccess"
             \/ state[i] = "OffloadToMicrostackSuccess" /\ In(pipe, OpenedOf(s))
    BY <1>3 DEF Served
  <2>2. Serves(pseudoId[i], i)
    BY <2>1 DEF Life, Entries, Open
  <2>3. \E k \in InUse : sock[k].sid = s
    BY <2>1, <2>2 DEF Serves, InUse
  <2>4. AppHolds(s)
    BY <2>1 DEF Life, Slots, AppHolds
  <2>5. In(pipe, OpenedOf(s)) => ~In(uappQ, OpenReqOf(s))
    BY Wider DEF Life, Answers
  <2>6. ~In(uappQ, LeaveOf(s))
    BY <2>1, <2>5 DEF Life, Leaving, Known, Open
  <2>7. QED
    BY <2>3, <2>4, <2>6 DEF BothHold
<1>4. QED
  BY <1>1, <1>2, <1>3

\* The table of the machine asks a microapp to let a socket go for a close of
\* the HAL only.
LEMMA OnlyCloseLeaves ==
  ASSUME Base, Base', Life, MgrNext, ~HandleCloseSocket
  PROVE  LeavesKept
<1>1. uappQ' = uappQ => LeavesKept
  BY QueuesKept DEF UappQKept
<1>2. ASSUME NEW i, NEW e, e # "UNOFFLOAD_REQ", Process(i, e)
      PROVE  LeavesKept
  <2>1. CASE HasRow(state[i], e)
    <3>1. PICK u : u = NextState(state[i], e)
      OBVIOUS
    <3>2. u # "UnOffloadReqFromHAL"
      BY <1>2, <2>1, <3>1, RowTaken DEF StateTable, Row
    <3>3. uappQ' = uappQ \o ToUapp(i, u) /\ uappQ \in Seq(UappMsg) /\ uappQ' \in Seq(UappMsg)
      BY <1>2, <2>1, <3>1 DEF Process, Enter, Base, TypeOK, ChannelsTypeOK
    <3>4. CASE u = "OffloadToMicrostackSuccess"
      <4>1. PICK m : m = [type |-> "OPEN_REQ", sid |-> socketId'[i], proto |-> socketType'[i],
                          ep |-> epId'[i]]
        OBVIOUS
      <4>2. ToUapp(i, u) = <<m>> /\ m.type = "OPEN_REQ"
        BY <3>4, <4>1 DEF ToUapp
      <4>3. uappQ' = Append(uappQ, m)
        BY <3>3, <4>2
      <4>4. m \in UappMsg
        BY <3>3, <4>3, AppendedTyped
      <4>5. QED
        BY <4>2, <4>3, <4>4, UappQPosted
    <3>5. CASE u # "OffloadToMicrostackSuccess"
      <4>1. ToUapp(i, u) = <<>>
        BY <3>2, <3>5 DEF ToUapp
      <4>2. QED
        BY <1>1, <3>3, <4>1
    <3>6. QED
      BY <3>4, <3>5
  <2>2. CASE ~HasRow(state[i], e)
    BY <1>1, <1>2, <2>2 DEF Process, Stay
  <2>3. QED
    BY <2>1, <2>2
<1>3. CASE HandleOpenSocket
  BY <1>2, <1>3 DEF HandleOpenSocket
<1>4. CASE HandleOffloadCfm
  BY <1>2, <1>4 DEF HandleOffloadCfm, MicrostackEvent
<1>5. CASE HandleCloseCfm
  BY <1>1, <1>2, <1>5 DEF HandleCloseCfm, Stay
<1>6. CASE HandleUappOpenRes
  BY <1>1, <1>2, <1>6 DEF HandleUappOpenRes, UappEvent, Stay
<1>7. CASE HandleOpenNoInstance \/ HandleErrorInd
  BY <1>1, <1>7 DEF HandleOpenNoInstance, HandleErrorInd
<1>8. QED
  BY <1>3, <1>4, <1>5, <1>6, <1>7 DEF MgrNext

\* A close of the HAL sets the microapp of an offloaded socket on its way.
LEMMA CloseLeaves ==
  ASSUME Base, Life, HandleCloseSocket
  PROVE  \E s \in SocketId :
           /\ hal[s] = "closing" /\ Offered(s)
           /\ \A t \in SocketId : In(uappQ', LeaveOf(t)) <=> In(uappQ, LeaveOf(t)) \/ t = s
<1>1. PICK m \in CloseMsg : m = Head(pipe)
  BY PipeHead DEF HandleCloseSocket, Base, TypeOK
<1>2. PICK s \in SocketId : m.sid = s
  BY DEF CloseMsg
<1>3. Receive("CLOSE_SOCKET")
  BY DEF HandleCloseSocket
<1>4. In(pipe, CloseOf(s))
  BY ONLY <1>1, <1>2, <1>3, Base, Life, PipeRead
<1>5. hal[s] = "closing" /\ Offered(s)
  BY <1>4 DEF Life, HalKnows
<1>6. PICK i \in Inst : socketId[i] = s /\ state[i] = "OffloadToMicroappSuccess"
  BY <1>5 DEF Offered
<1>7. InstWithSocketId(s) # {} /\ Min(InstWithSocketId(s)) = i
  BY <1>6, OnlyHolder
<1>8. Process(i, "UNOFFLOAD_REQ") /\ socketId' = socketId /\ epId' = epId
  BY <1>1, <1>2, <1>7 DEF HandleCloseSocket, dataVars
<1>9. PICK l : l = [type |-> "CLOSE_REQ", sid |-> s, ep |-> epId[i]]
  OBVIOUS
<1>10. l \in UappMsg /\ l.type = "CLOSE_REQ" /\ l.sid = s
  BY <1>9, Typed DEF UappMsg
<1>11. ToUapp(i, "UnOffloadReqFromHAL") = <<l>>
  BY <1>6, <1>8, <1>9 DEF ToUapp
<1>12. uappQ' = Append(uappQ, l)
  <2>1. PICK e1, u : e1 = "UNOFFLOAD_REQ" /\ u = "UnOffloadReqFromHAL"
    OBVIOUS
  <2>2. HasRow(state[i], e1) /\ NextState(state[i], e1) = u /\ Process(i, e1)
    BY <1>6, <1>8, <2>1, Moves
  <2>3. ToUapp(i, u) = <<l>> /\ i \in Inst
    BY <1>11, <2>1
  <2>4. QED
    BY ONLY Base, <1>10, <2>2, <2>3, Processed
<1>13. \A t \in SocketId : In(uappQ', LeaveOf(t)) <=> In(uappQ, LeaveOf(t)) \/ t = s
  BY ONLY <1>10, <1>12, Base, Life, UappQPosted
<1>14. QED
  BY <1>5, <1>13

\* While the instances and the answers of the microapps stay, so do the
\* offloaded sockets.
LEMMA ServedKept ==
  ASSUME Base, Views, Views', InstancesKept,
         \A s \in SocketId : In(pipe', OpenedOf(s)) <=> In(pipe, OpenedOf(s))
  PROVE  OffloadedSockets' = OffloadedSockets
<1>1. \A s \in SocketId : Served(s)' <=> Served(s)
  BY DEF Served, InstancesKept
<1>2. \A s \in SocketId : s \in OffloadedSockets' <=> s \in OffloadedSockets
  BY <1>1 DEF Views
<1>3. OffloadedSockets \subseteq SocketId /\ OffloadedSockets' \subseteq SocketId
  BY DEF OffloadedSockets
<1>4. QED
  BY <1>2, <1>3

\* A step of the offload manager: only the close of the HAL shows.
LEMMA MgrServes ==
  ASSUME Base, Base', Life, Views, Views', MgrStep
  PROVE  [Service!Next]_(Service!vars)
<1>1. MgrNext /\ UNCHANGED <<sock, slot, hal>>
  BY DEF MgrStep, bmmVars, appVars
<1>2. \A s \in SocketId : BothHold(s)' <=> BothHold(s)
  BY <1>1 DEF BothHold, AppHolds, SlotsOf, InUse
<1>3. OffloadedSockets \subseteq SocketId /\ OffloadedSockets' \subseteq SocketId
  BY DEF OffloadedSockets
<1>4. CASE ~HandleCloseSocket
  <2>1. LeavesKept
    BY <1>1, <1>4, OnlyCloseLeaves
  <2>2. \A s \in SocketId : s \in OffloadedSockets' <=> s \in OffloadedSockets
    BY <1>2, <2>1 DEF Views, LeavesKept
  <2>3. OffloadedSockets' = OffloadedSockets
    BY <1>3, <2>2
  <2>4. QED
    BY <1>1, <2>3 DEF Service!vars
<1>5. CASE HandleCloseSocket
  <2>1. PICK s \in SocketId :
           /\ hal[s] = "closing" /\ Offered(s)
           /\ \A t \in SocketId : In(uappQ', LeaveOf(t)) <=> In(uappQ, LeaveOf(t)) \/ t = s
    BY <1>5, CloseLeaves
  <2>2. s \in OffloadedSockets
    BY <2>1 DEF Views, Served, Offered
  <2>3. \A t \in SocketId : t \in OffloadedSockets' <=> t \in OffloadedSockets /\ t # s
    BY <1>2, <2>1 DEF Views
  <2>4. OffloadedSockets' = OffloadedSockets \ {s}
    BY <1>3, <2>3
  <2>5. Service!Unoffload(s)
    BY <1>1, <2>1, <2>2, <2>4 DEF Service!Unoffload
  <2>6. QED
    BY <2>5 DEF Service!Next
<1>6. QED
  BY <1>4, <1>5

\* A step of the BMM does not show.
LEMMA BmmServe ==
  ASSUME Base, Base', Views, Views', BmmStep
  PROVE  [Service!Next]_(Service!vars)
<1>1. InstancesKept /\ hal' = hal /\ BmmNext
  BY DEF BmmStep, InstancesKept, mgrVars
<1>2. \/ pipe' = pipe
      \/ \E m : pipe' = Append(pipe, m) /\ m.type # "UAPP_OPEN_RES"
  <2>1. CASE HandleOffloadReq \/ RefuseOffloadReq
    <3>1. PICK i, c, ok : pipe' = Append(pipe, OffloadCfm(i, c, ok))
      BY <2>1 DEF HandleOffloadReq, RefuseOffloadReq
    <3>2. OffloadCfm(i, c, ok).type # "UAPP_OPEN_RES"
      BY DEF OffloadCfm
    <3>3. QED
      BY <3>1, <3>2
  <2>2. CASE HandleCloseReq
    BY <2>2 DEF HandleCloseReq
  <2>3. CASE HandleSetParamsReq
    BY <2>3 DEF HandleSetParamsReq
  <2>4. ASSUME NEW k \in Sock, LinkViolation(k)
        PROVE  \E m : pipe' = Append(pipe, m) /\ m.type # "UAPP_OPEN_RES"
    BY <2>4 DEF LinkViolation
  <2>5. QED
    BY <1>1, <2>1, <2>2, <2>3, <2>4 DEF BmmNext
<1>3. \A s \in SocketId : In(pipe', OpenedOf(s)) <=> In(pipe, OpenedOf(s))
  <2>1. CASE pipe' = pipe
    BY <2>1
  <2>2. ASSUME NEW m, pipe' = Append(pipe, m), m.type # "UAPP_OPEN_RES"
        PROVE  \A s \in SocketId : In(pipe', OpenedOf(s)) <=> In(pipe, OpenedOf(s))
    <3>1. m \in PipeMsg
      BY <2>2, AppendedTyped DEF Base, TypeOK, ChannelsTypeOK
    <3>2. RessKept
      BY ONLY <2>2, <3>1, Base, PipePosted
    <3>3. QED
      BY <3>2 DEF RessKept
  <2>3. QED
    BY <1>2, <2>1, <2>2
<1>4. OffloadedSockets' = OffloadedSockets
  BY <1>1, <1>3, ServedKept
<1>5. QED
  BY <1>1, <1>4 DEF Service!vars

\* A step of the microapps: only storing a socket shows.
LEMMA AppServes ==
  ASSUME Base, Base', Life, Views, Views', AppStep
  PROVE  [Service!Next]_(Service!vars)
<1>1. InstancesKept /\ hal' = hal /\ AppNext
  BY DEF AppStep, InstancesKept, mgrVars
<1>2. OffloadedSockets \subseteq SocketId /\ OffloadedSockets' \subseteq SocketId
  BY DEF OffloadedSockets
<1>3. CASE AppOpens
  <2>1. PICK m, s, a, f : m = Head(uappQ) /\ s = m.sid /\ a = m.ep /\ f = Min(FreeSlots(a))
    OBVIOUS
  <2>2. PICK r : r = OpenRes(s, TRUE)
    OBVIOUS
  <2>3. UappReceive("OPEN_REQ") /\ s \in SocketId /\ a \in Protocol /\ inUse[a] < MaxApp
    BY <1>3, <2>1, UappHead DEF AppOpens, Base, TypeOK
  <2>4. FreeSlots(a) # {}
    BY <2>3, RoomMeansSlot
  <2>5. pipe' = Append(pipe, r) /\ r \in PipeMsg /\ r.type = "UAPP_OPEN_RES" /\ r.sid = s /\ r.ok
    BY <1>3, <2>1, <2>2, <2>3, <2>4 DEF AppOpens, PipeMsg, UappOpenResMsg, OpenRes
  <2>6. \A t \in SocketId : In(pipe', OpenedOf(t)) <=> In(pipe, OpenedOf(t)) \/ t = s
    BY ONLY <2>5, Base, PipePosted
  <2>7. In(uappQ, OpenReqOf(s))
    <3>1. \A t \in SocketId : In(uappQ, OpenReqOf(t)) <=> In(uappQ', OpenReqOf(t)) \/ t = m.sid
      BY ONLY <2>1, <2>3, Base, Life, UappQRead
    <3>2. QED
      BY <2>1, <2>3, <3>1
  <2>8. PICK i \in Inst : socketId[i] = s /\ state[i] = "OffloadToMicrostackSuccess"
    BY <2>3, <2>7 DEF Life, Answers
  <2>9. ~In(pipe, OpenedOf(s))
    BY <2>3, <2>7, Wider DEF Life, Answers
  <2>10. \A j \in Inst : state[j] # "Idle" /\ socketId[j] = s => j = i
    BY <2>8, OnlyHolder
  <2>11. ~Served(s) /\ Served(s)'
    <3>1. ~Served(s)
      BY <2>8, <2>9, <2>10 DEF Served
    <3>2. state'[i] = "OffloadToMicrostackSuccess" /\ socketId'[i] = s /\ In(pipe', OpenedOf(s))
      BY <1>1, <2>3, <2>6, <2>8 DEF InstancesKept
    <3>3. QED
      BY <3>1, <3>2 DEF Served
  <2>12. \A t \in SocketId : t # s => (Served(t)' <=> Served(t))
    BY <1>1, <2>6 DEF Served, InstancesKept
  <2>13. s \notin OffloadedSockets /\ s \in OffloadedSockets'
    BY <2>3, <2>11 DEF Views
  <2>14. \A t \in SocketId : t # s => (t \in OffloadedSockets' <=> t \in OffloadedSockets)
    BY <2>12 DEF Views
  <2>15. OffloadedSockets' = OffloadedSockets \cup {s}
    BY <1>2, <2>13, <2>14
  <2>16. hal[s] = "opening"
    BY <2>8 DEF Life, HalKnows
  <2>17. Service!Offload(s)
    BY <1>1, <2>13, <2>15, <2>16 DEF Service!Offload
  <2>18. QED
    BY <2>3, <2>17 DEF Service!Next
<1>4. CASE AppRefuses \/ EndpointNotFound
  <2>1. PICK x, r : r = OpenRes(x, FALSE) /\ pipe' = Append(pipe, r)
    BY <1>4 DEF AppRefuses, EndpointNotFound
  <2>2. r \in PipeMsg
    BY <2>1, AppendedTyped DEF Base, TypeOK, ChannelsTypeOK
  <2>3. ~r.ok /\ r.type = "UAPP_OPEN_RES" /\ r.sid = x
    BY <2>1 DEF OpenRes
  <2>4. \A s \in SocketId : In(pipe', OpenedOf(s)) <=> In(pipe, OpenedOf(s))
    <3>1. RessKept \/ \A s \in SocketId : In(pipe', OpenedOf(s)) <=> In(pipe, OpenedOf(s))
      BY ONLY <2>1, <2>2, <2>3, Base, PipePosted
    <3>2. QED
      BY <3>1 DEF RessKept
  <2>5. OffloadedSockets' = OffloadedSockets
    BY <1>1, <2>4, ServedKept
  <2>6. QED
    BY <1>1, <2>5 DEF Service!vars
<1>5. CASE AppCloses
  <2>1. pipe' = pipe
    BY <1>5 DEF AppCloses
  <2>2. OffloadedSockets' = OffloadedSockets
    BY <1>1, <2>1, ServedKept
  <2>3. QED
    BY <1>1, <2>2 DEF Service!vars
<1>6. QED
  BY <1>1, <1>3, <1>4, <1>5 DEF AppNext

\* The steps of the HAL are those of the service.
LEMMA HalServed ==
  ASSUME PatientHal, Base, Life, Views, HalReceiveStep \/ HalRequestStep
  PROVE  [Service!Next]_(Service!vars)
<1>1. UNCHANGED <<sock, slot, uappQ>>
  BY DEF HalReceiveStep, HalReceive, HalRequestStep, HalRequest, HalOpen, HalClose, bmmVars, appVars
<1>2. OffloadedSockets' = OffloadedSockets
  BY <1>1 DEF OffloadedSockets, AppHolds, SlotsOf, InUse
<1>3. ASSUME NEW s \in SocketId, hal[s] = "closed" \/ In(halQ, NakOf(s)) \/ In(halQ, DoneOf(s))
      PROVE  s \notin OffloadedSockets
  <2>1. \A i \in Inst : socketId[i] = s => state[i] = "Idle"
    BY <1>3, WhereLifeIs
  <2>2. QED
    BY <2>1 DEF Views, Served
<1>4. CASE HalReceiveStep
  <2>1. PICK m : m = Head(halQ)
    OBVIOUS
  <2>2. /\ halQ # <<>> /\ halQ' = Tail(halQ)
        /\ hal' = CASE m.type = "CLOSE_RSP" -> [hal EXCEPT ![m.sid] = "closed"]
                    [] m.type = "OPEN_RSP" /\ ~m.ok -> [hal EXCEPT ![m.sid] = "closed"]
                    [] m.type = "OPEN_RSP" /\ m.ok /\ hal[m.sid] = "opening" ->
                         [hal EXCEPT ![m.sid] = "open"]
                    [] OTHER -> hal
    BY <1>4, <2>1 DEF HalReceiveStep, HalReceive
  <2>3. /\ m \in HalMsg
        /\ \A t \in SocketId :
             /\ m.type = "OPEN_RSP" /\ m.ok /\ t = m.sid => In(halQ, AckOf(t))
             /\ m.type = "OPEN_RSP" /\ ~m.ok /\ t = m.sid => In(halQ, NakOf(t))
             /\ m.type = "CLOSE_RSP" /\ t = m.sid => In(halQ, DoneOf(t))
    BY ONLY <2>1, <2>2, Base, Life, HalQRead
  <2>4. PICK s \in SocketId : s = m.sid
    BY <2>1, <2>2, HalHead DEF Base, TypeOK
  <2>5. CASE m.type = "OPEN_RSP" /\ m.ok
    <3>1. hal[s] = "opening" /\ Offered(s)
      BY <2>3, <2>4, <2>5 DEF Life, HalKnows
    <3>2. s \in OffloadedSockets
      BY <3>1 DEF Views, Served, Offered
    <3>3. hal' = [hal EXCEPT ![s] = "open"]
      BY <2>2, <2>4, <2>5, <3>1
    <3>4. Service!AnswerOpen(s)
      BY <1>2, <3>1, <3>2, <3>3 DEF Service!AnswerOpen
    <3>5. QED
      BY <3>4 DEF Service!Next
  <2>6. CASE m.type = "OPEN_RSP" /\ ~m.ok
    <3>1. hal[s] = "opening"
      BY <2>3, <2>4, <2>6 DEF Life, HalKnows
    <3>2. s \notin OffloadedSockets
      BY <1>3, <2>3, <2>4, <2>6
    <3>3. hal' = [hal EXCEPT ![s] = "closed"]
      BY <2>2, <2>4, <2>6
    <3>4. Service!AnswerOpen(s)
      BY <1>2, <3>1, <3>2, <3>3 DEF Service!AnswerOpen
    <3>5. QED
      BY <3>4 DEF Service!Next
  <2>7. CASE m.type = "CLOSE_RSP"
    <3>1. hal[s] = "closing"
      BY <2>3, <2>4, <2>7 DEF Life, HalKnows
    <3>2. s \notin OffloadedSockets
      BY <1>3, <2>3, <2>4, <2>7
    <3>3. hal' = [hal EXCEPT ![s] = "closed"]
      BY <2>2, <2>4, <2>7
    <3>4. Service!AnswerClose(s)
      BY <1>2, <3>1, <3>2, <3>3 DEF Service!AnswerClose
    <3>5. QED
      BY <3>4 DEF Service!Next
  <2>8. QED
    BY <2>3, <2>5, <2>6, <2>7 DEF HalMsg
<1>5. CASE HalRequestStep
  <2>1. ASSUME NEW s \in SocketId, NEW o \in Offers, HalOpen(s, o)
        PROVE  Service!Open(s)
    BY <1>2, <1>3, <2>1 DEF HalOpen, Service!Open
  <2>2. ASSUME NEW s \in SocketId, HalClose(s)
        PROVE  Service!Close(s)
    BY <1>2, <2>2 DEF HalClose, Service!Close, PatientHal
  <2>3. QED
    BY <1>5, <2>1, <2>2 DEF HalRequestStep, HalRequest, Service!Next
<1>6. QED
  BY <1>4, <1>5

\* The system keeps the safety part of the service the HAL is promised, for
\* every number of sockets, instances, entries and slots and under link faults,
\* when the HAL is patient: every step is one of OffloadService or does not show.
THEOREM ServiceKept ==
  ASSUME PatientHal
  PROVE  Spec => Service!Init /\ [][Service!Next]_(Service!vars)
<1>1. Init => Service!Init
  BY DEF Init, BmmInit, FreeSock, Service!Init, OffloadedSockets, InUse
<1>2. Base /\ Life => Views
  BY ViewsAgree
<1>3. ASSUME Base, Life, Views, Base', Views', [Next]_vars
      PROVE  [Service!Next]_(Service!vars)
  <2>1. CASE UNCHANGED vars
    <3>1. UNCHANGED <<sock, slot, uappQ, hal>>
      BY <2>1 DEF vars, channels, bmmVars, appVars
    <3>2. OffloadedSockets' = OffloadedSockets
      BY <3>1 DEF OffloadedSockets, AppHolds, SlotsOf, InUse
    <3>3. QED
      BY <3>1, <3>2 DEF Service!vars
  <2>2. QED
    BY <1>3, <2>1, MgrServes, BmmServe, AppServes, HalServed DEF Next
<1>4. QED
  BY <1>1, <1>2, <1>3, LivesInOrder, PTL DEF Spec
=============================================================================
