----------------------------- MODULE OffloadMgr -----------------------------
(***************************************************************************)
(* The offload manager on the ADSP: the pool of offload instances, the     *)
(* table-driven state machine of each one and the handlers of the socket   *)
(* manager.  One thread takes the messages of the pipe one by one, so each *)
(* handler is one action, with the whole run-to-completion of the machine. *)
(***************************************************************************)
EXTENDS OffloadChannels, OffloadMgrSm, FiniteSetsExt

VARIABLES
  state,        \* offload_state = curr_state of the instance's machine
  socketId,     \* offload_data.socket_data.socket_id
  pseudoId,     \* offload_data.socket_data.pseudo_id, the BmmConnId
  socketType,   \* offload_data.socket_data.socket_type
  epId,         \* ep_id
  fatal         \* an OFFLOAD_MGR_ASSERT_FATAL was hit

mgrVars == <<state, socketId, pseudoId, socketType, epId, fatal>>
dataVars == <<socketId, socketType, epId>>

\* Socket id and type of an instance that was never used (memset to 0).
NoSocket == 0

-----------------------------------------------------------------------------
(* The run-to-completion of one event.                                     *)

(***************************************************************************)
(* The state in which the machine rests once the entry function of s has   *)
(* returned: three entry functions raise the next event themselves.  The   *)
(* one of UnOffloadReqFromHAL does it through the mock answer of the        *)
(* microapp in socket_mgr_unoffload_req_to_microapp.                        *)
(***************************************************************************)
\* Mutant: the entry function of UnoffloadSuccess does not free the instance.
RestUnfreed(s) ==
  CASE s = "OffloadFailure" -> NextState(s, "OFFLOAD_INSTANCE_FREE")
    [] s = "UnOffloadReqFromHAL" -> NextState(s, "UNOFFLOAD_FROM_MICROAPP_SUCCESS")
    [] OTHER -> s

Rest(s) ==
  CASE s \in {"OffloadFailure", "UnoffloadSuccess"} -> NextState(s, "OFFLOAD_INSTANCE_FREE")
    [] s = "UnOffloadReqFromHAL" -> NextState(s, "UNOFFLOAD_FROM_MICROAPP_SUCCESS")
    [] OTHER -> s

\* What entering state s (and the states passed on the way to rest) sends.
ToBmm(i, s) ==
  CASE s = "OffloadReq" ->
         <<[type |-> "OFFLOAD_REQ", sid |-> socketId'[i], proto |-> socketType'[i],
            inst |-> i]>>
    [] s \in {"UnOffloadReqToMicrostack", "OffloadToMicroappFailure",
              "UnOffloadReqFromHAL"} ->
         <<[type |-> "CLOSE_REQ", conn |-> pseudoId'[i]]>>
    [] s = "OffloadToMicroappSuccess" ->
         <<[type |-> "SET_PARAMS_REQ", conn |-> pseudoId'[i]]>>
    [] OTHER -> <<>>

\* Mutant: a close of the HAL is only passed on to the BMM.
ToUappNoClose(i, s) ==
  IF s = "OffloadToMicrostackSuccess"
  THEN <<[type |-> "OPEN_REQ", sid |-> socketId'[i], proto |-> socketType'[i],
          ep |-> epId'[i]]>>
  ELSE <<>>

ToUapp(i, s) ==
  CASE s = "OffloadToMicrostackSuccess" ->
         <<[type |-> "OPEN_REQ", sid |-> socketId'[i], proto |-> socketType'[i],
            ep |-> epId'[i]]>>
    [] s = "UnOffloadReqFromHAL" ->
         <<[type |-> "CLOSE_REQ", sid |-> socketId'[i], ep |-> epId'[i]]>>
    [] OTHER -> <<>>

OpenRsp(s, ok) == [type |-> "OPEN_RSP", sid |-> s, ok |-> ok]

ToHal(i, s) ==
  CASE s = "OffloadToMicroappSuccess" -> <<OpenRsp(socketId'[i], TRUE)>>
    [] s = "OffloadFailure" -> <<OpenRsp(socketId'[i], FALSE)>>
    [] s = "UnoffloadSuccess" -> <<[type |-> "CLOSE_RSP", sid |-> socketId'[i]]>>
    [] OTHER -> <<>>

Enter(i, s) ==
  /\ state' = [state EXCEPT ![i] = Rest(s)]
  /\ bmmQ' = bmmQ \o ToBmm(i, s)
  /\ uappQ' = uappQ \o ToUapp(i, s)
  /\ halQ' = halQ \o ToHal(i, s)

Stay == UNCHANGED <<state, bmmQ, uappQ, halQ>>

\* sm_process_evt_with_cb: take the row of the table, or only log.
Process(i, e) ==
  IF HasRow(state[i], e) THEN Enter(i, NextState(state[i], e)) ELSE Stay

-----------------------------------------------------------------------------
(* Finding an instance: the scans run from the first entry of the pool and *)
(* stop at the first hit, the minimum of the matching indices.             *)

IdleInst == {i \in Inst : state[i] = "Idle"}

FindIdleInstance == Min(IdleInst)

InstWithSocketId(s) == {i \in Inst : socketId[i] = s}
InstWithPseudoId(c) == {i \in Inst : pseudoId[i] = c}

-----------------------------------------------------------------------------
(* The handlers.                                                           *)

Receive(t) ==
  /\ ~fatal
  /\ pipe # <<>>
  /\ Head(pipe).type = t
  /\ pipe' = Tail(pipe)

\* socket_mgr_handle_open_socket with an idle instance at hand.
HandleOpenSocket ==
  /\ Receive("OPEN_SOCKET")
  /\ IdleInst # {}
  /\ LET m == Head(pipe)
         i == FindIdleInstance
     IN  /\ socketId' = [socketId EXCEPT ![i] = m.sid]
         /\ socketType' = [socketType EXCEPT ![i] = m.proto]
         /\ epId' = [epId EXCEPT ![i] = m.ep]
         /\ UNCHANGED <<pseudoId, fatal>>
         /\ Process(i, "OFFLOAD_REQ")

\* ... and with none: the answer carries status = true, which reads as 1, a
\* failure.
HandleOpenNoInstance ==
  /\ Receive("OPEN_SOCKET")
  /\ IdleInst = {}
  /\ halQ' = Append(halQ, OpenRsp(Head(pipe).sid, FALSE))
  /\ UNCHANGED <<mgrVars, bmmQ, uappQ>>

\* socket_mgr_handle_close_socket: any instance that holds the id is taken,
\* an idle one too.
HandleCloseSocket ==
  /\ Receive("CLOSE_SOCKET")
  /\ UNCHANGED <<dataVars, pseudoId, fatal>>
  /\ LET found == InstWithSocketId(Head(pipe).sid)
     IN  IF found = {} THEN Stay ELSE Process(Min(found), "UNOFFLOAD_REQ")

\* socket_mgr_microstack_offload_cfm: the connection id is stored whatever
\* the result and whatever the state of the instance.
HandleOffloadCfm ==
  /\ Receive("OFFLOAD_CFM")
  /\ LET m == Head(pipe)
     IN  /\ pseudoId' = [pseudoId EXCEPT ![m.inst] = m.conn]
         /\ UNCHANGED <<dataVars, fatal>>
         /\ Process(m.inst, MicrostackEvent(m.ok))

\* socket_mgr_microstack_unoffload_cfm: a failed close raises no event.
HandleCloseCfm ==
  /\ Receive("CLOSE_CFM")
  /\ UNCHANGED <<dataVars, pseudoId, fatal>>
  /\ LET m == Head(pipe)
         found == InstWithPseudoId(m.conn)
     IN  IF found = {} \/ ~m.ok
         THEN Stay
         ELSE Process(Min(found), "UNOFFLOAD_FROM_MICROSTACK_SUCCESS")

\* UAPP_OPEN_SOCKET_RES in endpt_mgr_handle_offload_app_evt.
HandleUappOpenRes ==
  /\ Receive("UAPP_OPEN_RES")
  /\ UNCHANGED <<dataVars, pseudoId, fatal>>
  /\ LET m == Head(pipe)
         found == InstWithSocketId(m.sid)
     IN  IF found = {} THEN Stay ELSE Process(Min(found), UappEvent(m.ok))

\* BMM_SOCKET_ERROR_IND has no case in either profile callback: the one of
\* RFCOMM drops it, the default of the one of LECOC asserts.
HandleErrorInd ==
  /\ Receive("ERROR_IND")
  /\ fatal' = (Head(pipe).proto = "LECOC")
  /\ UNCHANGED <<state, dataVars, pseudoId, bmmQ, uappQ, halQ>>

MgrNext ==
  \/ HandleOpenSocket
  \/ HandleOpenNoInstance
  \/ HandleCloseSocket
  \/ HandleOffloadCfm
  \/ HandleCloseCfm
  \/ HandleUappOpenRes
  \/ HandleErrorInd

\* offload_mgr_sm_init
MgrInit ==
  /\ state = [i \in Inst |-> "Idle"]
  /\ socketId = [i \in Inst |-> NoSocket]
  /\ pseudoId = [i \in Inst |-> NoConn]
  /\ socketType = [i \in Inst |-> "NONE"]
  /\ epId = [i \in Inst |-> "NONE"]
  /\ fatal = FALSE

MgrTypeOK ==
  /\ state \in [Inst -> State]
  /\ socketId \in [Inst -> SocketId \cup {NoSocket}]
  /\ pseudoId \in [Inst -> ConnId]
  /\ socketType \in [Inst -> Protocol \cup {"NONE"}]
  /\ epId \in [Inst -> Endpoint]
  /\ fatal \in BOOLEAN
  /\ \A i \in Inst :
       state[i] # "Idle" => socketId[i] \in SocketId /\ socketType[i] \in Protocol
=============================================================================
