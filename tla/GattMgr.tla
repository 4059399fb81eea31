------------------------------ MODULE GattMgr -------------------------------
(***************************************************************************)
(* The GATT profile manager and the offload instances of its sessions.     *)
(* Each message of the pipe is handled to completion by one thread, so     *)
(* each handler is one action.  An instance points at a session and, by    *)
(* it, at a service of an endpoint; the tables are what it points into.    *)
(***************************************************************************)
EXTENDS GattChannels, OffloadMgrSm

VARIABLES
  uapp,         \* gatt_uapp: ep_id, and whether gattId is there
  svc,          \* svc_list of each endpoint: key, connected, offloadId, buf
  sess,         \* sessions of each service: session_id and uapp_ctx, which
                \* is the context of the pending operation or None
  inst          \* offload_instances: the state, and the session pointed at

mgrVars == <<uapp, svc, sess, inst>>

Inst == 1..NumInst
SvcSlot == (1..EpSlots) \X (1..SvcSlots)
SessSlot == (1..EpSlots) \X (1..SvcSlots) \X (1..SessSlots)

\* The null pointer, and what the tables hold after a memset.
Nowhere == <<None, None, None>>
FreeInst == [state |-> "Idle", at |-> Nowhere]
FreeSvc == [key |-> <<None, None>>, conn |-> FALSE, oid |-> None, buf |-> None]
FreeSess == [id |-> None, ctx |-> None]

-----------------------------------------------------------------------------
(* The tables.  t is a record of the tables svc and sess.                  *)

Tables == [svc |-> svc, sess |-> sess]

ServiceOf(x) == <<x[1], x[2]>>

\* fetch_num_sessions_in_svc counts these.
UsedIn(t, v) == {x \in SessSlot : ServiceOf(x) = v /\ t.sess[x].id # None}

\* A service of another role, UUID or connection is another service.
Key(s) == <<AclOf[s], SvcOf[s]>>

\* The btConnId of a service, of which there is one for each connection.
ConnOf(t, v) == IF t.svc[v].conn THEN t.svc[v].key[1] ELSE None

\* profile_mgr_gatt_clear_offload_data for the sessions in X: a service that
\* is left without sessions goes with them.  The mutant keeps it.
ClearedKeepingService(t, X) ==
  [t EXCEPT !.sess = [x \in SessSlot |-> IF x \in X THEN FreeSess ELSE t.sess[x]]]

Cleared(t, X) ==
  [sess |-> [x \in SessSlot |-> IF x \in X THEN FreeSess ELSE t.sess[x]],
   svc |-> [v \in SvcSlot |->
              IF v \in {ServiceOf(x) : x \in X} /\ UsedIn(t, v) \subseteq X
              THEN FreeSvc ELSE t.svc[v]]]

SetTables(t) == svc' = t.svc /\ sess' = t.sess

\* offload_instance_find_by_gatt_session_id
InstOf(s) == {i \in Inst : inst[i].at # Nowhere /\ sess[inst[i].at].id = s}

IdleInst == {i \in Inst : inst[i].state = "Idle"}

-----------------------------------------------------------------------------
(* What the entry functions of the machine send for the session at x.      *)

\* profile_mgr_gatt_ustack_enable_svc: the whole list of characteristics the
\* service is to have.  The sessions stand for their characteristics.
EnableReq(i, x, t, op, excluded) ==
  LET v == ServiceOf(x)
  IN  [type |-> "ENABLE_REQ", inst |-> i, op |-> op, acl |-> ConnOf(t, v),
       ep |-> x[1], gattId |-> uapp[x[1]].gattId, oid |-> t.svc[v].oid,
       chars |-> {t.sess[y].id : y \in UsedIn(t, v) \ excluded}]

\* profile_mgr_gatt_offload_to_ustack
OffloadToUstack(i, x, t) ==
  LET v == ServiceOf(x)
  IN  IF t.svc[v].conn
      THEN <<EnableReq(i, x, t, "ENABLE", {})>>
      ELSE <<[type |-> "CONN_INFO_REQ", inst |-> i, acl |-> t.svc[v].key[1]]>>

\* profile_mgr_gatt_unoffload_to_ustack: with the last session the service is
\* disabled, before that it is enabled again without the session.
UnoffloadToUstack(i, x, t) ==
  IF Cardinality(UsedIn(t, ServiceOf(x))) = 1
  THEN <<[type |-> "DISABLE_REQ", inst |-> i, acl |-> ConnOf(t, ServiceOf(x)),
           oid |-> t.svc[ServiceOf(x)].oid]>>
  ELSE <<EnableReq(i, x, t, "DISABLE", {x})>>

OpRsp(s, ctx) == [type |-> "OP_RSP", s |-> s, ctx |-> ctx]

\* profile_mgr_gatt_unoffload_to_uapp: a pending operation is answered here,
\* with an error, and forgotten.
UnoffloadToUapp(x, t) ==
  LET r == t.sess[x]
  IN  <<[type |-> "UNREG_REQ", s |-> r.id]>>
      \o (IF r.ctx # None THEN <<OpRsp(r.id, r.ctx)>> ELSE <<>>)

ToStack(i, x, s, t) ==
  CASE s = "OffloadReq" -> OffloadToUstack(i, x, t)
    [] s \in {"UnOffloadReqToMicrostack", "OffloadToMicroappFailure"} ->
         UnoffloadToUstack(i, x, t)
    [] OTHER -> <<>>

\* The registration goes to the microapp as the HAL sent it, from the buffer
\* of the service.
ToWatch(x, s, t) ==
  CASE s = "OffloadToMicrostackSuccess" /\ t.svc[ServiceOf(x)].buf # None ->
         <<[type |-> "REG_REQ", s |-> t.svc[ServiceOf(x)].buf]>>
    [] s = "UnOffloadReqFromHAL" -> UnoffloadToUapp(x, t)
    [] OTHER -> <<>>

RegRsp(s, ok) == [type |-> "REG_RSP", s |-> s, ok |-> ok]

ToHal(x, s, t) ==
  CASE s = "OffloadToMicroappSuccess" -> <<RegRsp(t.sess[x].id, TRUE)>>
    [] s = "OffloadFailure" -> <<RegRsp(t.sess[x].id, FALSE)>>
    [] s = "UnoffloadSuccess" -> <<[type |-> "UNREG_RSP", s |-> t.sess[x].id]>>
    [] OTHER -> <<>>

\* What entering s does to the tables.  The mutant keeps a session that could
\* not be offloaded.
AfterKeepingFailed(x, s, t) ==
  CASE s = "OffloadToMicroappSuccess" -> [t EXCEPT !.svc[ServiceOf(x)].buf = None]
    [] s = "OffloadFailure" -> [t EXCEPT !.svc[ServiceOf(x)].buf = None]
    [] s = "UnoffloadSuccess" -> Cleared(t, {x})
    [] s = "UnOffloadReqFromHAL" -> [t EXCEPT !.sess[x].ctx = None]
    [] OTHER -> t

After(x, s, t) ==
  CASE s = "OffloadToMicroappSuccess" -> [t EXCEPT !.svc[ServiceOf(x)].buf = None]
    [] s = "OffloadFailure" ->
         Cleared([t EXCEPT !.svc[ServiceOf(x)].buf = None], {x})
    [] s = "UnoffloadSuccess" -> Cleared(t, {x})
    [] s = "UnOffloadReqFromHAL" -> [t EXCEPT !.sess[x].ctx = None]
    [] OTHER -> t

Enter(i, x, s, t) ==
  /\ inst' = [inst EXCEPT ![i] = IF s \in {"OffloadFailure", "UnoffloadSuccess"}
                                 THEN FreeInst
                                 ELSE [state |-> s, at |-> x]]
  /\ SetTables(After(x, s, t))
  /\ stackQ' = stackQ \o ToStack(i, x, s, t)
  /\ watchQ' = watchQ \o ToWatch(x, s, t)
  /\ halQ' = halQ \o ToHal(x, s, t)

Ignore(t) == SetTables(t) /\ UNCHANGED <<inst, stackQ, watchQ, halQ>>

Process(i, e, t) ==
  IF HasRow(inst[i].state, e)
  THEN Enter(i, inst[i].at, NextState(inst[i].state, e), t)
  ELSE Ignore(t)

-----------------------------------------------------------------------------
(* Requests of the HAL.                                                    *)

Receive(type) ==
  /\ pipe # <<>>
  /\ Head(pipe).type = type
  /\ pipe' = Tail(pipe)

Refuse(s, t) ==
  /\ SetTables(t)
  /\ halQ' = Append(halQ, RegRsp(s, FALSE))
  /\ UNCHANGED <<inst, stackQ, watchQ>>

\* create_offload_instance_and_session, from its third step on: without an
\* idle instance the session keeps its slot.
AppendSession(v, s, t) ==
  LET free == {j \in 1..SessSlots : t.sess[<<v[1], v[2], j>>].id = None}
  IN  IF free = {} THEN Refuse(s, t)
      ELSE LET x == <<v[1], v[2], Min(free)>>
               placed == [t EXCEPT !.sess[x].id = s]
           IN  IF IdleInst = {} THEN Refuse(s, placed)
               ELSE Enter(Min(IdleInst), x, NextState("Idle", "OFFLOAD_REQ"),
                          [placed EXCEPT !.svc[v].buf = s])

\* Its first two steps: the service of the session, or the first entry
\* without an offload id, which is wiped.
ServiceFor(k, s) ==
  LET same == {n \in 1..SvcSlots : svc[<<k, n>>].key = Key(s)}
      unused == {n \in 1..SvcSlots : svc[<<k, n>>].oid = None}
  IN  IF same # {}
      THEN AppendSession(<<k, Min(same)>>, s, Tables)
      ELSE IF unused = {} THEN Refuse(s, Tables)
      ELSE LET v == <<k, Min(unused)>>
           IN  AppendSession(v, s,
                 [Cleared(Tables, UsedIn(Tables, v))
                    EXCEPT !.svc[v] = [FreeSvc EXCEPT !.key = Key(s)]])

\* profile_mgr_gatt_hal_offload.  The heap gives it the buffer for the session:
\* when it does not, the code refuses and leaves slot and instance as they are.
HandleRegister ==
  /\ Receive("REGISTER")
  /\ UNCHANGED uapp
  /\ LET s == Head(pipe).s
         at == {k \in 1..EpSlots : uapp[k].ep = EpOf[s]}
     IN  IF at = {} THEN Refuse(s, Tables) ELSE ServiceFor(Min(at), s)

\* profile_mgr_gatt_hal_unoffload
HandleUnregister ==
  /\ Receive("UNREGISTER")
  /\ UNCHANGED uapp
  /\ LET found == InstOf(Head(pipe).s)
     IN  IF found = {} THEN Ignore(Tables)
         ELSE Process(Min(found), "UNOFFLOAD_REQ", Tables)

\* profile_mgr_gatt_hal_clear_service: every session on the connection is
\* gone at once, whatever its state; the microstack is told afterwards.
HandleClear ==
  /\ Receive("CLEAR")
  /\ UNCHANGED uapp
  /\ LET a == Head(pipe).acl
         I == {i \in Inst : inst[i].at # Nowhere
                            /\ svc[ServiceOf(inst[i].at)].key[1] = a}
         connected == I # {} /\ svc[ServiceOf(inst[Max(I)].at)].conn
     IN  /\ watchQ' = watchQ \o FlattenSeq([n \in 1..Cardinality(I) |->
                        UnoffloadToUapp(inst[SetToSortSeq(I, <)[n]].at, Tables)])
         /\ inst' = [i \in Inst |-> IF i \in I THEN FreeInst ELSE inst[i]]
         /\ SetTables(Cleared(Tables, {inst[i].at : i \in I}))
         /\ IF connected
            THEN /\ stackQ' = Append(stackQ, [type |-> "DISABLE_ALL_REQ", acl |-> a])
                 /\ UNCHANGED halQ
            ELSE /\ halQ' = Append(halQ, [type |-> "CLEAR_RSP", acl |-> a])
                 /\ UNCHANGED stackQ

-----------------------------------------------------------------------------
(* Confirmations of the microstack: microstack_gatt_cb.                    *)

\* The instance must still point at its session: the pointer is followed
\* without a look.
HandleConnInfoCfm ==
  /\ Receive("CONN_INFO_CFM")
  /\ UNCHANGED uapp
  /\ LET m == Head(pipe)
         x == inst[m.inst].at
         t == [Tables EXCEPT !.svc[ServiceOf(x)].conn = TRUE]
     IN  IF m.ok
         THEN /\ SetTables(t)
              /\ stackQ' = Append(stackQ, EnableReq(m.inst, x, t, "ENABLE", {}))
              /\ UNCHANGED <<inst, watchQ, halQ>>
         ELSE Process(m.inst, MicrostackEvent(FALSE), Tables)

\* A service enabled again without a session is told as an unoffload, and
\* its failure raises no event.
HandleEnableCfm ==
  /\ Receive("ENABLE_CFM")
  /\ UNCHANGED uapp
  /\ LET m == Head(pipe)
     IN  CASE m.op = "ENABLE" ->
                Process(m.inst, MicrostackEvent(m.ok),
                        [Tables EXCEPT !.svc[ServiceOf(inst[m.inst].at)].oid = m.oid])
           [] m.op = "DISABLE" /\ m.ok ->
                Process(m.inst, "UNOFFLOAD_FROM_MICROSTACK_SUCCESS", Tables)
           [] OTHER -> Ignore(Tables)

HandleDisableCfm ==
  /\ Receive("DISABLE_CFM")
  /\ UNCHANGED uapp
  /\ Process(Head(pipe).inst, "UNOFFLOAD_FROM_MICROSTACK_SUCCESS", Tables)

HandleClearCfm ==
  /\ Receive("CLEAR_CFM")
  /\ halQ' = Append(halQ, [type |-> "CLEAR_RSP", acl |-> Head(pipe).acl])
  /\ UNCHANGED <<mgrVars, stackQ, watchQ>>

HandleGattRegisterCfm ==
  /\ Receive("GATT_REGISTER_CFM")
  /\ uapp' = [uapp EXCEPT ![Head(pipe).ep].gattId = TRUE]
  /\ UNCHANGED <<svc, sess, inst, stackQ, watchQ, halQ>>

\* send_ustack_events_to_uapp: the session is found again by connection and
\* handle, answered with the context it holds now and free for the next
\* operation.  The mutant does not reset it.
SessionsOfOp(m) == {x \in SessSlot : /\ x[1] = m.ep
                                     /\ sess[x].id = m.s
                                     /\ ConnOf(Tables, ServiceOf(x)) = m.acl}

AnswerOpOnly(x, m) ==
  /\ watchQ' = Append(watchQ, OpRsp(m.s, sess[x].ctx))
  /\ UNCHANGED sess

AnswerOp(x, m) ==
  /\ watchQ' = Append(watchQ, OpRsp(m.s, sess[x].ctx))
  /\ sess' = [sess EXCEPT ![x].ctx = None]

HandleOpCfm ==
  /\ Receive("OP_CFM")
  /\ UNCHANGED <<uapp, svc, inst, stackQ, halQ>>
  /\ LET m == Head(pipe)
     IN  IF SessionsOfOp(m) = {} THEN UNCHANGED <<sess, watchQ>>
         ELSE \E x \in SessionsOfOp(m) : AnswerOp(x, m)

-----------------------------------------------------------------------------
(* Messages of the microapps: endpt_mgr_handle_offload_app_evt.            *)

\* The answers to a session's registration and release look the session up
\* and take an id below MAX_OFFLOAD_INSTANCES only, though ids begin at 1.
UappEvents(s, e) ==
  LET found == InstOf(s)
  IN  IF found = {} \/ Min(found) = NumInst THEN Ignore(Tables)
      ELSE Process(Min(found), e, Tables)

HandleRegisteredRsp ==
  /\ Receive("REGISTERED_RSP")
  /\ UNCHANGED uapp
  /\ UappEvents(Head(pipe).s, UappEvent(Head(pipe).ok))

\* UAPP_GATT_SESSION_UNREGISTERED_RESP, and the IND a microapp sends unasked.
HandleUnregisteredRsp ==
  /\ Receive("UNREGISTERED_RSP")
  /\ UNCHANGED uapp
  /\ UappEvents(Head(pipe).s, "UNOFFLOAD_FROM_MICROAPP_SUCCESS")

\* profile_mgr_gatt_uapp_register; the answer is not acted on by anybody.
HandleAppRegister ==
  /\ Receive("APP_REGISTER")
  /\ UNCHANGED <<svc, sess, inst, watchQ, halQ>>
  /\ LET free == {k \in 1..EpSlots : uapp[k].ep = None}
     IN  IF free = {} THEN UNCHANGED <<uapp, stackQ>>
         ELSE /\ uapp' = [uapp EXCEPT ![Min(free)].ep = Head(pipe).ep]
              /\ stackQ' = Append(stackQ, [type |-> "GATT_REGISTER_REQ", ep |-> Min(free)])

\* profile_mgr_gatt_uapp_char_evt: an operation of a session that is gone is
\* dropped, one on top of a pending one is refused.  The mutant lets it pass.
AcceptOp(x, m) ==
  /\ sess' = [sess EXCEPT ![x].ctx = m.ctx]
  /\ stackQ' = Append(stackQ, [type |-> "OP_REQ", s |-> m.s, ep |-> x[1],
                               acl |-> ConnOf(Tables, ServiceOf(x))])
  /\ UNCHANGED watchQ

StartOpAlways(x, m) == AcceptOp(x, m)

StartOp(x, m) ==
  IF sess[x].ctx # None
  THEN watchQ' = Append(watchQ, OpRsp(m.s, m.ctx)) /\ UNCHANGED <<sess, stackQ>>
  ELSE AcceptOp(x, m)

HandleOpReq ==
  /\ Receive("OP_REQ")
  /\ UNCHANGED <<uapp, svc, inst, halQ>>
  /\ LET found == InstOf(Head(pipe).s)
     IN  IF found = {} THEN UNCHANGED <<sess, stackQ, watchQ>>
         ELSE StartOp(inst[Min(found)].at, Head(pipe))

-----------------------------------------------------------------------------

MgrNext ==
  \/ HandleRegister
  \/ HandleUnregister
  \/ HandleClear
  \/ HandleConnInfoCfm
  \/ HandleEnableCfm
  \/ HandleDisableCfm
  \/ HandleClearCfm
  \/ HandleGattRegisterCfm
  \/ HandleOpCfm
  \/ HandleRegisteredRsp
  \/ HandleUnregisteredRsp
  \/ HandleAppRegister
  \/ HandleOpReq

MgrInit ==
  /\ uapp = [k \in 1..EpSlots |-> [ep |-> None, gattId |-> FALSE]]
  /\ svc = [v \in SvcSlot |-> FreeSvc]
  /\ sess = [x \in SessSlot |-> FreeSess]
  /\ inst = [i \in Inst |-> FreeInst]
=============================================================================
