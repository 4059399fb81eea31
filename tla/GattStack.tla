----------------------------- MODULE GattStack ------------------------------
(***************************************************************************)
(* The GATT task of the microstack as far as offloading uses it.  Requests *)
(* for one connection are done one after another: on the one ATT bearer of *)
(* a connection an operation stays in progress until the remote device     *)
(* answers it, and whatever comes meanwhile is queued behind it.  A        *)
(* request for a connection that is gone is done at once, as a failure.    *)
(***************************************************************************)
EXTENDS GattChannels

VARIABLES
  conns,        \* connInst: the connections known, by their ACL handle
  lost,         \* links that went down; they do not come back
  services,     \* offloadSvcList of all connections
  offloadIdCounter,
  line          \* the queue of each connection: the head is in progress

stackVars == <<conns, lost, services, offloadIdCounter, line>>

IsOp(m) == m.type = "OP_REQ"

\* The service element an enable request updates, or adds.
Known(m) == \E v \in services : v.oid = m.oid /\ v.acl = m.acl

\* GattOffloadValidateServiceReq.  It looks at the message that is being
\* handled, which is the request only when the request was not queued: when
\* it was, the confirmation of the remote device is read as a request, and
\* may be refused for anything.
Valid(m) ==
  /\ m.gattId
  /\ m.chars # {}
  /\ m.acl \in conns
  /\ m.oid # None => Known(m)

EnableCfm(m, ok, id) ==
  [type |-> "ENABLE_CFM", inst |-> m.inst, op |-> m.op, ok |-> ok, oid |-> id]

\* A new service gets a new offload id, a known one a new list.
Enabled(m) ==
  LET id == IF m.oid = None THEN offloadIdCounter ELSE m.oid
  IN  /\ services' = {v \in services : v.oid # id}
                     \cup {[oid |-> id, acl |-> m.acl, ep |-> m.ep, chars |-> m.chars]}
      /\ offloadIdCounter' = IF m.oid = None THEN id + 1 ELSE offloadIdCounter
      /\ pipe' = Append(pipe, EnableCfm(m, TRUE, id))

\* GattOffloadEnableServiceRestoreHandler; the arbiter may refuse a filter.
RunEnable(m) ==
  \/ Valid(m) /\ Enabled(m)
  \/ /\ pipe' = Append(pipe, EnableCfm(m, FALSE, m.oid))
     /\ UNCHANGED <<services, offloadIdCounter>>

\* GattOffloadDisableServiceRestoreHandler: of a connection that is gone the
\* services are gone too.
Removed(m) == IF m.type = "DISABLE_ALL_REQ"
              THEN {v \in services : v.acl = m.acl}
              ELSE {v \in services : v.acl = m.acl /\ v.oid = m.oid}

DisableCfm(m) == IF m.type = "DISABLE_ALL_REQ"
                 THEN [type |-> "CLEAR_CFM", acl |-> m.acl]
                 ELSE [type |-> "DISABLE_CFM", inst |-> m.inst]

RunDisable(m) ==
  /\ services' = services \ Removed(m)
  /\ pipe' = Append(pipe, DisableCfm(m))
  /\ UNCHANGED offloadIdCounter

Run(m) == IF m.type = "ENABLE_REQ" THEN RunEnable(m) ELSE RunDisable(m)

OpCfm(m) == [type |-> "OP_CFM", s |-> m.s, ep |-> m.ep, acl |-> m.acl]

-----------------------------------------------------------------------------

\* The task is between two messages: nothing it can do by itself is left.
Waiting == \A a \in Acl : line[a] # <<>> => IsOp(Head(line[a]))

Take(types) ==
  /\ Waiting
  /\ stackQ # <<>>
  /\ Head(stackQ).type \in types
  /\ stackQ' = Tail(stackQ)

GattRegisterReq ==
  /\ Take({"GATT_REGISTER_REQ"})
  /\ pipe' = Append(pipe, [type |-> "GATT_REGISTER_CFM", ep |-> Head(stackQ).ep])
  /\ UNCHANGED stackVars

\* The arbiter validates the handle; the attribute channel may not be had.
ConnInfoReqHandler ==
  /\ Take({"CONN_INFO_REQ"})
  /\ LET m == Head(stackQ)
     IN  \E ok \in {m.acl \notin lost, FALSE} :
           /\ conns' = IF ok THEN conns \cup {m.acl} ELSE conns
           /\ pipe' = Append(pipe, [type |-> "CONN_INFO_CFM", inst |-> m.inst, ok |-> ok])
  /\ UNCHANGED <<lost, services, offloadIdCounter, line>>

\* CsrBtGattNewReqHandler.  A connection id that is not known has no bearer
\* that could be busy.  Operations on it fail at once, and so may those on a
\* free bearer: after an ATT error, GattOffloadRestoreHandler answers them
\* with an error.  One that fails so when its turn in the queue comes is an
\* OpDone, for an answer carries no result here.
NewReqHandler ==
  /\ Take({"ENABLE_REQ", "DISABLE_REQ", "DISABLE_ALL_REQ", "OP_REQ"})
  /\ LET m == Head(stackQ)
         known == m.acl \in conns
         free == known => line[m.acl] = <<>>
     IN  \/ /\ known /\ (IsOp(m) \/ ~free)
            /\ line' = [line EXCEPT ![m.acl] = Append(@, m)]
            /\ UNCHANGED <<services, offloadIdCounter, pipe>>
         \/ /\ IsOp(m) /\ free
            /\ pipe' = Append(pipe, OpCfm(m))
            /\ UNCHANGED <<services, offloadIdCounter, line>>
         \/ /\ ~IsOp(m) /\ free
            /\ Run(m)
            /\ UNCHANGED line
  /\ UNCHANGED <<conns, lost>>

\* The remote device answers the operation in progress.
OpDone(a) ==
  /\ Waiting
  /\ line[a] # <<>>
  /\ pipe' = Append(pipe, OpCfm(Head(line[a])))
  /\ line' = [line EXCEPT ![a] = Tail(@)]
  /\ UNCHANGED <<conns, lost, services, offloadIdCounter, stackQ>>

\* CsrBtGattQueueRestoreHandler, as part of the same message: what was queued
\* behind the operation is done, up to the next operation.
QueueRestoreHandler(a) ==
  /\ line[a] # <<>>
  /\ ~ IsOp(Head(line[a]))
  /\ Run(Head(line[a]))
  /\ line' = [line EXCEPT ![a] = Tail(@)]
  /\ UNCHANGED <<conns, lost, stackQ>>

Failed(m) == CASE IsOp(m) -> OpCfm(m)
               [] m.type = "ENABLE_REQ" -> EnableCfm(m, FALSE, m.oid)
               [] OTHER -> DisableCfm(m)

\* CsrBtGattAttDisconnectIndHandler: the connection goes with its services,
\* and everything in its queue is answered.
DisconnectInd(a) ==
  /\ Waiting
  /\ a \notin lost
  /\ lost' = lost \cup {a}
  /\ conns' = conns \ {a}
  /\ services' = {v \in services : v.acl # a}
  /\ pipe' = pipe \o [k \in 1..Len(line[a]) |-> Failed(line[a][k])]
  /\ line' = [line EXCEPT ![a] = <<>>]
  /\ UNCHANGED <<offloadIdCounter, stackQ>>

StackStep ==
  \/ GattRegisterReq
  \/ ConnInfoReqHandler
  \/ NewReqHandler
  \/ \E a \in Acl : OpDone(a) \/ QueueRestoreHandler(a)

StackInit ==
  /\ conns = {}
  /\ lost = {}
  /\ services = {}
  /\ offloadIdCounter = 1
  /\ line = [a \in Acl |-> <<>>]
=============================================================================
