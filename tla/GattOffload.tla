---------------------------- MODULE GattOffload -----------------------------
(***************************************************************************)
(* Offloading GATT sessions from end to end: the offload manager's tables, *)
(* the GATT task of the microstack, the session manager of the watch       *)
(* processor with its microapps, and the HAL, which is not part of the     *)
(* repository and is modelled from the messages the manager takes.         *)
(***************************************************************************)
EXTENDS GattMgr, GattStack

CONSTANTS
  Buffers,      \* the buffers a microapp has for operations of each session
  OneAtATime,   \* sessions of one endpoint change one at a time
  OpsFirst      \* a session is given up only without operations under way

ASSUME OffloadAssumption ==
  /\ Buffers \in [Session -> SUBSET (Nat \ {0})]
  /\ \A r, s \in Session : r # s => Buffers[r] \cap Buffers[s] = {}
  /\ OneAtATime \in BOOLEAN
  /\ OpsFirst \in BOOLEAN

VARIABLES
  hal,          \* what the HAL knows of each session
  clearing,     \* connections with CLEAR unanswered
  announced,    \* the microapps have registered their endpoints
  app,          \* whether the microapp has each session
  live,         \* <<session, context>> of each unanswered operation
  fault         \* the watch processor has stopped on an error

watchVars == <<announced, app, live, fault>>
halVars == <<hal, clearing>>
vars == <<channels, mgrVars, stackVars, halVars, watchVars>>

-----------------------------------------------------------------------------
(* The HAL.                                                                *)

Changing(s) == \/ hal[s] \in {"registering", "unregistering"}
               \/ hal[s] = "registered" /\ app[s] = "releasing"

MayChange(s) == OneAtATime => \A r \in Session : EpOf[r] = EpOf[s] => ~ Changing(r)

NoOps(s) == OpsFirst => \A c \in Buffers[s] : <<s, c>> \notin live

HalRegister(s) ==
  /\ hal[s] = "new"
  /\ AclOf[s] \notin clearing
  /\ MayChange(s)
  /\ hal' = [hal EXCEPT ![s] = "registering"]
  /\ pipe' = Append(pipe, [type |-> "REGISTER", s |-> s])
  /\ UNCHANGED <<stackQ, watchQ, halQ, mgrVars, stackVars, clearing, watchVars>>

HalUnregister(s) ==
  /\ hal[s] = "registered"
  /\ AclOf[s] \notin clearing
  /\ MayChange(s)
  /\ NoOps(s)
  /\ hal' = [hal EXCEPT ![s] = "unregistering"]
  /\ pipe' = Append(pipe, [type |-> "UNREGISTER", s |-> s])
  /\ UNCHANGED <<stackQ, watchQ, halQ, mgrVars, stackVars, clearing, watchVars>>

\* All sessions of a connection at once, none of which is being set up.
HalClear(a) ==
  /\ a \notin clearing
  /\ \A s \in Session : AclOf[s] = a => hal[s] # "registering" /\ NoOps(s)
  /\ \E s \in Session : AclOf[s] = a /\ hal[s] = "registered"
  /\ clearing' = clearing \cup {a}
  /\ pipe' = Append(pipe, [type |-> "CLEAR", acl |-> a])
  /\ UNCHANGED <<stackQ, watchQ, halQ, mgrVars, stackVars, hal, watchVars>>

HalReceive ==
  /\ halQ # <<>>
  /\ halQ' = Tail(halQ)
  /\ LET m == Head(halQ)
     IN  CASE m.type = "REG_RSP" ->
                /\ hal' = [hal EXCEPT ![m.s] = IF m.ok THEN "registered" ELSE "gone"]
                /\ UNCHANGED clearing
           [] m.type = "UNREG_RSP" ->
                /\ hal' = [hal EXCEPT ![m.s] = "gone"]
                /\ UNCHANGED clearing
           [] OTHER ->
                /\ hal' = [s \in Session |->
                             IF AclOf[s] = m.acl /\ hal[s] # "new" THEN "gone" ELSE hal[s]]
                /\ clearing' = clearing \ {m.acl}
  /\ UNCHANGED <<pipe, stackQ, watchQ, mgrVars, stackVars, watchVars>>

-----------------------------------------------------------------------------
(* The watch processor.                                                    *)

Send(messages) ==
  /\ ~ fault
  /\ pipe' = pipe \o messages
  /\ UNCHANGED <<stackQ, watchQ, halQ, mgrVars, stackVars, halVars, fault>>

\* When Bluetooth is on, the endpoints of all microapps in turn.
RegisterEndPointsWithStack ==
  /\ ~ announced
  /\ announced' = TRUE
  /\ Send([k \in 1..Cardinality(Endpoint) |->
             [type |-> "APP_REGISTER", ep |-> SetToSortSeq(Endpoint, <)[k]]])
  /\ UNCHANGED <<app, live>>

\* QapiAttributesAcquiredConfirmation
AttributesAcquired(s, ok) ==
  /\ app[s] = "asked"
  /\ app' = [app EXCEPT ![s] = IF ok THEN "open" ELSE "none"]
  /\ Send(<<[type |-> "REGISTERED_RSP", s |-> s, ok |-> ok]>>)
  /\ UNCHANGED <<announced, live>>

\* QapiReleaseAttributes: the microapp gives a session back unasked.
ReleaseAttributes(s) ==
  /\ app[s] = "open"
  /\ AclOf[s] \notin clearing
  /\ MayChange(s)
  /\ NoOps(s)
  /\ app' = [app EXCEPT ![s] = "releasing"]
  /\ Send(<<[type |-> "UNREGISTERED_RSP", s |-> s]>>)
  /\ UNCHANGED <<announced, live>>

\* QapiReadRequest, QapiWriteRequest, QapiNotifyRequest: the context is the
\* address of a buffer of the microapp.
StartRequest(s, c) ==
  /\ app[s] = "open"
  /\ <<s, c>> \notin live
  /\ live' = live \cup {<<s, c>>}
  /\ Send(<<[type |-> "OP_REQ", s |-> s, ctx |-> c]>>)
  /\ UNCHANGED <<announced, app>>

\* gatt_mgr_evt_handler.  A microapp that is told to give a session up
\* confirms at once, and one without the session as well.
WatchReceive ==
  /\ ~ fault
  /\ watchQ # <<>>
  /\ watchQ' = Tail(watchQ)
  /\ LET m == Head(watchQ)
     IN  CASE m.type = "REG_REQ" ->
                /\ app' = [app EXCEPT ![m.s] = "asked"]
                /\ UNCHANGED <<pipe, live, fault>>
           [] m.type = "UNREG_REQ" ->
                /\ app' = [app EXCEPT ![m.s] = "none"]
                /\ pipe' = Append(pipe, [type |-> "UNREGISTERED_RSP", s |-> m.s])
                /\ UNCHANGED <<live, fault>>
           [] OTHER ->
                /\ live' = live \ {<<m.s, m.ctx>>}
                /\ fault' = (m.ctx = None)
                /\ UNCHANGED <<pipe, app>>
  /\ UNCHANGED <<stackQ, halQ, mgrVars, stackVars, halVars, announced>>

-----------------------------------------------------------------------------

Manager == MgrNext /\ UNCHANGED <<stackVars, halVars, watchVars>>

Stack == StackStep /\ UNCHANGED <<mgrVars, watchQ, halQ, halVars, watchVars>>

LinkLoss ==
  /\ \E a \in Acl : DisconnectInd(a)
  /\ UNCHANGED <<mgrVars, watchQ, halQ, halVars, watchVars>>

Answers == \E s \in Session, ok \in BOOLEAN : AttributesAcquired(s, ok)

Next ==
  \/ Manager
  \/ Stack
  \/ LinkLoss
  \/ HalReceive
  \/ WatchReceive
  \/ Answers
  \/ \E s \in Session : HalRegister(s) \/ HalUnregister(s) \/ ReleaseAttributes(s)
  \/ \E s \in Session : \E c \in Buffers[s] : StartRequest(s, c)
  \/ \E a \in Acl : HalClear(a)
  \/ RegisterEndPointsWithStack

Init ==
  /\ ChannelsInit /\ MgrInit /\ StackInit
  /\ hal = [s \in Session |-> "new"]
  /\ clearing = {}
  /\ announced = FALSE
  /\ app = [s \in Session |-> "none"]
  /\ live = {}
  /\ fault = FALSE

Spec == Init /\ [][Next]_vars

-----------------------------------------------------------------------------
TypeOK ==
  /\ hal \in [Session -> {"new", "registering", "registered", "unregistering", "gone"}]
  /\ app \in [Session -> {"none", "asked", "open", "releasing"}]
  /\ \A o \in live : o[1] \in Session /\ o[2] \in Buffers[o[1]]

Busy(i) == inst[i].state # "Idle"

SessionsUsed == {x \in SessSlot : sess[x].id # None}

\* A slot of the session tables is in use exactly while one instance works on
\* it, and no session is held twice: nothing leaks, and nothing is freed under
\* an instance that still points at it.
SessionHeldOnce ==
  /\ \A i \in Inst : Busy(i) <=> inst[i].at \in SessionsUsed
  /\ \A x \in SessionsUsed : \E i \in Inst : inst[i].at = x
  /\ \A i, j \in Inst : inst[i].at = inst[j].at /\ Busy(i) => i = j
  /\ \A x, y \in SessionsUsed : sess[x].id = sess[y].id => x = y

\* Nothing is on its way.
Quiet ==
  /\ channels = <<<<>>, <<>>, <<>>, <<>>>>
  /\ \A a \in Acl : line[a] = <<>>
  /\ \A s \in Session : app[s] # "asked"

\* When nothing is on its way the microstack has, for each service of the
\* tables whose connection is up, the sessions the tables have, and no other
\* service.
StackAgrees ==
  Quiet =>
    services = {[oid |-> svc[v].oid, acl |-> svc[v].key[1], ep |-> v[1],
                 chars |-> {sess[x].id : x \in UsedIn(Tables, v)}] :
                v \in {u \in SvcSlot : svc[u].key # FreeSvc.key /\ svc[u].key[1] \notin lost}}

\* When nothing is on its way a microapp has a session open exactly if the
\* session's instance is at rest with it, and the HAL believes the same: it
\* takes for registered only what the microapp has, or is giving back.
PartiesAgree ==
  Quiet => \A s \in Session :
    /\ app[s] = "open" <=>
         \E i \in InstOf(s) : inst[i].state = "OffloadToMicroappSuccess"
    /\ app[s] = "open" => hal[s] = "registered"
    /\ hal[s] = "registered" => app[s] \in {"open", "releasing"}

\* Every answer to an operation carries the context of an operation that is
\* unanswered, and none is answered twice: the watch processor takes the
\* context for the address of a buffer it may free.
ContextIsLive ==
  LET Answer(k) == <<watchQ[k].s, watchQ[k].ctx>>
      answers == {k \in DOMAIN watchQ : watchQ[k].type = "OP_RSP"}
  IN  /\ \A k \in answers : Answer(k) \in live
      /\ \A j, k \in answers : Answer(j) = Answer(k) => j = k

\* The watch processor never stops on an answer without a buffer ("invalid
\* span ptr", lpai_bt_gatt_managers.cpp:355).
SpanPtrValid == ~ fault

\* When nothing is on its way nobody waits: no operation is pending, no
\* clearing and no change of a session is unanswered, except that of a session
\* which the microstack refused to take out of its service.
NoOneLeftWaiting ==
  LET LeftIn(s, state) == \E i \in InstOf(s) : inst[i].state = state
  IN  Quiet =>
        /\ \A x \in SessSlot : sess[x].ctx = None
        /\ clearing = {}
        /\ \A s \in Session :
             /\ hal[s] = "registering" => LeftIn(s, "OffloadToMicroappFailure")
             /\ hal[s] = "unregistering" => LeftIn(s, "UnOffloadReqToMicrostack")
=============================================================================
