---------------------------- MODULE GattChannels ----------------------------
(***************************************************************************)
(* The parties of GATT offload and the queues between them: the HAL of the *)
(* application processor, the offload manager and the GATT task of the     *)
(* microstack on the ADSP, the GATT session manager of the watch           *)
(* processor.  Everything the offload manager handles reaches it through   *)
(* one pipe, in the order of arrival.                                       *)
(*                                                                         *)
(* Identifiers are positive numbers; 0 is what memset leaves.              *)
(***************************************************************************)
EXTENDS Integers, Sequences, SequencesExt, FiniteSetsExt

CONSTANTS
  Session,      \* session ids of the HAL, each used once
  EpOf,         \* the endpoint, ...
  AclOf,        \* ... the ACL connection ...
  SvcOf,        \* ... and the role and UUID of the service of a session
  NumInst,      \* MAX_OFFLOAD_INSTANCES
  EpSlots,      \* GATT_OFFLOAD_MAX_ENDPOINT
  SvcSlots,     \* GATT_OFFLOAD_ENDPOINT_MAX_SERVICES
  SessSlots     \* GATT_OFFLOAD_SERVICE_MAX_SESSIONS

ASSUME SessionAssumption ==
  /\ Session \subseteq Nat \ {0}
  /\ EpOf \in [Session -> Nat \ {0}]
  /\ AclOf \in [Session -> Nat \ {0}]
  /\ SvcOf \in [Session -> Nat \ {0}]
ASSUME SlotsAssumption ==
  {NumInst, EpSlots, SvcSlots, SessSlots} \subseteq Nat \ {0}

VARIABLES
  pipe,         \* to the offload manager, from all others
  stackQ,       \* to the GATT task of the microstack
  watchQ,       \* to the GATT session manager of the watch processor
  halQ          \* to the HAL

channels == <<pipe, stackQ, watchQ, halQ>>

Acl == {AclOf[s] : s \in Session}
Endpoint == {EpOf[s] : s \in Session}

\* No endpoint, session, connection, offload id or context.
None == 0

ChannelsInit ==
  /\ pipe = <<>>
  /\ stackQ = <<>>
  /\ watchQ = <<>>
  /\ halQ = <<>>
=============================================================================
