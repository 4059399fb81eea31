---------------------------- MODULE OffloadMgrSm ----------------------------
(***************************************************************************)
(* The state machine of an offload instance: one table for sockets and     *)
(* GATT sessions alike, offload_mgr_state_table.                            *)
(***************************************************************************)

State == {"Idle", "OffloadReq", "OffloadToMicrostackSuccess", "OffloadFailure",
          "OffloadToMicroappSuccess", "OffloadToMicroappFailure",
          "UnOffloadReqFromHAL", "UnOffloadReqToMicrostack", "UnoffloadSuccess"}

Row(s, e, t) == [from |-> s, evt |-> e, to |-> t]

StateTable ==
  { Row("Idle", "OFFLOAD_REQ", "OffloadReq"),
    Row("OffloadReq", "OFFLOAD_TO_MICROSTACK_SUCCESS", "OffloadToMicrostackSuccess"),
    Row("OffloadReq", "OFFLOAD_TO_MICROSTACK_FAILURE", "OffloadFailure"),
    Row("OffloadReq", "UNOFFLOAD_REQ", "UnOffloadReqToMicrostack"),
    Row("OffloadToMicroappSuccess", "UNOFFLOAD_REQ", "UnOffloadReqFromHAL"),
    Row("UnOffloadReqFromHAL", "UNOFFLOAD_FROM_MICROAPP_SUCCESS",
        "UnOffloadReqToMicrostack"),
    Row("OffloadToMicroappSuccess", "UNOFFLOAD_FROM_MICROAPP_SUCCESS",
        "UnOffloadReqToMicrostack"),
    Row("OffloadToMicroappFailure", "UNOFFLOAD_FROM_MICROSTACK_SUCCESS", "OffloadFailure"),
    Row("UnOffloadReqToMicrostack", "UNOFFLOAD_FROM_MICROSTACK_SUCCESS",
        "UnoffloadSuccess"),
    Row("OffloadToMicrostackSuccess", "UNOFFLOAD_REQ", "UnOffloadReqToMicrostack"),
    Row("OffloadToMicrostackSuccess", "OFFLOAD_TO_MICROAPP_SUCCESS",
        "OffloadToMicroappSuccess"),
    Row("OffloadToMicrostackSuccess", "OFFLOAD_TO_MICROAPP_FAILURE",
        "OffloadToMicroappFailure"),
    Row("UnoffloadSuccess", "OFFLOAD_INSTANCE_FREE", "Idle"),
    Row("OffloadFailure", "OFFLOAD_INSTANCE_FREE", "Idle") }

HasRow(s, e) == \E r \in StateTable : r.from = s /\ r.evt = e

NextState(s, e) == (CHOOSE r \in StateTable : r.from = s /\ r.evt = e).to

\* The event a result of the microstack, and an answer of a microapp, stands
\* for.  The mutants do not look at the result.
MicrostackEventAnyResult(ok) == "OFFLOAD_TO_MICROSTACK_SUCCESS"
UappEventAnyResult(ok) == "OFFLOAD_TO_MICROAPP_SUCCESS"

MicrostackEvent(ok) ==
  IF ok THEN "OFFLOAD_TO_MICROSTACK_SUCCESS" ELSE "OFFLOAD_TO_MICROSTACK_FAILURE"
UappEvent(ok) ==
  IF ok THEN "OFFLOAD_TO_MICROAPP_SUCCESS" ELSE "OFFLOAD_TO_MICROAPP_FAILURE"
=============================================================================
