-------------------------- MODULE OffloadChannels --------------------------
(***************************************************************************)
(* The queues over which the parts of the Bluetooth socket offload talk,   *)
(* and the messages they carry.                                            *)
(*                                                                         *)
(*   pipe    the one QuRT pipe the offload manager thread reads: requests  *)
(*           of the HAL, confirmations of the microstack and answers of    *)
(*           the microapps all arrive in it, in the order they were posted *)
(*   bmmQ    the scheduler queue of the microstack's connection manager    *)
(*           (BMM)                                                         *)
(*   uappQ   the LPAI transport towards the application manager of the     *)
(*           watch processor                                               *)
(*   halQ    the glink channel towards the Bluetooth socket HAL            *)
(***************************************************************************)
EXTENDS Integers, Sequences

CONSTANTS
  SocketId,     \* socket ids the HAL may use
  NumInst,      \* MAX_OFFLOAD_INSTANCES: entries of offload_instances[]
  NumSock,      \* BMM_SOCK_MAX_CONN: entries of gBmm.socket[]
  IdSpace       \* socket ids agree in a BmmConnId when equal modulo IdSpace

ASSUME SocketIdAssumption == SocketId \subseteq Nat \ {0}
ASSUME NumInstAssumption  == NumInst \in Nat \ {0}
ASSUME NumSockAssumption  == NumSock \in Nat \ {0}
ASSUME IdSpaceAssumption  == IdSpace \in Nat \ {0}

VARIABLES pipe, bmmQ, uappQ, halQ

channels == <<pipe, bmmQ, uappQ, halQ>>

Protocol == {"RFCOMM", "LECOC"}

\* The endpoint named in an open request: the microapp of one protocol, or
\* an endpoint no microapp registered.
Endpoint == Protocol \cup {"NONE"}

Inst == 1 .. NumInst
Sock == 1 .. NumSock

(***************************************************************************)
(* BmmConnId: (socketId & 0xFFFF) << 16 | protocol << 8 | index.  The three *)
(* fields are kept apart; IdSpace stands for 2^16.  Protocols are coded 1   *)
(* and 2 in the source, so no generated id equals BMM_INVALID_CONNID (0).   *)
(***************************************************************************)
NoConn == [low |-> 0, proto |-> "NONE", idx |-> 0]

ConnId == [low : 0 .. (IdSpace - 1), proto : Protocol, idx : Sock] \cup {NoConn}

\* Mutant: the socket id is left out.
GenerateAnonymousConnId(p, s, k) == [low |-> 0, proto |-> p, idx |-> k]

GenerateConnId(p, s, k) == [low |-> s % IdSpace, proto |-> p, idx |-> k]

\* The socket id an application manager answers with when the endpoint of
\* an open request is not registered.
UnknownEndpointId == 255

OpenMsg  == [type : {"OPEN_SOCKET"}, sid : SocketId, proto : Protocol, ep : Endpoint]
CloseMsg == [type : {"CLOSE_SOCKET"}, sid : SocketId]
OffloadCfmMsg == [type : {"OFFLOAD_CFM"}, inst : Inst, conn : ConnId, ok : BOOLEAN]
CloseCfmMsg   == [type : {"CLOSE_CFM"}, conn : ConnId, ok : BOOLEAN]
ErrorIndMsg   == [type : {"ERROR_IND"}, proto : Protocol]
UappOpenResMsg == [type : {"UAPP_OPEN_RES"}, sid : SocketId \cup {UnknownEndpointId},
                   ok : BOOLEAN]

PipeMsg == OpenMsg \cup CloseMsg \cup OffloadCfmMsg \cup CloseCfmMsg
             \cup ErrorIndMsg \cup UappOpenResMsg

BmmMsg == [type : {"OFFLOAD_REQ"}, sid : SocketId, proto : Protocol, inst : Inst]
            \cup [type : {"CLOSE_REQ"}, conn : ConnId]
            \cup [type : {"SET_PARAMS_REQ"}, conn : ConnId]

UappMsg == [type : {"OPEN_REQ"}, sid : SocketId, proto : Protocol, ep : Endpoint]
             \cup [type : {"CLOSE_REQ"}, sid : SocketId, ep : Endpoint]
             \cup [type : {"BT_STATUS"}, on : BOOLEAN]

HalMsg == [type : {"OPEN_RSP"}, sid : SocketId, ok : BOOLEAN]
            \cup [type : {"CLOSE_RSP"}, sid : SocketId]

ChannelsTypeOK ==
  /\ pipe \in Seq(PipeMsg)
  /\ bmmQ \in Seq(BmmMsg)
  /\ uappQ \in Seq(UappMsg)
  /\ halQ \in Seq(HalMsg)

ChannelsInit ==
  /\ pipe = <<>>
  /\ bmmQ = <<>>
  /\ uappQ = <<>>
  /\ halQ = <<>>
=============================================================================
