-------------------------- MODULE MCSocketOffload --------------------------
(* Small instances of SocketOffload for TLC. *)
EXTENDS SocketOffload

\* Opens of either protocol, all towards the microapp of RFCOMM.
RfcommAppOffers == {<<"RFCOMM", "RFCOMM">>, <<"LECOC", "RFCOMM">>}

RfcommOffers == {<<"RFCOMM", "RFCOMM">>}
LecocOffers == {<<"LECOC", "LECOC">>}
UnknownOffers == {<<"RFCOMM", "NONE">>}

\* LE CoC, and RFCOMM towards an endpoint no microapp registered.
PoolOffers == LecocOffers \cup UnknownOffers
=============================================================================
