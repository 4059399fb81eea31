--------------------------- MODULE OffloadService ---------------------------
(***************************************************************************)
(* What socket offload promises to the HAL, with no offload manager, BMM   *)
(* or microapp in sight.  A socket is offloaded or not; the HAL is told    *)
(* that it is open only while it is offloaded, that its open failed or its *)
(* close is done only while it is not, and in between it stays offloaded   *)
(* until the HAL asks for its close.  Every request is answered.           *)
(***************************************************************************)
CONSTANT SocketId

VARIABLES
  hal,          \* the socket as the HAL knows it
  offloaded     \* the sockets whose data path bypasses the host

vars == <<hal, offloaded>>

Init ==
  /\ hal = [s \in SocketId |-> "closed"]
  /\ offloaded = {}

Open(s) ==
  /\ hal[s] = "closed"
  /\ s \notin offloaded
  /\ hal' = [hal EXCEPT ![s] = "opening"]
  /\ UNCHANGED offloaded

Offload(s) ==
  /\ hal[s] = "opening"
  /\ s \notin offloaded
  /\ offloaded' = offloaded \cup {s}
  /\ UNCHANGED hal

AnswerOpen(s) ==
  /\ hal[s] = "opening"
  /\ hal' = [hal EXCEPT ![s] = IF s \in offloaded THEN "open" ELSE "closed"]
  /\ UNCHANGED offloaded

Close(s) ==
  /\ hal[s] = "open"
  /\ hal' = [hal EXCEPT ![s] = "closing"]
  /\ UNCHANGED offloaded

Unoffload(s) ==
  /\ hal[s] = "closing"
  /\ s \in offloaded
  /\ offloaded' = offloaded \ {s}
  /\ UNCHANGED hal

AnswerClose(s) ==
  /\ hal[s] = "closing"
  /\ s \notin offloaded
  /\ hal' = [hal EXCEPT ![s] = "closed"]
  /\ UNCHANGED offloaded

Next ==
  \E s \in SocketId :
    \/ Open(s)
    \/ Offload(s)
    \/ AnswerOpen(s)
    \/ Close(s)
    \/ Unoffload(s)
    \/ AnswerClose(s)

Spec ==
  /\ Init
  /\ [][Next]_vars
  /\ \A s \in SocketId :
       /\ WF_vars(AnswerOpen(s))
       /\ WF_vars(Unoffload(s))
       /\ WF_vars(AnswerClose(s))

=============================================================================
