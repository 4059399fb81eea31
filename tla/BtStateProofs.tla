--------------------------- MODULE BtStateProofs ---------------------------
(***************************************************************************)
(* Proofs about BtState: what its runs check of switching Bluetooth on and *)
(* off holds for any number of channels, lives of the HAL, messages and    *)
(* crashes, and for a pipe of any size.                                    *)
(*                                                                         *)
(* The argument.  A microstack lives through phases (there is none, it     *)
(* boots, it has told that it is up, it is stopped), and the invariant     *)
(* says of each phase which messages may still be under way in the pipe of *)
(* the offload manager and in the queue of the BMM, where the threads are  *)
(* and what the mode, the pointer and the tables are then.  The order of   *)
(* the pipe matters as well: what the HAL asked for comes before the end   *)
(* of the stop, and that comes before what a later HAL asks for.           *)
(***************************************************************************)
EXTENDS BtState, TLAPS

(* What is under way.  A stop without a word to the controller is told     *)
(* from one that asks it first.                                            *)

Kind(m) == IF m.op = "prepare_stop" /\ m.reason = "ssr" THEN "ssr_stop" ELSE m.op

KindsIn(q) == {Kind(q[i]) : i \in DOMAIN q}

\* Before the end of a stop come the requests of the HAL that is stopped;
\* after it comes the one of the next HAL, which asks once.
InPhase(q) ==
  \A i, j \in DOMAIN q :
    /\ q[i].op = "done" /\ q[j].op \in {"open", "disable"} => j < i
    /\ q[i].op = "done" /\ q[j].op = "enable" => i < j
    /\ q[i].op = "enable" /\ q[j].op = "enable" => i = j

\* A microstack is asked for its events first, and activated once.
InBoot(q) ==
  \A i, j \in DOMAIN q :
    /\ q[i].op = "mask" => i = 1
    /\ q[i].op = "activated" /\ q[j].op = "activated" => i = j

-----------------------------------------------------------------------------
(* The inductive invariant.                                                *)

ChannelsAgree ==
  \A c \in Channel :
    /\ link[c] = "connected" <=> chnlState[c] = "connected"
    /\ link[c] \in {"remote_closed", "closing"} <=> chnlState[c] = "remote"

ChannelsUp ==
  hal \in {"off", "enabling", "on", "disabling", "resetting"} \/ glink = "hci"
    => \A c \in Channel : link[c] = "connected"

Phases ==
  /\ thread = "stopping" <=> inst \in {"stopping", "deinit", "ended"}
  /\ thread \in {"starting", "open"} => inst = "up"
  /\ config # DEFAULT <=> thread = "starting"
  /\ thread = "starting" => btOnMode = DEFAULT
  /\ "enable" \in KindsIn(pipe) =>
       inst = "null" /\ hal \notin {"on", "disabling", "resetting"}
  /\ "open" \in KindsIn(pipe) \/ "disable" \in KindsIn(pipe) => inst = "up"
  /\ hal = "on" => inst = "up"
  /\ hal = "enabling" => inst = "up" \/ "enable" \in KindsIn(pipe)

Gone ==
  inst \in {"null", "ended"} =>
    /\ ~live /\ ~registered /\ btOnMode = DEFAULT /\ island = "allow" /\ uapp = "off"
    /\ KindsIn(stackQ) = {} /\ timers = 0
    /\ ~bmm.telling /\ bmm.asked = 0

Booting ==
  /\ Exists => bmm.state # "none"
  /\ Exists => (bmm.subscribed <=> "mask" \notin KindsIn(stackQ))
  /\ bmm.state = "booting" => inst = "up" /\ ~arbiter /\ ~bmm.telling
  /\ "mask" \in KindsIn(stackQ) \/ "activated" \in KindsIn(stackQ) => bmm.state = "booting"
  /\ bmm.telling => inst = "up" /\ arbiter

\* The microstack is active: it has said that it is initialised.
Active == Exists /\ bmm.state \in {"ready", "failed"}
Told == Active /\ ~bmm.telling

AfterBoot ==
  /\ "bt_off" \in KindsIn(stackQ) => Active
  /\ "ssr_stop" \in KindsIn(stackQ) \/ timers > 0 => Told
  /\ inst = "up" /\ "done" \in KindsIn(pipe) => Told /\ ~arbiter
  /\ "open" \in KindsIn(pipe) \/ "disable" \in KindsIn(pipe) \/ live \/ thread = "open" => Told
  /\ hal \in {"on", "disabling", "resetting"} /\ inst = "up" => Told
  /\ inst # "up" => ~arbiter

ModeKept ==
  live \/ thread = "open" \/ uapp = "on" \/ "open" \in KindsIn(pipe)
    => btOnMode \in {OFFLD, OFFLD_SSR}

\* No stop has begun.
Undisturbed ==
  /\ "disable" \notin KindsIn(pipe)
  /\ inst = "up" => "done" \notin KindsIn(pipe)
  /\ KindsIn(stackQ) \cap {"prepare_stop", "ssr_stop", "bt_off"} = {}
  /\ timers = 0 /\ bmm.asked = 0

NoStop ==
  /\ hal \in {"enabling", "on"} => Undisturbed
  /\ glink = "hci" => Undisturbed /\ inst = "up"

Controller ==
  /\ "crash" \in KindsIn(stackQ) => ctrl = "dead"
  /\ hal = "on" => arbiter \/ ctrl = "dead"

BtInv ==
  /\ TypeOK
  /\ ChannelsAgree /\ ChannelsUp
  /\ InPhase(pipe) /\ InBoot(stackQ)
  /\ Phases /\ Gone /\ Booting /\ AfterBoot /\ ModeKept /\ NoStop /\ Controller

-----------------------------------------------------------------------------
(* Lemmas about the queues.                                                *)

\* An empty queue holds nothing.
LEMMA KindsOfNothing == KindsIn(<<>>) = {}
BY DEF KindsIn

\* A message that is appended adds its kind.
LEMMA KindsAppend ==
  ASSUME NEW S, NEW q \in Seq(S), NEW m \in S
  PROVE  KindsIn(Append(q, m)) = KindsIn(q) \cup {Kind(m)}
<1> DEFINE p == Append(q, m)
<1>1. /\ DOMAIN p = 1 .. (Len(q) + 1) /\ DOMAIN q = 1 .. Len(q) /\ Len(q) \in Nat
      /\ p[Len(q) + 1] = m
      /\ \A i \in DOMAIN q : p[i] = q[i]
  OBVIOUS
<1> HIDE DEF p
<1>2. DOMAIN p = DOMAIN q \cup {Len(q) + 1}
  BY <1>1
<1>3. {Kind(p[i]) : i \in DOMAIN p} = {Kind(q[i]) : i \in DOMAIN q} \cup {Kind(m)}
  BY <1>1, <1>2, ZenonT(60)
<1> QED
  BY <1>3 DEF KindsIn, p

\* The head that is taken takes its kind along, unless there is another.
LEMMA KindsTail ==
  ASSUME NEW S, NEW q \in Seq(S), q # <<>>
  PROVE  /\ KindsIn(q) = KindsIn(Tail(q)) \cup {Kind(Head(q))}
         /\ Head(q) \in S
<1> DEFINE p == Tail(q)
<1>1. /\ \A i \in DOMAIN p : i + 1 \in DOMAIN q /\ p[i] = q[i + 1]
      /\ \A i \in DOMAIN q : i # 1 => i - 1 \in DOMAIN p /\ q[i] = p[i - 1]
      /\ 1 \in DOMAIN q /\ Head(q) = q[1] /\ q[1] \in S
  OBVIOUS
<1> HIDE DEF p
<1>2. {Kind(q[i]) : i \in DOMAIN q} = {Kind(p[i]) : i \in DOMAIN p} \cup {Kind(Head(q))}
  BY <1>1
<1> QED
  BY <1>1, <1>2 DEF KindsIn, p

\* The order of the pipe survives an append that respects it.
LEMMA PhaseAppend ==
  ASSUME NEW S, NEW q \in Seq(S), NEW m \in S, InPhase(q),
         m.op \in {"open", "disable"} => "done" \notin KindsIn(q),
         m.op \in {"done", "enable"} => "enable" \notin KindsIn(q)
  PROVE  InPhase(Append(q, m))
<1> DEFINE p == Append(q, m)
<1>1. /\ DOMAIN p = 1 .. (Len(q) + 1) /\ DOMAIN q = 1 .. Len(q) /\ Len(q) \in Nat
      /\ p[Len(q) + 1] = m
      /\ \A i \in DOMAIN q : p[i] = q[i]
  OBVIOUS
<1>2. \A i \in DOMAIN q : q[i].op \in {"done", "enable"} => q[i].op \in KindsIn(q)
  BY DEF KindsIn, Kind
<1> HIDE DEF p
<1>3. \A i, j \in DOMAIN p :
        /\ p[i].op = "done" /\ p[j].op \in {"open", "disable"} => j < i
        /\ p[i].op = "done" /\ p[j].op = "enable" => i < j
        /\ p[i].op = "enable" /\ p[j].op = "enable" => i = j
  BY <1>1, <1>2 DEF InPhase
<1> QED
  BY <1>3 DEF InPhase, p

\* The order of the pipe survives the handling of its head, which tells what
\* may still be behind it.
LEMMA PhaseTail ==
  ASSUME NEW S, NEW q \in Seq(S), q # <<>>, InPhase(q)
  PROVE  /\ InPhase(Tail(q))
         /\ Head(q).op = "done" =>
              "open" \notin KindsIn(Tail(q)) /\ "disable" \notin KindsIn(Tail(q))
         /\ Head(q).op = "enable" =>
              "done" \notin KindsIn(Tail(q)) /\ "enable" \notin KindsIn(Tail(q))
<1> DEFINE p == Tail(q)
<1>1. /\ \A i \in DOMAIN p : i \in Nat /\ i >= 1 /\ i + 1 \in DOMAIN q /\ p[i] = q[i + 1]
      /\ 1 \in DOMAIN q /\ Head(q) = q[1]
  OBVIOUS
<1> HIDE DEF p
<1>2. \A i, j \in DOMAIN p :
        /\ p[i].op = "done" /\ p[j].op \in {"open", "disable"} => j < i
        /\ p[i].op = "done" /\ p[j].op = "enable" => i < j
        /\ p[i].op = "enable" /\ p[j].op = "enable" => i = j
  BY <1>1 DEF InPhase
<1>3. ASSUME Head(q).op = "done", NEW i \in DOMAIN p
      PROVE  p[i].op \notin {"open", "disable"}
  BY <1>1, <1>3 DEF InPhase
<1>4. ASSUME Head(q).op = "enable", NEW i \in DOMAIN p
      PROVE  p[i].op \notin {"done", "enable"}
  BY <1>1, <1>4 DEF InPhase
<1>5. \A k \in {"open", "disable", "done", "enable"} :
        k \in KindsIn(p) => \E i \in DOMAIN p : p[i].op = k
  BY DEF KindsIn, Kind
<1> QED
  BY <1>2, <1>3, <1>4, <1>5 DEF InPhase, p

\* The order of the BMM's queue survives an append of what is not boot, or
\* of the only activation.
LEMMA BootAppend ==
  ASSUME NEW S, NEW q \in Seq(S), NEW m \in S, InBoot(q), m.op # "mask",
         m.op = "activated" => "activated" \notin KindsIn(q)
  PROVE  InBoot(Append(q, m))
<1> DEFINE p == Append(q, m)
<1>1. /\ DOMAIN p = 1 .. (Len(q) + 1) /\ DOMAIN q = 1 .. Len(q) /\ Len(q) \in Nat
      /\ p[Len(q) + 1] = m
      /\ \A i \in DOMAIN q : p[i] = q[i]
  OBVIOUS
<1>2. \A i \in DOMAIN q : q[i].op = "activated" => q[i].op \in KindsIn(q)
  BY DEF KindsIn, Kind
<1> HIDE DEF p
<1>3. \A i, j \in DOMAIN p :
        /\ p[i].op = "mask" => i = 1
        /\ p[i].op = "activated" /\ p[j].op = "activated" => i = j
  BY <1>1, <1>2 DEF InBoot
<1> QED
  BY <1>3 DEF InBoot, p

\* It survives the handling of the head, after which no request for the
\* events is left, and no second activation.
LEMMA BootTail ==
  ASSUME NEW S, NEW q \in Seq(S), q # <<>>, InBoot(q)
  PROVE  /\ InBoot(Tail(q))
         /\ "mask" \notin KindsIn(Tail(q))
         /\ Head(q).op # "mask" => "mask" \notin KindsIn(q)
         /\ Head(q).op = "activated" => "activated" \notin KindsIn(Tail(q))
<1> DEFINE p == Tail(q)
<1>1. /\ \A i \in DOMAIN p : i \in Nat /\ i >= 1 /\ i + 1 \in DOMAIN q /\ p[i] = q[i + 1]
      /\ 1 \in DOMAIN q /\ Head(q) = q[1]
      /\ \A i \in DOMAIN q : i \in Nat
  OBVIOUS
<1> HIDE DEF p
<1>2. \A i, j \in DOMAIN p :
        /\ p[i].op # "mask"
        /\ p[i].op = "activated" /\ p[j].op = "activated" => i = j
  BY <1>1 DEF InBoot
<1>3. ASSUME Head(q).op = "activated", NEW i \in DOMAIN p
      PROVE  p[i].op # "activated"
  BY <1>1, <1>3 DEF InBoot
<1>4. \A k \in {"mask", "activated"} :
        /\ k \in KindsIn(p) => \E i \in DOMAIN p : p[i].op = k
        /\ k \in KindsIn(q) => \E i \in DOMAIN q : q[i].op = k
  BY DEF KindsIn, Kind
<1>5. Head(q).op # "mask" => "mask" \notin KindsIn(q)
  BY <1>1, <1>4 DEF InBoot
<1> QED
  BY <1>2, <1>3, <1>4, <1>5 DEF InBoot, p
-----------------------------------------------------------------------------
(* Each step keeps the invariant.                                          *)

\* A part of the BMM's state changes.
LEMMA BmmChanges ==
  ASSUME NEW b \in BmmState, NEW c \in BOOLEAN, NEW n \in Nat,
         NEW s \in {"none", "booting", "ready", "failed"}
  PROVE  /\ [b EXCEPT !.subscribed = c] \in BmmState
         /\ [b EXCEPT !.telling = c] \in BmmState
         /\ [b EXCEPT !.asked = n] \in BmmState
         /\ [b EXCEPT !.state = s] \in BmmState
         /\ [b EXCEPT !.state = s, !.subscribed = c, !.telling = c] \in BmmState
         /\ [state |-> s, subscribed |-> c, telling |-> c, asked |-> n] \in BmmState
BY DEF BmmState

\* A message is put into the pipe.
LEMMA Posted ==
  ASSUME pipe \in Seq(PipeMsg), NEW m \in PipeMsg, Post(m)
  PROVE  /\ pipe' \in Seq(PipeMsg)
         /\ KindsIn(pipe)' = KindsIn(pipe) \cup {m.op}
         /\ InPhase(pipe)
            /\ (m.op \in {"open", "disable"} => "done" \notin KindsIn(pipe))
            /\ (m.op \in {"done", "enable"} => "enable" \notin KindsIn(pipe))
            => InPhase(pipe)'
<1>1. pipe' = Append(pipe, m)
  BY DEF Post
<1>2. Kind(m) = m.op
  BY DEF Kind, PipeMsg, OtherMode
<1> QED
  BY <1>1, <1>2, KindsAppend, PhaseAppend

\* A message is taken from the pipe.
LEMMA Received ==
  ASSUME pipe \in Seq(PipeMsg), pipe # <<>>, pipe' = Tail(pipe), InPhase(pipe)
  PROVE  /\ pipe' \in Seq(PipeMsg)
         /\ KindsIn(pipe) = KindsIn(pipe)' \cup {Head(pipe).op}
         /\ Head(pipe) \in PipeMsg
         /\ InPhase(pipe)'
         /\ Head(pipe).op = "done" =>
              "open" \notin KindsIn(pipe)' /\ "disable" \notin KindsIn(pipe)'
         /\ Head(pipe).op = "enable" =>
              "done" \notin KindsIn(pipe)' /\ "enable" \notin KindsIn(pipe)'
<1>1. Head(pipe) \in PipeMsg /\ KindsIn(pipe) = KindsIn(pipe)' \cup {Kind(Head(pipe))}
  BY KindsTail
<1>2. Kind(Head(pipe)) = Head(pipe).op
  BY <1>1 DEF Kind, PipeMsg, OtherMode
<1>3. pipe' \in Seq(PipeMsg)
  OBVIOUS
<1> QED
  BY <1>1, <1>2, <1>3, PhaseTail

\* A message is put into the queue of the BMM.
LEMMA Asked ==
  ASSUME stackQ \in Seq(StackMsg), NEW m \in StackMsg, stackQ' = Append(stackQ, m)
  PROVE  /\ stackQ' \in Seq(StackMsg)
         /\ KindsIn(stackQ)' = KindsIn(stackQ) \cup {Kind(m)}
         /\ InBoot(stackQ) /\ m.op # "mask"
            /\ (m.op = "activated" => "activated" \notin KindsIn(stackQ))
            => InBoot(stackQ)'
BY KindsAppend, BootAppend

\* A message is taken from it.
LEMMA Taken ==
  ASSUME stackQ \in Seq(StackMsg), stackQ # <<>>, stackQ' = Tail(stackQ), InBoot(stackQ)
  PROVE  /\ stackQ' \in Seq(StackMsg)
         /\ KindsIn(stackQ) = KindsIn(stackQ)' \cup {Kind(Head(stackQ))}
         /\ Head(stackQ) \in StackMsg
         /\ InBoot(stackQ)'
         /\ "mask" \notin KindsIn(stackQ)'
         /\ Head(stackQ).op # "mask" => "mask" \notin KindsIn(stackQ)
         /\ Head(stackQ).op = "activated" => "activated" \notin KindsIn(stackQ)'
<1>1. stackQ' \in Seq(StackMsg)
  OBVIOUS
<1> QED
  BY <1>1, KindsTail, BootTail

\* An event of a channel of the HAL keeps the invariant.
LEMMA ChannelStep ==
  ASSUME BtInv, NEW c \in Channel,
         ChannelConnected(c) \/ ChannelRemoteDisconnected(c) \/ ChannelLocalDisconnected(c)
  PROVE  BtInv'
<1> DEFINE m == [op |-> "channel", chan |-> c]
<1>1. /\ m \in PipeMsg /\ Post(m) /\ m.op = "channel" /\ glink = "idle"
      /\ UNCHANGED <<halVars, glink, thread, mgrVars, stackVars, ctrl>>
      /\ \E s \in {"connected", "remote", "local"} :
           chnlState' = [chnlState EXCEPT ![c] = s]
      /\ \E s \in {"connected", "remote_closed", "closed"} :
           link' = [link EXCEPT ![c] = s]
  BY DEF ChannelConnected, ChannelRemoteDisconnected, ChannelLocalDisconnected,
         ChannelEvent, PipeMsg, glinkVars
<1> HIDE DEF m
<1>2. /\ pipe' \in Seq(PipeMsg) /\ KindsIn(pipe)' = KindsIn(pipe) \cup {"channel"}
      /\ InPhase(pipe)' /\ InBoot(stackQ)' /\ KindsIn(stackQ)' = KindsIn(stackQ)
  BY <1>1, Posted DEF BtInv, TypeOK, stackVars
<1>3. TypeOK'
  BY <1>1, <1>2 DEF BtInv, TypeOK, halVars, glinkVars, mgrVars, stackVars
<1>4. ChannelsAgree'
  BY DEF BtInv, TypeOK, ChannelsAgree, ChannelConnected, ChannelRemoteDisconnected,
         ChannelLocalDisconnected, ChannelEvent
<1>5. ChannelsUp'
  BY <1>1 DEF BtInv, TypeOK, ChannelsUp, ChannelConnected, ChannelRemoteDisconnected,
         ChannelLocalDisconnected, ChannelEvent, halVars, glinkVars
<1>6. /\ Phases' /\ Gone' /\ Booting' /\ AfterBoot' /\ ModeKept' /\ NoStop' /\ Controller'
  BY <1>1, <1>2 DEF BtInv, Phases, Gone, Booting, AfterBoot, ModeKept, NoStop, Undisturbed,
     Controller, Told, Active, Exists, halVars, glinkVars, mgrVars, stackVars
<1> QED BY <1>2, <1>3, <1>4, <1>5, <1>6 DEF BtInv

\* The glink thread tests the pointer.
LEMMA HciPacketTestStep ==
  ASSUME BtInv, HciPacketTest
  PROVE  BtInv'
<1>1. /\ pipe' \in Seq(PipeMsg) /\ KindsIn(pipe)' = KindsIn(pipe) /\ InPhase(pipe)'
  BY DEF HciPacketTest, Count, BtInv, TypeOK, KindsIn, InPhase, halVars, glinkVars, mgrVars, stackVars
<1>2. /\ stackQ' \in Seq(StackMsg) /\ KindsIn(stackQ)' = KindsIn(stackQ) /\ InBoot(stackQ)'
  BY DEF HciPacketTest, Count, BtInv, TypeOK, KindsIn, InBoot, halVars, glinkVars, mgrVars, stackVars
<1>3. TypeOK'
  BY <1>1, <1>2 DEF HciPacketTest, Count, BtInv, TypeOK, halVars, glinkVars, mgrVars, stackVars
<1>4. ChannelsAgree' /\ ChannelsUp'
  BY <1>1, <1>2 DEF HciPacketTest, Count, BtInv, TypeOK, halVars, glinkVars, mgrVars, stackVars, ChannelsAgree, ChannelsUp, Phases, NoStop, Undisturbed
<1>5. /\ Phases' /\ Gone' /\ Booting' /\ AfterBoot' /\ ModeKept' /\ NoStop' /\ Controller'
  BY <1>1, <1>2, <1>3 DEF HciPacketTest, Count, BtInv, Phases, Gone, Booting, AfterBoot, ModeKept, NoStop, Undisturbed,
     Controller, Told, Active, Exists, Listening, halVars, glinkVars, mgrVars, stackVars, TypeOK, ChannelsUp
<1> QED BY <1>1, <1>2, <1>3, <1>4, <1>5 DEF BtInv

\* It calls through the pointer.
LEMMA HciPacketCallStep ==
  ASSUME BtInv, HciPacketCall
  PROVE  BtInv'
<1>1. /\ pipe' \in Seq(PipeMsg) /\ KindsIn(pipe)' = KindsIn(pipe) /\ InPhase(pipe)'
  BY DEF HciPacketCall, BtInv, TypeOK, KindsIn, InPhase, halVars, glinkVars, mgrVars, stackVars
<1>2. /\ stackQ' \in Seq(StackMsg) /\ KindsIn(stackQ)' = KindsIn(stackQ) /\ InBoot(stackQ)'
  BY DEF HciPacketCall, BtInv, TypeOK, KindsIn, InBoot, halVars, glinkVars, mgrVars, stackVars
<1>3. TypeOK'
  BY <1>1, <1>2 DEF HciPacketCall, BtInv, TypeOK, halVars, glinkVars, mgrVars, stackVars
<1>4. ChannelsAgree' /\ ChannelsUp'
  BY <1>1, <1>2 DEF HciPacketCall, BtInv, TypeOK, halVars, glinkVars, mgrVars, stackVars, ChannelsAgree, ChannelsUp, Phases, NoStop, Undisturbed
<1>5. /\ Phases' /\ Gone' /\ Booting' /\ AfterBoot' /\ ModeKept' /\ NoStop' /\ Controller'
  BY <1>1, <1>2, <1>3 DEF HciPacketCall, BtInv, Phases, Gone, Booting, AfterBoot, ModeKept, NoStop, Undisturbed,
     Controller, Told, Active, Exists, Listening, halVars, glinkVars, mgrVars, stackVars, TypeOK, ChannelsUp
<1> QED BY <1>1, <1>2, <1>3, <1>4, <1>5 DEF BtInv

\* The HAL comes up.
LEMMA HalUpStep ==
  ASSUME BtInv, HalUp
  PROVE  BtInv'
<1>1. /\ pipe' \in Seq(PipeMsg) /\ KindsIn(pipe)' = KindsIn(pipe) /\ InPhase(pipe)'
  BY DEF HalUp, Count, BtInv, TypeOK, KindsIn, InPhase, halVars, glinkVars, mgrVars, stackVars
<1>2. /\ stackQ' \in Seq(StackMsg) /\ KindsIn(stackQ)' = KindsIn(stackQ) /\ InBoot(stackQ)'
  BY DEF HalUp, Count, BtInv, TypeOK, KindsIn, InBoot, halVars, glinkVars, mgrVars, stackVars
<1>3. TypeOK'
  BY <1>1, <1>2 DEF HalUp, Count, BtInv, TypeOK, halVars, glinkVars, mgrVars, stackVars
<1>4. ChannelsAgree' /\ ChannelsUp'
  BY <1>1, <1>2 DEF HalUp, Count, BtInv, TypeOK, halVars, glinkVars, mgrVars, stackVars, ChannelsAgree, ChannelsUp, Phases, NoStop, Undisturbed
<1>5. /\ Phases' /\ Gone' /\ Booting' /\ AfterBoot' /\ ModeKept' /\ NoStop' /\ Controller'
  BY <1>1, <1>2, <1>3 DEF HalUp, Count, BtInv, Phases, Gone, Booting, AfterBoot, ModeKept, NoStop, Undisturbed,
     Controller, Told, Active, Exists, Listening, halVars, glinkVars, mgrVars, stackVars, TypeOK, ChannelsUp
<1> QED BY <1>1, <1>2, <1>3, <1>4, <1>5 DEF BtInv

\* The HAL ends.
LEMMA HalExitsStep ==
  ASSUME BtInv, HalExits
  PROVE  BtInv'
<1>1. /\ pipe' \in Seq(PipeMsg) /\ KindsIn(pipe)' = KindsIn(pipe) /\ InPhase(pipe)'
  BY DEF HalExits, BtInv, TypeOK, KindsIn, InPhase, halVars, glinkVars, mgrVars, stackVars
<1>2. /\ stackQ' \in Seq(StackMsg) /\ KindsIn(stackQ)' = KindsIn(stackQ) /\ InBoot(stackQ)'
  BY DEF HalExits, BtInv, TypeOK, KindsIn, InBoot, halVars, glinkVars, mgrVars, stackVars
<1>3. TypeOK'
  BY <1>1, <1>2 DEF HalExits, BtInv, TypeOK, halVars, glinkVars, mgrVars, stackVars
<1>4. ChannelsAgree' /\ ChannelsUp'
  BY <1>1, <1>2 DEF HalExits, BtInv, TypeOK, halVars, glinkVars, mgrVars, stackVars, ChannelsAgree, ChannelsUp, Phases, NoStop, Undisturbed
<1>5. /\ Phases' /\ Gone' /\ Booting' /\ AfterBoot' /\ ModeKept' /\ NoStop' /\ Controller'
  BY <1>1, <1>2, <1>3 DEF HalExits, BtInv, Phases, Gone, Booting, AfterBoot, ModeKept, NoStop, Undisturbed,
     Controller, Told, Active, Exists, Listening, halVars, glinkVars, mgrVars, stackVars, TypeOK, ChannelsUp
<1> QED BY <1>1, <1>2, <1>3, <1>4, <1>5 DEF BtInv

\* The HAL crashes.
LEMMA HalCrashesStep ==
  ASSUME BtInv, HalCrashes
  PROVE  BtInv'
<1>1. /\ pipe' \in Seq(PipeMsg) /\ KindsIn(pipe)' = KindsIn(pipe) /\ InPhase(pipe)'
  BY DEF HalCrashes, Count, BtInv, TypeOK, KindsIn, InPhase, halVars, glinkVars, mgrVars, stackVars
<1>2. /\ stackQ' \in Seq(StackMsg) /\ KindsIn(stackQ)' = KindsIn(stackQ) /\ InBoot(stackQ)'
  BY DEF HalCrashes, Count, BtInv, TypeOK, KindsIn, InBoot, halVars, glinkVars, mgrVars, stackVars
<1>3. TypeOK'
  BY <1>1, <1>2 DEF HalCrashes, Count, BtInv, TypeOK, halVars, glinkVars, mgrVars, stackVars
<1>4. ChannelsAgree' /\ ChannelsUp'
  BY <1>1, <1>2 DEF HalCrashes, Count, BtInv, TypeOK, halVars, glinkVars, mgrVars, stackVars, ChannelsAgree, ChannelsUp, Phases, NoStop, Undisturbed
<1>5. /\ Phases' /\ Gone' /\ Booting' /\ AfterBoot' /\ ModeKept' /\ NoStop' /\ Controller'
  BY <1>1, <1>2, <1>3 DEF HalCrashes, Count, BtInv, Phases, Gone, Booting, AfterBoot, ModeKept, NoStop, Undisturbed,
     Controller, Told, Active, Exists, Listening, halVars, glinkVars, mgrVars, stackVars, TypeOK, ChannelsUp
<1> QED BY <1>1, <1>2, <1>3, <1>4, <1>5 DEF BtInv

\* A HAL is gone for good.
LEMMA HalGoneStep ==
  ASSUME BtInv, HalGone
  PROVE  BtInv'
<1>1. /\ pipe' \in Seq(PipeMsg) /\ KindsIn(pipe)' = KindsIn(pipe) /\ InPhase(pipe)'
  BY DEF HalGone, BtInv, TypeOK, KindsIn, InPhase, halVars, glinkVars, mgrVars, stackVars
<1>2. /\ stackQ' \in Seq(StackMsg) /\ KindsIn(stackQ)' = KindsIn(stackQ) /\ InBoot(stackQ)'
  BY DEF HalGone, BtInv, TypeOK, KindsIn, InBoot, halVars, glinkVars, mgrVars, stackVars
<1>3. TypeOK'
  BY <1>1, <1>2 DEF HalGone, BtInv, TypeOK, halVars, glinkVars, mgrVars, stackVars
<1>4. ChannelsAgree' /\ ChannelsUp'
  BY <1>1, <1>2 DEF HalGone, BtInv, TypeOK, halVars, glinkVars, mgrVars, stackVars, ChannelsAgree, ChannelsUp, Phases, NoStop, Undisturbed
<1>5. /\ Phases' /\ Gone' /\ Booting' /\ AfterBoot' /\ ModeKept' /\ NoStop' /\ Controller'
  BY <1>1, <1>2, <1>3 DEF HalGone, BtInv, Phases, Gone, Booting, AfterBoot, ModeKept, NoStop, Undisturbed,
     Controller, Told, Active, Exists, Listening, halVars, glinkVars, mgrVars, stackVars, TypeOK, ChannelsUp
<1> QED BY <1>1, <1>2, <1>3, <1>4, <1>5 DEF BtInv

\* The offload manager has handled a message of a socket.
LEMMA SocketEndStep ==
  ASSUME BtInv, SocketEnd
  PROVE  BtInv'
<1>1. /\ pipe' \in Seq(PipeMsg) /\ KindsIn(pipe)' = KindsIn(pipe) /\ InPhase(pipe)'
  BY DEF SocketEnd, BtInv, TypeOK, KindsIn, InPhase, halVars, glinkVars, mgrVars, stackVars
<1>2. /\ stackQ' \in Seq(StackMsg) /\ KindsIn(stackQ)' = KindsIn(stackQ) /\ InBoot(stackQ)'
  BY DEF SocketEnd, BtInv, TypeOK, KindsIn, InBoot, halVars, glinkVars, mgrVars, stackVars
<1>3. TypeOK'
  BY <1>1, <1>2 DEF SocketEnd, BtInv, TypeOK, halVars, glinkVars, mgrVars, stackVars
<1>4. ChannelsAgree' /\ ChannelsUp'
  BY <1>1, <1>2 DEF SocketEnd, BtInv, TypeOK, halVars, glinkVars, mgrVars, stackVars, ChannelsAgree, ChannelsUp, Phases, NoStop, Undisturbed
<1>5. /\ Phases' /\ Gone' /\ Booting' /\ AfterBoot' /\ ModeKept' /\ NoStop' /\ Controller'
  BY <1>1, <1>2, <1>3 DEF SocketEnd, BtInv, Phases, Gone, Booting, AfterBoot, ModeKept, NoStop, Undisturbed,
     Controller, Told, Active, Exists, Listening, halVars, glinkVars, mgrVars, stackVars, TypeOK, ChannelsUp
<1> QED BY <1>1, <1>2, <1>3, <1>4, <1>5 DEF BtInv

\* It sets the mode.
LEMMA BtOnSetModeStep ==
  ASSUME BtInv, BtOnSetMode
  PROVE  BtInv'
<1>1. /\ pipe' \in Seq(PipeMsg) /\ KindsIn(pipe)' = KindsIn(pipe) /\ InPhase(pipe)'
  BY DEF BtOnSetMode, BtInv, TypeOK, KindsIn, InPhase, halVars, glinkVars, mgrVars, stackVars
<1>2. /\ stackQ' \in Seq(StackMsg) /\ KindsIn(stackQ)' = KindsIn(stackQ) /\ InBoot(stackQ)'
  BY DEF BtOnSetMode, BtInv, TypeOK, KindsIn, InBoot, halVars, glinkVars, mgrVars, stackVars
<1>3. TypeOK'
  BY <1>1, <1>2 DEF BtOnSetMode, Phases, Mode, OnMode, DEFAULT, BtInv, TypeOK, halVars, glinkVars,
     mgrVars, stackVars
<1>4. ChannelsAgree' /\ ChannelsUp'
  BY <1>1, <1>2 DEF BtOnSetMode, BtInv, TypeOK, halVars, glinkVars, mgrVars, stackVars, ChannelsAgree, ChannelsUp, Phases, NoStop, Undisturbed
<1>5. /\ Phases' /\ Gone' /\ Booting' /\ AfterBoot' /\ ModeKept' /\ NoStop' /\ Controller'
  BY <1>1, <1>2, <1>3 DEF BtOnSetMode, OFFLD, OFFLD_SSR, DEFAULT, BtInv, Phases, Gone, Booting, AfterBoot, ModeKept, NoStop, Undisturbed,
     Controller, Told, Active, Exists, Listening, halVars, glinkVars, mgrVars, stackVars, TypeOK, ChannelsUp
<1> QED BY <1>1, <1>2, <1>3, <1>4, <1>5 DEF BtInv

\* It has seen the microstack end.
LEMMA StopEndStep ==
  ASSUME BtInv, StopEnd
  PROVE  BtInv'
<1>1. /\ pipe' \in Seq(PipeMsg) /\ KindsIn(pipe)' = KindsIn(pipe) /\ InPhase(pipe)'
  BY DEF StopEnd, BtInv, TypeOK, KindsIn, InPhase, halVars, glinkVars, mgrVars, stackVars
<1>2. /\ stackQ' \in Seq(StackMsg) /\ KindsIn(stackQ)' = KindsIn(stackQ) /\ InBoot(stackQ)'
  BY DEF StopEnd, BtInv, TypeOK, KindsIn, InBoot, halVars, glinkVars, mgrVars, stackVars
<1>3. TypeOK'
  BY <1>1, <1>2 DEF StopEnd, BtInv, TypeOK, halVars, glinkVars, mgrVars, stackVars
<1>4. ChannelsAgree' /\ ChannelsUp'
  BY <1>1, <1>2 DEF StopEnd, BtInv, TypeOK, halVars, glinkVars, mgrVars, stackVars, ChannelsAgree, ChannelsUp, Phases, NoStop, Undisturbed
<1>5. /\ Phases' /\ Gone' /\ Booting' /\ AfterBoot' /\ ModeKept' /\ NoStop' /\ Controller'
  BY <1>1, <1>2, <1>3 DEF StopEnd, BtInv, Phases, Gone, Booting, AfterBoot, ModeKept, NoStop, Undisturbed,
     Controller, Told, Active, Exists, Listening, halVars, glinkVars, mgrVars, stackVars, TypeOK, ChannelsUp
<1> QED BY <1>1, <1>2, <1>3, <1>4, <1>5 DEF BtInv

\* The callback tells that the microstack is up.
LEMMA TellEnabledStep ==
  ASSUME BtInv, TellEnabled
  PROVE  BtInv'
<1>1. /\ pipe' \in Seq(PipeMsg) /\ KindsIn(pipe)' = KindsIn(pipe) /\ InPhase(pipe)'
  BY DEF TellEnabled, BtInv, TypeOK, KindsIn, InPhase, halVars, glinkVars, mgrVars, stackVars
<1>2. /\ stackQ' \in Seq(StackMsg) /\ KindsIn(stackQ)' = KindsIn(stackQ) /\ InBoot(stackQ)'
  BY DEF TellEnabled, BtInv, TypeOK, KindsIn, InBoot, halVars, glinkVars, mgrVars, stackVars
<1>3. TypeOK'
  <2>1. bmm' \in BmmState
    BY DEF TellEnabled, BtInv, TypeOK, BmmState
  <2> QED BY <1>1, <1>2, <2>1 DEF TellEnabled, BtInv, TypeOK, glinkVars
<1>4. ChannelsAgree' /\ ChannelsUp'
  BY <1>1, <1>2 DEF TellEnabled, BtInv, TypeOK, halVars, glinkVars, mgrVars, stackVars, ChannelsAgree, ChannelsUp, Phases, NoStop, Undisturbed
<1>5. /\ Phases' /\ Gone' /\ Booting' /\ AfterBoot' /\ ModeKept' /\ NoStop' /\ Controller'
  BY <1>1, <1>2, <1>3 DEF TellEnabled, BtInv, Phases, Gone, Booting, AfterBoot, ModeKept, NoStop, Undisturbed,
     Controller, Told, Active, Exists, Listening, halVars, glinkVars, mgrVars, stackVars, TypeOK, BmmState, ChannelsUp
<1> QED BY <1>1, <1>2, <1>3, <1>4, <1>5 DEF BtInv

\* It answers the HAL at the end.
LEMMA TellDisabledStep ==
  ASSUME BtInv, TellDisabled
  PROVE  BtInv'
<1>1. /\ pipe' \in Seq(PipeMsg) /\ KindsIn(pipe)' = KindsIn(pipe) /\ InPhase(pipe)'
  BY DEF TellDisabled, BtInv, TypeOK, KindsIn, InPhase, halVars, glinkVars, mgrVars, stackVars
<1>2. /\ stackQ' \in Seq(StackMsg) /\ KindsIn(stackQ)' = KindsIn(stackQ) /\ InBoot(stackQ)'
  BY DEF TellDisabled, BtInv, TypeOK, KindsIn, InBoot, halVars, glinkVars, mgrVars, stackVars
<1>3. TypeOK'
  BY <1>1, <1>2 DEF TellDisabled, BtInv, TypeOK, halVars, glinkVars, mgrVars, stackVars
<1>4. ChannelsAgree' /\ ChannelsUp'
  BY <1>1, <1>2 DEF TellDisabled, BtInv, TypeOK, halVars, glinkVars, mgrVars, stackVars, ChannelsAgree, ChannelsUp, Phases, NoStop, Undisturbed
<1>5. /\ Phases' /\ Gone' /\ Booting' /\ AfterBoot' /\ ModeKept' /\ NoStop' /\ Controller'
  BY <1>1, <1>2, <1>3 DEF TellDisabled, BtInv, Phases, Gone, Booting, AfterBoot, ModeKept, NoStop, Undisturbed,
     Controller, Told, Active, Exists, Listening, halVars, glinkVars, mgrVars, stackVars, TypeOK, ChannelsUp
<1> QED BY <1>1, <1>2, <1>3, <1>4, <1>5 DEF BtInv

\* A message of a socket arrives.
LEMMA SocketMessageStep ==
  ASSUME BtInv, NEW op \in {"socket", "open"}, SocketMessage(op)
  PROVE  BtInv'
<1> DEFINE m == [op |-> op]
<1>0. m \in PipeMsg /\ Post(m) /\ m.op = op
  BY DEF SocketMessage, StateEvent, PipeMsg, OnMode
<1> HIDE DEF m
<1>1. /\ pipe' \in Seq(PipeMsg) /\ KindsIn(pipe)' = KindsIn(pipe) \cup {op} /\ InPhase(pipe)'
  BY <1>0, Posted DEF SocketMessage, BtInv, TypeOK, Phases, NoStop, Undisturbed
<1>2. /\ stackQ' \in Seq(StackMsg) /\ KindsIn(stackQ)' = KindsIn(stackQ) /\ InBoot(stackQ)'
  BY DEF SocketMessage, Count, BtInv, TypeOK, KindsIn, InBoot, halVars, glinkVars, mgrVars, stackVars
<1>3. TypeOK'
  BY <1>1, <1>2 DEF SocketMessage, Count, BtInv, TypeOK, halVars, glinkVars, mgrVars, stackVars
<1>4. ChannelsAgree' /\ ChannelsUp'
  BY <1>1, <1>2 DEF SocketMessage, Count, BtInv, TypeOK, halVars, glinkVars, mgrVars, stackVars, ChannelsAgree, ChannelsUp, Phases, NoStop, Undisturbed
<1>5. /\ Phases' /\ Gone' /\ Booting' /\ AfterBoot' /\ ModeKept' /\ NoStop' /\ Controller'
  BY <1>1, <1>2, <1>3 DEF SocketMessage, Count, BtInv, Phases, Gone, Booting, AfterBoot, ModeKept, NoStop, Undisturbed,
     Controller, Told, Active, Exists, Listening, halVars, glinkVars, mgrVars, stackVars, TypeOK, ChannelsUp
<1> QED BY <1>1, <1>2, <1>3, <1>4, <1>5 DEF BtInv

\* The HAL asks for a mode that is none.
LEMMA HalAsksOtherStep ==
  ASSUME BtInv, NEW op \in OtherMode, HalAsksOther(op)
  PROVE  BtInv'
<1> DEFINE m == [op |-> op]
<1>0. m \in PipeMsg /\ Post(m) /\ m.op = op
  BY DEF HalAsksOther, StateEvent, PipeMsg, OtherMode
<1> HIDE DEF m
<1>1. /\ pipe' \in Seq(PipeMsg) /\ KindsIn(pipe)' = KindsIn(pipe) \cup {op} /\ InPhase(pipe)'
  BY <1>0, Posted DEF HalAsksOther, OtherMode, BtInv, TypeOK, Phases, NoStop, Undisturbed
<1>2. /\ stackQ' \in Seq(StackMsg) /\ KindsIn(stackQ)' = KindsIn(stackQ) /\ InBoot(stackQ)'
  BY DEF HalAsksOther, OtherMode, StateEvent, Count, BtInv, TypeOK, KindsIn, InBoot, halVars, glinkVars, mgrVars, stackVars
<1>3. TypeOK'
  BY <1>1, <1>2 DEF HalAsksOther, OtherMode, StateEvent, Count, BtInv, TypeOK, halVars, glinkVars, mgrVars, stackVars
<1>4. ChannelsAgree' /\ ChannelsUp'
  BY <1>1, <1>2 DEF HalAsksOther, OtherMode, StateEvent, Count, BtInv, TypeOK, halVars, glinkVars, mgrVars, stackVars, ChannelsAgree, ChannelsUp, Phases, NoStop, Undisturbed
<1>5. /\ Phases' /\ Gone' /\ Booting' /\ AfterBoot' /\ ModeKept' /\ NoStop' /\ Controller'
  BY <1>1, <1>2, <1>3 DEF HalAsksOther, OtherMode, StateEvent, Count, BtInv, Phases, Gone, Booting, AfterBoot, ModeKept, NoStop, Undisturbed,
     Controller, Told, Active, Exists, Listening, halVars, glinkVars, mgrVars, stackVars, TypeOK, ChannelsUp
<1> QED BY <1>1, <1>2, <1>3, <1>4, <1>5 DEF BtInv

\* The HAL enables Bluetooth.
LEMMA HalEnablesStep ==
  ASSUME BtInv, NEW mode \in OnMode, HalEnables(mode)
  PROVE  BtInv'
<1> DEFINE m == [op |-> "enable", config |-> mode]
<1>0. m \in PipeMsg /\ Post(m) /\ m.op = "enable"
  BY DEF HalEnables, StateEvent, PipeMsg, OnMode
<1> HIDE DEF m
<1>1. /\ pipe' \in Seq(PipeMsg) /\ KindsIn(pipe)' = KindsIn(pipe) \cup {"enable"} /\ InPhase(pipe)'
  <2>1. "enable" \notin KindsIn(pipe)
    BY DEF HalEnables, KindsIn, Kind
  <2> QED BY <1>0, <2>1, Posted DEF BtInv, TypeOK
<1>2. /\ stackQ' \in Seq(StackMsg) /\ KindsIn(stackQ)' = KindsIn(stackQ) /\ InBoot(stackQ)'
  BY DEF HalEnables, StateEvent, Count, BtInv, TypeOK, KindsIn, InBoot, halVars, glinkVars, mgrVars, stackVars
<1>3. TypeOK'
  BY <1>1, <1>2 DEF HalEnables, StateEvent, Count, BtInv, TypeOK, halVars, glinkVars, mgrVars, stackVars
<1>4. ChannelsAgree' /\ ChannelsUp'
  BY <1>1, <1>2 DEF HalEnables, StateEvent, Count, BtInv, TypeOK, halVars, glinkVars, mgrVars, stackVars, ChannelsAgree, ChannelsUp, Phases, NoStop, Undisturbed
<1>5. /\ Phases' /\ Gone' /\ Booting' /\ AfterBoot' /\ ModeKept' /\ NoStop' /\ Controller'
  BY <1>1, <1>2, <1>3 DEF HalEnables, StateEvent, Count, BtInv, Phases, Gone, Booting, AfterBoot, ModeKept, NoStop, Undisturbed,
     Controller, Told, Active, Exists, Listening, halVars, glinkVars, mgrVars, stackVars, TypeOK, ChannelsUp
<1> QED BY <1>1, <1>2, <1>3, <1>4, <1>5 DEF BtInv

\* The HAL disables Bluetooth.
LEMMA HalDisablesStep ==
  ASSUME BtInv, NEW reason \in {"user", "ssr"}, HalDisables(reason)
  PROVE  BtInv'
<1> DEFINE m == [op |-> "disable", reason |-> reason]
<1>0. m \in PipeMsg /\ Post(m) /\ m.op = "disable"
  BY DEF HalDisables, StateEvent, PipeMsg, OnMode
<1> HIDE DEF m
<1>1. /\ pipe' \in Seq(PipeMsg) /\ KindsIn(pipe)' = KindsIn(pipe) \cup {"disable"} /\ InPhase(pipe)'
  BY <1>0, Posted DEF HalDisables, BtInv, TypeOK, Phases, NoStop, Undisturbed
<1>2. /\ stackQ' \in Seq(StackMsg) /\ KindsIn(stackQ)' = KindsIn(stackQ) /\ InBoot(stackQ)'
  BY DEF HalDisables, StateEvent, BtInv, TypeOK, KindsIn, InBoot, halVars, glinkVars, mgrVars, stackVars
<1>3. TypeOK'
  BY <1>1, <1>2 DEF HalDisables, StateEvent, BtInv, TypeOK, halVars, glinkVars, mgrVars, stackVars
<1>4. ChannelsAgree' /\ ChannelsUp'
  BY <1>1, <1>2 DEF HalDisables, StateEvent, BtInv, TypeOK, halVars, glinkVars, mgrVars, stackVars, ChannelsAgree, ChannelsUp, Phases, NoStop, Undisturbed
<1>5. /\ Phases' /\ Gone' /\ Booting' /\ AfterBoot' /\ ModeKept' /\ NoStop' /\ Controller'
  BY <1>1, <1>2, <1>3 DEF HalDisables, StateEvent, BtInv, Phases, Gone, Booting, AfterBoot, ModeKept, NoStop, Undisturbed,
     Controller, Told, Active, Exists, Listening, halVars, glinkVars, mgrVars, stackVars, TypeOK, ChannelsUp
<1> QED BY <1>1, <1>2, <1>3, <1>4, <1>5 DEF BtInv

\* The controller crashes.
LEMMA ControllerCrashesStep ==
  ASSUME BtInv, ControllerCrashes
  PROVE  BtInv'
<1>1. /\ pipe' \in Seq(PipeMsg) /\ KindsIn(pipe)' = KindsIn(pipe) /\ InPhase(pipe)'
  BY DEF ControllerCrashes, Count, BtInv, TypeOK, KindsIn, InPhase, halVars, glinkVars, mgrVars, stackVars
<1> DEFINE m == [op |-> "crash"]
<1>0. m \in StackMsg /\ stackQ' = Append(stackQ, m) /\ m.op = "crash" /\ Kind(m) = "crash"
  BY DEF ControllerCrashes, StackMsg, Kind
<1> HIDE DEF m
<1>2. /\ stackQ' \in Seq(StackMsg) /\ KindsIn(stackQ)' = KindsIn(stackQ) \cup {"crash"}
      /\ InBoot(stackQ)'
  BY <1>0, Asked DEF BtInv, TypeOK
<1>3. TypeOK'
  BY <1>1, <1>2 DEF ControllerCrashes, Count, BtInv, TypeOK, halVars, glinkVars, mgrVars, stackVars
<1>4. ChannelsAgree' /\ ChannelsUp'
  BY <1>1, <1>2 DEF ControllerCrashes, Count, BtInv, TypeOK, halVars, glinkVars, mgrVars, stackVars, ChannelsAgree, ChannelsUp, Phases, NoStop, Undisturbed
<1>5. /\ Phases' /\ Gone' /\ Booting' /\ AfterBoot' /\ ModeKept' /\ NoStop' /\ Controller'
  BY ZenonT(60), <1>1, <1>2, <1>3 DEF ControllerCrashes, Count, BtInv, Phases, Gone, Booting, AfterBoot, ModeKept, NoStop, Undisturbed,
     Controller, Told, Active, Exists, Listening, halVars, glinkVars, mgrVars, stackVars, TypeOK, ChannelsUp
<1> QED BY <1>1, <1>2, <1>3, <1>4, <1>5 DEF BtInv

\* The controller answers a stop.
LEMMA ControllerAnswersStep ==
  ASSUME BtInv, ControllerAnswers
  PROVE  BtInv'
<1>1. /\ pipe' \in Seq(PipeMsg) /\ KindsIn(pipe)' = KindsIn(pipe) /\ InPhase(pipe)'
  BY DEF ControllerAnswers, BtInv, TypeOK, KindsIn, InPhase, halVars, glinkVars, mgrVars, stackVars
<1> DEFINE m == [op |-> "bt_off"]
<1>0. m \in StackMsg /\ stackQ' = Append(stackQ, m) /\ m.op = "bt_off" /\ Kind(m) = "bt_off"
  BY DEF ControllerAnswers, StackMsg, Kind
<1> HIDE DEF m
<1>2. /\ stackQ' \in Seq(StackMsg) /\ KindsIn(stackQ)' = KindsIn(stackQ) \cup {"bt_off"}
      /\ InBoot(stackQ)'
  BY <1>0, Asked DEF BtInv, TypeOK
<1>3. TypeOK'
  <2>1. bmm' \in BmmState
    <3>1. bmm.asked \in Nat /\ bmm.asked > 0
      BY DEF ControllerAnswers, BtInv, TypeOK, BmmState
    <3>2. bmm.asked - 1 \in Nat
      BY ONLY <3>1
    <3> DEFINE a == bmm.asked - 1
    <3>3. bmm' = [bmm EXCEPT !.asked = a]
      BY DEF ControllerAnswers
    <3> HIDE DEF a
    <3> QED BY <3>2, <3>3 DEF BtInv, TypeOK, BmmState, a
  <2> QED BY <1>1, <1>2, <2>1 DEF ControllerAnswers, BtInv, TypeOK, halVars, glinkVars, mgrVars
<1>4. ChannelsAgree' /\ ChannelsUp'
  BY <1>1, <1>2 DEF ControllerAnswers, BtInv, TypeOK, halVars, glinkVars, mgrVars, stackVars, ChannelsAgree, ChannelsUp, Phases, NoStop, Undisturbed
<1>5. /\ Phases' /\ Gone' /\ Booting' /\ AfterBoot' /\ ModeKept' /\ NoStop' /\ Controller'
  BY <1>1, <1>2, <1>3 DEF ControllerAnswers, BtInv, Phases, Gone, Booting, AfterBoot, ModeKept, NoStop, Undisturbed,
     Controller, Told, Active, Exists, Listening, halVars, glinkVars, mgrVars, stackVars, TypeOK, ChannelsUp
<1> QED BY <1>1, <1>2, <1>3, <1>4, <1>5 DEF BtInv

\* The transport is activated.
LEMMA TransportActivatedStep ==
  ASSUME BtInv, TransportActivated
  PROVE  BtInv'
<1>1. /\ pipe' \in Seq(PipeMsg) /\ KindsIn(pipe)' = KindsIn(pipe) /\ InPhase(pipe)'
  BY DEF TransportActivated, BtInv, TypeOK, KindsIn, InPhase, halVars, glinkVars, mgrVars, stackVars
<1> DEFINE m == [op |-> "activated", ok |-> ctrl = "ok"]
<1>0. m \in StackMsg /\ stackQ' = Append(stackQ, m) /\ m.op = "activated" /\ Kind(m) = "activated"
  BY DEF TransportActivated, StackMsg, Kind
<1> HIDE DEF m
<1>2. /\ stackQ' \in Seq(StackMsg) /\ KindsIn(stackQ)' = KindsIn(stackQ) \cup {"activated"}
      /\ InBoot(stackQ)'
  <2>1. "activated" \notin KindsIn(stackQ)
    BY DEF TransportActivated, KindsIn, Kind
  <2> QED BY <1>0, <2>1, Asked DEF BtInv, TypeOK
<1>3. TypeOK'
  BY <1>1, <1>2 DEF TransportActivated, BtInv, TypeOK, halVars, glinkVars, mgrVars, stackVars
<1>4. ChannelsAgree' /\ ChannelsUp'
  BY <1>1, <1>2 DEF TransportActivated, BtInv, TypeOK, halVars, glinkVars, mgrVars, stackVars, ChannelsAgree, ChannelsUp, Phases, NoStop, Undisturbed
<1>5. /\ Phases' /\ Gone' /\ Booting' /\ AfterBoot' /\ ModeKept' /\ NoStop' /\ Controller'
  BY ZenonT(60), <1>1, <1>2, <1>3 DEF TransportActivated, BtInv, Phases, Gone, Booting, AfterBoot, ModeKept, NoStop, Undisturbed,
     Controller, Told, Active, Exists, Listening, halVars, glinkVars, mgrVars, stackVars, TypeOK, ChannelsUp
<1> QED BY <1>1, <1>2, <1>3, <1>4, <1>5 DEF BtInv

\* The offload manager begins with a message of a socket.
LEMMA SocketBeginStep ==
  ASSUME BtInv, SocketBegin
  PROVE  BtInv'
<1>1. /\ pipe' \in Seq(PipeMsg) /\ InPhase(pipe)'
      /\ KindsIn(pipe) = KindsIn(pipe)' \cup {thread'}
      /\ thread' \in {"socket", "open"} /\ thread = "idle"
  BY Received DEF SocketBegin, Receive, BtInv, TypeOK
<1>2. /\ stackQ' \in Seq(StackMsg) /\ KindsIn(stackQ)' = KindsIn(stackQ) /\ InBoot(stackQ)'
  BY DEF SocketBegin, BtInv, TypeOK, KindsIn, InBoot, stackVars
<1>3. UNCHANGED <<halVars, glinkVars, mgrVars, stackVars, ctrl>>
  BY DEF SocketBegin
<1>4. TypeOK'
  BY <1>1, <1>2, <1>3 DEF BtInv, TypeOK, halVars, glinkVars, mgrVars, stackVars
<1>5. ChannelsAgree' /\ ChannelsUp'
  BY <1>3 DEF BtInv, ChannelsAgree, ChannelsUp, halVars, glinkVars
<1>6. Phases' /\ Gone' /\ Booting'
  BY <1>1, <1>2, <1>3 DEF BtInv, Phases, Gone, Booting, Exists, NoStop, Undisturbed,
     halVars, glinkVars, mgrVars, stackVars
<1>7. AfterBoot' /\ ModeKept' /\ NoStop' /\ Controller'
  BY <1>1, <1>2, <1>3 DEF BtInv, Phases, AfterBoot, Told, Active, Exists, ModeKept, NoStop,
     Undisturbed, Controller, halVars, glinkVars, mgrVars, stackVars
<1> QED BY <1>1, <1>2, <1>4, <1>5, <1>6, <1>7 DEF BtInv

\* It refuses a mode that is none.
LEMMA RefuseStep ==
  ASSUME BtInv, BtOnRefuse \/ BtOffRefuse
  PROVE  BtInv'
<1>1. /\ pipe' \in Seq(PipeMsg) /\ InPhase(pipe)'
      /\ \E op \in OtherMode : KindsIn(pipe) = KindsIn(pipe)' \cup {op}
  BY Received DEF BtOnRefuse, BtOffRefuse, Receive, OtherMode, BtInv, TypeOK
<1>2. UNCHANGED <<halVars, glinkVars, thread, mgrVars, stackVars, ctrl>>
  BY DEF BtOnRefuse, BtOffRefuse
<1>3. /\ stackQ' \in Seq(StackMsg) /\ KindsIn(stackQ)' = KindsIn(stackQ) /\ InBoot(stackQ)'
  BY <1>2 DEF BtInv, TypeOK, KindsIn, InBoot, stackVars
<1>4. TypeOK'
  BY <1>1, <1>2, <1>3 DEF BtInv, TypeOK, halVars, glinkVars, mgrVars, stackVars
<1>5. ChannelsAgree' /\ ChannelsUp'
  BY <1>2 DEF BtInv, ChannelsAgree, ChannelsUp, halVars, glinkVars
<1>6. \A k \in {"enable", "open", "disable", "done", "socket", "channel"} :
        k \in KindsIn(pipe)' <=> k \in KindsIn(pipe)
  BY <1>1 DEF OtherMode
<1>7. Phases' /\ Gone' /\ Booting'
  BY <1>2, <1>3, <1>6 DEF BtInv, Phases, Gone, Booting, Exists, NoStop, Undisturbed,
     halVars, glinkVars, mgrVars, stackVars
<1>8. AfterBoot' /\ ModeKept' /\ NoStop' /\ Controller'
  BY <1>2, <1>3, <1>6 DEF BtInv, Phases, AfterBoot, Told, Active, Exists, ModeKept, NoStop,
     Undisturbed, Controller, halVars, glinkVars, mgrVars, stackVars
<1> QED BY <1>1, <1>3, <1>4, <1>5, <1>7, <1>8 DEF BtInv

\* The offload manager begins to stop the microstack.
LEMMA StopBeginStep ==
  ASSUME BtInv, StopBegin
  PROVE  BtInv'
<1>1. /\ pipe' \in Seq(PipeMsg) /\ InPhase(pipe)' /\ Head(pipe) \in PipeMsg
      /\ KindsIn(pipe) = KindsIn(pipe)' \cup {"done"} /\ thread = "idle"
      /\ "open" \notin KindsIn(pipe)' /\ "disable" \notin KindsIn(pipe)'
  BY Received DEF StopBegin, Receive, BtInv, TypeOK
<1>2. /\ stackQ' \in Seq(StackMsg) /\ KindsIn(stackQ)' = KindsIn(stackQ) /\ InBoot(stackQ)'
  BY DEF StopBegin, BtInv, TypeOK, KindsIn, InBoot, stackVars
<1>3. /\ UNCHANGED <<halVars, glinkVars, mgrVars, stackQ, bmm, timers, retryCount, ctrl>>
      /\ inst = "null" => thread' = "idle" /\ inst' = "null"
      /\ inst # "null" => thread' = "stopping" /\ inst' = "stopping"
  BY <1>1 DEF StopBegin
<1>4. inst \in {"null", "up"}
  BY <1>1 DEF BtInv, TypeOK, Phases
<1>5. TypeOK'
  BY <1>1, <1>2, <1>3, <1>4 DEF BtInv, TypeOK, halVars, glinkVars, mgrVars
<1>6. ChannelsAgree' /\ ChannelsUp'
  BY <1>3 DEF BtInv, ChannelsAgree, ChannelsUp, halVars, glinkVars
<1>7. CASE inst = "null"
  <2>1. /\ Phases' /\ Gone' /\ Booting' /\ AfterBoot' /\ ModeKept' /\ NoStop' /\ Controller'
    BY <1>1, <1>2, <1>3, <1>7 DEF BtInv, Phases, Gone, Booting, AfterBoot, Told, Active,
       Exists, ModeKept, NoStop, Undisturbed, Controller, halVars, glinkVars, mgrVars
  <2> QED BY <1>1, <1>2, <1>5, <1>6, <2>1 DEF BtInv
<1>8. CASE inst = "up"
  <2>1. Told /\ ~arbiter /\ hal \notin {"on", "enabling"} /\ glink # "hci"
    BY <1>1, <1>8 DEF BtInv, AfterBoot, NoStop, Undisturbed
  <2>2. /\ Phases' /\ Gone' /\ Booting' /\ AfterBoot' /\ ModeKept' /\ NoStop' /\ Controller'
    BY <1>1, <1>2, <1>3, <1>8, <2>1 DEF BtInv, Phases, Gone, Booting, AfterBoot, Told, Active,
       Exists, ModeKept, NoStop, Undisturbed, Controller, halVars, glinkVars, mgrVars
  <2> QED BY <1>1, <1>2, <1>5, <1>6, <2>2 DEF BtInv
<1> QED BY <1>4, <1>7, <1>8

\* The offload manager starts the microstack.
LEMMA BtOnStartStep ==
  ASSUME BtInv, BtOnStart
  PROVE  BtInv'
<1>1. /\ pipe' \in Seq(PipeMsg) /\ InPhase(pipe)' /\ Head(pipe) \in PipeMsg
      /\ KindsIn(pipe) = KindsIn(pipe)' \cup {"enable"} /\ thread = "idle"
      /\ "done" \notin KindsIn(pipe)' /\ "enable" \notin KindsIn(pipe)'
      /\ Head(pipe).op = "enable"
  BY Received DEF BtOnStart, Receive, BtInv, TypeOK
<1>2. inst = "null" /\ hal \notin {"on", "disabling", "resetting"}
  BY <1>1 DEF BtInv, Phases
<1>3. /\ island' = "restrict" /\ registered' = TRUE /\ thread' = "starting"
      /\ config' \in OnMode /\ inst' = "up" /\ timers' = 0
      /\ bmm' = [state |-> "booting", subscribed |-> FALSE, telling |-> FALSE, asked |-> 0]
      /\ stackQ' = <<[op |-> "mask"]>>
      /\ UNCHANGED <<halVars, glinkVars, btOnMode, live, arbiter, clients, uapp, retryCount, ctrl>>
  BY <1>1, <1>2 DEF BtOnStart, MicroStackStart, PipeMsg, OtherMode
<1>4. stackQ' \in Seq(StackMsg) /\ KindsIn(stackQ)' = {"mask"} /\ InBoot(stackQ)'
  <2>1. [op |-> "mask"] \in StackMsg
    BY DEF StackMsg
  <2>2. DOMAIN stackQ' = {1} /\ stackQ'[1].op = "mask"
    BY <1>3
  <2>3. KindsIn(stackQ)' = {Kind(stackQ'[1])}
    BY <2>2 DEF KindsIn
  <2>4. stackQ' \in Seq(StackMsg)
    BY <1>3, <2>1
  <2> QED BY <2>2, <2>3, <2>4 DEF Kind, InBoot
<1>5. TypeOK'
  <2>1. bmm' \in BmmState /\ bmm'.state = "booting" /\ bmm'.telling = FALSE
    BY <1>3 DEF BmmState
  <2> QED BY <1>1, <1>3, <1>4, <2>1 DEF BtInv, TypeOK, halVars, glinkVars
<1>6. ChannelsAgree' /\ ChannelsUp'
  BY <1>3 DEF BtInv, ChannelsAgree, ChannelsUp, halVars, glinkVars
<1>7. /\ Phases' /\ Gone' /\ Booting' /\ AfterBoot' /\ ModeKept' /\ NoStop' /\ Controller'
  BY <1>1, <1>2, <1>3, <1>4 DEF BtInv, Phases, Gone, Booting, AfterBoot, Told, Active,
     Exists, ModeKept, NoStop, Undisturbed, Controller, halVars, glinkVars, OnMode, DEFAULT,
     OFFLD, PASSTHROUGH
<1> QED BY <1>1, <1>4, <1>5, <1>6, <1>7 DEF BtInv

\* A stop is requested of a microstack that has told, while its HAL waits
\* for it or is dead.
LEMMA StopRequested ==
  ASSUME BtInv, NEW reason \in {"user", "ssr"}, PrepareStopReq(reason)
  PROVE  /\ stackQ' \in Seq(StackMsg) /\ InBoot(stackQ)'
         /\ KindsIn(stackQ)' = KindsIn(stackQ) \cup
              {IF reason = "ssr" THEN "ssr_stop" ELSE "prepare_stop"}
<1> DEFINE m == [op |-> "prepare_stop", reason |-> reason]
<1>1. /\ m \in StackMsg /\ stackQ' = Append(stackQ, m) /\ m.op = "prepare_stop"
      /\ Kind(m) = IF reason = "ssr" THEN "ssr_stop" ELSE "prepare_stop"
  BY DEF PrepareStopReq, StackMsg, Kind
<1> HIDE DEF m
<1> QED BY <1>1, Asked DEF BtInv, TypeOK

\* The offload manager asks for the stop.
LEMMA BtOffStep ==
  ASSUME BtInv, BtOff
  PROVE  BtInv'
<1>1. /\ pipe' \in Seq(PipeMsg) /\ InPhase(pipe)' /\ Head(pipe) \in PipeMsg
      /\ KindsIn(pipe) = KindsIn(pipe)' \cup {"disable"} /\ thread = "idle"
  BY Received DEF BtOff, Receive, BtInv, TypeOK
<1>2. PICK r \in {"user", "ssr"} : PrepareStopReq(r)
  BY DEF BtOff
<1>3. PICK k \in {"ssr_stop", "prepare_stop"} :
        /\ stackQ' \in Seq(StackMsg) /\ InBoot(stackQ)'
        /\ KindsIn(stackQ)' = KindsIn(stackQ) \cup {k}
  BY <1>2, StopRequested
<1>4. /\ island' = "restrict"
      /\ UNCHANGED <<config, halVars, glinkVars, thread, btOnMode, live, registered, arbiter,
                     clients, uapp, inst, bmm, timers, retryCount, ctrl>>
  BY <1>2 DEF BtOff, PrepareStopReq
<1>5. TypeOK'
  BY <1>1, <1>3, <1>4 DEF BtInv, TypeOK, halVars, glinkVars
<1>6. ChannelsAgree' /\ ChannelsUp'
  BY <1>4 DEF BtInv, ChannelsAgree, ChannelsUp, halVars, glinkVars
<1>7. Told /\ inst = "up" /\ hal \notin {"on", "enabling"} /\ glink # "hci"
  BY <1>1 DEF BtInv, AfterBoot, Phases, NoStop, Undisturbed
<1>8. /\ Phases' /\ Gone' /\ Booting' /\ AfterBoot' /\ ModeKept' /\ NoStop' /\ Controller'
  BY <1>1, <1>3, <1>4, <1>7 DEF BtInv, Phases, Gone, Booting, AfterBoot, Told, Active,
     Exists, ModeKept, NoStop, Undisturbed, Controller, halVars, glinkVars
<1> QED BY <1>1, <1>3, <1>5, <1>6, <1>8 DEF BtInv

\* The offload manager handles what happened to a channel; a HAL that went
\* away while it was on is switched off.
LEMMA HandleChannelStep ==
  ASSUME BtInv, HandleChannelState
  PROVE  BtInv'
<1>1. /\ pipe' \in Seq(PipeMsg) /\ InPhase(pipe)' /\ Head(pipe) \in PipeMsg
      /\ KindsIn(pipe) = KindsIn(pipe)' \cup {"channel"} /\ thread = "idle"
      /\ Head(pipe).op = "channel"
  BY Received DEF HandleChannelState, Receive, BtInv, TypeOK
<1> DEFINE c == Head(pipe).chan
<1>2. c \in Channel
  BY <1>1 DEF PipeMsg, OtherMode
<1>3. /\ UNCHANGED <<config, halVars, chnlState, glink, thread, live, registered, arbiter,
                     clients, uapp, inst, bmm, timers, retryCount, ctrl>>
      /\ \/ UNCHANGED <<link, btOnMode, island, stackQ>>
         \/ /\ chnlState[c] = "remote" /\ MockOff
            /\ link' = IF link[c] \in {"remote_closed", "connected"}
                       THEN [link EXCEPT ![c] = "closing"] ELSE link
         \/ /\ chnlState[c] = "local" /\ UNCHANGED <<btOnMode, island, stackQ>>
            /\ link' = IF link[c] = "closed" THEN [link EXCEPT ![c] = "opened"] ELSE link
  BY DEF HandleChannelState
<1> HIDE DEF c
<1>4. ChannelsAgree'
  BY <1>2, <1>3 DEF BtInv, TypeOK, ChannelsAgree
<1>5. ChannelsUp'
  BY <1>2, <1>3 DEF BtInv, TypeOK, ChannelsAgree, ChannelsUp, halVars
<1>6. link' \in [Channel -> {"opened", "connected", "remote_closed", "closing", "closed"}]
  BY <1>2, <1>3 DEF BtInv, TypeOK
<1>7. CASE UNCHANGED <<btOnMode, island, stackQ>>
  <2>1. stackQ' \in Seq(StackMsg) /\ InBoot(stackQ)' /\ KindsIn(stackQ)' = KindsIn(stackQ)
    BY <1>7 DEF BtInv, TypeOK
  <2>2. TypeOK'
    BY <1>1, <1>3, <1>6, <1>7, <2>1 DEF BtInv, TypeOK, halVars
  <2>3. /\ Phases' /\ Gone' /\ Booting' /\ AfterBoot' /\ ModeKept' /\ NoStop' /\ Controller'
    BY <1>1, <1>3, <1>7, <2>1 DEF BtInv, Phases, Gone, Booting, AfterBoot, Told, Active,
       Exists, ModeKept, NoStop, Undisturbed, Controller, halVars
  <2> QED BY <1>1, <1>4, <1>5, <2>1, <2>2, <2>3 DEF BtInv
<1>8. CASE chnlState[c] = "remote" /\ btOnMode \in OnMode /\ MockOff
  <2>1. /\ PrepareStopReq("user")
        /\ btOnMode' = IF btOnMode = PASSTHROUGH THEN PASSTHROUGH_SSR ELSE OFFLD_SSR
    BY <1>8 DEF MockOff
  <2>2. /\ stackQ' \in Seq(StackMsg) /\ InBoot(stackQ)'
        /\ KindsIn(stackQ)' = KindsIn(stackQ) \cup {"prepare_stop"}
    <3> DEFINE r == "user"
    <3>1. r \in {"user", "ssr"} /\ r # "ssr" /\ PrepareStopReq(r)
      BY <2>1
    <3> HIDE DEF r
    <3> QED BY <3>1, StopRequested
  <2>3. inst = "up" /\ island' = "restrict"
    BY <1>1, <2>1 DEF BtInv, Phases, PrepareStopReq, Exists
  <2>4. hal \notin {"on", "enabling"} /\ glink # "hci"
    BY <1>2, <1>8 DEF BtInv, ChannelsAgree, ChannelsUp
  <2>5. btOnMode' \in Mode /\ (btOnMode = OFFLD => btOnMode' = OFFLD_SSR)
        /\ btOnMode # OFFLD_SSR
    BY <1>8, <2>1 DEF Mode, OnMode, OFFLD, PASSTHROUGH, OFFLD_SSR, PASSTHROUGH_SSR
  <2>6. TypeOK'
    BY <1>1, <1>3, <1>6, <2>2, <2>3, <2>5 DEF BtInv, TypeOK, halVars
  <2>7. /\ Phases' /\ Gone' /\ Booting' /\ AfterBoot' /\ NoStop' /\ Controller'
    BY <1>1, <1>3, <2>2, <2>3, <2>4 DEF BtInv, Phases, Gone, Booting, AfterBoot, Told, Active,
       Exists, NoStop, Undisturbed, Controller, halVars
  <2>8. ModeKept'
    BY <1>1, <1>3, <2>5 DEF BtInv, ModeKept
  <2> QED BY <1>1, <1>4, <1>5, <2>2, <2>6, <2>7, <2>8 DEF BtInv
<1> QED BY <1>3, <1>7, <1>8 DEF MockOff

\* The BMM is asked for its events: it is still booting.
LEMMA SetEventMaskStep ==
  ASSUME BtInv, SetEventMask
  PROVE  BtInv'
<1>1. /\ stackQ' \in Seq(StackMsg) /\ InBoot(stackQ)' /\ "mask" \notin KindsIn(stackQ)'
      /\ KindsIn(stackQ) = KindsIn(stackQ)' \cup {"mask"}
      /\ Listening /\ ~bmm.telling
  <2>1. Head(stackQ).op = "mask" /\ Kind(Head(stackQ)) = "mask"
    BY DEF SetEventMask, StackReceive, Kind
  <2> QED BY <2>1, Taken DEF SetEventMask, StackReceive, BtInv, TypeOK
<1>2. bmm.state = "booting" /\ inst = "up"
  BY <1>1 DEF BtInv, Booting
<1>3. /\ bmm' = [bmm EXCEPT !.subscribed = TRUE]
      /\ UNCHANGED <<config, halVars, glinkVars, pipe, thread, btOnMode, live, registered, uapp,
                     island, inst, timers, retryCount, ctrl, arbiter, clients>>
  BY <1>2 DEF SetEventMask
<1>4. /\ bmm' \in BmmState /\ bmm'.subscribed = TRUE
      /\ bmm'.state = bmm.state /\ bmm'.telling = bmm.telling /\ bmm'.asked = bmm.asked
  BY <1>3 DEF BtInv, TypeOK, BmmState
<1>5. /\ pipe' \in Seq(PipeMsg) /\ KindsIn(pipe)' = KindsIn(pipe) /\ InPhase(pipe)'
  BY <1>3 DEF BtInv, TypeOK
<1>6. TypeOK'
  BY <1>1, <1>3, <1>4, <1>5 DEF BtInv, TypeOK, halVars, glinkVars
<1>7. ChannelsAgree' /\ ChannelsUp'
  BY <1>3 DEF BtInv, ChannelsAgree, ChannelsUp, halVars, glinkVars
<1>8. UNCHANGED <<config, hal, glink, thread, btOnMode, live, registered, uapp, island, inst,
                  timers, ctrl, arbiter>>
  BY <1>3 DEF halVars, glinkVars
<1>9. /\ Phases' /\ Gone' /\ Booting' /\ AfterBoot' /\ ModeKept' /\ NoStop' /\ Controller'
  BY <1>1, <1>2, <1>4, <1>5, <1>8 DEF BtInv, Phases, Gone, Booting, AfterBoot, Told, Active,
     Exists, ModeKept, NoStop, Undisturbed, Controller
<1> QED BY <1>1, <1>5, <1>6, <1>7, <1>9 DEF BtInv

\* The BMM hears of the transport: it tells, for it has been asked for its
\* events before.
LEMMA ActivateTransportStep ==
  ASSUME BtInv, ActivateTransportCfm
  PROVE  BtInv'
<1>1. /\ stackQ' \in Seq(StackMsg) /\ InBoot(stackQ)' /\ "mask" \notin KindsIn(stackQ)
      /\ KindsIn(stackQ) = KindsIn(stackQ)' \cup {"activated"}
      /\ "activated" \notin KindsIn(stackQ)'
      /\ Listening /\ ~bmm.telling
  <2>1. Head(stackQ).op = "activated" /\ Kind(Head(stackQ)) = "activated"
    BY DEF ActivateTransportCfm, StackReceive, Kind
  <2> QED BY <2>1, Taken DEF ActivateTransportCfm, StackReceive, BtInv, TypeOK
<1>2. bmm.state = "booting" /\ inst = "up" /\ bmm.subscribed
  BY <1>1 DEF BtInv, Booting, Exists
<1>3. PICK s \in {"ready", "failed"} :
        /\ bmm' = [bmm EXCEPT !.state = s, !.subscribed = TRUE, !.telling = TRUE]
        /\ arbiter' = TRUE /\ clients' = (clients \/ IsOffloadFlag(btOnMode))
  BY <1>2 DEF ActivateTransportCfm, InitializedInd
<1>4. UNCHANGED <<config, halVars, glinkVars, pipe, thread, btOnMode, live, registered, uapp,
                  island, inst, timers, retryCount, ctrl>>
  BY DEF ActivateTransportCfm
<1>5. /\ bmm' \in BmmState /\ bmm'.subscribed = TRUE
      /\ bmm'.state \in {"ready", "failed"} /\ bmm'.telling = TRUE /\ bmm'.asked = bmm.asked
  BY <1>3 DEF BtInv, TypeOK, BmmState
<1>6. /\ pipe' \in Seq(PipeMsg) /\ KindsIn(pipe)' = KindsIn(pipe) /\ InPhase(pipe)'
  BY <1>4 DEF BtInv, TypeOK
<1>7. TypeOK'
  <2>1. clients' \in BOOLEAN
    BY <1>3 DEF BtInv, TypeOK
  <2> QED BY <1>1, <1>3, <1>4, <1>5, <1>6, <2>1 DEF BtInv, TypeOK, halVars, glinkVars
<1>8. ChannelsAgree' /\ ChannelsUp'
  BY <1>4 DEF BtInv, ChannelsAgree, ChannelsUp, halVars, glinkVars
<1>9. UNCHANGED <<config, hal, glink, thread, btOnMode, live, registered, uapp, island, inst,
                  timers, ctrl>> /\ arbiter' = TRUE
  BY <1>3, <1>4 DEF halVars, glinkVars
<1>10. /\ ~Told /\ Exists
       /\ "ssr_stop" \notin KindsIn(stackQ) /\ timers = 0 /\ "done" \notin KindsIn(pipe)
       /\ "open" \notin KindsIn(pipe) /\ "disable" \notin KindsIn(pipe) /\ ~live
       /\ thread # "open" /\ hal \notin {"on", "disabling", "resetting"}
  BY <1>2 DEF BtInv, TypeOK, AfterBoot, Told, Active, Exists
<1>11. /\ Phases' /\ Gone' /\ Booting' /\ AfterBoot' /\ ModeKept' /\ NoStop' /\ Controller'
  BY <1>1, <1>2, <1>5, <1>6, <1>9, <1>10 DEF BtInv, Phases, Gone, Booting, AfterBoot, Told,
     Active, Exists, ModeKept, NoStop, Undisturbed, Controller
<1> QED BY <1>1, <1>6, <1>7, <1>8, <1>11 DEF BtInv

\* The BMM hears that the controller is off: it begins to wait for an empty
\* scheduler.
LEMMA BtOffIndStep ==
  ASSUME BtInv, BtOffInd
  PROVE  BtInv'
<1>1. /\ stackQ' \in Seq(StackMsg) /\ InBoot(stackQ)'
      /\ KindsIn(stackQ) = KindsIn(stackQ)' \cup {"bt_off"}
      /\ Listening /\ ~bmm.telling
  <2>1. Head(stackQ).op = "bt_off" /\ Kind(Head(stackQ)) = "bt_off"
    BY DEF BtOffInd, StackReceive, Kind
  <2> QED BY <2>1, Taken DEF BtOffInd, StackReceive, BtInv, TypeOK
<1>2. /\ timers' = timers + 1 /\ retryCount' = retryCount + 1
      /\ UNCHANGED <<halVars, glinkVars, pipe, thread, mgrVars, inst, bmm, ctrl>>
  BY DEF BtOffInd, StartWaitTimer
<1>3. /\ pipe' \in Seq(PipeMsg) /\ KindsIn(pipe)' = KindsIn(pipe) /\ InPhase(pipe)'
  BY <1>2 DEF BtInv, TypeOK
<1>4. TypeOK'
  BY <1>1, <1>2, <1>3 DEF BtInv, TypeOK, halVars, glinkVars, mgrVars
<1>5. ChannelsAgree' /\ ChannelsUp'
  BY <1>2 DEF BtInv, ChannelsAgree, ChannelsUp, halVars, glinkVars
<1>6. /\ Told /\ inst # "null" /\ inst # "ended"
      /\ hal \notin {"on", "enabling"} /\ glink # "hci"
  BY <1>1 DEF BtInv, AfterBoot, Told, Active, Exists, NoStop, Undisturbed
<1>7. UNCHANGED <<config, hal, glink, thread, btOnMode, live, registered, uapp, island, inst,
                  bmm, ctrl, arbiter>>
  BY <1>2 DEF halVars, glinkVars, mgrVars
<1>8. /\ Phases' /\ Gone' /\ Booting' /\ AfterBoot' /\ ModeKept' /\ NoStop' /\ Controller'
  BY <1>1, <1>3, <1>6, <1>7 DEF BtInv, Phases, Gone, Booting, AfterBoot, Told, Active,
     Exists, ModeKept, NoStop, Undisturbed, Controller
<1> QED BY <1>1, <1>3, <1>4, <1>5, <1>8 DEF BtInv

\* The BMM is asked to prepare the stop: it asks the controller, or waits at
\* once.
LEMMA PrepareStopStep ==
  ASSUME BtInv, PrepareStop
  PROVE  BtInv'
<1>1. PICK k \in {"prepare_stop", "ssr_stop"} :
        /\ stackQ' \in Seq(StackMsg) /\ InBoot(stackQ)'
        /\ KindsIn(stackQ) = KindsIn(stackQ)' \cup {k}
        /\ Listening /\ ~bmm.telling
        /\ k = "prepare_stop" <=> Head(stackQ).reason = "user"
  <2>1. /\ Head(stackQ).op = "prepare_stop" /\ stackQ' = Tail(stackQ) /\ stackQ # <<>>
        /\ Listening /\ ~bmm.telling
    BY DEF PrepareStop, StackReceive
  <2>2. /\ stackQ' \in Seq(StackMsg) /\ InBoot(stackQ)' /\ Head(stackQ) \in StackMsg
        /\ KindsIn(stackQ) = KindsIn(stackQ)' \cup {Kind(Head(stackQ))}
    BY <2>1, Taken DEF BtInv, TypeOK
  <2>3. Head(stackQ).reason \in {"user", "ssr"}
    BY <2>1, <2>2 DEF StackMsg
  <2> QED BY <2>1, <2>2, <2>3 DEF Kind
<1>2. /\ k = "prepare_stop" => bmm' = [bmm EXCEPT !.asked = @ + 1] /\ UNCHANGED <<timers, retryCount>>
      /\ k = "ssr_stop" => timers' = timers + 1 /\ retryCount' = retryCount + 1 /\ UNCHANGED bmm
      /\ UNCHANGED <<halVars, glinkVars, pipe, thread, mgrVars, inst, ctrl>>
  BY <1>1 DEF PrepareStop, StartWaitTimer
<1>3. /\ pipe' \in Seq(PipeMsg) /\ KindsIn(pipe)' = KindsIn(pipe) /\ InPhase(pipe)'
  BY <1>2 DEF BtInv, TypeOK
<1>4. /\ bmm' \in BmmState /\ bmm'.state = bmm.state /\ bmm'.subscribed = bmm.subscribed
      /\ bmm'.telling = bmm.telling
      /\ timers' \in Nat /\ retryCount' \in Nat
      /\ k = "prepare_stop" => timers' = timers
  <2>1. CASE k = "prepare_stop"
    <3>1. bmm.asked + 1 \in Nat
      BY DEF BtInv, TypeOK, BmmState
    <3> DEFINE a == bmm.asked + 1
    <3>2. bmm' = [bmm EXCEPT !.asked = a]
      BY <1>2, <2>1
    <3> HIDE DEF a
    <3>3. /\ bmm' \in BmmState /\ bmm'.state = bmm.state /\ bmm'.subscribed = bmm.subscribed
          /\ bmm'.telling = bmm.telling
      BY <3>1, <3>2 DEF BtInv, TypeOK, BmmState, a
    <3> QED BY <1>2, <2>1, <3>3 DEF BtInv, TypeOK
  <2>2. CASE k = "ssr_stop"
    BY <1>2, <2>2 DEF BtInv, TypeOK
  <2> QED BY <1>1, <2>1, <2>2
<1>5. TypeOK'
  BY <1>1, <1>2, <1>3, <1>4 DEF BtInv, TypeOK, halVars, glinkVars, mgrVars
<1>6. ChannelsAgree' /\ ChannelsUp'
  BY <1>2 DEF BtInv, ChannelsAgree, ChannelsUp, halVars, glinkVars
<1>7. /\ Exists /\ (k = "ssr_stop" => Told)
      /\ hal \notin {"on", "enabling"} /\ glink # "hci"
  BY <1>1 DEF BtInv, AfterBoot, Exists, Listening, NoStop, Undisturbed
<1>8. UNCHANGED <<config, hal, glink, thread, btOnMode, live, registered, uapp, island, inst,
                  ctrl, arbiter>>
  BY <1>2 DEF halVars, glinkVars, mgrVars
<1>9. /\ Phases' /\ Gone' /\ Booting' /\ AfterBoot' /\ ModeKept' /\ NoStop' /\ Controller'
  BY <1>1, <1>3, <1>4, <1>7, <1>8 DEF BtInv, Phases, Gone, Booting, AfterBoot, Told, Active,
     Exists, ModeKept, NoStop, Undisturbed, Controller
<1> QED BY <1>1, <1>3, <1>5, <1>6, <1>9 DEF BtInv

\* The BMM hears of the crash of the controller.
LEMMA BtssErrorStep ==
  ASSUME BtInv, BtssError
  PROVE  BtInv'
<1>1. /\ stackQ' \in Seq(StackMsg) /\ InBoot(stackQ)'
      /\ KindsIn(stackQ) = KindsIn(stackQ)' \cup {"crash"}
      /\ Listening /\ ~bmm.telling
  <2>1. Head(stackQ).op = "crash" /\ Kind(Head(stackQ)) = "crash"
    BY DEF BtssError, StackReceive, Kind
  <2> QED BY <2>1, Taken DEF BtssError, StackReceive, BtInv, TypeOK
<1>2. /\ arbiter' \in BOOLEAN /\ (~arbiter => ~arbiter')
      /\ UNCHANGED <<config, halVars, glinkVars, pipe, thread, btOnMode, live, registered,
                     clients, uapp, island, inst, bmm, timers, retryCount, ctrl>>
  BY DEF BtssError, BtInv, TypeOK
<1>3. /\ pipe' \in Seq(PipeMsg) /\ KindsIn(pipe)' = KindsIn(pipe) /\ InPhase(pipe)'
  BY <1>2 DEF BtInv, TypeOK
<1>4. TypeOK'
  BY <1>1, <1>2, <1>3 DEF BtInv, TypeOK, halVars, glinkVars
<1>5. ChannelsAgree' /\ ChannelsUp'
  BY <1>2 DEF BtInv, ChannelsAgree, ChannelsUp, halVars, glinkVars
<1>6. ctrl = "dead" /\ Exists
  BY <1>1 DEF BtInv, Controller, Exists, Listening
<1>7. UNCHANGED <<config, hal, glink, thread, btOnMode, live, registered, uapp, island, inst,
                  bmm, timers, ctrl>>
  BY <1>2 DEF halVars, glinkVars
<1>8. /\ Phases' /\ Gone' /\ Booting' /\ AfterBoot' /\ ModeKept' /\ NoStop' /\ Controller'
  BY <1>1, <1>2, <1>3, <1>6, <1>7 DEF BtInv, Phases, Gone, Booting, AfterBoot, Told, Active,
     Exists, ModeKept, NoStop, Undisturbed, Controller
<1> QED BY <1>1, <1>3, <1>4, <1>5, <1>8 DEF BtInv

\* The wait for an empty scheduler ends, or goes on.
LEMMA WaitTimerStep ==
  ASSUME BtInv, NEW queueEmpty \in BOOLEAN, WaitTimerFire(queueEmpty)
  PROVE  BtInv'
<1>1. Listening /\ ~bmm.telling /\ timers > 0
  BY DEF WaitTimerFire
<1>2. /\ Told /\ Exists /\ inst # "null" /\ inst # "ended"
      /\ hal \notin {"on", "enabling"} /\ glink # "hci"
      /\ "enable" \notin KindsIn(pipe)
  BY <1>1 DEF BtInv, Phases, AfterBoot, Exists, Listening, NoStop, Undisturbed
<1>3. stackQ' \in Seq(StackMsg) /\ InBoot(stackQ)' /\ KindsIn(stackQ)' = KindsIn(stackQ)
  BY DEF WaitTimerFire, BtInv, TypeOK
<1>4. /\ UNCHANGED <<config, halVars, glinkVars, thread, btOnMode, live, registered,
                     clients, uapp, island, inst, stackQ, bmm, ctrl>>
      /\ timers' \in Nat /\ retryCount' \in Nat
  <2>1. retryCount + 1 \in Nat /\ timers - 1 \in Nat
    BY <1>1 DEF BtInv, TypeOK
  <2> QED BY <2>1 DEF WaitTimerFire, BtInv, TypeOK
<1>5. UNCHANGED <<config, hal, glink, thread, btOnMode, live, registered, uapp, island, inst,
                  bmm, ctrl>>
  BY <1>4 DEF halVars, glinkVars
<1>6. ChannelsAgree' /\ ChannelsUp'
  BY <1>4 DEF BtInv, ChannelsAgree, ChannelsUp, halVars, glinkVars
<1>7. CASE arbiter' = FALSE /\ Post([op |-> "done"])
  <2> DEFINE m == [op |-> "done"]
  <2>1. m \in PipeMsg /\ m.op = "done" /\ Post(m)
    BY <1>7 DEF PipeMsg
  <2> HIDE DEF m
  <2>2. pipe' \in Seq(PipeMsg) /\ InPhase(pipe)' /\ KindsIn(pipe)' = KindsIn(pipe) \cup {"done"}
    BY <1>2, <2>1, Posted DEF BtInv, TypeOK
  <2>3. TypeOK'
    <3>1. arbiter' \in BOOLEAN
      BY <1>7
    <3> QED BY ONLY BtInv, <1>3, <1>4, <2>2, <3>1 DEF BtInv, TypeOK, halVars, glinkVars
  <2>4. /\ Phases' /\ Gone' /\ Booting' /\ AfterBoot' /\ ModeKept' /\ NoStop' /\ Controller'
    BY <1>2, <1>3, <1>5, <1>7, <2>2 DEF BtInv, Phases, Gone, Booting, AfterBoot, Told, Active,
       Exists, ModeKept, NoStop, Undisturbed, Controller
  <2> QED BY <1>3, <1>6, <2>2, <2>3, <2>4 DEF BtInv
<1>8. CASE UNCHANGED <<timers, arbiter, pipe>>
  <2>1. pipe' \in Seq(PipeMsg) /\ InPhase(pipe)' /\ KindsIn(pipe)' = KindsIn(pipe)
    BY <1>8 DEF BtInv, TypeOK
  <2>2. TypeOK'
    BY <1>3, <1>4, <1>8, <2>1 DEF BtInv, TypeOK, halVars, glinkVars
  <2>3. /\ Phases' /\ Gone' /\ Booting' /\ AfterBoot' /\ ModeKept' /\ NoStop' /\ Controller'
    BY <1>2, <1>3, <1>5, <1>8, <2>1 DEF BtInv, Phases, Gone, Booting, AfterBoot, Told, Active,
       Exists, ModeKept, NoStop, Undisturbed, Controller
  <2> QED BY <1>3, <1>6, <2>1, <2>2, <2>3 DEF BtInv
<1> QED BY <1>7, <1>8 DEF WaitTimerFire

\* The microstack takes itself down: it was told of its events, so the
\* callback cleans up, and whatever is live is there in an offload mode.
LEMMA StackDeinitStep ==
  ASSUME BtInv, StackDeinit
  PROVE  BtInv'
<1>1. inst = "deinit" /\ bmm.subscribed /\ ~arbiter
  <2>1. inst = "deinit" /\ Exists /\ "mask" \notin KindsIn(stackQ)
    BY DEF StackDeinit, BtInv, Booting, Exists
  <2> QED BY <2>1 DEF BtInv, Booting, AfterBoot
<1>2. CleanUp
  BY <1>1 DEF StackDeinit
<1>3. /\ inst' = "ended" /\ stackQ' = <<>> /\ timers' = 0
      /\ bmm' = [state |-> "none", subscribed |-> FALSE, telling |-> FALSE, asked |-> 0]
      /\ UNCHANGED <<config, halVars, glinkVars, pipe, thread, arbiter, retryCount, ctrl>>
  BY DEF StackDeinit
<1>4. stackQ' \in Seq(StackMsg) /\ InBoot(stackQ)' /\ KindsIn(stackQ)' = {}
  <2>1. KindsIn(stackQ)' = {}
    BY <1>3, KindsOfNothing
  <2>2. stackQ' \in Seq(StackMsg) /\ DOMAIN stackQ' = {}
    BY <1>3
  <2> QED BY <2>1, <2>2 DEF InBoot
<1>5. /\ bmm' \in BmmState /\ bmm'.state = "none" /\ bmm'.telling = FALSE /\ bmm'.asked = 0
  BY <1>3 DEF BmmState
<1>6. pipe' \in Seq(PipeMsg) /\ InPhase(pipe)' /\ KindsIn(pipe)' = KindsIn(pipe)
  BY <1>3 DEF BtInv, TypeOK
<1>7. /\ ~live' /\ ~registered' /\ btOnMode' = DEFAULT /\ island' = "allow" /\ uapp' = "off"
      /\ live' = FALSE /\ registered' = FALSE
  BY <1>2 DEF CleanUp, BtInv, TypeOK, ModeKept
<1>8. clients' \in BOOLEAN /\ DEFAULT \in Mode
  BY <1>2 DEF CleanUp, BtInv, TypeOK, Mode
<1>9. TypeOK'
  BY ZenonT(60), <1>3, <1>4, <1>5, <1>6, <1>7, <1>8 DEF BtInv, TypeOK, halVars, glinkVars
<1>10. ChannelsAgree' /\ ChannelsUp'
  BY <1>3 DEF BtInv, ChannelsAgree, ChannelsUp, halVars, glinkVars
<1>11. UNCHANGED <<config, hal, glink, thread, ctrl, arbiter>> /\ thread = "stopping"
  BY <1>1, <1>3 DEF halVars, glinkVars, BtInv, Phases
<1>12. "open" \notin KindsIn(pipe) /\ "disable" \notin KindsIn(pipe) /\ "enable" \notin KindsIn(pipe)
       /\ hal # "on" /\ hal # "enabling" /\ glink # "hci"
  BY <1>1 DEF BtInv, Phases, NoStop
<1>13. /\ Phases' /\ Gone' /\ Booting' /\ AfterBoot' /\ ModeKept' /\ NoStop' /\ Controller'
  BY <1>1, <1>3, <1>4, <1>5, <1>6, <1>7, <1>11, <1>12 DEF BtInv, Phases, Gone, Booting,
     AfterBoot, Told, Active, Exists, ModeKept, NoStop, Undisturbed, Controller
<1> QED BY <1>4, <1>6, <1>9, <1>10, <1>13 DEF BtInv

-----------------------------------------------------------------------------
(* The theorems.                                                           *)

\* At first nothing is there.
LEMMA BtInvInit == Init => BtInv
<1> SUFFICES ASSUME Init
             PROVE  BtInv
  OBVIOUS
<1>1. /\ pipe \in Seq(PipeMsg) /\ stackQ \in Seq(StackMsg)
      /\ DOMAIN pipe = {} /\ DOMAIN stackQ = {}
      /\ KindsIn(pipe) = {} /\ KindsIn(stackQ) = {}
  BY KindsOfNothing DEF Init
<1>2. InPhase(pipe) /\ InBoot(stackQ)
  BY <1>1 DEF InPhase, InBoot
<1>3. TypeOK
  <2>1. bmm \in BmmState
    BY DEF Init, BmmState
  <2> QED BY <1>1, <2>1 DEF Init, TypeOK, Mode
<1>4. ChannelsAgree /\ ChannelsUp
  BY DEF Init, ChannelsAgree, ChannelsUp
<1>5. Phases /\ Gone /\ Booting /\ AfterBoot /\ ModeKept /\ NoStop /\ Controller
  BY <1>1 DEF Init, Phases, Gone, Booting, AfterBoot, Exists, ModeKept, NoStop, Controller
<1> QED BY <1>1, <1>2, <1>3, <1>4, <1>5 DEF BtInv

\* A step that changes nothing keeps it.
LEMMA BtInvStutter == ASSUME BtInv, UNCHANGED vars PROVE BtInv'
<1>1. /\ UNCHANGED <<hal, count, link, chnlState, glink, pipe, thread, config, btOnMode, live,
                     registered, arbiter, clients, uapp, island, inst, stackQ, bmm, timers,
                     retryCount, ctrl>>
  BY DEF vars, halVars, glinkVars, mgrVars, stackVars
<1>2. TypeOK' /\ ChannelsAgree' /\ ChannelsUp' /\ InPhase(pipe)' /\ InBoot(stackQ)'
  BY <1>1 DEF BtInv, TypeOK, ChannelsAgree, ChannelsUp
<1>3. Phases' /\ Gone' /\ Booting' /\ AfterBoot' /\ ModeKept' /\ NoStop' /\ Controller'
  BY <1>1 DEF BtInv, Phases, Gone, Booting, AfterBoot, Told, Active, Exists, ModeKept, NoStop,
     Undisturbed, Controller
<1> QED BY <1>2, <1>3 DEF BtInv

\* Every step keeps it.
LEMMA BtInvNext == BtInv /\ [Next]_vars => BtInv'
<1> SUFFICES ASSUME BtInv, [Next]_vars
             PROVE  BtInv'
  OBVIOUS
<1>1. CASE OffloadThread
  BY <1>1, SocketBeginStep, SocketEndStep, BtOnStartStep, BtOnSetModeStep, BtOffStep,
     RefuseStep, HandleChannelStep, StopBeginStep, StopEndStep DEF OffloadThread
<1>2. CASE StackThread
  BY <1>2, SetEventMaskStep, ActivateTransportStep, TellEnabledStep, PrepareStopStep,
     BtOffIndStep, BtssErrorStep, WaitTimerStep, TellDisabledStep, StackDeinitStep
     DEF StackThread
<1>3. CASE GlinkThread
  BY <1>3, ChannelStep, HciPacketTestStep, HciPacketCallStep, SocketMessageStep
     DEF GlinkThread
<1>4. CASE Hal
  BY <1>4, HalUpStep, HalExitsStep, HalCrashesStep, HalGoneStep, HalEnablesStep,
     HalDisablesStep, HalAsksOtherStep DEF Hal
<1>5. CASE ControllerCrashes \/ ControllerAnswers \/ TransportActivated
  BY <1>5, ControllerCrashesStep, ControllerAnswersStep, TransportActivatedStep
<1>6. CASE UNCHANGED vars
  BY <1>6, BtInvStutter
<1> QED BY <1>1, <1>2, <1>3, <1>4, <1>5, <1>6 DEF Next

\* The inductive invariant of the state manager.
LEMMA BtInvHolds == Spec => []BtInv
BY BtInvInit, BtInvNext, PTL DEF Spec

\* The variables stay within their types.
THEOREM BtStateTyped == Spec => []TypeOK
<1>1. BtInv => TypeOK
  BY DEF BtInv
<1> QED BY <1>1, BtInvHolds, PTL

\* Whoever is about to put a message into the scheduler's instance, which
\* nobody tests, finds a microstack.
THEOREM SendersFindAStack == Spec => []PostsFindAStack
<1>1. BtInv => PostsFindAStack
  <2> SUFFICES ASSUME BtInv
               PROVE  PostsFindAStack
    OBVIOUS
  <2>1. glink = "hci" => Exists
    BY DEF BtInv, NoStop, Exists
  <2>2. ASSUME thread = "idle", pipe # <<>>
        PROVE  LET msg == Head(pipe) IN
               msg.op = "disable" \/ (msg.op = "channel" /\ chnlState[msg.chan] = "remote"
                                      /\ btOnMode \in OnMode)
                 => Exists
    <3>1. Kind(Head(pipe)) \in KindsIn(pipe) /\ Head(pipe) \in PipeMsg
      BY <2>2, KindsTail DEF BtInv, TypeOK
    <3>2. ASSUME Head(pipe).op = "disable" PROVE Exists
      BY <3>1, <3>2 DEF BtInv, Phases, Exists, Kind
    <3>3. ASSUME btOnMode \in OnMode PROVE Exists
      BY <2>2, <3>3 DEF BtInv, TypeOK, Gone, Phases, Exists, OnMode, OFFLD, PASSTHROUGH, DEFAULT
    <3> QED BY <3>2, <3>3
  <2> QED BY <2>1, <2>2 DEF PostsFindAStack
<1> QED BY <1>1, BtInvHolds, PTL

\* A HAL that was told that Bluetooth is on has a running microstack, and a
\* way for its packets unless the controller died.
THEOREM OnIsKept == Spec => []OnIsReal
<1>1. BtInv => OnIsReal
  BY DEF BtInv, Phases, Controller, OnIsReal
<1> QED BY <1>1, BtInvHolds, PTL

\* A stopped microstack leaves no pointer, instance, callback, mode or vote
\* behind, and the watch was told.
THEOREM StopIsClean == Spec => []NothingLeftOver
<1>1. BtInv => NothingLeftOver
  BY DEF BtInv, Gone, AfterBoot, NothingLeftOver
<1> QED BY <1>1, BtInvHolds, PTL

\* Live instances are wiped only while the thread that owns the tables waits
\* for the microstack to end.
THEOREM WipedWhileOwnerWaits == Spec => WipedOnlyInStop
<1>1. BtInv /\ [Next]_vars => [live /\ ~live' => thread = "stopping"]_vars
  <2> SUFFICES ASSUME BtInv, Next, live, ~live'
               PROVE  thread = "stopping"
    BY DEF vars, mgrVars
  <2>1. CASE TellEnabled
    BY <2>1 DEF TellEnabled, BtInv, AfterBoot, Told
  <2>2. CASE StackDeinit
    BY <2>2 DEF StackDeinit, BtInv, Phases
  <2>3. ~OffloadThread
    <3>1. ~SocketBegin /\ ~SocketEnd /\ ~BtOnStart /\ ~BtOnSetMode
      BY DEF SocketBegin, SocketEnd, BtOnStart, BtOnSetMode, mgrVars
    <3>3. ~BtOnRefuse /\ ~BtOffRefuse
      BY DEF BtOnRefuse, BtOffRefuse, mgrVars
    <3>2. ~BtOff /\ ~HandleChannelState /\ ~StopBegin /\ ~StopEnd
      BY DEF BtOff, HandleChannelState, StopBegin, StopEnd, mgrVars
    <3> QED BY <3>1, <3>2, <3>3 DEF OffloadThread
  <2>4. ~GlinkThread
    BY DEF GlinkThread, ChannelConnected, ChannelRemoteDisconnected,
       ChannelLocalDisconnected, HciPacketTest, HciPacketCall, SocketMessage, mgrVars
  <2>5. ~Hal
    BY DEF Hal, HalUp, HalExits, HalCrashes, HalGone, HalEnables, HalDisables, HalAsksOther,
       mgrVars
  <2>6. ~(ControllerCrashes \/ ControllerAnswers \/ TransportActivated)
    BY DEF ControllerCrashes, ControllerAnswers, TransportActivated, mgrVars
  <2>7. StackThread => TellEnabled \/ StackDeinit
    BY DEF StackThread, SetEventMask, ActivateTransportCfm, PrepareStop, BtOffInd, BtssError,
       WaitTimerFire, TellDisabled, mgrVars
  <2> QED BY <2>1, <2>2, <2>3, <2>4, <2>5, <2>6, <2>7 DEF Next
<1> QED BY <1>1, BtInvHolds, PTL DEF Spec, WipedOnlyInStop
=============================================================================
