------------------------ MODULE LecocReceiveProofs -------------------------
(***************************************************************************)
(* What holds of an offloaded LE CoC channel for every value of the        *)
(* constants.                                                              *)
(*                                                                         *)
(* Its credits are conserved and a peer that keeps to them is never        *)
(* accused: a frame on its way is counted among the credits L2CAP thinks   *)
(* the peer has, so none can find that count at zero.                      *)
(*                                                                         *)
(* The BMM's own credits are conserved too, and with them the SDUs keep    *)
(* their order: an SDU may overtake what waits only if a credit is left    *)
(* while something waits, and then nothing does.                           *)
(***************************************************************************)
EXTENDS LecocReceive, SequenceTheorems, DataLemmas, TLAPS

-----------------------------------------------------------------------------
(* Sequences of messages.                                                  *)

\* What taking the first element leaves of a sequence.
LEMMA TailTyped ==
  ASSUME NEW S, NEW q \in Seq(S), q # <<>>
  PROVE  /\ Head(q) \in S
         /\ Tail(q) \in Seq(S)
         /\ Len(Tail(q)) = Len(q) - 1
         /\ Len(q) \in Nat \ {0}
         /\ \A k \in DOMAIN Tail(q) : Tail(q)[k] = q[k + 1] /\ k + 1 \in DOMAIN q
OBVIOUS

\* What adding an element does to a sequence.
LEMMA AppendTyped ==
  ASSUME NEW S, NEW q \in Seq(S), NEW e \in S
  PROVE  /\ Append(q, e) \in Seq(S)
         /\ Len(Append(q, e)) = Len(q) + 1
         /\ \A k \in DOMAIN Append(q, e) :
              Append(q, e)[k] = e \/ (k \in DOMAIN q /\ Append(q, e)[k] = q[k])
OBVIOUS

\* Min of the three limits on a grant is one of them and below all.
LEMMA Minimum ==
  ASSUME NEW a \in Nat, NEW b \in Nat, NEW c \in Nat
  PROVE  /\ Min({a, b, c}) \in Nat
         /\ Min({a, b, c}) <= a /\ Min({a, b, c}) <= b /\ Min({a, b, c}) <= c
<1>1. \E x \in {a, b, c} : \A y \in {a, b, c} : x <= y
  <2>1. CASE a <= b /\ a <= c
    BY <2>1
  <2>2. CASE b <= a /\ b <= c
    BY <2>2
  <2>3. CASE c <= a /\ c <= b
    BY <2>3
  <2>4. QED
    BY <2>1, <2>2, <2>3
<1>2. Min({a, b, c}) \in {a, b, c} /\ \A y \in {a, b, c} : Min({a, b, c}) <= y
  BY <1>1 DEF Min
<1>3. QED
  BY <1>2

-----------------------------------------------------------------------------
(* L2CAP's two counts.                                                     *)

Flow == [rx : Nat, app : Nat, tot : Nat, packets : Nat]

\* Credits added to a channel raise all three counts alike.
Raised(f, m) == [f EXCEPT !.rx = @ + m, !.app = @ + m, !.tot = @ + m]

\* Raising both counts of credits keeps their types.
LEMMA FlowRaised ==
  ASSUME NEW f \in Flow, NEW m \in Nat
  PROVE  /\ Raised(f, m) \in Flow
         /\ Raised(f, m).rx = f.rx + m
         /\ Raised(f, m).app = f.app + m
         /\ Raised(f, m).tot = f.tot + m
<1> DEFINE r == f.rx + m
           a == f.app + m
           t == f.tot + m
           g == [f EXCEPT !.rx = r, !.app = a, !.tot = t]
<1>1. r \in Nat /\ a \in Nat /\ t \in Nat
  BY DEF Flow, Within
<1>2. Raised(f, m) = g
  BY DEF Raised
<1> HIDE DEF r, a, t
<1>3. g \in Flow /\ g.rx = r /\ g.app = a /\ g.tot = t
  BY <1>1 DEF Flow, Within
<1> HIDE DEF g
<1>4. QED
  BY <1>2, <1>3 DEF r, a, t

\* A grant never takes credits away, and the count of L2CAP grows by as much
\* as is sent to the peer.
LEMMA GrantMatchesCount ==
  ASSUME NEW f \in Flow, Within(f), grant \in Nat, AttemptToSendCredits(f)
  PROVE  /\ flow' \in Flow /\ Within(flow')
         /\ grant' \in Nat
         /\ flow'.rx - f.rx = grant' - grant
         /\ flow'.packets = f.packets
<1>. f.rx \in Nat /\ f.app \in Nat
  BY DEF Flow, Within
<1>1. CASE RunsLow(f)
  <2>1. Grantable(f) = f.app - f.rx /\ f.rx < f.app
    BY <1>1, Zenon DEF RunsLow, Grantable
  <2>2. flow' = [f EXCEPT !.rx = f.rx + Grantable(f)] /\ grant' = grant + Grantable(f)
    BY <1>1 DEF AttemptToSendCredits, Replenished
  <2>3. QED
    BY <2>1, <2>2 DEF Flow, Within
<1>2. CASE ~RunsLow(f)
  BY <1>2 DEF AttemptToSendCredits
<1>3. QED
  BY <1>1, <1>2

-----------------------------------------------------------------------------
(* Type correctness.                                                       *)

SockType ==
  [state : {"CONNECTED", "IN_ERROR", "CLOSED"}, rxAppCredits : Nat,
   rxQueueCount : Nat, rxQueue : Seq(ReadInd), creditInitialised : BOOLEAN]

PeerType ==
  [credits : Nat, sdu : Nat, idx : Nat \ {0}, size : Nat \ {0}, honest : BOOLEAN]

\* BmmLecocRestoreRxQueue takes no more than there is, of SDUs or of credits.
LEMMA PoppedBounded ==
  ASSUME NEW s \in SockType
  PROVE  /\ Popped(s) \in 0 .. Len(s.rxQueue)
         /\ s.state = "CONNECTED" =>
              Popped(s) <= s.rxAppCredits /\ Popped(s) <= s.rxQueueCount
<1>. /\ s.rxQueue \in Seq(ReadInd) /\ Len(s.rxQueue) \in Nat
     /\ s.rxAppCredits \in Nat /\ s.rxQueueCount \in Nat
  BY DEF SockType
<1>1. CASE s.state = "CONNECTED"
  <2>1. Popped(s) = Min({s.rxAppCredits, s.rxQueueCount, Len(s.rxQueue)})
    BY <1>1, Zenon DEF Popped
  <2> DEFINE a == s.rxAppCredits
             b == s.rxQueueCount
             c == Len(s.rxQueue)
             m == Min({a, b, c})
  <2>2. m \in Nat /\ m <= a /\ m <= b /\ m <= c
    BY Minimum
  <2> HIDE DEF m
  <2>3. Popped(s) = m
    BY <2>1 DEF m
  <2>4. QED
    BY <2>2, <2>3
<1>2. CASE s.state # "CONNECTED"
  BY <1>2 DEF Popped
<1>3. QED
  BY <1>1, <1>2

\* Serving the receive queue of a socket keeps the types of what it touches.
LEMMA RestoreTyped ==
  ASSUME NEW s \in SockType, appQ \in Seq(Sdu), l2capQ \in Seq(L2capMsg),
         RestoreRxQueue(s)
  PROVE  /\ sock' \in SockType /\ sock'.state = s.state
         /\ appQ' \in Seq(Sdu)
         /\ l2capQ' \in Seq(L2capMsg)
<1> DEFINE k == Popped(s)
           taken == SubSeq(s.rxQueue, 1, k)
           rest == SubSeq(s.rxQueue, k + 1, Len(s.rxQueue))
<1>1. /\ k \in 0 .. Len(s.rxQueue) /\ Len(s.rxQueue) \in Nat
      /\ s.state = "CONNECTED" => s.rxAppCredits - k \in Nat /\ s.rxQueueCount - k \in Nat
      /\ s.rxQueue \in Seq(ReadInd)
  <2>1. /\ s.rxQueue \in Seq(ReadInd) /\ Len(s.rxQueue) \in Nat
        /\ s.rxAppCredits \in Nat /\ s.rxQueueCount \in Nat
    BY DEF SockType
  <2>2. QED
    BY <2>1, PoppedBounded
<1>2. /\ sock' = IF s.state = "CONNECTED"
                 THEN [s EXCEPT !.rxQueue = rest, !.rxAppCredits = s.rxAppCredits - k,
                                !.rxQueueCount = s.rxQueueCount - k]
                 ELSE [s EXCEPT !.rxQueue = rest]
      /\ appQ' = IF s.state = "CONNECTED" THEN appQ \o Sdus(taken) ELSE appQ
      /\ l2capQ' = l2capQ \o [j \in DOMAIN taken |-> ReadRsp(taken[j])]
  BY DEF RestoreRxQueue
<1> HIDE DEF k
<1>3. taken \in Seq(ReadInd) /\ rest \in Seq(ReadInd)
  BY <1>1
<1> HIDE DEF taken, rest
<1>4. \A j \in DOMAIN taken : taken[j] \in ReadInd
  BY <1>3
<1>5. Sdus(taken) \in Seq(Sdu)
  <2>1. \A j \in DOMAIN taken : taken[j].sdu \in Sdu
    BY <1>4 DEF ReadInd
  <2>2. QED
    BY <1>3, <2>1 DEF Sdus
<1>6. [j \in DOMAIN taken |-> ReadRsp(taken[j])] \in Seq(L2capMsg)
  <2>1. \A j \in DOMAIN taken : ReadRsp(taken[j]) \in L2capMsg
    BY <1>4 DEF ReadInd, ReadRsp, L2capMsg
  <2>2. QED
    BY <1>3, <2>1
<1>7. appQ' \in Seq(Sdu)
  BY <1>2, <1>5
<1>8. l2capQ' \in Seq(L2capMsg)
  <2> DEFINE r == [j \in DOMAIN taken |-> ReadRsp(taken[j])]
  <2>1. r \in Seq(L2capMsg) /\ l2capQ' = l2capQ \o r
    BY <1>2, <1>6
  <2> HIDE DEF r
  <2>2. QED
    BY <2>1
<1>9. sock' \in SockType /\ sock'.state = s.state
  BY <1>1, <1>2, <1>3 DEF SockType
<1>10. QED
  BY <1>7, <1>8, <1>9

\* The answers of the BMM make room, up to the buffer; an SDU takes it.
LEMMA RoomBounded ==
  ASSUME flow \in Flow, Within(flow), NEW n \in Nat
  PROVE  /\ AppLeft(n) \in Nat /\ AppLeft(n) <= flow.tot
         /\ Acked(n) \in Flow
         /\ Within(Acked(n)) /\ Acked(n).tot = flow.tot
         /\ Acked(n).rx = flow.rx
<1> DEFINE b == (flow.app + n) % 65536
           a == IF b > flow.tot THEN flow.tot ELSE b
<1>1. /\ flow.app \in Nat /\ flow.tot \in Nat /\ flow.rx \in Nat
      /\ flow.app <= flow.tot /\ flow.rx <= flow.tot
  BY DEF Flow, Within
<1>2. AppLeft(n) \in Nat /\ AppLeft(n) <= flow.tot
  BY <1>1 DEF AppLeft
<1>3. b \in Nat
  BY <1>1
<1> HIDE DEF b
<1>4. a \in Nat /\ a <= flow.tot
  BY <1>1, <1>3
<1>5. Acked(n) = [flow EXCEPT !.app = a]
  BY DEF Acked, b
<1> HIDE DEF a
<1>6. QED
  BY <1>1, <1>2, <1>4, <1>5 DEF Flow, Within

\* A frame takes a credit, and an SDU as much of the room as it has frames.
LEMMA FrameTaken ==
  ASSUME flow \in Flow, Within(flow), flow.rx > 0
  PROVE  LET f == [flow EXCEPT !.packets = flow.packets + 1, !.rx = flow.rx - 1]
         IN  f \in Flow /\ Within(f) /\ f.tot = flow.tot /\ f.rx = flow.rx - 1
<1> DEFINE r == flow.rx - 1
           p == flow.packets + 1
           f == [flow EXCEPT !.packets = p, !.rx = r]
<1>1. r \in Nat /\ p \in Nat /\ r <= flow.tot /\ flow.app <= flow.tot
  BY DEF Flow, Within
<1> HIDE DEF r, p
<1>2. f \in Flow /\ f.rx = r /\ f.app = flow.app /\ f.tot = flow.tot
  BY <1>1 DEF Flow
<1> HIDE DEF f
<1>3. Within(f)
  BY <1>1, <1>2 DEF Within
<1>4. QED
  BY <1>2, <1>3 DEF f, p, r

\* L2CAP's counts after a whole SDU stay within the credits of the channel.
LEMMA SduTaken ==
  ASSUME flow \in Flow, Within(flow), flow.rx > 0, NEW a \in Nat, a <= flow.tot
  PROVE  LET f == [flow EXCEPT !.packets = 0, !.app = a, !.rx = flow.rx - 1]
         IN  f \in Flow /\ Within(f) /\ f.tot = flow.tot /\ f.rx = flow.rx - 1
<1> DEFINE r == flow.rx - 1
           f == [flow EXCEPT !.packets = 0, !.app = a, !.rx = r]
<1>1. r \in Nat /\ r <= flow.tot
  BY DEF Flow, Within
<1> HIDE DEF r
<1>2. f \in Flow /\ f.rx = r /\ f.app = a /\ f.tot = flow.tot
  BY <1>1 DEF Flow
<1> HIDE DEF f
<1>3. Within(f)
  BY <1>1, <1>2 DEF Within
<1>4. QED
  BY <1>2, <1>3 DEF f, r

\* The initial state has its types.
LEMMA InitTyped == Init => TypeOK
<1>. SUFFICES ASSUME Init PROVE TypeOK
  OBVIOUS
<1>0. InitCredits \in Nat /\ InitCredits <= 65535 /\ MaxSdu \in Nat
  BY CreditsAssumption, SduAssumption
<1>1. peer \in PeerType /\ peer.sdu <= MaxSdu /\ SduComplete
  <2>1. peer = [credits |-> InitCredits, sdu |-> 0, idx |-> 1, size |-> 1, honest |-> TRUE]
    BY DEF Init
  <2>2. QED
    BY <1>0, <2>1 DEF PeerType, SduComplete
<1>2. flow \in Flow /\ Within(flow) /\ flow.tot <= 65535
  <2>1. flow = [rx |-> InitCredits, app |-> InitCredits, tot |-> InitCredits, packets |-> 0]
    BY DEF Init
  <2>2. QED
    BY <1>0, <2>1 DEF Flow, Within
<1>3. sock \in SockType
  BY AppCreditAssumption DEF Init, SockType
<1>4. QED
  BY <1>1, <1>2, <1>3 DEF Init, TypeOK, PeerType, Flow, SockType

\* What the peer sends and receives keeps the types.
LEMMA PeerTyped ==
  ASSUME TypeOK, PeerStep
  PROVE  TypeOK'
<1>1. ASSUME NEW p \in PeerType, p.sdu \in Sdu, SendFrame(p)
      PROVE  TypeOK'
  <2>1. [sdu |-> p.sdu, idx |-> p.idx, size |-> p.size] \in Frame
    BY <1>1 DEF PeerType, Frame
  <2>2. air' \in Seq(Frame)
    BY <1>1, <2>1, AppendTyped DEF SendFrame, TypeOK
  <2>3. peer' \in PeerType /\ peer'.sdu <= MaxSdu /\ (peer'.sdu = 0 => SduComplete')
    BY <1>1, SduAssumption DEF SendFrame, Sdu
  <2>4. QED
    BY <1>1, <2>2, <2>3 DEF SendFrame, TypeOK, PeerType
<1>2. ASSUME NEW n \in Sizes, PeerStartsSdu(n) PROVE TypeOK'
  <2> DEFINE c == peer.credits - 1
             d == peer.sdu + 1
             p == [credits |-> c, sdu |-> d, idx |-> 1, size |-> n, honest |-> peer.honest]
  <2>1. c \in Nat /\ d \in Nat /\ d \in Sdu
    <3>1. /\ peer.credits \in Nat /\ peer.credits > 0
          /\ peer.sdu \in Nat /\ peer.sdu < MaxSdu
      BY <1>2 DEF PeerStartsSdu, TypeOK
    <3>2. QED
      BY <3>1, SduAssumption DEF Sdu
  <2>2. SendFrame(p)
    BY <1>2 DEF PeerStartsSdu
  <2> HIDE DEF c, d
  <2>3. p \in PeerType /\ p.sdu \in Sdu
    <3>1. peer \in PeerType /\ n \in Nat \ {0}
      BY SduAssumption DEF TypeOK, PeerType
    <3>2. p \in PeerType /\ p.sdu = d
      BY <2>1, <3>1 DEF PeerType
    <3> HIDE DEF p
    <3>3. QED
      BY <2>1, <3>2
  <2> HIDE DEF p
  <2>4. QED
    BY <1>1, <2>2, <2>3
<1>3. CASE PeerCheats
  <2> DEFINE d == peer.sdu + 1
             p == [credits |-> 0, sdu |-> d, idx |-> 1, size |-> 1, honest |-> FALSE]
  <2>1. d \in Nat /\ d \in Sdu
    <3>1. peer.sdu \in Nat /\ peer.sdu < MaxSdu /\ MaxSdu \in Nat
      BY <1>3, SduAssumption DEF PeerCheats, TypeOK
    <3>2. QED
      BY <3>1 DEF Sdu
  <2>2. SendFrame(p)
    BY <1>3 DEF PeerCheats
  <2> HIDE DEF d
  <2>3. p \in PeerType /\ p.sdu \in Sdu
    <3>1. peer \in PeerType
      BY DEF TypeOK, PeerType
    <3>2. p \in PeerType /\ p.sdu = d
      BY <2>1, <3>1 DEF PeerType
    <3> HIDE DEF p
    <3>3. QED
      BY <2>1, <3>2
  <2> HIDE DEF p
  <2>4. QED
    BY <1>1, <2>2, <2>3
<1>4. CASE PeerContinuesSdu
  <2> DEFINE p == [peer EXCEPT !.credits = peer.credits - 1, !.idx = peer.idx + 1]
  <2>1. p \in PeerType /\ p.sdu \in Sdu
    <3>1. /\ peer \in PeerType /\ peer.credits > 0
          /\ peer.sdu <= MaxSdu /\ peer.sdu # 0
      BY <1>4 DEF PeerContinuesSdu, TypeOK, PeerType
    <3>2. peer.sdu \in Sdu
      BY <3>1, SduAssumption DEF PeerType, Sdu
    <3>3. peer.credits - 1 \in Nat /\ peer.idx + 1 \in Nat \ {0}
      BY <3>1 DEF PeerType
    <3>4. p \in PeerType /\ p.sdu = peer.sdu
      BY <3>1, <3>3 DEF PeerType
    <3> HIDE DEF p
    <3>5. QED
      BY <3>2, <3>4
  <2>2. SendFrame(p)
    BY <1>4 DEF PeerContinuesSdu
  <2> HIDE DEF p
  <2>3. QED
    BY <1>1, <2>1, <2>2
<1>5. CASE PeerGetsCredits
  <2>1. PICK n \in 1 .. grant : peer' = [peer EXCEPT !.credits = @ + n] /\ grant' = grant - n
    BY <1>5 DEF PeerGetsCredits
  <2>2. peer \in PeerType /\ grant \in Nat
    BY DEF TypeOK, PeerType
  <2>3. peer' \in PeerType /\ grant' \in Nat
    BY <2>1, <2>2 DEF PeerType
  <2>4. peer'.sdu = peer.sdu /\ peer'.idx = peer.idx /\ peer'.size = peer.size
    BY <2>1, <2>2 DEF PeerType
  <2>5. peer'.sdu <= MaxSdu /\ (peer'.sdu = 0 => SduComplete')
    BY <2>4 DEF TypeOK, SduComplete
  <2>6. QED
    BY <1>5, <2>3, <2>5 DEF PeerGetsCredits, TypeOK, PeerType
<1>6. QED
  BY <1>2, <1>3, <1>4, <1>5 DEF PeerStep

\* The message at the head of a queue, and the queue without it.
LEMMA HeadsTyped ==
  ASSUME TypeOK
  PROVE  /\ air # <<>> => Head(air) \in Frame /\ Tail(air) \in Seq(Frame)
         /\ bmmQ # <<>> => Head(bmmQ) \in BmmMsg /\ Tail(bmmQ) \in Seq(BmmMsg)
         /\ l2capQ # <<>> => Head(l2capQ) \in L2capMsg /\ Tail(l2capQ) \in Seq(L2capMsg)
         /\ appQ # <<>> => Head(appQ) \in Sdu /\ Tail(appQ) \in Seq(Sdu)
<1>. /\ air \in Seq(Frame) /\ bmmQ \in Seq(BmmMsg)
     /\ l2capQ \in Seq(L2capMsg) /\ appQ \in Seq(Sdu)
  BY DEF TypeOK
<1>. QED
  BY TailTyped

\* The messages of the queues are in their sets.
LEMMA MessagesTyped ==
  /\ \A t \in {"DATA_RSP", "DISCONNECT_IND", "SET_PARAMS_REQ", "CLOSE_REQ"} :
       [type |-> t] \in BmmMsg
  /\ DisconnectInd \in BmmMsg
  /\ \A m \in BmmMsg : m.type = "READ_IND" => m \in ReadInd /\ ReadRsp(m) \in L2capMsg
  /\ \A m \in L2capMsg : m.type = "READ_RSP" => m.packets \in Nat
  /\ [type |-> "ADD_CREDIT_REQ"] \in L2capMsg
BY DEF BmmMsg, DisconnectInd, ReadInd, ReadRsp, L2capMsg

\* L2CAP's handling of a frame keeps the types.
LEMMA FrameTyped ==
  ASSUME TypeOK, L2capFrame \/ RejectFrame
  PROVE  TypeOK'
<1>1. flow \in Flow /\ Within(flow) /\ grant \in Nat /\ bmmQ \in Seq(BmmMsg)
  BY DEF TypeOK, Flow, Within
<1>2. ASSUME ReceiveFrame, flow' \in Flow, Within(flow'), flow'.tot <= 65535,
             grant' \in Nat, bmmQ' \in Seq(BmmMsg)
      PROVE  TypeOK'
  <2>1. air' \in Seq(Frame)
    BY <1>2, HeadsTyped DEF ReceiveFrame
  <2>2. QED
    BY <1>2, <2>1 DEF ReceiveFrame, TypeOK, Flow, SduComplete
<1>3. ASSUME NEW f \in Flow, Within(f), f.tot = flow.tot, AttemptToSendCredits(f)
      PROVE  flow' \in Flow /\ Within(flow') /\ flow'.tot <= 65535 /\ grant' \in Nat
  <2>1. flow'.tot = f.tot
    BY <1>3 DEF AttemptToSendCredits, Replenished, Flow
  <2>2. QED
    BY <1>1, <1>3, <2>1, GrantMatchesCount DEF TypeOK
<1>4. CASE ReceivePart
  <2> DEFINE f == [flow EXCEPT !.packets = flow.packets + 1, !.rx = flow.rx - 1]
  <2>1. f \in Flow /\ Within(f) /\ f.tot = flow.tot
    <3>1. flow.rx > 0
      BY <1>4 DEF ReceivePart
    <3>2. QED
      BY <1>1, <3>1, FrameTaken
  <2>2. AttemptToSendCredits(f) /\ ReceiveFrame /\ bmmQ' = bmmQ
    BY <1>4 DEF ReceivePart
  <2> HIDE DEF f
  <2>3. QED
    BY <1>1, <1>2, <1>3, <2>1, <2>2
<1>5. CASE ReceiveSdu
  <2> DEFINE p == flow.packets + 1
             f == [flow EXCEPT !.packets = 0, !.app = AppLeft(p), !.rx = flow.rx - 1]
             m == [type |-> "READ_IND", sdu |-> Head(air).sdu, packets |-> p]
  <2>1. p \in Nat \ {0}
    BY <1>1 DEF Flow, Within
  <2>2. AttemptToSendCredits(f) /\ ReceiveFrame /\ bmmQ' = Append(bmmQ, m)
    BY <1>5 DEF ReceiveSdu
  <2>3. m \in BmmMsg
    <3>1. Head(air).sdu \in Sdu
      BY <1>5, HeadsTyped DEF ReceiveSdu, ReceiveFrame, Frame
    <3>2. QED
      BY <2>1, <3>1 DEF BmmMsg, ReadInd
  <2> HIDE DEF p
  <2>4. f \in Flow /\ Within(f) /\ f.tot = flow.tot
    <3>1. AppLeft(p) \in Nat /\ AppLeft(p) <= flow.tot
      BY <1>1, <2>1, RoomBounded
    <3>2. flow.rx > 0
      BY <1>5 DEF ReceiveSdu
    <3>3. QED
      BY <1>1, <3>1, <3>2, SduTaken
  <2> HIDE DEF f, m
  <2>5. bmmQ' \in Seq(BmmMsg)
    BY <1>1, <2>2, <2>3
  <2>6. QED
    BY <1>2, <1>3, <2>2, <2>4, <2>5
<1>6. CASE AccusePeer
  <2>1. bmmQ' \in Seq(BmmMsg)
    BY <1>1, <1>6, MessagesTyped DEF AccusePeer
  <2>2. QED
    BY <1>1, <1>2, <1>6, <2>1 DEF AccusePeer, TypeOK
<1>7. CASE DropFrame
  BY <1>1, <1>2, <1>7 DEF DropFrame, TypeOK
<1>8. CASE RejectFrame
  <2>1. bmmQ' \in Seq(BmmMsg)
    BY <1>1, <1>8, MessagesTyped DEF RejectFrame
  <2>2. peer' = [peer EXCEPT !.honest = FALSE] /\ peer \in PeerType
    BY <1>8 DEF RejectFrame, TypeOK, PeerType
  <2>3. /\ peer' \in PeerType
        /\ peer'.sdu = peer.sdu /\ peer'.idx = peer.idx /\ peer'.size = peer.size
    BY <2>2 DEF PeerType
  <2>4. peer'.sdu <= MaxSdu /\ (peer'.sdu = 0 => SduComplete')
    BY <2>3 DEF TypeOK, SduComplete
  <2>5. QED
    BY <1>8, <2>1, <2>3, <2>4 DEF RejectFrame, TypeOK, PeerType
<1>9. QED
  BY <1>4, <1>5, <1>6, <1>7, <1>8 DEF L2capFrame

\* L2CAP's handling of a request of the BMM keeps the types.
LEMMA RequestTyped ==
  ASSUME TypeOK, L2capRequest
  PROVE  TypeOK'
<1>1. flow \in Flow /\ Within(flow) /\ flow.tot <= 65535 /\ grant \in Nat
  BY DEF TypeOK, Flow, Within
<1>2. l2capQ # <<>> /\ l2capQ' \in Seq(L2capMsg)
  BY HeadsTyped DEF L2capRequest, ReadAck, AddCredit, L2capReceive
<1>3. /\ flow' \in Flow /\ Within(flow') /\ flow'.tot <= 65535
      /\ grant' \in Nat
  <2>1. CASE ReadAck /\ ChannelOpen
    <3> DEFINE n == Head(l2capQ).packets
    <3>1. n \in Nat /\ AttemptToSendCredits(Acked(n))
      BY <1>2, <2>1, HeadsTyped, MessagesTyped DEF ReadAck, L2capReceive
    <3> HIDE DEF n
    <3>2. /\ Acked(n) \in Flow /\ Within(Acked(n))
          /\ Acked(n).tot = flow.tot
      BY <1>1, <3>1, RoomBounded
    <3>3. flow'.tot = Acked(n).tot
      BY <3>1, <3>2 DEF AttemptToSendCredits, Replenished, Flow
    <3>4. QED
      BY <1>1, <3>1, <3>2, <3>3, GrantMatchesCount
  <2>2. CASE AddCredit /\ ChannelOpen /\ flow.tot + MoreCredits <= 65535
    <3>1. flow' = Raised(flow, MoreCredits) /\ grant' = grant + MoreCredits
      BY <2>2 DEF AddCredit, Raised
    <3>2. MoreCredits \in Nat
      BY CreditsAssumption
    <3>3. /\ flow' \in Flow /\ flow'.rx = flow.rx + MoreCredits
          /\ flow'.app = flow.app + MoreCredits /\ flow'.tot = flow.tot + MoreCredits
      BY <1>1, <3>1, <3>2, FlowRaised
    <3>4. /\ flow.rx \in Nat /\ flow.app \in Nat /\ flow.tot \in Nat
          /\ flow.app <= flow.tot /\ flow.rx <= flow.tot
      BY <1>1 DEF Flow, Within
    <3>5. flow'.app <= flow'.tot /\ flow'.rx <= flow'.tot /\ flow'.tot <= 65535
      BY <2>2, <3>2, <3>3, <3>4
    <3>6. grant' \in Nat
      BY <1>1, <3>1, <3>2
    <3>7. QED
      BY <3>3, <3>5, <3>6 DEF Within
  <2>3. CASE flow' = flow /\ grant' = grant
    BY <1>1, <2>3
  <2>4. QED
    BY <2>1, <2>2, <2>3 DEF L2capRequest, ReadAck, AddCredit
<1>4. UNCHANGED <<peer, air, bmmQ, sock, appQ, received>>
  BY DEF L2capRequest, ReadAck, AddCredit, L2capReceive
<1>5. QED
  BY <1>2, <1>3, <1>4 DEF TypeOK, Flow, SduComplete

\* The steps of the BMM keep the types.
LEMMA BmmTyped ==
  ASSUME TypeOK, BmmStep
  PROVE  TypeOK'
<1>1. /\ sock \in SockType /\ appQ \in Seq(Sdu) /\ l2capQ \in Seq(L2capMsg)
      /\ bmmQ \in Seq(BmmMsg)
  BY DEF TypeOK, SockType
<1>2. ASSUME NEW t, BmmReceive(t), sock' \in SockType, appQ' \in Seq(Sdu),
             l2capQ' \in Seq(L2capMsg)
      PROVE  TypeOK'
  <2>1. bmmQ' \in Seq(BmmMsg)
    BY <1>2, HeadsTyped DEF BmmReceive
  <2>2. UNCHANGED <<peer, air, grant, flow, received>>
    BY <1>2 DEF BmmReceive
  <2>3. QED
    BY <1>2, <2>1, <2>2 DEF TypeOK, SockType, SduComplete
<1>3. ASSUME BmmReceive("READ_IND")
      PROVE  Head(bmmQ) \in ReadInd /\ ReadRsp(Head(bmmQ)) \in L2capMsg /\ Head(bmmQ).sdu \in Sdu
  <2>1. Head(bmmQ) \in BmmMsg /\ Head(bmmQ).type = "READ_IND"
    BY <1>3, HeadsTyped DEF BmmReceive
  <2>2. QED
    BY <2>1, MessagesTyped DEF ReadInd
<1>4. CASE RefuseReadInd
  <2>1. l2capQ' \in Seq(L2capMsg)
    BY <1>1, <1>3, <1>4 DEF RefuseReadInd
  <2>2. QED
    BY <1>1, <1>2, <1>4, <2>1 DEF RefuseReadInd
<1>5. CASE DeliverReadInd
  <2>1. l2capQ' \in Seq(L2capMsg) /\ appQ' \in Seq(Sdu)
    BY <1>1, <1>3, <1>5 DEF DeliverReadInd
  <2>2. sock.rxAppCredits - 1 \in Nat
    BY <1>1, <1>5 DEF DeliverReadInd, SockType
  <2>3. sock' \in SockType
    BY <1>1, <1>5, <2>2 DEF DeliverReadInd, SockType
  <2>4. QED
    BY <1>2, <1>5, <2>1, <2>3 DEF DeliverReadInd
<1>6. CASE QueueReadInd
  <2> DEFINE n == sock.rxQueueCount + 1
             q == Append(sock.rxQueue, Head(bmmQ))
             s == [sock EXCEPT !.rxQueueCount = n, !.rxQueue = q]
  <2>1. n \in Nat /\ q \in Seq(ReadInd)
    BY <1>1, <1>3, <1>6 DEF QueueReadInd, SockType
  <2>2. RestoreRxQueue(s) /\ BmmReceive("READ_IND")
    BY <1>6 DEF QueueReadInd
  <2> HIDE DEF n, q
  <2>3. s \in SockType
    BY <1>1, <2>1 DEF SockType
  <2> HIDE DEF s
  <2>4. QED
    BY <1>1, <1>2, <2>2, <2>3, RestoreTyped
<1>7. CASE HandleDataRsp
  <2> DEFINE n == sock.rxAppCredits + 1
             s == [sock EXCEPT !.rxAppCredits = n]
  <2>1. n \in Nat
    BY <1>1 DEF SockType
  <2>2. RestoreRxQueue(s) /\ BmmReceive("DATA_RSP")
    BY <1>7 DEF HandleDataRsp
  <2> HIDE DEF n
  <2>3. s \in SockType
    BY <1>1, <2>1 DEF SockType
  <2> HIDE DEF s
  <2>4. QED
    BY <1>1, <1>2, <2>2, <2>3, RestoreTyped
<1>8. CASE IgnoreDataRsp \/ RefuseSetParams
  BY <1>1, <1>2, <1>8 DEF IgnoreDataRsp, RefuseSetParams
<1>9. CASE HandleSetParams
  <2>1. l2capQ' \in Seq(L2capMsg)
    BY <1>1, <1>9, MessagesTyped DEF HandleSetParams
  <2>2. sock' \in SockType
    BY <1>1, <1>9 DEF HandleSetParams, SockType
  <2>3. QED
    BY <1>1, <1>2, <1>9, <2>1, <2>2 DEF HandleSetParams
<1>10. CASE HandleDisconnectInd
  <2>1. sock' \in SockType
    BY <1>1, <1>10 DEF HandleDisconnectInd, SockType
  <2>2. QED
    BY <1>1, <1>2, <1>10, <2>1 DEF HandleDisconnectInd
<1>11. CASE HandleCloseReq
  <2>1. sock' \in SockType
    BY <1>11 DEF HandleCloseReq, SockType
  <2>2. QED
    BY <1>1, <1>2, <1>11, <2>1 DEF HandleCloseReq
<1>12. QED
  BY <1>4, <1>5, <1>6, <1>7, <1>8, <1>9, <1>10, <1>11 DEF BmmStep

\* The steps of the offload manager keep the types.
LEMMA OffloadMgrTyped ==
  ASSUME TypeOK, OffloadMgrStep
  PROVE  TypeOK'
<1>1. /\ bmmQ \in Seq(BmmMsg) /\ received \in Seq(Sdu) /\ appQ \in Seq(Sdu)
  BY DEF TypeOK
<1>2. CASE HandleDataInd
  <2>1. bmmQ' \in Seq(BmmMsg)
    BY <1>1, <1>2, MessagesTyped DEF HandleDataInd
  <2>2. appQ' \in Seq(Sdu) /\ received' \in Seq(Sdu)
    BY <1>1, <1>2, HeadsTyped DEF HandleDataInd
  <2>3. QED
    BY <1>2, <2>1, <2>2 DEF HandleDataInd, TypeOK, SduComplete
<1>3. ASSUME NEW t \in {"SET_PARAMS_REQ", "CLOSE_REQ"}, OffloadMgrSends(t)
      PROVE  TypeOK'
  <2>1. [type |-> t] \in BmmMsg
    BY <1>3, MessagesTyped
  <2>2. bmmQ' \in Seq(BmmMsg)
    BY <1>1, <1>3, <2>1 DEF OffloadMgrSends
  <2>3. QED
    BY <1>3, <2>2 DEF OffloadMgrSends, TypeOK, SduComplete
<1>4. QED
  BY <1>2, <1>3 DEF OffloadMgrStep, OffloadMgrSetsCredits, OffloadMgrCloses

\* Every step keeps the types, whatever the peer sends.
LEMMA NextTyped == TypeOK /\ [Next]_vars => TypeOK'
<1>. SUFFICES ASSUME TypeOK, [Next]_vars PROVE TypeOK'
  OBVIOUS
<1>1. CASE UNCHANGED vars
  BY <1>1 DEF vars, TypeOK, SduComplete
<1>2. CASE Next
  BY <1>2, PeerTyped, FrameTyped, RequestTyped, BmmTyped, OffloadMgrTyped DEF Next
<1>3. QED
  BY <1>1, <1>2

\* The queues hold messages of their kinds, no count of CB_FLOWINFO_T or of the
\* socket's entry goes below zero, and those of the room left and of the credits
\* of the channel (l2cap_flow.c) fit their 16 bits.
THEOREM ReceiveTypeCorrect == Spec => []TypeOK
BY InitTyped, NextTyped, PTL DEF Spec

-----------------------------------------------------------------------------
(* The credits.                                                            *)

\* A frame on its way is among the credits L2CAP counts, so it is never found
\* without one; for that the two ends have to agree, which they do as long as
\* nothing is refused.
CreditInv == TypeOK /\ CreditsConserved /\ HonestPeerTrusted

NoDisconnect(q) == \A k \in DOMAIN q : q[k].type # "DISCONNECT_IND"

\* At first the peer has exactly the credits L2CAP believes it has.
LEMMA InitCredit == Init => CreditInv
BY InitTyped DEF Init, CreditInv, CreditsConserved, HonestPeerTrusted, TypeOK, Flow

\* What a step of an honest peer's channel has to keep.
LEMMA CreditKept ==
  ASSUME CreditInv, TypeOK',
         peer'.honest /\ ChannelOpen' =>
           peer'.credits + grant' + Len(air') = flow'.rx,
         peer'.honest => sock'.state # "IN_ERROR" /\ NoDisconnect(bmmQ')
  PROVE  CreditInv'
BY DEF CreditInv, CreditsConserved, HonestPeerTrusted, NoDisconnect

\* No queue to the BMM gets a disconnect indication by losing its head or by
\* being given another message.
LEMMA NoDisconnectKept ==
  ASSUME NEW S, NEW q \in Seq(S), NoDisconnect(q)
  PROVE  /\ q # <<>> => NoDisconnect(Tail(q))
         /\ \A m \in S : m.type # "DISCONNECT_IND" => NoDisconnect(Append(q, m))
<1>1. ASSUME q # <<>> PROVE NoDisconnect(Tail(q))
  BY <1>1, TailTyped DEF NoDisconnect
<1>2. ASSUME NEW m \in S, m.type # "DISCONNECT_IND" PROVE NoDisconnect(Append(q, m))
  BY <1>2, AppendTyped DEF NoDisconnect
<1>3. QED
  BY <1>1, <1>2

\* A peer that keeps to the rules in a step has kept to them before, and has
\* had a credit for what it sent.
LEMMA HonestSteps ==
  ASSUME TypeOK, PeerStep, peer'.honest
  PROVE  peer.honest /\ ~PeerCheats
<1>1. peer \in PeerType
  BY DEF TypeOK, PeerType
<1>2. ASSUME NEW n \in Sizes, PeerStartsSdu(n) PROVE peer'.honest = peer.honest
  <2>1. peer' = [credits |-> peer.credits - 1, sdu |-> peer.sdu + 1, idx |-> 1, size |-> n,
                 honest |-> peer.honest]
    BY <1>2 DEF PeerStartsSdu, SendFrame
  <2>2. QED
    BY <1>1, <2>1 DEF PeerType
<1>3. ASSUME PeerCheats PROVE peer'.honest = FALSE
  <2>1. peer' = [credits |-> 0, sdu |-> peer.sdu + 1, idx |-> 1, size |-> 1,
                 honest |-> FALSE]
    BY <1>3 DEF PeerCheats, SendFrame
  <2>2. QED
    BY <1>1, <2>1 DEF PeerType
<1>4. ASSUME PeerContinuesSdu PROVE peer'.honest = peer.honest
  <2>1. peer' = [peer EXCEPT !.credits = @ - 1, !.idx = @ + 1]
    BY <1>4 DEF PeerContinuesSdu, SendFrame
  <2>2. QED
    BY <1>1, <2>1 DEF PeerType
<1>5. ASSUME PeerGetsCredits PROVE peer'.honest = peer.honest
  <2>1. PICK n \in 1 .. grant : peer' = [peer EXCEPT !.credits = @ + n]
    BY <1>5 DEF PeerGetsCredits
  <2>2. QED
    BY <1>1, <2>1 DEF PeerType
<1>6. QED
  BY <1>2, <1>3, <1>4, <1>5 DEF PeerStep

\* A frame sent, or a grant received, moves credits without losing any.
LEMMA PeerCredit ==
  ASSUME CreditInv, TypeOK', PeerStep
  PROVE  CreditInv'
<1>1. /\ peer.credits \in Nat /\ grant \in Nat /\ flow.rx \in Nat
      /\ air \in Seq(Frame) /\ Len(air) \in Nat
  BY DEF CreditInv, TypeOK
<1>2. UNCHANGED <<flow, sock, bmmQ>>
  BY DEF PeerStep, PeerStartsSdu, PeerContinuesSdu, PeerCheats, PeerGetsCredits, SendFrame
<1>3. peer'.honest => peer.honest /\ ~PeerCheats
  BY HonestSteps DEF CreditInv
<1>4. peer'.honest => sock'.state # "IN_ERROR" /\ NoDisconnect(bmmQ')
  BY <1>2, <1>3 DEF CreditInv, HonestPeerTrusted, NoDisconnect
<1>5. ASSUME peer'.honest, ChannelOpen'
      PROVE  peer'.credits + grant' + Len(air') = flow'.rx
  <2>1. peer.credits + grant + Len(air) = flow.rx
    BY <1>2, <1>5, <1>3 DEF CreditInv, CreditsConserved, ChannelOpen
  <2>2. ASSUME NEW p, SendFrame(p), p.credits = peer.credits - 1
        PROVE  peer'.credits + grant' + Len(air') = flow'.rx
    <3>1. Len(air') = Len(air) + 1
      BY <1>1, <2>2 DEF SendFrame
    <3>2. peer'.credits = peer.credits - 1 /\ grant' = grant
      BY <2>2 DEF SendFrame
    <3>3. QED
      BY <1>1, <1>2, <2>1, <3>1, <3>2
  <2>3. ASSUME NEW n \in Sizes, PeerStartsSdu(n)
        PROVE  peer'.credits + grant' + Len(air') = flow'.rx
    <3> DEFINE p == [credits |-> peer.credits - 1, sdu |-> peer.sdu + 1, idx |-> 1,
                     size |-> n, honest |-> peer.honest]
    <3>1. SendFrame(p) /\ p.credits = peer.credits - 1
      BY <2>3 DEF PeerStartsSdu, CreditInv, TypeOK
    <3> HIDE DEF p
    <3>2. QED
      BY <2>2, <3>1
  <2>4. CASE PeerContinuesSdu
    <3> DEFINE p == [peer EXCEPT !.credits = @ - 1, !.idx = @ + 1]
    <3>1. SendFrame(p) /\ p.credits = peer.credits - 1
      BY <2>4 DEF PeerContinuesSdu, CreditInv, TypeOK
    <3> HIDE DEF p
    <3>2. QED
      BY <2>2, <3>1
  <2>5. CASE PeerGetsCredits
    <3>1. PICK n \in 1 .. grant : peer' = [peer EXCEPT !.credits = @ + n] /\ grant' = grant - n
      BY <2>5 DEF PeerGetsCredits
    <3>2. peer'.credits = peer.credits + n /\ air' = air
      BY <2>5, <3>1 DEF PeerGetsCredits, CreditInv, TypeOK
    <3>3. QED
      BY <1>1, <1>2, <2>1, <3>1, <3>2
  <2>6. QED
    BY <1>5, <1>3, <2>3, <2>4, <2>5 DEF PeerStep
<1>6. QED
  BY <1>4, <1>5, CreditKept

\* A frame received moves its credit from the air to L2CAP's account.
LEMMA FrameCredit ==
  ASSUME CreditInv, TypeOK', L2capFrame
  PROVE  CreditInv'
<1>1. /\ peer.credits \in Nat /\ grant \in Nat /\ flow \in Flow /\ Within(flow)
      /\ air \in Seq(Frame) /\ Len(air) \in Nat /\ bmmQ \in Seq(BmmMsg)
  BY DEF CreditInv, TypeOK, Flow
<1>2. sock' = sock /\ peer' = peer /\ (ChannelOpen' <=> ChannelOpen)
  BY DEF L2capFrame, ReceivePart, ReceiveSdu, AccusePeer, DropFrame, ReceiveFrame,
         ChannelOpen
<1>3. peer.honest => sock.state # "IN_ERROR" /\ NoDisconnect(bmmQ)
  BY DEF CreditInv, HonestPeerTrusted, NoDisconnect
<1>4. peer.honest /\ ChannelOpen => peer.credits + grant + Len(air) = flow.rx
  BY DEF CreditInv, CreditsConserved
<1>5. ASSUME ReceiveFrame
      PROVE  Len(air) > 0 /\ Len(air') = Len(air) - 1
  BY <1>1, <1>5, TailTyped DEF ReceiveFrame
<1>6. ASSUME NEW f \in Flow, Within(f), f.rx = flow.rx - 1, ReceiveFrame,
             AttemptToSendCredits(f), peer'.honest => NoDisconnect(bmmQ')
      PROVE  CreditInv'
  <2>1. flow' \in Flow /\ grant' \in Nat /\ flow'.rx - f.rx = grant' - grant
    BY <1>1, <1>6, GrantMatchesCount
  <2>2. flow'.rx \in Nat /\ flow.rx \in Nat
    BY <1>1, <2>1 DEF Flow, Within
  <2>3. peer'.honest /\ ChannelOpen' => peer'.credits + grant' + Len(air') = flow'.rx
    <3>. SUFFICES ASSUME peer'.honest, ChannelOpen'
                  PROVE  peer'.credits + grant' + Len(air') = flow'.rx
      OBVIOUS
    <3>1. peer.credits + grant + Len(air) = flow.rx
      BY <1>2, <1>4
    <3>2. peer'.credits = peer.credits /\ Len(air') = Len(air) - 1
      BY <1>2, <1>5, <1>6
    <3>3. /\ peer.credits \in Nat /\ grant \in Nat /\ grant' \in Nat
          /\ Len(air) \in Nat /\ flow.rx \in Nat /\ flow'.rx \in Nat
      BY <1>1, <2>1, <2>2
    <3>4. flow'.rx - (flow.rx - 1) = grant' - grant
      BY <1>6, <2>1
    <3> DEFINE c == peer.credits
               g == grant
               h == grant'
               n == Len(air)
               r == flow.rx
               q == flow'.rx
    <3>5. c + h + (n - 1) = q
      <4>1. /\ c \in Nat /\ g \in Nat /\ h \in Nat /\ n \in Nat /\ r \in Nat /\ q \in Nat
            /\ c + g + n = r /\ q - (r - 1) = h - g
        BY <3>1, <3>3, <3>4
      <4> HIDE DEF c, g, h, n, r, q
      <4>2. QED
        BY <4>1
    <3>6. QED
      BY <3>2, <3>5
  <2>4. QED
    BY <1>2, <1>3, <1>6, <2>3, CreditKept
<1>7. CASE ReceivePart
  <2> DEFINE f == [flow EXCEPT !.packets = flow.packets + 1, !.rx = flow.rx - 1]
  <2>1. f \in Flow /\ Within(f) /\ f.rx = flow.rx - 1
    <3>1. flow.rx > 0
      BY <1>7 DEF ReceivePart
    <3>2. QED
      BY <1>1, <3>1, FrameTaken
  <2>2. AttemptToSendCredits(f) /\ ReceiveFrame /\ bmmQ' = bmmQ
    BY <1>7 DEF ReceivePart
  <2> HIDE DEF f
  <2>3. QED
    BY <1>2, <1>3, <1>6, <2>1, <2>2
<1>8. CASE ReceiveSdu
  <2> DEFINE p == flow.packets + 1
             f == [flow EXCEPT !.packets = 0, !.app = AppLeft(p), !.rx = flow.rx - 1]
             m == [type |-> "READ_IND", sdu |-> Head(air).sdu, packets |-> p]
  <2>1. p \in Nat \ {0}
    BY <1>1 DEF Flow, Within
  <2>2. AttemptToSendCredits(f) /\ ReceiveFrame /\ bmmQ' = Append(bmmQ, m)
    BY <1>8 DEF ReceiveSdu
  <2>3. m \in BmmMsg /\ m.type # "DISCONNECT_IND"
    <3>1. Head(air).sdu \in Sdu
      BY <1>8, HeadsTyped DEF CreditInv, ReceiveSdu, ReceiveFrame, Frame
    <3>2. QED
      BY <2>1, <3>1 DEF BmmMsg, ReadInd
  <2> HIDE DEF p
  <2>4. f \in Flow /\ Within(f) /\ f.rx = flow.rx - 1
    <3>1. AppLeft(p) \in Nat /\ AppLeft(p) <= flow.tot
      BY <1>1, <2>1, RoomBounded
    <3>2. flow.rx > 0
      BY <1>8 DEF ReceiveSdu
    <3>3. QED
      BY <1>1, <3>1, <3>2, SduTaken
  <2> HIDE DEF f, m
  <2>5. peer'.honest => NoDisconnect(bmmQ')
    BY <1>2, <1>1, <1>3, <2>2, <2>3, NoDisconnectKept
  <2>6. QED
    BY <1>6, <2>2, <2>4, <2>5
<1>9. CASE AccusePeer
  <2>1. ~peer'.honest
    <3>1. ChannelOpen /\ flow.rx = 0 /\ Len(air) > 0
      BY <1>5, <1>9 DEF AccusePeer
    <3>2. QED
      BY <1>1, <1>2, <1>4, <3>1
  <2>2. QED
    BY <2>1, CreditKept
<1>10. CASE DropFrame
  BY <1>2, <1>3, <1>10, CreditKept DEF DropFrame
<1>11. QED
  BY <1>7, <1>8, <1>9, <1>10 DEF L2capFrame

\* A frame that breaks the rules ends the trust.
LEMMA RejectCredit ==
  ASSUME CreditInv, TypeOK', RejectFrame
  PROVE  CreditInv'
<1>1. peer' = [peer EXCEPT !.honest = FALSE] /\ peer \in PeerType
  BY DEF RejectFrame, CreditInv, TypeOK, PeerType
<1>2. ~peer'.honest
  BY <1>1 DEF PeerType
<1>3. QED
  BY <1>2, CreditKept

\* A read acknowledged, or credits added, may raise the grant and the count
\* together.
LEMMA RequestCredit ==
  ASSUME CreditInv, TypeOK', L2capRequest
  PROVE  CreditInv'
<1>1. /\ peer.credits \in Nat /\ grant \in Nat /\ flow \in Flow /\ Within(flow)
      /\ flow.rx \in Nat /\ Len(air) \in Nat
  BY DEF CreditInv, TypeOK, Flow
<1>2. UNCHANGED <<peer, air, bmmQ, sock>> /\ (ChannelOpen' <=> ChannelOpen)
  BY DEF L2capRequest, ReadAck, AddCredit, L2capReceive, ChannelOpen
<1>3. peer'.honest => sock'.state # "IN_ERROR" /\ NoDisconnect(bmmQ')
  BY <1>2 DEF CreditInv, HonestPeerTrusted, NoDisconnect
<1>4. flow'.rx - flow.rx = grant' - grant /\ grant' \in Nat /\ flow'.rx \in Nat
  <2>1. CASE ReadAck /\ ChannelOpen
    <3> DEFINE n == Head(l2capQ).packets
    <3>1. n \in Nat /\ AttemptToSendCredits(Acked(n))
      BY <2>1, HeadsTyped, MessagesTyped DEF CreditInv, ReadAck, L2capReceive
    <3> HIDE DEF n
    <3>2. Acked(n) \in Flow /\ Within(Acked(n)) /\ Acked(n).rx = flow.rx
      BY <1>1, <3>1, RoomBounded
    <3>3. flow' \in Flow /\ grant' \in Nat /\ flow'.rx - Acked(n).rx = grant' - grant
      BY <1>1, <3>1, <3>2, GrantMatchesCount
    <3>4. QED
      BY <3>2, <3>3 DEF Flow, Within
  <2>2. CASE AddCredit /\ ChannelOpen /\ flow.tot + MoreCredits <= 65535
    <3>1. flow' = Raised(flow, MoreCredits) /\ grant' = grant + MoreCredits
      BY <2>2 DEF AddCredit, Raised
    <3>2. MoreCredits \in Nat
      BY CreditsAssumption
    <3>3. flow'.rx = flow.rx + MoreCredits
      BY <1>1, <3>1, <3>2, FlowRaised
    <3>4. QED
      BY <1>1, <3>1, <3>2, <3>3
  <2>3. CASE flow' = flow /\ grant' = grant
    BY <1>1, <2>3
  <2>4. QED
    BY <2>1, <2>2, <2>3 DEF L2capRequest, ReadAck, AddCredit
<1>5. peer'.honest /\ ChannelOpen' => peer'.credits + grant' + Len(air') = flow'.rx
  <2>. SUFFICES ASSUME peer'.honest, ChannelOpen'
                PROVE  peer'.credits + grant' + Len(air') = flow'.rx
    OBVIOUS
  <2>1. peer.credits + grant + Len(air) = flow.rx
    BY <1>2 DEF CreditInv, CreditsConserved
  <2>2. /\ peer.credits \in Nat /\ grant \in Nat /\ grant' \in Nat
        /\ Len(air) \in Nat /\ flow.rx \in Nat /\ flow'.rx \in Nat
        /\ flow'.rx - flow.rx = grant' - grant
    BY <1>1, <1>4
  <2> DEFINE c == peer.credits
             g == grant
             h == grant'
             n == Len(air)
             r == flow.rx
             q == flow'.rx
  <2>3. c + h + n = q
    <3>1. /\ c \in Nat /\ g \in Nat /\ h \in Nat /\ n \in Nat /\ r \in Nat /\ q \in Nat
          /\ c + g + n = r /\ q - r = h - g
      BY <2>1, <2>2
    <3> HIDE DEF c, g, h, n, r, q
    <3>2. QED
      BY <3>1
  <2>4. QED
    BY <1>2, <2>3
<1>6. QED
  BY <1>3, <1>5, CreditKept

\* The BMM touches no account of credits.
LEMMA BmmCredit ==
  ASSUME CreditInv, TypeOK', BmmStep
  PROVE  CreditInv'
<1>1. ASSUME NEW t, BmmReceive(t), peer'.honest => t # "DISCONNECT_IND",
             ChannelOpen' => ChannelOpen,
             sock'.state # sock.state => sock'.state # "IN_ERROR"
      PROVE  CreditInv'
  <2>1. UNCHANGED <<peer, air, grant, flow>> /\ bmmQ # <<>> /\ bmmQ' = Tail(bmmQ)
    BY <1>1 DEF BmmReceive
  <2>2. bmmQ \in Seq(BmmMsg) /\ (peer.honest => NoDisconnect(bmmQ))
    BY DEF CreditInv, TypeOK, HonestPeerTrusted, NoDisconnect
  <2>3. peer'.honest => NoDisconnect(bmmQ')
    BY <2>1, <2>2, NoDisconnectKept
  <2>4. peer'.honest => sock'.state # "IN_ERROR"
    BY <2>1, <1>1 DEF CreditInv, HonestPeerTrusted
  <2>5. peer'.honest /\ ChannelOpen' => peer'.credits + grant' + Len(air') = flow'.rx
    BY <1>1, <2>1 DEF CreditInv, CreditsConserved
  <2>6. QED
    BY <2>3, <2>4, <2>5, CreditKept
<1>2. /\ sock \in SockType /\ appQ \in Seq(Sdu) /\ l2capQ \in Seq(L2capMsg)
      /\ bmmQ \in Seq(BmmMsg)
  BY DEF CreditInv, TypeOK, SockType
<1>3. CASE RefuseReadInd \/ IgnoreDataRsp \/ RefuseSetParams
  BY <1>1, <1>3 DEF RefuseReadInd, IgnoreDataRsp, RefuseSetParams, ChannelOpen
<1>4. CASE DeliverReadInd \/ HandleSetParams
  <2>1. sock'.state = sock.state
    BY <1>2, <1>4 DEF DeliverReadInd, HandleSetParams, SockType
  <2>2. QED
    BY <1>1, <1>4, <2>1 DEF DeliverReadInd, HandleSetParams, ChannelOpen
<1>5. ASSUME NEW s, RestoreRxQueue(s), s.state = sock.state
      PROVE  sock'.state = sock.state
  BY <1>5 DEF RestoreRxQueue
<1>6. CASE QueueReadInd
  <2> DEFINE s == [sock EXCEPT !.rxQueueCount = @ + 1, !.rxQueue = Append(@, Head(bmmQ))]
  <2>1. RestoreRxQueue(s) /\ BmmReceive("READ_IND")
    BY <1>6 DEF QueueReadInd
  <2>2. s.state = sock.state
    BY <1>2 DEF SockType
  <2> HIDE DEF s
  <2>3. QED
    BY <1>1, <1>5, <2>1, <2>2 DEF ChannelOpen
<1>7. CASE HandleDataRsp
  <2> DEFINE s == [sock EXCEPT !.rxAppCredits = @ + 1]
  <2>1. RestoreRxQueue(s) /\ BmmReceive("DATA_RSP")
    BY <1>7 DEF HandleDataRsp
  <2>2. s.state = sock.state
    BY <1>2 DEF SockType
  <2> HIDE DEF s
  <2>3. QED
    BY <1>1, <1>5, <2>1, <2>2 DEF ChannelOpen
<1>8. CASE HandleDisconnectInd
  <2>1. ~peer'.honest
    BY <1>2, <1>8, TailTyped
       DEF HandleDisconnectInd, BmmReceive, CreditInv, HonestPeerTrusted
  <2>2. QED
    BY <2>1, CreditKept
<1>9. CASE HandleCloseReq
  <2>1. sock'.state = "CLOSED" /\ BmmReceive("CLOSE_REQ")
    BY <1>9 DEF HandleCloseReq
  <2>2. QED
    BY <1>1, <2>1 DEF ChannelOpen
<1>10. QED
  BY <1>3, <1>4, <1>6, <1>7, <1>8, <1>9 DEF BmmStep

\* The offload manager touches no account of credits.
LEMMA OffloadMgrCredit ==
  ASSUME CreditInv, TypeOK', OffloadMgrStep
  PROVE  CreditInv'
<1>1. PICK m \in BmmMsg : bmmQ' = Append(bmmQ, m) /\ m.type # "DISCONNECT_IND"
  BY MessagesTyped DEF OffloadMgrStep, HandleDataInd, OffloadMgrSetsCredits,
     OffloadMgrCloses, OffloadMgrSends
<1>2. UNCHANGED <<peer, air, grant, flow, sock>>
  BY DEF OffloadMgrStep, HandleDataInd, OffloadMgrSetsCredits, OffloadMgrCloses,
     OffloadMgrSends
<1>3. bmmQ \in Seq(BmmMsg) /\ (peer.honest => NoDisconnect(bmmQ))
  BY DEF CreditInv, TypeOK, HonestPeerTrusted, NoDisconnect
<1>4. peer'.honest => NoDisconnect(bmmQ')
  BY <1>2, <1>1, <1>3, NoDisconnectKept
<1>5. QED
  BY <1>2, <1>4, CreditKept DEF CreditInv, CreditsConserved, HonestPeerTrusted, ChannelOpen

\* Every step keeps the accounts of credits.
LEMMA NextCredit == CreditInv /\ [Next]_vars => CreditInv'
<1>. SUFFICES ASSUME CreditInv, [Next]_vars PROVE CreditInv'
  OBVIOUS
<1>1. TypeOK'
  BY NextTyped DEF CreditInv
<1>2. CASE UNCHANGED vars
  BY <1>1, <1>2, CreditKept
     DEF vars, CreditInv, CreditsConserved, HonestPeerTrusted, NoDisconnect, ChannelOpen
<1>3. CASE Next
  BY <1>1, <1>3, PeerCredit, FrameCredit, RejectCredit, RequestCredit, BmmCredit,
     OffloadMgrCredit DEF Next
<1>4. QED
  BY <1>2, <1>3

\* L2CAP and an honest peer agree on the credits of a channel whatever the order
\* of frames, answers, grants and added credits (l2cap_flow.c, rx_credits).
THEOREM CreditsStayConserved == Spec => []CreditsConserved
<1>1. CreditInv => CreditsConserved
  BY DEF CreditInv
<1>2. QED
  BY <1>1, InitCredit, NextCredit, PTL DEF Spec

\* CB_FLOW_DataRead never finds rx_credits at zero for a peer that keeps to its
\* credits, so that its channel is not torn down for it.
THEOREM HonestPeerStaysTrusted == Spec => []HonestPeerTrusted
<1>1. CreditInv => HonestPeerTrusted
  BY DEF CreditInv
<1>2. QED
  BY <1>1, InitCredit, NextCredit, PTL DEF Spec
-----------------------------------------------------------------------------
(* Where the credits of the BMM are, and what waits.                       *)

MsgsOf(t) == {m \in BmmMsg : m.type = t}

\* How many messages of a type there are, after one is appended or handled.
LEMMA CountSteps ==
  ASSUME NEW q \in Seq(BmmMsg), NEW t
  PROVE  /\ Count(q, t) \in Nat
         /\ Count(q, t) = 0 <=> \A k \in DOMAIN q : q[k].type # t
         /\ \A m \in BmmMsg : Count(Append(q, m), t) = Count(q, t) + One(m.type = t)
         /\ q # <<>> => Count(q, t) = Count(Tail(q), t) + One(Head(q).type = t)
<1> DEFINE A == MsgsOf(t)
<1>1. \A m \in BmmMsg : m \in A <=> m.type = t
  BY DEF MsgsOf
<1> HIDE DEF A
<1>2. ASSUME NEW r \in Seq(BmmMsg)
      PROVE  Count(r, t) = CountIn(r, A)
  <2>1. {k \in DOMAIN r : r[k].type = t} = PlacesIn(r, A)
    BY <1>1 DEF PlacesIn
  <2> QED BY <2>1 DEF Count, CountIn
<1>3. \A m \in BmmMsg : One(m \in A) = One(m.type = t)
  BY <1>1 DEF One
<1>4. Count(q, t) \in Nat /\ (Count(q, t) = 0 <=> \A k \in DOMAIN q : q[k].type # t)
  <2>1. CountIn(q, A) \in Nat
    BY PlacesFinite
  <2>2. CountIn(q, A) = 0 <=> \A k \in DOMAIN q : q[k] \notin A
    BY CountNothing
  <2>3. \A k \in DOMAIN q : q[k] \in BmmMsg
    OBVIOUS
  <2> QED BY <1>1, <1>2, <2>1, <2>2, <2>3
<1>5. ASSUME NEW m \in BmmMsg
      PROVE  Count(Append(q, m), t) = Count(q, t) + One(m.type = t)
  <2>1. /\ Append(q, m) \in Seq(BmmMsg)
        /\ CountIn(Append(q, m), A) = CountIn(q, A) + One(m \in A)
    BY CountAppend
  <2> QED BY <1>2, <1>3, <2>1
<1>6. ASSUME q # <<>>
      PROVE  Count(q, t) = Count(Tail(q), t) + One(Head(q).type = t)
  <2>1. /\ Tail(q) \in Seq(BmmMsg) /\ Head(q) \in BmmMsg
        /\ CountIn(q, A) = CountIn(Tail(q), A) + One(Head(q) \in A)
    BY <1>6, CountTail
  <2> QED BY <1>2, <1>3, <2>1
<1> QED BY <1>4, <1>5, <1>6

\* What BmmLecocRestoreRxQueue does to a socket that is connected and counts
\* its queue right: k SDUs go over, as many as there are or as it has credits.
LEMMA RestoreExact ==
  ASSUME NEW s \in SockType, s.state = "CONNECTED", s.rxQueueCount = Len(s.rxQueue),
         appQ \in Seq(Sdu), RestoreRxQueue(s)
  PROVE  \E k \in 0 .. Len(s.rxQueue) :
           /\ k <= s.rxAppCredits /\ (k = s.rxAppCredits \/ k = Len(s.rxQueue))
           /\ sock'.state = "CONNECTED"
           /\ sock'.rxAppCredits = s.rxAppCredits - k
           /\ sock'.rxQueueCount = s.rxQueueCount - k
           /\ sock'.rxQueue \in Seq(ReadInd)
           /\ Len(sock'.rxQueue) = Len(s.rxQueue) - k
           /\ \A i \in 1 .. Len(s.rxQueue) - k : sock'.rxQueue[i] = s.rxQueue[k + i]
           /\ appQ' \in Seq(Sdu) /\ Len(appQ') = Len(appQ) + k
           /\ \A i \in 1 .. Len(appQ) : appQ'[i] = appQ[i]
           /\ \A i \in 1 .. k : appQ'[Len(appQ) + i] = s.rxQueue[i].sdu
<1> DEFINE k == Popped(s)
           n == Len(s.rxQueue)
           taken == SubSeq(s.rxQueue, 1, k)
           rest == SubSeq(s.rxQueue, k + 1, n)
           a == s.rxAppCredits - k
           b == s.rxQueueCount - k
<1>1. s.rxQueue \in Seq(ReadInd) /\ n \in Nat /\ s.rxAppCredits \in Nat /\ s.rxQueueCount = n
  BY DEF SockType
<1>2. k \in 0 .. n /\ k <= s.rxAppCredits /\ (k = s.rxAppCredits \/ k = n)
  <2>1. k = Min({s.rxAppCredits, s.rxQueueCount, Len(s.rxQueue)})
    BY DEF Popped
  <2> DEFINE c == s.rxAppCredits
             m == Min({c, n, n})
  <2>2. c \in Nat /\ n \in Nat
    BY <1>1
  <2> HIDE DEF c, n
  <2>3. m \in {c, n, n} /\ m \in Nat /\ m <= c /\ m <= n
    <3>1. \E x \in {c, n, n} : \A y \in {c, n, n} : x <= y
      <4>1. CASE c <= n
        BY <2>2, <4>1
      <4>2. CASE n <= c
        BY <2>2, <4>2
      <4> QED BY <2>2, <4>1, <4>2
    <3>2. m \in {c, n, n}
      BY <3>1 DEF Min
    <3> HIDE DEF m
    <3> QED BY <2>2, <3>2, Minimum DEF m
  <2> HIDE DEF m
  <2>4. k = m
    BY <1>1, <2>1 DEF m, c, n
  <2> QED BY <2>2, <2>3, <2>4 DEF c
<1>3. /\ sock' = [s EXCEPT !.rxQueue = rest, !.rxAppCredits = a, !.rxQueueCount = b]
      /\ appQ' = appQ \o Sdus(taken)
  BY DEF RestoreRxQueue
<1>4. a \in Nat /\ b \in Nat
  BY <1>1, <1>2
<1> HIDE DEF k
<1>5. /\ taken \in Seq(ReadInd) /\ Len(taken) = k
      /\ \A i \in 1 .. k : taken[i] = s.rxQueue[i]
  BY <1>1, <1>2, SubSeqProperties
<1>6. /\ rest \in Seq(ReadInd) /\ Len(rest) = n - k
      /\ \A i \in 1 .. n - k : rest[i] = s.rxQueue[k + i]
  BY SMTT(30), <1>1, <1>2, SubSeqProperties
<1> HIDE DEF taken, rest
<1>7. /\ Sdus(taken) \in Seq(Sdu) /\ Len(Sdus(taken)) = k
      /\ \A i \in 1 .. k : Sdus(taken)[i] = s.rxQueue[i].sdu
  <2>1. DOMAIN taken = 1 .. k /\ k \in Nat
    BY <1>2, <1>5
  <2>0. \A i \in 1 .. k : taken[i] \in ReadInd
    BY <1>5, <2>1
  <2>2. \A i \in 1 .. k : taken[i].sdu \in Sdu
    BY <2>0 DEF ReadInd
  <2>3. Sdus(taken) = [i \in 1 .. k |-> taken[i].sdu]
    BY <2>1 DEF Sdus
  <2> QED BY <1>5, <2>1, <2>2, <2>3
<1>8. /\ appQ' \in Seq(Sdu) /\ Len(appQ') = Len(appQ) + k
      /\ \A i \in 1 .. Len(appQ) : appQ'[i] = appQ[i]
      /\ \A i \in 1 .. k : appQ'[Len(appQ) + i] = s.rxQueue[i].sdu
  <2> DEFINE u == Sdus(taken)
  <2>1. u \in Seq(Sdu) /\ Len(u) = k /\ (\A i \in 1 .. k : u[i] = s.rxQueue[i].sdu)
        /\ appQ' = appQ \o u
    BY <1>3, <1>7
  <2> HIDE DEF u
  <2>2. /\ appQ \o u \in Seq(Sdu) /\ Len(appQ \o u) = Len(appQ) + Len(u)
        /\ \A i \in 1 .. Len(appQ) + Len(u) :
             (appQ \o u)[i] = IF i <= Len(appQ) THEN appQ[i] ELSE u[i - Len(appQ)]
    BY <2>1, ConcatProperties
  <2>3. Len(appQ) \in Nat /\ k \in Nat
    BY <1>2
  <2>4. \A i \in 1 .. Len(appQ) : appQ'[i] = appQ[i]
    BY <2>1, <2>2, <2>3
  <2>5. ASSUME NEW i \in 1 .. k PROVE appQ'[Len(appQ) + i] = s.rxQueue[i].sdu
    <3>1. Len(appQ) + i \in 1 .. Len(appQ) + Len(u) /\ ~ (Len(appQ) + i <= Len(appQ))
          /\ Len(appQ) + i - Len(appQ) = i
      BY <2>1, <2>3
    <3> QED BY <2>1, <2>2, <3>1
  <2> QED BY <2>1, <2>2, <2>4, <2>5
<1> HIDE DEF a, b
<1>9. /\ sock'.state = "CONNECTED" /\ sock'.rxAppCredits = a /\ sock'.rxQueueCount = b
      /\ sock'.rxQueue = rest
  BY <1>3, <1>4, <1>6 DEF SockType
<1> QED BY <1>1, <1>2, <1>6, <1>8, <1>9 DEF a, b

\* Every step but those of the BMM adds at most one message to its queue, an
\* answer only as it takes an indication from the pipe.
LEMMA OthersSend ==
  ASSUME TypeOK, PeerStep \/ L2capFrame \/ RejectFrame \/ L2capRequest \/ OffloadMgrStep
  PROVE  /\ sock' = sock
         /\ \/ bmmQ' = bmmQ /\ appQ' = appQ
            \/ /\ appQ' = appQ
               /\ \E m \in BmmMsg : bmmQ' = Append(bmmQ, m) /\ m.type # "DATA_RSP"
            \/ HandleDataInd
<1>1. CASE PeerStep
  BY <1>1 DEF PeerStep, PeerStartsSdu, PeerContinuesSdu, PeerCheats, PeerGetsCredits, SendFrame
<1>2. CASE L2capRequest
  BY <1>2 DEF L2capRequest, ReadAck, AddCredit, L2capReceive
<1>3. CASE RejectFrame \/ AccusePeer
  <2>1. DisconnectInd \in BmmMsg /\ DisconnectInd.type # "DATA_RSP"
    BY MessagesTyped DEF DisconnectInd
  <2> QED BY <1>3, <2>1 DEF RejectFrame, AccusePeer, ReceiveFrame
<1>4. CASE ReceivePart \/ DropFrame
  BY <1>4 DEF ReceivePart, DropFrame, ReceiveFrame
<1>5. CASE ReceiveSdu
  <2> DEFINE m == [type |-> "READ_IND", sdu |-> Head(air).sdu, packets |-> flow.packets + 1]
  <2>1. bmmQ' = Append(bmmQ, m) /\ m.type # "DATA_RSP" /\ sock' = sock /\ appQ' = appQ
    BY <1>5 DEF ReceiveSdu, ReceiveFrame
  <2>2. Head(air).sdu \in Sdu /\ flow.packets + 1 \in Nat \ {0}
    <3>1. Head(air) \in Frame
      BY <1>5, HeadsTyped DEF ReceiveSdu, ReceiveFrame
    <3>2. flow \in Flow
      BY DEF TypeOK, Flow
    <3>3. flow.packets \in Nat
      BY <3>2 DEF Flow
    <3>4. Head(air).sdu \in Sdu
      BY <3>1 DEF Frame
    <3> QED BY <3>3, <3>4
  <2>3. m \in BmmMsg
    BY <2>2 DEF BmmMsg, ReadInd
  <2> HIDE DEF m
  <2> QED BY <2>1, <2>3
<1>6. CASE OffloadMgrSetsCredits \/ OffloadMgrCloses
  <2>1. PICK t \in {"SET_PARAMS_REQ", "CLOSE_REQ"} : OffloadMgrSends(t)
    BY <1>6 DEF OffloadMgrSetsCredits, OffloadMgrCloses
  <2>2. [type |-> t] \in BmmMsg /\ [type |-> t].type # "DATA_RSP"
    BY MessagesTyped
  <2> QED BY <2>1, <2>2 DEF OffloadMgrSends
<1>7. CASE HandleDataInd
  BY <1>7 DEF HandleDataInd
<1> QED BY <1>1, <1>2, <1>3, <1>4, <1>5, <1>6, <1>7 DEF L2capFrame, OffloadMgrStep

\* What a step of the BMM does to a socket that stays connected.  It takes one
\* message; an SDU goes to the pipe or waits, an answer fetches what waits.
LEMMA BmmConnected ==
  ASSUME TypeOK, CreditOrIndication, BmmStep, sock'.state = "CONNECTED"
  PROVE  /\ sock.state = "CONNECTED" /\ bmmQ # <<>> /\ bmmQ' = Tail(bmmQ)
         /\ UNCHANGED <<peer, air, received>>
         /\ Head(bmmQ).type # "DISCONNECT_IND"
         /\ \/ DeliverReadInd /\ Head(bmmQ) \in ReadInd
            \/ /\ Head(bmmQ) \in ReadInd /\ appQ' = appQ
               /\ sock.rxAppCredits = 0 /\ sock'.rxAppCredits = 0
               /\ sock'.rxQueueCount = sock.rxQueueCount + 1
               /\ sock'.rxQueue = Append(sock.rxQueue, Head(bmmQ))
            \/ HandleDataRsp /\ Head(bmmQ).type = "DATA_RSP"
            \/ /\ Head(bmmQ).type \notin {"READ_IND", "DATA_RSP"} /\ appQ' = appQ
               /\ \A f \in {"rxAppCredits", "rxQueueCount", "rxQueue"} : sock'[f] = sock[f]
<1>1. /\ sock \in SockType /\ appQ \in Seq(Sdu) /\ bmmQ \in Seq(BmmMsg)
      /\ received \in Seq(Sdu)
  BY DEF TypeOK, SockType
<1>2. PICK t \in {"READ_IND", "DATA_RSP", "SET_PARAMS_REQ", "DISCONNECT_IND", "CLOSE_REQ"} :
        BmmReceive(t)
  BY DEF BmmStep, RefuseReadInd, DeliverReadInd, QueueReadInd, HandleDataRsp, IgnoreDataRsp,
         HandleSetParams, RefuseSetParams, HandleDisconnectInd, HandleCloseReq
<1>3. /\ bmmQ # <<>> /\ bmmQ' = Tail(bmmQ) /\ UNCHANGED <<peer, air, received>>
      /\ Head(bmmQ).type = t /\ Head(bmmQ) \in BmmMsg
  BY <1>2, HeadsTyped DEF BmmReceive
<1>4. t = "READ_IND" => Head(bmmQ) \in ReadInd
  BY <1>3, MessagesTyped
<1>5. CASE RefuseReadInd \/ IgnoreDataRsp
  BY <1>5 DEF RefuseReadInd, IgnoreDataRsp, ChannelOpen
<1>6. CASE DeliverReadInd
  <2>1. Head(bmmQ).type = "READ_IND" /\ sock.state = "CONNECTED"
    BY <1>6 DEF DeliverReadInd, BmmReceive
  <2> QED BY <1>3, <1>4, <1>6, <2>1
<1>7. CASE QueueReadInd
  <2> DEFINE n == sock.rxQueueCount + 1
             q == Append(sock.rxQueue, Head(bmmQ))
             s == [sock EXCEPT !.rxQueueCount = n, !.rxQueue = q]
  <2>1. RestoreRxQueue(s) /\ Head(bmmQ).type = "READ_IND" /\ sock.state = "CONNECTED"
    BY <1>7 DEF QueueReadInd, BmmReceive
  <2>2. Head(bmmQ) \in ReadInd
    BY <1>3, <1>4, <2>1
  <2>3. sock.rxAppCredits = 0 /\ sock.rxQueueCount = Len(sock.rxQueue)
    <3>1. sock.rxAppCredits \in Nat
      BY <1>1 DEF SockType
    <3> QED BY <1>7, <2>1, <3>1 DEF QueueReadInd, CreditOrIndication
  <2>4. /\ sock.rxQueue \in Seq(ReadInd) /\ q \in Seq(ReadInd)
        /\ Len(q) = Len(sock.rxQueue) + 1 /\ n \in Nat /\ n = Len(q)
    BY <1>1, <2>2, <2>3 DEF SockType
  <2> HIDE DEF n, q
  <2>5. /\ s \in SockType /\ s.state = "CONNECTED" /\ s.rxQueueCount = n /\ s.rxQueue = q
        /\ s.rxAppCredits = 0
    BY <1>1, <2>1, <2>3, <2>4 DEF SockType
  <2> HIDE DEF s
  <2>6. PICK k \in 0 .. Len(s.rxQueue) :
             /\ k <= s.rxAppCredits
             /\ sock'.rxAppCredits = s.rxAppCredits - k
             /\ sock'.rxQueueCount = s.rxQueueCount - k
             /\ sock'.rxQueue \in Seq(ReadInd)
             /\ Len(sock'.rxQueue) = Len(s.rxQueue) - k
             /\ \A i \in 1 .. Len(s.rxQueue) - k : sock'.rxQueue[i] = s.rxQueue[k + i]
             /\ appQ' \in Seq(Sdu) /\ Len(appQ') = Len(appQ) + k
             /\ \A i \in 1 .. Len(appQ) : appQ'[i] = appQ[i]
    BY <1>1, <2>1, <2>4, <2>5, RestoreExact
  <2>7. k = 0
    BY <2>5, <2>6
  <2>8. /\ sock'.rxAppCredits = 0 /\ sock'.rxQueueCount = n
        /\ sock'.rxQueue \in Seq(ReadInd) /\ Len(sock'.rxQueue) = Len(q)
        /\ \A i \in 1 .. Len(q) : sock'.rxQueue[i] = q[i]
        /\ appQ' \in Seq(Sdu) /\ Len(appQ') = Len(appQ)
        /\ \A i \in 1 .. Len(appQ) : appQ'[i] = appQ[i]
    BY <1>1, <2>4, <2>5, <2>6, <2>7
  <2>9. sock'.rxQueue = q
    BY <2>4, <2>8, SeqEqual
  <2>10. appQ' = appQ
    BY <1>1, <2>8, SeqEqual
  <2> QED BY <1>3, <2>1, <2>2, <2>3, <2>8, <2>9, <2>10 DEF n, q
<1>8. CASE HandleDataRsp
  <2> DEFINE n == sock.rxAppCredits + 1
             s == [sock EXCEPT !.rxAppCredits = n]
  <2>1. RestoreRxQueue(s) /\ Head(bmmQ).type = "DATA_RSP"
    BY <1>8 DEF HandleDataRsp, BmmReceive
  <2>2. n \in Nat
    BY <1>1 DEF SockType
  <2> HIDE DEF n
  <2>3. s \in SockType /\ s.state = sock.state
    BY <1>1, <2>2 DEF SockType
  <2> HIDE DEF s
  <2>4. l2capQ \in Seq(L2capMsg)
    BY DEF TypeOK
  <2>5. sock'.state = s.state
    BY <1>1, <2>1, <2>3, <2>4, RestoreTyped
  <2> QED BY <1>3, <1>8, <2>1, <2>3, <2>5
<1>9. CASE HandleSetParams
  <2>1. sock' = [sock EXCEPT !.creditInitialised = TRUE] /\ appQ' = appQ
        /\ Head(bmmQ).type = "SET_PARAMS_REQ"
    BY <1>9 DEF HandleSetParams, BmmReceive
  <2> QED BY <1>1, <1>3, <2>1 DEF SockType
<1>10. CASE RefuseSetParams
  BY <1>3, <1>10 DEF RefuseSetParams, BmmReceive
<1>11. CASE HandleDisconnectInd
  <2>1. sock' = [sock EXCEPT !.state = IF sock.state = "CONNECTED" THEN "IN_ERROR" ELSE sock.state]
    BY <1>11 DEF HandleDisconnectInd
  <2>2. sock'.state # "CONNECTED"
    BY <1>1, <2>1 DEF SockType
  <2> QED BY <2>2
<1>12. CASE HandleCloseReq
  BY <1>12 DEF HandleCloseReq
<1> QED BY <1>5, <1>6, <1>7, <1>8, <1>9, <1>10, <1>11, <1>12 DEF BmmStep

\* Every step keeps the account of the credits of the BMM.
LEMMA NextAnswer == TypeOK /\ CreditOrIndication /\ [Next]_vars => CreditOrIndication'
<1> SUFFICES ASSUME TypeOK, CreditOrIndication, [Next]_vars, sock'.state = "CONNECTED"
             PROVE  /\ sock'.rxAppCredits + Len(appQ') + Count(bmmQ', "DATA_RSP") = AppCredit
                    /\ sock'.rxQueueCount = Len(sock'.rxQueue)
                    /\ sock'.rxAppCredits > 0 => sock'.rxQueue = <<>>
  BY DEF CreditOrIndication
<1>1. /\ sock \in SockType /\ appQ \in Seq(Sdu) /\ bmmQ \in Seq(BmmMsg)
      /\ sock.rxAppCredits \in Nat /\ sock.rxQueueCount \in Nat /\ Len(appQ) \in Nat
      /\ sock.rxQueue \in Seq(ReadInd)
  BY DEF TypeOK, SockType
<1>2. PICK t : t = "DATA_RSP"
  OBVIOUS
<1>3. /\ Count(bmmQ, t) \in Nat
      /\ \A m \in BmmMsg : Count(Append(bmmQ, m), t) = Count(bmmQ, t) + One(m.type = t)
      /\ bmmQ # <<>> => Count(bmmQ, t) = Count(Tail(bmmQ), t) + One(Head(bmmQ).type = t)
  BY <1>1, CountSteps
<1>4. sock.state = "CONNECTED" =>
        /\ sock.rxAppCredits + Len(appQ) + Count(bmmQ, t) = AppCredit
        /\ sock.rxQueueCount = Len(sock.rxQueue)
        /\ sock.rxAppCredits > 0 => sock.rxQueue = <<>>
  BY <1>2 DEF CreditOrIndication
<1>5. One(TRUE) = 1 /\ One(FALSE) = 0
  BY DEF One
<1>6. ASSUME sock' = sock, appQ' = appQ, Count(bmmQ', t) = Count(bmmQ, t)
      PROVE  /\ sock'.rxAppCredits + Len(appQ') + Count(bmmQ', t) = AppCredit
             /\ sock'.rxQueueCount = Len(sock'.rxQueue)
             /\ sock'.rxAppCredits > 0 => sock'.rxQueue = <<>>
  BY <1>4, <1>6
<1>7. CASE UNCHANGED vars
  BY <1>2, <1>6, <1>7 DEF vars
<1>8. CASE PeerStep \/ L2capFrame \/ RejectFrame \/ L2capRequest \/ OffloadMgrStep
  <2>1. /\ sock' = sock
        /\ \/ bmmQ' = bmmQ /\ appQ' = appQ
           \/ /\ appQ' = appQ
              /\ \E m \in BmmMsg : bmmQ' = Append(bmmQ, m) /\ m.type # t
           \/ HandleDataInd
    BY <1>2, <1>8, OthersSend
  <2>2. CASE bmmQ' = bmmQ /\ appQ' = appQ
    BY <1>2, <1>6, <2>1, <2>2
  <2>3. CASE appQ' = appQ /\ \E m \in BmmMsg : bmmQ' = Append(bmmQ, m) /\ m.type # t
    <3>1. PICK m \in BmmMsg : bmmQ' = Append(bmmQ, m) /\ m.type # t
      BY <2>3
    <3>2. One(m.type = t) = 0
      BY <3>1 DEF One
    <3>3. Count(bmmQ', t) = Count(bmmQ, t)
      BY <1>3, <3>1, <3>2
    <3> QED BY <1>2, <1>6, <2>1, <2>3, <3>3
  <2>4. CASE HandleDataInd
    <3>1. PICK m : m = [type |-> "DATA_RSP"]
      OBVIOUS
    <3>2. m \in BmmMsg /\ m.type = t
      BY <1>2, <3>1, MessagesTyped
    <3>3. bmmQ' = Append(bmmQ, m) /\ appQ # <<>> /\ appQ' = Tail(appQ)
      BY <2>4, <3>1 DEF HandleDataInd
    <3>4. Len(appQ') = Len(appQ) - 1
      BY <1>1, <3>3
    <3>5. Count(bmmQ', t) = Count(bmmQ, t) + 1
      <4>1. (m.type = t) = TRUE
        BY <3>2
      <4> QED BY <1>3, <1>5, <3>2, <3>3, <4>1
    <3> DEFINE c == sock.rxAppCredits
               a == Len(appQ)
               d == Count(bmmQ, t)
    <3>6. c + (a - 1) + (d + 1) = AppCredit
      <4>1. c \in Nat /\ a \in Nat /\ d \in Nat /\ c + a + d = AppCredit
        BY <1>1, <1>3, <1>4, <2>1
      <4> HIDE DEF c, a, d
      <4> QED BY <4>1
    <3> QED BY <1>2, <1>4, <2>1, <3>4, <3>5, <3>6
  <2> QED BY <2>1, <2>2, <2>3, <2>4
<1>9. CASE BmmStep
  <2>1. /\ sock.state = "CONNECTED" /\ bmmQ # <<>> /\ bmmQ' = Tail(bmmQ)
        /\ \/ DeliverReadInd /\ Head(bmmQ) \in ReadInd
           \/ /\ Head(bmmQ) \in ReadInd /\ appQ' = appQ
              /\ sock.rxAppCredits = 0 /\ sock'.rxAppCredits = 0
              /\ sock'.rxQueueCount = sock.rxQueueCount + 1
              /\ sock'.rxQueue = Append(sock.rxQueue, Head(bmmQ))
           \/ HandleDataRsp /\ Head(bmmQ).type = "DATA_RSP"
           \/ /\ Head(bmmQ).type \notin {"READ_IND", "DATA_RSP"} /\ appQ' = appQ
              /\ \A f \in {"rxAppCredits", "rxQueueCount", "rxQueue"} : sock'[f] = sock[f]
    BY <1>9, BmmConnected
  <2>2. Count(bmmQ', t) = Count(bmmQ, t) - One(Head(bmmQ).type = t) /\ Count(bmmQ', t) \in Nat
    <3>1. Tail(bmmQ) \in Seq(BmmMsg)
      BY <1>1, <2>1, TailTyped
    <3>2. Count(Tail(bmmQ), t) \in Nat
      BY <3>1, CountSteps
    <3>3. One(Head(bmmQ).type = t) \in Nat
      BY DEF One
    <3> QED BY <1>3, <2>1, <3>2, <3>3
  <2>3. ASSUME Head(bmmQ).type # t PROVE Count(bmmQ', t) = Count(bmmQ, t)
    <3>1. One(Head(bmmQ).type = t) = 0
      BY <2>3 DEF One
    <3> QED BY <1>3, <2>2, <3>1
  <2>4. CASE DeliverReadInd /\ Head(bmmQ) \in ReadInd
    <3>1. Head(bmmQ).type # t
      BY <1>2, <2>4 DEF ReadInd
    <3>2. /\ sock' = [sock EXCEPT !.rxAppCredits = sock.rxAppCredits - 1]
          /\ appQ' = Append(appQ, Head(bmmQ).sdu) /\ sock.rxQueue = <<>>
      BY <2>4 DEF DeliverReadInd
    <3>3. /\ sock'.rxAppCredits = sock.rxAppCredits - 1 /\ sock'.rxQueue = sock.rxQueue
          /\ sock'.rxQueueCount = sock.rxQueueCount
      BY <1>1, <3>2 DEF SockType
    <3>4. Len(appQ') = Len(appQ) + 1
      BY <1>1, <3>2
    <3>5. Count(bmmQ', t) = Count(bmmQ, t)
      BY <2>3, <3>1
    <3> DEFINE c == sock.rxAppCredits
               a == Len(appQ)
               d == Count(bmmQ, t)
    <3>6. (c - 1) + (a + 1) + d = AppCredit
      <4>1. c \in Nat /\ a \in Nat /\ d \in Nat /\ c + a + d = AppCredit
        BY <1>1, <1>3, <1>4, <2>1
      <4> HIDE DEF c, a, d
      <4> QED BY <4>1
    <3> QED BY <1>2, <1>4, <2>1, <3>2, <3>3, <3>4, <3>5, <3>6
  <2>5. CASE /\ Head(bmmQ) \in ReadInd /\ appQ' = appQ
             /\ sock.rxAppCredits = 0 /\ sock'.rxAppCredits = 0
             /\ sock'.rxQueueCount = sock.rxQueueCount + 1
             /\ sock'.rxQueue = Append(sock.rxQueue, Head(bmmQ))
    <3>1. Head(bmmQ).type # t
      BY <1>2, <2>5 DEF ReadInd
    <3>2. Len(sock'.rxQueue) = Len(sock.rxQueue) + 1
      BY <1>1, <2>5
    <3> QED BY <1>2, <1>4, <2>1, <2>3, <2>5, <3>1, <3>2
  <2>6. CASE HandleDataRsp /\ Head(bmmQ).type = "DATA_RSP"
    <3> DEFINE n == sock.rxAppCredits + 1
               s == [sock EXCEPT !.rxAppCredits = n]
    <3>1. RestoreRxQueue(s)
      BY <2>6 DEF HandleDataRsp
    <3>2. n \in Nat
      BY <1>1
    <3> HIDE DEF n
    <3>3. /\ s \in SockType /\ s.state = "CONNECTED" /\ s.rxQueue = sock.rxQueue
          /\ s.rxQueueCount = sock.rxQueueCount /\ s.rxAppCredits = n
      BY <1>1, <2>1, <3>2 DEF SockType
    <3> HIDE DEF s
    <3>4. PICK k \in 0 .. Len(s.rxQueue) :
           /\ k <= s.rxAppCredits /\ (k = s.rxAppCredits \/ k = Len(s.rxQueue))
           /\ sock'.rxAppCredits = s.rxAppCredits - k
           /\ sock'.rxQueueCount = s.rxQueueCount - k
           /\ sock'.rxQueue \in Seq(ReadInd)
           /\ Len(sock'.rxQueue) = Len(s.rxQueue) - k
           /\ Len(appQ') = Len(appQ) + k
      BY <1>1, <1>4, <2>1, <3>1, <3>3, RestoreExact
    <3>5. Count(bmmQ', t) = Count(bmmQ, t) - 1
      <4>1. (Head(bmmQ).type = t) = TRUE
        BY <1>2, <2>6
      <4> QED BY <1>5, <2>2, <4>1
    <3> DEFINE c == sock.rxAppCredits
               a == Len(appQ)
               d == Count(bmmQ, t)
               l == Len(sock.rxQueue)
    <3>6. /\ sock'.rxAppCredits = c + 1 - k /\ Len(appQ') = a + k
          /\ sock'.rxQueueCount = l - k /\ Len(sock'.rxQueue) = l - k
          /\ k \in 0 .. l /\ (k = c + 1 \/ k = l)
      <4>1. n = c + 1
        BY DEF n
      <4>2. sock.rxQueueCount = l
        BY <1>4, <2>1
      <4>3. Len(s.rxQueue) = l /\ s.rxQueueCount = l /\ s.rxAppCredits = c + 1
        BY <3>3, <4>1, <4>2
      <4>0. c \in Nat /\ l \in Nat /\ k \in Int
        BY <1>1, <3>4
      <4> HIDE DEF c, a, d, l
      <4>4. Len(appQ') = a + k
        BY <3>4 DEF a
      <4>5. /\ sock'.rxAppCredits = c + 1 - k /\ sock'.rxQueueCount = l - k
            /\ Len(sock'.rxQueue) = l - k
        BY <3>4, <4>0, <4>3
      <4>6. k \in 0 .. l /\ (k = c + 1 \/ k = l)
        BY <3>4, <4>3
      <4> QED BY <4>4, <4>5, <4>6
    <3>7. c \in Nat /\ a \in Nat /\ d \in Nat /\ l \in Nat /\ c + a + d = AppCredit
      BY <1>1, <1>3, <1>4, <2>1
    <3> HIDE DEF c, a, d, l
    <3>8. (c + 1 - k) + (a + k) + (d - 1) = AppCredit
      BY <3>7
    <3>9. c + 1 - k > 0 => l - k = 0
      BY <3>6, <3>7
    <3>10. sock'.rxAppCredits > 0 => sock'.rxQueue = <<>>
      BY <3>4, <3>6, <3>9
    <3> QED BY <1>2, <3>5, <3>6, <3>8, <3>10 DEF d
  <2>7. CASE /\ Head(bmmQ).type \notin {"READ_IND", "DATA_RSP"} /\ appQ' = appQ
             /\ \A f \in {"rxAppCredits", "rxQueueCount", "rxQueue"} : sock'[f] = sock[f]
    <3>1. /\ sock'["rxAppCredits"] = sock["rxAppCredits"] /\ sock'["rxQueue"] = sock["rxQueue"]
          /\ sock'["rxQueueCount"] = sock["rxQueueCount"]
      BY <2>7
    <3>2. Count(bmmQ', t) = Count(bmmQ, t)
      BY <1>2, <2>3, <2>7
    <3> QED BY <1>2, <1>4, <2>1, <2>7, <3>1, <3>2
  <2> QED BY <2>1, <2>4, <2>5, <2>6, <2>7
<1> QED BY <1>7, <1>8, <1>9 DEF Next

\* At first the BMM has all of them.
LEMMA InitAnswer == Init => CreditOrIndication
<1> SUFFICES ASSUME Init PROVE CreditOrIndication
  OBVIOUS
<1>1. appQ = <<>> /\ bmmQ = <<>> /\ sock.rxAppCredits = AppCredit /\ sock.rxQueueCount = 0
      /\ sock.rxQueue = <<>>
  BY DEF Init
<1>2. Count(bmmQ, "DATA_RSP") = 0
  <2>1. {k \in DOMAIN bmmQ : bmmQ[k].type = "DATA_RSP"} = {}
    BY <1>1
  <2> QED BY <2>1, FS_EmptySet DEF Count
<1> QED BY <1>1, <1>2, AppCreditAssumption DEF CreditOrIndication

\* The credits of the BMM are never lost nor made up: AppCredit indications and
\* answers are under way, and an SDU waits only while none is left (bmm.c,
\* rxAppCredits and rxQueue of BmmLecocRestoreRxQueue).
THEOREM CreditOrIndicationKept == Spec => []CreditOrIndication
<1>1. TypeOK /\ CreditOrIndication /\ [Next]_vars => TypeOK' /\ CreditOrIndication'
  BY NextTyped, NextAnswer
<1> QED BY <1>1, InitAnswer, InitTyped, PTL DEF Spec

-----------------------------------------------------------------------------
(* The order of the SDUs.                                                  *)

\* The SDU that the frame after f belongs to.
Opens(f) == f.sdu + One(f.idx = f.size)

\* The frames on their way follow one another, and the peer goes on with o.
AirOrder(a, o) ==
  /\ \A k \in 1 .. Len(a) - 1 : a[k + 1].sdu = Opens(a[k])
  /\ a # <<>> => Opens(a[Len(a)]) = o

\* The SDU of the next frame L2CAP receives.
ComesNext(a, o) == IF a = <<>> THEN o ELSE Head(a).sdu

Inds(q, k) == Cardinality({l \in 1 .. k : q[l].type = "READ_IND"})

Accused(q, k) == \E l \in 1 .. k : q[l].type = "DISCONNECT_IND"

\* The indications to the BMM bring the SDUs after the first n, and L2CAP goes
\* on where they end, unless one before tells it that the channel is lost.
QueueOrder(q, n, next) ==
  /\ \A k \in DOMAIN q :
       q[k].type = "READ_IND" /\ ~Accused(q, k) => q[k].sdu = n + Inds(q, k)
  /\ ~Accused(q, Len(q)) => next = n + Inds(q, Len(q)) + 1

\* How many indications there are up to a place, after a message is appended or
\* handled.
LEMMA IndsSteps ==
  ASSUME NEW q \in Seq(BmmMsg)
  PROVE  /\ \A k \in 0 .. Len(q) : Inds(q, k) \in Nat
         /\ \A m \in BmmMsg, k \in 0 .. Len(q) : Inds(Append(q, m), k) = Inds(q, k)
         /\ \A m \in BmmMsg :
              Inds(Append(q, m), Len(q) + 1) = Inds(q, Len(q)) + One(m.type = "READ_IND")
         /\ q # <<>> => \A k \in 1 .. Len(q) :
              Inds(q, k) = Inds(Tail(q), k - 1) + One(Head(q).type = "READ_IND")
<1>0. PICK t : t = "READ_IND"
  OBVIOUS
<1> DEFINE I(r, k) == Cardinality({l \in 1 .. k : r[l].type = t})
<1>1. \A r, k : Inds(r, k) = I(r, k)
  BY <1>0 DEF Inds
<1>2. ASSUME NEW r \in Seq(BmmMsg) PROVE I(r, Len(r)) = Count(r, t)
  <2>1. DOMAIN r = 1 .. Len(r)
    OBVIOUS
  <2>2. {l \in 1 .. Len(r) : r[l].type = t} = {l \in DOMAIN r : r[l].type = t}
    BY <2>1
  <2> QED BY <2>2 DEF Count
<1>3. ASSUME NEW r \in Seq(BmmMsg), NEW k \in 0 .. Len(r)
      PROVE  I(r, k) = Count(SubSeq(r, 1, k), t) /\ SubSeq(r, 1, k) \in Seq(BmmMsg)
  <2> DEFINE p == SubSeq(r, 1, k)
  <2>1. /\ p \in Seq(BmmMsg) /\ Len(p) = k
        /\ \A i \in 1 .. k : p[i] = r[i]
    BY SubSeqProperties
  <2> HIDE DEF p
  <2>2. {l \in 1 .. k : r[l].type = t} = {l \in DOMAIN p : p[l].type = t}
    BY <2>1
  <2> QED BY <2>1, <2>2 DEF p, Count
<1>4. ASSUME NEW k \in 0 .. Len(q) PROVE I(q, k) \in Nat
  <2>1. I(q, k) = Count(SubSeq(q, 1, k), t) /\ SubSeq(q, 1, k) \in Seq(BmmMsg)
    BY <1>3
  <2> HIDE DEF I
  <2>2. PICK p \in Seq(BmmMsg) : I(q, k) = Count(p, t)
    BY <2>1
  <2> QED BY <2>2, CountSteps
<1>5. ASSUME NEW m \in BmmMsg, NEW k \in 0 .. Len(q) PROVE I(Append(q, m), k) = I(q, k)
  <2>1. \A l \in 1 .. k : Append(q, m)[l] = q[l]
    OBVIOUS
  <2>2. {l \in 1 .. k : Append(q, m)[l].type = t} = {l \in 1 .. k : q[l].type = t}
    BY <2>1
  <2> QED BY <2>2
<1>6. ASSUME NEW m \in BmmMsg
      PROVE  I(Append(q, m), Len(q) + 1) = I(q, Len(q)) + One(m.type = t)
  <2>1. Append(q, m) \in Seq(BmmMsg) /\ Len(Append(q, m)) = Len(q) + 1
    OBVIOUS
  <2>2. Count(Append(q, m), t) = Count(q, t) + One(m.type = t)
    BY CountSteps
  <2> HIDE DEF I
  <2> QED BY <1>2, <2>1, <2>2
<1>7. ASSUME q # <<>>, NEW k \in 1 .. Len(q)
      PROVE  I(q, k) = I(Tail(q), k - 1) + One(Head(q).type = t)
  <2> DEFINE p == SubSeq(q, 1, k)
  <2>1. /\ p \in Seq(BmmMsg) /\ Len(p) = k
        /\ \A i \in 1 .. k : p[i] = q[i]
    BY SubSeqProperties
  <2>2. I(q, k) = Count(p, t)
    BY <1>3
  <2> HIDE DEF p
  <2>3. /\ Tail(p) \in Seq(BmmMsg) /\ Len(Tail(p)) = k - 1
        /\ \A i \in 1 .. k - 1 : Tail(p)[i] = p[i + 1]
        /\ Tail(q) \in Seq(BmmMsg) /\ Len(Tail(q)) = Len(q) - 1
        /\ \A i \in 1 .. Len(q) - 1 : Tail(q)[i] = q[i + 1]
    BY <1>7, <2>1, HeadTailProperties
  <2>4. p # <<>> /\ Head(p) = Head(q)
    BY <1>7, <2>1
  <2>5. Count(p, t) = Count(Tail(p), t) + One(Head(p).type = t)
    BY <2>1, <2>4, CountSteps
  <2>6. I(Tail(q), k - 1) = Count(Tail(p), t)
    <3>1. \A i \in 1 .. k - 1 : Tail(q)[i] = Tail(p)[i]
      BY <2>1, <2>3
    <3>2. {l \in 1 .. k - 1 : Tail(q)[l].type = t} = {l \in DOMAIN Tail(p) : Tail(p)[l].type = t}
      BY <2>3, <3>1
    <3> QED BY <3>2 DEF Count
  <2> HIDE DEF I
  <2> QED BY <2>2, <2>4, <2>5, <2>6
<1> HIDE DEF I
<1> QED BY <1>0, <1>1, <1>4, <1>5, <1>6, <1>7

\* What messages appended to the queue of the BMM do to its order.
LEMMA OrderAppend ==
  ASSUME NEW q \in Seq(BmmMsg), NEW n \in Nat, NEW next \in Nat, QueueOrder(q, n, next),
         NEW m \in BmmMsg
  PROVE  /\ m.type # "READ_IND" => QueueOrder(Append(q, m), n, next)
         /\ m.type = "READ_IND" /\ m.sdu = next => QueueOrder(Append(q, m), n, next + 1)
         /\ m.type = "DISCONNECT_IND" => \A next2 : QueueOrder(Append(q, m), n, next2)
<1> DEFINE r == Append(q, m)
           l == Len(q)
<1>1. /\ Len(r) = l + 1 /\ r[l + 1] = m /\ l \in Nat /\ DOMAIN r = 1 .. l + 1
      /\ DOMAIN q = 1 .. l /\ \A k \in 1 .. l : r[k] = q[k]
  OBVIOUS
<1>2. /\ \A k \in 0 .. l : Inds(q, k) \in Nat /\ Inds(r, k) = Inds(q, k)
      /\ Inds(r, l + 1) = Inds(q, l) + One(m.type = "READ_IND")
  BY IndsSteps
<1> HIDE DEF r, l
<1>3. \A k \in 0 .. l : Accused(r, k) <=> Accused(q, k)
  BY <1>1 DEF Accused
<1>4. Accused(r, l + 1) <=> Accused(q, l) \/ m.type = "DISCONNECT_IND"
  BY <1>1 DEF Accused
<1>5. \A k \in 1 .. l : r[k].type = "READ_IND" /\ ~Accused(r, k) => r[k].sdu = n + Inds(r, k)
  BY SMTT(30), <1>1, <1>2, <1>3 DEF QueueOrder
<1>6. ~Accused(q, l) => next = n + Inds(q, l) + 1
  BY DEF QueueOrder, l
<1>7. Inds(q, l) \in Nat
  BY <1>1, <1>2
<1>8. ASSUME m.type # "READ_IND" PROVE QueueOrder(r, n, next)
  <2>1. Inds(r, l + 1) = Inds(q, l)
    <3>1. One(m.type = "READ_IND") = 0
      BY <1>8 DEF One
    <3> QED BY <1>2, <1>7, <3>1
  <2> QED BY <1>1, <1>4, <1>5, <1>6, <1>8, <2>1 DEF QueueOrder
<1>9. ASSUME m.type = "READ_IND", m.sdu = next PROVE QueueOrder(r, n, next + 1)
  <2>1. Inds(r, l + 1) = Inds(q, l) + 1
    <3>1. One(m.type = "READ_IND") = 1
      BY <1>9 DEF One
    <3> QED BY <1>2, <3>1
  <2>2. ~Accused(r, l + 1) => next = n + Inds(r, l + 1) /\ next + 1 = n + Inds(r, l + 1) + 1
    BY <1>4, <1>6, <1>7, <2>1
  <2> QED BY <1>1, <1>5, <1>9, <2>2 DEF QueueOrder
<1>10. ASSUME m.type = "DISCONNECT_IND", NEW next2 PROVE QueueOrder(r, n, next2)
  BY <1>1, <1>4, <1>5, <1>10 DEF QueueOrder
<1> QED BY <1>8, <1>9, <1>10 DEF r

\* What handling a message does to it: an indication brings the next SDU.
LEMMA OrderTail ==
  ASSUME NEW q \in Seq(BmmMsg), q # <<>>, NEW n \in Nat, NEW next \in Nat,
         QueueOrder(q, n, next), Head(q).type # "DISCONNECT_IND"
  PROVE  /\ Head(q).type # "READ_IND" => QueueOrder(Tail(q), n, next)
         /\ Head(q).type = "READ_IND" =>
              Head(q).sdu = n + 1 /\ QueueOrder(Tail(q), n + 1, next)
<1> DEFINE r == Tail(q)
           l == Len(r)
<1>1. /\ r \in Seq(BmmMsg) /\ l \in Nat /\ Len(q) = l + 1 /\ DOMAIN r = 1 .. l
      /\ DOMAIN q = 1 .. l + 1 /\ Head(q) = q[1] /\ \A k \in 1 .. l : r[k] = q[k + 1]
  BY TailTyped
<1>2. /\ \A k \in 1 .. l + 1 : Inds(q, k) = Inds(r, k - 1) + One(Head(q).type = "READ_IND")
      /\ \A k \in 0 .. l : Inds(r, k) \in Nat
  BY <1>1, IndsSteps
<1> HIDE DEF r, l
<1>3. ASSUME NEW k \in 0 .. l PROVE Accused(q, k + 1) <=> Accused(r, k)
  <2>1. ASSUME Accused(q, k + 1) PROVE Accused(r, k)
    <3>1. PICK i \in 1 .. k + 1 : q[i].type = "DISCONNECT_IND"
      BY <2>1 DEF Accused
    <3>2. i # 1
      BY <1>1, <3>1
    <3>3. i - 1 \in 1 .. k /\ i - 1 \in 1 .. l /\ (i - 1) + 1 = i
      BY <1>1, <3>2
    <3>4. r[i - 1] = q[i]
      BY <1>1, <3>3
    <3> QED BY <3>1, <3>3, <3>4 DEF Accused
  <2>2. ASSUME Accused(r, k) PROVE Accused(q, k + 1)
    <3>1. PICK i \in 1 .. k : r[i].type = "DISCONNECT_IND"
      BY <2>2 DEF Accused
    <3>2. i + 1 \in 1 .. k + 1 /\ i \in 1 .. l
      BY <1>1
    <3> QED BY <1>1, <3>1, <3>2 DEF Accused
  <2> QED BY <2>1, <2>2
<1>4. ASSUME NEW d \in Nat, One(Head(q).type = "READ_IND") = d
      PROVE  QueueOrder(r, n + d, next)
  <2>1. \A k \in 0 .. l : Inds(q, k + 1) = Inds(r, k) + d /\ Inds(r, k) \in Nat
    <3> TAKE k \in 0 .. l
    <3>1. k + 1 \in 1 .. l + 1 /\ k + 1 - 1 = k
      BY <1>1
    <3> QED BY <1>2, <1>4, <3>1
  <2>2. ASSUME NEW k \in 1 .. l, r[k].type = "READ_IND", ~Accused(r, k)
        PROVE  r[k].sdu = n + d + Inds(r, k)
    <3>1. k + 1 \in DOMAIN q /\ k \in 0 .. l
      BY <1>1
    <3>2. q[k + 1].sdu = n + Inds(q, k + 1)
      BY <1>1, <1>3, <2>2, <3>1 DEF QueueOrder
    <3>3. Inds(q, k + 1) = Inds(r, k) + d /\ Inds(r, k) \in Nat
      BY <2>1, <3>1
    <3>4. r[k].sdu = q[k + 1].sdu
      BY <1>1
    <3> QED BY <3>2, <3>3, <3>4
  <2>3. ASSUME ~Accused(r, l) PROVE next = n + d + Inds(r, l) + 1
    <3>1. l \in 0 .. l /\ Len(q) = l + 1
      BY <1>1
    <3>2. next = n + Inds(q, l + 1) + 1
      BY <1>3, <2>3, <3>1 DEF QueueOrder
    <3>3. Inds(q, l + 1) = Inds(r, l) + d /\ Inds(r, l) \in Nat
      BY <2>1, <3>1
    <3> QED BY <3>2, <3>3
  <2> QED BY <1>1, <2>2, <2>3 DEF QueueOrder, l
<1>5. ASSUME Head(q).type # "READ_IND" PROVE QueueOrder(r, n, next)
  <2>1. One(Head(q).type = "READ_IND") = 0 /\ n + 0 = n
    BY <1>5 DEF One
  <2> QED BY <1>4, <2>1
<1>6. ASSUME Head(q).type = "READ_IND" PROVE Head(q).sdu = n + 1 /\ QueueOrder(r, n + 1, next)
  <2>1. One(Head(q).type = "READ_IND") = 1
    BY <1>6 DEF One
  <2>2. QueueOrder(r, n + 1, next)
    BY <1>4, <2>1
  <2>3. Inds(q, 1) = 1
    <3>1. Inds(r, 0) = 0
      <4>1. {i \in 1 .. 0 : r[i].type = "READ_IND"} = {}
        OBVIOUS
      <4> QED BY <4>1, FS_EmptySet DEF Inds
    <3>2. 1 \in 1 .. l + 1 /\ 1 - 1 = 0
      BY <1>1
    <3> QED BY <1>2, <2>1, <3>1, <3>2
  <2>4. ~Accused(q, 1)
    BY <1>1 DEF Accused
  <2>5. q[1].sdu = n + Inds(q, 1)
    <3>1. 1 \in DOMAIN q
      BY <1>1
    <3> QED BY <1>1, <1>6, <2>4, <3>1 DEF QueueOrder
  <2> QED BY <1>1, <2>2, <2>3, <2>5
<1> QED BY <1>5, <1>6 DEF r

\* Where each SDU is: received, in the pipe, waiting with the BMM, on its way
\* to it or still in the air, each place going on where the one before ends.
OrderInv ==
  /\ AirOrder(air, Opens(peer))
  /\ \A k \in DOMAIN received : received[k] = k
  /\ \A k \in DOMAIN appQ : appQ[k] = Len(received) + k
  /\ sock.state = "CONNECTED" =>
       /\ \A k \in DOMAIN sock.rxQueue :
            sock.rxQueue[k].sdu = Len(received) + Len(appQ) + k
       /\ QueueOrder(bmmQ, Len(received) + Len(appQ) + Len(sock.rxQueue),
                     ComesNext(air, Opens(peer)))

\* The invariants the order of the SDUs rests on.
ReceiveInv == TypeOK /\ CreditOrIndication /\ OrderInv

\* The types the proofs of the order use.
LEMMA OrderTypes ==
  ASSUME TypeOK
  PROVE  /\ peer \in PeerType /\ air \in Seq(Frame) /\ bmmQ \in Seq(BmmMsg)
         /\ sock \in SockType /\ sock.rxQueue \in Seq(ReadInd) /\ sock.rxAppCredits \in Nat
         /\ appQ \in Seq(Sdu) /\ received \in Seq(Sdu)
         /\ Len(appQ) \in Nat /\ Len(received) \in Nat /\ Len(sock.rxQueue) \in Nat
         /\ Len(received) + Len(appQ) + Len(sock.rxQueue) \in Nat
         /\ Opens(peer) \in Nat /\ ComesNext(air, Opens(peer)) \in Nat
<1>1. peer \in PeerType /\ sock \in SockType /\ air \in Seq(Frame)
  BY DEF TypeOK, PeerType, SockType
<1>2. Opens(peer) \in Nat
  <2>1. peer.sdu \in Nat
    BY <1>1 DEF PeerType
  <2> QED BY <2>1 DEF Opens, One
<1>3. ComesNext(air, Opens(peer)) \in Nat
  <2>1. ASSUME air # <<>> PROVE Head(air).sdu \in Nat
    <3>1. Head(air) \in Frame
      BY <1>1, <2>1
    <3>2. Head(air).sdu \in Sdu
      BY <3>1 DEF Frame
    <3> QED BY <3>2 DEF Sdu
  <2> QED BY <1>2, <2>1 DEF ComesNext
<1>4. sock.rxQueue \in Seq(ReadInd) /\ sock.rxAppCredits \in Nat
  BY <1>1 DEF SockType
<1>5. bmmQ \in Seq(BmmMsg) /\ appQ \in Seq(Sdu) /\ received \in Seq(Sdu)
  BY DEF TypeOK
<1>6. Len(appQ) \in Nat /\ Len(received) \in Nat /\ Len(sock.rxQueue) \in Nat
  BY <1>4, <1>5
<1>7. \A x, y, z \in Nat : x + y + z \in Nat
  OBVIOUS
<1>8. Len(received) + Len(appQ) + Len(sock.rxQueue) \in Nat
  BY ONLY <1>6, <1>7
<1> QED BY <1>1, <1>2, <1>3, <1>4, <1>5, <1>6, <1>8

\* The peer sends its SDUs one after the other, and their frames too.
LEMMA PeerOrder ==
  ASSUME TypeOK, AirOrder(air, Opens(peer)), PeerStep
  PROVE  /\ AirOrder(air', Opens(peer'))
         /\ ComesNext(air', Opens(peer')) = ComesNext(air, Opens(peer))
         /\ UNCHANGED <<bmmQ, sock, appQ, received>>
<1>1. peer \in PeerType /\ air \in Seq(Frame)
  BY OrderTypes
<1>2. UNCHANGED <<bmmQ, sock, appQ, received>>
  BY DEF PeerStep, PeerStartsSdu, PeerContinuesSdu, PeerCheats, PeerGetsCredits, SendFrame
<1>3. ASSUME NEW p, SendFrame(p), p.sdu = Opens(peer)
      PROVE  /\ AirOrder(air', Opens(peer'))
             /\ ComesNext(air', Opens(peer')) = ComesNext(air, Opens(peer))
  <2> DEFINE f == [sdu |-> p.sdu, idx |-> p.idx, size |-> p.size]
  <2>1. air' = Append(air, f) /\ peer' = p
    BY <1>3 DEF SendFrame
  <2>2. f.sdu = Opens(peer) /\ Opens(f) = Opens(p)
    BY <1>3 DEF Opens
  <2> HIDE DEF f
  <2> DEFINE r == Append(air, f)
             l == Len(air)
  <2>3. /\ l \in Nat /\ Len(r) = l + 1 /\ r[l + 1] = f /\ r # <<>>
        /\ \A k \in 1 .. l : r[k] = air[k]
        /\ air # <<>> => Head(r) = Head(air) /\ l # 0
        /\ air = <<>> => Head(r) = f /\ l = 0
    BY <1>1
  <2> HIDE DEF r, l
  <2>4. ASSUME NEW k \in 1 .. Len(r) - 1 PROVE r[k + 1].sdu = Opens(r[k])
    <3>1. CASE k = l
      <4>1. air # <<>>
        BY <2>3, <3>1
      <4>2. Opens(air[l]) = Opens(peer)
        BY <4>1 DEF AirOrder, l
      <4>3. r[k + 1] = f /\ r[k] = air[l]
        BY <2>3, <3>1
      <4> QED BY <2>2, <4>2, <4>3
    <3>2. CASE k # l
      <4>1. k \in 1 .. l - 1 /\ k \in 1 .. l /\ k + 1 \in 1 .. l
        BY <2>3, <3>2
      <4>2. air[k + 1].sdu = Opens(air[k])
        BY <4>1 DEF AirOrder, l
      <4>3. r[k + 1] = air[k + 1] /\ r[k] = air[k]
        BY <2>3, <4>1
      <4> QED BY <4>2, <4>3
    <3> QED BY <3>1, <3>2
  <2>5. Opens(r[Len(r)]) = Opens(peer')
    BY <2>1, <2>2, <2>3
  <2>6. AirOrder(r, Opens(peer'))
    BY <2>4, <2>5 DEF AirOrder
  <2>7. ComesNext(r, Opens(peer')) = ComesNext(air, Opens(peer))
    BY <2>2, <2>3 DEF ComesNext
  <2> QED BY <2>1, <2>6, <2>7 DEF r
<1>4. SduComplete => Opens(peer) = peer.sdu + 1
  BY DEF SduComplete, Opens, One
<1>5. ~SduComplete => Opens(peer) = peer.sdu
  <2>1. peer.sdu + 0 = peer.sdu
    BY <1>1 DEF PeerType
  <2> QED BY <2>1 DEF SduComplete, Opens, One
<1>6. ASSUME NEW n \in Sizes, PeerStartsSdu(n)
      PROVE  \E p : SendFrame(p) /\ p.sdu = Opens(peer)
  <2> DEFINE p == [credits |-> peer.credits - 1, sdu |-> peer.sdu + 1, idx |-> 1, size |-> n,
                   honest |-> peer.honest]
  <2>1. SendFrame(p) /\ p.sdu = peer.sdu + 1 /\ SduComplete
    BY <1>6 DEF PeerStartsSdu
  <2> HIDE DEF p
  <2> QED BY <1>4, <2>1
<1>7. ASSUME PeerCheats
      PROVE  \E p : SendFrame(p) /\ p.sdu = Opens(peer)
  <2> DEFINE p == [credits |-> 0, sdu |-> peer.sdu + 1, idx |-> 1, size |-> 1, honest |-> FALSE]
  <2>1. SendFrame(p) /\ p.sdu = peer.sdu + 1 /\ SduComplete
    BY <1>7 DEF PeerCheats
  <2> HIDE DEF p
  <2> QED BY <1>4, <2>1
<1>8. ASSUME PeerContinuesSdu
      PROVE  \E p : SendFrame(p) /\ p.sdu = Opens(peer)
  <2> DEFINE p == [peer EXCEPT !.credits = peer.credits - 1, !.idx = peer.idx + 1]
  <2>1. SendFrame(p) /\ ~SduComplete
    BY <1>8 DEF PeerContinuesSdu
  <2>2. p.sdu = peer.sdu
    BY <1>1 DEF PeerType
  <2> HIDE DEF p
  <2> QED BY <1>5, <2>1, <2>2
<1>9. CASE PeerGetsCredits
  <2>1. PICK n \in 1 .. grant : peer' = [peer EXCEPT !.credits = peer.credits + n]
    BY <1>9 DEF PeerGetsCredits
  <2>2. peer'.sdu = peer.sdu /\ peer'.idx = peer.idx /\ peer'.size = peer.size
    BY <1>1, <2>1 DEF PeerType
  <2>3. Opens(peer') = Opens(peer) /\ air' = air
    BY <1>9, <2>2 DEF Opens, PeerGetsCredits
  <2> QED BY <1>2, <2>3
<1> QED BY <1>2, <1>3, <1>6, <1>7, <1>8, <1>9 DEF PeerStep

\* What L2CAP receives of the air: the SDU of the first frame comes next, and
\* after it the one that frame opens.
LEMMA AirTail ==
  ASSUME NEW a \in Seq(Frame), a # <<>>, NEW o, AirOrder(a, o)
  PROVE  /\ AirOrder(Tail(a), o)
         /\ ComesNext(a, o) = Head(a).sdu
         /\ ComesNext(Tail(a), o) = Opens(Head(a))
<1> DEFINE r == Tail(a)
           l == Len(r)
<1>1. /\ r \in Seq(Frame) /\ l \in Nat /\ Len(a) = l + 1 /\ Head(a) = a[1]
      /\ \A k \in 1 .. l : r[k] = a[k + 1]
      /\ r = <<>> <=> l = 0
      /\ r # <<>> => Head(r) = r[1]
  <2>1. /\ r \in Seq(Frame) /\ Len(a) \in Nat \ {0} /\ l = Len(a) - 1
        /\ \A k \in DOMAIN r : r[k] = a[k + 1]
    BY TailTyped
  <2>2. Head(a) = a[1] /\ (r # <<>> => Head(r) = r[1])
    BY <2>1
  <2>3. DOMAIN r = 1 .. l /\ (r = <<>> <=> l = 0)
    BY <2>1
  <2> QED BY <2>1, <2>2, <2>3
<1> HIDE DEF r, l
<1>2. /\ \A k \in 1 .. l : a[k + 1].sdu = Opens(a[k])
      /\ Opens(a[l + 1]) = o
  BY <1>1 DEF AirOrder
<1>3. ASSUME NEW k \in 1 .. l - 1 PROVE r[k + 1].sdu = Opens(r[k])
  <2>1. k \in 1 .. l /\ k + 1 \in 1 .. l
    BY <1>1
  <2> QED BY <1>1, <1>2, <2>1
<1>4. r # <<>> => Opens(r[l]) = o
  BY <1>1, <1>2
<1>5. AirOrder(r, o)
  BY <1>3, <1>4 DEF AirOrder, l
<1>6. ComesNext(r, o) = Opens(Head(a))
  <2>1. CASE r = <<>>
    BY <1>1, <1>2, <2>1 DEF ComesNext
  <2>2. CASE r # <<>>
    <3>1. 1 \in 1 .. l
      BY <1>1, <2>2
    <3>2. r[1] = a[1 + 1] /\ a[1 + 1].sdu = Opens(a[1])
      BY <1>1, <1>2, <3>1
    <3> QED BY <1>1, <2>2, <3>2 DEF ComesNext
  <2> QED BY <2>1, <2>2
<1> QED BY <1>5, <1>6 DEF r, ComesNext

\* L2CAP hands an SDU over when its last frame is there.
LEMMA FrameOrder ==
  ASSUME TypeOK, AirOrder(air, Opens(peer)), L2capFrame, NEW n \in Nat,
         sock.state = "CONNECTED" => QueueOrder(bmmQ, n, ComesNext(air, Opens(peer)))
  PROVE  /\ AirOrder(air', Opens(peer'))
         /\ sock.state = "CONNECTED" => QueueOrder(bmmQ', n, ComesNext(air', Opens(peer')))
         /\ UNCHANGED <<sock, appQ, received>>
<1>1. /\ air \in Seq(Frame) /\ bmmQ \in Seq(BmmMsg) /\ Opens(peer) \in Nat
      /\ ComesNext(air, Opens(peer)) \in Nat
  BY OrderTypes
<1>2. ReceiveFrame
  BY DEF L2capFrame, ReceivePart, ReceiveSdu, AccusePeer, DropFrame
<1>3. air # <<>> /\ air' = Tail(air) /\ UNCHANGED <<peer, sock, appQ, received>>
  BY <1>2 DEF ReceiveFrame
<1> DEFINE o == Opens(peer)
           f == Head(air)
<1>4. Opens(peer') = o
  BY <1>3
<1>5. f \in Frame
  BY <1>1, <1>3
<1>6. /\ AirOrder(air', o) /\ ComesNext(air, o) = f.sdu /\ ComesNext(air', o) = Opens(f)
  BY <1>1, <1>3, AirTail
<1>7. f.sdu \in Nat
  BY <1>5 DEF Frame, Sdu
<1>8. ASSUME sock.state = "CONNECTED" PROVE QueueOrder(bmmQ', n, Opens(f))
  <2>1. QueueOrder(bmmQ, n, f.sdu)
    BY <1>6, <1>8
  <2>2. CASE ReceivePart
    <3>1. bmmQ' = bmmQ /\ f.idx # f.size
      BY <2>2 DEF ReceivePart, EndsSdu
    <3>2. Opens(f) = f.sdu
      BY <1>7, <3>1 DEF Opens, One
    <3> QED BY <2>1, <3>1, <3>2
  <2>3. CASE ReceiveSdu
    <3> DEFINE m == [type |-> "READ_IND", sdu |-> f.sdu, packets |-> flow.packets + 1]
    <3>1. bmmQ' = Append(bmmQ, m) /\ f.idx = f.size
      BY <2>3 DEF ReceiveSdu, EndsSdu
    <3>2. Opens(f) = f.sdu + 1
      BY <3>1 DEF Opens, One
    <3>3. m.type = "READ_IND" /\ m.sdu = f.sdu
      OBVIOUS
    <3>4. m \in BmmMsg
      <4>1. flow \in Flow
        BY DEF TypeOK, Flow
      <4>2. flow.packets + 1 \in Nat \ {0}
        BY <4>1 DEF Flow
      <4>3. f.sdu \in Sdu
        BY <1>5 DEF Frame
      <4> QED BY <4>2, <4>3 DEF BmmMsg, ReadInd
    <3> HIDE DEF m, f
    <3> QED BY <1>1, <1>7, <2>1, <3>1, <3>2, <3>3, <3>4, OrderAppend
  <2>4. CASE AccusePeer
    <3>1. PICK m \in BmmMsg : bmmQ' = Append(bmmQ, m) /\ m.type = "DISCONNECT_IND"
      BY <2>4, MessagesTyped DEF AccusePeer, DisconnectInd
    <3> HIDE DEF f
    <3> QED BY <1>1, <1>7, <2>1, <3>1, OrderAppend
  <2>5. CASE DropFrame
    BY <1>8, <2>5 DEF DropFrame, ChannelOpen
  <2> QED BY <2>2, <2>3, <2>4, <2>5 DEF L2capFrame
<1> QED BY <1>3, <1>4, <1>6, <1>8

\* The messages to the BMM that are not of L2CAP's frames, and the loss of the
\* channel, leave the order as it is.
LEMMA SendOrder ==
  ASSUME TypeOK, OrderInv, NEW m \in BmmMsg, bmmQ' = Append(bmmQ, m), m.type # "READ_IND",
         UNCHANGED <<air, sock, appQ, received>>, Opens(peer') = Opens(peer)
  PROVE  OrderInv'
<1> DEFINE n == Len(received) + Len(appQ) + Len(sock.rxQueue)
           next == ComesNext(air, Opens(peer))
<1>1. bmmQ \in Seq(BmmMsg) /\ n \in Nat /\ next \in Nat
  BY OrderTypes, Zenon
<1>2. sock.state = "CONNECTED" => QueueOrder(bmmQ, n, next)
  BY DEF OrderInv
<1> HIDE DEF n, next
<1>3. sock.state = "CONNECTED" => QueueOrder(bmmQ', n, next)
  BY <1>1, <1>2, OrderAppend
<1> QED BY <1>3 DEF OrderInv, n, next

\* The offload manager passes the SDUs on in the order of its pipe.
LEMMA OffloadMgrOrder ==
  ASSUME TypeOK, OrderInv, OffloadMgrStep
  PROVE  OrderInv'
<1>1. ASSUME OffloadMgrSetsCredits \/ OffloadMgrCloses PROVE OrderInv'
  <2>1. PICK t \in {"SET_PARAMS_REQ", "CLOSE_REQ"} : OffloadMgrSends(t)
    BY <1>1 DEF OffloadMgrSetsCredits, OffloadMgrCloses
  <2>2. PICK m \in BmmMsg : bmmQ' = Append(bmmQ, m) /\ m.type # "READ_IND"
    BY <2>1, MessagesTyped DEF OffloadMgrSends
  <2>3. UNCHANGED <<peer, air, sock, appQ, received>>
    BY <2>1 DEF OffloadMgrSends
  <2> QED BY <2>2, <2>3, SendOrder
<1>2. ASSUME HandleDataInd PROVE OrderInv'
  <2> DEFINE a == Len(appQ)
             b == Len(received)
             c == Len(sock.rxQueue)
             next == ComesNext(air, Opens(peer))
  <2>1. /\ bmmQ \in Seq(BmmMsg) /\ appQ \in Seq(Sdu) /\ received \in Seq(Sdu)
        /\ a \in Nat /\ b \in Nat /\ c \in Nat /\ next \in Nat
    BY OrderTypes
  <2>2. PICK m \in BmmMsg : bmmQ' = Append(bmmQ, m) /\ m.type # "READ_IND"
    BY <1>2, MessagesTyped DEF HandleDataInd
  <2>3. /\ appQ # <<>> /\ appQ' = Tail(appQ) /\ received' = Append(received, Head(appQ))
        /\ UNCHANGED <<peer, air, sock>>
    BY <1>2 DEF HandleDataInd
  <2>4. /\ a > 0 /\ Len(appQ') = a - 1 /\ Len(received') = b + 1 /\ Head(appQ) = appQ[1]
        /\ DOMAIN appQ' = 1 .. a - 1 /\ DOMAIN received' = 1 .. b + 1
        /\ \A k \in 1 .. a - 1 : appQ'[k] = appQ[k + 1]
        /\ \A k \in 1 .. b : received'[k] = received[k]
        /\ received'[b + 1] = appQ[1]
    BY <2>1, <2>3
  <2>5. /\ \A k \in 1 .. a : appQ[k] = b + k
        /\ \A k \in 1 .. b : received[k] = k
        /\ sock.state = "CONNECTED" =>
             /\ \A k \in DOMAIN sock.rxQueue : sock.rxQueue[k].sdu = b + a + k
             /\ QueueOrder(bmmQ, b + a + c, next)
    <3>1. DOMAIN appQ = 1 .. a /\ DOMAIN received = 1 .. b
      BY <2>1
    <3> QED BY ONLY OrderInv, <3>1 DEF OrderInv, a, b, c, next
  <2>6. AirOrder(air, Opens(peer))
    BY DEF OrderInv
  <2> HIDE DEF a, b, c, next
  <2>7. sock.state = "CONNECTED" => QueueOrder(bmmQ', b + a + c, next)
    <3>1. b + a + c \in Nat
      BY <2>1
    <3> QED BY <2>1, <2>2, <2>5, <3>1, OrderAppend
  <2>8. \A k \in DOMAIN received' : received'[k] = k
    <3> SUFFICES ASSUME NEW k \in 1 .. b + 1 PROVE received'[k] = k
      BY <2>4
    <3>1. CASE k = b + 1
      <4>1. 1 \in 1 .. a /\ appQ[1] = b + 1
        BY <2>1, <2>4, <2>5
      <4> QED BY <2>4, <3>1, <4>1
    <3>2. CASE k # b + 1
      <4>1. k \in 1 .. b
        BY <2>1, <3>2
      <4> QED BY <2>4, <2>5, <4>1
    <3> QED BY <3>1, <3>2
  <2>9. \A k \in DOMAIN appQ' : appQ'[k] = Len(received') + k
    <3> SUFFICES ASSUME NEW k \in 1 .. a - 1 PROVE appQ'[k] = b + 1 + k
      BY <2>4
    <3>1. k + 1 \in 1 .. a /\ b + (k + 1) = b + 1 + k
      BY <2>1
    <3>2. appQ'[k] = appQ[k + 1] /\ appQ[k + 1] = b + (k + 1)
      BY <2>4, <2>5, <3>1
    <3> QED BY <3>1, <3>2
  <2>10. Len(received') + Len(appQ') = b + a /\ b + a \in Nat
    BY <2>1, <2>4
  <2> QED BY <2>3, <2>5, <2>6, <2>7, <2>8, <2>9, <2>10 DEF OrderInv, c, next
<1> QED BY <1>1, <1>2 DEF OffloadMgrStep

\* A step of the BMM after which the socket is not connected passes nothing on.
LEMMA BmmNotConnected ==
  ASSUME TypeOK, BmmStep, sock'.state # "CONNECTED"
  PROVE  appQ' = appQ
<1>1. sock \in SockType /\ appQ \in Seq(Sdu) /\ l2capQ \in Seq(L2capMsg) /\ bmmQ \in Seq(BmmMsg)
  BY DEF TypeOK, SockType
<1>2. ASSUME NEW s \in SockType, RestoreRxQueue(s) PROVE appQ' = appQ
  <2>1. s.state # "CONNECTED"
    BY <1>1, <1>2, RestoreTyped
  <2> QED BY <1>2, <2>1 DEF RestoreRxQueue
<1>3. CASE QueueReadInd
  <2> DEFINE n == sock.rxQueueCount + 1
             q == Append(sock.rxQueue, Head(bmmQ))
             s == [sock EXCEPT !.rxQueueCount = n, !.rxQueue = q]
  <2>1. RestoreRxQueue(s) /\ bmmQ # <<>> /\ Head(bmmQ).type = "READ_IND"
    BY <1>3 DEF QueueReadInd, BmmReceive
  <2>2. Head(bmmQ) \in ReadInd
    BY <1>1, <2>1, HeadsTyped, MessagesTyped
  <2>3. n \in Nat /\ q \in Seq(ReadInd)
    BY <1>1, <2>2 DEF SockType
  <2> HIDE DEF n, q
  <2>4. s \in SockType
    BY <1>1, <2>3 DEF SockType
  <2> HIDE DEF s
  <2> QED BY <1>2, <2>1, <2>4
<1>4. CASE HandleDataRsp
  <2> DEFINE n == sock.rxAppCredits + 1
             s == [sock EXCEPT !.rxAppCredits = n]
  <2>1. RestoreRxQueue(s)
    BY <1>4 DEF HandleDataRsp
  <2>2. n \in Nat
    BY <1>1 DEF SockType
  <2> HIDE DEF n
  <2>3. s \in SockType
    BY <1>1, <2>2 DEF SockType
  <2> HIDE DEF s
  <2> QED BY <1>2, <2>1, <2>3
<1>5. CASE DeliverReadInd
  <2>1. sock' = [sock EXCEPT !.rxAppCredits = sock.rxAppCredits - 1] /\ sock.state = "CONNECTED"
    BY <1>5 DEF DeliverReadInd
  <2>2. sock'.state = "CONNECTED"
    BY <1>1, <2>1 DEF SockType
  <2> QED BY <2>2
<1> QED BY <1>3, <1>4, <1>5
        DEF BmmStep, RefuseReadInd, IgnoreDataRsp, HandleSetParams, RefuseSetParams,
            HandleDisconnectInd, HandleCloseReq

\* The BMM passes the SDUs on, or lets them wait, in the order L2CAP brings them.
LEMMA BmmOrder ==
  ASSUME TypeOK, CreditOrIndication, OrderInv, BmmStep
  PROVE  OrderInv'
<1> DEFINE a == Len(appQ)
           b == Len(received)
           c == Len(sock.rxQueue)
           next == ComesNext(air, Opens(peer))
           h == Head(bmmQ)
<1>1. /\ bmmQ \in Seq(BmmMsg) /\ appQ \in Seq(Sdu) /\ sock \in SockType
      /\ sock.rxQueue \in Seq(ReadInd) /\ sock.rxAppCredits \in Nat
      /\ a \in Nat /\ b \in Nat /\ c \in Nat /\ next \in Nat
  BY OrderTypes
<1>2. UNCHANGED <<peer, air, received>>
  BY DEF BmmStep, RefuseReadInd, DeliverReadInd, QueueReadInd, HandleDataRsp, IgnoreDataRsp,
         HandleSetParams, RefuseSetParams, HandleDisconnectInd, HandleCloseReq, BmmReceive
<1>3. /\ AirOrder(air, Opens(peer))
      /\ \A k \in DOMAIN received : received[k] = k
      /\ \A k \in 1 .. a : appQ[k] = b + k
      /\ sock.state = "CONNECTED" =>
           /\ \A k \in 1 .. c : sock.rxQueue[k].sdu = b + a + k
           /\ QueueOrder(bmmQ, b + a + c, next)
  <2>1. DOMAIN appQ = 1 .. a /\ DOMAIN sock.rxQueue = 1 .. c
    BY <1>1
  <2> QED BY ONLY OrderInv, <2>1 DEF OrderInv, a, b, c, next
<1>4. CASE sock'.state # "CONNECTED"
  BY <1>2, <1>4, BmmNotConnected DEF OrderInv
<1>5. CASE sock'.state = "CONNECTED"
  <2>1. /\ sock.state = "CONNECTED" /\ bmmQ # <<>> /\ bmmQ' = Tail(bmmQ)
        /\ h.type # "DISCONNECT_IND"
        /\ \/ DeliverReadInd /\ h \in ReadInd
           \/ /\ h \in ReadInd /\ appQ' = appQ
              /\ sock.rxAppCredits = 0 /\ sock'.rxAppCredits = 0
              /\ sock'.rxQueueCount = sock.rxQueueCount + 1
              /\ sock'.rxQueue = Append(sock.rxQueue, h)
           \/ HandleDataRsp /\ h.type = "DATA_RSP"
           \/ /\ h.type \notin {"READ_IND", "DATA_RSP"} /\ appQ' = appQ
              /\ \A f \in {"rxAppCredits", "rxQueueCount", "rxQueue"} : sock'[f] = sock[f]
    BY <1>5, BmmConnected
  <2>2. h \in ReadInd => h.type = "READ_IND"
    BY DEF ReadInd
  <2>3. QueueOrder(bmmQ, b + a + c, next) /\ b + a + c \in Nat
    <3> HIDE DEF a, b, c, next
    <3> QED BY <1>1, <1>3, <2>1
  <2>4. /\ h.type # "READ_IND" => QueueOrder(bmmQ', b + a + c, next)
        /\ h.type = "READ_IND" =>
             h.sdu = b + a + c + 1 /\ QueueOrder(bmmQ', b + a + c + 1, next)
    <3> HIDE DEF a, b, c, next
    <3>1. PICK n \in Nat : n = b + a + c
      BY <2>3
    <3>2. /\ h.type # "READ_IND" => QueueOrder(Tail(bmmQ), n, next)
          /\ h.type = "READ_IND" => h.sdu = n + 1 /\ QueueOrder(Tail(bmmQ), n + 1, next)
      BY <1>1, <2>1, <2>3, <3>1, OrderTail
    <3> QED BY <2>1, <3>1, <3>2
  <2>5. ASSUME NEW n \in Nat, QueueOrder(bmmQ', n, next),
               b + Len(appQ') + Len(sock'.rxQueue) = n,
               \A k \in DOMAIN appQ' : appQ'[k] = b + k,
               \A k \in DOMAIN sock'.rxQueue : sock'.rxQueue[k].sdu = b + Len(appQ') + k
        PROVE  OrderInv'
    BY <1>2, <1>3, <2>5 DEF OrderInv
  <2> HIDE DEF next, h
  <2>6. CASE DeliverReadInd /\ h \in ReadInd
    <3>1. /\ sock' = [sock EXCEPT !.rxAppCredits = sock.rxAppCredits - 1]
          /\ appQ' = Append(appQ, h.sdu) /\ sock.rxQueue = <<>>
      BY <2>6 DEF DeliverReadInd, h
    <3>2. sock'.rxQueue = <<>> /\ c = 0
      BY <1>1, <3>1 DEF SockType
    <3>3. h.sdu = b + a + 1 /\ QueueOrder(bmmQ', b + a + 1, next)
      <4>1. b + a + c = b + a
        BY <1>1, <3>2
      <4> HIDE DEF a, b, c
      <4> QED BY <2>2, <2>4, <2>6, <4>1
    <3>4. Len(appQ') = a + 1 /\ DOMAIN appQ' = 1 .. a + 1 /\ appQ'[a + 1] = h.sdu
          /\ \A k \in 1 .. a : appQ'[k] = appQ[k]
      BY <1>1, <3>1
    <3>5. Len(sock'.rxQueue) = 0 /\ DOMAIN sock'.rxQueue = {}
      BY <3>2
    <3> HIDE DEF a, b, c
    <3>6. \A k \in DOMAIN appQ' : appQ'[k] = b + k
      <4> SUFFICES ASSUME NEW k \in 1 .. a + 1 PROVE appQ'[k] = b + k
        BY <3>4
      <4>1. CASE k = a + 1
        <5>1. b + a + 1 = b + (a + 1)
          BY <1>1
        <5> QED BY <3>3, <3>4, <4>1, <5>1
      <4>2. CASE k # a + 1
        <5>1. k \in 1 .. a
          BY <1>1, <4>2
        <5> QED BY <1>3, <3>4, <5>1
      <4> QED BY <4>1, <4>2
    <3>7. b + Len(appQ') + Len(sock'.rxQueue) = b + a + 1 /\ b + a + 1 \in Nat
      BY <1>1, <3>4, <3>5
    <3> QED BY <2>5, <3>3, <3>5, <3>6, <3>7
  <2>7. CASE h \in ReadInd /\ appQ' = appQ /\ sock'.rxQueue = Append(sock.rxQueue, h)
    <3>1. h.sdu = b + a + c + 1 /\ QueueOrder(bmmQ', b + a + c + 1, next)
      <4> HIDE DEF a, b, c
      <4> QED BY <2>2, <2>4, <2>7
    <3>2. /\ Len(sock'.rxQueue) = c + 1 /\ DOMAIN sock'.rxQueue = 1 .. c + 1
          /\ sock'.rxQueue[c + 1] = h /\ \A k \in 1 .. c : sock'.rxQueue[k] = sock.rxQueue[k]
      BY <1>1, <2>7
    <3>3. Len(appQ') = a /\ DOMAIN appQ' = 1 .. a /\ \A k \in 1 .. a : appQ'[k] = b + k
      BY <1>1, <1>3, <2>7
    <3> HIDE DEF a, b, c
    <3>4. \A k \in DOMAIN sock'.rxQueue : sock'.rxQueue[k].sdu = b + a + k
      <4> SUFFICES ASSUME NEW k \in 1 .. c + 1 PROVE sock'.rxQueue[k].sdu = b + a + k
        BY <3>2
      <4>1. CASE k = c + 1
        <5>1. b + a + c + 1 = b + a + (c + 1)
          BY <1>1
        <5> QED BY <3>1, <3>2, <4>1, <5>1
      <4>2. CASE k # c + 1
        <5>1. k \in 1 .. c
          BY <1>1, <4>2
        <5> QED BY <1>3, <2>1, <3>2, <5>1
      <4> QED BY <4>1, <4>2
    <3>5. b + Len(appQ') + Len(sock'.rxQueue) = b + a + c + 1 /\ b + a + c + 1 \in Nat
      BY <1>1, <3>2, <3>3
    <3> QED BY <2>5, <3>1, <3>3, <3>4, <3>5
  <2>8. CASE HandleDataRsp /\ h.type = "DATA_RSP"
    <3> DEFINE n == sock.rxAppCredits + 1
               s == [sock EXCEPT !.rxAppCredits = n]
    <3>1. RestoreRxQueue(s)
      BY <2>8 DEF HandleDataRsp
    <3>2. n \in Nat
      BY <1>1
    <3> HIDE DEF n
    <3>3. /\ s \in SockType /\ s.state = "CONNECTED" /\ s.rxQueue = sock.rxQueue
          /\ s.rxQueueCount = sock.rxQueueCount
      BY <1>1, <2>1, <3>2 DEF SockType
    <3>4. sock.rxQueueCount = Len(sock.rxQueue)
      BY <2>1 DEF CreditOrIndication
    <3> HIDE DEF s
    <3>5. PICK k \in 0 .. Len(s.rxQueue) :
           /\ sock'.rxQueue \in Seq(ReadInd)
           /\ Len(sock'.rxQueue) = Len(s.rxQueue) - k
           /\ \A i \in 1 .. Len(s.rxQueue) - k : sock'.rxQueue[i] = s.rxQueue[k + i]
           /\ appQ' \in Seq(Sdu) /\ Len(appQ') = Len(appQ) + k
           /\ \A i \in 1 .. Len(appQ) : appQ'[i] = appQ[i]
           /\ \A i \in 1 .. k : appQ'[Len(appQ) + i] = s.rxQueue[i].sdu
      BY <1>1, <3>1, <3>3, <3>4, RestoreExact
    <3>6. /\ k \in 0 .. c /\ Len(sock'.rxQueue) = c - k /\ DOMAIN sock'.rxQueue = 1 .. c - k
          /\ \A i \in 1 .. c - k : sock'.rxQueue[i] = sock.rxQueue[k + i]
          /\ Len(appQ') = a + k /\ DOMAIN appQ' = 1 .. a + k
          /\ \A i \in 1 .. a : appQ'[i] = appQ[i]
          /\ \A i \in 1 .. k : appQ'[a + i] = sock.rxQueue[i].sdu
      BY <3>3, <3>5
    <3> HIDE DEF a, b, c
    <3>7. \A i \in DOMAIN appQ' : appQ'[i] = b + i
      <4> SUFFICES ASSUME NEW i \in 1 .. a + k PROVE appQ'[i] = b + i
        BY <3>6
      <4>1. CASE i <= a
        <5>1. i \in 1 .. a
          BY <1>1, <4>1
        <5> QED BY <1>3, <3>6, <5>1
      <4>2. CASE i > a
        <5>1. PICK j \in 1 .. k : j = i - a
          BY <1>1, <3>6, <4>2
        <5>2. i = a + j /\ j \in 1 .. c /\ b + a + j = b + i
          BY <1>1, <3>6, <5>1
        <5> QED BY <1>3, <2>1, <3>6, <5>2
      <4> QED BY <1>1, <3>6, <4>1, <4>2
    <3>8. \A i \in DOMAIN sock'.rxQueue : sock'.rxQueue[i].sdu = b + (a + k) + i
      <4> SUFFICES ASSUME NEW i \in 1 .. c - k PROVE sock'.rxQueue[i].sdu = b + (a + k) + i
        BY <3>6
      <4>1. k + i \in 1 .. c /\ b + (a + k) + i = b + a + (k + i)
        BY <1>1, <3>6
      <4> QED BY <1>3, <2>1, <3>6, <4>1
    <3>9. b + Len(appQ') + Len(sock'.rxQueue) = b + a + c /\ b + a + c \in Nat
      BY <1>1, <3>6
    <3>10. QueueOrder(bmmQ', b + a + c, next)
      BY <2>4, <2>8
    <3>11. Len(appQ') = a + k
      BY <3>6
    <3> QED BY <2>5, <3>7, <3>8, <3>9, <3>10, <3>11
  <2>9. CASE /\ h.type \notin {"READ_IND", "DATA_RSP"} /\ appQ' = appQ
             /\ \A f \in {"rxAppCredits", "rxQueueCount", "rxQueue"} : sock'[f] = sock[f]
    <3>1. sock'["rxQueue"] = sock["rxQueue"]
      BY <2>9
    <3>2. sock'.rxQueue = sock.rxQueue
      BY <3>1
    <3>3. QueueOrder(bmmQ', b + a + c, next) /\ b + a + c \in Nat
      BY <2>3, <2>4, <2>9
    <3>4. DOMAIN appQ' = 1 .. a /\ DOMAIN sock'.rxQueue = 1 .. c
      BY <1>1, <2>9, <3>2
    <3> QED BY <1>3, <2>1, <2>5, <2>9, <3>2, <3>3, <3>4
  <2> QED BY <2>1, <2>6, <2>7, <2>8, <2>9
<1> QED BY <1>4, <1>5

\* Every step keeps the order.
LEMMA NextOrder == ReceiveInv /\ [Next]_vars => OrderInv'
<1> SUFFICES ASSUME TypeOK, CreditOrIndication, OrderInv, [Next]_vars PROVE OrderInv'
  BY DEF ReceiveInv
<1>1. AirOrder(air, Opens(peer))
  BY DEF OrderInv
<1>2. CASE UNCHANGED vars
  BY <1>2 DEF vars, OrderInv
<1>3. CASE PeerStep
  <2>1. /\ AirOrder(air', Opens(peer'))
        /\ ComesNext(air', Opens(peer')) = ComesNext(air, Opens(peer))
        /\ UNCHANGED <<bmmQ, sock, appQ, received>>
    BY <1>1, <1>3, PeerOrder
  <2> QED BY <2>1 DEF OrderInv
<1>4. CASE L2capFrame
  <2> DEFINE n == Len(received) + Len(appQ) + Len(sock.rxQueue)
  <2>1. n \in Nat
    BY OrderTypes, Zenon
  <2>2. sock.state = "CONNECTED" => QueueOrder(bmmQ, n, ComesNext(air, Opens(peer)))
    BY DEF OrderInv
  <2> HIDE DEF n
  <2>3. /\ AirOrder(air', Opens(peer'))
        /\ sock.state = "CONNECTED" => QueueOrder(bmmQ', n, ComesNext(air', Opens(peer')))
        /\ UNCHANGED <<sock, appQ, received>>
    BY <1>1, <1>4, <2>1, <2>2, FrameOrder
  <2> QED BY <2>3 DEF OrderInv, n
<1>5. CASE RejectFrame
  <2>1. PICK m \in BmmMsg : bmmQ' = Append(bmmQ, m) /\ m.type # "READ_IND"
    BY <1>5, MessagesTyped DEF RejectFrame, DisconnectInd
  <2>2. peer' = [peer EXCEPT !.honest = FALSE] /\ UNCHANGED <<air, sock, appQ, received>>
    BY <1>5 DEF RejectFrame
  <2>3. peer \in PeerType
    BY OrderTypes
  <2>4. peer'.sdu = peer.sdu /\ peer'.idx = peer.idx /\ peer'.size = peer.size
    BY <2>2, <2>3 DEF PeerType
  <2>5. Opens(peer') = Opens(peer)
    BY <2>4 DEF Opens
  <2> QED BY <2>1, <2>2, <2>5, SendOrder
<1>6. CASE L2capRequest
  <2>1. UNCHANGED <<peer, air, bmmQ, sock, appQ, received>>
    BY <1>6 DEF L2capRequest, ReadAck, AddCredit, L2capReceive
  <2> QED BY <2>1 DEF OrderInv
<1> QED BY <1>2, <1>3, <1>4, <1>5, <1>6, BmmOrder, OffloadMgrOrder DEF Next

\* The SDUs of a peer reach the offload manager once each and in the order of
\* sending, whether they wait with the BMM or go straight to the pipe (bmm.c,
\* BmmLecocDataReadIndHandler and BmmLecocRestoreRxQueue; CB_FLOW_DataRead).
THEOREM SdusInOrder == Spec => []InOrder
<1>1. Init => OrderInv
  <2> SUFFICES ASSUME Init PROVE OrderInv
    OBVIOUS
  <2>1. /\ peer.sdu = 0 /\ peer.idx = 1 /\ peer.size = 1
        /\ air = <<>> /\ bmmQ = <<>> /\ appQ = <<>> /\ received = <<>> /\ sock.rxQueue = <<>>
    BY DEF Init
  <2>2. Opens(peer) = 1
    BY <2>1 DEF Opens, One
  <2>3. AirOrder(air, Opens(peer)) /\ ComesNext(air, Opens(peer)) = 1
    BY <2>1, <2>2 DEF AirOrder, ComesNext
  <2>4. Inds(bmmQ, 0) = 0
    <3>1. {l \in 1 .. 0 : bmmQ[l].type = "READ_IND"} = {}
      OBVIOUS
    <3> QED BY <3>1, FS_EmptySet DEF Inds
  <2>5. QueueOrder(bmmQ, 0, 1)
    <3>1. Len(bmmQ) = 0 /\ DOMAIN bmmQ = {}
      BY <2>1
    <3> QED BY <2>4, <3>1 DEF QueueOrder
  <2>6. Len(received) + Len(appQ) + Len(sock.rxQueue) = 0
    BY <2>1
  <2> QED BY <2>1, <2>3, <2>5, <2>6 DEF OrderInv
<1>2. Init => ReceiveInv
  <2>1. Init => CreditOrIndication
    BY InitAnswer
  <2> QED BY <1>1, <2>1, InitTyped DEF ReceiveInv
<1>3. ReceiveInv /\ [Next]_vars => ReceiveInv'
  BY NextTyped, NextAnswer, NextOrder DEF ReceiveInv
<1>4. ReceiveInv => InOrder
  <2> SUFFICES ASSUME TypeOK, OrderInv PROVE InOrder
    BY DEF ReceiveInv
  <2> DEFINE a == Len(appQ)
             b == Len(received)
             c == Len(sock.rxQueue)
             w == Sdus(sock.rxQueue)
  <2>1. /\ bmmQ \in Seq(BmmMsg) /\ appQ \in Seq(Sdu) /\ received \in Seq(Sdu)
        /\ sock.rxQueue \in Seq(ReadInd) /\ a \in Nat /\ b \in Nat /\ c \in Nat
    BY OrderTypes
  <2>2. \A k \in DOMAIN received : received[k] = k
    BY DEF OrderInv
  <2>3. ASSUME sock.state = "CONNECTED", Count(bmmQ, "DISCONNECT_IND") = 0
        PROVE  /\ \A k \in DOMAIN Taken : Taken[k] = k
               /\ \A k \in DOMAIN bmmQ :
                    bmmQ[k].type = "READ_IND" => bmmQ[k].sdu = Len(Taken) + ReadIndsUpTo(k)
    <3>1. \A k \in DOMAIN bmmQ : ~Accused(bmmQ, k)
      <4>1. PICK t : t = "DISCONNECT_IND"
        OBVIOUS
      <4>2. \A k \in DOMAIN bmmQ : bmmQ[k].type # t
        BY <2>1, <2>3, <4>1, CountSteps
      <4>3. \A k \in DOMAIN bmmQ : 1 .. k \subseteq DOMAIN bmmQ
        BY <2>1
      <4> QED BY <4>1, <4>2, <4>3 DEF Accused
    <3>2. /\ w \in Seq(Sdu) /\ Len(w) = c /\ \A k \in 1 .. c : w[k] = b + a + k
      <4>1. DOMAIN sock.rxQueue = 1 .. c /\ \A k \in 1 .. c : sock.rxQueue[k] \in ReadInd
        BY <2>1
      <4>2. \A k \in 1 .. c : sock.rxQueue[k].sdu \in Sdu
        BY <4>1 DEF ReadInd
      <4>3. w = [k \in 1 .. c |-> sock.rxQueue[k].sdu]
        BY <4>1 DEF Sdus
      <4>4. \A k \in 1 .. c : sock.rxQueue[k].sdu = b + a + k
        BY <2>3, <4>1 DEF OrderInv
      <4> QED BY <2>1, <4>2, <4>3, <4>4
    <3>3. \A k \in 1 .. a : appQ[k] = b + k
      BY <2>1 DEF OrderInv
    <3>4. \A k \in 1 .. b : received[k] = k
      BY <2>1, <2>2
    <3> HIDE DEF w
    <3>5. /\ received \o appQ \in Seq(Sdu) /\ Len(received \o appQ) = b + a
          /\ \A k \in 1 .. b + a : (received \o appQ)[k] = k
      <4>1. /\ received \o appQ \in Seq(Sdu) /\ Len(received \o appQ) = b + a
            /\ \A k \in 1 .. b + a :
                 (received \o appQ)[k] = IF k <= b THEN received[k] ELSE appQ[k - b]
        BY <2>1, ConcatProperties
      <4> HIDE DEF a, b
      <4>2. ASSUME NEW k \in 1 .. b + a
            PROVE  (IF k <= b THEN received[k] ELSE appQ[k - b]) = k
        <5>1. CASE k <= b
          <6>1. k \in 1 .. b
            BY <2>1, <5>1
          <6> QED BY <3>4, <5>1, <6>1
        <5>2. CASE ~ (k <= b)
          <6>1. k - b \in 1 .. a /\ b + (k - b) = k
            BY <2>1, <5>2
          <6> QED BY <3>3, <5>2, <6>1
        <5> QED BY <5>1, <5>2
      <4> QED BY <4>1, <4>2
    <3>6. /\ Len(Taken) = b + a + c /\ DOMAIN Taken = 1 .. b + a + c
          /\ \A k \in 1 .. b + a + c : Taken[k] = k
      <4> DEFINE u == received \o appQ
      <4>1. u \in Seq(Sdu) /\ Len(u) = b + a /\ \A k \in 1 .. b + a : u[k] = k
        BY <3>5
      <4>2. Taken = u \o w
        BY DEF Taken, w
      <4> HIDE DEF u
      <4>3. /\ u \o w \in Seq(Sdu) /\ Len(u \o w) = Len(u) + Len(w)
            /\ \A k \in 1 .. Len(u) + Len(w) :
                 (u \o w)[k] = IF k <= Len(u) THEN u[k] ELSE w[k - Len(u)]
        BY <3>2, <4>1, ConcatProperties
      <4> HIDE DEF a, b, c
      <4>4. ASSUME NEW k \in 1 .. b + a + c
            PROVE  (IF k <= b + a THEN u[k] ELSE w[k - (b + a)]) = k
        <5>1. CASE k <= b + a
          <6>1. k \in 1 .. b + a
            BY <2>1, <5>1
          <6> QED BY <4>1, <5>1, <6>1
        <5>2. CASE ~ (k <= b + a)
          <6>1. k - (b + a) \in 1 .. c /\ b + a + (k - (b + a)) = k
            BY <2>1, <5>2
          <6> QED BY <3>2, <5>2, <6>1
        <5> QED BY <5>1, <5>2
      <4> QED BY SMTT(30), <3>2, <4>1, <4>2, <4>3, <4>4
    <3>7. \A k \in DOMAIN bmmQ : bmmQ[k].type = "READ_IND" => bmmQ[k].sdu = b + a + c + Inds(bmmQ, k)
      BY <2>3, <3>1 DEF OrderInv, QueueOrder
    <3>8. \A k : Inds(bmmQ, k) = ReadIndsUpTo(k)
      BY DEF Inds, ReadIndsUpTo
    <3> QED BY <3>6, <3>7, <3>8
  <2> QED BY <2>2, <2>3 DEF InOrder
<1> QED BY <1>2, <1>3, <1>4, PTL DEF Spec
=============================================================================
