--------------------------- MODULE LowappLink_proofs ---------------------------
(***************************************************************************)
(* Proofs about the exchange between two nodes, for every number of        *)
(* sequence numbers, all thresholds and every length of a behaviour.       *)
(***************************************************************************)
EXTENDS LowappLink, TLAPS

(***************************************************************************)
(* The types of the variables; a frame is in its buffer while it may be    *)
(* tried again.                                                            *)
(***************************************************************************)
Frames == [filled : {TRUE}, txSeq : Seqs, id : Nat]

OnAir == [kind : {"frame"}, from : Nodes, txSeq : Seqs, id : Nat, awaited : BOOLEAN]

Acks == [kind : {"ack"}, from : Nodes, rxdSeq : Seqs, expected : Seqs]

Typed ==
  /\ peers \in [Nodes -> Peer]
  /\ frame \in [Nodes -> {NoFrame} \cup Frames]
  /\ retries \in [Nodes -> 0 .. MaxTxRetry]
  /\ \A n \in Nodes : frame[n].filled => retries[n] < MaxTxRetry
  /\ channel \in {Free} \cup OnAir \cup Acks
  /\ ids \in [Nodes -> Nat]
  /\ seen \in [Nodes -> SUBSET Nat]
  /\ lost \in [Nodes -> Nat]
  /\ past \subseteq Incidents
  /\ left \in ScenarioType

-----------------------------------------------------------------------------
(* The two nodes. *)
LEMMA TwoNodes ==
  ASSUME NEW n \in Nodes
  PROVE  /\ Other(n) \in Nodes /\ Other(n) # n /\ Other(Other(n)) = n
         /\ \A m \in Nodes : m = n \/ m = Other(n)
<1>1. \A p \in Nodes : Other(p) \in Nodes /\ Other(p) # p
  <2> SUFFICES ASSUME NEW p \in Nodes PROVE Other(p) \in Nodes /\ Other(p) # p
    OBVIOUS
  <2>1. \E m \in Nodes : m # p BY LinkAssumption
  <2> QED BY <2>1 DEF Other
<1> QED BY <1>1, LinkAssumption

(* The number after x, and that it is not 0. *)
LEMMA SuccessorType ==
  ASSUME NEW x \in Seqs
  PROVE  /\ Successor(x) = IF x = MaxSeq THEN 1 ELSE x + 1
         /\ Successor(x) \in 1 .. MaxSeq
         /\ Successor(x) \in Seqs
<1>1. MaxSeq \in Nat /\ MaxSeq > 0 /\ x \in Nat /\ x <= MaxSeq
  BY SeqAssumption DEF Seqs
<1>2. CASE x = MaxSeq
  <2>1. x % MaxSeq = 0 BY <1>1, <1>2
  <2> QED BY <1>1, <1>2, <2>1 DEF Successor, Seqs
<1>3. CASE x < MaxSeq
  <2>1. x % MaxSeq = x BY <1>1, <1>3
  <2> QED BY <1>1, <1>3, <2>1 DEF Successor, Seqs
<1> QED BY <1>1, <1>2, <1>3

LEMMA SeqsType ==
  /\ MaxSeq \in Nat \ {0} /\ 0 \in Seqs /\ 1 \in Seqs
  /\ \A x \in Seqs : x \in Int /\ 0 <= x /\ x <= MaxSeq
  BY SeqAssumption DEF Seqs

LEMMA PeerFields ==
  ASSUME NEW p \in Peer
  PROVE  /\ p.out_txseq \in Seqs /\ p.out_rxseq \in Seqs /\ p.in_expected \in Seqs
         /\ p = [out_txseq |-> p.out_txseq, out_rxseq |-> p.out_rxseq,
                 in_expected |-> p.in_expected]
  BY DEF Peer

LEMMA NewPeerType == NewPeer \in Peer
  BY SeqsType DEF NewPeer, Peer

(* What a frame and an ACK make of the entry of their sender. *)
LEMMA ReceiveType ==
  ASSUME NEW p \in Peer, NEW x \in Seqs
  PROVE  Receive(p, x) \in Peer /\ Initialised(p, x) \in Peer
<1>1. Initialised(p, x) \in Peer BY NewPeerType DEF Initialised
<1> QED BY <1>1, SuccessorType DEF Receive, Peer

LEMMA ProcessAckType ==
  ASSUME NEW p \in Peer, NEW x \in Seqs, NEW e \in Seqs
  PROVE  ProcessAck(p, x, e) \in Peer
<1>1. p.out_rxseq \in Seqs BY PeerFields
<1>2. NextRecord(p.out_rxseq, x, e) \in Seqs BY <1>1, SuccessorType DEF NextRecord
<1> QED BY <1>2, SeqsType DEF ProcessAck, Peer

LEMMA ChannelFields ==
  ASSUME NEW c \in {Free} \cup OnAir \cup Acks
  PROVE  /\ c.kind \in {"free", "frame", "ack"}
         /\ c.kind = "free" <=> c = Free
         /\ c.kind # "free" => c.from \in Nodes
         /\ c.kind = "frame" => c.txSeq \in Seqs /\ c.id \in Nat /\ c.awaited \in BOOLEAN
         /\ c.kind = "ack" => c.rxdSeq \in Seqs /\ c.expected \in Seqs
  BY DEF OnAir, Acks, Free

LEMMA FrameFields ==
  ASSUME NEW f \in {NoFrame} \cup Frames
  PROVE  /\ f.filled \in BOOLEAN
         /\ f.filled => f.txSeq \in Seqs /\ f.id \in Nat
         /\ ~f.filled <=> f = NoFrame
<1>1. NoFrame.filled = FALSE BY DEF NoFrame
<1>2. CASE f = NoFrame BY <1>1, <1>2
<1>3. CASE f \in Frames
  <2>1. f.filled = TRUE /\ f.txSeq \in Seqs /\ f.id \in Nat BY <1>3 DEF Frames
  <2> QED BY <1>1, <2>1
<1> QED BY <1>2, <1>3

(* The number of the frames and of the losses that are left goes down. *)
LEMMA Spent ==
  ASSUME left \in ScenarioType,
         NEW what \in {"messages", "pings", "losses", "timeouts", "goneOut", "restarts"},
         Spend(what)
  PROVE  /\ left' \in ScenarioType
         /\ left[what] > 0 /\ left'[what] = left[what] - 1
         /\ left'.start = left.start /\ left'.senders = left.senders
         /\ left'.restarting = left.restarting
         /\ \A other \in {"messages", "pings", "losses", "timeouts", "goneOut", "restarts"} :
              other # what => left'[other] = left[other]
  BY DEF Spend, ScenarioType

LEMMA InitTyped == Init => Typed
<1> SUFFICES ASSUME Init PROVE Typed
  OBVIOUS
<1>1. left \in ScenarioType BY LinkAssumption DEF Init
<1>2. left.start \in Seqs BY <1>1 DEF ScenarioType
<1>3. peers \in [Nodes -> Peer] BY <1>2 DEF Init, Peer
<1>4. retries \in [Nodes -> 0 .. MaxTxRetry] BY LinkAssumption DEF Init
<1>5. \A n \in Nodes : frame[n] = NoFrame /\ ~frame[n].filled BY DEF Init, NoFrame
<1> QED BY <1>1, <1>3, <1>4, <1>5 DEF Init, Typed, Incidents

LEMMA RolledOverType ==
  \A x : RolledOver(x) \subseteq Incidents
  BY DEF RolledOver, Incidents

LEMMA NextTyped == Typed /\ [Next]_vars => Typed'
<1> SUFFICES ASSUME Typed, [Next]_vars PROVE Typed'
  OBVIOUS
<1> USE DEF Typed
<1>1. CASE UNCHANGED vars BY <1>1 DEF vars
<1>2. ASSUME NEW n \in Nodes, Build(n) PROVE Typed'
  <2>1. left' \in ScenarioType BY <1>2, Spent DEF Build
  <2>2. peers[n].out_txseq \in Seqs /\ ids[n] + 1 \in Nat BY PeerFields
  <2>3. frame' \in [Nodes -> {NoFrame} \cup Frames] BY <1>2, <2>2 DEF Build, Frames
  <2>4. retries' \in [Nodes -> 0 .. MaxTxRetry] BY <1>2, LinkAssumption DEF Build
  <2>5. \A m \in Nodes : frame'[m].filled => retries'[m] < MaxTxRetry
    <3> SUFFICES ASSUME NEW m \in Nodes, frame'[m].filled PROVE retries'[m] < MaxTxRetry
      OBVIOUS
    <3>1. CASE m = n BY <1>2, <3>1, LinkAssumption DEF Build
    <3>2. CASE m # n BY <1>2, <3>2 DEF Build
    <3> QED BY <3>1, <3>2
  <2> QED BY <1>2, <2>1, <2>2, <2>3, <2>4, <2>5 DEF Build
<1>3. ASSUME NEW n \in Nodes, TxDone(n) PROVE Typed'
  <2>1. frame[n].txSeq \in Seqs /\ frame[n].id \in Nat BY <1>3, FrameFields DEF TxDone
  <2>2. channel' \in OnAir BY <1>3, <2>1 DEF TxDone, OnAir
  <2>3. peers' \in [Nodes -> Peer]
    <3>1. peers[n].out_txseq \in Seqs BY PeerFields
    <3> QED BY <1>3, <3>1, SuccessorType DEF TxDone, CountSent, Peer
  <2>4. frame' \in [Nodes -> {NoFrame} \cup Frames]
        /\ \A m \in Nodes : frame'[m].filled => retries[m] < MaxTxRetry
    BY <1>3 DEF TxDone, NoFrame
  <2>5. past' \subseteq Incidents BY <1>3, RolledOverType DEF TxDone, Meets
  <2> QED BY <1>3, <2>2, <2>3, <2>4, <2>5 DEF TxDone
<1>4. ASSUME NEW n \in Nodes, TxTimeout(n) PROVE Typed'
  <2>1. frame[n].txSeq \in Seqs /\ frame[n].id \in Nat BY <1>4, FrameFields DEF TxTimeout
  <2>2. left' \in ScenarioType BY <1>4, Spent DEF TxTimeout
  <2>3. channel' \in {Free} \cup OnAir
    <3>1. CASE UNCHANGED channel BY <1>4, <3>1 DEF TxTimeout
    <3>2. CASE channel' = [kind |-> "frame", from |-> n, txSeq |-> frame[n].txSeq,
                           id |-> frame[n].id, awaited |-> FALSE]
      BY <2>1, <3>2 DEF OnAir
    <3> QED BY <1>4, <3>1, <3>2 DEF TxTimeout
  <2>4. past' \subseteq Incidents
    <3>1. {"repeated"} \subseteq Incidents BY DEF Incidents
    <3> QED BY <1>4, <3>1, RolledOverType DEF TxTimeout, Meets
  <2>5. retries' \in [Nodes -> 0 .. MaxTxRetry] BY <1>4, LinkAssumption DEF TxTimeout
  <2>6. frame' \in [Nodes -> {NoFrame} \cup Frames] BY <1>4 DEF TxTimeout
  <2>7. \A m \in Nodes : frame'[m].filled => retries'[m] < MaxTxRetry
    <3> SUFFICES ASSUME NEW m \in Nodes, frame'[m].filled PROVE retries'[m] < MaxTxRetry
      OBVIOUS
    <3>1. CASE m = n
      <4>1. CASE retries'[n] < MaxTxRetry BY <3>1, <4>1
      <4>2. CASE ~(retries'[n] < MaxTxRetry)
        <5>1. frame' = [frame EXCEPT ![n] = NoFrame] BY <1>4, <4>2 DEF TxTimeout
        <5> QED BY <3>1, <5>1 DEF NoFrame
      <4> QED BY <4>1, <4>2
    <3>2. CASE m # n BY <1>4, <3>2 DEF TxTimeout
    <3> QED BY <3>1, <3>2
  <2> QED BY <1>4, <2>2, <2>3, <2>4, <2>5, <2>6, <2>7 DEF TxTimeout
<1>5. ASSUME NEW n \in Nodes, Ping(n) PROVE Typed'
  <2>1. peers[n].out_txseq \in Seqs /\ ids[n] + 1 \in Nat BY PeerFields
  <2>2. channel' \in OnAir BY <1>5, <2>1 DEF Ping, OnAir
  <2>3. peers' \in [Nodes -> Peer]
    BY <1>5, <2>1, SuccessorType DEF Ping, CountSent, Peer
  <2>4. past' \subseteq Incidents
    <3>1. {"overtaken"} \subseteq Incidents BY DEF Incidents
    <3> QED BY <1>5, <3>1, RolledOverType DEF Ping, Meets
  <2>5. left' \in ScenarioType BY <1>5, Spent DEF Ping
  <2> QED BY <1>5, <2>1, <2>2, <2>3, <2>4, <2>5 DEF Ping
<1>6. ASSUME NEW n \in Nodes, Restart(n) PROVE Typed'
  <2>1. left' \in ScenarioType BY <1>6, Spent DEF Restart
  <2>2. retries' \in [Nodes -> 0 .. MaxTxRetry] BY <1>6, LinkAssumption DEF Restart
  <2>3. \A m \in Nodes : frame'[m].filled => retries'[m] < MaxTxRetry
    <3> SUFFICES ASSUME NEW m \in Nodes, frame'[m].filled PROVE retries'[m] < MaxTxRetry
      OBVIOUS
    <3>1. m # n BY <1>6 DEF Restart, NoFrame
    <3> QED BY <1>6, <3>1 DEF Restart
  <2> QED BY <1>6, <2>1, <2>2, <2>3, NewPeerType DEF Restart
<1>7. CASE Lose
  <2>1. left' \in ScenarioType BY <1>7, Spent DEF Lose
  <2>2. lost' \in [Nodes -> Nat]
    <3>1. lost' = lost \/ lost' = [lost EXCEPT ![channel.from] = @ + 1] BY <1>7 DEF Lose
    <3> QED BY <3>1
  <2> QED BY <1>7, <2>1, <2>2 DEF Lose
<1>8. CASE ReceiveFrame
  <2> DEFINE n == channel.from
             m == Other(n)
             expected == Initialised(peers[m], channel.txSeq).in_expected
  <2>1. n \in Nodes /\ channel.txSeq \in Seqs /\ channel.id \in Nat
    BY <1>8, ChannelFields DEF ReceiveFrame
  <2>2. m \in Nodes BY <2>1, TwoNodes
  <2>3. Receive(peers[m], channel.txSeq) \in Peer /\ expected \in Seqs
    BY <2>1, <2>2, ReceiveType, PeerFields
  <2>4. /\ peers' = [peers EXCEPT ![m] = Receive(@, channel.txSeq)]
        /\ seen' = [seen EXCEPT ![m] = @ \cup {channel.id}]
        /\ lost' = [lost EXCEPT ![n] = 0]
        /\ channel' = IF channel.awaited
                       THEN [kind |-> "ack", from |-> n, rxdSeq |-> channel.txSeq,
                             expected |-> expected]
                       ELSE Free
        /\ UNCHANGED <<frame, retries, ids, past, left>>
    BY <1>8 DEF ReceiveFrame
  <2> HIDE DEF n, m, expected
  <2>5. channel' \in {Free} \cup Acks BY <2>1, <2>3, <2>4 DEF Acks
  <2>6. peers' \in [Nodes -> Peer] BY <2>2, <2>3, <2>4
  <2>7. seen' \in [Nodes -> SUBSET Nat]
    BY <2>1, <2>2, <2>4
  <2>8. lost' \in [Nodes -> Nat] BY <2>4
  <2> QED BY <2>4, <2>5, <2>6, <2>7, <2>8
<1>9. CASE ReceiveAck
  <2>1. channel.from \in Nodes /\ channel.rxdSeq \in Seqs /\ channel.expected \in Seqs
    BY <1>9, ChannelFields DEF ReceiveAck
  <2>2. peers' \in [Nodes -> Peer] BY <1>9, <2>1, ProcessAckType DEF ReceiveAck
  <2> QED BY <1>9, <2>2 DEF ReceiveAck
<1> QED BY <1>1, <1>2, <1>3, <1>4, <1>5, <1>6, <1>7, <1>8, <1>9 DEF Next

LEMMA SpecTyped == Spec => []Typed
  BY InitTyped, NextTyped, PTL DEF Spec

(* Every number a node keeps, sends or acknowledges fits its counters, and *)
(* a frame is tried MaxTxRetry times at most.                              *)
THEOREM LinkTypeCorrect == Spec => []TypeOK
<1>1. Typed => TypeOK
  <2> SUFFICES ASSUME Typed PROVE TypeOK
    OBVIOUS
  <2>1. \A n \in Nodes :
          frame[n] = NoFrame \/ frame[n] \in [filled : {TRUE}, txSeq : Seqs, id : Nat]
    BY DEF Typed, Frames
  <2> QED BY <2>1 DEF Typed, TypeOK, OnAir, Acks
<1> QED BY <1>1, SpecTyped, PTL

-----------------------------------------------------------------------------
(***************************************************************************)
(* The numbers of n, which sends, and of the other node, which expects.    *)
(***************************************************************************)
Sends(n) == peers[n].out_txseq

Record(n) == peers[n].out_rxseq

Expects(n) == peers[Other(n)].in_expected

Flies(n) == channel.kind = "frame" /\ channel.from = n

Answers(n) == channel.kind = "ack" /\ channel.from = n

(* f is at most k frames after the one that is expected. *)
Ahead(f, x, k) ==
  /\ f \in 1 .. MaxSeq /\ x \in 1 .. MaxSeq
  /\ f - x \in 0 .. k \/ f + MaxSeq - x \in 0 .. k

(* What the receiver may expect when f is sent: anything when f is 0; the  *)
(* number after f if the same frame went out before; f or, when frames     *)
(* were lost, one before f.                                                *)
Near(f, x) ==
  \/ f = 0
  \/ f # 0 /\ "repeated" \in past /\ x = Successor(f)
  \/ Ahead(f, x, Tolerance - left.losses)

Follows(n) ==
  /\ frame[n].filled => frame[n].txSeq = Sends(n)
  /\ Flies(n) =>
       /\ Near(channel.txSeq, Expects(n))
       /\ channel.awaited => Sends(n) = Successor(channel.txSeq) /\ ~frame[n].filled
       /\ ~channel.awaited => Sends(n) = channel.txSeq /\ "repeated" \in past
  /\ Answers(n) =>
       /\ Sends(n) = Expects(n) /\ Sends(n) # 0
       /\ channel.expected = 0 => channel.rxdSeq = 0
  /\ ~Flies(n) /\ ~Answers(n) => Near(Sends(n), Expects(n))

(* No number is 0. *)
NonZero ==
  \A n \in Nodes :
    Sends(n) # 0 /\ Expects(n) # 0 /\ (Flies(n) => channel.txSeq # 0)

(* Number 0 is that of the first frame only, which goes out once. *)
ZeroFirst ==
  \A n \in Nodes :
    /\ Sends(n) = 0 \/ (Flies(n) /\ channel.txSeq = 0) => Expects(n) = 0
    /\ Flies(n) => channel.awaited

Mode ==
  /\ left.losses <= Tolerance
  /\ \/ NonZero /\ left.restarts = 0
     \/ left.losses = 0 /\ left.restarts = 0 /\ left.goneOut = 0 /\ ZeroFirst
     \/ left.losses = 0 /\ Alone(left)

SendersSend ==
  \A n \in Nodes : frame[n].filled \/ Flies(n) \/ Answers(n) => n \in left.senders

(* The inductive invariant of the numbers, short of a frame that was       *)
(* overtaken by a ping.                                                    *)
Together ==
  "overtaken" \notin past =>
    Mode /\ SendersSend /\ \A n \in left.senders : Follows(n)

-----------------------------------------------------------------------------
(* Arithmetic of the numbers.                                              *)

LEMMA ToleranceType ==
  /\ Tolerance \in Int /\ 0 <= Tolerance /\ Tolerance < MaxSeq
  /\ 0 < Tolerance => Tolerance < Low /\ Tolerance <= MaxSeq - High
  BY SeqAssumption DEF Tolerance

(* A frame more is lost. *)
LEMMA AheadSuccessor ==
  ASSUME NEW f, NEW x, NEW k \in Int, Ahead(f, x, k), k < Tolerance
  PROVE  Ahead(Successor(f), x, k + 1)
<1>1. f \in Seqs /\ MaxSeq \in Nat \ {0} BY SeqsType DEF Ahead, Seqs
<1>2. CASE f = MaxSeq
  <2>1. Successor(f) = 1 BY <1>1, <1>2, SuccessorType
  <2> QED BY <1>1, <1>2, <2>1, ToleranceType DEF Ahead
<1>3. CASE f # MaxSeq
  <2>1. Successor(f) = f + 1 BY <1>1, <1>3, SuccessorType
  <2> QED BY <1>1, <1>3, <2>1 DEF Ahead
<1> QED BY <1>2, <1>3

(* A number that is ahead is the expected one, or one of missing frames.   *)
LEMMA AheadVerdict ==
  ASSUME NEW f, NEW x, NEW k \in Int, Ahead(f, x, k), k <= Tolerance
  PROVE  Verdict(f, x) \in {"expected", "missing"}
<1>1. MaxSeq \in Nat \ {0} /\ f \in 1 .. MaxSeq /\ x \in 1 .. MaxSeq
  BY SeqsType DEF Ahead
<1>2. CASE f - x \in 0 .. k
  <2>1. f >= x BY <1>1, <1>2
  <2>2. f = x \/ f > x BY <1>1, <2>1
  <2> QED BY <2>2 DEF Verdict, Beyond
<1>3. CASE f + MaxSeq - x \in 0 .. k
  <2>1. f + MaxSeq - x <= Tolerance /\ 0 < Tolerance BY <1>1, <1>3, ToleranceType
  <2>2. Tolerance < Low /\ Tolerance <= MaxSeq - High BY <2>1, ToleranceType
  <2>3. f < Low /\ x > High
    BY <1>1, <2>1, <2>2, ToleranceType, SeqAssumption
  <2> QED BY <2>3 DEF Verdict, Beyond
<1> QED BY <1>2, <1>3 DEF Ahead

(* Whatever of these it expected, the receiver expects next the number     *)
(* after the one received; and its own counters change only when it is     *)
(* initialised.                                                            *)
LEMMA ReceiveNear ==
  ASSUME NEW p \in Peer, NEW f \in Seqs, NEW k \in Int, k <= Tolerance,
         f = 0 \/ p.in_expected = Successor(f) \/ Ahead(f, p.in_expected, k)
  PROVE  /\ Receive(p, f).in_expected = Successor(f)
         /\ Initialised(p, f).in_expected = IF f = 0 THEN 0 ELSE p.in_expected
<1>1. Initialised(p, f).in_expected = IF f = 0 THEN 0 ELSE p.in_expected
  BY DEF Initialised, NewPeer
<1> DEFINE q == Initialised(p, f)
           v == Verdict(f, q.in_expected)
<1>2. q \in Peer BY ReceiveType
<1>3. Receive(p, f) = IF v \in {"expected", "missing"}
                      THEN [q EXCEPT !.in_expected = Successor(f)] ELSE q
  BY DEF Receive
<1>4. v \in {"expected", "missing"} \/ q.in_expected = Successor(f)
  <2>1. CASE f = 0
    <3>1. q.in_expected = f BY <1>1, <2>1
    <3> QED BY <3>1 DEF Verdict
  <2>2. CASE f # 0 /\ Ahead(f, p.in_expected, k)
    BY <1>1, <2>2, AheadVerdict
  <2>3. CASE f # 0 /\ p.in_expected = Successor(f) BY <1>1, <2>3
  <2> QED BY <2>1, <2>2, <2>3
<1> HIDE DEF q, v
<1>5. Receive(p, f).in_expected = Successor(f) BY <1>2, <1>3, <1>4 DEF Peer
<1> QED BY <1>1, <1>5

(* The counters of the receiver change only when it is initialised.        *)
LEMMA ReceiveKeeps ==
  ASSUME NEW p \in Peer, NEW f \in Seqs, f # 0 \/ p.in_expected = 0
  PROVE  /\ Receive(p, f).out_txseq = p.out_txseq
         /\ Receive(p, f).out_rxseq = p.out_rxseq
  BY DEF Receive, Initialised, Peer

(* An ACK that does not initialise changes the record only.                *)
LEMMA ProcessAckKeeps ==
  ASSUME NEW p \in Peer, NEW f \in Seqs, NEW e \in Seqs, e = 0 => f = 0
  PROVE  /\ ProcessAck(p, f, e).out_txseq = p.out_txseq
         /\ ProcessAck(p, f, e).in_expected = p.in_expected
         /\ ProcessAck(p, f, e).out_rxseq = NextRecord(p.out_rxseq, f, e)
  BY DEF ProcessAck, Reinitialises, Peer

-----------------------------------------------------------------------------
(* What the actions do to the numbers.                                     *)

LEMMA NumbersType ==
  ASSUME Typed, NEW n \in Nodes
  PROVE  Sends(n) \in Seqs /\ Expects(n) \in Seqs /\ Record(n) \in Seqs
  BY TwoNodes, PeerFields DEF Typed, Sends, Expects, Record

LEMMA PeersKept ==
  ASSUME UNCHANGED peers
  PROVE  \A n \in Nodes : UNCHANGED <<Sends(n), Expects(n), Record(n)>>
  BY DEF Sends, Expects, Record

LEMMA SentCounts ==
  ASSUME Typed, NEW n \in Nodes, CountSent(n)
  PROVE  /\ Sends(n)' = Successor(Sends(n))
         /\ \A p \in Nodes : p # n => UNCHANGED Sends(p)
         /\ \A p \in Nodes : UNCHANGED <<Expects(p), Record(p)>>
<1>1. \A p \in Nodes : Other(p) \in Nodes BY TwoNodes
<1>2. peers' = [peers EXCEPT ![n].out_txseq = Successor(@)] BY DEF CountSent
<1>3. \A p \in Nodes : peers[p] \in Peer BY DEF Typed
<1>4. /\ peers'[n].out_txseq = Successor(peers[n].out_txseq)
      /\ peers'[n].in_expected = peers[n].in_expected
      /\ peers'[n].out_rxseq = peers[n].out_rxseq
      /\ \A p \in Nodes : p # n => peers'[p] = peers[p]
  BY <1>2, <1>3 DEF Typed, Peer
<1> QED BY <1>1, <1>4 DEF Sends, Expects, Record

LEMMA Received ==
  ASSUME Typed, ReceiveFrame, NEW n \in Nodes, channel.from = n,
         Near(channel.txSeq, Expects(n))
  PROVE  /\ Expects(n)' = Successor(channel.txSeq)
         /\ UNCHANGED <<Sends(n), Record(n), Expects(Other(n))>>
         /\ channel.txSeq # 0 \/ Expects(n) = 0 =>
              UNCHANGED <<Sends(Other(n)), Record(Other(n))>>
         /\ LET expected == IF channel.txSeq = 0 THEN 0 ELSE Expects(n)
            IN  /\ channel' = IF channel.awaited
                              THEN [kind |-> "ack", from |-> n, rxdSeq |-> channel.txSeq,
                                    expected |-> expected]
                              ELSE Free
                /\ verdict' =
                     [kind |-> Verdict(channel.txSeq, expected),
                      missing |-> MissingFrames(channel.txSeq, expected),
                      again |-> channel.id \in seen[Other(n)], lost |-> lost[n],
                      rolled |-> channel.txSeq < expected,
                      overtaken |-> Overtaken(n), from |-> n]
<1> DEFINE m == Other(n)
           f == channel.txSeq
           k == Tolerance - left.losses
           e == Initialised(peers[m], f).in_expected
<1>1. m \in Nodes /\ m # n /\ Other(m) = n BY TwoNodes
<1>2. f \in Seqs BY ChannelFields DEF Typed, ReceiveFrame
<1>3. peers[m] \in Peer /\ peers[m].in_expected = Expects(n)
  BY <1>1 DEF Typed, Expects
<1>4. k \in Int /\ k <= Tolerance BY ToleranceType DEF Typed, ScenarioType
<1>5. f = 0 \/ peers[m].in_expected = Successor(f) \/ Ahead(f, peers[m].in_expected, k)
  BY <1>3 DEF Near
<1>6. peers' = [peers EXCEPT ![m] = Receive(@, f)] BY DEF ReceiveFrame
<1>7. /\ channel' = IF channel.awaited
                    THEN [kind |-> "ack", from |-> n, rxdSeq |-> f, expected |-> e]
                    ELSE Free
      /\ verdict' = [kind |-> Verdict(f, e), missing |-> MissingFrames(f, e),
                     again |-> channel.id \in seen[m], lost |-> lost[n],
                     rolled |-> f < e, overtaken |-> Overtaken(n), from |-> n]
  BY DEF ReceiveFrame
<1>8. peers'[m] = Receive(peers[m], f) /\ peers'[n] = peers[n]
  BY <1>1, <1>6 DEF Typed
<1> HIDE DEF k
<1>9. /\ Receive(peers[m], f).in_expected = Successor(f)
      /\ e = IF f = 0 THEN 0 ELSE peers[m].in_expected
  BY <1>2, <1>3, <1>4, <1>5, ReceiveNear
<1>10. f # 0 \/ peers[m].in_expected = 0 =>
         /\ Receive(peers[m], f).out_txseq = peers[m].out_txseq
         /\ Receive(peers[m], f).out_rxseq = peers[m].out_rxseq
  BY <1>2, <1>3, ReceiveKeeps
<1> HIDE DEF e
<1>11. Expects(n)' = Successor(f) /\ UNCHANGED <<Sends(n), Record(n), Expects(m)>>
  BY <1>1, <1>8, <1>9 DEF Expects, Sends, Record
<1>12. f # 0 \/ Expects(n) = 0 => UNCHANGED <<Sends(m), Record(m)>>
  BY <1>3, <1>8, <1>10 DEF Sends, Record
<1> QED BY <1>3, <1>7, <1>9, <1>11, <1>12

LEMMA Acknowledged ==
  ASSUME Typed, ReceiveAck, NEW n \in Nodes, channel.from = n,
         channel.expected = 0 => channel.rxdSeq = 0
  PROVE  /\ \A p \in Nodes : UNCHANGED <<Sends(p), Expects(p)>>
         /\ UNCHANGED Record(Other(n))
         /\ Record(n)' = NextRecord(Record(n), channel.rxdSeq, channel.expected)
<1> DEFINE f == channel.rxdSeq
           e == channel.expected
<1>1. f \in Seqs /\ e \in Seqs BY ChannelFields DEF Typed, ReceiveAck
<1>2. \A p \in Nodes : Other(p) \in Nodes /\ Other(p) # p BY TwoNodes
<1>3. peers' = [peers EXCEPT ![n] = ProcessAck(@, f, e)] BY DEF ReceiveAck
<1>4. \A p \in Nodes : p # n => peers'[p] = peers[p] BY <1>3 DEF Typed
<1>5. peers'[n] = ProcessAck(peers[n], f, e) /\ peers[n] \in Peer BY <1>3 DEF Typed
<1>6. /\ peers'[n].out_txseq = peers[n].out_txseq
      /\ peers'[n].in_expected = peers[n].in_expected
      /\ peers'[n].out_rxseq = NextRecord(peers[n].out_rxseq, f, e)
  BY <1>1, <1>5, ProcessAckKeeps
<1>7. \A p \in Nodes : /\ peers'[p].out_txseq = peers[p].out_txseq
                       /\ peers'[p].in_expected = peers[p].in_expected
  BY <1>4, <1>6
<1> HIDE DEF f, e
<1>8. \A p \in Nodes : UNCHANGED <<Sends(p), Expects(p)>>
  BY <1>2, <1>7 DEF Sends, Expects
<1> QED BY <1>2, <1>4, <1>6, <1>8 DEF Record, f, e

(* A number that was near stays so. *)
LEMMA NearKept ==
  ASSUME NEW f, NEW x, Near(f, x), Typed, past \subseteq past',
         left'.losses \in Nat, left'.losses <= left.losses
  PROVE  Near(f, x)'
<1>1. left.losses \in Nat /\ Tolerance \in Int BY ToleranceType DEF Typed, ScenarioType
<1>2. Ahead(f, x, Tolerance - left.losses) => Ahead(f, x, Tolerance - left'.losses)
  BY <1>1 DEF Ahead
<1> QED BY <1>2 DEF Near

LEMMA NearSame ==
  ASSUME NEW x \in Seqs, Typed, left.losses <= Tolerance
  PROVE  Near(x, x)
<1>1. left.losses \in Nat /\ Tolerance \in Int BY ToleranceType DEF Typed, ScenarioType
<1>2. x \in Int /\ 0 <= x /\ x <= MaxSeq BY SeqsType
<1>3. x # 0 => Ahead(x, x, Tolerance - left.losses) BY <1>1, <1>2, SeqsType DEF Ahead
<1> QED BY <1>3 DEF Near

LEMMA InitTogether == ScenariosCope /\ Init => Together
<1> SUFFICES ASSUME ScenariosCope, Init PROVE Together
  OBVIOUS
<1>1. Typed BY InitTyped
<1>2. Copes(left) BY DEF ScenariosCope, Init
<1>3. \A n \in Nodes : Sends(n) = left.start /\ Expects(n) = left.start
  BY TwoNodes DEF Sends, Expects, Init
<1>4. \A n \in Nodes : ~Flies(n) /\ ~Answers(n) /\ ~frame[n].filled
  BY DEF Flies, Answers, Init, Free, NoFrame
<1>5. Mode
  <2>1. left.start # 0 => NonZero BY <1>3, <1>4 DEF NonZero
  <2>2. ZeroFirst BY <1>3, <1>4 DEF ZeroFirst
  <2> QED BY <1>2, <2>1, <2>2 DEF Copes, Mode
<1>6. SendersSend BY <1>4 DEF SendersSend
<1>7. left.start \in Seqs /\ left.senders \subseteq Nodes BY <1>1 DEF Typed, ScenarioType
<1>8. Near(left.start, left.start) BY <1>1, <1>2, <1>7, NearSame DEF Copes
<1>9. \A n \in left.senders : Follows(n) BY <1>3, <1>4, <1>7, <1>8 DEF Follows
<1> QED BY <1>5, <1>6, <1>9 DEF Together

(* What is left of a scenario, and the incidents, in a step. *)
Shrinks ==
  /\ left'.senders = left.senders /\ left'.restarting = left.restarting
  /\ \A what \in {"pings", "losses", "goneOut", "restarts"} :
       left[what] \in Nat /\ left'[what] \in Nat /\ left'[what] <= left[what]
  /\ past \subseteq past'

LEMMA NextShrinks == Typed /\ [Next]_vars => Shrinks
<1> SUFFICES ASSUME Typed, [Next]_vars PROVE Shrinks
  OBVIOUS
<1> DEFINE Whats == {"messages", "pings", "losses", "timeouts", "goneOut", "restarts"}
<1>1. left' = left \/ \E what \in Whats : Spend(what)
  BY DEF Next, vars, Build, TxDone, TxTimeout, Ping, Restart, Lose, ReceiveFrame, ReceiveAck
<1>2. past \subseteq past'
  BY DEF Next, vars, Build, TxDone, TxTimeout, Ping, Restart, Lose, ReceiveFrame, ReceiveAck,
         Meets
<1>3. left \in ScenarioType BY DEF Typed
<1>4. \A what \in {"pings", "losses", "goneOut", "restarts"} : left[what] \in Nat
  BY <1>3 DEF ScenarioType
<1>5. CASE left' = left BY <1>2, <1>4, <1>5 DEF Shrinks
<1>6. ASSUME NEW what \in Whats, Spend(what) PROVE Shrinks
  <2>1. /\ left[what] > 0 /\ left'[what] = left[what] - 1
        /\ left'.senders = left.senders /\ left'.restarting = left.restarting
        /\ \A other \in Whats : other # what => left'[other] = left[other]
    BY <1>3, <1>6, Spent
  <2>2. ASSUME NEW w \in {"pings", "losses", "goneOut", "restarts"}
        PROVE  left'[w] \in Nat /\ left'[w] <= left[w]
    <3>1. CASE w = what BY <2>1, <1>4, <3>1
    <3>2. CASE w # what BY <2>1, <1>4, <3>2
    <3> QED BY <3>1, <3>2
  <2> QED BY <2>1, <2>2, <1>2, <1>4 DEF Shrinks
<1> QED BY <1>1, <1>5, <1>6

LEMMA ModeKept ==
  ASSUME Mode, Shrinks, NonZero => NonZero',
         ZeroFirst /\ left.losses = 0 /\ left.goneOut = 0 /\ left.restarts = 0 => ZeroFirst'
  PROVE  Mode'
<1>1. /\ left.losses \in Nat /\ left'.losses \in Nat /\ left'.losses <= left.losses
      /\ left.goneOut \in Nat /\ left'.goneOut \in Nat /\ left'.goneOut <= left.goneOut
      /\ left.restarts \in Nat /\ left'.restarts \in Nat /\ left'.restarts <= left.restarts
  BY DEF Shrinks
<1>2. Alone(left) => Alone(left') BY DEF Shrinks, Alone
<1>3. left'.losses <= Tolerance BY <1>1, ToleranceType DEF Mode
<1>4. CASE NonZero /\ left.restarts = 0 BY <1>1, <1>3, <1>4 DEF Mode
<1>5. CASE left.losses = 0 /\ left.restarts = 0 /\ left.goneOut = 0 /\ ZeroFirst
  BY <1>1, <1>3, <1>5 DEF Mode
<1>6. CASE left.losses = 0 /\ Alone(left) BY <1>1, <1>2, <1>3, <1>6 DEF Mode
<1> QED BY <1>4, <1>5, <1>6 DEF Mode

(* The state of the channel after each kind of step. *)
LEMMA ChannelAfter ==
  /\ \A n, p : channel' = Free => ~Flies(p)' /\ ~Answers(p)'
  /\ \A n, p, s, i, w :
       channel' = [kind |-> "frame", from |-> n, txSeq |-> s, id |-> i, awaited |-> w] =>
         /\ Flies(p)' <=> p = n
         /\ ~Answers(p)'
         /\ channel'.txSeq = s /\ channel'.id = i /\ channel'.awaited = w
  /\ \A n, p, s, e :
       channel' = [kind |-> "ack", from |-> n, rxdSeq |-> s, expected |-> e] =>
         /\ ~Flies(p)'
         /\ Answers(p)' <=> p = n
         /\ channel'.rxdSeq = s /\ channel'.expected = e
  /\ \A p : channel' = channel => UNCHANGED <<Flies(p), Answers(p)>>
  BY DEF Flies, Answers, Free

LEMMA ChannelFree ==
  channel = Free => \A p : ~Flies(p) /\ ~Answers(p)
  BY DEF Flies, Answers, Free

LEMMA BuildTogether ==
  ASSUME Typed, Together, Shrinks, NEW n \in Nodes, Build(n)
  PROVE  Together'
<1> SUFFICES ASSUME "overtaken" \notin past'
             PROVE  (Mode /\ SendersSend /\ \A p \in left.senders : Follows(p))'
  BY DEF Together
<1>1. Mode /\ SendersSend /\ \A p \in left.senders : Follows(p)
  BY DEF Together, Shrinks
<1>2. /\ UNCHANGED <<peers, channel, past>> /\ ~frame[n].filled
      /\ frame' = [frame EXCEPT ![n] =
           [filled |-> TRUE, txSeq |-> peers[n].out_txseq, id |-> ids[n] + 1]]
      /\ n \in left.senders /\ ~Flies(n) /\ ~Answers(n)
  BY DEF Build, Flies, Answers
<1>3. \A p \in Nodes : UNCHANGED <<Sends(p), Expects(p), Flies(p), Answers(p)>>
  BY <1>2, PeersKept, ChannelAfter
<1>4. left'.senders = left.senders /\ left.senders \subseteq Nodes
  BY DEF Shrinks, Typed, ScenarioType
<1>5. frame'[n].txSeq = Sends(n) /\ \A p \in Nodes : p # n => frame'[p] = frame[p]
  BY <1>2 DEF Typed, Sends
<1>6. Mode'
  BY <1>1, <1>2, <1>3, ModeKept DEF NonZero, ZeroFirst
<1>7. SendersSend' BY <1>1, <1>2, <1>3, <1>4, <1>5 DEF SendersSend
<1>8. ASSUME NEW p \in left.senders PROVE Follows(p)'
  <2>1. Follows(p) BY <1>1
  <2>2. \A f, x : Near(f, x) => Near(f, x)' BY NearKept DEF Shrinks
  <2>3. p \in Nodes BY <1>4
  <2>4. CASE p = n
    <3>1. Near(Sends(n), Expects(n))' BY <1>2, <1>3, <2>1, <2>2, <2>4 DEF Follows
    <3> QED BY <3>1, <1>2, <1>3, <1>5, <2>4 DEF Follows
  <2>5. CASE p # n
    <3>1. Flies(p) => Near(channel.txSeq, Expects(p))' BY <1>2, <1>3, <2>1, <2>2, <2>3 DEF Follows
    <3>2. ~Flies(p) /\ ~Answers(p) => Near(Sends(p), Expects(p))'
      BY <1>3, <2>1, <2>2, <2>3 DEF Follows
    <3> QED BY <3>1, <3>2, <1>2, <1>3, <1>5, <2>1, <2>3, <2>5 DEF Follows
  <2> QED BY <2>4, <2>5
<1> QED BY <1>4, <1>6, <1>7, <1>8

LEMMA TransmitTogether ==
  ASSUME Typed, Together, Shrinks, "overtaken" \notin past', NEW n \in Nodes,
         n \in left.senders, channel = Free, CountSent(n), NEW i,
         channel' = [kind |-> "frame", from |-> n, txSeq |-> Sends(n), id |-> i,
                     awaited |-> TRUE],
         ~frame'[n].filled, \A p \in Nodes : p # n => frame'[p] = frame[p]
  PROVE  Together'
<1>1. Mode /\ SendersSend /\ \A p \in left.senders : Follows(p)
  BY DEF Together, Shrinks
<1>2. \A p \in Nodes : ~Flies(p) /\ ~Answers(p) BY ChannelFree
<1>3. /\ \A p \in Nodes : Flies(p)' <=> p = n
      /\ \A p \in Nodes : ~Answers(p)'
      /\ channel'.txSeq = Sends(n) /\ channel'.awaited = TRUE
  BY ChannelAfter
<1>4. /\ Sends(n)' = Successor(Sends(n))
      /\ \A p \in Nodes : p # n => UNCHANGED Sends(p)
      /\ \A p \in Nodes : UNCHANGED Expects(p)
  BY SentCounts
<1>5. Sends(n)' # 0
  <2>1. Sends(n) \in Seqs BY NumbersType
  <2> QED BY <2>1, <1>4, SuccessorType
<1>6. left'.senders = left.senders /\ left.senders \subseteq Nodes
  BY DEF Shrinks, Typed, ScenarioType
<1>7. NonZero => NonZero' BY <1>3, <1>4, <1>5 DEF NonZero
<1>8. ZeroFirst => ZeroFirst' BY <1>2, <1>3, <1>4, <1>5 DEF ZeroFirst
<1>9. Mode' BY <1>1, <1>7, <1>8, ModeKept
<1>10. SendersSend' BY <1>1, <1>3, <1>6 DEF SendersSend
<1>11. ASSUME NEW p \in left.senders PROVE Follows(p)'
  <2>1. Follows(p) /\ p \in Nodes BY <1>1, <1>6
  <2>2. Near(Sends(p), Expects(p)) BY <2>1, <1>2 DEF Follows
  <2>3. \A f, x : Near(f, x) => Near(f, x)' BY NearKept DEF Shrinks
  <2>4. CASE p = n
    <3>1. Near(channel.txSeq, Expects(n))' BY <2>2, <2>3, <2>4, <1>3, <1>4
    <3> QED BY <3>1, <2>4, <1>3, <1>4 DEF Follows
  <2>5. CASE p # n
    <3>1. Near(Sends(p), Expects(p))' BY <2>1, <2>2, <2>3, <2>5, <1>4
    <3>2. frame[p].filled => frame[p].txSeq = Sends(p) BY <2>1 DEF Follows
    <3> QED BY <3>1, <3>2, <2>1, <2>5, <1>3, <1>4 DEF Follows
  <2> QED BY <2>4, <2>5
<1> QED BY <1>6, <1>9, <1>10, <1>11 DEF Together

LEMMA TxDoneTogether ==
  ASSUME Typed, Together, Shrinks, NEW n \in Nodes, TxDone(n)
  PROVE  Together'
<1> SUFFICES ASSUME "overtaken" \notin past' PROVE Together'
  BY DEF Together
<1>1. SendersSend /\ \A p \in left.senders : Follows(p)
  BY DEF Together, Shrinks
<1>2. n \in left.senders BY <1>1 DEF TxDone, SendersSend
<1>3. frame[n].txSeq = Sends(n) BY <1>1, <1>2 DEF Follows, TxDone
<1>4. ~frame'[n].filled /\ \A p \in Nodes : p # n => frame'[p] = frame[p]
  BY DEF TxDone, Typed, NoFrame
<1>5. channel = Free /\ CountSent(n)
      /\ channel' = [kind |-> "frame", from |-> n, txSeq |-> Sends(n), id |-> frame[n].id,
                     awaited |-> TRUE]
  BY <1>3 DEF TxDone
<1> QED BY <1>2, <1>4, <1>5, TransmitTogether

LEMMA PingTogether ==
  ASSUME Typed, Together, Shrinks, NEW n \in Nodes, Ping(n)
  PROVE  Together'
<1> SUFFICES ASSUME "overtaken" \notin past' PROVE Together'
  BY DEF Together
<1>1. ~frame[n].filled /\ UNCHANGED frame BY DEF Ping, Meets
<1>2. /\ channel = Free /\ CountSent(n) /\ n \in left.senders
      /\ channel' = [kind |-> "frame", from |-> n, txSeq |-> Sends(n), id |-> ids[n] + 1,
                     awaited |-> TRUE]
  BY DEF Ping, Sends
<1> QED BY <1>1, <1>2, TransmitTogether

LEMMA TxTimeoutTogether ==
  ASSUME Typed, Together, Shrinks, NEW n \in Nodes, TxTimeout(n)
  PROVE  Together'
<1> SUFFICES ASSUME "overtaken" \notin past' PROVE Together'
  BY DEF Together
<1>1. Mode /\ SendersSend /\ \A p \in left.senders : Follows(p)
  BY DEF Together, Shrinks
<1>2. \A p \in Nodes : ~Flies(p) /\ ~Answers(p) BY ChannelFree DEF TxTimeout
<1>3. /\ \A p \in Nodes : frame'[p] = frame[p] \/ ~frame'[p].filled
      /\ UNCHANGED peers
  BY DEF TxTimeout, Typed, NoFrame
<1>4. \A p \in Nodes : UNCHANGED <<Sends(p), Expects(p)>> BY <1>3, PeersKept
<1>5. left'.senders = left.senders /\ left.senders \subseteq Nodes /\ n \in left.senders
  BY <1>1 DEF Shrinks, Typed, ScenarioType, SendersSend, TxTimeout
<1>6. frame[n].txSeq = Sends(n) BY <1>1, <1>5 DEF Follows, TxTimeout
<1>7. \A f, x : Near(f, x) => Near(f, x)' BY NearKept DEF Shrinks
<1>8. ASSUME NEW p \in left.senders
      PROVE  /\ Near(Sends(p), Expects(p))'
             /\ frame'[p].filled => frame'[p].txSeq = Sends(p)'
  <2>1. Follows(p) /\ p \in Nodes BY <1>1, <1>5
  <2> QED BY <2>1, <1>2, <1>3, <1>4, <1>7 DEF Follows
<1>9. CASE UNCHANGED channel
  <2>1. \A p \in Nodes : ~Flies(p)' /\ ~Answers(p)' BY <1>2, <1>9, ChannelAfter
  <2>2. Mode' BY <2>1, <1>1, <1>2, <1>4, ModeKept DEF NonZero, ZeroFirst
  <2>3. SendersSend' BY <2>1, <1>1, <1>3, <1>5 DEF SendersSend
  <2>4. \A p \in left.senders : Follows(p)' BY <2>1, <1>5, <1>8 DEF Follows
  <2> QED BY <2>2, <2>3, <2>4, <1>5 DEF Together
<1>10. CASE /\ left.goneOut > 0 /\ "repeated" \in past'
            /\ channel' = [kind |-> "frame", from |-> n, txSeq |-> frame[n].txSeq,
                           id |-> frame[n].id, awaited |-> FALSE]
  <2>1. /\ \A p \in Nodes : Flies(p)' <=> p = n
        /\ \A p \in Nodes : ~Answers(p)'
        /\ channel'.txSeq = Sends(n) /\ channel'.awaited = FALSE
    BY <1>6, <1>10, ChannelAfter
  <2>2. NonZero => NonZero' BY <2>1, <1>4 DEF NonZero
  <2>3. Mode' BY <2>2, <1>1, <1>10, ModeKept
  <2>4. SendersSend' BY <2>1, <1>1, <1>3, <1>5 DEF SendersSend
  <2>5. ASSUME NEW p \in left.senders PROVE Follows(p)'
    <3>1. Near(Sends(p), Expects(p))' /\ p \in Nodes
          /\ (frame'[p].filled => frame'[p].txSeq = Sends(p)')
      BY <1>5, <1>8
    <3>2. CASE p = n
      <4>1. channel'.txSeq = Sends(n)' BY <2>1, <1>4
      <4> QED BY <4>1, <3>1, <3>2, <2>1, <1>10 DEF Follows
    <3>3. CASE p # n BY <3>1, <3>3, <2>1 DEF Follows
    <3> QED BY <3>2, <3>3
  <2> QED BY <2>3, <2>4, <2>5, <1>5 DEF Together
<1>11. UNCHANGED channel
       \/ /\ left.goneOut > 0 /\ "repeated" \in past'
          /\ channel' = [kind |-> "frame", from |-> n, txSeq |-> frame[n].txSeq,
                         id |-> frame[n].id, awaited |-> FALSE]
  BY DEF TxTimeout, Spend, Meets
<1> QED BY <1>9, <1>10, <1>11

LEMMA RestartTogether ==
  ASSUME Typed, Together, Shrinks, NEW n \in Nodes, Restart(n)
  PROVE  Together'
<1> SUFFICES ASSUME "overtaken" \notin past' PROVE Together'
  BY DEF Together
<1>1. Mode /\ SendersSend BY DEF Together, Shrinks
<1>2. left.restarts > 0 /\ n \in left.restarting /\ channel' = Free
      /\ peers' = [peers EXCEPT ![n] = NewPeer] /\ frame' = [frame EXCEPT ![n] = NoFrame]
  BY DEF Restart, Spend
<1>3. left.losses = 0 /\ Alone(left) BY <1>1, <1>2 DEF Mode
<1>4. left'.senders = left.senders /\ left.senders \subseteq Nodes
  BY DEF Shrinks, Typed, ScenarioType
<1>5. \A p \in left.senders : p = n BY <1>2, <1>3, <1>4, TwoNodes DEF Alone
<1>6. Sends(n)' = 0 BY <1>2 DEF Sends, Typed, NewPeer
<1>7. ~frame'[n].filled /\ \A p \in Nodes : p # n => frame'[p] = frame[p]
  BY <1>2 DEF Typed, NoFrame
<1>8. \A p \in Nodes : ~Flies(p)' /\ ~Answers(p)' BY <1>2, ChannelAfter
<1>9. Mode'
  <2>1. left'.losses = 0 BY <1>3 DEF Shrinks
  <2>2. Alone(left') BY <1>3 DEF Shrinks, Alone
  <2> QED BY <2>1, <2>2, ToleranceType DEF Mode
<1>10. SendersSend' BY <1>1, <1>4, <1>7, <1>8 DEF SendersSend
<1>11. Near(Sends(n), Expects(n))' BY <1>6 DEF Near
<1>12. \A p \in left.senders : Follows(p)' BY <1>5, <1>7, <1>8, <1>11 DEF Follows
<1> QED BY <1>4, <1>9, <1>10, <1>12 DEF Together

LEMMA LoseTogether ==
  ASSUME Typed, Together, Shrinks, Lose
  PROVE  Together'
<1> SUFFICES ASSUME "overtaken" \notin past' PROVE Together'
  BY DEF Together
<1>1. Mode /\ SendersSend /\ \A p \in left.senders : Follows(p)
  BY DEF Together, Shrinks
<1>2. left.losses > 0 /\ left'.losses = left.losses - 1
  <2>1. Spend("losses") /\ left \in ScenarioType BY DEF Lose, Typed
  <2> QED BY <2>1, Spent
<1>3. channel' = Free /\ UNCHANGED <<peers, frame, past>> BY DEF Lose
<1>4. \A p \in Nodes : UNCHANGED <<Sends(p), Expects(p)>> BY <1>3, PeersKept
<1>5. \A p \in Nodes : ~Flies(p)' /\ ~Answers(p)' BY <1>3, ChannelAfter
<1>6. left'.senders = left.senders /\ left.senders \subseteq Nodes
      /\ left.losses \in Nat /\ Tolerance \in Int
  BY ToleranceType DEF Shrinks, Typed, ScenarioType
<1>7. NonZero BY <1>1, <1>2 DEF Mode
<1>8. NonZero' BY <1>4, <1>5, <1>7 DEF NonZero
<1>9. Mode' BY <1>1, <1>2, <1>8, ModeKept
<1>10. SendersSend' BY <1>1, <1>3, <1>5, <1>6 DEF SendersSend
<1>11. \A f, x : Near(f, x) => Near(f, x)' BY NearKept DEF Shrinks
<1>12. ASSUME NEW p \in left.senders PROVE Follows(p)'
  <2>1. Follows(p) /\ p \in Nodes BY <1>1, <1>6
  <2>2. Sends(p) \in Seqs /\ Expects(p) \in Seqs BY <2>1, NumbersType
  <2>3. CASE ~Flies(p) /\ ~Answers(p)
    <3>1. Near(Sends(p), Expects(p))' BY <2>1, <2>3, <1>4, <1>11 DEF Follows
    <3> QED BY <3>1, <2>1, <1>3, <1>4, <1>5 DEF Follows
  <2>4. CASE Answers(p)
    <3>1. Sends(p) = Expects(p) BY <2>1, <2>4 DEF Follows
    <3>2. Near(Sends(p), Expects(p)) BY <3>1, <2>2, <1>1, NearSame DEF Mode
    <3>3. Near(Sends(p), Expects(p))' BY <3>2, <2>1, <1>4, <1>11
    <3> QED BY <3>3, <2>1, <1>3, <1>4, <1>5 DEF Follows
  <2>5. CASE Flies(p)
    <3> DEFINE f == channel.txSeq
               k == Tolerance - left.losses
    <3>1. Near(f, Expects(p)) /\ f # 0 BY <2>1, <2>5, <1>7 DEF Follows, NonZero
    <3>2. f \in Seqs /\ channel.awaited \in BOOLEAN
      BY <2>5, ChannelFields DEF Flies, Typed
    <3>3. CASE ~channel.awaited
      <4>1. Sends(p) = f BY <2>1, <2>5, <3>3 DEF Follows
      <4>2. Near(Sends(p), Expects(p))' BY <4>1, <3>1, <2>1, <1>4, <1>11
      <4> QED BY <4>2, <2>1, <1>3, <1>4, <1>5 DEF Follows
    <3>4. CASE channel.awaited
      <4>1. Sends(p) = Successor(f) BY <2>1, <2>5, <3>4 DEF Follows
      <4>2. Near(Sends(p), Expects(p))'
        <5>1. CASE Expects(p) = Successor(f)
          <6>1. Near(Sends(p), Expects(p)) BY <5>1, <4>1, <2>2, <1>1, NearSame DEF Mode
          <6> QED BY <6>1, <2>1, <1>4, <1>11
        <5>2. CASE Ahead(f, Expects(p), k)
          <6>1. k \in Int /\ k < Tolerance /\ k + 1 = Tolerance - left'.losses
            BY <1>2, <1>6
          <6> HIDE DEF k, f
          <6>2. Ahead(Successor(f), Expects(p), k + 1) BY <5>2, <6>1, AheadSuccessor
          <6>3. Ahead(Sends(p)', Expects(p)', Tolerance - left'.losses)
            BY <6>1, <6>2, <4>1, <2>1, <1>4
          <6> QED BY <6>3 DEF Near
        <5> QED BY <5>1, <5>2, <3>1 DEF Near
      <4> QED BY <4>2, <2>1, <1>3, <1>4, <1>5 DEF Follows
    <3> QED BY <3>2, <3>3, <3>4
  <2> QED BY <2>3, <2>4, <2>5
<1> QED BY <1>6, <1>9, <1>10, <1>12 DEF Together

(* The frame that flies is one of a sender, and near; it initialises the   *)
(* counters of a node that sends only when they are still 0.               *)
LEMMA FlyingNear ==
  ASSUME Typed, Together, "overtaken" \notin past, ReceiveFrame
  PROVE  LET n == channel.from
         IN  /\ n \in Nodes /\ n \in left.senders /\ Flies(n)
             /\ channel.txSeq \in Seqs /\ channel.awaited \in BOOLEAN
             /\ Near(channel.txSeq, Expects(n))
             /\ channel.txSeq # 0 \/ Expects(n) = 0 \/ Other(n) \notin left.senders
<1> DEFINE n == channel.from
<1>1. Mode /\ SendersSend /\ \A p \in left.senders : Follows(p)
  BY DEF Together
<1>2. /\ n \in Nodes /\ channel.txSeq \in Seqs /\ channel.awaited \in BOOLEAN
      /\ Flies(n)
  BY ChannelFields DEF Typed, ReceiveFrame, Flies
<1>3. n \in left.senders BY <1>1, <1>2 DEF SendersSend
<1>4. Near(channel.txSeq, Expects(n)) BY <1>1, <1>2, <1>3 DEF Follows
<1>5. channel.txSeq # 0 \/ Expects(n) = 0 \/ Other(n) \notin left.senders
  BY <1>1, <1>2, <1>3 DEF Mode, NonZero, ZeroFirst, Alone
<1> QED BY <1>2, <1>3, <1>4, <1>5

LEMMA ReceiveFrameTogether ==
  ASSUME Typed, Together, Shrinks, ReceiveFrame
  PROVE  Together'
<1> SUFFICES ASSUME "overtaken" \notin past' PROVE Together'
  BY DEF Together
<1>1. "overtaken" \notin past /\ Mode /\ SendersSend /\ \A p \in left.senders : Follows(p)
  BY DEF Together, Shrinks
<1>2. PICK n \in Nodes : n = channel.from
  BY <1>1, FlyingNear
<1> DEFINE m == Other(n)
           f == channel.txSeq
           e == IF f = 0 THEN 0 ELSE Expects(n)
<1>3. /\ n \in left.senders /\ Flies(n) /\ f \in Seqs /\ channel.awaited \in BOOLEAN
      /\ Near(f, Expects(n))
      /\ f # 0 \/ Expects(n) = 0 \/ m \notin left.senders
  BY <1>1, <1>2, FlyingNear
<1>4. m \in Nodes /\ m # n /\ Other(m) = n /\ \A p \in Nodes : p = n \/ p = m
  BY TwoNodes
<1>5. /\ Expects(n)' = Successor(f) /\ Sends(n)' = Sends(n) /\ Expects(m)' = Expects(m)
      /\ f # 0 \/ Expects(n) = 0 => Sends(m)' = Sends(m)
      /\ channel' = IF channel.awaited
                    THEN [kind |-> "ack", from |-> n, rxdSeq |-> f, expected |-> e]
                    ELSE Free
  BY <1>2, <1>3, Received
<1>6. UNCHANGED <<frame, past, left>> BY DEF ReceiveFrame
<1>7. left.senders \subseteq Nodes BY DEF Typed, ScenarioType
<1>8. \A p \in Nodes : ~Flies(p)' BY <1>3, <1>5, ChannelAfter
<1>9. \A p \in Nodes : Answers(p)' => p = n /\ channel.awaited
  BY <1>3, <1>5, ChannelAfter
<1>a. channel.awaited => channel'.rxdSeq = f /\ channel'.expected = e
  BY <1>3, <1>5, ChannelAfter
<1>b. Successor(f) # 0 /\ Expects(n) \in Seqs
  <2>1. Successor(f) \in 1 .. MaxSeq BY <1>3, SuccessorType
  <2> QED BY <2>1, NumbersType
<1> HIDE DEF m, f, e
<1>10. NonZero => NonZero'
  <2> SUFFICES ASSUME NonZero PROVE NonZero'
    OBVIOUS
  <2>1. f # 0 BY <1>3 DEF NonZero, f
  <2>2. Sends(m)' = Sends(m) BY <2>1, <1>5
  <2> QED BY <2>2, <1>4, <1>5, <1>8, <1>b DEF NonZero
<1>11. ZeroFirst => ZeroFirst'
  <2> SUFFICES ASSUME ZeroFirst PROVE ZeroFirst'
    OBVIOUS
  <2>1. channel.awaited /\ (f = 0 => Expects(n) = 0)
    BY <1>3 DEF ZeroFirst, f
  <2>2. Sends(n) = Successor(f)
    BY <2>1, <1>1, <1>3 DEF Follows, f
  <2>3. Sends(m)' = Sends(m) BY <2>1, <1>5
  <2>4. Sends(m) = 0 => Expects(m) = 0 BY <1>4 DEF ZeroFirst
  <2> QED BY <2>2, <2>3, <2>4, <1>4, <1>5, <1>8, <1>b DEF ZeroFirst
<1>12. Mode' BY <1>1, <1>10, <1>11, ModeKept
<1>13. SendersSend' BY <1>1, <1>3, <1>6, <1>8, <1>9 DEF SendersSend
<1>14. ASSUME NEW p \in left.senders PROVE Follows(p)'
  <2>1. Follows(p) /\ p \in Nodes BY <1>1, <1>7
  <2>2. CASE p = n
    <3>1. CASE channel.awaited
      <4>1. Sends(n) = Successor(f) /\ ~frame[n].filled
        BY <1>1, <1>3, <3>1 DEF Follows, f
      <4>2. Sends(n)' = Expects(n)' /\ Sends(n)' # 0 BY <4>1, <1>5, <1>b
      <4>3. channel'.expected = 0 => channel'.rxdSeq = 0
        <5>1. f # 0 => Expects(n) # 0
          <6>1. f # 0 => Expects(n) = Successor(f) \/ Expects(n) \in 1 .. MaxSeq
            BY <1>3 DEF Near, Ahead
          <6> QED BY <6>1, <1>b
        <5> QED BY <5>1, <1>a, <3>1 DEF e
      <4>4. Answers(n)' BY <1>5, <3>1, ChannelAfter
      <4> QED BY <4>1, <4>2, <4>3, <4>4, <2>2, <1>6, <1>8 DEF Follows
    <3>2. CASE ~channel.awaited
      <4>1. Sends(n) = f /\ "repeated" \in past BY <1>1, <1>3, <3>2 DEF Follows, f
      <4>2. Sends(n)' = f /\ Expects(n)' = Successor(f) /\ "repeated" \in past'
        BY <4>1, <1>5, <1>6
      <4>3. Near(Sends(n), Expects(n))' BY <4>2 DEF Near
      <4>4. frame[n].filled => frame[n].txSeq = Sends(n) BY <2>1, <2>2 DEF Follows
      <4>5. ~Answers(n)' BY <1>9, <3>2
      <4> QED BY <4>3, <4>4, <4>5, <2>2, <1>5, <1>6, <1>8 DEF Follows
    <3> QED BY <3>1, <3>2, <1>3
  <2>3. CASE p # n
    <3>1. p = m /\ Sends(m)' = Sends(m) BY <2>1, <2>3, <1>3, <1>4, <1>5
    <3>2. ~Flies(m) /\ ~Answers(m) BY <1>3, <1>4 DEF Flies, Answers
    <3>3. Near(Sends(m), Expects(m)) BY <2>1, <3>1, <3>2 DEF Follows
    <3>4. Near(Sends(m), Expects(m))' BY <3>1, <3>3, <1>5, <1>6 DEF Near
    <3>5. frame[m].filled => frame[m].txSeq = Sends(m) BY <2>1, <3>1 DEF Follows
    <3>6. ~Answers(m)' BY <1>4, <1>9
    <3> QED BY <3>1, <3>4, <3>5, <3>6, <1>4, <1>6, <1>8 DEF Follows
  <2> QED BY <2>2, <2>3
<1> QED BY <1>6, <1>12, <1>13, <1>14 DEF Together

(* The ACK that arrives is one of a sender, which agrees already. *)
LEMMA AnswerAgrees ==
  ASSUME Typed, Together, "overtaken" \notin past, ReceiveAck
  PROVE  LET n == channel.from
         IN  /\ n \in Nodes /\ n \in left.senders /\ Answers(n)
             /\ channel.rxdSeq \in Seqs /\ channel.expected \in Seqs
             /\ Sends(n) = Expects(n) /\ Sends(n) # 0
             /\ channel.expected = 0 => channel.rxdSeq = 0
<1> DEFINE n == channel.from
<1>1. SendersSend /\ \A p \in left.senders : Follows(p) BY DEF Together
<1>2. /\ n \in Nodes /\ channel.rxdSeq \in Seqs /\ channel.expected \in Seqs
      /\ Answers(n)
  BY ChannelFields DEF Typed, ReceiveAck, Answers
<1>3. n \in left.senders BY <1>1, <1>2 DEF SendersSend
<1> QED BY <1>1, <1>2, <1>3 DEF Follows

LEMMA ReceiveAckTogether ==
  ASSUME Typed, Together, Shrinks, ReceiveAck
  PROVE  Together'
<1> SUFFICES ASSUME "overtaken" \notin past' PROVE Together'
  BY DEF Together
<1>1. "overtaken" \notin past /\ Mode /\ SendersSend /\ \A p \in left.senders : Follows(p)
  BY DEF Together, Shrinks
<1>2. PICK n \in Nodes : n = channel.from BY <1>1, AnswerAgrees
<1>3. /\ n \in left.senders /\ Answers(n) /\ Sends(n) = Expects(n)
      /\ channel.expected = 0 => channel.rxdSeq = 0
  BY <1>1, <1>2, AnswerAgrees
<1>4. \A p \in Nodes : UNCHANGED <<Sends(p), Expects(p)>> BY <1>2, <1>3, Acknowledged
<1>5. channel' = Free /\ UNCHANGED <<frame, past, left>> BY DEF ReceiveAck
<1>6. \A p \in Nodes : ~Flies(p)' /\ ~Answers(p)' BY <1>5, ChannelAfter
<1>7. left.senders \subseteq Nodes BY DEF Typed, ScenarioType
<1>8. NonZero => NonZero' BY <1>4, <1>6 DEF NonZero
<1>9. ZeroFirst => ZeroFirst' BY <1>4, <1>6 DEF ZeroFirst
<1>10. Mode' BY <1>1, <1>8, <1>9, ModeKept
<1>11. SendersSend' BY <1>1, <1>5, <1>6 DEF SendersSend
<1>12. ASSUME NEW p \in left.senders PROVE Follows(p)'
  <2>1. Follows(p) /\ p \in Nodes BY <1>1, <1>7
  <2>2. Near(Sends(p), Expects(p))
    <3>1. CASE p = n
      <4>1. Expects(n) \in Seqs BY NumbersType
      <4> QED BY <4>1, <3>1, <1>1, <1>3, NearSame DEF Mode
    <3>2. CASE p # n
      <4>1. ~Flies(p) /\ ~Answers(p) BY <3>2, <1>2, <1>3 DEF Flies, Answers
      <4> QED BY <4>1, <2>1 DEF Follows
    <3> QED BY <3>1, <3>2
  <2>3. Near(Sends(p), Expects(p))' BY <2>1, <2>2, <1>4, <1>5 DEF Near
  <2> QED BY <2>1, <2>3, <1>4, <1>5, <1>6 DEF Follows
<1> QED BY <1>5, <1>10, <1>11, <1>12 DEF Together

LEMMA NextTogether == Typed /\ Together /\ [Next]_vars => Together'
<1> SUFFICES ASSUME Typed, Together, [Next]_vars PROVE Together'
  OBVIOUS
<1>1. Shrinks BY NextShrinks
<1>2. CASE UNCHANGED vars
  BY <1>2 DEF vars, Together, Mode, NonZero, ZeroFirst, SendersSend, Follows, Near, Flies,
              Answers, Sends, Expects
<1> QED BY <1>1, <1>2, BuildTogether, TxDoneTogether, TxTimeoutTogether, PingTogether,
           RestartTogether, LoseTogether, ReceiveFrameTogether, ReceiveAckTogether DEF Next

LEMMA SpecTogether == ScenariosCope => (Spec => [](Typed /\ Together))
<1> SUFFICES ASSUME ScenariosCope PROVE Spec => [](Typed /\ Together)
  OBVIOUS
<1>1. Init => Typed /\ Together BY InitTyped, InitTogether
<1>2. Typed /\ Together /\ [Next]_vars => (Typed /\ Together)'
  BY NextTyped, NextTogether
<1> QED BY <1>1, <1>2, PTL DEF Spec

(* Once an exchange is acknowledged the sender numbers its next frame with *)
(* what the receiver expects, however many frames and ACKs were lost, put  *)
(* off or repeated before, across any number of rollovers, for every       *)
(* scenario the numbers cope with.                                         *)
THEOREM NodesAgree == ScenariosCope => (Spec => Agreement)
<1> SUFFICES ASSUME ScenariosCope PROVE Spec => Agreement
  OBVIOUS
<1> DEFINE Agree ==
      ReceiveAck /\ "overtaken" \notin past =>
        LET n == channel.from
        IN  peers'[n].out_txseq = peers'[Other(n)].in_expected
<1>1. Typed /\ Together /\ [Next]_vars => [Agree]_vars
  <2> SUFFICES ASSUME Typed, Together, ReceiveAck, "overtaken" \notin past
               PROVE  LET n == channel.from
                      IN  peers'[n].out_txseq = peers'[Other(n)].in_expected
    OBVIOUS
  <2>1. PICK n \in Nodes : n = channel.from BY AnswerAgrees
  <2>2. Sends(n) = Expects(n) /\ (channel.expected = 0 => channel.rxdSeq = 0)
    BY <2>1, AnswerAgrees
  <2>3. UNCHANGED <<Sends(n), Expects(n)>> BY <2>1, <2>2, Acknowledged
  <2> QED BY <2>1, <2>2, <2>3 DEF Sends, Expects
<1> QED BY <1>1, SpecTogether, PTL DEF Spec, Agreement

(* As long as no number went out twice no frame is judged a duplicate. *)
NoDuplicate ==
  past \cap {"repeated", "overtaken"} = {} => verdict.kind # "duplicate"

LEMMA NextNoDuplicate == Typed /\ Together /\ NoDuplicate /\ [Next]_vars => NoDuplicate'
<1> SUFFICES ASSUME Typed, Together, NoDuplicate, [Next]_vars,
                    past' \cap {"repeated", "overtaken"} = {}
             PROVE  verdict'.kind # "duplicate"
  BY DEF NoDuplicate
<1>1. past \subseteq past' BY NextShrinks DEF Shrinks
<1>2. past \cap {"repeated", "overtaken"} = {} BY <1>1
<1>3. CASE ReceiveFrame
  <2>1. PICK n \in Nodes : n = channel.from BY <1>2, <1>3, FlyingNear
  <2> DEFINE f == channel.txSeq
             e == IF f = 0 THEN 0 ELSE Expects(n)
             k == Tolerance - left.losses
  <2>2. Near(f, Expects(n)) BY <1>2, <1>3, <2>1, FlyingNear
  <2>3. verdict'.kind = Verdict(f, e) BY <1>3, <2>1, <2>2, Received
  <2>4. f = 0 \/ (f # 0 /\ Ahead(f, Expects(n), k)) BY <1>2, <2>2 DEF Near
  <2>5. k \in Int /\ k <= Tolerance BY ToleranceType DEF Typed, ScenarioType
  <2> HIDE DEF k, f
  <2>6. Verdict(f, e) \in {"expected", "missing"}
    <3>1. CASE f = 0 BY <3>1 DEF Verdict
    <3>2. CASE f # 0 /\ Ahead(f, Expects(n), k) BY <3>2, <2>5, AheadVerdict
    <3> QED BY <3>1, <3>2, <2>4
  <2> QED BY <2>3, <2>6
<1>4. CASE UNCHANGED verdict BY <1>2, <1>4 DEF NoDuplicate
<1> QED BY <1>3, <1>4 DEF Next, vars, Build, TxDone, TxTimeout, Ping, Restart, Lose, ReceiveAck

(* A message flagged as a duplicate has been received before: an           *)
(* application that drops duplicates loses nothing.                        *)
THEOREM DuplicatesAreTrue == ScenariosCope => (Spec => []NoFalseDuplicate)
<1> SUFFICES ASSUME ScenariosCope PROVE Spec => []NoFalseDuplicate
  OBVIOUS
<1>1. Init => NoDuplicate BY DEF Init, NoDuplicate
<1>2. NoDuplicate => NoFalseDuplicate BY DEF NoDuplicate, NoFalseDuplicate
<1> QED BY <1>1, <1>2, NextNoDuplicate, SpecTogether, PTL DEF Spec

-----------------------------------------------------------------------------
(***************************************************************************)
(* What is counted.  Messages have ids, of which none is received before   *)
(* it is sent.  As long as every frame has a number of its own the numbers *)
(* count the frames lost, modulo MaxSeq: fewer are lost in a row than      *)
(* there are numbers.  Short of the rollover the record follows them.      *)
(***************************************************************************)
(* The number of the next frame of n, or of the one that flies. *)
NextNumber(n) == IF Flies(n) THEN channel.txSeq ELSE Sends(n)

(* No frame was received before, and two frames are two messages. *)
Fresh(n) ==
  /\ \A i \in seen[Other(n)] : i <= ids[n]
  /\ frame[n].filled => frame[n].id <= ids[n]
  /\ Flies(n) => channel.id <= ids[n]
  /\ "repeated" \notin past =>
       /\ frame[n].filled => frame[n].id \notin seen[Other(n)]
       /\ Flies(n) => channel.id \notin seen[Other(n)]
       /\ Flies(n) /\ frame[n].filled => channel.id # frame[n].id

(* The number is that many after the expected one as frames were lost, or  *)
(* it has started over from 1 since.                                       *)
Exact(n) ==
  IF NextNumber(n) = 0 THEN lost[n] = 0
  ELSE NextNumber(n) \in {Expects(n) + lost[n], Expects(n) + lost[n] - MaxSeq}

(* The record is what the receiver expected, or before it, and no number   *)
(* has started over.                                                       *)
Recorded(n) ==
  /\ IF NextNumber(n) = 0 THEN Record(n) = 0 ELSE Expects(n) <= NextNumber(n)
  /\ Flies(n) => channel.txSeq < MaxSeq
  /\ Answers(n) => /\ Record(n) <= channel.expected /\ channel.expected <= channel.rxdSeq
                   /\ Expects(n) = channel.rxdSeq + 1
  /\ ~Answers(n) => Record(n) <= Expects(n)

Counts(n) == Exact(n) /\ (past = {} => Recorded(n))

(* Fewer frames are lost in a row than the thresholds tell apart. *)
FewLost == \A n \in Nodes : lost[n] + left.losses <= Tolerance

LEMMA InitFresh == Init => \A n \in Nodes : Fresh(n)
  BY TwoNodes DEF Init, Fresh, Flies, Free, NoFrame

LEMMA NextFresh ==
  ASSUME Typed, \A n \in Nodes : Fresh(n), [Next]_vars
  PROVE  \A n \in Nodes : Fresh(n)'
<1> SUFFICES ASSUME NEW p \in Nodes PROVE Fresh(p)'
  OBVIOUS
<1>1. Fresh(p) /\ Other(p) \in Nodes /\ Other(p) # p BY TwoNodes
<1>2. past \subseteq past' BY NextShrinks DEF Shrinks
<1>3. ids[p] \in Nat /\ seen[Other(p)] \subseteq Nat
      /\ frame[p] \in {NoFrame} \cup Frames
  BY <1>1 DEF Typed
<1>4. CASE UNCHANGED vars BY <1>1, <1>4 DEF vars, Fresh, Flies
<1>5. ASSUME NEW n \in Nodes, Build(n) PROVE Fresh(p)'
  <2>1. /\ ids' = [ids EXCEPT ![n] = @ + 1]
        /\ frame' = [frame EXCEPT ![n] =
             [filled |-> TRUE, txSeq |-> peers[n].out_txseq, id |-> ids[n] + 1]]
        /\ UNCHANGED <<channel, seen, past>> /\ ~Flies(n)
    BY <1>5 DEF Build, Flies
  <2>2. Flies(p)' = Flies(p) BY <2>1, ChannelAfter
  <2>3. CASE p = n
    <3>1. ids'[n] = ids[n] + 1 /\ frame'[n].id = ids[n] + 1 BY <2>1 DEF Typed
    <3>2. ids[n] + 1 \notin seen[Other(n)]
      BY <1>1, <1>3, <2>3 DEF Fresh
    <3>3. \A i \in seen[Other(n)] : i <= ids'[n]
      BY <1>1, <1>3, <2>3, <3>1 DEF Fresh
    <3>4. ids'[n] \in Nat BY <1>3, <2>3, <3>1
    <3> QED BY <3>1, <3>2, <3>3, <3>4, <2>1, <2>2, <2>3 DEF Fresh
  <2>4. CASE p # n
    <3>1. ids'[p] = ids[p] /\ frame'[p] = frame[p] BY <2>1, <2>4 DEF Typed
    <3> QED BY <3>1, <2>1, <2>2, <1>1 DEF Fresh
  <2> QED BY <2>3, <2>4
<1>6. ASSUME NEW n \in Nodes, TxDone(n) PROVE Fresh(p)'
  <2>1. /\ frame[n].filled /\ frame'[n] = NoFrame
        /\ \A q \in Nodes : q # n => frame'[q] = frame[q]
        /\ UNCHANGED <<ids, seen>>
    BY <1>6 DEF TxDone, Typed
  <2>2. (Flies(p)' <=> p = n) /\ channel'.id = frame[n].id
    BY <1>6, ChannelAfter DEF TxDone
  <2> QED BY <1>1, <1>2, <2>1, <2>2 DEF Fresh, NoFrame
<1>7. ASSUME NEW n \in Nodes, TxTimeout(n) PROVE Fresh(p)'
  <2>1. /\ frame[n].filled
        /\ \A q \in Nodes : frame'[q] = frame[q] \/ ~frame'[q].filled
        /\ UNCHANGED <<ids, seen>> /\ ~Flies(p)
    BY <1>7, ChannelFree DEF TxTimeout, Typed, NoFrame
  <2>2. CASE UNCHANGED channel
    <3>1. ~Flies(p)' BY <2>1, <2>2, ChannelAfter
    <3> QED BY <3>1, <2>1, <1>1, <1>2 DEF Fresh
  <2>3. CASE /\ channel' = [kind |-> "frame", from |-> n, txSeq |-> frame[n].txSeq,
                            id |-> frame[n].id, awaited |-> FALSE]
             /\ "repeated" \in past'
    <3>1. (Flies(p)' <=> p = n) /\ channel'.id = frame[n].id BY <2>3, ChannelAfter
    <3> QED BY <3>1, <2>1, <2>3, <1>1 DEF Fresh
  <2> QED BY <2>2, <2>3, <1>7 DEF TxTimeout, Meets
<1>8. ASSUME NEW n \in Nodes, Ping(n) PROVE Fresh(p)'
  <2>1. UNCHANGED <<frame, seen>> /\ ids' = [ids EXCEPT ![n] = @ + 1]
    BY <1>8 DEF Ping
  <2>2. (Flies(p)' <=> p = n) /\ channel'.id = ids[n] + 1 BY <1>8, ChannelAfter DEF Ping
  <2>3. CASE p = n
    <3>1. ids'[n] = ids[n] + 1 /\ ids[n] \in Nat BY <2>1 DEF Typed
    <3>2. ids[n] + 1 \notin seen[Other(n)] /\ \A i \in seen[Other(n)] : i <= ids'[n]
      BY <1>1, <1>3, <2>3, <3>1 DEF Fresh
    <3>3. frame[n].filled => frame[n].id \in Nat /\ frame[n].id <= ids[n]
      BY <1>1, <1>3, <2>3, FrameFields DEF Fresh
    <3>4. frame[n].filled => frame[n].id <= ids'[n] /\ frame[n].id # ids[n] + 1
      BY <3>1, <3>3
    <3>5. channel'.id <= ids'[n] BY <2>2, <3>1
    <3> QED BY <1>1, <1>2, <2>1, <2>2, <2>3, <3>2, <3>4, <3>5 DEF Fresh
  <2>4. CASE p # n
    <3>1. ids'[p] = ids[p] BY <2>1, <2>4 DEF Typed
    <3> QED BY <3>1, <2>1, <2>2, <2>4, <1>1, <1>2 DEF Fresh
  <2> QED BY <2>3, <2>4
<1>9. ASSUME NEW n \in Nodes, Restart(n) PROVE Fresh(p)'
  <2>1. /\ \A q \in Nodes : frame'[q] = frame[q] \/ ~frame'[q].filled
        /\ UNCHANGED <<ids, seen, past>> /\ channel' = Free
    BY <1>9 DEF Restart, Typed, NoFrame
  <2>2. ~Flies(p)' BY <2>1, ChannelAfter
  <2> QED BY <2>1, <2>2, <1>1 DEF Fresh
<1>10. CASE Lose \/ ReceiveAck
  <2>1. UNCHANGED <<frame, ids, seen, past>> /\ channel' = Free
    BY <1>10 DEF Lose, ReceiveAck
  <2>2. ~Flies(p)' BY <2>1, ChannelAfter
  <2> QED BY <2>1, <2>2, <1>1 DEF Fresh
<1>11. CASE ReceiveFrame
  <2>1. PICK n \in Nodes : n = channel.from
    BY <1>11, ChannelFields DEF Typed, ReceiveFrame
  <2>2. /\ seen' = [seen EXCEPT ![Other(n)] = @ \cup {channel.id}]
        /\ UNCHANGED <<frame, ids, past>> /\ Flies(n)
    BY <1>11, <2>1 DEF ReceiveFrame, Flies
  <2>3. ~Flies(p)'
    <3>1. channel'.kind # "frame" BY <1>11 DEF ReceiveFrame, Free
    <3> QED BY <3>1 DEF Flies
  <2>4. CASE p = n
    <3>1. seen'[Other(n)] = seen[Other(n)] \cup {channel.id}
      BY <1>1, <2>2, <2>4 DEF Typed
    <3> QED BY <3>1, <1>1, <2>2, <2>3, <2>4 DEF Fresh
  <2>5. CASE p # n
    <3>1. Other(p) # Other(n) /\ Other(n) \in Nodes BY <2>1, <2>5, <1>1, TwoNodes
    <3>2. seen'[Other(p)] = seen[Other(p)] BY <1>1, <2>2, <3>1 DEF Typed
    <3> QED BY <3>2, <1>1, <2>2, <2>3 DEF Fresh
  <2> QED BY <2>4, <2>5
<1> QED BY <1>4, <1>5, <1>6, <1>7, <1>8, <1>9, <1>10, <1>11 DEF Next

(* As long as no number goes out twice. *)
OncePast == past \subseteq {"rollover"}

CountedOnce ==
  OncePast =>
    /\ \A n \in left.senders : Counts(n)
    /\ verdict.kind # "none" =>
         verdict.missing = verdict.lost + IF verdict.rolled THEN 1 ELSE 0

LEMMA InitFewLost == ScenariosCope /\ Init => FewLost
<1> SUFFICES ASSUME ScenariosCope, Init PROVE FewLost
  OBVIOUS
<1>1. left.losses <= Tolerance BY DEF Init, ScenariosCope, Copes
<1>2. left.losses \in Nat BY InitTyped DEF Typed, ScenarioType
<1> QED BY <1>1, <1>2, ToleranceType DEF Init, FewLost

LEMMA NextFewLost == Typed /\ FewLost /\ [Next]_vars => FewLost'
<1> SUFFICES ASSUME Typed, FewLost, [Next]_vars, NEW n \in Nodes
             PROVE  lost'[n] + left'.losses <= Tolerance
  BY DEF FewLost
<1>1. /\ lost[n] + left.losses <= Tolerance /\ lost[n] \in Nat /\ lost \in [Nodes -> Nat]
      /\ left.losses \in Nat /\ left'.losses \in Nat /\ left'.losses <= left.losses
      /\ Tolerance \in Int
  BY NextShrinks, ToleranceType DEF FewLost, Typed, Shrinks
<1>2. CASE Lose
  <2>1. left'.losses = left.losses - 1 BY <1>2 DEF Lose, Spend, Typed, ScenarioType
  <2>2. lost'[n] \in {lost[n], lost[n] + 1} BY <1>1, <1>2 DEF Lose
  <2> QED BY <1>1, <2>1, <2>2
<1>3. CASE ~Lose
  <2>1. lost'[n] = lost[n] \/ lost'[n] = 0
    BY <1>1, <1>3 DEF Next, vars, Build, TxDone, TxTimeout, Ping, Restart, ReceiveFrame,
                      ReceiveAck
  <2> QED BY <1>1, <2>1
<1> QED BY <1>2, <1>3

LEMMA InitCountedOnce == Init => CountedOnce
<1> SUFFICES ASSUME Init PROVE CountedOnce
  OBVIOUS
<1>1. Typed BY InitTyped
<1>2. \A n \in Nodes : Sends(n) = left.start /\ Expects(n) = left.start
                       /\ Record(n) = left.start /\ lost[n] = 0
  BY TwoNodes DEF Sends, Expects, Record, Init
<1>3. \A n \in Nodes : ~Flies(n) /\ ~Answers(n)
  BY DEF Flies, Answers, Init, Free
<1>4. left.start \in Seqs /\ left.senders \subseteq Nodes BY <1>1 DEF Typed, ScenarioType
<1>5. left.start \in Int BY <1>4, SeqsType
<1>6. \A n \in left.senders : Counts(n)
  BY <1>2, <1>3, <1>4, <1>5 DEF Counts, Exact, Recorded, NextNumber
<1>7. verdict.kind = "none" BY DEF Init
<1> QED BY <1>6, <1>7 DEF CountedOnce

(* A node that a step does not concern. *)
LEMMA CountsKept ==
  ASSUME NEW p, Counts(p), past \subseteq past',
         Flies(p)' <=> Flies(p), Answers(p)' <=> Answers(p),
         UNCHANGED <<Sends(p), Expects(p), Record(p), lost[p]>>,
         Flies(p) \/ Answers(p) => UNCHANGED channel
  PROVE  Counts(p)'
<1>1. NextNumber(p)' = NextNumber(p) BY DEF NextNumber
<1>2. Exact(p)' BY <1>1 DEF Counts, Exact
<1>3. past' = {} => past = {} /\ Recorded(p) BY DEF Counts
<1>4. past' = {} => Recorded(p)' BY <1>1, <1>3 DEF Recorded
<1> QED BY <1>2, <1>4 DEF Counts

LEMMA TransmitCounts ==
  ASSUME Typed, NEW n \in Nodes, channel = Free, CountSent(n), NEW i,
         UNCHANGED lost, past \subseteq past', past' = {} => Sends(n) # MaxSeq,
         channel' = [kind |-> "frame", from |-> n, txSeq |-> Sends(n), id |-> i,
                     awaited |-> TRUE],
         NEW p \in Nodes, Counts(p)
  PROVE  Counts(p)'
<1>1. ~Flies(p) /\ ~Answers(p) BY ChannelFree
<1>2. /\ Flies(p)' <=> p = n
      /\ ~Answers(p)' /\ channel'.txSeq = Sends(n)
  BY ChannelAfter
<1>3. /\ p # n => UNCHANGED Sends(p)
      /\ UNCHANGED <<Expects(p), Record(p)>>
  BY SentCounts
<1>4. UNCHANGED lost[p] OBVIOUS
<1>5. CASE p = n
  <2>1. NextNumber(n) = Sends(n) /\ NextNumber(n)' = Sends(n)
    BY <1>1, <1>2, <1>5 DEF NextNumber
  <2>2. Exact(n)' BY <2>1, <1>3, <1>4, <1>5 DEF Counts, Exact
  <2>3. past' = {} => Recorded(n)'
    <3> SUFFICES ASSUME past' = {} PROVE Recorded(n)'
      OBVIOUS
    <3>1. Sends(n) < MaxSeq
      <4>1. Sends(n) \in Seqs BY NumbersType
      <4> QED BY <4>1, SeqsType
    <3>2. Recorded(n) BY <1>5 DEF Counts
    <3> QED BY <3>1, <3>2, <2>1, <1>1, <1>2, <1>3, <1>5 DEF Recorded
  <2> QED BY <2>2, <2>3, <1>5 DEF Counts
<1>6. CASE p # n BY <1>1, <1>2, <1>3, <1>4, <1>6, CountsKept
<1> QED BY <1>5, <1>6

(* What the difference of the numbers says of a frame. *)
LEMMA MissingCounts ==
  ASSUME NEW f \in Seqs, NEW e \in Seqs, NEW l \in Nat, l <= Tolerance,
         f \in {e + l, e + l - MaxSeq}, Verdict(f, e) \in {"expected", "missing"}
  PROVE  MissingFrames(f, e) = l + IF f < e THEN 1 ELSE 0
<1>1. f \in Int /\ e \in Int /\ 0 <= f /\ e <= MaxSeq /\ MaxSeq \in Int BY SeqsType
<1>2. Tolerance \in Int /\ Tolerance < MaxSeq BY ToleranceType
<1>3. CASE f = e
  <2>1. l = 0 BY <1>1, <1>2, <1>3
  <2> QED BY <2>1, <1>1, <1>3 DEF MissingFrames, Verdict
<1>4. CASE f # e
  <2>1. MissingFrames(f, e) = (f - e) % (MaxSeq + 1)
    BY <1>4 DEF Verdict, MissingFrames, Uint8
  <2>2. CASE f = e + l
    <3>1. ~(f < e) /\ f - e = l /\ 0 <= l /\ l < MaxSeq + 1 BY <2>2, <1>1, <1>2
    <3>2. l % (MaxSeq + 1) = l BY <3>1, <1>1
    <3> QED BY <3>1, <3>2, <2>1
  <2>3. CASE f = e + l - MaxSeq
    <3>1. f < e /\ f - e = l - MaxSeq BY <2>3, <1>1, <1>2
    <3>2. (l - MaxSeq) % (MaxSeq + 1) = l + 1 BY <1>1, <1>2
    <3> QED BY <3>1, <3>2, <2>1
  <2> QED BY <2>2, <2>3
<1> QED BY <1>3, <1>4

LEMMA ReceiveFrameCounts ==
  ASSUME Typed, Together, FewLost, CountedOnce, OncePast, ReceiveFrame
  PROVE  /\ \A p \in left.senders : Counts(p)'
         /\ verdict'.missing = verdict'.lost + IF verdict'.rolled THEN 1 ELSE 0
<1>0. "repeated" \notin past /\ "overtaken" \notin past BY DEF OncePast
<1>1. PICK n \in Nodes : n = channel.from BY <1>0, FlyingNear
<1> DEFINE m == Other(n)
           f == channel.txSeq
           e == IF f = 0 THEN 0 ELSE Expects(n)
           k == Tolerance - left.losses
<1>2. /\ n \in left.senders /\ Flies(n) /\ f \in Seqs /\ channel.awaited \in BOOLEAN
      /\ Near(f, Expects(n))
      /\ f # 0 \/ Expects(n) = 0 \/ m \notin left.senders
  BY <1>0, <1>1, FlyingNear
<1>3. m \in Nodes /\ m # n /\ Other(m) = n /\ \A p \in Nodes : p = n \/ p = m
  BY TwoNodes
<1>4. Follows(n) /\ Counts(n) BY <1>0, <1>2 DEF Together, CountedOnce
<1>5. channel.awaited /\ Sends(n) = Successor(f) BY <1>0, <1>2, <1>4 DEF Follows
<1>6. /\ Expects(n)' = Successor(f)
      /\ UNCHANGED <<Sends(n), Record(n), Expects(m)>>
      /\ f # 0 \/ Expects(n) = 0 => UNCHANGED <<Sends(m), Record(m)>>
      /\ channel' = [kind |-> "ack", from |-> n, rxdSeq |-> f, expected |-> e]
      /\ verdict' = [kind |-> Verdict(f, e), missing |-> MissingFrames(f, e),
                     again |-> channel.id \in seen[m], lost |-> lost[n],
                     rolled |-> f < e, overtaken |-> Overtaken(n), from |-> n]
  BY <1>1, <1>2, <1>5, Received
<1>7. lost' = [lost EXCEPT ![n] = 0] /\ UNCHANGED past BY <1>1 DEF ReceiveFrame
<1>8. /\ \A p \in Nodes : ~Flies(p)' /\ (Answers(p)' <=> p = n)
      /\ channel'.rxdSeq = f /\ channel'.expected = e
  BY <1>6, ChannelAfter
<1>9. lost'[n] = 0 /\ lost'[m] = lost[m] /\ lost[n] \in Nat /\ lost[n] <= Tolerance
  <2>1. left.losses \in Nat /\ lost[n] + left.losses <= Tolerance /\ lost[n] \in Nat
    BY DEF FewLost, Typed, ScenarioType
  <2> QED BY <2>1, <1>3, <1>7, ToleranceType DEF Typed
<1>10. /\ Expects(n) \in Seqs /\ Expects(n) \in Int /\ Record(n) \in Int /\ 0 <= Record(n)
       /\ 0 <= Expects(n) /\ Expects(n) <= MaxSeq
       /\ f \in Int /\ 0 <= f /\ f <= MaxSeq /\ MaxSeq \in Int
       /\ Tolerance \in Int /\ Tolerance < MaxSeq
  BY <1>2, NumbersType, SeqsType, ToleranceType
<1>11. NextNumber(n) = f BY <1>2 DEF NextNumber
<1>12. e \in Seqs /\ f \in {e + lost[n], e + lost[n] - MaxSeq}
  <2>1. f = 0 => lost[n] = 0 BY <1>4, <1>11 DEF Counts, Exact
  <2>2. f # 0 => f \in {e + lost[n], e + lost[n] - MaxSeq}
    BY <1>4, <1>11 DEF Counts, Exact
  <2> QED BY <2>1, <2>2, <1>10, SeqsType
<1>13. Verdict(f, e) \in {"expected", "missing"}
  <2>1. f = 0 \/ (f # 0 /\ Ahead(f, Expects(n), k)) BY <1>0, <1>2 DEF Near
  <2>2. k \in Int /\ k <= Tolerance BY ToleranceType DEF Typed, ScenarioType
  <2> HIDE DEF k, f
  <2>3. CASE f = 0 BY <2>3 DEF Verdict
  <2>4. CASE f # 0 /\ Ahead(f, Expects(n), k) BY <2>2, <2>4, AheadVerdict
  <2> QED BY <2>1, <2>3, <2>4
<1>14. left.senders \subseteq Nodes BY DEF Typed, ScenarioType
<1>15. past = {} => Successor(f) = f + 1 /\ Record(n) <= e /\ e <= f
  <2> SUFFICES ASSUME past = {} PROVE Successor(f) = f + 1 /\ Record(n) <= e /\ e <= f
    OBVIOUS
  <2>1. Recorded(n) BY <1>4 DEF Counts
  <2>2. f < MaxSeq BY <2>1, <1>2 DEF Recorded
  <2>3. Successor(f) = f + 1 BY <2>2, <1>2, <1>10, SuccessorType
  <2>4. IF f = 0 THEN Record(n) = 0 ELSE Expects(n) <= f /\ Record(n) <= Expects(n)
    BY <2>1, <1>2, <1>11 DEF Recorded, Flies, Answers
  <2> QED BY <2>3, <2>4, <1>10
<1>16. Successor(f) \in 1 .. MaxSeq BY <1>2, SuccessorType
<1> HIDE DEF f, e, m
<1>17. Counts(n)'
  <2>1. NextNumber(n)' = Successor(f) BY <1>5, <1>6, <1>8 DEF NextNumber
  <2>2. Successor(f) \in Int /\ Successor(f) # 0 BY <1>10, <1>16
  <2>3. Exact(n)' BY <2>1, <2>2, <1>6, <1>9, <1>10 DEF Exact
  <2>4. past' = {} => Recorded(n)'
    BY <2>1, <2>2, <1>6, <1>7, <1>8, <1>15 DEF Recorded
  <2> QED BY <2>3, <2>4 DEF Counts
<1>18. ASSUME m \in left.senders PROVE Counts(m)'
  <2>1. Counts(m) BY <1>18 DEF CountedOnce
  <2>2. UNCHANGED <<Sends(m), Record(m)>> BY <1>2, <1>6, <1>18
  <2>3. ~Flies(m) /\ ~Answers(m) BY <1>2, <1>3 DEF Flies, Answers
  <2>4. ~Flies(m)' /\ ~Answers(m)' BY <1>3, <1>8
  <2> QED BY <2>1, <2>2, <2>3, <2>4, <1>6, <1>7, <1>9, CountsKept
<1>19. MissingFrames(f, e) = lost[n] + IF f < e THEN 1 ELSE 0
  BY <1>2, <1>9, <1>12, <1>13, MissingCounts DEF f
<1> QED BY <1>3, <1>6, <1>14, <1>17, <1>18, <1>19

(* process_ack, when the record is not beyond what the receiver expected.  *)
LEMMA NextRecordFollows ==
  ASSUME NEW r \in Seqs, NEW f \in Seqs, NEW e \in Seqs, r <= e, e <= f
  PROVE  NextRecord(r, f, e) = Successor(f)
<1>1. r \in Int /\ e \in Int /\ f \in Int BY SeqsType
<1>2. Against(r, e) # "behind"
  <2>1. r = e \/ r < e BY <1>1
  <2> QED BY <2>1 DEF Against, AcksLost
<1>3. f = e \/ f > e BY <1>1
<1>4. f # e => f > e BY <1>3
<1> QED BY <1>2, <1>4 DEF NextRecord

LEMMA ReceiveAckCounts ==
  ASSUME Typed, Together, CountedOnce, OncePast, ReceiveAck,
         NEW n \in Nodes, n = channel.from
  PROVE  /\ past = {} => Record(n)' = Expects(n)'
         /\ \A p \in left.senders : Counts(p)'
<1> DEFINE f == channel.rxdSeq
           e == channel.expected
<1>0. "overtaken" \notin past BY DEF OncePast
<1>1. /\ n \in left.senders /\ Answers(n) /\ Sends(n) = Expects(n) /\ Sends(n) # 0
      /\ f \in Seqs /\ e \in Seqs
      /\ e = 0 => f = 0
  BY <1>0, AnswerAgrees
<1>2. /\ \A p \in Nodes : UNCHANGED <<Sends(p), Expects(p)>>
      /\ UNCHANGED Record(Other(n))
      /\ Record(n)' = NextRecord(Record(n), f, e)
  BY <1>1, Acknowledged
<1>3. Counts(n) BY <1>1 DEF CountedOnce
<1>4. Record(n) \in Seqs /\ Expects(n) \in Seqs BY NumbersType
<1>5. past = {} => Record(n)' = Expects(n)'
  <2> SUFFICES ASSUME past = {} PROVE Record(n)' = Expects(n)'
    OBVIOUS
  <2>1. Record(n) <= e /\ e <= f /\ Expects(n) = f + 1
    BY <1>1, <1>3 DEF Counts, Recorded
  <2> HIDE DEF f, e
  <2>2. f # MaxSeq BY <2>1, <1>1, <1>4, SeqsType
  <2>3. Successor(f) = f + 1 BY <2>2, <1>1, SuccessorType
  <2> QED BY <2>1, <2>3, <1>1, <1>2, <1>4, NextRecordFollows
<1> HIDE DEF f, e
<1>6. channel' = Free /\ UNCHANGED <<lost, past>> BY DEF ReceiveAck
<1>7. \A p \in Nodes : ~Flies(p)' /\ ~Answers(p)' BY <1>6, ChannelAfter
<1>8. \A p \in Nodes : ~Flies(p) BY <1>1 DEF Flies, Answers
<1>9. ASSUME NEW p \in left.senders PROVE Counts(p)'
  <2>1. p \in Nodes BY DEF Typed, ScenarioType
  <2>2. Counts(p) BY DEF CountedOnce
  <2>3. UNCHANGED <<Sends(p), Expects(p), lost[p]>> BY <2>1, <1>2, <1>6
  <2>4. CASE p = n
    <3>1. NextNumber(n)' = Sends(n) /\ NextNumber(n) = Sends(n)
      BY <1>2, <1>7, <1>8 DEF NextNumber
    <3>2. Exact(n)' BY <3>1, <2>2, <2>3, <2>4 DEF Counts, Exact
    <3>3. past' = {} => Record(n)' <= Expects(n)' /\ Expects(n)' <= NextNumber(n)'
      BY <3>1, <1>1, <1>2, <1>4, <1>5, <1>6, SeqsType
    <3>4. past' = {} => Recorded(n)'
      BY <3>1, <3>3, <1>1, <1>7 DEF Recorded
    <3> QED BY <3>2, <3>4, <2>4 DEF Counts
  <2>5. CASE p # n
    <3>1. p = Other(n) BY <2>1, <2>5, TwoNodes
    <3>2. ~Answers(p) /\ Record(p)' = Record(p) BY <2>5, <3>1, <1>1, <1>2 DEF Answers
    <3> QED BY <3>2, <2>1, <2>2, <2>3, <1>6, <1>7, <1>8, CountsKept
  <2> QED BY <2>4, <2>5
<1> QED BY <1>5, <1>9

LEMMA LoseCounts ==
  ASSUME Typed, Together, FewLost, CountedOnce, \A n \in Nodes : Fresh(n), OncePast, Lose
  PROVE  \A p \in left.senders : Counts(p)'
<1>0. "repeated" \notin past /\ "overtaken" \notin past BY DEF OncePast
<1>1. Mode /\ \A p \in left.senders : Follows(p) BY <1>0 DEF Together
<1>2. NonZero BY <1>1 DEF Mode, Lose, Spend
<1>3. channel' = Free /\ UNCHANGED <<peers, past>> BY DEF Lose
<1>4. \A p \in Nodes : UNCHANGED <<Sends(p), Expects(p), Record(p)>> BY <1>3, PeersKept
<1>5. \A p \in Nodes : ~Flies(p)' /\ ~Answers(p)' BY <1>3, ChannelAfter
<1> SUFFICES ASSUME NEW p \in left.senders PROVE Counts(p)'
  OBVIOUS
<1>6. p \in Nodes /\ Follows(p) /\ Counts(p) /\ Fresh(p)
  BY <1>1 DEF CountedOnce, Typed, ScenarioType
<1>7. /\ Sends(p) \in Seqs /\ Expects(p) \in Seqs /\ Record(p) \in Seqs
      /\ lost[p] \in Nat /\ lost \in [Nodes -> Nat] /\ lost[p] < MaxSeq
  <2>1. left.losses \in Nat /\ lost[p] + left.losses <= Tolerance
    BY <1>6 DEF FewLost, Typed, ScenarioType
  <2> QED BY <2>1, <1>6, NumbersType, ToleranceType, SeqsType DEF Typed
<1>8. Sends(p) # 0 /\ NextNumber(p)' = Sends(p)
  BY <1>2, <1>4, <1>5, <1>6 DEF NonZero, NextNumber
<1>9. CASE Flies(p)
  <2> DEFINE f == channel.txSeq
  <2>1. f \in Seqs /\ f # 0 /\ channel.awaited \in BOOLEAN /\ NextNumber(p) = f
    BY <1>2, <1>6, <1>9, ChannelFields DEF Flies, Typed, NonZero, NextNumber
  <2>2. channel.awaited BY <1>0, <1>6, <1>9, <2>1 DEF Follows
  <2>3. Sends(p) = Successor(f) BY <1>6, <1>9, <2>2 DEF Follows
  <2>4. channel.id \notin seen[Other(p)] BY <1>0, <1>6, <1>9 DEF Fresh
  <2>5. lost'[p] = lost[p] + 1
    <3>1. lost' = [lost EXCEPT ![p] = @ + 1]
      BY <1>9, <2>2, <2>4 DEF Lose, Flies
    <3> QED BY <3>1, <1>6, <1>7
  <2>6. f \in {Expects(p) + lost[p], Expects(p) + lost[p] - MaxSeq}
    BY <1>6, <2>1 DEF Counts, Exact
  <2> HIDE DEF f
  <2>7. Successor(f) \in {Expects(p) + lost[p] + 1, Expects(p) + lost[p] + 1 - MaxSeq}
    <3>1. Successor(f) = IF f = MaxSeq THEN 1 ELSE f + 1 BY <2>1, SuccessorType
    <3>2. f # MaxSeq \/ f = Expects(p) + lost[p] BY <2>6, <1>7, SeqsType
    <3>3. f \in Int /\ MaxSeq \in Int /\ Expects(p) \in Int /\ lost[p] \in Int
      BY <2>1, <1>7, SeqsType
    <3> QED BY <3>1, <3>2, <3>3, <2>6
  <2>8. Exact(p)' BY <1>4, <1>6, <1>7, <1>8, <2>3, <2>5, <2>7, SeqsType DEF Exact
  <2>9. past' = {} => Recorded(p)'
    <3> SUFFICES ASSUME past = {} PROVE Recorded(p)'
      BY <1>3
    <3>1. Recorded(p) BY <1>6 DEF Counts
    <3>2. f < MaxSeq /\ Expects(p) <= f /\ Record(p) <= Expects(p)
      BY <3>1, <1>9, <2>1 DEF Recorded, Flies, Answers, f
    <3>3. Sends(p) = f + 1 BY <3>2, <2>1, <2>3, SuccessorType, SeqsType
    <3>4. Expects(p) <= Sends(p) BY <3>2, <3>3, <1>7, <2>1, SeqsType
    <3> QED BY <3>2, <3>4, <1>4, <1>5, <1>6, <1>8 DEF Recorded
  <2> QED BY <2>8, <2>9 DEF Counts
<1>10. CASE Answers(p)
  <2>1. lost' = lost BY <1>10 DEF Lose, Answers
  <2>2. NextNumber(p) = Sends(p) BY <1>10 DEF NextNumber, Flies, Answers
  <2>3. Exact(p)' BY <2>1, <2>2, <1>4, <1>6, <1>8 DEF Counts, Exact
  <2>4. channel.rxdSeq \in Seqs /\ channel.expected \in Seqs
    BY <1>10, ChannelFields DEF Typed, Answers
  <2>5. past' = {} => Recorded(p)'
    <3> SUFFICES ASSUME past = {} PROVE Recorded(p)'
      BY <1>3
    <3>1. Recorded(p) BY <1>6 DEF Counts
    <3>2. Record(p) <= Expects(p) BY <3>1, <2>4, <1>7, <1>10, SeqsType DEF Recorded
    <3>3. Expects(p) <= Sends(p) BY <3>1, <2>2, <1>8 DEF Recorded
    <3> QED BY <3>2, <3>3, <1>4, <1>5, <1>6, <1>8 DEF Recorded
  <2> QED BY <2>3, <2>5 DEF Counts
<1>11. CASE ~Flies(p) /\ ~Answers(p)
  <2>1. channel.kind # "free" BY DEF Lose
  <2>2. channel.from # p
    BY <2>1, <1>11, ChannelFields DEF Typed, Flies, Answers
  <2>3. lost'[p] = lost[p] BY <2>2, <1>6, <1>7 DEF Lose
  <2> QED BY <2>3, <1>3, <1>4, <1>5, <1>6, <1>11, CountsKept
<1> QED BY <1>9, <1>10, <1>11

LEMMA NextCountedOnce ==
  Typed /\ Together /\ FewLost /\ CountedOnce /\ (\A n \in Nodes : Fresh(n)) /\ [Next]_vars
    => CountedOnce'
<1> DEFINE Told == verdict.kind # "none" =>
                     verdict.missing = verdict.lost + IF verdict.rolled THEN 1 ELSE 0
<1> SUFFICES ASSUME Typed, Together, FewLost, CountedOnce, \A n \in Nodes : Fresh(n),
                    [Next]_vars, OncePast'
             PROVE  (\A p \in left'.senders : Counts(p)') /\ Told'
  BY DEF CountedOnce
<1>1. Shrinks BY NextShrinks
<1>2. /\ OncePast /\ "overtaken" \notin past /\ past \subseteq past'
      /\ left'.senders = left.senders /\ left.senders \subseteq Nodes
  BY <1>1 DEF Shrinks, Typed, ScenarioType, OncePast
<1>3. (\A p \in left.senders : Counts(p)) /\ Told
  BY <1>2 DEF CountedOnce
<1>4. Mode /\ SendersSend /\ \A p \in left.senders : Follows(p)
  BY <1>2 DEF Together
<1>5. ASSUME UNCHANGED <<peers, channel, lost>>
      PROVE  \A p \in left.senders : Counts(p)'
  <2> SUFFICES ASSUME NEW p \in left.senders PROVE Counts(p)'
    OBVIOUS
  <2>1. UNCHANGED <<Sends(p), Expects(p), Record(p), lost[p], Flies(p), Answers(p)>>
    BY <1>5 DEF Sends, Expects, Record, Flies, Answers
  <2> QED BY <2>1, <1>2, <1>3, <1>5, CountsKept
<1>6. ASSUME NEW n \in Nodes, Build(n) PROVE \A p \in left.senders : Counts(p)'
  BY <1>5, <1>6 DEF Build
<1>7. ASSUME NEW n \in Nodes, TxDone(n) PROVE \A p \in left.senders : Counts(p)'
  <2>1. n \in left.senders BY <1>4, <1>7 DEF SendersSend, TxDone
  <2>2. frame[n].txSeq = Sends(n) BY <2>1, <1>4, <1>7 DEF Follows, TxDone
  <2>3. /\ channel = Free /\ CountSent(n) /\ UNCHANGED lost
        /\ past' = {} => Sends(n) # MaxSeq
        /\ channel' = [kind |-> "frame", from |-> n, txSeq |-> Sends(n),
                       id |-> frame[n].id, awaited |-> TRUE]
    BY <2>2, <1>7 DEF TxDone, Meets, RolledOver, Sends
  <2> QED BY <2>3, <1>2, <1>3, TransmitCounts
<1>8. ASSUME NEW n \in Nodes, Ping(n) PROVE \A p \in left.senders : Counts(p)'
  <2>1. /\ channel = Free /\ CountSent(n) /\ UNCHANGED lost
        /\ past' = {} => Sends(n) # MaxSeq
        /\ channel' = [kind |-> "frame", from |-> n, txSeq |-> Sends(n),
                       id |-> ids[n] + 1, awaited |-> TRUE]
    BY <1>8 DEF Ping, Meets, RolledOver, Sends
  <2> QED BY <2>1, <1>2, <1>3, TransmitCounts
<1>9. ASSUME NEW n \in Nodes, TxTimeout(n) PROVE \A p \in left.senders : Counts(p)'
  <2>1. UNCHANGED <<peers, channel, lost>> BY <1>9 DEF TxTimeout, Meets, OncePast
  <2> QED BY <2>1, <1>5
<1>10. ASSUME NEW n \in Nodes, Restart(n) PROVE \A p \in left.senders : Counts(p)'
  <2>1. /\ left.restarts > 0 /\ n \in left.restarting /\ channel' = Free
        /\ peers' = [peers EXCEPT ![n] = NewPeer] /\ lost' = [m \in Nodes |-> 0]
    BY <1>10 DEF Restart, Spend
  <2>2. Alone(left) BY <1>4, <2>1 DEF Mode
  <2>3. \A p \in left.senders : p = n BY <2>1, <2>2, <1>2, TwoNodes DEF Alone
  <2>4. Sends(n)' = 0 /\ Record(n)' = 0 /\ lost'[n] = 0
    BY <2>1 DEF Sends, Record, Typed, NewPeer
  <2>5. ~Flies(n)' /\ ~Answers(n)' BY <2>1, ChannelAfter
  <2>6. Expects(n)' \in Seqs
    <3>1. Typed' BY NextTyped
    <3>2. Other(n) \in Nodes BY TwoNodes
    <3> QED BY <3>1, <3>2, PeerFields DEF Expects, Typed
  <2>7. NextNumber(n)' = 0 BY <2>4, <2>5 DEF NextNumber
  <2>8. Exact(n)' BY <2>4, <2>7 DEF Exact
  <2>9. Recorded(n)' BY <2>4, <2>5, <2>6, <2>7, SeqsType DEF Recorded
  <2> QED BY <2>3, <2>8, <2>9 DEF Counts
<1>11. Lose => \A p \in left.senders : Counts(p)' BY <1>2, LoseCounts
<1>12. ReceiveFrame => (\A p \in left.senders : Counts(p)') /\ Told'
  BY <1>2, ReceiveFrameCounts
<1>13. ASSUME ReceiveAck PROVE \A p \in left.senders : Counts(p)'
  <2>1. PICK n \in Nodes : n = channel.from BY <1>2, <1>13, AnswerAgrees
  <2> QED BY <2>1, <1>2, <1>13, ReceiveAckCounts
<1>14. \A p \in left.senders : Counts(p)'
  BY <1>5, <1>6, <1>7, <1>8, <1>9, <1>10, <1>11, <1>12, <1>13 DEF Next, vars
<1>15. Told'
  <2>1. UNCHANGED verdict \/ ReceiveFrame
    BY DEF Next, vars, Build, TxDone, TxTimeout, Ping, Restart, Lose, ReceiveAck
  <2> QED BY <2>1, <1>2, <1>3, <1>12
<1> QED BY <1>2, <1>14, <1>15

LEMMA SpecCountedOnce ==
  ScenariosCope =>
    (Spec => [](Typed /\ Together /\ (\A n \in Nodes : Fresh(n)) /\ FewLost /\ CountedOnce))
<1> DEFINE IInv == Typed /\ Together /\ (\A n \in Nodes : Fresh(n)) /\ FewLost /\ CountedOnce
<1> SUFFICES ASSUME ScenariosCope PROVE Spec => []IInv
  OBVIOUS
<1>1. Init => IInv BY InitTyped, InitTogether, InitFresh, InitFewLost, InitCountedOnce
<1>2. IInv /\ [Next]_vars => IInv'
  <2> SUFFICES ASSUME IInv, [Next]_vars PROVE IInv'
    OBVIOUS
  <2>1. Typed' /\ Together' BY NextTyped, NextTogether
  <2>2. (\A n \in Nodes : Fresh(n))' BY NextFresh
  <2>3. FewLost' /\ CountedOnce' BY NextFewLost, NextCountedOnce
  <2> QED BY <2>1, <2>2, <2>3
<1> QED BY <1>1, <1>2, PTL DEF Spec

(* missing_frames is the number of frames lost since the last one that was *)
(* received, and one more when the numbers started over in between, as     *)
(* long as every frame had a number of its own.                            *)
THEOREM LossesCounted == ScenariosCope => (Spec => []MissingExact)
<1> SUFFICES ASSUME ScenariosCope PROVE Spec => []MissingExact
  OBVIOUS
<1>1. CountedOnce => MissingExact BY DEF CountedOnce, MissingExact, OncePast
<1> QED BY <1>1, SpecCountedOnce, PTL

(* After process_ack out_rxseq is what the receiver expects next, however  *)
(* many frames and ACKs were lost since the last one that came.            *)
THEOREM RecordFollows == ScenariosCope => (Spec => RecordExact)
<1> SUFFICES ASSUME ScenariosCope PROVE Spec => RecordExact
  OBVIOUS
<1> DEFINE Follow ==
      ReceiveAck /\ past = {} =>
        LET n == channel.from
        IN  peers'[n].out_rxseq = peers'[Other(n)].in_expected
<1>1. Typed /\ Together /\ CountedOnce /\ [Next]_vars => [Follow]_vars
  <2> SUFFICES ASSUME Typed, Together, CountedOnce, ReceiveAck, past = {}
               PROVE  LET n == channel.from
                      IN  peers'[n].out_rxseq = peers'[Other(n)].in_expected
    OBVIOUS
  <2>1. PICK n \in Nodes : n = channel.from BY AnswerAgrees
  <2>2. Record(n)' = Expects(n)' BY <2>1, ReceiveAckCounts DEF OncePast
  <2> QED BY <2>1, <2>2 DEF Record, Expects
<1> QED BY <1>1, SpecCountedOnce, PTL DEF Spec, RecordExact

-----------------------------------------------------------------------------
(***************************************************************************)
(* A message that was received before is slightly below what is expected.  *)
(***************************************************************************)
(* So many pings may have overtaken a frame. *)
Slack == PingTolerance - left.pings

(* Short of the rollover the numbers grow.  A frame that is put off is     *)
(* behind the next number by the pings that overtook it at most, and below *)
(* the expected number if it was received already.                         *)
Below(n) ==
  /\ Expects(n) <= Sends(n) + 1
  /\ frame[n].filled =>
       /\ frame[n].txSeq \in 1 .. Sends(n)
       /\ Sends(n) - frame[n].txSeq <= Slack
       /\ frame[n].id \in seen[Other(n)] => frame[n].txSeq < Expects(n)
  /\ Flies(n) =>
       /\ channel.txSeq \in 1 .. Sends(n)
       /\ channel.txSeq < MaxSeq
       /\ Expects(n) <= channel.txSeq + 1 + Slack
       /\ channel.id \in seen[Other(n)] => channel.txSeq < Expects(n)
       /\ frame[n].filled => frame[n].txSeq <= channel.txSeq
  /\ Answers(n) => channel.expected # 0

NoneRepeated == left.goneOut = 0 /\ "repeated" \notin past

RepeatsBelow ==
  /\ left.restarts = 0 /\ left.pings <= PingTolerance
  /\ "rollover" \notin past => NonZero /\ \A n \in Nodes : Below(n)

Told == (NoneRepeated \/ RepeatsBelow) /\ DuplicatesFlagged

LEMMA InitTold == ScenariosTell /\ Init => Told
<1> SUFFICES ASSUME ScenariosTell, Init PROVE Told
  OBVIOUS
<1>1. Typed BY InitTyped
<1>2. Tells(left) BY DEF ScenariosTell, Init
<1>3. \A n \in Nodes : Sends(n) = left.start /\ Expects(n) = left.start
  BY TwoNodes DEF Sends, Expects, Init
<1>4. \A n \in Nodes : ~Flies(n) /\ ~Answers(n) /\ ~frame[n].filled
  BY DEF Flies, Answers, Init, Free, NoFrame
<1>5. left.start \in Int /\ left.goneOut \in Nat
  BY <1>1, SeqsType DEF Typed, ScenarioType
<1>6. CASE left.goneOut = 0 BY <1>6 DEF NoneRepeated, Told, DuplicatesFlagged, Init
<1>7. CASE left.goneOut > 0
  <2>1. left.start # 0 /\ left.restarts = 0 /\ left.pings <= PingTolerance
    BY <1>2, <1>7 DEF Tells
  <2>2. NonZero BY <1>3, <1>4, <2>1 DEF NonZero
  <2>3. \A n \in Nodes : Below(n) BY <1>3, <1>4, <1>5 DEF Below
  <2> QED BY <2>1, <2>2, <2>3 DEF RepeatsBelow, Told, DuplicatesFlagged, Init
<1> QED BY <1>5, <1>6, <1>7

(* What is received when the expected number is that little above it.      *)
LEMMA ReceiveBelow ==
  ASSUME NEW p \in Peer, NEW f \in Seqs, f # 0, p.in_expected # 0,
         NEW k \in Int, k <= PingTolerance, p.in_expected <= f + 1 + k
  PROVE  /\ Initialised(p, f) = p
         /\ f >= p.in_expected => Receive(p, f).in_expected = Successor(f)
         /\ f < p.in_expected =>
              /\ Receive(p, f).in_expected = p.in_expected
              /\ Verdict(f, p.in_expected) = "duplicate"
<1> DEFINE x == p.in_expected
<1>1. Initialised(p, f) = p BY DEF Initialised
<1>2. f \in Int /\ x \in Int BY SeqsType, PeerFields
<1>3. PingTolerance <= DupWindow - 2 /\ PingTolerance <= High - Low /\ PingTolerance \in Int
      /\ DupWindow \in Int /\ High \in Int /\ Low \in Int
  BY SeqAssumption DEF PingTolerance
<1>4. Receive(p, f) = IF Verdict(f, x) \in {"expected", "missing"}
                      THEN [p EXCEPT !.in_expected = Successor(f)] ELSE p
  BY <1>1 DEF Receive
<1>5. ASSUME f >= x PROVE Receive(p, f).in_expected = Successor(f)
  <2>1. f = x \/ f > x BY <1>2, <1>5
  <2>2. Verdict(f, x) \in {"expected", "missing"} BY <2>1 DEF Verdict, Beyond
  <2> QED BY <1>4, <2>2 DEF Peer
<1>6. ASSUME f < x PROVE Verdict(f, x) = "duplicate"
  <2>1. f # x /\ ~(f > x) BY <1>2, <1>6
  <2>2. ~(f < Low /\ x > High) BY <1>2, <1>3
  <2>3. x - f < DupWindow BY <1>2, <1>3
  <2> QED BY <1>6, <2>1, <2>2, <2>3 DEF Verdict, Beyond, SlightlyBelow
<1>7. f < x => Receive(p, f).in_expected = x BY <1>4, <1>6
<1> QED BY <1>1, <1>5, <1>6, <1>7

LEMMA SlackType ==
  ASSUME Typed, left.pings <= PingTolerance
  PROVE  Slack \in Nat /\ Slack <= PingTolerance /\ PingTolerance \in Int
<1>1. left.pings \in Nat /\ PingTolerance \in Int
  BY SeqAssumption DEF Typed, ScenarioType, PingTolerance
<1> QED BY <1>1 DEF Slack

(* A node of which nothing flies.  *)
LEMMA BelowKept ==
  ASSUME Typed, Shrinks, NEW p \in Nodes, Below(p),
         UNCHANGED <<Sends(p), Expects(p), seen[Other(p)]>>,
         frame'[p] = frame[p] \/ ~frame'[p].filled,
         ~Flies(p)' \/ UNCHANGED <<channel, frame[p]>>,
         Answers(p)' => UNCHANGED channel
  PROVE  Below(p)'
<1>1. Slack \in Int /\ Slack' \in Int /\ Slack <= Slack'
  BY SeqAssumption DEF Slack, Shrinks, PingTolerance
<1>2. Sends(p) \in Seqs /\ Expects(p) \in Seqs /\ Sends(p) \in Int /\ Expects(p) \in Int
  BY NumbersType, SeqsType
<1>3. /\ frame[p].filled => frame[p].txSeq \in Int
      /\ Flies(p) => channel.txSeq \in Int
  BY FrameFields, ChannelFields, SeqsType DEF Typed, Flies
<1>4. Flies(p)' => Flies(p) /\ UNCHANGED <<channel, frame[p]>> BY DEF Flies
<1>5. Answers(p)' => Answers(p) /\ UNCHANGED channel BY DEF Answers
<1>6. frame'[p].filled =>
        /\ frame'[p].txSeq \in 1 .. Sends(p)'
        /\ Sends(p)' - frame'[p].txSeq <= Slack'
        /\ frame'[p].id \in seen'[Other(p)] => frame'[p].txSeq < Expects(p)'
  BY <1>1, <1>2, <1>3 DEF Below
<1>7. Flies(p)' =>
        /\ channel'.txSeq \in 1 .. Sends(p)'
        /\ channel'.txSeq < MaxSeq
        /\ Expects(p)' <= channel'.txSeq + 1 + Slack'
        /\ channel'.id \in seen'[Other(p)] => channel'.txSeq < Expects(p)'
        /\ frame'[p].filled => frame'[p].txSeq <= channel'.txSeq
  BY <1>1, <1>2, <1>3, <1>4 DEF Below
<1> QED BY <1>5, <1>6, <1>7 DEF Below

LEMMA BuildBelow ==
  ASSUME Typed, Shrinks, left.pings <= PingTolerance, \A p \in Nodes : Fresh(p),
         NonZero, \A p \in Nodes : Below(p), NEW n \in Nodes, Build(n)
  PROVE  NonZero' /\ \A p \in Nodes : Below(p)'
<1>1. /\ frame' = [frame EXCEPT ![n] =
           [filled |-> TRUE, txSeq |-> Sends(n), id |-> ids[n] + 1]]
      /\ UNCHANGED <<peers, channel, seen>> /\ ~Flies(n)
  BY DEF Build, Sends, Flies
<1>2. \A p \in Nodes : UNCHANGED <<Sends(p), Expects(p)>> BY <1>1, PeersKept
<1>3. \A p : (Flies(p)' <=> Flies(p)) /\ (Answers(p)' <=> Answers(p)) BY <1>1, ChannelAfter
<1>4. NonZero' BY <1>1, <1>2, <1>3 DEF NonZero
<1>5. ASSUME NEW p \in Nodes, p # n PROVE Below(p)'
  <2>1. frame'[p] = frame[p] BY <1>1, <1>5 DEF Typed
  <2> QED BY <2>1, <1>1, <1>2, BelowKept
<1>6. Below(n)'
  <2>1. frame'[n] = [filled |-> TRUE, txSeq |-> Sends(n), id |-> ids[n] + 1]
    BY <1>1 DEF Typed
  <2>2. ids[n] + 1 \notin seen'[Other(n)]
    <3>1. ids[n] \in Nat /\ seen[Other(n)] \subseteq Nat BY TwoNodes DEF Typed
    <3>2. \A i \in seen[Other(n)] : i <= ids[n] BY DEF Fresh
    <3> QED BY <3>1, <3>2, <1>1
  <2>3. Slack' \in Nat
    BY SlackType, SeqAssumption DEF Shrinks, Slack, PingTolerance
  <2>4. Sends(n) \in 1 .. Sends(n) /\ Sends(n) - Sends(n) = 0
    <3>1. Sends(n) \in Seqs /\ Sends(n) # 0 BY NumbersType DEF NonZero
    <3> QED BY <3>1, SeqsType
  <2> QED BY <2>1, <2>2, <2>3, <2>4, <1>1, <1>2, <1>3 DEF Below
<1> QED BY <1>4, <1>5, <1>6

(* The number of the next frame after one went out, short of the rollover. *)
LEMMA SentBelow ==
  ASSUME Typed, NonZero, NEW n \in Nodes, CountSent(n), NEW S, Meets(RolledOver(Sends(n)) \cup S),
         "rollover" \notin past'
  PROVE  /\ Sends(n) < MaxSeq /\ Sends(n)' = Sends(n) + 1
         /\ Sends(n) \in 1 .. MaxSeq
<1>1. Sends(n) \in Seqs /\ Sends(n) # 0 BY NumbersType DEF NonZero
<1>2. Sends(n) # MaxSeq BY DEF Meets, RolledOver
<1>3. Sends(n)' = Successor(Sends(n)) BY SentCounts
<1> QED BY <1>1, <1>2, <1>3, SuccessorType, SeqsType

LEMMA TxDoneBelow ==
  ASSUME Typed, Shrinks, left.pings <= PingTolerance,
         NonZero, \A p \in Nodes : Below(p), NEW n \in Nodes, TxDone(n),
         "rollover" \notin past'
  PROVE  NonZero' /\ \A p \in Nodes : Below(p)'
<1> DEFINE f == frame[n].txSeq
           s == Sends(n)
           x == Expects(n)
<1>1. /\ frame[n].filled /\ channel = Free /\ CountSent(n)
      /\ channel' = [kind |-> "frame", from |-> n, txSeq |-> f, id |-> frame[n].id,
                     awaited |-> TRUE]
      /\ frame' = [frame EXCEPT ![n] = NoFrame] /\ UNCHANGED <<seen, left>>
  BY DEF TxDone
<1>2. s < MaxSeq /\ Sends(n)' = s + 1 /\ s \in 1 .. MaxSeq
  BY SentBelow DEF TxDone, Sends
<1>3. /\ \A p \in Nodes : p # n => UNCHANGED Sends(p)
      /\ \A p \in Nodes : UNCHANGED Expects(p)
  BY <1>1, SentCounts
<1>4. \A p \in Nodes : (Flies(p)' <=> p = n) /\ ~Answers(p)' BY <1>1, ChannelAfter
<1>5. /\ channel'.txSeq = f /\ channel'.id = frame[n].id
      /\ frame'[n] = NoFrame /\ \A p \in Nodes : p # n => frame'[p] = frame[p]
  BY <1>1 DEF Typed
<1>6. /\ f \in 1 .. s /\ s - f <= Slack /\ x <= s + 1
      /\ frame[n].id \in seen[Other(n)] => f < x
  BY <1>1 DEF Below
<1>7. f \in Seqs /\ x \in Seqs /\ Slack \in Nat /\ Slack' = Slack
  BY <1>1, FrameFields, NumbersType, SlackType DEF Typed, Slack
<1>8. f \in Int /\ x \in Int BY <1>7, SeqsType
<1>9. NonZero'
  <2>1. Sends(n)' # 0 /\ channel'.txSeq # 0 BY <1>2, <1>5, <1>6
  <2> QED BY <2>1, <1>3, <1>4 DEF NonZero
<1>10. ASSUME NEW p \in Nodes, p # n PROVE Below(p)'
  BY <1>1, <1>3, <1>4, <1>5, <1>10, BelowKept
<1>11. Below(n)'
  <2>1. /\ x <= s + 1 + 1 /\ f \in 1 .. s + 1 /\ f < MaxSeq
        /\ x <= f + 1 + Slack
    BY <1>2, <1>6, <1>7, <1>8, SeqsType
  <2>2. ~frame'[n].filled BY <1>5 DEF NoFrame
  <2> HIDE DEF f, s, x
  <2>3. Expects(n)' = x BY <1>3 DEF x
  <2>4. /\ x <= Sends(n)' + 1 /\ channel'.txSeq \in 1 .. Sends(n)' /\ channel'.txSeq < MaxSeq
        /\ x <= channel'.txSeq + 1 + Slack'
    BY <2>1, <1>2, <1>5, <1>7
  <2>5. channel'.id \in seen'[Other(n)] => channel'.txSeq < x
    BY <1>1, <1>5, <1>6
  <2> QED BY <2>2, <2>3, <2>4, <2>5, <1>4 DEF Below
<1> QED BY <1>9, <1>10, <1>11

LEMMA TxTimeoutBelow ==
  ASSUME Typed, Shrinks, left.pings <= PingTolerance,
         NonZero, \A p \in Nodes : Below(p), NEW n \in Nodes, TxTimeout(n),
         "rollover" \notin past'
  PROVE  NonZero' /\ \A p \in Nodes : Below(p)'
<1> DEFINE f == frame[n].txSeq
           s == Sends(n)
           x == Expects(n)
<1>1. /\ frame[n].filled /\ channel = Free /\ UNCHANGED <<peers, seen>>
      /\ frame' \in {frame, [frame EXCEPT ![n] = NoFrame]}
  BY DEF TxTimeout
<1>2. \A p \in Nodes : UNCHANGED <<Sends(p), Expects(p)>> BY <1>1, PeersKept
<1>3. /\ \A p \in Nodes : frame'[p] = frame[p] \/ ~frame'[p].filled
      /\ \A p \in Nodes : p # n => frame'[p] = frame[p]
  BY <1>1 DEF Typed, NoFrame
<1>4. \A p \in Nodes : ~Flies(p) /\ ~Answers(p) BY <1>1, ChannelFree
<1>5. CASE UNCHANGED channel
  <2>1. \A p \in Nodes : ~Flies(p)' /\ ~Answers(p)' BY <1>4, <1>5, ChannelAfter
  <2>2. NonZero' BY <2>1, <1>2 DEF NonZero
  <2> QED BY <2>1, <2>2, <1>1, <1>2, <1>3, BelowKept
<1>6. CASE /\ channel' = [kind |-> "frame", from |-> n, txSeq |-> f, id |-> frame[n].id,
                          awaited |-> FALSE]
           /\ Meets({"repeated"} \cup RolledOver(f)) /\ Spend("goneOut")
  <2>1. \A p \in Nodes : (Flies(p)' <=> p = n) /\ ~Answers(p)' BY <1>6, ChannelAfter
  <2>2. channel'.txSeq = f /\ channel'.id = frame[n].id BY <1>6
  <2>3. /\ f \in 1 .. s /\ s - f <= Slack /\ x <= s + 1
        /\ frame[n].id \in seen[Other(n)] => f < x
    BY <1>1 DEF Below
  <2>4. f # MaxSeq BY <1>6 DEF Meets, RolledOver
  <2>5. f \in Seqs /\ x \in Seqs /\ s \in Seqs /\ Slack \in Nat
    BY <1>1, FrameFields, NumbersType, SlackType DEF Typed
  <2>6. left'.pings = left.pings /\ Slack' = Slack
    BY <1>6, Spent DEF Typed, Slack
  <2>7. NonZero'
    <3>1. channel'.txSeq # 0 BY <2>2, <2>3, <2>5, SeqsType
    <3> QED BY <3>1, <2>1, <1>2 DEF NonZero
  <2>8. ASSUME NEW p \in Nodes, p # n PROVE Below(p)'
    BY <1>1, <1>2, <1>3, <2>1, <2>8, BelowKept
  <2>9. Below(n)'
    <3> HIDE DEF f, s, x
    <3>1. f < MaxSeq /\ x <= f + 1 + Slack BY <2>3, <2>4, <2>5, SeqsType
    <3>2. Expects(n)' = x /\ Sends(n)' = s BY <1>2 DEF x, s
    <3>3. frame'[n].filled => frame'[n] = frame[n] BY <1>3
    <3>4. frame'[n].filled => frame'[n].txSeq = f /\ f <= f
      BY <3>3, <2>5, SeqsType DEF f
    <3> QED BY <3>1, <3>2, <3>3, <3>4, <1>1, <2>1, <2>2, <2>3, <2>6 DEF Below
  <2> QED BY <2>7, <2>8, <2>9
<1> QED BY <1>5, <1>6 DEF TxTimeout

LEMMA PingBelow ==
  ASSUME Typed, Shrinks, left.pings <= PingTolerance, \A p \in Nodes : Fresh(p),
         NonZero, \A p \in Nodes : Below(p), NEW n \in Nodes, Ping(n),
         "rollover" \notin past'
  PROVE  NonZero' /\ \A p \in Nodes : Below(p)'
<1> DEFINE s == Sends(n)
           x == Expects(n)
<1>1. /\ channel = Free /\ CountSent(n) /\ Spend("pings")
      /\ channel' = [kind |-> "frame", from |-> n, txSeq |-> s, id |-> ids[n] + 1,
                     awaited |-> TRUE]
      /\ UNCHANGED <<seen, frame>>
  BY DEF Ping, Sends
<1>2. s < MaxSeq /\ Sends(n)' = s + 1 /\ s \in 1 .. MaxSeq
  BY SentBelow DEF Ping, Sends
<1>3. /\ \A p \in Nodes : p # n => UNCHANGED Sends(p)
      /\ \A p \in Nodes : UNCHANGED Expects(p)
  BY <1>1, SentCounts
<1>4. \A p \in Nodes : (Flies(p)' <=> p = n) /\ ~Answers(p)' BY <1>1, ChannelAfter
<1>5. channel'.txSeq = s /\ channel'.id = ids[n] + 1 BY <1>1
<1>6. /\ x <= s + 1
      /\ frame[n].filled =>
           /\ frame[n].txSeq \in 1 .. s /\ s - frame[n].txSeq <= Slack
           /\ frame[n].id \in seen[Other(n)] => frame[n].txSeq < x
  BY DEF Below
<1>7. x \in Seqs /\ Slack \in Nat /\ Slack' = Slack + 1
  <2>1. left'.pings = left.pings - 1 BY <1>1, Spent DEF Typed
  <2>2. left.pings \in Nat /\ PingTolerance \in Int
    BY SlackType DEF Typed, ScenarioType
  <2> QED BY <2>1, <2>2, NumbersType, SlackType DEF Slack
<1>8. x \in Int /\ (frame[n].filled => frame[n].txSeq \in Int)
  BY <1>7, FrameFields, SeqsType DEF Typed
<1>9. NonZero'
  <2>1. Sends(n)' # 0 /\ channel'.txSeq # 0 BY <1>2, <1>5
  <2> QED BY <2>1, <1>3, <1>4 DEF NonZero
<1>10. ASSUME NEW p \in Nodes, p # n PROVE Below(p)'
  BY <1>1, <1>3, <1>4, <1>10, BelowKept
<1>11. Below(n)'
  <2>1. ids[n] + 1 \notin seen[Other(n)]
    <3>1. ids[n] \in Nat /\ seen[Other(n)] \subseteq Nat BY TwoNodes DEF Typed
    <3>2. \A i \in seen[Other(n)] : i <= ids[n] BY DEF Fresh
    <3> QED BY <3>1, <3>2
  <2> HIDE DEF s, x
  <2>2. /\ x <= s + 1 + 1 /\ s \in 1 .. s + 1 /\ x <= s + 1 + (Slack + 1)
    BY <1>2, <1>6, <1>7, <1>8, SeqsType
  <2>3. frame[n].filled =>
           /\ frame[n].txSeq \in 1 .. s + 1 /\ s + 1 - frame[n].txSeq <= Slack + 1
           /\ frame[n].txSeq <= s
    BY <1>2, <1>6, <1>7, <1>8, SeqsType
  <2>4. Expects(n)' = x BY <1>3 DEF x
  <2> QED BY <2>1, <2>2, <2>3, <2>4, <1>1, <1>2, <1>4, <1>5, <1>6, <1>7 DEF Below
<1> QED BY <1>9, <1>10, <1>11

(* A frame is a duplicate, or what is expected next is the number after it. *)
LEMMA ReceiveFrameBelow ==
  ASSUME Typed, Shrinks, left.pings <= PingTolerance,
         NonZero, \A p \in Nodes : Below(p), ReceiveFrame
  PROVE  /\ NonZero' /\ \A p \in Nodes : Below(p)'
         /\ verdict'.again => verdict'.kind = "duplicate"
<1>1. PICK n \in Nodes : n = channel.from BY ChannelFields DEF Typed, ReceiveFrame
<1> DEFINE m == Other(n)
           f == channel.txSeq
           s == Sends(n)
           x == Expects(n)
           e == Initialised(peers[m], f).in_expected
<1>2. m \in Nodes /\ m # n /\ Other(m) = n /\ \A p \in Nodes : p = n \/ p = m
  BY TwoNodes
<1>3. Flies(n) /\ f \in Seqs /\ channel.awaited \in BOOLEAN
  BY <1>1, ChannelFields DEF Typed, ReceiveFrame, Flies
<1>4. peers[m] \in Peer /\ peers[m].in_expected = x BY <1>2 DEF Typed, Expects
<1>5. /\ f # 0 /\ x # 0 /\ f \in 1 .. s /\ f < MaxSeq /\ x <= f + 1 + Slack
      /\ x <= s + 1
      /\ channel.id \in seen[m] => f < x
      /\ frame[n].filled =>
           /\ frame[n].txSeq \in 1 .. s /\ s - frame[n].txSeq <= Slack
           /\ frame[n].txSeq <= f
           /\ frame[n].id \in seen[m] => frame[n].txSeq < x
  BY <1>3 DEF NonZero, Below
<1>6. Slack \in Nat /\ Slack <= PingTolerance BY SlackType
<1>7. /\ Initialised(peers[m], f) = peers[m]
      /\ f >= x => Receive(peers[m], f).in_expected = Successor(f)
      /\ f < x => /\ Receive(peers[m], f).in_expected = x
                  /\ Verdict(f, x) = "duplicate"
  BY <1>3, <1>4, <1>5, <1>6, ReceiveBelow
<1>8. /\ peers' = [peers EXCEPT ![m] = Receive(@, f)]
      /\ verdict' = [kind |-> Verdict(f, e), missing |-> MissingFrames(f, e),
                     again |-> channel.id \in seen[m], lost |-> lost[n],
                     rolled |-> f < e, overtaken |-> Overtaken(n), from |-> n]
      /\ channel' = IF channel.awaited
                    THEN [kind |-> "ack", from |-> n, rxdSeq |-> f, expected |-> e]
                    ELSE Free
      /\ seen' = [seen EXCEPT ![m] = @ \cup {channel.id}]
      /\ UNCHANGED <<frame, left>>
  BY <1>1 DEF ReceiveFrame
<1>9. e = x BY <1>4, <1>7
<1>10. verdict'.again => verdict'.kind = "duplicate" BY <1>5, <1>7, <1>8, <1>9
<1>11. f \in Int /\ x \in Int /\ s \in Int /\ (frame[n].filled => frame[n].txSeq \in Int)
  BY <1>3, NumbersType, SeqsType, FrameFields DEF Typed
<1>12. peers'[m] = Receive(peers[m], f) /\ peers'[n] = peers[n]
  BY <1>2, <1>8 DEF Typed
<1>13. /\ Sends(n)' = s /\ Sends(m)' = Sends(m) /\ Expects(m)' = Expects(m)
       /\ Expects(n)' = Receive(peers[m], f).in_expected
  BY <1>2, <1>3, <1>4, <1>5, <1>12, ReceiveKeeps DEF Sends, Expects
<1>14. \A p \in Nodes : ~Flies(p)' /\ (Answers(p)' => p = n /\ channel'.expected = x)
  BY <1>8, <1>9, ChannelAfter
<1>15. seen'[m] = seen[m] \cup {channel.id} /\ seen'[n] = seen[n] BY <1>2, <1>8 DEF Typed
<1> HIDE DEF f, s, e
<1>16. Successor(f) = f + 1 BY <1>3, <1>5, <1>11, SuccessorType DEF f
<1>17. /\ Expects(n)' >= x /\ Expects(n)' > f /\ Expects(n)' <= s + 1
       /\ Expects(n)' \in Int
  <2>1. CASE f >= x BY <2>1, <1>5, <1>7, <1>11, <1>13, <1>16
  <2>2. CASE f < x BY <2>2, <1>5, <1>7, <1>11, <1>13
  <2> QED BY <2>1, <2>2, <1>11
<1> HIDE DEF x
<1>18. NonZero'
  <2>1. Expects(n)' # 0 BY <1>5, <1>11, <1>17
  <2> QED BY <2>1, <1>2, <1>13, <1>14 DEF NonZero, s
<1>19. Below(m)'
  BY <1>2, <1>8, <1>13, <1>14, <1>15, BelowKept
<1>20. Below(n)'
  <2>1. frame[n].filled => frame[n].txSeq < Expects(n)' BY <1>5, <1>11, <1>17
  <2>2. Slack' = Slack BY <1>8 DEF Slack
  <2> QED BY <2>1, <2>2, <1>5, <1>8, <1>13, <1>14, <1>17 DEF Below
<1> QED BY <1>2, <1>10, <1>18, <1>19, <1>20

LEMMA NextBelow ==
  ASSUME Typed, \A p \in Nodes : Fresh(p), RepeatsBelow, [Next]_vars
  PROVE  RepeatsBelow'
<1>1. Shrinks BY NextShrinks
<1>2. left'.restarts = 0 /\ left.pings <= PingTolerance /\ left'.pings <= PingTolerance
  BY <1>1, SlackType DEF RepeatsBelow, Shrinks
<1> SUFFICES ASSUME "rollover" \notin past'
             PROVE  NonZero' /\ \A p \in Nodes : Below(p)'
  BY <1>2 DEF RepeatsBelow
<1>3. NonZero /\ \A p \in Nodes : Below(p) BY <1>1 DEF RepeatsBelow, Shrinks
<1>4. CASE UNCHANGED vars
  BY <1>3, <1>4 DEF vars, NonZero, Below, Sends, Expects, Flies, Answers, Slack
<1>5. ASSUME NEW n \in Nodes, Restart(n) PROVE FALSE
  BY <1>5 DEF Restart, Spend, RepeatsBelow
<1>6. CASE Lose \/ ReceiveAck
  <2>1. channel' = Free /\ UNCHANGED <<frame, seen>> BY <1>6 DEF Lose, ReceiveAck
  <2>2. \A p \in Nodes : ~Flies(p)' /\ ~Answers(p)' BY <2>1, ChannelAfter
  <2>3. \A p \in Nodes : UNCHANGED <<Sends(p), Expects(p)>>
    <3>1. CASE Lose BY <3>1, PeersKept DEF Lose
    <3>2. CASE ReceiveAck
      <4>1. PICK n \in Nodes : n = channel.from
        BY <3>2, ChannelFields DEF Typed, ReceiveAck
      <4>2. channel.expected # 0 BY <3>2, <4>1, <1>3 DEF Below, Answers, ReceiveAck
      <4> QED BY <3>2, <4>1, <4>2, Acknowledged
    <3> QED BY <1>6, <3>1, <3>2
  <2>4. NonZero' BY <1>3, <2>2, <2>3 DEF NonZero
  <2> QED BY <1>1, <1>3, <2>1, <2>2, <2>3, <2>4, BelowKept
<1> QED BY <1>1, <1>2, <1>3, <1>4, <1>5, <1>6, BuildBelow, TxDoneBelow, TxTimeoutBelow,
           PingBelow, ReceiveFrameBelow DEF Next

LEMMA NextTold ==
  Typed /\ (\A n \in Nodes : Fresh(n)) /\ Told /\ [Next]_vars => Told'
<1> SUFFICES ASSUME Typed, \A n \in Nodes : Fresh(n), Told, [Next]_vars PROVE Told'
  OBVIOUS
<1>1. Shrinks BY NextShrinks
<1>2. ASSUME NoneRepeated PROVE NoneRepeated'
  <2>1. left.goneOut = 0 /\ left'.goneOut = 0 BY <1>1, <1>2 DEF Shrinks, NoneRepeated
  <2>2. ~Spend("goneOut") BY <2>1 DEF Spend
  <2>3. "repeated" \notin past'
    BY <1>2, <2>2 DEF NoneRepeated, Next, vars, Build, TxDone, TxTimeout, Ping, Restart,
                      Lose, ReceiveFrame, ReceiveAck, Meets, RolledOver
  <2> QED BY <2>1, <2>3 DEF NoneRepeated
<1>3. NoneRepeated' \/ RepeatsBelow' BY <1>2, NextBelow DEF Told
<1>4. DuplicatesFlagged'
  <2>1. CASE UNCHANGED verdict
    BY <2>1, <1>1 DEF Told, DuplicatesFlagged, Shrinks
  <2>2. CASE ReceiveFrame
    <3>1. past' = past BY <2>2 DEF ReceiveFrame
    <3>2. CASE NoneRepeated
      <4>1. PICK n \in Nodes : n = channel.from
        BY <2>2, ChannelFields DEF Typed, ReceiveFrame
      <4>2. channel.id \notin seen[Other(n)]
        BY <2>2, <3>2, <4>1 DEF Fresh, Flies, ReceiveFrame, NoneRepeated
      <4>3. verdict'.again = (channel.id \in seen[Other(n)])
        BY <2>2, <4>1 DEF ReceiveFrame
      <4> QED BY <4>2, <4>3 DEF DuplicatesFlagged
    <3>3. CASE RepeatsBelow /\ "rollover" \notin past
      BY <1>1, <2>2, <3>3, ReceiveFrameBelow DEF RepeatsBelow, DuplicatesFlagged
    <3> QED BY <3>1, <3>2, <3>3 DEF Told, DuplicatesFlagged
  <2> QED BY <2>1, <2>2
       DEF Next, vars, Build, TxDone, TxTimeout, Ping, Restart, Lose, ReceiveAck
<1> QED BY <1>3, <1>4 DEF Told

(* A message received before is flagged as a duplicate, short of the       *)
(* rollover, however many frames and ACKs were lost or repeated before and *)
(* whatever pings overtook it, for every scenario with no more pings than  *)
(* the window of the duplicates copes with.                                *)
THEOREM RepetitionsFlagged == ScenariosTell => (Spec => []DuplicatesFlagged)
<1> SUFFICES ASSUME ScenariosTell PROVE Spec => []DuplicatesFlagged
  OBVIOUS
<1> DEFINE IInv == Typed /\ (\A n \in Nodes : Fresh(n)) /\ Told
<1>1. Init => IInv BY InitTyped, InitFresh, InitTold
<1>2. IInv /\ [Next]_vars => IInv'
  <2> SUFFICES ASSUME IInv, [Next]_vars PROVE IInv'
    OBVIOUS
  <2>1. Typed' BY NextTyped
  <2>2. (\A n \in Nodes : Fresh(n))' BY NextFresh
  <2>3. Told' BY NextTold
  <2> QED BY <2>1, <2>2, <2>3
<1>3. IInv => DuplicatesFlagged BY DEF Told
<1> QED BY <1>1, <1>2, <1>3, PTL DEF Spec
===============================================================================
