------------------------------ MODULE LowappLink ------------------------------
(***************************************************************************)
(* Two LoWAPP nodes that exchange messages over a lossy channel: the       *)
(* sequence numbers of LowappSeq at both ends, frames that are lost, sent  *)
(* again after a transmission timeout or overtaken by a ping, ACKs that    *)
(* are lost, and nodes that restart.                                       *)
(*                                                                         *)
(* The channel carries one exchange at a time: an ACK comes in the slot    *)
(* after its frame or not at all, and two frames at once are two frames    *)
(* lost.  A transmission has an id, so that the properties can tell what   *)
(* the numbers are meant to tell.                                          *)
(***************************************************************************)
EXTENDS LowappSeq

CONSTANTS
  Nodes,
  MaxTxRetry, \* MAX_TX_FRAME_RETRY
  Scenarios   \* bound: what may happen in a behaviour, and how often

(* In a scenario both nodes start from the same number, the applications   *)
(* of the senders send messages and pings, frames and ACKs are lost,       *)
(* transmissions time out, some of which have gone out all the same, and   *)
(* the nodes of restarting restart, each so many times at most.            *)
ScenarioType ==
  [start : Seqs, senders : SUBSET Nodes, messages : Nat, pings : Nat, losses : Nat,
   timeouts : Nat, goneOut : Nat, restarts : Nat, restarting : SUBSET Nodes]

ASSUME LinkAssumption ==
  /\ \E n, m \in Nodes : n # m /\ Nodes = {n, m}
  /\ MaxTxRetry \in Nat \ {0}
  /\ Scenarios \subseteq ScenarioType

Other(n) == CHOOSE m \in Nodes : m # n

NoFrame == [filled |-> FALSE]

VARIABLES
  peers,    \* peers[n]: the entry of the other node in the table of n
  frame,    \* frame[n]: currentTxFrame of n
  retries,  \* retryTxFrame
  channel,  \* what is on the air
  ids,      \* history: transmissions of each node so far
  seen,     \* history: ids each node received
  lost,     \* history: frames of each node lost since one was received
  verdict,  \* history: how the last frame received was judged, and its truth
  report,   \* history: what the last ACK made of an exchange
  past,     \* history: what has happened that the numbers do not cope with
  left      \* what is left of the scenario

vars ==
  <<peers, frame, retries, channel, ids, seen, lost, verdict, report, past, left>>

(* A frame was sent again although it had gone out; a ping took the number *)
(* of a frame put off; the last number before they start over from 1 went  *)
(* out.                                                                    *)
Incidents == {"repeated", "overtaken", "rollover"}

Meets(incidents) == past' = past \cup incidents

Free == [kind |-> "free"]

Spend(what) == left[what] > 0 /\ left' = [left EXCEPT ![what] = @ - 1]

(* Both nodes start, or have exchanged the same number of messages. *)
Init ==
  /\ left \in Scenarios
  /\ peers = [n \in Nodes |-> [out_txseq |-> left.start, out_rxseq |-> left.start,
                              in_expected |-> left.start]]
  /\ frame = [n \in Nodes |-> NoFrame] /\ retries = [n \in Nodes |-> 0]
  /\ channel = Free
  /\ ids = [n \in Nodes |-> 0] /\ seen = [n \in Nodes |-> {}]
  /\ lost = [n \in Nodes |-> 0]
  /\ verdict = [kind |-> "none"] /\ report = [kind |-> "none"] /\ past = {}
-------------------------------------------------------------------------------
(* tryTxCurrent: the frame gets its number when it is built. *)
Build(n) ==
  /\ n \in left.senders /\ ~frame[n].filled
  /\ channel.kind # "free" => channel.from # n
  /\ Spend("messages")
  /\ ids' = [ids EXCEPT ![n] = @ + 1]
  /\ frame' = [frame EXCEPT ![n] =
       [filled |-> TRUE, txSeq |-> peers[n].out_txseq, id |-> ids[n] + 1]]
  /\ retries' = [retries EXCEPT ![n] = 0]
  /\ UNCHANGED <<peers, channel, seen, lost, verdict, report, past>>

(* Mutant of CountSent: the increment is forgotten. *)
CountSentNot(n) == UNCHANGED peers

(* TXDONE: the number of the next frame is incremented whatever number the *)
(* frame carried, and the ACK is waited for.                               *)
CountSent(n) == peers' = [peers EXCEPT ![n].out_txseq = Successor(@)]

RolledOver(txSeq) == IF txSeq = MaxSeq THEN {"rollover"} ELSE {}

TxDone(n) ==
  /\ frame[n].filled /\ channel = Free
  /\ channel' = [kind |-> "frame", from |-> n, txSeq |-> frame[n].txSeq,
                 id |-> frame[n].id, awaited |-> TRUE]
  /\ CountSent(n)
  /\ Meets(RolledOver(peers[n].out_txseq))
  /\ frame' = [frame EXCEPT ![n] = NoFrame]
  /\ UNCHANGED <<retries, ids, seen, lost, verdict, report, left>>

(* TXTIMEOUT: the frame stays in its buffer while it may be tried again.   *)
(* It may have gone out all the same; nobody waits for its ACK.            *)
TxTimeout(n) ==
  /\ frame[n].filled /\ channel = Free
  /\ retries' = [retries EXCEPT ![n] = @ + 1]
  /\ IF retries'[n] < MaxTxRetry THEN UNCHANGED frame
     ELSE frame' = [frame EXCEPT ![n] = NoFrame]
  /\ \/ Spend("timeouts") /\ UNCHANGED <<channel, past>>
     \/ /\ Spend("goneOut")
        /\ Meets({"repeated"} \cup RolledOver(frame[n].txSeq))
        /\ channel' = [kind |-> "frame", from |-> n, txSeq |-> frame[n].txSeq,
                       id |-> frame[n].id, awaited |-> FALSE]
  /\ UNCHANGED <<peers, ids, seen, lost, verdict, report>>

(* Mutant of Ping: it does not count its transmission. *)
PingUncounted(n) ==
  /\ n \in left.senders /\ channel = Free
  /\ Spend("pings")
  /\ ids' = [ids EXCEPT ![n] = @ + 1]
  /\ channel' = [kind |-> "frame", from |-> n, txSeq |-> peers[n].out_txseq,
                 id |-> ids[n] + 1, awaited |-> TRUE]
  /\ Meets(IF frame[n].filled THEN {"overtaken"} ELSE {})
  /\ UNCHANGED <<peers, frame, retries, seen, lost, verdict, report>>

(* cmd_ping: a frame of its own, which may overtake the one in the buffer. *)
Ping(n) ==
  /\ n \in left.senders /\ channel = Free
  /\ Spend("pings")
  /\ ids' = [ids EXCEPT ![n] = @ + 1]
  /\ channel' = [kind |-> "frame", from |-> n, txSeq |-> peers[n].out_txseq,
                 id |-> ids[n] + 1, awaited |-> TRUE]
  /\ CountSent(n)
  /\ Meets(RolledOver(peers[n].out_txseq)
             \cup IF frame[n].filled THEN {"overtaken"} ELSE {})
  /\ UNCHANGED <<frame, retries, seen, lost, verdict, report>>

(* The frame, or its ACK, does not arrive. *)
Lose ==
  /\ channel.kind # "free"
  /\ Spend("losses")
  /\ channel' = Free
  /\ lost' = IF channel.kind = "frame" /\ channel.awaited
                /\ channel.id \notin seen[Other(channel.from)]
             THEN [lost EXCEPT ![channel.from] = @ + 1] ELSE lost
  /\ UNCHANGED <<peers, frame, retries, ids, seen, verdict, report, past>>

(* A ping has taken the number of the frame on the air since it was built. *)
Overtaken(n) ==
  channel.awaited /\ peers[n].out_txseq # Successor(channel.txSeq)

(* state_rxing of the other node: the frame is judged and acknowledged.    *)
(* The ACK carries what was expected before.                               *)
ReceiveFrame ==
  /\ channel.kind = "frame"
  /\ LET n == channel.from
         m == Other(n)
         expected == Initialised(peers[m], channel.txSeq).in_expected
     IN  /\ peers' = [peers EXCEPT ![m] = Receive(@, channel.txSeq)]
         /\ verdict' = [kind |-> Verdict(channel.txSeq, expected),
                        missing |-> MissingFrames(channel.txSeq, expected),
                        again |-> channel.id \in seen[m], lost |-> lost[n],
                        rolled |-> channel.txSeq < expected,
                        overtaken |-> Overtaken(n), from |-> n]
         /\ seen' = [seen EXCEPT ![m] = @ \cup {channel.id}]
         /\ lost' = [lost EXCEPT ![n] = 0]
         /\ channel' = IF channel.awaited
                       THEN [kind |-> "ack", from |-> n, rxdSeq |-> channel.txSeq,
                             expected |-> expected]
                       ELSE Free
  /\ UNCHANGED <<frame, retries, ids, report, past, left>>

(* state_rxing_ack of the sender. *)
ReceiveAck ==
  /\ channel.kind = "ack"
  /\ LET n == channel.from
     IN  /\ peers' = [peers EXCEPT ![n] =
                        ProcessAck(@, channel.rxdSeq, channel.expected)]
         /\ report' = [kind |-> Report(peers[n], channel.rxdSeq, channel.expected),
                       to |-> n, reinit |-> Reinitialises(channel.rxdSeq, channel.expected)]
  /\ channel' = Free
  /\ UNCHANGED <<frame, retries, ids, seen, lost, verdict, past, left>>

(* A node restarts with nothing but what core_init gives it. *)
Restart(n) ==
  /\ n \in left.restarting
  /\ Spend("restarts")
  /\ peers' = [peers EXCEPT ![n] = NewPeer]
  /\ frame' = [frame EXCEPT ![n] = NoFrame]
  /\ retries' = [retries EXCEPT ![n] = 0]
  /\ channel' = Free
  /\ lost' = [m \in Nodes |-> 0]
  /\ UNCHANGED <<ids, seen, verdict, report, past>>

Next ==
  \/ \E n \in Nodes :
       Build(n) \/ TxDone(n) \/ TxTimeout(n) \/ Ping(n) \/ Restart(n)
  \/ Lose \/ ReceiveFrame \/ ReceiveAck

Spec == Init /\ [][Next]_vars
-------------------------------------------------------------------------------
(***************************************************************************)
(* How much the numbers cope with.                                         *)
(*                                                                         *)
(* The thresholds of the rollover tell a number that is Tolerance ahead    *)
(* from one that is behind: so many frames may be lost one after the       *)
(* other, and a scenario has no more losses in all.                        *)
(*                                                                         *)
(* Number 0 initialises the receiver.  When the frame that carries it is   *)
(* lost, or comes twice to a node that sends too, or when a node restarts  *)
(* that receives, the two nodes do not agree.  So either the numbers do    *)
(* not start from 0 and no node restarts; or no frame is lost and either   *)
(* no node restarts and no frame goes out twice, or there is one sender.   *)
(***************************************************************************)
Tolerance ==
  IF Low = 0 THEN 0 ELSE IF Low <= MaxSeq - High THEN Low - 1 ELSE MaxSeq - High

Alone(s) ==
  s.restarting \subseteq s.senders /\ \A n \in s.senders : Other(n) \notin s.senders

Copes(s) ==
  /\ s.losses <= Tolerance
  /\ \/ s.start # 0 /\ s.restarts = 0
     \/ s.losses = 0 /\ s.restarts = 0 /\ s.goneOut = 0
     \/ s.losses = 0 /\ Alone(s)

ScenariosCope == \A s \in Scenarios : Copes(s)

(***************************************************************************)
(* A message that was received before is slightly below what is expected.  *)
(*                                                                         *)
(* A frame is repeated when it went out and its transmission timed out.    *)
(* Pings that overtake it before it goes out again take it further below   *)
(* what the receiver expects, and PingTolerance of them are as many as     *)
(* the window of the duplicates copes with.  A node that restarts forgets  *)
(* what it expected.  So either frames are not repeated; or no node        *)
(* restarts, the numbers do not start from 0 and there are few pings.      *)
(***************************************************************************)
PingTolerance ==
  IF DupWindow <= High - Low + 2 THEN DupWindow - 2 ELSE High - Low

Tells(s) ==
  s.goneOut > 0 => s.start # 0 /\ s.restarts = 0 /\ s.pings <= PingTolerance

ScenariosTell == \A s \in Scenarios : Tells(s)
-------------------------------------------------------------------------------
(* Every number a node keeps, sends or acknowledges fits its counters.     *)
TypeOK ==
  /\ peers \in [Nodes -> Peer]
  /\ retries \in [Nodes -> 0 .. MaxTxRetry]
  /\ \A n \in Nodes :
       frame[n] = NoFrame \/ frame[n] \in [filled : {TRUE}, txSeq : Seqs, id : Nat]
  /\ \/ channel = Free
     \/ channel \in [kind : {"frame"}, from : Nodes, txSeq : Seqs, id : Nat,
                     awaited : BOOLEAN]
     \/ channel \in [kind : {"ack"}, from : Nodes, rxdSeq : Seqs, expected : Seqs]
  /\ ids \in [Nodes -> Nat] /\ past \subseteq Incidents

(* Once an exchange is acknowledged the sender numbers its next frame with *)
(* what the receiver expects: the two never drift apart, whatever was lost *)
(* or sent twice before.  A ping that takes the number of a frame put off  *)
(* breaks this: the sender counts two transmissions, the receiver one.     *)
Agreement ==
  [][ReceiveAck /\ "overtaken" \notin past =>
       LET n == channel.from
       IN  peers'[n].out_txseq = peers'[Other(n)].in_expected]_vars

(* process_ack keeps out_rxseq equal to what the receiver expects, or it   *)
(* reports missing ACKs and frames that were not: as long as no number     *)
(* went out twice, and short of the rollover, which it does not look for   *)
(* when it catches up with a frame that came instead of the expected one.  *)
RecordExact ==
  [][ReceiveAck /\ past = {} =>
       LET n == channel.from
       IN  peers'[n].out_rxseq = peers'[Other(n)].in_expected]_vars

(* A message flagged as a duplicate has indeed been received before: an    *)
(* application that drops duplicates loses nothing.  A frame given up      *)
(* although it went out, or overtaken by a ping, breaks this.              *)
NoFalseDuplicate ==
  verdict.kind = "duplicate" /\ past \cap {"repeated", "overtaken"} = {}
    => verdict.again

(* A ping that overtakes a frame put off spoils that frame alone: its      *)
(* number has been used.  The messages after it are not taken for          *)
(* duplicates, although the two nodes do not agree on their number.        *)
OvertakenAlone ==
  verdict.kind = "duplicate" /\ "repeated" \notin past
    => verdict.again \/ verdict.overtaken

(* A message received before is flagged as a duplicate, short of the       *)
(* rollover.                                                               *)
DuplicatesFlagged ==
  verdict.kind # "none" /\ verdict.again /\ "rollover" \notin past
    => verdict.kind = "duplicate"

(* missing_frames is the number of frames lost since the last one          *)
(* received, and one more when the numbers have started over in between:   *)
(* the difference is taken modulo 256 and the numbers are 255.  So it is   *)
(* as long as no number is used twice, across any number of rollovers.     *)
MissingExact ==
  verdict.kind # "none" /\ past \subseteq {"rollover"} =>
    verdict.missing = verdict.lost + IF verdict.rolled THEN 1 ELSE 0
===============================================================================
