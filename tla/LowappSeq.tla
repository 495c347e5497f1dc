------------------------------ MODULE LowappSeq ------------------------------
(***************************************************************************)
(* The sequence numbers of lowapp_sm.c.  A node keeps for each peer        *)
(*   out_txseq    the number of the next frame it sends to it,             *)
(*   out_rxseq    what it believes the peer expects next,                  *)
(*   in_expected  the number it expects from the peer next.                *)
(* Numbers cycle through 1 .. MaxSeq; 0 is that of a node just started.    *)
(***************************************************************************)
EXTENDS Integers

CONSTANTS
  MaxSeq,    \* 255: the counters are (x % 255) + 1
  Low,       \* SEQ_ROLLOVER_LOW_THRESHOLD
  High,      \* SEQ_ROLLOVER_HIGH_THRESHOLD
  DupWindow  \* how far below the expected number a duplicate may be

ASSUME SeqAssumption ==
  /\ MaxSeq \in Nat \ {0} /\ DupWindow \in Nat
  /\ Low \in Nat /\ High \in Nat /\ Low <= High /\ High <= MaxSeq

Seqs == 0 .. MaxSeq

(* What is stored in a uint8_t. *)
Uint8(x) == x % (MaxSeq + 1)

Peer == [out_txseq : Seqs, out_rxseq : Seqs, in_expected : Seqs]

(* core_init: the table of peers is zeroed. *)
NewPeer == [out_txseq |-> 0, out_rxseq |-> 0, in_expected |-> 0]

(* Mutant of Successor: the number does not roll over. *)
SuccessorUnbounded(x) == x + 1

Successor(x) == (x % MaxSeq) + 1
------------------------------------------------------------------------------
(* state_rxing: a number beyond the expected one ... *)
Beyond(txSeq, expected) ==
  txSeq > expected \/ (txSeq < Low /\ expected > High)

(* Mutant of SlightlyBelow: off by one, the last frame is not one of them. *)
BelowLast(txSeq, expected) == txSeq + 1 < expected /\ expected - txSeq < DupWindow

(* ... or one slightly below it.  The difference is that of two ints. *)
SlightlyBelow(txSeq, expected) ==
  /\ txSeq < expected \/ (txSeq > High /\ expected < Low)
  /\ expected - txSeq < DupWindow

(* How a frame is judged, the tests being made in this order. *)
Verdict(txSeq, expected) ==
  IF txSeq = expected THEN "expected"
  ELSE IF Beyond(txSeq, expected) THEN "missing"
  ELSE IF SlightlyBelow(txSeq, expected) THEN "duplicate" ELSE "error"

(* Mutant of Initialised: the restart of the sender goes unnoticed. *)
InitialisedNever(peer, txSeq) == peer

(* A frame with number 0 says that its sender has been initialised, and    *)
(* the whole entry of the sender is initialised too.                       *)
Initialised(peer, txSeq) ==
  IF txSeq = 0 /\ peer.in_expected # 0 THEN NewPeer ELSE peer

(* Mutant of Receive: it does not catch up with the number received. *)
ReceiveOneByOne(peer, txSeq) ==
  LET p == Initialised(peer, txSeq)
      v == Verdict(txSeq, p.in_expected)
  IN  IF v \in {"expected", "missing"}
      THEN [p EXCEPT !.in_expected = Successor(@)] ELSE p

(* The entry of the sender after a frame. *)
Receive(peer, txSeq) ==
  LET p == Initialised(peer, txSeq)
      v == Verdict(txSeq, p.in_expected)
  IN  IF v \in {"expected", "missing"}
      THEN [p EXCEPT !.in_expected = Successor(txSeq)] ELSE p

(* Mutant of MissingFrames: off by one. *)
MissingFramesAndThis(txSeq, expected) ==
  IF Verdict(txSeq, expected) = "missing" THEN Uint8(txSeq - expected + 1) ELSE 0

(* The missing_frames handed to the application. *)
MissingFrames(txSeq, expected) ==
  IF Verdict(txSeq, expected) = "missing" THEN Uint8(txSeq - expected) ELSE 0
------------------------------------------------------------------------------
(* process_ack: the receiver expected the number recorded here, a later    *)
(* one (some ACKs were lost) or an earlier one.                            *)
AcksLost(record, expected) ==
  record < expected \/ (record > High /\ expected < Low)

Against(record, expected) ==
  IF record = expected THEN "same"
  ELSE IF AcksLost(record, expected) THEN "acksLost" ELSE "behind"

(* The communication is initialised again: the receiver expected 0. *)
Reinitialises(rxdSeq, expected) == expected = 0 /\ rxdSeq # 0

(* What the application is told. *)
Report(peer, rxdSeq, expected) ==
  LET against == Against(peer.out_rxseq, expected)
  IN  IF Reinitialises(rxdSeq, expected) THEN "ok"
      ELSE CASE against = "behind"   -> "nok"
             [] against = "acksLost" -> "missingAck"
             [] against = "same"     -> IF rxdSeq = expected THEN "ok" ELSE "missingFrames"

(* Mutant of NextRecord: no catching up with a frame that came instead. *)
NextRecordOneByOne(record, rxdSeq, expected) ==
  IF Against(record, expected) = "behind" THEN record ELSE Successor(record)

(* The record of what the receiver expects next. *)
NextRecord(record, rxdSeq, expected) ==
  LET against == Against(record, expected)
  IN  IF rxdSeq = expected
      THEN IF against = "behind" THEN record ELSE Successor(expected)
      ELSE IF rxdSeq > expected THEN Successor(rxdSeq)
      ELSE IF against = "same" THEN Successor(record) ELSE record

(* The entry of the receiver after its ACK. *)
ProcessAck(peer, rxdSeq, expected) ==
  IF Reinitialises(rxdSeq, expected)
  THEN [out_txseq |-> 1, out_rxseq |-> 1, in_expected |-> 0]
  ELSE [peer EXCEPT !.out_rxseq = NextRecord(peer.out_rxseq, rxdSeq, expected)]
=============================================================================
