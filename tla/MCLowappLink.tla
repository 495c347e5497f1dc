---------------------------- MODULE MCLowappLink ----------------------------
(***************************************************************************)
(* Scenarios of LowappLink for TLC, and what a comment of the source says  *)
(* of it that the code does not do.                                        *)
(***************************************************************************)
EXTENDS LowappLink

CONSTANTS a, b

Scenario(start, senders, messages, pings, losses) ==
  [start |-> start, senders |-> senders, messages |-> messages, pings |-> pings,
   losses |-> losses, timeouts |-> 0, goneOut |-> 0, restarts |-> 0,
   restarting |-> {}]

(* Both nodes send, frames and ACKs are lost and put off, far from the     *)
(* rollover and across it; frames that are repeated although they went     *)
(* out; a sender that restarts; pings in both directions from the first    *)
(* exchange on, and pings that overtake the frames put off.                *)
Lossy == [Scenario(100, {a, b}, 5, 0, 3) EXCEPT !.timeouts = 2]
Rollover == [Scenario(253, {a, b}, 6, 0, 2) EXCEPT !.timeouts = 1]
Repeated == [Scenario(100, {a, b}, 4, 0, 2) EXCEPT !.goneOut = 2, !.timeouts = 1]
Restarts(start) ==
  [Scenario(start, {a}, 5, 0, 0) EXCEPT !.timeouts = 1, !.restarts = 2,
                                        !.restarting = {a}]
Pings(start) == Scenario(start, {a, b}, 0, 5, 0)
Overtaking(start) ==
  [Scenario(start, {a, b}, 3, 3, 1) EXCEPT !.timeouts = 1]

LinkScenarios ==
  {Lossy, Rollover, Repeated, Restarts(0), Restarts(100), Pings(0), Pings(100),
   Overtaking(100), Overtaking(253)}

(* The theorems about LowappLink are about these scenarios. *)
ASSUME LinkScenariosCope == \A s \in LinkScenarios : Copes(s) /\ Tells(s)

(* The first frame of a connection is lost. *)
FirstLostScenarios == {Scenario(0, {a}, 3, 0, 1)}

(* A frame is repeated across the rollover. *)
RepeatedAtRollover == {[Scenario(254, {a}, 3, 0, 0) EXCEPT !.goneOut = 1]}

(* lowapp_sm.c says that a duplicate is detected if the number is slightly *)
(* lower than the expected one; across the rollover it is not.             *)
DuplicatesFlaggedAcross ==
  verdict.kind # "none" /\ verdict.again => verdict.kind = "duplicate"

(* process_ack says, before it initialises the communication again, that   *)
(* the message was the first of the new connection and the receiver        *)
(* expects 1 next.  The number received was not 0, and the receiver        *)
(* expects the one after it.                                               *)
ReinitialisationAgrees ==
  [][ReceiveAck /\ report'.reinit =>
       peers'[Other(channel.from)].in_expected = 1]_vars
=============================================================================
