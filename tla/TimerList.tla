------------------------------ MODULE TimerList ------------------------------
(***************************************************************************)
(* The timers of the hardware (timer.c): a list ordered by expiry, where a *)
(* timer keeps the time that is left after the one before it, and an alarm *)
(* of the real time clock for the head.  What calls them is Sx1272.        *)
(***************************************************************************)
EXTENDS Integers, Sequences, SequencesExt

CONSTANTS
  Timers,
  MaxLatency, \* bound: milliseconds until the interrupt of the alarm is served
  MaxElapsed  \* bound: elapsed counts no further, beyond every timeout

ASSUME TimerAssumption == MaxLatency \in Nat /\ MaxElapsed \in Nat

VARIABLES
  list,    \* the timers from TimerListHead on
  ts,      \* Timestamp, of the timers of the list
  reload,  \* ReloadValue
  running, \* IsRunning, of the head
  alarm,   \* milliseconds until the alarm rings, 0 if it is not set
  pending, \* the interrupt of the alarm waits
  late,    \* how long it has waited
  elapsed, \* time since RtcCalendarContext, when the alarm was last set
  handler, \* where TimerIrqHandler is, and its local variables
  left     \* history: time until a timer is due, Unset when nobody waits for it

listVars == <<list, ts, running, alarm, elapsed>>
timerVars == <<list, ts, reload, running, alarm, pending, late, elapsed, handler, left>>

Unset == -1

Outside == [at |-> "outside"]

TimersInit ==
  /\ list = <<>> /\ ts = [t \in Timers |-> 0] /\ reload = [t \in Timers |-> 0]
  /\ running = FALSE /\ alarm = 0 /\ pending = FALSE /\ late = 0 /\ elapsed = 0
  /\ handler = Outside /\ left = [t \in Timers |-> Unset]

TimerListHead == Head(list)

Listed(t) == \E i \in DOMAIN list : list[i] = t

(* Mutant of Least: the test that should never occur is left out. *)
Unlimited(x, y) == x

Least(x, y) == IF x < y THEN x ELSE y

(* Mutant of Remaining: the time that has gone by is not taken off. *)
RemainingWhole == ts[TimerListHead]

(* Time left to the head, as TimerStart and TimerStop work it out. *)
Remaining ==
  IF running THEN ts[TimerListHead] - Least(elapsed, ts[TimerListHead])
  ELSE ts[TimerListHead]

(* aggregatedTimestamp: time left to the i-th timer. *)
Aggregated[i \in DOMAIN list] ==
  IF i = 1 THEN Remaining ELSE Aggregated[i - 1] + ts[list[i]]

(* TimerSetTimeout and RtcSetTimeout: the alarm rings after 1 ms at least. *)
SetTimeout(timeout) ==
  alarm' = (IF timeout < 1 THEN 1 ELSE timeout) /\ elapsed' = 0

(* Mutant of InsertNewHead: the alarm is left to the timer that was head. *)
InsertNewHeadUnset(t) ==
  /\ list' = <<t>> \o list
  /\ ts' = IF list = <<>> THEN [ts EXCEPT ![t] = reload[t]]
           ELSE [ts EXCEPT ![t] = reload[t], ![TimerListHead] = Remaining - reload[t]]
  /\ running' = TRUE
  /\ UNCHANGED <<alarm, elapsed>>

(* TimerInsertNewHeadTimer *)
InsertNewHead(t) ==
  /\ list' = <<t>> \o list
  /\ ts' = IF list = <<>> THEN [ts EXCEPT ![t] = reload[t]]
           ELSE [ts EXCEPT ![t] = reload[t], ![TimerListHead] = Remaining - reload[t]]
  /\ running' = TRUE
  /\ SetTimeout(reload[t])

(* TimerInsertTimer: after the timer of which the next one, if any, is due *)
(* later; the next one waits for the new one first.                        *)
Insert(t) ==
  LET k == CHOOSE i \in DOMAIN list :
             /\ Aggregated[i] <= reload[t]
             /\ i < Len(list) => Aggregated[i + 1] > reload[t]
      wait == reload[t] - Aggregated[k]
  IN  /\ list' = InsertAt(list, k + 1, t)
      /\ ts' = [u \in Timers |->
                  IF u = t THEN wait
                  ELSE IF k < Len(list) /\ u = list[k + 1] THEN ts[u] - wait ELSE ts[u]]
      /\ UNCHANGED <<running, alarm, elapsed>>

TimerStart(t) ==
  \/ Listed(t) /\ UNCHANGED <<listVars, left>>
  \/ /\ ~Listed(t)
     /\ IF list = <<>> \/ reload[t] < Remaining THEN InsertNewHead(t) ELSE Insert(t)
     /\ left' = [left EXCEPT ![t] = reload[t]]

(* Mutant of Unlink: the list ends where the timer was. *)
UnlinkRest(t, remaining) ==
  /\ \E k \in DOMAIN list : list[k] = t /\ list' = SubSeq(list, 1, k - 1)
  /\ ts' = [ts EXCEPT ![t] = 0]

(* The timer after t, if any, inherits the time t had left. *)
Unlink(t, remaining) ==
  \E k \in DOMAIN list :
    /\ list[k] = t /\ list' = RemoveAt(list, k)
    /\ ts' = [u \in Timers |->
                IF u = t THEN 0
                ELSE IF k < Len(list) /\ u = list[k + 1] THEN ts[u] + remaining ELSE ts[u]]

(* Stopping the only timer leaves the alarm as it was. *)
TimerStop(t) ==
  /\ left' = [left EXCEPT ![t] = Unset]
  /\ \/ ~Listed(t) /\ UNCHANGED listVars
     \/ /\ Listed(t) /\ t = TimerListHead
        /\ Unlink(t, Remaining)
        /\ running' = (running /\ Len(list) > 1)
        /\ IF running' THEN SetTimeout(ts'[list[2]]) ELSE UNCHANGED <<alarm, elapsed>>
     \/ /\ Listed(t) /\ t # TimerListHead
        /\ Unlink(t, ts[t])
        /\ UNCHANGED <<running, alarm, elapsed>>

(* TimerSetValue, before TimerStart. *)
TimerSetValue(t, value) ==
  TimerStop(t) /\ reload' = [reload EXCEPT ![t] = value]
------------------------------------------------------------------------------
(* TimerIrqHandler.  An interrupt of a higher priority may come in between *)
(* any two of its steps.                                                   *)

At(step) == handler.at = step

(* The alarm is deactivated and the time that has gone by is read. *)
Enter ==
  /\ pending /\ At("outside")
  /\ pending' = FALSE /\ alarm' = 0
  /\ handler' = [at |-> "read", elapsed |-> elapsed]
  /\ UNCHANGED <<list, ts, reload, running, late, elapsed, left>>

(* The time that has gone by is taken off the head. *)
Apply ==
  /\ At("read") /\ list # <<>>
  /\ ts' = [ts EXCEPT ![TimerListHead] = @ - Least(handler.elapsed, @)]
  /\ running' = FALSE
  /\ handler' = [at |-> "loop"]
  /\ UNCHANGED <<list, reload, alarm, pending, late, elapsed, left>>

(* There is no head: NULL is written to, which the flash at that address   *)
(* ignores or answers with a fault.                                        *)
ApplyToNothing ==
  /\ At("read") /\ list = <<>>
  /\ handler' \in {[at |-> "loop"], [at |-> "fault"]}
  /\ UNCHANGED <<listVars, reload, pending, late, left>>

Due == list # <<>> /\ ts[TimerListHead] = 0

Take ==
  /\ At("loop") /\ Due
  /\ handler' = [at |-> "taken", timer |-> TimerListHead]
  /\ UNCHANGED <<listVars, reload, pending, late, left>>

(* The head, which is what was taken unless the list changed. *)
Advance ==
  /\ At("taken")
  /\ IF list # <<>>
     THEN list' = Tail(list) /\ handler' = [handler EXCEPT !.at = "call"]
     ELSE UNCHANGED list /\ handler' = [at |-> "fault"]
  /\ running' = FALSE
  /\ UNCHANGED <<ts, reload, alarm, pending, late, elapsed, left>>

(* Mutant of Finish: the alarm is not set for the next timer. *)
FinishUnset ==
  /\ At("loop") /\ ~Due
  /\ UNCHANGED listVars
  /\ handler' = Outside /\ late' = 0
  /\ UNCHANGED <<reload, pending, left>>

(* The alarm is set for the next timer, unless a callback did. *)
Finish ==
  /\ At("loop") /\ ~Due
  /\ IF list # <<>> /\ ~running
     THEN running' = TRUE /\ SetTimeout(ts[TimerListHead]) /\ UNCHANGED <<list, ts>>
     ELSE UNCHANGED listVars
  /\ handler' = Outside /\ late' = 0
  /\ UNCHANGED <<reload, pending, left>>

(* A millisecond goes by. *)
Tick ==
  /\ ~At("fault")
  /\ pending \/ ~At("outside") => late < MaxLatency
  /\ late' = IF pending \/ ~At("outside") THEN late + 1 ELSE 0
  /\ alarm' = IF alarm > 0 THEN alarm - 1 ELSE 0
  /\ pending' = (pending \/ alarm = 1)
  /\ elapsed' = Least(elapsed + 1, MaxElapsed)
  /\ left' = [t \in Timers |-> IF left[t] > 0 THEN left[t] - 1 ELSE left[t]]
  /\ UNCHANGED <<list, ts, reload, running, handler>>
==============================================================================
