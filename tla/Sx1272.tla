------------------------------- MODULE Sx1272 -------------------------------
(***************************************************************************)
(* The hardware under the LoWAPP core: the driver of the radio (sx1272.c), *)
(* its interrupts, and the timers it shares with the state machine.  Three *)
(* contexts run: the main loop; the interrupt of the alarm, which preempts *)
(* it; and the interrupts of the radio, which preempt both.                *)
(*                                                                         *)
(* Radio stands for RxTimeoutTimer and TxTimeoutTimer, of which one is set *)
(* at most: the core starts an operation when the radio is asleep.         *)
(***************************************************************************)
EXTENDS TimerList

CONSTANTS
  Sm, Cad, Radio, \* a timer of the state machine, the repetitive one, the radio's
  SmDelays,       \* bound: what the state machine sets its timer to
  CadInterval,    \* _cad_interval
  RadioTimeout    \* timeout of a transmission or a reception

ASSUME Sx1272Assumption ==
  /\ Timers = {Sm, Cad, Radio} /\ Sm # Cad /\ Cad # Radio /\ Radio # Sm
  /\ "none" \notin Timers /\ SmDelays \subseteq Nat \ {0}
  /\ {CadInterval, RadioTimeout} \subseteq Nat \ {0}

VARIABLES
  state, \* SX1272.Settings.State
  chip,  \* what the radio does
  main,  \* what the main loop is about to start, in the middle of a call
  ends,  \* history: ends of the last operation reported to the core
  raced, \* history: the radio reported its end while its timeout was handled
  past   \* history: "clash" once TimerIrqHandler was preempted and the timer it
         \* was handling stopped

vars == <<timerVars, state, chip, main, ends, raced, past>>

NotCalling == [timer |-> "none"]

Init ==
  /\ TimersInit
  /\ state = "idle" /\ chip = "idle" /\ main = NotCalling /\ ends = 1
  /\ raced = FALSE /\ past = {}

(* The main loop runs outside of the interrupts. *)
InMain == At("outside") /\ main = NotCalling

(* SYS_setTimer, SYS_setRepetitiveTimer: TimerSetValue, then TimerStart,   *)
(* each with the interrupts disabled.                                      *)
MainSetsTimer ==
  /\ InMain
  /\ \E t \in {Sm, Cad} : \E value \in IF t = Sm THEN SmDelays ELSE {CadInterval} :
       /\ TimerSetValue(t, value)
       /\ main' = [timer |-> t]
  /\ UNCHANGED <<pending, late, handler, state, chip, ends, raced, past>>

(* SX1272SetTx, SX1272SetRx *)
MainStartsRadio ==
  /\ InMain /\ state = "idle" /\ ends > 0
  /\ TimerSetValue(Radio, RadioTimeout)
  /\ \E op \in {"rx", "tx"} : main' = [timer |-> Radio, op |-> op]
  /\ UNCHANGED <<pending, late, handler, state, chip, ends, raced, past>>

MainStarts ==
  /\ At("outside") /\ main # NotCalling
  /\ TimerStart(main.timer)
  /\ IF main.timer = Radio
     THEN state' = main.op /\ chip' = main.op /\ ends' = 0 /\ raced' = FALSE
     ELSE UNCHANGED <<state, chip, ends, raced>>
  /\ main' = NotCalling
  /\ UNCHANGED <<reload, pending, late, handler, past>>

(* SX1272StartCad: no timer watches it. *)
MainStartsCad ==
  /\ InMain /\ state = "idle" /\ ends > 0
  /\ state' = "cad" /\ chip' = "cad" /\ ends' = 0 /\ raced' = FALSE
  /\ UNCHANGED <<timerVars, main, past>>

(* SYS_cancelTimer, SYS_cancelRepetitiveTimer *)
MainStopsTimer ==
  /\ InMain
  /\ \E t \in {Sm, Cad} : left[t] # Unset /\ TimerStop(t)
  /\ UNCHANGED <<reload, pending, late, handler, state, chip, main, ends, raced, past>>

(* The callbacks of the core put the radio to sleep, which stops its       *)
(* timer, and post an event.                                               *)
ReportEnd ==
  /\ TimerStop(Radio)
  /\ state' = "idle" /\ chip' = "idle"
  /\ ends' = ends + 1

(* The timer TimerIrqHandler holds in its local variables, or whose time   *)
(* it has read.                                                            *)
Handles(t) ==
  \/ At("read") /\ list # <<>> /\ TimerListHead = t
  \/ (At("taken") \/ At("call")) /\ handler.timer = t
  \/ At("timeout") /\ t = Radio

Preempting == IF Handles(Radio) THEN {"clash"} ELSE {}

(* SX1272OnDio0Irq, SX1272OnDio1Irq: done, failed or nothing received. *)
DioEnds ==
  /\ ~At("fault") /\ chip \in {"rx", "tx"}
  /\ IF state = chip THEN ReportEnd /\ raced' = At("timeout")
     ELSE chip' = "idle" /\ UNCHANGED <<listVars, left, state, ends, raced>>
  /\ past' = past \cup Preempting
  /\ UNCHANGED <<reload, pending, late, handler, main>>

(* SX1272OnDio3Irq *)
DioCadDone ==
  /\ ~At("fault") /\ chip = "cad"
  /\ ReportEnd
  /\ past' = past \cup Preempting
  /\ UNCHANGED <<reload, pending, late, handler, main, raced>>
-----------------------------------------------------------------------------
(* The callbacks of the timers, called by TimerIrqHandler. *)

Called(t) ==
  /\ At("call") /\ handler.timer = t
  /\ left' = [left EXCEPT ![t] = Unset]

Driver == <<state, chip, main, ends, raced, past>>

(* timeoutCB, timeoutCB2: an event is posted. *)
SmExpires ==
  /\ Called(Sm)
  /\ handler' = [at |-> "loop"]
  /\ UNCHANGED <<listVars, reload, pending, late, Driver>>

(* cadTimeoutCB sets its timer again. *)
CadExpires ==
  /\ Called(Cad)
  /\ handler' = [at |-> "rearm"]
  /\ UNCHANGED <<listVars, reload, pending, late, Driver>>

CadSetsValue ==
  /\ At("rearm")
  /\ TimerSetValue(Cad, CadInterval)
  /\ handler' = [at |-> "restart"]
  /\ UNCHANGED <<pending, late, Driver>>

CadRestarts ==
  /\ At("restart")
  /\ TimerStart(Cad)
  /\ handler' = [at |-> "loop"]
  /\ UNCHANGED <<reload, pending, late, Driver>>

(* Mutant of RadioExpires: the state is not tested. *)
RadioExpiresUntested ==
  /\ Called(Radio)
  /\ handler' = [at |-> "timeout"]
  /\ UNCHANGED <<listVars, reload, pending, late, Driver>>

(* SX1272OnTimeoutIrq tests SX1272.Settings.State: an operation is under   *)
(* way, or nothing happens.  From there on the radio may still report it.  *)
RadioExpires ==
  /\ Called(Radio)
  /\ handler' = [at |-> IF state \in {"rx", "tx"} THEN "timeout" ELSE "loop"]
  /\ UNCHANGED <<listVars, reload, pending, late, Driver>>

(* A transmission is marked over before it is reported, a LoRa reception   *)
(* is not.                                                                 *)
TxGivesUp ==
  /\ At("timeout") /\ state = "tx"
  /\ state' = "idle"
  /\ UNCHANGED <<timerVars, chip, main, ends, raced, past>>

RadioTimesOut ==
  /\ At("timeout") /\ state # "tx"
  /\ ReportEnd
  /\ handler' = [at |-> "loop"]
  /\ UNCHANGED <<reload, pending, late, main, raced, past>>

HandlerSteps ==
  \/ (Enter \/ Apply \/ ApplyToNothing \/ Take \/ Advance \/ Finish) /\ UNCHANGED Driver
  \/ SmExpires \/ CadExpires \/ CadSetsValue \/ CadRestarts
  \/ RadioExpires \/ TxGivesUp \/ RadioTimesOut

Time == Tick /\ UNCHANGED Driver

Main ==
  MainSetsTimer \/ MainStartsRadio \/ MainStarts \/ MainStartsCad \/ MainStopsTimer

Next == HandlerSteps \/ Main \/ DioEnds \/ DioCadDone \/ Time

(* The processor runs the handler and finishes the calls it began, time    *)
(* goes by, and the radio concludes a channel activity detection.  That a  *)
(* transmission or a reception ends is not assumed.                        *)
Spec ==
  /\ Init /\ [][Next]_vars
  /\ WF_vars(HandlerSteps) /\ WF_vars(MainStarts) /\ SF_vars(Time) /\ WF_vars(DioCadDone)
-----------------------------------------------------------------------------
TypeOK ==
  /\ \A i, j \in DOMAIN list : list[i] = list[j] => i = j
  /\ ToSet(list) \subseteq Timers
  /\ ts \in [Timers -> Nat] /\ reload \in [Timers -> Nat] /\ left \in [Timers -> {Unset} \cup Nat]
  /\ running \in BOOLEAN /\ pending \in BOOLEAN
  /\ alarm \in Nat /\ late \in 0 .. MaxLatency /\ elapsed \in 0 .. MaxElapsed
  /\ handler.at \in {"outside", "read", "loop", "taken", "call", "rearm", "restart",
                     "timeout", "fault"}
  /\ {state, chip} \subseteq {"idle", "rx", "tx", "cad"}
  /\ main.timer \in Timers \cup {"none"} /\ ends \in 0 .. 2
  /\ raced \in BOOLEAN /\ past \subseteq {"clash"}

Undisturbed == past = {}

(* A callback is called at the end of its timeout, not before and not      *)
(* after its timer was stopped, whatever timers start and stop around it:  *)
(* as long as no radio interrupt stops the timer that the handler of the   *)
(* alarm is handling, whose reading of the time then goes to another one.  *)
NeverEarly ==
  [][\A t \in Timers : Undisturbed' /\ Called(t) => left[t] = 0]_vars

(* A timer somebody waits for is in the list or being called: it is not    *)
(* dropped when its neighbours start, stop or expire.                      *)
NoneDropped ==
  Undisturbed /\ ~At("fault") =>
    \A t \in Timers : left[t] # Unset =>
      Listed(t) \/ (At("call") /\ handler.timer = t)

(* Outside of its handler the alarm is set, or about to be served, as long *)
(* as there is a timer to wait for.                                        *)
AlarmSet ==
  At("outside") /\ list # <<>> => running /\ (alarm > 0 \/ pending)

(* The end of an operation is reported to the core twice only when the     *)
(* interrupt of the radio falls inside SX1272OnTimeoutIrq, between its test *)
(* of the state and its own report: at no other moment, the timer already  *)
(* taken from the list by the handler of the alarm included, do interrupt  *)
(* and timeout both report it.                                             *)
EndsOnce == ends > 1 => raced

(* Every transmission and reception ends although the radio may never      *)
(* report it, and so does every channel activity detection it concludes.   *)
OperationEnds == ends = 0 ~> ends > 0 \/ At("fault") \/ ~Undisturbed

(* A timer that is set is called, unless it is stopped first. *)
TimersExpire ==
  \A t \in Timers :
    left[t] # Unset ~> left[t] = Unset \/ At("fault") \/ ~Undisturbed

(* timer.c says of the list that its head always contains the next timer   *)
(* to expire.  The alarm of a timer stopped rings for an empty list.       *)
HandlerFindsHead == [][Enter => list # <<>>]_vars
=============================================================================
