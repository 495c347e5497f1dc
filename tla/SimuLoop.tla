------------------------------ MODULE SimuLoop ------------------------------
(***************************************************************************)
(* The threads of the simulation: the main loop, which runs the state      *)
(* machine until both event queues are empty and then sleeps on a          *)
(* condition; the console, which adds AT commands; the radio, which adds   *)
(* events; and the thread the repetitive timer starts when it expires.     *)
(* They share the queues, each behind a mutex, and the condition, behind a *)
(* mutex of its own.                                                       *)
(*                                                                         *)
(* The state machine is seen between its excursions out of IDLE, in which  *)
(* it waits for the event queue alone: LowappCore has those.               *)
(***************************************************************************)
EXTENDS Naturals, Sequences

CONSTANT QueueSize \* MAXQSZ: 16 in the code

ASSUME QueueAssumption == QueueSize \in Nat \ {0}

Posters == {"console", "radio", "timer"}
Threads == Posters \union {"main"}

Commands == {"AT+CONNECT", "AT+DISCONNECT"}

VARIABLES
  at,        \* where each thread is
  eventLock, \* the thread that holds mutex_eventQ, or "none"
  coldLock,  \* the same of mutex_coldEventQ
  events,    \* number of events in _eventQ
  commands,  \* the commands whose events are in _coldEventQ
  connected, \* _connected
  armed,     \* whether the repetitive timer is running
  past       \* history: "overlap" when the last AT+DISCONNECT stopped it
             \* while its thread ran

vars == <<at, eventLock, coldLock, events, commands, connected, armed, past>>

TypeOK ==
  /\ at \in [Threads -> {"run", "cold", "awake", "wait", "wakes",
                         "idle", "expired", "signal", "count", "rearm"}]
  /\ eventLock \in Posters \union {"none"}
  /\ coldLock \in Posters \union {"none"}
  /\ events \in 0 .. QueueSize
  /\ commands \in Seq(Commands) /\ Len(commands) <= QueueSize
  /\ connected \in BOOLEAN
  /\ armed \in BOOLEAN
  /\ past \subseteq {"overlap"}

(* lowapp_init with a valid configuration, then start_thread_cmd. *)
Init ==
  /\ at = [t \in Threads |-> IF t = "main" THEN "run" ELSE "idle"]
  /\ eventLock = "none"
  /\ coldLock = "none"
  /\ events = 1 \* STATE_ENTER
  /\ commands = <<>>
  /\ connected = TRUE
  /\ armed = TRUE
  /\ past = {}

Move(t, place) == at' = [at EXCEPT ![t] = place]

(***************************************************************************)
(* Adding an event: lock, write the slot, signal, count, unlock.           *)
(***************************************************************************)

Full(t) == IF t = "console" THEN Len(commands) = QueueSize ELSE events = QueueSize

(* cadTimeoutCB goes on with the timer, the others are done. *)
After(t) == IF t = "timer" THEN "rearm" ELSE "idle"

(* add_event returns at once, and signals nothing, when the queue is full. *)
BeginPost(t) ==
  /\ at[t] = IF t = "timer" THEN "expired" ELSE "idle"
  /\ IF t = "console"
     THEN coldLock = "none" /\ UNCHANGED eventLock
          /\ coldLock' = IF Full(t) THEN "none" ELSE t
     ELSE eventLock = "none" /\ UNCHANGED coldLock
          /\ eventLock' = IF Full(t) THEN "none" ELSE t
  /\ Move(t, IF Full(t) THEN After(t) ELSE "signal")
  /\ UNCHANGED <<events, commands, connected, armed, past>>

(* Mutant of Signal: the call is not compiled in. *)
SignalNobody(t) ==
  /\ at[t] = "signal"
  /\ Move(t, "count")
  /\ UNCHANGED <<eventLock, coldLock, events, commands, connected, armed, past>>

(* wakeup_sm: the signal is lost unless the main thread is waiting. *)
Signal(t) ==
  /\ at[t] = "signal"
  /\ at' = [at EXCEPT ![t] = "count",
                      !["main"] = IF @ = "wait" THEN "wakes" ELSE @]
  /\ UNCHANGED <<eventLock, coldLock, events, commands, connected, armed, past>>

Count(t) ==
  /\ at[t] = "count"
  /\ IF t = "console"
     THEN /\ \E c \in Commands : commands' = Append(commands, c)
          /\ coldLock' = "none"
          /\ UNCHANGED <<events, eventLock>>
     ELSE /\ events' = events + 1
          /\ eventLock' = "none"
          /\ UNCHANGED <<commands, coldLock>>
  /\ Move(t, After(t))
  /\ UNCHANGED <<connected, armed, past>>

(* The interval timer starts a thread at each of its expiries; one of them *)
(* at a time here.                                                         *)
Expire ==
  /\ armed
  /\ at["timer"] = "idle"
  /\ Move("timer", "expired")
  /\ UNCHANGED <<eventLock, coldLock, events, commands, connected, armed, past>>

(* The last line of cadTimeoutCB sets the timer, whatever became of it. *)
Rearm ==
  /\ at["timer"] = "rearm"
  /\ armed' = TRUE
  /\ Move("timer", "idle")
  /\ UNCHANGED <<eventLock, coldLock, events, commands, connected, past>>

(***************************************************************************)
(* The main loop.                                                          *)
(***************************************************************************)

FetchEvent ==
  /\ at["main"] = "run"
  /\ eventLock = "none"
  /\ IF events > 0
     THEN events' = events - 1 /\ UNCHANGED at
     ELSE Move("main", "cold") /\ UNCHANGED events
  /\ UNCHANGED <<eventLock, coldLock, commands, connected, armed, past>>

CmdConnect == connected' = TRUE /\ armed' = TRUE /\ UNCHANGED past

(* Mutant of CmdDisconnect: the timer goes on. *)
CmdDisconnectOnly ==
  connected' = FALSE /\ UNCHANGED <<armed, past>>

CmdDisconnect ==
  IF connected
  THEN /\ connected' = FALSE
       /\ armed' = FALSE
       /\ past' = IF at["timer"] = "idle" THEN {} ELSE {"overlap"}
  ELSE UNCHANGED <<connected, armed, past>>

FetchCommand ==
  /\ at["main"] = "cold"
  /\ coldLock = "none"
  /\ IF commands # <<>>
     THEN /\ commands' = Tail(commands)
          /\ Move("main", "run")
          /\ IF Head(commands) = "AT+CONNECT" /\ ~connected THEN CmdConnect
             ELSE IF Head(commands) = "AT+DISCONNECT" THEN CmdDisconnect
             ELSE UNCHANGED <<connected, armed, past>>
     ELSE /\ Move("main", "awake")
          /\ UNCHANGED <<commands, connected, armed, past>>
  /\ UNCHANGED <<eventLock, coldLock, events>>

(* lock_wakeUp and pthread_cond_wait, which does not ask what there is to  *)
(* wait for.                                                               *)
Sleep ==
  /\ at["main"] = "awake"
  /\ Move("main", "wait")
  /\ UNCHANGED <<eventLock, coldLock, events, commands, connected, armed, past>>

(* A spurious wake-up, which POSIX allows, is no different from a signal.   *)
WakeUp ==
  /\ at["main"] \in {"wait", "wakes"}
  /\ Move("main", "run")
  /\ UNCHANGED <<eventLock, coldLock, events, commands, connected, armed, past>>

Signalled == at["main"] = "wakes" /\ WakeUp

Post(t) == BeginPost(t) \/ Signal(t) \/ Count(t)

Main == FetchEvent \/ FetchCommand \/ Sleep \/ WakeUp

Next == (\E t \in Posters : Post(t)) \/ Expire \/ Rearm \/ Main

(* The threads run, the timer expires, and a mutex starves nobody; nobody  *)
(* has to type a command, nothing has to come by radio, and no spurious    *)
(* wake-up has to happen.                                                  *)
Fairness ==
  /\ WF_vars(Expire) /\ WF_vars(Rearm)
  /\ SF_vars(BeginPost("timer"))
  /\ \A t \in Posters : WF_vars(Signal(t)) /\ WF_vars(Count(t))
  /\ SF_vars(FetchEvent) /\ SF_vars(FetchCommand)
  /\ WF_vars(Sleep) /\ WF_vars(Signalled)

Spec == Init /\ [][Next]_vars /\ Fairness

-----------------------------------------------------------------------------

(* main.c, "Sleep until next event occurs": an event added after the       *)
(* queues were found empty and before the main thread waits is not noticed.*)
(* While the device is connected the next expiry of the CAD timer makes up *)
(* for it, unless the queue is full, the event being added included: then  *)
(* nothing is signalled any more.                                          *)
Asleep == at["main"] = "wait" /\ (events > 0 \/ commands # <<>>)

Room == IF eventLock = "none" THEN events < QueueSize ELSE events + 1 < QueueSize

LateAtWorst ==
  (Asleep /\ connected /\ Room) ~> at["main"] # "wait"

(* The device listens while it is connected and only then: the next        *)
(* AT+DISCONNECT stops the timer whatever became of the one before.  It    *)
(* does not stop a timer whose thread is at work: the last line of         *)
(* cadTimeoutCB starts it again, and it runs on until the next one.        *)
ListensIfConnected ==
  /\ connected => armed
  /\ armed => connected \/ past # {}
=============================================================================
