------------------------------ MODULE LowappCore ------------------------------
(***************************************************************************)
(* One LoWAPP node: the state machine of lowapp_core/lowapp_sm.c, the      *)
(* queues it is fed from, its three timers, the half-duplex radio it       *)
(* drives and the AT commands of the application.                          *)
(*                                                                         *)
(* The machine runs in the main loop.  The timer and radio callbacks       *)
(* preempt it: every action below is the code between two points where     *)
(* such a callback may be observed.  A handler that changes the state      *)
(* returns to the loop of sm_run, which then calls the new state with      *)
(* STATE_ENTER (phase "enter").  AT commands are processed one per step    *)
(* (phase "at"), AT+PING spins on the radio inside its command (phases     *)
(* "pingTx" and "pingRx").                                                 *)
(*                                                                         *)
(* Data is abstracted: a message is its destination, a received frame is   *)
(* what retrieveMessage says of it, and sequence numbers are the subject   *)
(* of LowappLink.                                                          *)
(***************************************************************************)
EXTENDS Integers, Sequences, FiniteSets

CONSTANTS
  Peers,          \* device ids a message or a ping can be addressed to
  Broadcast,      \* LOWAPP_ID_BROADCAST
  Self,           \* _deviceId, what lastDestination is initialised with
  EventQueueSize, \* MAXQSZ, for the event queue
  ColdQueueSize,  \* MAXQSZ, for the cold event queue
  QueueSize,      \* MAXQSZ, for the AT command, tx and rx queues
  MaxTxRetry,     \* MAX_TX_FRAME_RETRY
  MaxPendingCad,  \* bound: CADTIMEOUT events waiting at any time
  CommandBudget,  \* bound: AT commands issued in a behaviour
  AppCommands,    \* the AT commands the application issues
  RadioMayStall   \* TRUE: the simulated radio may end without an event

Dests == Peers \cup {Broadcast}

Commands ==
  [op : {"SEND"}, dest : Dests] \cup [op : {"PING"}, dest : Peers] \cup
  [op : {"POLLRX", "PUSHRX", "CONNECT", "DISCONNECT", "RESET", "OTHER", "ERROR"},
   dest : {Self}]

ASSUME CoreAssumption ==
  /\ Broadcast \notin Peers /\ Self \notin Peers \cup {Broadcast}
  /\ EventQueueSize \in Nat \ {0} /\ ColdQueueSize \in Nat \ {0}
  /\ QueueSize \in Nat \ {0}
  /\ MaxTxRetry \in Nat \ {0}
  /\ MaxPendingCad \in Nat /\ CommandBudget \in Nat
  /\ AppCommands \subseteq Commands
  /\ RadioMayStall \in BOOLEAN

States == {"IDLE", "RXING", "SKIPPING_ACK", "WAIT_SLOT_TX_ACK", "TXING_ACK",
           "TXING", "WAIT_BEFORE_LISTENING_FOR_ACK", "RXING_ACK", "CAD",
           "RESTART"}

Phases == {"fetch", "enter", "at", "tx", "pingTx", "pingRx"}

(* What retrieveMessage finds in a received frame: a standard message for  *)
(* this node or for everyone, an ACK for this node, a standard message for *)
(* another node, or anything else (-1, -3, -4, an ACK for another node).   *)
FrameKinds == {"std", "broadcast", "ack", "other", "invalid"}

Events ==
  [type : {"RXMSG"}, data : FrameKinds] \cup
  [type : {"CADDONE"}, data : {"busy", "clear"}] \cup
  [type : {"STATE_ENTER", "TXDONE", "TXTIMEOUT", "RXERROR", "RXTIMEOUT",
           "CADTIMEOUT", "TIMEOUT", "TXUNBLOCK"}, data : {"none"}]

Simple(t) == [type |-> t, data |-> "none"]

VARIABLES
  state,           \* _currentState
  phase,           \* where the main loop is inside sm_run
  resume,          \* where at_queue_process returns to
  eventQ,          \* _eventQ
  coldEventQ,      \* _coldEventQ
  atcmdQ,          \* _atcmd_list
  txQ,             \* _tx_pkt_list, the destinations of the messages
  rxQ,             \* _rx_pkt_list, its length
  currentTxMsg,    \* what the pointer currentTxMsg refers to
  txFrameFilled,
  lastDestination,
  retryTxFrame,
  txBlocked,
  timer1,          \* one shot timer 1 is armed
  timer2,          \* one shot timer 2 is armed
  cadTimer,        \* the repetitive timer is armed
  cadFlag,         \* cad_flag
  connected,       \* _connected
  opMode,          \* _opMode
  radio,           \* what the transceiver is doing
  radioCfg,        \* packet format the transceiver is configured for
  radioFlags,      \* radioFlags, of the callbacks used by AT+PING
  notifying,       \* lowapp_atcmd has queued a command, RXAT is not posted yet
  budget,          \* AT commands the application may still issue
  pending          \* history: messages accepted and not yet concluded

smVars    == <<state, phase, resume>>
queueVars == <<eventQ, coldEventQ, atcmdQ, txQ, rxQ>>
frameVars == <<currentTxMsg, txFrameFilled, lastDestination, retryTxFrame, pending>>
timerVars == <<txBlocked, timer1, timer2, cadTimer, cadFlag>>
appVars   == <<connected, opMode, notifying, budget>>
radioVars == <<radio, radioCfg, radioFlags>>

vars == <<smVars, queueVars, frameVars, timerVars, appVars, radioVars>>
-------------------------------------------------------------------------------
(* lowapp_init followed by core_init.  A node whose stored configuration   *)
(* is unusable starts disconnected, with its CAD timer off.                *)
Init ==
  /\ state = "RESTART" /\ phase = "fetch" /\ resume = "fetch"
  /\ eventQ = <<Simple("STATE_ENTER")>> /\ coldEventQ = <<>>
  /\ atcmdQ = <<>> /\ txQ = <<>> /\ rxQ = 0
  /\ currentTxMsg = "none" /\ txFrameFilled = FALSE
  /\ lastDestination = Self /\ retryTxFrame = 0 /\ pending = 0
  /\ txBlocked = FALSE /\ timer1 = FALSE /\ timer2 = FALSE
  /\ connected \in BOOLEAN /\ cadTimer = connected /\ cadFlag = FALSE
  /\ opMode = "PULL" /\ notifying = FALSE /\ budget = CommandBudget
  /\ radio = "SLEEP" /\ radioCfg = "STD" /\ radioFlags = "none"

(* Mutant of Post: the queue is taken for full one entry too early. *)
PostOneShort(e) ==
  eventQ' = IF Len(eventQ) < EventQueueSize - 1 THEN Append(eventQ, e) ELSE eventQ

(* add_event: an event that finds the queue full is dropped. *)
Post(e) ==
  eventQ' = IF Len(eventQ) < EventQueueSize THEN Append(eventQ, e) ELSE eventQ

(* Mutant of PostCold: the room in the queue is not checked. *)
PostColdUnchecked(t) == coldEventQ' = Append(coldEventQ, t)

(* The same for the cold queue. *)
PostCold(t) ==
  coldEventQ' = IF Len(coldEventQ) < ColdQueueSize
                THEN Append(coldEventQ, t) ELSE coldEventQ

(* Mutant of Fetch: the event is dispatched without a look at the state. *)
FetchAnyState(s, types) ==
  /\ phase = "fetch"
  /\ eventQ # <<>> /\ Head(eventQ).type \in types
  /\ eventQ' = Tail(eventQ)

(* The main loop takes the next event, one of types, in state s. *)
Fetch(s, types) ==
  /\ phase = "fetch" /\ state = s
  /\ eventQ # <<>> /\ Head(eventQ).type \in types
  /\ eventQ' = Tail(eventQ)

(* The cold queue is looked at in IDLE, when the event queue is empty. *)
FetchCold(t) ==
  /\ phase = "fetch" /\ state = "IDLE" /\ eventQ = <<>>
  /\ coldEventQ # <<>> /\ Head(coldEventQ) = t
  /\ coldEventQ' = Tail(coldEventQ)

(* The handler returns another state, to be entered by the loop. *)
Goto(s) == state' = s /\ phase' = "enter" /\ UNCHANGED resume

(* The handler returns _currentState. *)
Stay == phase' = "fetch" /\ UNCHANGED <<state, resume>>

(* Mutant of StdFormat: the format of the ACK exchange stays configured. *)
AckFormatKept == UNCHANGED radioCfg

(* The packet format of standard frames is configured again. *)
StdFormat == radioCfg' = "STD"

(* Mutant of BlockTx: the timer that unblocks is not armed. *)
BlockTxNoTimer == txBlocked' = TRUE /\ UNCHANGED timer2

(* setTimerForUnblockingTx *)
BlockTx == txBlocked' = TRUE /\ timer2' = TRUE

(* The number of CADTIMEOUT events waiting. *)
PendingCad == Cardinality({i \in DOMAIN eventQ : eventQ[i].type = "CADTIMEOUT"})
-------------------------------------------------------------------------------
(* Mutant of StartTx: timer 2 is armed when the transmission starts. *)
StartTxArmed(r) ==
  /\ BlockTx /\ radio' = "TX"
  /\ txFrameFilled' = TRUE /\ retryTxFrame' = r
  /\ Goto("TXING")
  /\ UNCHANGED pending

(* tryTxFrame sends the frame in currentTxFrame if it finds the channel    *)
(* free; r is the value of retryTxFrame.                                   *)
StartTx(r) ==
  /\ txBlocked' = TRUE /\ radio' = "TX"
  /\ txFrameFilled' = TRUE /\ retryTxFrame' = r
  /\ Goto("TXING")
  /\ UNCHANGED <<timer2, pending>>

(* Mutant of PutOff: one retry too many. *)
PutOffOnceMore(r) ==
  /\ r + 1 <= MaxTxRetry
  /\ BlockTx
  /\ txFrameFilled' = TRUE /\ retryTxFrame' = r + 1
  /\ Goto("RXING")
  /\ UNCHANGED <<radio, pending>>

(* Otherwise it puts the frame off until timer 2 fires ... *)
PutOff(r) ==
  /\ r + 1 < MaxTxRetry
  /\ BlockTx
  /\ txFrameFilled' = TRUE /\ retryTxFrame' = r + 1
  /\ Goto("RXING")
  /\ UNCHANGED <<radio, pending>>

(* Mutant of GiveUp: the frame stays in its buffer. *)
GiveUpFilled(r) ==
  /\ r + 1 >= MaxTxRetry
  /\ txFrameFilled' = TRUE /\ retryTxFrame' = r + 1
  /\ pending' = pending - 1
  /\ Goto("RXING")
  /\ UNCHANGED <<radio, txBlocked, timer2>>

(* ... or gives up, and in both cases receives what occupies the channel. *)
GiveUp(r) ==
  /\ r + 1 >= MaxTxRetry
  /\ txFrameFilled' = FALSE /\ retryTxFrame' = r + 1
  /\ pending' = pending - 1
  /\ Goto("RXING")
  /\ UNCHANGED <<radio, txBlocked, timer2>>

TryTxFrame(r) == StartTx(r) \/ PutOff(r) \/ GiveUp(r)

(* tryTxFromQueue and the standard message case of tryTxCurrent. *)
TryTxFromQueue ==
  /\ txQ # <<>>
  /\ txQ' = Tail(txQ)
  /\ currentTxMsg' = "std"
  /\ lastDestination' = Head(txQ)
  /\ TryTxFrame(0)

(* What IDLE does when it may transmit: the frame already built, else the  *)
(* next message of the queue, else nothing.                                *)
TrySend ==
  \/ /\ txFrameFilled
     /\ TryTxFrame(retryTxFrame)
     /\ UNCHANGED <<txQ, currentTxMsg, lastDestination>>
  \/ ~txFrameFilled /\ TryTxFromQueue
  \/ /\ ~txFrameFilled /\ txQ = <<>>
     /\ Stay
     /\ UNCHANGED <<txQ, frameVars, txBlocked, timer2, radio>>

(* Mutant of IdleEnter: the command queue is left to RXAT. *)
IdleEnterNoCommands ==
  /\ phase = "enter" /\ state = "IDLE"
  /\ phase' = "tx" /\ resume' = "tx"
  /\ UNCHANGED <<state, queueVars, frameVars, timerVars, appVars, radioVars>>

(* STATE_ENTER of IDLE starts with the AT command queue. *)
IdleEnter ==
  /\ phase = "enter" /\ state = "IDLE"
  /\ phase' = "at" /\ resume' = "tx"
  /\ UNCHANGED <<state, queueVars, frameVars, timerVars, appVars, radioVars>>

(* Mutant of PushRx: off by one in the size of the rx queue. *)
PushRxOffByOne == rxQ' = IF opMode = "PUSH" /\ rxQ > 1 THEN 0 ELSE rxQ

(* ... then in push mode delivers what was received, ... *)
PushRx == rxQ' = IF opMode = "PUSH" THEN 0 ELSE rxQ

(* ... then transmits, if that is not blocked. *)
IdleTx ==
  /\ phase = "tx"
  /\ PushRx
  /\ \/ ~txBlocked /\ TrySend
     \/ txBlocked /\ Stay /\ UNCHANGED <<txQ, frameVars, txBlocked, timer2, radio>>
  /\ UNCHANGED <<eventQ, coldEventQ, atcmdQ, timer1, cadTimer, cadFlag, appVars,
                 radioCfg, radioFlags>>

(* TXUNBLOCK in IDLE transmits whatever txBlocked says. *)
IdleTxUnblock ==
  /\ Fetch("IDLE", {"TXUNBLOCK"})
  /\ TrySend
  /\ UNCHANGED <<coldEventQ, atcmdQ, rxQ, timer1, cadTimer, cadFlag, appVars,
                 radioCfg, radioFlags>>

IdleTxReq ==
  /\ FetchCold("TXREQ")
  /\ \/ ~txBlocked /\ TrySend
     \/ txBlocked /\ Stay /\ UNCHANGED <<txQ, frameVars, txBlocked, timer2, radio>>
  /\ UNCHANGED <<eventQ, atcmdQ, rxQ, timer1, cadTimer, cadFlag, appVars,
                 radioCfg, radioFlags>>

IdleRxAt ==
  /\ FetchCold("RXAT")
  /\ phase' = "at" /\ resume' = "fetch"
  /\ UNCHANGED <<state, eventQ, atcmdQ, txQ, rxQ, frameVars, timerVars, appVars,
                 radioVars>>

IdleCadTimeout ==
  /\ Fetch("IDLE", {"CADTIMEOUT"})
  /\ Goto("CAD")
  /\ UNCHANGED <<coldEventQ, atcmdQ, txQ, rxQ, frameVars, timerVars, appVars,
                 radioVars>>
-------------------------------------------------------------------------------
(* AT commands: lowapp_atcmd, called by the UART interrupt or the console  *)
(* thread, queues the command, or the NULL of lowapp_atcmderror ...        *)
AppCommand ==
  /\ budget > 0 /\ ~notifying
  /\ budget' = budget - 1
  /\ \E c \in AppCommands :
        IF Len(atcmdQ) < QueueSize
        THEN atcmdQ' = Append(atcmdQ, c) /\ notifying' = TRUE
        ELSE UNCHANGED atcmdQ /\ notifying' = (c.op = "ERROR")
  /\ UNCHANGED <<smVars, eventQ, coldEventQ, txQ, rxQ, frameVars, timerVars,
                 connected, opMode, radioVars>>

(* ... and then wakes the machine up through the cold queue. *)
AppNotify ==
  /\ notifying
  /\ notifying' = FALSE
  /\ PostCold("RXAT")
  /\ UNCHANGED <<smVars, eventQ, atcmdQ, txQ, rxQ, frameVars, timerVars,
                 connected, opMode, budget, radioVars>>

(* at_queue_process takes the next command. *)
NextCommand(ops) ==
  /\ phase = "at" /\ atcmdQ # <<>> /\ Head(atcmdQ).op \in ops
  /\ atcmdQ' = Tail(atcmdQ)

(* at_queue_process found its queue empty. *)
CommandsDone ==
  /\ phase = "at" /\ atcmdQ = <<>>
  /\ phase' = resume
  /\ UNCHANGED <<state, resume, queueVars, frameVars, timerVars, appVars,
                 radioVars>>

(* cmd_send and lowapp_tx: refused when disconnected, answered QUEUE FULL  *)
(* when the tx queue is full.  TXREQ is posted only if tx is not blocked.  *)
CmdSend ==
  /\ NextCommand({"SEND"})
  /\ IF connected /\ Len(txQ) < QueueSize
     THEN /\ txQ' = Append(txQ, Head(atcmdQ).dest)
          /\ pending' = pending + 1
          /\ IF txBlocked THEN UNCHANGED coldEventQ ELSE PostCold("TXREQ")
     ELSE UNCHANGED <<txQ, pending, coldEventQ>>
  /\ UNCHANGED <<smVars, eventQ, rxQ, currentTxMsg, txFrameFilled,
                 lastDestination, retryTxFrame, timerVars, appVars, radioVars>>

CmdPollRx ==
  /\ NextCommand({"POLLRX"})
  /\ rxQ' = 0 /\ opMode' = "PULL"
  /\ UNCHANGED <<smVars, eventQ, coldEventQ, txQ, frameVars, timerVars,
                 connected, notifying, budget, radioVars>>

(* AT+PUSHRX, the other commands, which bring the pull mode back, and the  *)
(* NULL command, which is only answered.                                   *)
CmdSetMode ==
  /\ NextCommand({"PUSHRX", "OTHER", "ERROR"})
  /\ opMode' = CASE Head(atcmdQ).op = "PUSHRX" -> "PUSH"
                 [] Head(atcmdQ).op = "OTHER" -> "PULL"
                 [] OTHER -> opMode
  /\ UNCHANGED <<smVars, eventQ, coldEventQ, txQ, rxQ, frameVars, timerVars,
                 connected, notifying, budget, radioVars>>

CmdDisconnect ==
  /\ NextCommand({"DISCONNECT"})
  /\ opMode' = "PULL" /\ connected' = FALSE
  /\ cadTimer' = (cadTimer /\ ~connected)
  /\ UNCHANGED <<smVars, eventQ, coldEventQ, txQ, rxQ, frameVars, txBlocked,
                 timer1, timer2, cadFlag, notifying, budget,
                 radioVars>>

(* check_configuration decides whether a disconnected node may connect. *)
CmdConnect ==
  /\ NextCommand({"CONNECT"})
  /\ opMode' = "PULL"
  /\ \/ connected' = TRUE /\ cadTimer' = (cadTimer \/ ~connected)
     \/ ~connected /\ UNCHANGED <<connected, cadTimer>>
  /\ UNCHANGED <<smVars, eventQ, coldEventQ, txQ, rxQ, frameVars, txBlocked,
                 timer1, timer2, cadFlag, notifying, budget,
                 radioVars>>

(* HAL_NVIC_SystemReset: the RAM is initialised again, what it held is lost. *)
CmdReset ==
  /\ phase = "at" /\ atcmdQ # <<>> /\ Head(atcmdQ).op = "RESET"
  /\ state' = "RESTART" /\ phase' = "fetch" /\ resume' = "fetch"
  /\ eventQ' = <<Simple("STATE_ENTER")>> /\ coldEventQ' = <<>>
  /\ atcmdQ' = <<>> /\ txQ' = <<>> /\ rxQ' = 0
  /\ currentTxMsg' = "none" /\ txFrameFilled' = FALSE
  /\ lastDestination' = Self /\ retryTxFrame' = 0 /\ pending' = 0
  /\ txBlocked' = FALSE /\ timer1' = FALSE /\ timer2' = FALSE
  /\ connected' \in BOOLEAN /\ cadTimer' = connected' /\ cadFlag' = FALSE
  /\ opMode' = "PULL" /\ notifying' = FALSE /\ UNCHANGED budget
  /\ radio' = "SLEEP" /\ radioCfg' = "STD" /\ radioFlags' = "none"

(* cmd_ping replaces the radio callbacks and transmits without looking at  *)
(* txBlocked, then spins until a callback raises a flag.                   *)
CmdPing ==
  /\ NextCommand({"PING"})
  /\ opMode' = "PULL" /\ radioFlags' = "none" /\ radio' = "TX"
  /\ phase' = "pingTx"
  /\ UNCHANGED <<state, resume, eventQ, coldEventQ, txQ, rxQ, frameVars,
                 timerVars, connected, notifying, budget, radioCfg>>

(* After TxDone it listens for the ACK, in the ACK packet format. *)
PingSent ==
  /\ phase = "pingTx" /\ radioFlags = "TXDONE"
  /\ radioFlags' = "none" /\ radioCfg' = "ACK" /\ radio' = "RX"
  /\ phase' = "pingRx"
  /\ UNCHANGED <<state, resume, queueVars, frameVars, timerVars, appVars>>

(* The ping is over, one way or the other. *)
PingOver ==
  /\ \/ phase = "pingTx" /\ radioFlags = "RXERROR"
     \/ phase = "pingRx" /\ radioFlags # "none"
  /\ StdFormat /\ phase' = "at"
  /\ UNCHANGED <<state, resume, queueVars, frameVars, timerVars, appVars, radio,
                 radioFlags>>
-------------------------------------------------------------------------------
(* The states other than IDLE.  What a state does not handle it drops.     *)
Handled(s) ==
  CASE s = "IDLE"      -> {"TXUNBLOCK", "CADTIMEOUT"}
    [] s = "RESTART"   -> {"STATE_ENTER"}
    [] s = "RXING"     -> {"RXMSG", "RXERROR", "RXTIMEOUT", "TIMEOUT"}
    [] s = "RXING_ACK" -> {"RXMSG", "RXERROR", "RXTIMEOUT", "TIMEOUT"}
    [] s = "TXING"     -> {"TXDONE", "TIMEOUT", "TXTIMEOUT"}
    [] s = "TXING_ACK" -> {"TXDONE", "TIMEOUT", "TXTIMEOUT"}
    [] s = "CAD"       -> {"CADDONE"}
    [] OTHER           -> {"TIMEOUT"}

IgnoreEvent ==
  /\ phase = "fetch" /\ eventQ # <<>>
  /\ Head(eventQ).type \notin Handled(state)
  /\ eventQ' = Tail(eventQ)
  /\ UNCHANGED <<smVars, coldEventQ, atcmdQ, txQ, rxQ, frameVars, timerVars,
                 appVars, radioVars>>

RestartEnter ==
  /\ Fetch("RESTART", {"STATE_ENTER"})
  /\ Goto("IDLE")
  /\ UNCHANGED <<coldEventQ, atcmdQ, txQ, rxQ, frameVars, timerVars, appVars,
                 radioVars>>

(* STATE_ENTER of a state that only waits for a transmission to end. *)
TxingEnter ==
  /\ phase = "enter" /\ state \in {"TXING", "TXING_ACK"}
  /\ Stay
  /\ UNCHANGED <<queueVars, frameVars, timerVars, appVars, radioVars>>

(* STATE_ENTER of a state that waits for timer 1. *)
WaitEnter ==
  /\ phase = "enter"
  /\ state \in {"SKIPPING_ACK", "WAIT_SLOT_TX_ACK", "WAIT_BEFORE_LISTENING_FOR_ACK"}
  /\ timer1' = TRUE
  /\ Stay
  /\ UNCHANGED <<queueVars, frameVars, txBlocked, timer2, cadTimer, cadFlag,
                 appVars, radioVars>>

RxingEnter ==
  /\ phase = "enter" /\ state = "RXING"
  /\ radio' = "RX"
  /\ Stay
  /\ UNCHANGED <<queueVars, frameVars, timerVars, appVars, radioCfg, radioFlags>>

RxingAckEnter ==
  /\ phase = "enter" /\ state = "RXING_ACK"
  /\ radioCfg' = "ACK" /\ radio' = "RX"
  /\ Stay
  /\ UNCHANGED <<queueVars, frameVars, timerVars, appVars, radioFlags>>

CadEnter ==
  /\ phase = "enter" /\ state = "CAD"
  /\ cadFlag' = FALSE /\ radio' = "CAD"
  /\ Stay
  /\ UNCHANGED <<queueVars, frameVars, txBlocked, timer1, timer2, cadTimer,
                 appVars, radioCfg, radioFlags>>
-------------------------------------------------------------------------------
CadDone ==
  /\ Fetch("CAD", {"CADDONE"})
  /\ Goto(IF Head(eventQ).data = "busy" THEN "RXING" ELSE "IDLE")
  /\ UNCHANGED <<coldEventQ, atcmdQ, txQ, rxQ, frameVars, timerVars, appVars,
                 radioVars>>

(* Mutant of PrepareAck: the message of a frame put off is kept. *)
PrepareAckIfNone ==
  currentTxMsg' = IF currentTxMsg = "none" THEN "ack" ELSE currentTxMsg

(* The ACK message of a received frame becomes the current message, even   *)
(* if that still is the message of a frame put off.                        *)
PrepareAck == currentTxMsg' = "ack"

(* A frame for this node goes to the rx queue and, unless it is a          *)
(* broadcast, is acknowledged; when the queue is full it is dropped and    *)
(* not acknowledged.  retrieveMessage accepts an ACK frame as well, and    *)
(* state_rxing does not look at the type of what it accepted.              *)
RxingMsg ==
  /\ Fetch("RXING", {"RXMSG"})
  /\ LET frame   == Head(eventQ).data
         forMe   == frame \in {"std", "ack", "broadcast"}
         stored  == forMe /\ rxQ < QueueSize
         answer  == stored /\ frame # "broadcast"
     IN  /\ rxQ' = IF stored THEN rxQ + 1 ELSE rxQ
         /\ IF answer THEN PrepareAck ELSE UNCHANGED currentTxMsg
         /\ Goto(CASE answer           -> "WAIT_SLOT_TX_ACK"
                   [] frame = "other"  -> "SKIPPING_ACK"
                   [] OTHER            -> "IDLE")
  /\ UNCHANGED <<coldEventQ, atcmdQ, txQ, txFrameFilled, lastDestination,
                 retryTxFrame, pending, timerVars, appVars, radioVars>>

RxingFails ==
  /\ Fetch("RXING", {"RXERROR", "RXTIMEOUT", "TIMEOUT"})
  /\ Goto("IDLE")
  /\ UNCHANGED <<coldEventQ, atcmdQ, txQ, rxQ, frameVars, timerVars, appVars,
                 radioVars>>

SkippingTimeout ==
  /\ Fetch("SKIPPING_ACK", {"TIMEOUT"})
  /\ Goto("IDLE")
  /\ UNCHANGED <<coldEventQ, atcmdQ, txQ, rxQ, frameVars, timerVars, appVars,
                 radioVars>>

(* tryTxCurrent when the current message is an ACK: it is sent without     *)
(* listening first, in the ACK packet format.  AckReady says that it is.   *)
SendAck ==
  /\ Fetch("WAIT_SLOT_TX_ACK", {"TIMEOUT"})
  /\ currentTxMsg = "ack" /\ currentTxMsg' = "none"
  /\ radioCfg' = "ACK" /\ radio' = "TX"
  /\ Goto("TXING_ACK")
  /\ UNCHANGED <<coldEventQ, atcmdQ, txQ, rxQ, txFrameFilled, lastDestination,
                 retryTxFrame, pending, timerVars, appVars, radioFlags>>

TxingAckOver ==
  /\ Fetch("TXING_ACK", {"TXDONE", "TIMEOUT", "TXTIMEOUT"})
  /\ StdFormat
  /\ Goto("IDLE")
  /\ UNCHANGED <<coldEventQ, atcmdQ, txQ, rxQ, frameVars, timerVars, appVars,
                 radio, radioFlags>>

(* TXING: the frame is out.  An ACK is expected unless it was a broadcast. *)
TxingDone ==
  /\ Fetch("TXING", {"TXDONE"})
  /\ txFrameFilled' = FALSE /\ currentTxMsg' = "none"
  /\ IF lastDestination = Broadcast
     THEN BlockTx /\ pending' = pending - 1 /\ Goto("IDLE")
     ELSE /\ txBlocked' = TRUE
          /\ Goto("WAIT_BEFORE_LISTENING_FOR_ACK")
          /\ UNCHANGED <<timer2, pending>>
  /\ UNCHANGED <<coldEventQ, atcmdQ, txQ, rxQ, lastDestination, retryTxFrame,
                 timer1, cadTimer, cadFlag, appVars, radioVars>>

TxingTimeout ==
  /\ Fetch("TXING", {"TIMEOUT", "TXTIMEOUT"})
  /\ BlockTx
  /\ retryTxFrame' = retryTxFrame + 1
  /\ IF retryTxFrame' < MaxTxRetry
     THEN UNCHANGED <<txFrameFilled, currentTxMsg, pending>>
     ELSE txFrameFilled' = FALSE /\ currentTxMsg' = "none" /\ pending' = pending - 1
  /\ Goto("IDLE")
  /\ UNCHANGED <<coldEventQ, atcmdQ, txQ, rxQ, lastDestination, timer1, cadTimer,
                 cadFlag, appVars, radioVars>>

WaitBeforeTimeout ==
  /\ Fetch("WAIT_BEFORE_LISTENING_FOR_ACK", {"TIMEOUT"})
  /\ Goto("RXING_ACK")
  /\ UNCHANGED <<coldEventQ, atcmdQ, txQ, rxQ, frameVars, timerVars, appVars,
                 radioVars>>

(* RXING_ACK: whatever came or did not come, the exchange is over. *)
RxingAckOver ==
  /\ Fetch("RXING_ACK", {"RXMSG", "RXERROR", "RXTIMEOUT", "TIMEOUT"})
  /\ StdFormat
  /\ BlockTx
  /\ pending' = pending - 1
  /\ Goto("IDLE")
  /\ UNCHANGED <<coldEventQ, atcmdQ, txQ, rxQ, currentTxMsg, txFrameFilled,
                 lastDestination, retryTxFrame, timer1, cadTimer, cadFlag,
                 appVars, radio, radioFlags>>
-------------------------------------------------------------------------------
(* Callbacks of the radio driver.  Each one puts the transceiver to sleep, *)
(* then tells the machine, or the ping, how the operation ended.           *)
RadioEnds(op, events) ==
  /\ radio = op /\ phase \notin {"pingTx", "pingRx"}
  /\ radio' = "SLEEP"
  /\ \E e \in events : Post(e)
  /\ UNCHANGED <<smVars, coldEventQ, atcmdQ, txQ, rxQ, frameVars, timerVars,
                 appVars, radioCfg, radioFlags>>

RadioTxEnds == RadioEnds("TX", {Simple("TXDONE"), Simple("TXTIMEOUT")})

RadioRxEnds ==
  RadioEnds("RX", [type : {"RXMSG"}, data : FrameKinds] \cup
                  {Simple("RXERROR"), Simple("RXTIMEOUT")})

RadioCadEnds == RadioEnds("CAD", [type : {"CADDONE"}, data : {"busy", "clear"}])

(* cmd_ping gives noSmRxTimeout for both timeouts. *)
RadioPingEnds ==
  /\ \/ phase = "pingTx" /\ radio = "TX" /\ radioFlags' \in {"TXDONE", "RXERROR"}
     \/ phase = "pingRx" /\ radio = "RX" /\ radioFlags' \in {"RXDONE", "RXERROR"}
  /\ radio' = "SLEEP"
  /\ UNCHANGED <<smVars, queueVars, frameVars, timerVars, appVars, radioCfg>>

(* Failure injection of the simulated radio: the operation never reports. *)
RadioStalls ==
  /\ RadioMayStall /\ radio \in {"TX", "RX"} /\ phase # "pingRx"
  /\ radio' = "SLEEP"
  /\ UNCHANGED <<smVars, queueVars, frameVars, timerVars, appVars, radioCfg,
                 radioFlags>>

(* timeoutCB *)
Timer1Expires ==
  /\ timer1 /\ timer1' = FALSE
  /\ Post(Simple("TIMEOUT"))
  /\ UNCHANGED <<smVars, coldEventQ, atcmdQ, txQ, rxQ, frameVars, txBlocked,
                 timer2, cadTimer, cadFlag, appVars, radioVars>>

(* timeoutCB2 *)
Timer2Expires ==
  /\ timer2 /\ timer2' = FALSE
  /\ txBlocked' = FALSE
  /\ Post(Simple("TXUNBLOCK"))
  /\ UNCHANGED <<smVars, coldEventQ, atcmdQ, txQ, rxQ, frameVars, timer1,
                 cadTimer, cadFlag, appVars, radioVars>>

(* cadTimeoutCB, which rearms its timer. *)
CadTimerExpires ==
  /\ cadTimer /\ PendingCad < MaxPendingCad
  /\ Post(Simple("CADTIMEOUT"))
  /\ cadFlag' = TRUE
  /\ UNCHANGED <<smVars, coldEventQ, atcmdQ, txQ, rxQ, frameVars, txBlocked,
                 timer1, timer2, cadTimer, appVars, radioVars>>
-------------------------------------------------------------------------------
(* sm_run: the code of the main loop. *)
SmRun ==
  \/ RestartEnter \/ IgnoreEvent
  \/ IdleEnter \/ IdleTx \/ IdleTxUnblock \/ IdleTxReq \/ IdleRxAt \/ IdleCadTimeout
  \/ CommandsDone \/ CmdSend \/ CmdPollRx \/ CmdSetMode \/ CmdDisconnect
  \/ CmdConnect \/ CmdReset \/ CmdPing \/ PingSent \/ PingOver
  \/ TxingEnter \/ WaitEnter \/ RxingEnter \/ RxingAckEnter \/ CadEnter
  \/ CadDone \/ RxingMsg \/ RxingFails \/ SkippingTimeout \/ SendAck
  \/ TxingAckOver \/ TxingDone \/ TxingTimeout \/ WaitBeforeTimeout \/ RxingAckOver

RadioCallbacks ==
  RadioTxEnds \/ RadioRxEnds \/ RadioCadEnds \/ RadioPingEnds \/ RadioStalls

Next ==
  \/ SmRun
  \/ RadioCallbacks
  \/ Timer1Expires \/ Timer2Expires \/ CadTimerExpires
  \/ AppCommand \/ AppNotify

Spec == Init /\ [][Next]_vars

(* The main thread goes through a step it has begun, and takes the event   *)
(* posted at a reset before it first sleeps.  After that it may miss the   *)
(* signal of an event that comes between its last look at the queues and   *)
(* cond_wait: what wakes it is the next expiry of the CAD timer, which     *)
(* only a connected node has.                                              *)
Awake == phase # "fetch" \/ state = "RESTART" \/ connected

(* The loop runs when nothing can keep it asleep, the driver bounds every  *)
(* radio operation, armed timers fire, and lowapp_atcmd returns.  Nothing  *)
(* obliges the application to issue commands.                              *)
Fairness ==
  /\ WF_vars(SmRun /\ Awake) /\ WF_vars(RadioCallbacks)
  /\ WF_vars(Timer1Expires) /\ WF_vars(Timer2Expires) /\ WF_vars(CadTimerExpires)
  /\ WF_vars(AppNotify)

FairSpec == Spec /\ Fairness
-------------------------------------------------------------------------------
(* Properties.                                                             *)

Completions ==
  {"TXDONE", "TXTIMEOUT", "RXMSG", "RXERROR", "RXTIMEOUT", "CADDONE", "TIMEOUT"}

Queued(types) == {i \in DOMAIN eventQ : eventQ[i].type \in types}

(* The variables keep the types their declarations give them, and the      *)
(* queues of lowapp_utils_queue.c never hold more than MAXQSZ entries.     *)
TypeOK ==
  /\ state \in States /\ phase \in Phases /\ resume \in {"fetch", "tx"}
  /\ eventQ \in Seq(Events) /\ Len(eventQ) <= EventQueueSize
  /\ coldEventQ \in Seq({"RXAT", "TXREQ"}) /\ Len(coldEventQ) <= ColdQueueSize
  /\ atcmdQ \in Seq(Commands) /\ Len(atcmdQ) <= QueueSize
  /\ txQ \in Seq(Dests) /\ Len(txQ) <= QueueSize
  /\ rxQ \in 0 .. QueueSize
  /\ currentTxMsg \in {"none", "std", "ack"} /\ txFrameFilled \in BOOLEAN
  /\ lastDestination \in Dests \cup {Self}
  /\ retryTxFrame \in Nat /\ pending \in Int
  /\ txBlocked \in BOOLEAN /\ timer1 \in BOOLEAN /\ timer2 \in BOOLEAN
  /\ cadTimer \in BOOLEAN /\ cadFlag \in BOOLEAN
  /\ connected \in BOOLEAN /\ opMode \in {"PULL", "PUSH"}
  /\ notifying \in BOOLEAN /\ budget \in Nat
  /\ radio \in {"SLEEP", "TX", "RX", "CAD"} /\ radioCfg \in {"STD", "ACK"}
  /\ radioFlags \in {"none", "TXDONE", "RXDONE", "RXERROR"}

(* How the operation a state waits for shows: it is still running, or its  *)
(* completion is waiting in the event queue.                               *)
Waits(running, types) ==
  /\ Cardinality(Queued(Completions)) = IF running THEN 0 ELSE 1
  /\ ~running => Queued(types) # {}

(* A state other than IDLE is left only by the event it waits for, so it   *)
(* must always have exactly one on its way, from the radio or from timer   *)
(* 1: with none the node is stuck for ever, with two the second one is     *)
(* taken for the completion of a later operation.                          *)
OneWakeUp ==
  /\ radio # "SLEEP" => ~timer1
  /\ state \in {"IDLE", "RESTART"} => Queued(Completions) = {} /\ ~timer1
  /\ state = "IDLE" /\ phase \notin {"pingTx", "pingRx"} => radio = "SLEEP"
  /\ state = "RESTART" => Queued({"STATE_ENTER"}) # {}
  /\ state \in {"TXING", "TXING_ACK"}
       => Waits(radio = "TX", {"TXDONE", "TXTIMEOUT"})
  /\ phase = "enter" /\ state \notin {"TXING", "TXING_ACK"}
       => radio = "SLEEP" /\ ~timer1 /\ Queued(Completions) = {}
  /\ phase = "fetch" =>
       /\ state \in {"RXING", "RXING_ACK"}
            => Waits(radio = "RX", {"RXMSG", "RXERROR", "RXTIMEOUT"})
       /\ state = "CAD" => Waits(radio = "CAD", {"CADDONE"})
       /\ state \in {"SKIPPING_ACK", "WAIT_SLOT_TX_ACK", "WAIT_BEFORE_LISTENING_FOR_ACK"}
            => Waits(timer1, {"TIMEOUT"})

(* The states in which the node sends a frame and listens for its ACK.     *)
Exchange == {"TXING", "WAIT_BEFORE_LISTENING_FOR_ACK", "RXING_ACK"}

(* Transmission is blocked for a reason: an exchange in progress, which    *)
(* ends by arming timer 2, or timer 2, which unblocks.  Otherwise nothing  *)
(* would ever clear txBlocked.  Conversely timer 2 runs only while blocked *)
(* and never during an exchange, in which it would unblock too early.      *)
BackoffReleases ==
  /\ txBlocked <=> (timer2 \/ state \in Exchange)
  /\ state \in Exchange => ~timer2

(* TXUNBLOCK makes IDLE transmit without a look at txBlocked, so none may  *)
(* be left over in IDLE once transmission is blocked again.                *)
NoStaleUnblock ==
  state = "IDLE" /\ phase = "fetch" /\ Queued({"TXUNBLOCK"}) # {} => ~txBlocked

(* Every message cmd_send accepted is in the tx queue, in the frame buffer *)
(* or waiting for its ACK until it is concluded, once: retries, listen     *)
(* before talk and receptions in between neither lose nor double it.       *)
PendingAccounted ==
  pending = Len(txQ) + (IF txFrameFilled THEN 1 ELSE 0)
            + (IF state \in Exchange \ {"TXING"} THEN 1 ELSE 0)

(* A frame is in the buffer exactly as long as it may still be tried, and  *)
(* while it is being transmitted.                                          *)
FrameWithinRetries ==
  /\ txFrameFilled => retryTxFrame < MaxTxRetry
  /\ state = "TXING" => txFrameFilled

(* In WAIT_SLOT_TX_ACK tryTxCurrent dereferences currentTxMsg and sends    *)
(* what it finds: that must be the ACK state_rxing prepared, whatever      *)
(* message was waiting for a retry when the frame came in.                 *)
AckReady == state = "WAIT_SLOT_TX_ACK" => currentTxMsg = "ack"

(* The transceiver is in the fixed length ACK format during an ACK, sent   *)
(* or awaited, by the state machine or by AT+PING, and in no other         *)
(* operation: standard frames would be missed for ever.                    *)
RadioFormat ==
  radio # "SLEEP" =>
    (radioCfg = "ACK" <=> state \in {"TXING_ACK", "RXING_ACK"} \/ phase = "pingRx")

(* The transceiver is half duplex: an operation is started only when it    *)
(* sleeps, never over one still in progress.                               *)
RadioStartsAsleep ==
  [][radio' # radio => radio = "SLEEP" \/ radio' = "SLEEP"]_vars

(* A connected node always comes back to IDLE, where it serves the         *)
(* application.                                                            *)
ReturnsToIdle == []<>((state = "IDLE" /\ phase = "fetch") \/ ~connected)

(* A message the application sent is concluded, sent or given up, within   *)
(* its retries, as long as the node stays connected.                       *)
MessagesConclude == pending > 0 ~> (pending = 0 \/ ~connected)

(* A command that a connected node accepted is processed, although its     *)
(* RXAT may have been lost to a full cold queue.  A disconnected node may  *)
(* sleep on: nothing makes up for a signal it missed.                      *)
CommandsServed == atcmdQ # <<>> /\ connected ~> atcmdQ = <<>> \/ ~connected

(* In push mode a connected node hands over what it received.              *)
PushDelivers ==
  (opMode = "PUSH" /\ rxQ > 0) ~> (rxQ = 0 \/ opMode = "PULL" \/ ~connected)
===============================================================================
