-------------------------- MODULE LowappCore_proofs --------------------------
(***************************************************************************)
(* Theorems about LowappCore, for every set of peers, every size of the    *)
(* queues, every number of retries and a radio that may stall.             *)
(*                                                                         *)
(* The argument is about who may be awaited.  An operation of the radio or *)
(* timer 1 in progress excludes a completion waiting in the event queue,   *)
(* and there is never more than one (WakeInv).  So nothing is left to wait *)
(* for when the machine enters IDLE or starts an operation, a completion   *)
(* is behind every older TXUNBLOCK (BackoffInv), and the format of the     *)
(* packets and the frame buffer follow the state (FormatInv, FrameInv).    *)
(***************************************************************************)
EXTENDS LowappCore, TLAPS

USE DEF smVars, queueVars, frameVars, timerVars, appVars, radioVars
-------------------------------------------------------------------------------
(* Types.                                                                  *)

(* What the callbacks post are events, of the type their name says.        *)
LEMMA PostedEvents ==
  /\ \A t \in {"STATE_ENTER", "TXDONE", "TXTIMEOUT", "RXERROR", "RXTIMEOUT",
               "CADTIMEOUT", "TIMEOUT", "TXUNBLOCK"} :
       Simple(t) \in Events /\ Simple(t).type = t
  /\ [type : {"RXMSG"}, data : FrameKinds] \subseteq Events
  /\ [type : {"CADDONE"}, data : {"busy", "clear"}] \subseteq Events
BY DEF Simple, Events

(* TypeOK, by the groups the actions change together.                      *)
SmTyped == state \in States /\ phase \in Phases /\ resume \in {"fetch", "tx"}

EventQTyped == eventQ \in Seq(Events) /\ Len(eventQ) <= EventQueueSize

ColdQTyped ==
  coldEventQ \in Seq({"RXAT", "TXREQ"}) /\ Len(coldEventQ) <= ColdQueueSize

AtcmdQTyped == atcmdQ \in Seq(Commands) /\ Len(atcmdQ) <= QueueSize

TxQTyped ==
  /\ txQ \in Seq(Dests) /\ Len(txQ) <= QueueSize
  /\ lastDestination \in Dests \cup {Self}

RxQTyped == rxQ \in 0 .. QueueSize

FrameTyped == currentTxMsg \in {"none", "std", "ack"} /\ txFrameFilled \in BOOLEAN

CountersTyped == retryTxFrame \in Nat /\ pending \in Int /\ budget \in Nat

TimersTyped ==
  /\ txBlocked \in BOOLEAN /\ timer1 \in BOOLEAN /\ timer2 \in BOOLEAN
  /\ cadTimer \in BOOLEAN /\ cadFlag \in BOOLEAN

AppTyped ==
  connected \in BOOLEAN /\ opMode \in {"PULL", "PUSH"} /\ notifying \in BOOLEAN

RadioTyped ==
  /\ radio \in {"SLEEP", "TX", "RX", "CAD"} /\ radioCfg \in {"STD", "ACK"}
  /\ radioFlags \in {"none", "TXDONE", "RXDONE", "RXERROR"}

(* Together they are TypeOK. *)
LEMMA TypesTogether ==
  TypeOK <=> /\ SmTyped /\ EventQTyped /\ ColdQTyped /\ AtcmdQTyped /\ TxQTyped
             /\ RxQTyped /\ FrameTyped /\ CountersTyped /\ TimersTyped
             /\ AppTyped /\ RadioTyped
BY DEF TypeOK, SmTyped, EventQTyped, ColdQTyped, AtcmdQTyped, TxQTyped, RxQTyped,
       FrameTyped, CountersTyped, TimersTyped, AppTyped, RadioTyped

(* A queue that is shortened or added to while it has room keeps its bound. *)
LEMMA BoundedTail ==
  ASSUME NEW S, NEW n \in Nat, NEW q \in Seq(S), Len(q) <= n, q # <<>>
  PROVE  Tail(q) \in Seq(S) /\ Len(Tail(q)) <= n /\ Head(q) \in S
OBVIOUS

LEMMA BoundedAppend ==
  ASSUME NEW S, NEW n \in Nat, NEW q \in Seq(S), Len(q) < n, NEW e \in S
  PROVE  Append(q, e) \in Seq(S) /\ Len(Append(q, e)) <= n
OBVIOUS

LEMMA BoundedEmpty ==
  ASSUME NEW S, NEW n \in Nat
  PROVE  <<>> \in Seq(S) /\ Len(<<>>) <= n
OBVIOUS

(* add_event keeps the type of the event queue, full or not. *)
LEMMA PostTyped ==
  ASSUME CoreAssumption, EventQTyped, NEW e \in Events, Post(e)
  PROVE  EventQTyped'
BY BoundedAppend DEF CoreAssumption, EventQTyped, Post

LEMMA FetchTyped ==
  ASSUME CoreAssumption, EventQTyped, eventQ # <<>>, eventQ' = Tail(eventQ)
  PROVE  EventQTyped'
BY BoundedTail DEF CoreAssumption, EventQTyped

LEMMA ResetTyped ==
  ASSUME CoreAssumption, eventQ' = <<Simple("STATE_ENTER")>>
  PROVE  EventQTyped'
<1>1. Simple("STATE_ENTER") \in Events
  BY PostedEvents
<1> QED BY <1>1 DEF CoreAssumption, EventQTyped

LEMMA PostColdTyped ==
  ASSUME CoreAssumption, ColdQTyped, NEW t \in {"RXAT", "TXREQ"}, PostCold(t)
  PROVE  ColdQTyped'
BY BoundedAppend DEF CoreAssumption, ColdQTyped, PostCold

LEMMA FetchColdTyped ==
  ASSUME CoreAssumption, ColdQTyped, coldEventQ # <<>>, coldEventQ' = Tail(coldEventQ)
  PROVE  ColdQTyped'
BY BoundedTail DEF CoreAssumption, ColdQTyped

LEMMA EmptyColdTyped ==
  ASSUME CoreAssumption, coldEventQ' = <<>>
  PROVE  ColdQTyped'
BY BoundedEmpty DEF CoreAssumption, ColdQTyped

LEMMA NextCommandTyped ==
  ASSUME CoreAssumption, AtcmdQTyped, atcmdQ # <<>>, atcmdQ' = Tail(atcmdQ)
  PROVE  AtcmdQTyped'
BY BoundedTail DEF CoreAssumption, AtcmdQTyped

LEMMA TrySendTxQ ==
  ASSUME CoreAssumption, TxQTyped, TrySend
  PROVE  TxQTyped'
<1>1. CASE TryTxFromQueue
  BY <1>1, BoundedTail DEF CoreAssumption, TxQTyped, TryTxFromQueue
<1>2. CASE UNCHANGED <<txQ, lastDestination>>
  BY <1>2 DEF TxQTyped
<1> QED BY <1>1, <1>2 DEF TrySend

(* The destination of a message cmd_send accepts is one. *)
LEMMA CommandDest ==
  ASSUME AtcmdQTyped, atcmdQ # <<>>, Head(atcmdQ).op \in {"SEND"}
  PROVE  Head(atcmdQ).dest \in Dests
BY BoundedTail DEF AtcmdQTyped, Commands

(* The state and the phase. *)
LEMMA SmTypedStep ==
  ASSUME CoreAssumption, SmTyped, Next
  PROVE  SmTyped'
<1>1. CASE IdleEnter \/ IdleTx \/ IdleTxUnblock \/ IdleTxReq \/ IdleRxAt \/
           IdleCadTimeout
  BY <1>1 DEF SmTyped, IdleEnter, IdleTx, TrySend, TryTxFromQueue, TryTxFrame,
     StartTx, PutOff, GiveUp, IdleTxUnblock, Fetch, IdleTxReq, FetchCold,
     IdleRxAt, IdleCadTimeout, Goto, Stay, States, Phases
<1>2. CASE CommandsDone \/ CmdSend \/ CmdPollRx \/ CmdSetMode \/ CmdDisconnect
           \/ CmdConnect \/ CmdReset \/ CmdPing \/ PingSent \/ PingOver
  BY <1>2 DEF SmTyped, CommandsDone, CmdSend, NextCommand, CmdPollRx,
     CmdSetMode, CmdDisconnect, CmdConnect, CmdReset, CmdPing, PingSent,
     PingOver, Phases, States
<1>3. CASE RestartEnter \/ IgnoreEvent \/ TxingEnter \/ WaitEnter \/ RxingEnter
           \/ RxingAckEnter \/ CadEnter \/ CadDone \/ RxingMsg \/ RxingFails \/
           SkippingTimeout \/ SendAck \/ TxingAckOver \/ TxingDone \/
           TxingTimeout \/ WaitBeforeTimeout \/ RxingAckOver
  BY <1>3 DEF SmTyped, RestartEnter, Fetch, IgnoreEvent, TxingEnter, WaitEnter,
     RxingEnter, RxingAckEnter, CadEnter, CadDone, RxingMsg, RxingFails,
     SkippingTimeout, SendAck, TxingAckOver, TxingDone, TxingTimeout,
     WaitBeforeTimeout, RxingAckOver, Goto, Stay, States, Phases
<1>4. CASE RadioTxEnds \/ RadioRxEnds \/ RadioCadEnds \/ RadioPingEnds \/
           RadioStalls \/ Timer1Expires \/ Timer2Expires \/ CadTimerExpires \/
           AppCommand \/ AppNotify
  BY <1>4 DEF SmTyped, RadioTxEnds, RadioEnds, RadioRxEnds, RadioCadEnds,
     RadioPingEnds, RadioStalls, Timer1Expires, Timer2Expires, CadTimerExpires,
     AppCommand, AppNotify
<1> QED BY <1>1, <1>2, <1>3, <1>4 DEF Next, SmRun, RadioCallbacks

(* The event queue. *)
LEMMA EventQTypedStep ==
  ASSUME CoreAssumption, EventQTyped, Next
  PROVE  EventQTyped'
<1>1. CASE IgnoreEvent \/ IdleTxUnblock \/ IdleCadTimeout \/ RestartEnter \/
           CadDone \/ RxingMsg \/ RxingFails \/ SkippingTimeout \/ SendAck \/
           TxingAckOver \/ TxingDone \/ TxingTimeout \/ WaitBeforeTimeout \/
           RxingAckOver
  BY <1>1, FetchTyped DEF EventQTyped, IgnoreEvent, IdleTxUnblock, Fetch,
     TrySend, TryTxFromQueue, TryTxFrame, StartTx, PutOff, GiveUp,
     IdleCadTimeout, RestartEnter, CadDone, RxingMsg, RxingFails,
     SkippingTimeout, SendAck, TxingAckOver, TxingDone, TxingTimeout,
     WaitBeforeTimeout, RxingAckOver
<1>2. CASE CmdReset
  BY <1>2, ResetTyped DEF EventQTyped, CmdReset, NextCommand
<1>3. CASE RadioTxEnds \/ RadioRxEnds \/ RadioCadEnds \/ Timer1Expires \/
           Timer2Expires \/ CadTimerExpires
  BY <1>3, PostTyped, PostedEvents DEF EventQTyped, RadioTxEnds, RadioEnds,
     RadioRxEnds, RadioCadEnds, Timer1Expires, Timer2Expires, CadTimerExpires
<1>4. CASE IdleEnter \/ IdleTx \/ IdleTxReq \/ IdleRxAt \/ CommandsDone \/
           CmdSend \/ CmdPollRx \/ CmdSetMode \/ CmdDisconnect \/ CmdConnect \/
           CmdPing \/ PingSent \/ PingOver \/ TxingEnter \/ WaitEnter \/
           RxingEnter \/ RxingAckEnter \/ CadEnter \/ RadioPingEnds \/
           RadioStalls \/ AppCommand \/ AppNotify
  BY <1>4 DEF EventQTyped, IdleEnter, IdleTx, TrySend, TryTxFromQueue,
     TryTxFrame, StartTx, PutOff, GiveUp, IdleTxReq, FetchCold, IdleRxAt,
     CommandsDone, CmdSend, NextCommand, CmdPollRx, CmdSetMode, CmdDisconnect,
     CmdConnect, CmdPing, PingSent, PingOver, TxingEnter, WaitEnter,
     RxingEnter, RxingAckEnter, CadEnter, RadioPingEnds, RadioStalls,
     AppCommand, AppNotify
<1> QED BY <1>1, <1>2, <1>3, <1>4 DEF Next, SmRun, RadioCallbacks

(* The cold queue. *)
LEMMA ColdQTypedStep ==
  ASSUME CoreAssumption, ColdQTyped, Next
  PROVE  ColdQTyped'
<1>1. CASE IdleTxReq \/ IdleRxAt
  BY <1>1, FetchColdTyped DEF ColdQTyped, IdleTxReq, FetchCold, TrySend,
     TryTxFromQueue, TryTxFrame, StartTx, PutOff, GiveUp, IdleRxAt
<1>2. CASE CmdReset
  BY <1>2, EmptyColdTyped DEF ColdQTyped, CmdReset, NextCommand
<1>3. CASE CmdSend \/ AppNotify
  BY <1>3, PostColdTyped DEF ColdQTyped, CmdSend, NextCommand, AppNotify
<1>4. CASE IdleEnter \/ IdleTx \/ IdleTxUnblock \/ IdleCadTimeout \/
           CommandsDone \/ CmdPollRx \/ CmdSetMode \/ CmdDisconnect \/
           CmdConnect \/ CmdPing \/ PingSent \/ PingOver \/ RestartEnter \/
           IgnoreEvent \/ TxingEnter \/ WaitEnter \/ RxingEnter \/
           RxingAckEnter \/ CadEnter \/ CadDone \/ RxingMsg \/ RxingFails \/
           SkippingTimeout \/ SendAck \/ TxingAckOver \/ TxingDone \/
           TxingTimeout \/ WaitBeforeTimeout \/ RxingAckOver \/ RadioTxEnds \/
           RadioRxEnds \/ RadioCadEnds \/ RadioPingEnds \/ RadioStalls \/
           Timer1Expires \/ Timer2Expires \/ CadTimerExpires \/ AppCommand
  BY <1>4 DEF ColdQTyped, IdleEnter, IdleTx, TrySend, TryTxFromQueue,
     TryTxFrame, StartTx, PutOff, GiveUp, IdleTxUnblock, Fetch, IdleCadTimeout,
     CommandsDone, CmdPollRx, NextCommand, CmdSetMode, CmdDisconnect,
     CmdConnect, CmdPing, PingSent, PingOver, RestartEnter, IgnoreEvent,
     TxingEnter, WaitEnter, RxingEnter, RxingAckEnter, CadEnter, CadDone,
     RxingMsg, RxingFails, SkippingTimeout, SendAck, TxingAckOver, TxingDone,
     TxingTimeout, WaitBeforeTimeout, RxingAckOver, RadioTxEnds, RadioEnds,
     RadioRxEnds, RadioCadEnds, RadioPingEnds, RadioStalls, Timer1Expires,
     Timer2Expires, CadTimerExpires, AppCommand
<1> QED BY <1>1, <1>2, <1>3, <1>4 DEF Next, SmRun, RadioCallbacks

(* The command queue. *)
LEMMA AtcmdQTypedStep ==
  ASSUME CoreAssumption, AtcmdQTyped, Next
  PROVE  AtcmdQTyped'
<1>1. CASE AppCommand
  BY <1>1, BoundedAppend DEF AtcmdQTyped, AppCommand, CoreAssumption
<1>2. CASE CmdSend \/ CmdPollRx \/ CmdSetMode \/ CmdDisconnect \/ CmdConnect \/
           CmdPing
  BY <1>2, NextCommandTyped DEF AtcmdQTyped, CmdSend, NextCommand, CmdPollRx,
     CmdSetMode, CmdDisconnect, CmdConnect, CmdPing
<1>3. CASE CmdReset
  BY <1>3, BoundedEmpty DEF AtcmdQTyped, CmdReset, NextCommand, CoreAssumption
<1>4. CASE IdleEnter \/ IdleTx \/ IdleTxUnblock \/ IdleTxReq \/ IdleRxAt \/
           IdleCadTimeout \/ CommandsDone \/ PingSent \/ PingOver \/
           RestartEnter \/ IgnoreEvent \/ TxingEnter \/ WaitEnter \/ RxingEnter
           \/ RxingAckEnter \/ CadEnter \/ CadDone \/ RxingMsg \/ RxingFails \/
           SkippingTimeout \/ SendAck \/ TxingAckOver \/ TxingDone \/
           TxingTimeout \/ WaitBeforeTimeout \/ RxingAckOver \/ RadioTxEnds \/
           RadioRxEnds \/ RadioCadEnds \/ RadioPingEnds \/ RadioStalls \/
           Timer1Expires \/ Timer2Expires \/ CadTimerExpires \/ AppNotify
  BY <1>4 DEF AtcmdQTyped, IdleEnter, IdleTx, TrySend, TryTxFromQueue,
     TryTxFrame, StartTx, PutOff, GiveUp, IdleTxUnblock, Fetch, IdleTxReq,
     FetchCold, IdleRxAt, IdleCadTimeout, CommandsDone, PingSent, PingOver,
     RestartEnter, IgnoreEvent, TxingEnter, WaitEnter, RxingEnter,
     RxingAckEnter, CadEnter, CadDone, RxingMsg, RxingFails, SkippingTimeout,
     SendAck, TxingAckOver, TxingDone, TxingTimeout, WaitBeforeTimeout,
     RxingAckOver, RadioTxEnds, RadioEnds, RadioRxEnds, RadioCadEnds,
     RadioPingEnds, RadioStalls, Timer1Expires, Timer2Expires, CadTimerExpires,
     AppNotify
<1> QED BY <1>1, <1>2, <1>3, <1>4 DEF Next, SmRun, RadioCallbacks

(* The tx queue and the destination taken from it. *)
LEMMA TxQTypedStep ==
  ASSUME CoreAssumption, AtcmdQTyped, TxQTyped, Next
  PROVE  TxQTyped'
<1>1. CASE IdleTx \/ IdleTxUnblock \/ IdleTxReq
  BY <1>1, TrySendTxQ DEF TxQTyped, IdleTx, Stay, IdleTxUnblock, Fetch,
     IdleTxReq, FetchCold
<1>2. CASE CmdSend
  BY SMTT(30), <1>2, BoundedAppend, CommandDest DEF TxQTyped, CmdSend, NextCommand,
     CoreAssumption
<1>3. CASE CmdReset
  BY <1>3, BoundedEmpty DEF TxQTyped, CmdReset, NextCommand, CoreAssumption
<1>4. CASE IdleEnter \/ IdleRxAt \/ IdleCadTimeout \/ CommandsDone \/ CmdPollRx
           \/ CmdSetMode \/ CmdDisconnect \/ CmdConnect \/ CmdPing \/ PingSent
           \/ PingOver \/ RestartEnter \/ IgnoreEvent \/ TxingEnter \/
           WaitEnter \/ RxingEnter \/ RxingAckEnter \/ CadEnter \/ CadDone \/
           RxingMsg \/ RxingFails \/ SkippingTimeout \/ SendAck \/ TxingAckOver
           \/ TxingDone \/ TxingTimeout \/ WaitBeforeTimeout \/ RxingAckOver \/
           RadioTxEnds \/ RadioRxEnds \/ RadioCadEnds \/ RadioPingEnds \/
           RadioStalls \/ Timer1Expires \/ Timer2Expires \/ CadTimerExpires \/
           AppCommand \/ AppNotify
  BY <1>4 DEF TxQTyped, IdleEnter, IdleRxAt, FetchCold, IdleCadTimeout, Fetch,
     CommandsDone, CmdPollRx, NextCommand, CmdSetMode, CmdDisconnect,
     CmdConnect, CmdPing, PingSent, PingOver, RestartEnter, IgnoreEvent,
     TxingEnter, WaitEnter, RxingEnter, RxingAckEnter, CadEnter, CadDone,
     RxingMsg, RxingFails, SkippingTimeout, SendAck, TxingAckOver, TxingDone,
     TxingTimeout, WaitBeforeTimeout, RxingAckOver, RadioTxEnds, RadioEnds,
     RadioRxEnds, RadioCadEnds, RadioPingEnds, RadioStalls, Timer1Expires,
     Timer2Expires, CadTimerExpires, AppCommand, AppNotify
<1> QED BY <1>1, <1>2, <1>3, <1>4 DEF Next, SmRun, RadioCallbacks

(* The rx queue. *)
LEMMA RxQTypedStep ==
  ASSUME CoreAssumption, RxQTyped, Next
  PROVE  RxQTyped'
<1>1. CASE IdleTx \/ CmdReset \/ CmdPollRx \/ RxingMsg
  BY <1>1 DEF RxQTyped, IdleTx, TrySend, TryTxFromQueue, TryTxFrame, StartTx,
     PutOff, GiveUp, CmdReset, NextCommand, CmdPollRx, RxingMsg, Fetch, PushRx,
     CoreAssumption
<1>2. CASE IdleEnter \/ IdleTxUnblock \/ IdleTxReq \/ IdleRxAt \/
           IdleCadTimeout \/ CommandsDone \/ CmdSend \/ CmdSetMode \/
           CmdDisconnect \/ CmdConnect \/ CmdPing \/ PingSent \/ PingOver \/
           RestartEnter \/ IgnoreEvent \/ TxingEnter \/ WaitEnter \/ RxingEnter
           \/ RxingAckEnter \/ CadEnter \/ CadDone \/ RxingFails \/
           SkippingTimeout \/ SendAck \/ TxingAckOver \/ TxingDone \/
           TxingTimeout \/ WaitBeforeTimeout \/ RxingAckOver \/ RadioTxEnds \/
           RadioRxEnds \/ RadioCadEnds \/ RadioPingEnds \/ RadioStalls \/
           Timer1Expires \/ Timer2Expires \/ CadTimerExpires \/ AppCommand \/
           AppNotify
  BY <1>2 DEF RxQTyped, IdleEnter, IdleTxUnblock, Fetch, TrySend,
     TryTxFromQueue, TryTxFrame, StartTx, PutOff, GiveUp, IdleTxReq, FetchCold,
     IdleRxAt, IdleCadTimeout, CommandsDone, CmdSend, NextCommand, CmdSetMode,
     CmdDisconnect, CmdConnect, CmdPing, PingSent, PingOver, RestartEnter,
     IgnoreEvent, TxingEnter, WaitEnter, RxingEnter, RxingAckEnter, CadEnter,
     CadDone, RxingFails, SkippingTimeout, SendAck, TxingAckOver, TxingDone,
     TxingTimeout, WaitBeforeTimeout, RxingAckOver, RadioTxEnds, RadioEnds,
     RadioRxEnds, RadioCadEnds, RadioPingEnds, RadioStalls, Timer1Expires,
     Timer2Expires, CadTimerExpires, AppCommand, AppNotify
<1> QED BY <1>1, <1>2 DEF Next, SmRun, RadioCallbacks

(* The frame buffer. *)
LEMMA FrameTypedStep ==
  ASSUME CoreAssumption, FrameTyped, Next
  PROVE  FrameTyped'
<1>1. CASE IdleTx \/ IdleTxUnblock \/ IdleTxReq
  BY <1>1 DEF FrameTyped, IdleTx, TrySend, TryTxFromQueue, TryTxFrame, StartTx,
     PutOff, GiveUp, IdleTxUnblock, Fetch, IdleTxReq, FetchCold, Stay
<1>2. CASE CadDone \/ RxingMsg \/ RxingFails \/ SkippingTimeout \/ SendAck \/
           TxingAckOver \/ TxingDone \/ TxingTimeout \/ WaitBeforeTimeout \/
           RxingAckOver
  BY <1>2 DEF FrameTyped, CadDone, Fetch, RxingMsg, RxingFails,
     SkippingTimeout, SendAck, TxingAckOver, TxingDone, TxingTimeout,
     WaitBeforeTimeout, RxingAckOver, PrepareAck
<1>3. CASE CmdReset
  BY <1>3 DEF FrameTyped, CmdReset, NextCommand
<1>4. CASE IdleEnter \/ IdleRxAt \/ IdleCadTimeout \/ CommandsDone \/ CmdSend
           \/ CmdPollRx \/ CmdSetMode \/ CmdDisconnect \/ CmdConnect \/ CmdPing
           \/ PingSent \/ PingOver \/ RestartEnter \/ IgnoreEvent \/ TxingEnter
           \/ WaitEnter \/ RxingEnter \/ RxingAckEnter \/ CadEnter \/
           RadioTxEnds \/ RadioRxEnds \/ RadioCadEnds \/ RadioPingEnds \/
           RadioStalls \/ Timer1Expires \/ Timer2Expires \/ CadTimerExpires \/
           AppCommand \/ AppNotify
  BY <1>4 DEF FrameTyped, IdleEnter, IdleRxAt, FetchCold, IdleCadTimeout,
     Fetch, CommandsDone, CmdSend, NextCommand, CmdPollRx, CmdSetMode,
     CmdDisconnect, CmdConnect, CmdPing, PingSent, PingOver, RestartEnter,
     IgnoreEvent, TxingEnter, WaitEnter, RxingEnter, RxingAckEnter, CadEnter,
     RadioTxEnds, RadioEnds, RadioRxEnds, RadioCadEnds, RadioPingEnds,
     RadioStalls, Timer1Expires, Timer2Expires, CadTimerExpires, AppCommand,
     AppNotify
<1> QED BY <1>1, <1>2, <1>3, <1>4 DEF Next, SmRun, RadioCallbacks

(* The counters. *)
LEMMA CountersTypedStep ==
  ASSUME CoreAssumption, CountersTyped, Next
  PROVE  CountersTyped'
<1>1. CASE IdleTx \/ IdleTxUnblock \/ IdleTxReq
  BY <1>1 DEF CountersTyped, IdleTx, TrySend, TryTxFromQueue, TryTxFrame,
     StartTx, PutOff, GiveUp, IdleTxUnblock, Fetch, IdleTxReq, FetchCold, Stay
<1>2. CASE TxingDone \/ TxingTimeout \/ RxingAckOver \/ CmdSend
  BY <1>2 DEF CountersTyped, TxingDone, Fetch, TxingTimeout, RxingAckOver,
     CmdSend, NextCommand
<1>3. CASE CmdReset \/ AppCommand
  BY <1>3 DEF CountersTyped, CmdReset, NextCommand, AppCommand
<1>4. CASE IdleEnter \/ IdleRxAt \/ IdleCadTimeout \/ CommandsDone \/ CmdPollRx
           \/ CmdSetMode \/ CmdDisconnect \/ CmdConnect \/ CmdPing \/ PingSent
           \/ PingOver \/ RestartEnter \/ IgnoreEvent \/ TxingEnter \/
           WaitEnter \/ RxingEnter \/ RxingAckEnter \/ CadEnter \/ CadDone \/
           RxingMsg \/ RxingFails \/ SkippingTimeout \/ SendAck \/ TxingAckOver
           \/ WaitBeforeTimeout \/ RadioTxEnds \/ RadioRxEnds \/ RadioCadEnds
           \/ RadioPingEnds \/ RadioStalls \/ Timer1Expires \/ Timer2Expires \/
           CadTimerExpires \/ AppNotify
  BY <1>4 DEF CountersTyped, IdleEnter, IdleRxAt, FetchCold, IdleCadTimeout,
     Fetch, CommandsDone, CmdPollRx, NextCommand, CmdSetMode, CmdDisconnect,
     CmdConnect, CmdPing, PingSent, PingOver, RestartEnter, IgnoreEvent,
     TxingEnter, WaitEnter, RxingEnter, RxingAckEnter, CadEnter, CadDone,
     RxingMsg, RxingFails, SkippingTimeout, SendAck, TxingAckOver,
     WaitBeforeTimeout, RadioTxEnds, RadioEnds, RadioRxEnds, RadioCadEnds,
     RadioPingEnds, RadioStalls, Timer1Expires, Timer2Expires, CadTimerExpires,
     AppNotify
<1> QED BY <1>1, <1>2, <1>3, <1>4 DEF Next, SmRun, RadioCallbacks

(* The timers. *)
LEMMA TimersTypedStep ==
  ASSUME CoreAssumption, TimersTyped, Next
  PROVE  TimersTyped'
<1>1. CASE IdleTx \/ IdleTxUnblock \/ IdleTxReq
  BY <1>1 DEF TimersTyped, IdleTx, TrySend, TryTxFromQueue, TryTxFrame,
     StartTx, PutOff, GiveUp, IdleTxUnblock, Fetch, IdleTxReq, FetchCold,
     BlockTx
<1>2. CASE TxingDone \/ TxingTimeout \/ RxingAckOver
  BY <1>2 DEF TimersTyped, TxingDone, Fetch, TxingTimeout, RxingAckOver,
     BlockTx
<1>3. CASE IdleEnter \/ IdleRxAt \/ IdleCadTimeout \/ CommandsDone \/ CmdSend
           \/ CmdPollRx \/ CmdSetMode \/ CmdDisconnect \/ CmdConnect \/
           CmdReset \/ CmdPing \/ PingSent \/ PingOver \/ RestartEnter \/
           IgnoreEvent \/ TxingEnter \/ WaitEnter \/ RxingEnter \/
           RxingAckEnter \/ CadEnter \/ CadDone \/ RxingMsg \/ RxingFails \/
           SkippingTimeout \/ SendAck \/ TxingAckOver \/ WaitBeforeTimeout \/
           RadioTxEnds \/ RadioRxEnds \/ RadioCadEnds \/ RadioPingEnds \/
           RadioStalls \/ Timer1Expires \/ Timer2Expires \/ CadTimerExpires \/
           AppCommand \/ AppNotify
  BY ZenonT(30), <1>3 DEF TimersTyped, IdleEnter, IdleRxAt, FetchCold, IdleCadTimeout,
     Fetch, CommandsDone, CmdSend, NextCommand, CmdPollRx, CmdSetMode,
     CmdDisconnect, CmdConnect, CmdReset, CmdPing, PingSent, PingOver,
     RestartEnter, IgnoreEvent, TxingEnter, WaitEnter, RxingEnter,
     RxingAckEnter, CadEnter, CadDone, RxingMsg, RxingFails, SkippingTimeout,
     SendAck, TxingAckOver, WaitBeforeTimeout, RadioTxEnds, RadioEnds,
     RadioRxEnds, RadioCadEnds, RadioPingEnds, RadioStalls, Timer1Expires,
     Timer2Expires, CadTimerExpires, AppCommand, AppNotify
<1> QED BY <1>1, <1>2, <1>3 DEF Next, SmRun, RadioCallbacks

(* What the application sets. *)
LEMMA AppTypedStep ==
  ASSUME CoreAssumption, AppTyped, Next
  PROVE  AppTyped'
<1>1. CASE CommandsDone \/ CmdSend \/ CmdPollRx \/ CmdSetMode \/ CmdDisconnect
           \/ CmdConnect \/ CmdReset \/ CmdPing \/ PingSent \/ PingOver
  BY <1>1 DEF AppTyped, CommandsDone, CmdSend, NextCommand, CmdPollRx,
     CmdSetMode, CmdDisconnect, CmdConnect, CmdReset, CmdPing, PingSent,
     PingOver
<1>2. CASE Timer1Expires \/ Timer2Expires \/ CadTimerExpires \/ AppCommand \/
           AppNotify
  BY <1>2 DEF AppTyped, Timer1Expires, Timer2Expires, CadTimerExpires,
     AppCommand, AppNotify
<1>3. CASE IdleEnter \/ IdleTx \/ IdleTxUnblock \/ IdleTxReq \/ IdleRxAt \/
           IdleCadTimeout \/ RestartEnter \/ IgnoreEvent \/ TxingEnter \/
           WaitEnter \/ RxingEnter \/ RxingAckEnter \/ CadEnter \/ CadDone \/
           RxingMsg \/ RxingFails \/ SkippingTimeout \/ SendAck \/ TxingAckOver
           \/ TxingDone \/ TxingTimeout \/ WaitBeforeTimeout \/ RxingAckOver \/
           RadioTxEnds \/ RadioRxEnds \/ RadioCadEnds \/ RadioPingEnds \/
           RadioStalls
  BY <1>3 DEF AppTyped, IdleEnter, IdleTx, TrySend, TryTxFromQueue, TryTxFrame,
     StartTx, PutOff, GiveUp, IdleTxUnblock, Fetch, IdleTxReq, FetchCold,
     IdleRxAt, IdleCadTimeout, RestartEnter, IgnoreEvent, TxingEnter,
     WaitEnter, RxingEnter, RxingAckEnter, CadEnter, CadDone, RxingMsg,
     RxingFails, SkippingTimeout, SendAck, TxingAckOver, TxingDone,
     TxingTimeout, WaitBeforeTimeout, RxingAckOver, RadioTxEnds, RadioEnds,
     RadioRxEnds, RadioCadEnds, RadioPingEnds, RadioStalls
<1> QED BY <1>1, <1>2, <1>3 DEF Next, SmRun, RadioCallbacks

(* The radio. *)
LEMMA RadioTypedStep ==
  ASSUME CoreAssumption, RadioTyped, Next
  PROVE  RadioTyped'
<1>1. CASE CommandsDone \/ CmdSend \/ CmdPollRx \/ CmdSetMode \/ CmdDisconnect
           \/ CmdConnect \/ CmdReset \/ CmdPing \/ PingSent \/ PingOver \/
           CadDone \/ RxingMsg \/ RxingFails \/ SkippingTimeout \/ SendAck \/
           TxingAckOver \/ TxingDone \/ TxingTimeout \/ WaitBeforeTimeout \/
           RxingAckOver
  BY <1>1 DEF RadioTyped, CommandsDone, CmdSend, NextCommand, CmdPollRx,
     CmdSetMode, CmdDisconnect, CmdConnect, CmdReset, CmdPing, PingSent,
     PingOver, CadDone, Fetch, RxingMsg, RxingFails, SkippingTimeout, SendAck,
     TxingAckOver, TxingDone, TxingTimeout, WaitBeforeTimeout, RxingAckOver,
     StdFormat
<1>2. CASE IdleEnter \/ IdleTx \/ IdleTxUnblock \/ IdleTxReq \/ IdleRxAt \/
           IdleCadTimeout \/ RestartEnter \/ IgnoreEvent \/ TxingEnter \/
           WaitEnter \/ RxingEnter \/ RxingAckEnter \/ CadEnter \/ RadioTxEnds
           \/ RadioRxEnds \/ RadioCadEnds \/ RadioPingEnds \/ RadioStalls \/
           Timer1Expires \/ Timer2Expires \/ CadTimerExpires \/ AppCommand \/
           AppNotify
  BY <1>2 DEF RadioTyped, IdleEnter, IdleTx, TrySend, TryTxFromQueue,
     TryTxFrame, StartTx, PutOff, GiveUp, IdleTxUnblock, Fetch, IdleTxReq,
     FetchCold, IdleRxAt, IdleCadTimeout, RestartEnter, IgnoreEvent,
     TxingEnter, WaitEnter, RxingEnter, RxingAckEnter, CadEnter, RadioTxEnds,
     RadioEnds, RadioRxEnds, RadioCadEnds, RadioPingEnds, RadioStalls,
     Timer1Expires, Timer2Expires, CadTimerExpires, AppCommand, AppNotify
<1> QED BY <1>1, <1>2 DEF Next, SmRun, RadioCallbacks

LEMMA TypeInit ==
  ASSUME CoreAssumption, Init
  PROVE  TypeOK
<1>1. SmTyped /\ FrameTyped /\ AppTyped /\ RadioTyped
  BY DEF Init, SmTyped, FrameTyped, AppTyped, RadioTyped, States, Phases
<1>2. TimersTyped
  BY DEF Init, TimersTyped
<1>3. CountersTyped
  BY DEF Init, CoreAssumption, CountersTyped
<1>4. EventQTyped
  BY PostedEvents DEF Init, CoreAssumption, EventQTyped
<1>5. ColdQTyped /\ AtcmdQTyped /\ TxQTyped /\ RxQTyped
  BY BoundedEmpty DEF Init, CoreAssumption, ColdQTyped, AtcmdQTyped, TxQTyped,
     RxQTyped
<1> QED BY <1>1, <1>2, <1>3, <1>4, <1>5, TypesTogether

LEMMA TypeStep ==
  ASSUME CoreAssumption, TypeOK, Next
  PROVE  TypeOK'
<1> USE TypesTogether
<1>1. SmTyped' /\ EventQTyped' /\ ColdQTyped' /\ AtcmdQTyped' /\ TxQTyped'
  BY SmTypedStep, EventQTypedStep, ColdQTypedStep, AtcmdQTypedStep, TxQTypedStep
<1>2. RxQTyped' /\ FrameTyped' /\ CountersTyped'
  BY RxQTypedStep, FrameTypedStep, CountersTypedStep
<1>3. TimersTyped' /\ AppTyped' /\ RadioTyped'
  BY TimersTypedStep, AppTypedStep, RadioTypedStep
<1> QED
  BY <1>1, <1>2, <1>3
  DEF TypeOK, SmTyped, EventQTyped, ColdQTyped, AtcmdQTyped, TxQTyped, RxQTyped,
      FrameTyped, CountersTyped, TimersTyped, AppTyped, RadioTyped

(* The variables of a node always have the types their declarations give   *)
(* them, and no queue of lowapp_utils_queue.c ever holds more than MAXQSZ  *)
(* entries.                                                                *)
THEOREM TypeCorrect == Spec => []TypeOK
<1>1. Init => TypeOK
  BY CoreAssumption, TypeInit
<1>2. TypeOK /\ [Next]_vars => TypeOK'
  <2>1. TypeOK /\ Next => TypeOK'
    BY CoreAssumption, TypeStep
  <2>2. TypeOK /\ UNCHANGED vars => TypeOK'
    BY DEF vars, TypeOK
  <2> QED BY <2>1, <2>2
<1> QED BY <1>1, <1>2, PTL DEF Spec
-------------------------------------------------------------------------------
(* Completions.  The predicates on the event queue, and what add_event and *)
(* get_event do to them.                                                   *)

CompletionWaiting == \E i \in DOMAIN eventQ : eventQ[i].type \in Completions

OneCompletion ==
  \A i, j \in DOMAIN eventQ :
    eventQ[i].type \in Completions /\ eventQ[j].type \in Completions => i = j

UnblockWaiting == \E i \in DOMAIN eventQ : eventQ[i].type = "TXUNBLOCK"

UnblockFirst ==
  \A i, j \in DOMAIN eventQ :
    eventQ[i].type = "TXUNBLOCK" /\ eventQ[j].type \in Completions => i < j

LEMMA EventTypes ==
  /\ "CADTIMEOUT" \notin Completions /\ "TXUNBLOCK" \notin Completions
  /\ "STATE_ENTER" \notin Completions
  /\ Completions = {"TXDONE", "TXTIMEOUT", "RXMSG", "RXERROR", "RXTIMEOUT",
                    "CADDONE", "TIMEOUT"}
BY DEF Completions

(* add_event, which may drop the event. *)
LEMMA Posted ==
  ASSUME TypeOK, CoreAssumption, NEW e \in Events, Post(e)
  PROVE  /\ ~CompletionWaiting => OneCompletion'
         /\ OneCompletion /\ e.type \notin Completions => OneCompletion'
         /\ CompletionWaiting' => CompletionWaiting \/ e.type \in Completions
         /\ UnblockFirst /\ e.type # "TXUNBLOCK" => UnblockFirst'
         /\ UnblockWaiting' => UnblockWaiting \/ e.type = "TXUNBLOCK"
<1>1. CASE UNCHANGED eventQ
  BY <1>1 DEF OneCompletion, CompletionWaiting, UnblockFirst, UnblockWaiting
<1>2. CASE eventQ' = Append(eventQ, e)
  <2>1. /\ eventQ \in Seq(Events)
        /\ DOMAIN eventQ = 1 .. Len(eventQ) /\ DOMAIN eventQ' = 1 .. Len(eventQ) + 1
        /\ Len(eventQ) \in Nat
        /\ \A i \in 1 .. Len(eventQ) : eventQ'[i] = eventQ[i]
        /\ eventQ'[Len(eventQ) + 1] = e
    BY <1>2 DEF TypeOK
  <2>2. \A i \in DOMAIN eventQ' :
           \/ i = Len(eventQ) + 1 /\ eventQ'[i] = e
           \/ i \in DOMAIN eventQ /\ i < Len(eventQ) + 1 /\ eventQ'[i] = eventQ[i]
    BY <2>1
  <2>3. "TXUNBLOCK" \notin Completions
    BY DEF Completions
  <2> HIDE <1>2
  <2>4. ~CompletionWaiting => OneCompletion'
    BY <2>2 DEF CompletionWaiting, OneCompletion
  <2>5. OneCompletion /\ e.type \notin Completions => OneCompletion'
    BY <2>2 DEF OneCompletion
  <2>6. CompletionWaiting' => CompletionWaiting \/ e.type \in Completions
    BY <2>2 DEF CompletionWaiting
  <2>7. UnblockFirst /\ e.type # "TXUNBLOCK" => UnblockFirst'
    BY <2>1, <2>2, <2>3 DEF UnblockFirst
  <2>8. UnblockWaiting' => UnblockWaiting \/ e.type = "TXUNBLOCK"
    BY <2>2 DEF UnblockWaiting
  <2> QED BY <2>4, <2>5, <2>6, <2>7, <2>8
<1> QED BY <1>1, <1>2 DEF Post

(* get_event: what is taken first was behind nothing. *)
LEMMA Fetched ==
  ASSUME TypeOK, eventQ # <<>>, eventQ' = Tail(eventQ)
  PROVE  /\ OneCompletion => OneCompletion'
         /\ CompletionWaiting' => CompletionWaiting
         /\ UnblockFirst => UnblockFirst'
         /\ UnblockWaiting' => UnblockWaiting
         /\ Head(eventQ).type = "TXUNBLOCK" => UnblockWaiting
         /\ Head(eventQ).type \in Completions =>
              /\ CompletionWaiting
              /\ OneCompletion => ~CompletionWaiting'
              /\ UnblockFirst => ~UnblockWaiting'
<1>1. /\ 1 \in DOMAIN eventQ /\ eventQ[1] = Head(eventQ)
      /\ \A i \in DOMAIN eventQ' : /\ i \in Nat /\ i > 0 /\ i + 1 \in DOMAIN eventQ
                                   /\ eventQ'[i] = eventQ[i + 1]
  BY DEF TypeOK
<1>2. OneCompletion => OneCompletion'
  BY <1>1 DEF OneCompletion
<1>3. CompletionWaiting' => CompletionWaiting
  BY <1>1 DEF CompletionWaiting
<1>4. UnblockFirst => UnblockFirst'
  BY <1>1 DEF UnblockFirst
<1>5. UnblockWaiting' => UnblockWaiting
  BY <1>1 DEF UnblockWaiting
<1>6. Head(eventQ).type = "TXUNBLOCK" => UnblockWaiting
  BY <1>1 DEF UnblockWaiting
<1>7. ASSUME Head(eventQ).type \in Completions
      PROVE  /\ CompletionWaiting
             /\ OneCompletion => ~CompletionWaiting'
             /\ UnblockFirst => ~UnblockWaiting'
  BY <1>1, <1>7 DEF CompletionWaiting, OneCompletion, UnblockWaiting, UnblockFirst
<1> QED BY <1>2, <1>3, <1>4, <1>5, <1>6, <1>7

LEMMA SameQueue ==
  ASSUME UNCHANGED eventQ
  PROVE  /\ OneCompletion' = OneCompletion /\ UnblockFirst' = UnblockFirst
         /\ CompletionWaiting' = CompletionWaiting
         /\ UnblockWaiting' = UnblockWaiting
BY DEF OneCompletion, CompletionWaiting, UnblockFirst, UnblockWaiting

(* The queue of a node that starts. *)
Restarted == eventQ = <<Simple("STATE_ENTER")>>

LEMMA RestartedNext ==
  ASSUME Restarted'
  PROVE  OneCompletion' /\ ~CompletionWaiting' /\ UnblockFirst' /\ ~UnblockWaiting'
BY DEF Restarted, OneCompletion, CompletionWaiting, UnblockFirst, UnblockWaiting,
   Simple, Completions

LEMMA RestartedQueue ==
  Restarted => OneCompletion /\ ~CompletionWaiting /\ UnblockFirst /\ ~UnblockWaiting
BY DEF Restarted, OneCompletion, CompletionWaiting, UnblockFirst, UnblockWaiting,
   Simple, Completions

LEMMA NoCompletionBehind == ~CompletionWaiting => UnblockFirst
BY DEF CompletionWaiting, UnblockFirst

Pinging == phase \in {"pingTx", "pingRx"}

(* At most one completion waits, and none while an operation that will end *)
(* in one is in progress, so none when the machine is in IDLE or about to  *)
(* start an operation.  Only IDLE processes commands.                      *)
WakeInv ==
  /\ OneCompletion
  /\ radio # "SLEEP" \/ timer1 => ~CompletionWaiting
  /\ radio # "SLEEP" => ~timer1
  /\ state \in {"IDLE", "RESTART"} => ~CompletionWaiting /\ ~timer1
  /\ state \in {"IDLE", "RESTART"} /\ ~Pinging => radio = "SLEEP"
  /\ Pinging /\ radioFlags # "none" => radio = "SLEEP"
  /\ phase = "enter" /\ state \notin {"TXING", "TXING_ACK"}
       => radio = "SLEEP" /\ ~timer1 /\ ~CompletionWaiting
  /\ phase \notin {"fetch", "enter"} => state = "IDLE"

LEMMA WakeInit ==
  ASSUME Init
  PROVE  WakeInv
BY RestartedQueue DEF Init, Restarted, WakeInv, Pinging

(* Every step keeps it. *)
LEMMA WakeStep ==
  ASSUME CoreAssumption, TypeOK, WakeInv, Next
  PROVE  WakeInv'
<1> USE DEF WakeInv, Pinging, Goto, Stay
<1>1. CASE IdleEnter
  BY <1>1, SameQueue DEF IdleEnter
<1>2. CASE IdleTx
  BY <1>2, SameQueue DEF IdleTx, TrySend, TryTxFromQueue, TryTxFrame, StartTx,
     PutOff, GiveUp
<1>3. CASE IdleTxUnblock
  BY <1>3, EventTypes, Fetched DEF IdleTxUnblock, Fetch, TrySend,
     TryTxFromQueue, TryTxFrame, StartTx, PutOff, GiveUp
<1>4. CASE IdleTxReq
  BY <1>4, SameQueue DEF IdleTxReq, FetchCold, TrySend, TryTxFromQueue,
     TryTxFrame, StartTx, PutOff, GiveUp
<1>5. CASE IdleRxAt
  BY <1>5, SameQueue DEF IdleRxAt, FetchCold
<1>6. CASE IdleCadTimeout
  BY <1>6, EventTypes, Fetched DEF IdleCadTimeout, Fetch
<1>7. CASE CommandsDone
  BY <1>7, SameQueue DEF CommandsDone
<1>8. CASE CmdSend
  BY <1>8, SameQueue DEF CmdSend, NextCommand
<1>9. CASE CmdPollRx
  BY <1>9, SameQueue DEF CmdPollRx, NextCommand
<1>10. CASE CmdSetMode
  BY <1>10, SameQueue DEF CmdSetMode, NextCommand
<1>11. CASE CmdDisconnect
  BY <1>11, SameQueue DEF CmdDisconnect, NextCommand
<1>12. CASE CmdConnect
  BY <1>12, SameQueue DEF CmdConnect, NextCommand
<1>13. CASE CmdReset
  BY <1>13, RestartedNext DEF CmdReset, NextCommand, Restarted
<1>14. CASE CmdPing
  BY <1>14, SameQueue DEF CmdPing, NextCommand
<1>15. CASE PingSent
  BY <1>15, SameQueue DEF PingSent
<1>16. CASE PingOver
  BY <1>16, SameQueue DEF PingOver
<1>17. CASE RestartEnter
  BY <1>17, EventTypes, Fetched DEF RestartEnter, Fetch
<1>18. CASE IgnoreEvent
  BY <1>18, EventTypes, Fetched DEF IgnoreEvent
<1>19. CASE TxingEnter
  BY <1>19, SameQueue DEF TxingEnter
<1>20. CASE WaitEnter
  BY <1>20, SameQueue DEF WaitEnter
<1>21. CASE RxingEnter
  BY <1>21, SameQueue DEF RxingEnter
<1>22. CASE RxingAckEnter
  BY <1>22, SameQueue DEF RxingAckEnter
<1>23. CASE CadEnter
  BY <1>23, SameQueue DEF CadEnter
<1>24. CASE CadDone
  BY <1>24, EventTypes, Fetched DEF CadDone, Fetch
<1>25. CASE RxingMsg
  BY <1>25, EventTypes, Fetched DEF RxingMsg, Fetch
<1>26. CASE RxingFails
  BY <1>26, EventTypes, Fetched DEF RxingFails, Fetch
<1>27. CASE SkippingTimeout
  BY <1>27, EventTypes, Fetched DEF SkippingTimeout, Fetch
<1>28. CASE SendAck
  BY <1>28, EventTypes, Fetched DEF SendAck, Fetch
<1>29. CASE TxingAckOver
  BY <1>29, EventTypes, Fetched DEF TxingAckOver, Fetch
<1>30. CASE TxingDone
  BY <1>30, EventTypes, Fetched DEF TxingDone, Fetch
<1>31. CASE TxingTimeout
  BY <1>31, EventTypes, Fetched DEF TxingTimeout, Fetch
<1>32. CASE WaitBeforeTimeout
  BY <1>32, EventTypes, Fetched DEF WaitBeforeTimeout, Fetch
<1>33. CASE RxingAckOver
  BY <1>33, EventTypes, Fetched DEF RxingAckOver, Fetch
<1>34. CASE RadioTxEnds
  BY <1>34, EventTypes, Posted, PostedEvents DEF RadioTxEnds, RadioEnds
<1>35. CASE RadioRxEnds
  BY <1>35, EventTypes, Posted, PostedEvents DEF RadioRxEnds, RadioEnds
<1>36. CASE RadioCadEnds
  BY <1>36, EventTypes, Posted, PostedEvents DEF RadioCadEnds, RadioEnds
<1>37. CASE RadioPingEnds
  BY <1>37, SameQueue DEF RadioPingEnds
<1>38. CASE RadioStalls
  BY <1>38, SameQueue DEF RadioStalls
<1>39. CASE Timer1Expires
  BY <1>39, EventTypes, Posted, PostedEvents DEF Timer1Expires
<1>40. CASE Timer2Expires
  BY <1>40, EventTypes, Posted, PostedEvents DEF Timer2Expires
<1>41. CASE CadTimerExpires
  BY <1>41, EventTypes, Posted, PostedEvents DEF CadTimerExpires
<1>42. CASE AppCommand
  BY <1>42, SameQueue DEF AppCommand
<1>43. CASE AppNotify
  BY <1>43, SameQueue DEF AppNotify
<1> QED BY <1>1, <1>2, <1>3, <1>4, <1>5, <1>6, <1>7, <1>8, <1>9, <1>10, <1>11,
        <1>12, <1>13, <1>14, <1>15, <1>16, <1>17, <1>18, <1>19, <1>20, <1>21,
        <1>22, <1>23, <1>24, <1>25, <1>26, <1>27, <1>28, <1>29, <1>30, <1>31,
        <1>32, <1>33, <1>34, <1>35, <1>36, <1>37, <1>38, <1>39, <1>40, <1>41,
        <1>42, <1>43 DEF Next, SmRun, RadioCallbacks

LEMMA WakeCorrect == Spec => [](TypeOK /\ WakeInv)
<1>1. Init => WakeInv
  BY WakeInit
<1>2. TypeOK /\ WakeInv /\ [Next]_vars => WakeInv'
  <2>1. TypeOK /\ WakeInv /\ Next => WakeInv'
    BY CoreAssumption, WakeStep
  <2>2. WakeInv /\ UNCHANGED vars => WakeInv'
    BY SameQueue DEF vars, WakeInv, Pinging
  <2> QED BY <2>1, <2>2
<1> QED BY <1>1, <1>2, TypeCorrect, PTL DEF Spec
-------------------------------------------------------------------------------
(* The radio.                                                              *)

(* The actions that start an operation find the radio asleep, the others    *)
(* put it to sleep or leave it alone.                                      *)
LEMMA StartsAsleep ==
  ASSUME CoreAssumption, TypeOK, WakeInv, Next
  PROVE  radio' # radio => radio = "SLEEP" \/ radio' = "SLEEP"
<1> USE DEF WakeInv, Pinging
<1>1. CASE IdleTx
  BY <1>1 DEF IdleTx, TrySend, TryTxFromQueue, TryTxFrame, StartTx, PutOff,
     GiveUp
<1>2. CASE IdleTxUnblock
  BY <1>2 DEF IdleTxUnblock, Fetch, TrySend, TryTxFromQueue, TryTxFrame,
     StartTx, PutOff, GiveUp
<1>3. CASE IdleTxReq
  BY <1>3 DEF IdleTxReq, FetchCold, TrySend, TryTxFromQueue, TryTxFrame,
     StartTx, PutOff, GiveUp
<1>4. CASE CmdPing
  BY <1>4 DEF CmdPing, NextCommand
<1>5. CASE PingSent
  BY <1>5 DEF PingSent
<1>6. CASE RxingEnter
  BY <1>6 DEF RxingEnter
<1>7. CASE RxingAckEnter
  BY <1>7 DEF RxingAckEnter
<1>8. CASE CadEnter
  BY <1>8 DEF CadEnter
<1>9. CASE SendAck
  BY <1>9, EventTypes, Fetched DEF SendAck, Fetch
<1>10. CASE IdleEnter \/ IdleRxAt \/ IdleCadTimeout \/ CommandsDone \/ CmdSend
            \/ CmdPollRx \/ CmdSetMode \/ CmdDisconnect \/ CmdConnect \/
            CmdReset \/ PingOver \/ RestartEnter \/ IgnoreEvent \/ TxingEnter
            \/ WaitEnter \/ CadDone \/ RxingMsg \/ RxingFails \/
            SkippingTimeout \/ TxingAckOver \/ TxingDone \/ TxingTimeout \/
            WaitBeforeTimeout \/ RxingAckOver \/ RadioTxEnds \/ RadioRxEnds \/
            RadioCadEnds \/ RadioPingEnds \/ RadioStalls \/ Timer1Expires \/
            Timer2Expires \/ CadTimerExpires \/ AppCommand \/ AppNotify
  BY <1>10 DEF IdleEnter, IdleRxAt, FetchCold, IdleCadTimeout, Fetch,
     CommandsDone, CmdSend, NextCommand, CmdPollRx, CmdSetMode, CmdDisconnect,
     CmdConnect, CmdReset, PingOver, RestartEnter, IgnoreEvent, TxingEnter,
     WaitEnter, CadDone, RxingMsg, RxingFails, SkippingTimeout, TxingAckOver,
     TxingDone, TxingTimeout, WaitBeforeTimeout, RxingAckOver, RadioTxEnds,
     RadioEnds, RadioRxEnds, RadioCadEnds, RadioPingEnds, RadioStalls,
     Timer1Expires, Timer2Expires, CadTimerExpires, AppCommand, AppNotify
<1> QED BY <1>1, <1>2, <1>3, <1>4, <1>5, <1>6, <1>7, <1>8, <1>9, <1>10 DEF
        Next, SmRun, RadioCallbacks

(* The half-duplex radio never gets an operation while another one is in   *)
(* progress, from the state machine nor from AT+PING.                      *)
THEOREM HalfDuplex == Spec => RadioStartsAsleep
<1>1. TypeOK /\ WakeInv /\ [Next]_vars =>
        [radio' # radio => radio = "SLEEP" \/ radio' = "SLEEP"]_vars
  BY CoreAssumption, StartsAsleep
<1> QED BY <1>1, WakeCorrect, PTL DEF Spec, RadioStartsAsleep

(* The ACK packet format is configured during an ACK and then only.        *)
FormatInv ==
  radioCfg = "ACK" <=> \/ state = "TXING_ACK" \/ phase = "pingRx"
                       \/ state = "RXING_ACK" /\ phase # "enter"

(* Every step keeps it. *)
LEMMA FormatStep ==
  ASSUME CoreAssumption, TypeOK, WakeInv, FormatInv, Next
  PROVE  FormatInv'
<1> USE DEF TypeOK, WakeInv, FormatInv, Goto, Stay, StdFormat
<1>1. CASE CommandsDone \/ CmdSend \/ CmdPollRx \/ CmdSetMode \/ CmdDisconnect
           \/ CmdConnect \/ CmdReset \/ CmdPing \/ PingSent \/ PingOver
  BY <1>1 DEF CommandsDone, CmdSend, NextCommand, CmdPollRx, CmdSetMode,
     CmdDisconnect, CmdConnect, CmdReset, CmdPing, PingSent, PingOver
<1>2. CASE IdleEnter \/ IdleTx \/ IdleTxUnblock \/ IdleTxReq \/ IdleRxAt \/
           IdleCadTimeout
  BY <1>2 DEF IdleEnter, IdleTx, TrySend, TryTxFromQueue, TryTxFrame, StartTx,
     PutOff, GiveUp, IdleTxUnblock, Fetch, IdleTxReq, FetchCold, IdleRxAt,
     IdleCadTimeout
<1>3. CASE RestartEnter \/ IgnoreEvent \/ TxingEnter \/ WaitEnter \/ RxingEnter
           \/ RxingAckEnter \/ CadEnter
  BY <1>3 DEF RestartEnter, Fetch, IgnoreEvent, TxingEnter, WaitEnter,
     RxingEnter, RxingAckEnter, CadEnter
<1>4. CASE CadDone \/ RxingMsg \/ RxingFails \/ SkippingTimeout \/ SendAck \/
           TxingAckOver \/ TxingDone \/ TxingTimeout \/ WaitBeforeTimeout \/
           RxingAckOver
  BY <1>4 DEF CadDone, Fetch, RxingMsg, RxingFails, SkippingTimeout, SendAck,
     TxingAckOver, TxingDone, TxingTimeout, WaitBeforeTimeout, RxingAckOver
<1>5. CASE RadioTxEnds \/ RadioRxEnds \/ RadioCadEnds \/ RadioPingEnds \/
           RadioStalls \/ Timer1Expires \/ Timer2Expires \/ CadTimerExpires \/
           AppCommand \/ AppNotify
  BY <1>5 DEF RadioTxEnds, RadioEnds, RadioRxEnds, RadioCadEnds, RadioPingEnds,
     RadioStalls, Timer1Expires, Timer2Expires, CadTimerExpires, AppCommand,
     AppNotify
<1> QED BY <1>1, <1>2, <1>3, <1>4, <1>5 DEF Next, SmRun, RadioCallbacks

(* No standard frame is received or sent in the format of the ACKs, and no *)
(* ACK in that of the standard frames, in whatever order exchanges,        *)
(* receptions and pings come.                                              *)
THEOREM FormatCorrect == Spec => []RadioFormat
<1>1. Init => FormatInv
  BY DEF Init, FormatInv
<1>2. TypeOK /\ WakeInv /\ FormatInv /\ [Next]_vars => FormatInv'
  <2>1. TypeOK /\ WakeInv /\ FormatInv /\ Next => FormatInv'
    BY CoreAssumption, FormatStep
  <2>2. FormatInv /\ UNCHANGED vars => FormatInv'
    BY DEF vars, FormatInv
  <2> QED BY <2>1, <2>2
<1>3. WakeInv /\ FormatInv => RadioFormat
  BY DEF WakeInv, FormatInv, RadioFormat, Pinging
<1> QED BY <1>1, <1>2, <1>3, WakeCorrect, PTL DEF Spec
-------------------------------------------------------------------------------
(* Blocking.                                                               *)

(* What blocks transmission unblocks it, and while it is blocked no        *)
(* TXUNBLOCK reaches IDLE: those left over are ahead of the completion     *)
(* that ends the state, and dropped there.                                 *)
BackoffInv ==
  /\ BackoffReleases
  /\ txBlocked => UnblockFirst
  /\ state = "IDLE" /\ txBlocked => ~UnblockWaiting
  /\ state = "RESTART" => ~timer2

(* Every step keeps it. *)
LEMMA BackoffStep ==
  ASSUME CoreAssumption, TypeOK, WakeInv, BackoffInv, Next
  PROVE  BackoffInv'
<1> USE DEF WakeInv, BackoffInv, BackoffReleases, Exchange, BlockTx, Goto, Stay
<1>1. CASE IdleEnter
  BY <1>1, SameQueue DEF IdleEnter
<1>2. CASE IdleTx
  BY <1>2, SameQueue, NoCompletionBehind DEF IdleTx, TrySend, TryTxFromQueue,
     TryTxFrame, StartTx, PutOff, GiveUp
<1>3. CASE IdleTxUnblock
  BY <1>3, EventTypes, Fetched, NoCompletionBehind DEF IdleTxUnblock, Fetch,
     TrySend, TryTxFromQueue, TryTxFrame, StartTx, PutOff, GiveUp
<1>4. CASE IdleTxReq
  BY <1>4, SameQueue, NoCompletionBehind DEF IdleTxReq, FetchCold, TrySend,
     TryTxFromQueue, TryTxFrame, StartTx, PutOff, GiveUp
<1>5. CASE IdleRxAt
  BY <1>5, SameQueue DEF IdleRxAt, FetchCold
<1>6. CASE IdleCadTimeout
  BY <1>6, EventTypes, Fetched DEF IdleCadTimeout, Fetch
<1>7. CASE CommandsDone
  BY <1>7, SameQueue DEF CommandsDone
<1>8. CASE CmdSend
  BY <1>8, SameQueue DEF CmdSend, NextCommand
<1>9. CASE CmdPollRx
  BY <1>9, SameQueue DEF CmdPollRx, NextCommand
<1>10. CASE CmdSetMode
  BY <1>10, SameQueue DEF CmdSetMode, NextCommand
<1>11. CASE CmdDisconnect
  BY <1>11, SameQueue DEF CmdDisconnect, NextCommand
<1>12. CASE CmdConnect
  BY <1>12, SameQueue DEF CmdConnect, NextCommand
<1>13. CASE CmdReset
  BY <1>13, RestartedNext DEF CmdReset, NextCommand, Restarted
<1>14. CASE CmdPing
  BY <1>14, SameQueue DEF CmdPing, NextCommand
<1>15. CASE PingSent
  BY <1>15, SameQueue DEF PingSent
<1>16. CASE PingOver
  BY <1>16, SameQueue DEF PingOver
<1>17. CASE RestartEnter
  BY <1>17, EventTypes, Fetched DEF RestartEnter, Fetch
<1>18. CASE IgnoreEvent
  BY <1>18, EventTypes, Fetched DEF IgnoreEvent
<1>19. CASE TxingEnter
  BY <1>19, SameQueue DEF TxingEnter
<1>20. CASE WaitEnter
  BY <1>20, SameQueue DEF WaitEnter
<1>21. CASE RxingEnter
  BY <1>21, SameQueue DEF RxingEnter
<1>22. CASE RxingAckEnter
  BY <1>22, SameQueue DEF RxingAckEnter
<1>23. CASE CadEnter
  BY <1>23, SameQueue DEF CadEnter
<1>24. CASE CadDone
  BY <1>24, EventTypes, Fetched DEF CadDone, Fetch
<1>25. CASE RxingMsg
  BY <1>25, EventTypes, Fetched DEF RxingMsg, Fetch
<1>26. CASE RxingFails
  BY <1>26, EventTypes, Fetched DEF RxingFails, Fetch
<1>27. CASE SkippingTimeout
  BY <1>27, EventTypes, Fetched DEF SkippingTimeout, Fetch
<1>28. CASE SendAck
  BY <1>28, EventTypes, Fetched DEF SendAck, Fetch
<1>29. CASE TxingAckOver
  BY <1>29, EventTypes, Fetched DEF TxingAckOver, Fetch
<1>30. CASE TxingDone
  BY <1>30, EventTypes, Fetched DEF TxingDone, Fetch
<1>31. CASE TxingTimeout
  BY <1>31, EventTypes, Fetched DEF TxingTimeout, Fetch
<1>32. CASE WaitBeforeTimeout
  BY <1>32, EventTypes, Fetched DEF WaitBeforeTimeout, Fetch
<1>33. CASE RxingAckOver
  BY <1>33, EventTypes, Fetched DEF RxingAckOver, Fetch
<1>34. CASE RadioTxEnds
  BY <1>34, EventTypes, Posted, PostedEvents DEF RadioTxEnds, RadioEnds
<1>35. CASE RadioRxEnds
  BY <1>35, EventTypes, Posted, PostedEvents DEF RadioRxEnds, RadioEnds
<1>36. CASE RadioCadEnds
  BY <1>36, EventTypes, Posted, PostedEvents DEF RadioCadEnds, RadioEnds
<1>37. CASE RadioPingEnds
  BY <1>37, SameQueue DEF RadioPingEnds
<1>38. CASE RadioStalls
  BY <1>38, SameQueue DEF RadioStalls
<1>39. CASE Timer1Expires
  BY <1>39, EventTypes, Posted, PostedEvents DEF Timer1Expires
<1>40. CASE Timer2Expires
  BY <1>40, EventTypes, Posted, PostedEvents DEF Timer2Expires
<1>41. CASE CadTimerExpires
  BY <1>41, EventTypes, Posted, PostedEvents DEF CadTimerExpires
<1>42. CASE AppCommand
  BY <1>42, SameQueue DEF AppCommand
<1>43. CASE AppNotify
  BY <1>43, SameQueue DEF AppNotify
<1> QED BY <1>1, <1>2, <1>3, <1>4, <1>5, <1>6, <1>7, <1>8, <1>9, <1>10, <1>11,
        <1>12, <1>13, <1>14, <1>15, <1>16, <1>17, <1>18, <1>19, <1>20, <1>21,
        <1>22, <1>23, <1>24, <1>25, <1>26, <1>27, <1>28, <1>29, <1>30, <1>31,
        <1>32, <1>33, <1>34, <1>35, <1>36, <1>37, <1>38, <1>39, <1>40, <1>41,
        <1>42, <1>43 DEF Next, SmRun, RadioCallbacks

LEMMA BackoffAlways == Spec => []BackoffInv
<1>1. Init => BackoffInv
  BY RestartedQueue DEF Init, Restarted, BackoffInv, BackoffReleases, Exchange
<1>2. TypeOK /\ WakeInv /\ BackoffInv /\ [Next]_vars => BackoffInv'
  <2>1. TypeOK /\ WakeInv /\ BackoffInv /\ Next => BackoffInv'
    BY CoreAssumption, BackoffStep
  <2>2. BackoffInv /\ UNCHANGED vars => BackoffInv'
    BY SameQueue DEF vars, BackoffInv, BackoffReleases
  <2> QED BY <2>1, <2>2
<1> QED BY <1>1, <1>2, WakeCorrect, PTL DEF Spec

(* Transmission is never blocked without a timer or an exchange that will  *)
(* unblock it, never unblocked during an exchange, and TXUNBLOCK, which    *)
(* transmits without a look at txBlocked, is taken in IDLE only when       *)
(* transmission is not blocked: for any capacity of the event queue, even  *)
(* if it drops events, and with a radio that stalls.                       *)
THEOREM BackoffCorrect == Spec => [](BackoffReleases /\ NoStaleUnblock)
<1>1. BackoffInv => BackoffReleases /\ NoStaleUnblock
  BY DEF BackoffInv, NoStaleUnblock, Queued, UnblockWaiting
<1> QED BY <1>1, BackoffAlways, PTL

(* A TXUNBLOCK that was posted at the end of one back-off is never fetched *)
(* by state_idle during a later one, which it would cut short.             *)
THEOREM UnblocksInTime == Spec => []NoStaleUnblock
  BY BackoffCorrect, PTL
-------------------------------------------------------------------------------
(* Frames.                                                                 *)

FrameInv == FrameWithinRetries /\ PendingAccounted /\ AckReady

(* An attempt to transmit from IDLE. *)
LEMMA FrameAttempt ==
  ASSUME CoreAssumption, TypeOK, FrameInv, state = "IDLE", TrySend
  PROVE  FrameInv'
<1> USE DEF CoreAssumption, TypeOK, FrameInv, FrameWithinRetries, PendingAccounted,
            AckReady, Exchange, Goto, Stay
<1>1. ASSUME txFrameFilled, UNCHANGED txQ, TryTxFrame(retryTxFrame)
      PROVE  FrameInv'
  <2>1. CASE StartTx(retryTxFrame)
    BY <1>1, <2>1 DEF StartTx
  <2>2. CASE PutOff(retryTxFrame)
    BY <1>1, <2>2 DEF PutOff
  <2>3. CASE GiveUp(retryTxFrame)
    BY <1>1, <2>3 DEF GiveUp
  <2> QED BY <1>1, <2>1, <2>2, <2>3 DEF TryTxFrame
<1>2. ASSUME ~txFrameFilled, TryTxFromQueue
      PROVE  FrameInv'
  <2>1. Len(txQ') = Len(txQ) - 1 /\ Len(txQ) \in Nat /\ Len(txQ') \in Nat
    BY <1>2 DEF TryTxFromQueue
  <2>2. CASE StartTx(0)
    BY <1>2, <2>1, <2>2 DEF StartTx
  <2>3. CASE PutOff(0)
    BY <1>2, <2>1, <2>3 DEF PutOff
  <2>4. CASE GiveUp(0)
    BY <1>2, <2>1, <2>4 DEF GiveUp
  <2> QED BY <1>2, <2>2, <2>3, <2>4 DEF TryTxFromQueue, TryTxFrame
<1>3. ASSUME Stay, UNCHANGED <<txQ, frameVars>>
      PROVE  FrameInv'
  BY <1>3
<1> QED BY <1>1, <1>2, <1>3 DEF TrySend

(* A step that leaves the frame alone and neither enters nor leaves a      *)
(* state FrameInv is about.                                                *)
LEMMA FrameKept ==
  ASSUME FrameInv, UNCHANGED <<txQ, currentTxMsg, txFrameFilled, retryTxFrame, pending>>,
         \/ state' = state
         \/ /\ {state, state'} \subseteq States \ {"TXING", "WAIT_SLOT_TX_ACK"}
            /\ state' \in Exchange <=> state \in Exchange
  PROVE  FrameInv'
BY DEF FrameInv, FrameWithinRetries, PendingAccounted, AckReady, Exchange, States

(* The same, while IDLE does not transmit. *)
LEMMA FrameWaits ==
  ASSUME FrameInv, state = "IDLE", Stay, UNCHANGED <<txQ, frameVars>>
  PROVE  FrameInv'
BY FrameKept DEF Stay

(* A message is accepted. *)
LEMMA FrameQueued ==
  ASSUME PendingAccounted, pending \in Int, Len(txQ) \in Nat,
         Len(txQ') = Len(txQ) + 1, pending' = pending + 1,
         UNCHANGED <<state, txFrameFilled>>
  PROVE  PendingAccounted'
<1> DEFINE held == IF txFrameFilled THEN 1 ELSE 0
           out  == IF state \in Exchange \ {"TXING"} THEN 1 ELSE 0
<1>1. held \in Int /\ held' = held /\ out \in Int /\ out' = out
  OBVIOUS
<1>2. pending = Len(txQ) + held + out
  BY DEF PendingAccounted
<1> HIDE DEF held, out
<1>3. pending' = Len(txQ') + held' + out'
  BY <1>1, <1>2
<1> QED BY <1>3 DEF PendingAccounted, held, out

(* Every step keeps it. *)
LEMMA FrameStep ==
  ASSUME CoreAssumption, TypeOK, WakeInv, FrameInv, Next
  PROVE  FrameInv'
<1> USE DEF FrameInv, FrameWithinRetries, PendingAccounted, AckReady, Exchange
<1>0. /\ txQ \in Seq(Dests) /\ Len(txQ) \in Nat /\ retryTxFrame \in Nat
      /\ pending \in Int /\ MaxTxRetry \in Nat
  BY DEF TypeOK, CoreAssumption
<1>1. CASE IdleTx
  <2>1. state = "IDLE"
    BY <1>1 DEF IdleTx, WakeInv
  <2>2. CASE TrySend
    BY <2>1, <2>2, FrameAttempt
  <2>3. CASE Stay /\ UNCHANGED <<txQ, frameVars>>
    BY <2>1, <2>3, FrameWaits
  <2> QED BY <1>1, <2>2, <2>3 DEF IdleTx
<1>2. CASE IdleTxUnblock
  BY <1>2, FrameAttempt DEF IdleTxUnblock, Fetch
<1>3. CASE IdleTxReq
  <2>1. state = "IDLE"
    BY <1>3 DEF IdleTxReq, FetchCold
  <2>2. CASE TrySend
    BY <2>1, <2>2, FrameAttempt
  <2>3. CASE Stay /\ UNCHANGED <<txQ, frameVars>>
    BY <2>1, <2>3, FrameWaits
  <2> QED BY <1>3, <2>2, <2>3 DEF IdleTxReq
<1>4. CASE CmdSend
  <2>1. Len(Append(txQ, Head(atcmdQ).dest)) = Len(txQ) + 1
    BY <1>0
  <2>2. /\ UNCHANGED <<state, currentTxMsg, txFrameFilled, retryTxFrame>>
        /\ \/ UNCHANGED <<txQ, pending>>
           \/ Len(txQ') = Len(txQ) + 1 /\ pending' = pending + 1
    BY <1>4, <2>1 DEF CmdSend
  <2>3. CASE UNCHANGED <<txQ, pending>>
    BY <2>2, <2>3, FrameKept
  <2>4. CASE Len(txQ') = Len(txQ) + 1 /\ pending' = pending + 1
    <3>1. FrameWithinRetries' /\ AckReady'
      BY <2>2
    <3>2. PendingAccounted'
      BY <1>0, <2>2, <2>4, FrameQueued
    <3> QED BY <3>1, <3>2
  <2> QED BY <2>2, <2>3, <2>4
<1>5. CASE CmdReset
  BY <1>5 DEF CmdReset
<1>6. CASE RxingMsg
  BY <1>6 DEF RxingMsg, Fetch, Goto, PrepareAck
<1>7. CASE SendAck
  BY <1>7 DEF SendAck, Fetch, Goto
<1>8. CASE TxingDone
  BY <1>0, <1>8 DEF TxingDone, Fetch, Goto
<1>9. CASE TxingTimeout
  <2>1. txFrameFilled /\ state = "TXING" /\ state' = "IDLE" /\ UNCHANGED txQ
    BY <1>9 DEF TxingTimeout, Fetch, Goto
  <2>2. CASE retryTxFrame' < MaxTxRetry
    <3>1. txFrameFilled' /\ pending' = pending
      BY <1>9, <2>1, <2>2 DEF TxingTimeout
    <3> QED BY <1>0, <2>1, <2>2, <3>1
  <2>3. CASE ~(retryTxFrame' < MaxTxRetry)
    <3>1. ~txFrameFilled' /\ pending' = pending - 1
      BY <1>9, <2>1, <2>3 DEF TxingTimeout
    <3> QED BY <1>0, <2>1, <3>1
  <2> QED BY <2>2, <2>3
<1>10. CASE RxingAckOver
  BY <1>0, <1>10 DEF RxingAckOver, Fetch, Goto
<1>11. CASE WaitBeforeTimeout
  BY <1>0, <1>11 DEF WaitBeforeTimeout, Fetch, Goto
<1>12. CASE IdleCadTimeout \/ RestartEnter \/ CadDone \/ RxingFails \/
            SkippingTimeout \/ TxingAckOver
  BY <1>12, FrameKept DEF IdleCadTimeout, Fetch, Goto, RestartEnter, CadDone,
     RxingFails, SkippingTimeout, TxingAckOver, States
<1>13. CASE IdleEnter \/ IdleRxAt \/ CommandsDone \/ CmdPollRx \/ CmdSetMode
            \/ CmdDisconnect \/ CmdConnect \/ CmdPing \/ PingSent \/ PingOver
  BY <1>13, FrameKept DEF IdleEnter, IdleRxAt, FetchCold, CommandsDone,
     CmdPollRx, NextCommand, CmdSetMode, CmdDisconnect, CmdConnect, CmdPing,
     PingSent, PingOver
<1>14. CASE IgnoreEvent \/ TxingEnter \/ WaitEnter \/ RxingEnter \/
            RxingAckEnter \/ CadEnter
  BY <1>14, FrameKept DEF IgnoreEvent, TxingEnter, WaitEnter, RxingEnter,
     RxingAckEnter, CadEnter, Stay
<1>15. CASE RadioTxEnds \/ RadioRxEnds \/ RadioCadEnds \/ RadioPingEnds \/
            RadioStalls \/ Timer1Expires \/ Timer2Expires \/ CadTimerExpires
            \/ AppCommand \/ AppNotify
  BY <1>15, FrameKept DEF RadioTxEnds, RadioEnds, RadioRxEnds, RadioCadEnds,
     RadioPingEnds, RadioStalls, Timer1Expires, Timer2Expires,
     CadTimerExpires, AppCommand, AppNotify
<1> QED
  BY <1>1, <1>2, <1>3, <1>4, <1>5, <1>6, <1>7, <1>8, <1>9, <1>10, <1>11, <1>12,
     <1>13, <1>14, <1>15
  DEF Next, SmRun, RadioCallbacks

(* Every message cmd_send accepted is accounted for until it is concluded, *)
(* a frame stays in its buffer only as long as it has retries left, and    *)
(* the ACK slot always finds an ACK to send.                               *)
THEOREM FramesAccounted == Spec => [](PendingAccounted /\ FrameWithinRetries /\ AckReady)
<1>1. Init => FrameInv
  BY DEF Init, FrameInv, FrameWithinRetries, PendingAccounted, AckReady, Exchange
<1>2. TypeOK /\ WakeInv /\ FrameInv /\ [Next]_vars => FrameInv'
  <2>1. TypeOK /\ WakeInv /\ FrameInv /\ Next => FrameInv'
    BY CoreAssumption, FrameStep
  <2>2. FrameInv /\ UNCHANGED vars => FrameInv'
    BY DEF vars, FrameInv, FrameWithinRetries, PendingAccounted, AckReady
  <2> QED BY <2>1, <2>2
<1>3. FrameInv => PendingAccounted /\ FrameWithinRetries /\ AckReady
  BY DEF FrameInv
<1> QED BY <1>1, <1>2, <1>3, WakeCorrect, PTL DEF Spec

(* A frame leaves its buffer when its retries are spent, whether listen    *)
(* before talk or timeouts of the transmission spent them.                 *)
THEOREM RetriesBounded == Spec => []FrameWithinRetries
  BY FramesAccounted, PTL

(* What WAIT_SLOT_TX_ACK sends is the ACK state_rxing prepared, although   *)
(* the message of a frame put off may have been current before.            *)
THEOREM AckPrepared == Spec => []AckReady
  BY FramesAccounted, PTL
===============================================================================
