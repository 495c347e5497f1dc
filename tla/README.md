# LoWAPP: TLA+ models, checks and proofs

LoWAPP is a peer-to-peer protocol over LoRa radios: nodes of a group sleep, wake
up periodically to look for a preamble (channel activity detection, CAD), and
exchange short messages that are acknowledged in a fixed slot. The core is one
event-driven state machine in `lowapp/lowapp_core`, used on an STM32 board with
an SX1272 transceiver and, unchanged, in a simulation where each node is a
process and the air is a set of files and sockets.

This directory holds the specifications of that core and of what it stands on,
the model-checking runs and the proofs. Everything is translated from the source; `PROJECT.json` maps
each definition to the lines it stands for.

## 1. Inventory

| Component | State | Operations | Interacts with |
|---|---|---|---|
| State machine (`lowapp_sm.c`) | `_currentState`, `currentTxMsg`, `currentTxFrame`/`txFrameFilled`, `lastDestination`, `retryTxFrame`, `txBlocked`, `cad_flag`, `peers` | `sm_run`, ten state functions, `tryTx*`, `process_ack`, timer callbacks | takes events from two queues; starts radio operations and timers; calls the AT interpreter from IDLE |
| AT commands (`lowapp_atcmd.c`) | `_atcmd_list`, `_opMode`, `_connected` | `at_queue_process`, one function per command | run inside IDLE; AT+PING takes over the radio callbacks; AT+SEND fills the tx queue |
| API (`lowapp_api.c`) | initialisation | `lowapp_init`, `lowapp_process`, `lowapp_atcmd`, `lowapp_atcmderror` | called by the application, from an interrupt or another thread |
| Radio callbacks (`lowapp_radio_evt.c`) | `radioFlags` | one callback per end of operation, two sets | post events, in interrupt context |
| Queues (`lowapp_utils_queue.c`) | `head`, `tail`, `count`, slots; the table of statistics | add, get, sizes; `add_to_statqueue`, AT+WHO | shared by callbacks and the main loop, under locks |
| Messages (`lowapp_msg.c`) | - | `buildFrame`, `retrieveMessage`, `response_rx_packets` | pure, except that packets leave the rx queue |
| Configuration (`lowapp_atcmd.c`, `lowapp_sys_eeprom.c`) | the bytes stored, `myConfig`, the variables of the core, what the radio and the CAD timer were given | AT+SET, WRITECFG, READCFG, CONNECT, DISCONNECT, RST, `load_full_config`, `check_configuration` | read at start; sets the radio and the CAD timer |
| Timers of the hardware (`timer.c`, `rtc-board.c`) | an ordered list, the alarm of the clock | `TimerStart`, `TimerStop`, `TimerSetValue`, `TimerIrqHandler` | used by the core and by the driver of the radio |
| SX1272 driver (`sx1272.c`) | `Settings.State`, timeout timers | start and sleep, DIO interrupts, timeouts | calls the callbacks of the core, in interrupt context |
| Simulation (`simulation/src`) | threads, mutexes, a condition variable | sleep of the main loop, wake-up, interval timer, console | calls and is called by the core |
| Main loop of the hardware (`main.c`) | sleep type | `EnterSleepMode` | calls the core |
| Third party and board code | LoRaMac, STM32 HAL, GPS and sensor examples | - | outside the protocol |

What is hard here:

* **Interleaving.** Timers and the radio post events while the machine runs a
  handler; the application queues commands and posts the event that announces
  them in two critical sections; the interrupts of the radio preempt the handler
  of the timers; the main loop goes to sleep while threads post to it.
* **Exactly one wake-up.** A state other than IDLE arms one timer or starts one
  radio operation and has no other way out. No state tests where an event comes
  from: a completion too many is taken for that of the next operation.
* **Bounded queues that drop.** `add_event` drops silently.
* **Back-off.** `txBlocked` is set in four places, cleared in one.
* **Sequence numbers** of two nodes under loss, repetition, restart and
  rollover, with 8 bit counters that cycle through 255 values.
* **Four copies of the configuration**, moved one value at a time, written byte
  by byte without a mark of completion.

What makes each part correct is stated with the runs below; `PROJECT.json`
lists the hazards line by line.

## 2. Modules

| Module | Models | Extends |
|---|---|---|
| `LowappCore` | one node: state machine, queues, timers, radio, AT commands | |
| `MCLowappCore` | the commands of each instance, one claim of a comment | `LowappCore` |
| `LowappCore_proofs` | theorems about `LowappCore` | `LowappCore`, `TLAPS` |
| `LowappWake_proofs` | the theorem on `OneWakeUp` | `LowappCore_proofs` |
| `LowappSeq` | sequence numbers: verdict on a frame, processing of an ACK | |
| `LowappLink` | two nodes over a lossy channel | `LowappSeq` |
| `MCLowappLink` | the scenarios, two claims of comments | `LowappLink` |
| `LowappLink_proofs` | theorems about `LowappLink` | `LowappLink`, `TLAPS` |
| `BoundedFifo` | what a queue promises | |
| `RingQueue` | the ring buffer, which implements it | `BoundedFifo` (INSTANCE) |
| `StatQueue` | the statistics beside the queue of the packets | `RingQueue` |
| `MCStatQueue` | symmetry of the devices | `StatQueue` |
| `RingQueue_proofs`, `StatQueue_proofs` | theorems about the two | |
| `LowappConfig` | the configuration and its storage | |
| `MCLowappConfig` | a key | `LowappConfig` |
| `LowappConfig_proofs` | theorems about `LowappConfig` | `LowappConfig` |
| `TimerList` | the list of timers and the handler of its alarm | |
| `Sx1272` | the driver of the radio, its interrupts and the main loop, over that list | `TimerList` |
| `Sx1272_proofs` | theorems about `Sx1272` with `TimerList` | `Sx1272` |
| `SimuLoop` | the threads of the simulation | |
| `SimuLoop_proofs` | theorems about `SimuLoop` | `SimuLoop` |

### LowappCore

A step is the code between two points where a callback can be observed. The
main loop is in one of six phases: about to fetch an event, about to call a new
state with STATE_ENTER, processing AT commands one by one, about to transmit
after them, and the two waits of AT+PING. A handler that returns another state
moves to phase `enter` (`Goto`), as the inner loop of `sm_run` does; `Stay` is
the return of the current state. `STATE_EXIT` is ignored by every state and is
not a step. The cold queue is looked at only in IDLE with an empty event queue.

`Handled` lists the events of each state, and `IgnoreEvent` drops the others.
`TryTxFrame` is listen before talk with its three outcomes; which one is taken
depends on the channel, so they are alternatives. AT+RST resets the RAM of the
node and keeps nothing.

Abstractions: a message is its destination; a received frame is what
`retrieveMessage` decides of it; the rx queue is its length; the transmission,
reception and preamble settings that differ between standard frames and ACKs
are one `radioCfg`. `state_rxing` does not look at the type of the frame it
accepted, so an ACK for this node is acknowledged like a message, and so the
model does. The radio is a half-duplex device, external to the core, that ends
each operation with one callback and sleeps (`Sx1272` is about that); with
`RadioMayStall` it may also say nothing, which is the failure injection of the
simulated radio (disabled in the committed sources, `radio-simu.h:49`).
`pending` counts the accepted messages that are not concluded; it is not in the
code. The commands that read or write the configuration only restore the pull
mode here; `LowappConfig` has the rest of them.

### LowappSeq and LowappLink

`LowappSeq` keeps the order of the tests of `state_rxing` and `process_ack` and
the width of the numbers. A difference that is computed in `int` is an integer;
one that is stored in `uint8_t` is taken modulo 256.

`LowappLink` has both ends: the frame buffer with the number it was built with,
retries, TXDONE and TXTIMEOUT (after which the frame may have gone out all the
same), pings, which may overtake a frame put off, the acknowledgement in the
slot after the frame, loss of either, and restarts. The channel holds one frame
or ACK: an ACK comes in its slot or never, and a sender waits for it before it
sends again. A scenario bounds what may happen in a behaviour. The histories
`seen`, `lost`, `verdict`, `report` are there for the properties, which compare
what the numbers say to what happened. `past` records the incidents the numbers
do not cope with, and each property names those it does not survive.

### BoundedFifo, RingQueue and StatQueue

`QFIXED_T` and `QEVENT_T` keep the same indices in the same way. The refinement
maps the slots from `tail` on, `count` of them, to the sequence of the abstract
queue. `StatQueue` adds the table of `add_to_statqueue`, fed by `state_rxing`
with every message that arrives, whether or not the queue of the packets has
room for it. `now` counts receptions and `ClockPeriod` is where the 32 bit clock
of the hardware rolls over.

### LowappConfig

The build for the hardware. `myConfig` is the structure of the system layer,
`node` the variables of the core with what they derive (preamble length, CAD
interval) and what the radio and the CAD timer were last given. `Loaded` is
`load_full_config`: it goes on past the one value it refuses, derives what
depends on another value only when one changed, and sets the timer only if the
device is connected. AT+WRITECFG erases the bytes, then writes them in the order
of the addresses, and `Restart`, at AT+RST or a power failure, may come between
any two of them. `images` is the set of configurations the storage may stand
for, which is not in the code.

The conversions of the preamble are computed in integers with the width of the
variables. Where `lowapp_msg.c:637` converts a negative double to an unsigned
number, `Wraps` chooses what the processor does: 0 on ARM, the residue on x86.

Left out: `groupId` and `gwMask`, on which nothing depends; the return of -1 of
`get_config`, which never fails; failures of the EEPROM to program a byte.

### TimerList and Sx1272

`TimerList` has the list as it is kept in memory: each timer holds the time left
after the one before it. `TimerIrqHandler` is a sequence of steps, because an
interrupt of the radio (priority 1) may come between any two of them; the alarm
(priority 4) preempts the main loop only. `TimerStart` and the others run with
the interrupts disabled and are one step. `Sx1272` adds a timer of the state
machine, the repetitive CAD timer, which its callback sets again from inside the
handler, the timeout of the radio, and a radio that ends its operations, reports
a CAD, or never reports. `left` counts the time until each timer is due as its
caller understands it. A fault is the outcome of a write through the NULL head
of an empty list, beside the one in which nothing happens.

Abstractions: the alarm is exact to the millisecond and the compensation of the
wake-up time (`McuWakeUpTime`) is 0; the elapsed time stops at `MaxElapsed`,
beyond all timeouts; the two timeout timers of the driver are one, of which the
core never needs both; an interrupt of the radio is one step; the FSK mode and
the rollover of the clock are left out; `Timestamp` of a timer that is not in
the list, which is never read before it is written, is 0.

### SimuLoop

The main loop, the console, the radio and the thread the interval timer starts
are at places between locks, signals and unlocks. Adding an event is four of
them: the slot, then `wakeup_sm`, then the count, which is what the main loop
tests. The state machine is seen between its excursions from IDLE. A wake-up
without a signal is allowed and never relied on.

## 3. Runs

| Run | Configuration | Checks |
|---|---|---|
| `core_exchange` | 3 commands among two kinds of message and a ping | `TypeOK`, `OneWakeUp`, `BackoffReleases`, `NoStaleUnblock`, `PendingAccounted`, `FrameWithinRetries`, `AckReady`, `RadioFormat`, `RadioStartsAsleep` |
| `core_service` | 2 commands among message, ping, push mode, (dis)connect; fair | `ReturnsToIdle`, `MessagesConclude`, `CommandsServed`, `PushDelivers` |
| `core_stalls` | 2 commands among broadcast, reset, others; radio may stall | `PendingAccounted`, `BackoffReleases` |
| `link` | nine scenarios: losses, put-offs, frames repeated, restarts, pings that overtake, rollover | `TypeOK`, `NoFalseDuplicate`, `OvertakenAlone`, `DuplicatesFlagged`, `MissingExact`, `RecordExact`, `Agreement` |
| `queues` | 3 slots, 5 devices, a clock that rolls over at 8 | `RingInv`, `OneRecordEach`, `MostRecent`, `ImplementsFifo` |
| `config` | one device id, channel, preamble time and key, two spreading factors, keys of 2 bytes | `TypeOK`, `ConnectedIsUsable`, `RadioFollows`, `CadCatchesPreamble`, `BootsWhole` |
| `timers` | three timers of 1 to 4 ms, an interrupt served within 1 ms; fair | `TypeOK`, `NoneDropped`, `AlarmSet`, `EndsOnce`, `NeverEarly`, `OperationEnds`, `TimersExpire` |
| `simu` | queues of 3 events; fair | `ListensIfConnected`, `LateAtWorst` |
| `cad_flag` | as `core_service` | violates `CadFlagHonoured` |
| `link_first_lost` | first frame of a connection lost | violates `ReinitialisationAgrees` |
| `link_duplicate_rollover` | a frame repeated across the rollover | violates `DuplicatesFlaggedAcross` |
| `timer_head` | as `timers` | violates `HandlerFindsHead` |

**Bounds.** In the core, queues of one entry (`QueueSize`, `ColdQueueSize`) are
the smallest that can be full while another element arrives, which is the case
that matters; `MAX_TX_FRAME_RETRY` 2 instead of 3 still has a retry and a last
one. Received frames, CADs and timer expiries are not bounded. `MaxPendingCad`
bounds the CADTIMEOUT events waiting: the code has no bound, only the length of
the interval (seconds) against that of an exchange. `EventQueueSize` 4 is
`MaxPendingCad + 3`, the least for which no completion is dropped: with 3,
`OneWakeUp` fails, a dropped TIMEOUT or TXDONE leaves the node in its state for
ever. The queue of 16 entries of the code therefore bears 13 unserved
CADTIMEOUTs, by the theorem `NeverStuck` below. In `LowappLink` the numbers have
the width and the thresholds of the code, and the histories start near the
values where something changes: 0, the middle, the rollover.

In `queues` five devices are two more than there are slots, so a record is
replaced, and its device comes back and replaces another. Two messages are
received after the rollover. In `config` the values that depend on each other
have two settings, or one and the blank; the power fails at every byte. In
`timers` the delays are chosen so that each timer can be before, with and after
each other, an expiry can find another timer due, and the handler can be a
millisecond late. In `simu` three slots are enough for one event of each thread
and a full queue.

`CHECK_DEADLOCK FALSE` where the system may stop: a disconnected node with
nothing to send stops until the next command, scenarios are finite, and a fault
of the processor ends `Sx1272`.

**Fairness.** `FairSpec` of the core: the main loop goes through a step it has
begun and, while the node is connected, runs when it has something to do
(`Awake`); a running radio operation ends; an armed timer expires;
`lowapp_atcmd` returns. No command is ever owed by the application, and nothing
is owed to a node that is disconnected and between two steps: its main loop may
have gone to sleep as the event came, and no CAD timer wakes it. Two runs look
at what this rests on. `timers` shows that an operation ends and a timer expires
although the radio may never report a transmission or a reception; it assumes
that the handler and the calls of the main loop are executed (weak fairness),
that time goes by (strong fairness, because a busy processor disables `Tick`
while an interrupt is as late as it may be) and that the chip concludes a CAD,
which no timer watches. `simu` shows that the loop of the simulation is woken up
while the node is connected and the event queue has room; it assumes weak
fairness of each thread and strong fairness of the acquisition of a mutex, and
nothing of the console, the radio and spurious wake-ups.

**What the properties say.**

*Core.* `OneWakeUp`: every state but IDLE has exactly one way out under way, of
the right kind. `BackoffReleases`: tx is blocked for a reason that ends.
`NoStaleUnblock`: no TXUNBLOCK is processed during a later block.
`PendingAccounted`: no accepted message is lost or doubled between queue, buffer
and ACK. `AckReady`: the message sent in the ACK slot is the ACK, although a
message put off may have been current. `RadioFormat`: the ACK format is
configured during ACKs and only then. The liveness properties allow for what
the code does not promise of a disconnected node: a command, a message or packets
received before AT+PUSHRX may wait until it is connected and enters IDLE again
(the event that announces them may have been dropped by a full cold queue, or
have come as the main loop went to sleep).

*Two nodes.* `Agreement`: the sender numbers its next frame with what the
receiver expects; `RecordExact`: the record of the sender equals it too;
`NoFalseDuplicate`, `DuplicatesFlagged`, `MissingExact`: what the application is
told is true. Each but for the incidents it names: a frame repeated although it
went out, a ping that overtook a frame put off, the rollover. The error of one
that `missing_frames` has across the rollover is part of `MissingExact`: it is
all that is wrong with it there. `OvertakenAlone`: a ping that overtakes a frame
makes a false duplicate of that frame and of no other.

*Queues.* The ring is a bounded FIFO; AT+WHO lists the devices heard last, once
each and with the time of their last message, until the clock rolls over.

*Configuration.* A connected device has values AT+SET would accept, its radio
and its timer follow them whatever was set in whatever order, it looks for a
preamble within the time a peer sends one, and boots after a power failure on a
configuration that was stored whole, but maybe for the end of its key.

*Timers and radio.* Whatever the interrupts do: the alarm is set while the list
is not empty, and the end of an operation is reported twice only when the
interrupt of the radio falls inside `SX1272OnTimeoutIrq`, after its test of the
state (`EndsOnce`; `raced` records it). As long as no interrupt of the radio
stops the very timer the handler of the alarm is handling (`Undisturbed`): no
timer is dropped from the list or called early, and an operation is reported.

*Simulation.* The repetitive timer runs while the device is connected and, but
for an expiry under way at the last AT+DISCONNECT, only then. A main loop asleep with an
event in its queue is woken up by the next expiry, if there is room in the queue.

### Where the code departs from its comments

* `cad_flag` (`lowapp_sm.c:66`, `748`) is said to be read when IDLE is entered.
  Nothing reads it (`state_idle`, 758): a CADTIMEOUT outside IDLE is lost and
  that CAD skipped, and with it the frame whose preamble it would have found.
* `process_ack` (1230) re-initialises a connection when `rxdSeq` is *not* 0,
  which is when the first frame was lost; the comment (1233) assumes that it
  was 0. The sender goes back to 1, the receiver is past it, and the following
  frames are flagged as duplicates. The same happens when the receiver restarts.
* The duplicate test (953) is made after the test for a number beyond the
  expected one (939), which takes every number of the other side of the rollover:
  a frame 255 repeated when 1 is expected is reported as 254 missing frames
  instead of a duplicate. The receiver still expects 1 next: 947 makes 1 of 255.
* `timer.c:32` says that the head of the list always contains the next timer to
  expire. `TimerStop` of the only timer leaves its alarm set, and the handler of
  the alarm (206) works on the head of an empty list: it reads and writes
  through NULL.

Seen with TLC on variations of these instances and not kept as runs:

* across the rollover `missing_frames` is one too many (difference modulo 256 of
  numbers that cycle through 255), which `MissingExact` states as it is;
* a ping sent while a frame waits for its retry uses the number of that frame,
  which is then judged a duplicate (and no other, `OvertakenAlone`); its ACK takes the branch of which 1284 says
  "This should not happen";
* a frame given up after it went out makes the next message look like a
  duplicate;
* a CADTIMEOUT queued before AT+DISCONNECT still starts a CAD after it, which
  `cmd_disconnect` (1017) says it stops; and an expiry under way sets the timer
  again, so that a disconnected node of the simulation goes on listening until it
  is connected and disconnected again;
* `state_txing` arms no safeguard timer, although its comment (1105) says so: a
  driver that does not report leaves the node in TXING. `core_stalls` shows that
  the accounts stay right, not that the node recovers. On the hardware the
  timeout of the driver ends the transmission (`OperationEnds`);
* `RecordExact` fails when frames are repeated; `Agreement` does not;
* a radio interrupt between two steps of `TimerIrqHandler` that stops the timer
  being handled makes another timer expire early: `NeverEarly` fails without
  `Undisturbed`;
* an interrupt of the radio between the test of the state in `SX1272OnTimeoutIrq`
  (1186) and the report of the timeout reports the operation too: the core gets
  two ends. `EndsOnce` says that this is the only moment;
* AT+READCFG of a blank or half-written storage leaves a connected device with
  values AT+SET would refuse, and with derived values that no longer belong to
  them (`past` "misread"), against the comment of `cmd_set` (387-399);
* a power failure while the key is written leaves a configuration that passes
  `check_configuration` with the end of its key 0: the device says BOOT OK and
  understands nobody;
* with `Wraps`, a preamble time under 4.25 symbols gives a CAD interval of 35
  minutes: `CadCatchesPreamble` is false there. Run `config` has the conversion
  of the hardware, to 0;
* a main loop asleep on a full event queue sleeps for ever: `add_event` returns
  before `wakeup_sm`. `LateAtWorst` is stated with room in the queue. A node that
  is disconnected has no next expiry and may sleep with a command waiting. The
  main loop of the hardware (`main.c:40-63`) decides to sleep with the same gap,
  but there every interrupt wakes it.

## 4. Proofs

`LowappCore_proofs` proves for every size of the queues, number of retries, set
of commands and peers, and also for a radio that stalls and events that are
dropped:

| Theorem | States |
|---|---|
| `TypeCorrect` | `Spec => []TypeOK` |
| `HalfDuplex` | `Spec => RadioStartsAsleep` |
| `FormatCorrect` | `Spec => []RadioFormat` |
| `BackoffCorrect`, `UnblocksInTime` | `Spec => [](BackoffReleases /\ NoStaleUnblock)` |
| `FramesAccounted`, `RetriesBounded`, `AckPrepared` | `Spec => [](PendingAccounted /\ FrameWithinRetries /\ AckReady)` |

The assumption is `CoreAssumption` (positive sizes, distinct ids). The argument
rests on one invariant, `WakeInv`: at most one completion is waiting in the event
queue, and none while the radio or timer 1 is busy, which is at most one of the
two; with what phase and state go with a busy radio. It is the half of
`OneWakeUp` that survives dropped events, and it is what makes the others
inductive: an action that starts an operation has just consumed the only
completion, so the radio sleeps (`HalfDuplex`); a state is left by an event,
hence with no operation running, which is when formats are switched
(`FormatInv`); the exchange states are entered with timer 2 off, because the
block was lifted before (`BackoffInv`, which also follows TXUNBLOCK through the
queue); and the frame buffer is full in TXING and empty while the ACK is awaited
(`FrameInv`). Each invariant is proved with one step per action; the actions
that leave its variables alone are grouped.

`LowappWake_proofs` proves the other half:

| Theorem | States |
|---|---|
| `NeverStuck` | `EventQueueSize >= MaxPendingCad + 3 /\ ~RadioMayStall` gives `Spec => []OneWakeUp` |

Both assumptions are needed. What must be shown is that the end of an operation
always finds room in the event queue, so the proof counts what else may be in
it: CADTIMEOUTs, as many as assumed; STATE_ENTER only in RESTART, where nothing
is awaited; and TXUNBLOCKs, two at most (`RoomInv`). That count is inductive
because of the position of the TXUNBLOCKs: timer 2 is armed while none of them
is behind the completion, so the completion that brings the machine back to IDLE
leaves one behind it at most, and none if timer 2 is running (`OneLate`,
`Unblocks`). `Awaited` then says that what a state waits for is under way or in
the queue.

`RingQueue_proofs` and `StatQueue_proofs`, for every capacity, set of elements
and devices, and period of the clock:

| Theorem | States |
|---|---|
| `RingCorrect` | `Spec => []RingInv` |
| `RingImplementsFifo` | `Spec => ImplementsFifo` |
| `OneRecordForEach` | `StatSpec => []OneRecordEach` |
| `ListsMostRecent` | `StatSpec => []MostRecent` |
| `PacketsInOrder` | `StatSpec => ImplementsFifo` |

`RingInv` is inductive; the refinement maps `Add` to `Put` and `Get` to `Take`,
with lemmas on the slots of the contents after each. The record that is replaced
is the first of those seen least recently: that there is one is the
well-foundedness of the numbers; that every device left out was heard before all
those listed is part of the invariant.

`LowappConfig_proofs`, for every size of the key, all the values AT+SET is given
and, but for `CadCatches`, both conversions:

| Theorem | States |
|---|---|
| `ConnectedHasUsable` | `Spec => []ConnectedIsUsable` |
| `RadioHasSettings` | `Spec => []RadioFollows` |
| `BootsWithWhole` | `Spec => BootsWhole` |
| `ConfigTypeCorrect` | `Spec => []TypeOK` |
| `CadCatches` | `~Wraps` gives `Spec => []CadCatchesPreamble` |
| `CadCatchesLong` | `Spec => []LongPreamblesCaught` |

The invariant says of `node` that it is `myConfig` with its derived values,
connected or not, until READCFG reads what is not a configuration, and of the
storage, at each byte of a write, which bytes are old, erased and new.
`Tuned`, for the last theorem, says that the derived values are those of the
preamble time and spreading factor of `node`, and that a CAD timer that runs has
the interval of `node`. What remains is an inequality between two integer
divisions, proved for each spreading factor: the interval has 10 symbols less
than the preamble. `LongPreamblesCaught` says of preamble times of 4.25 symbols
and more what `CadCatchesPreamble` says of all; with `Wraps` it fails for shorter
ones.

`SimuLoop_proofs`, for every size of the queues: `ThreadsTypeCorrect`
(`Spec => []TypeOK`) and `ListeningFollowsConnection`
(`Spec => []ListensIfConnected`), from an invariant on who holds which mutex and
where the timer thread of a disconnected device can be.

`LowappLink_proofs`, for every width of the numbers, thresholds and number of
retries `LowappSeq` and `LowappLink` assume, and any number of messages:

| Theorem | States | For scenarios with |
|---|---|---|
| `LinkTypeCorrect` | `Spec => []TypeOK` | anything |
| `NodesAgree` | `Spec => Agreement` | `ScenariosCope` |
| `DuplicatesAreTrue` | `Spec => []NoFalseDuplicate` | `ScenariosCope` |
| `LossesCounted` | `Spec => []MissingExact` | `ScenariosCope` |
| `RecordFollows` | `Spec => RecordExact` | `ScenariosCope` |
| `RepetitionsFlagged` | `Spec => []DuplicatesFlagged` | `ScenariosTell` |

The hypotheses name what the numbers of the code do not survive: number 0, which
initialises the receiver, lost or received twice, and a receiver that restarts
(section 3, `link_first_lost`); and more losses than `Tolerance`, after which a
number that is ahead is taken for one that is behind. `Tolerance`
follows from the thresholds of `state_rxing` (25 with those of the source);
`PingTolerance` from the window of the duplicates (8). `MCLowappLink` assumes both of
the scenarios of run `link`, and TLC evaluates it: the run is an instance of the
theorems.

`Together` is the inductive invariant of the numbers: the next number of a
sender is what its peer expects or ahead of it, on the cycle, by the frames lost
at most (`Ahead`, with lemmas on the successor of each side), until an ACK
brings them together; with the mode of the scenario, which says whether number 0
may still be on its way. It is kept until a ping overtakes a frame. From it, no
verdict is a false duplicate. `CountedOnce` turns "ahead at most" into "exactly",
across rollovers, given that no message is received before it is sent (`Fresh`)
and that fewer frames are lost in a row than there are numbers (`FewLost`); short
of the rollover it adds that the record follows (`Recorded`). `Told` is another invariant, for repeated frames: a frame put off is
behind the next number by the pings that overtook it, which are few.

`Sx1272_proofs`, for every set of delays, radio timeout, CAD interval, bound on
the elapsed time and latency of the interrupt of the alarm:

| Theorem | States |
|---|---|
| `TimersTypeCorrect` | `Spec => []TypeOK` |
| `ReportedOnce` | `Spec => []EndsOnce` |
| `AlarmOfHead` | `Spec => []AlarmSet` |
| `KeptTimers` | `Spec => []NoneDropped` |
| `CalledWhenDue` | `Spec => NeverEarly` |

There is one invariant (`Inv`, in theorem `Invariance`), in four parts. `Ending`:
an operation under way is not reported yet, nor is one whose timeout is being
handled, unless the interrupt of the radio came in between (`raced`). `Alarmed`: the alarm follows the head
of the list. `Waiting`: the list has the timers somebody waits for, and the head
does not change while it is handled. `InTime`: what is left of a timer is at most
the sum of the relative times up to it. The last two hold until an interrupt
stops the timer being handled (`Undisturbed`), after which they do not: see
section 3. When a timer of the list is due is a sum, so most of the work is in
the lemmas that say what insertion, removal and the passing of time do to them
(`AreSums`). The sums are a recursive function over the positions of the list;
what holds of every position is proved by contradiction at the first one where
it does not (`LeastNumber`), since a theorem of induction cannot be instantiated.

Every invariant and action property of the passing runs is a theorem but
`OvertakenAlone`, whose proof would follow the numbers after a ping that
overtakes. Only model-checked beside it are the liveness properties, out of the reach of the prover
(`ReturnsToIdle`, `MessagesConclude`, `CommandsServed`, `PushDelivers`,
`OperationEnds`, `TimersExpire`, `LateAtWorst`); and what the runs that expect a
violation say, for which a counterexample is all there is to show.

## 5. Not modelled, and the plan

| Step | Module | Question |
|---|---|---|
| 1 | two nodes that run `LowappCore` | the slots of the ACK exchange, at the level of states and durations |
| 2 | proofs | `OvertakenAlone`, and the duplicates of `LowappLink` across the rollover |

Left out for good:

* the layout of frames, CRC, lists, log and JSON answers: formatting and pure
  conversions;
* the configuration file, the socket protocol and the console of the simulation:
  input and output, and the parsing of text;
* the parser of the AT commands, and AT+GETSTATS, which answers OK;
* the low power modes of the board and its main loop beyond the context the
  interrupts preempt;
* LoRaMac, the STM32 HAL and CMSIS, board bring-up, GPS and sensor applications:
  third party, vendored, or no protocol in them. They are nearly all of the lines
  of the repository, of which LoWAPP itself, with the two systems under it, is a
  small part;
* durations of the core, for which a timer may expire at any moment after it was
  armed: this includes every order the code can see, and more. The safeguard
  timers, 16 bits of milliseconds, do not hold 1.2 times the time on air for
  preambles of more than about 54 s (`lowapp_sm.c:237`); no model has these
  durations.
