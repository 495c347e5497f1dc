--------------------------- MODULE LowappWake_proofs ---------------------------
(***************************************************************************)
(* OneWakeUp for every number of CADTIMEOUT events that may wait: a queue  *)
(* with three entries more than that never drops the end of an operation,  *)
(* so no state is left waiting for ever, nor finds two ends.               *)
(*                                                                         *)
(* WakeInv has one half: at most one completion, and none while what it    *)
(* completes is under way.  The other half is that the completion is       *)
(* there when it no longer is (Awaited), which needs room for it: beside   *)
(* the CADTIMEOUT events there are at most two TXUNBLOCK (RoomInv), of     *)
(* which one at most can outlast the return to IDLE.                       *)
(***************************************************************************)
EXTENDS LowappCore_proofs, FiniteSetTheorems

USE DEF smVars, queueVars, frameVars, timerVars, appVars, radioVars
-------------------------------------------------------------------------------
(* Counting in the event queue.                                            *)

LEMMA ChosenFinite ==
  ASSUME NEW q \in Seq(Events), NEW T
  PROVE  LET chosen == {i \in DOMAIN q : q[i].type \in T}
         IN  IsFiniteSet(chosen) /\ Cardinality(chosen) \in Nat
<1> DEFINE chosen == {i \in DOMAIN q : q[i].type \in T}
<1>1. IsFiniteSet(1 .. Len(q)) /\ DOMAIN q = 1 .. Len(q)
  BY FS_Interval
<1>2. chosen \in SUBSET (1 .. Len(q))
  BY <1>1
<1>3. IsFiniteSet(chosen)
  BY <1>1, <1>2, FS_Subset
<1> QED BY <1>3, FS_CardinalityType

LEMMA QueuedFinite ==
  ASSUME TypeOK, NEW T
  PROVE  IsFiniteSet(Queued(T)) /\ Cardinality(Queued(T)) \in Nat
BY ChosenFinite DEF TypeOK, Queued

LEMMA QueuedFiniteNext ==
  ASSUME TypeOK', NEW T
  PROVE  IsFiniteSet(Queued(T)') /\ Cardinality(Queued(T)') \in Nat
BY ChosenFinite DEF TypeOK, Queued

(* add_event *)
LEMMA QueuedPosted ==
  ASSUME TypeOK, NEW e \in Events, Post(e), NEW T
  PROVE  /\ e.type \notin T => Queued(T)' = Queued(T)
         /\ Cardinality(Queued(T)') <= Cardinality(Queued(T)) + 1
         /\ Queued(T) # {} => Queued(T)' # {}
         /\ e.type \in T /\ Len(eventQ) < EventQueueSize => Queued(T)' # {}
<1>1. CASE ~(Len(eventQ) < EventQueueSize)
  <2>1. Queued(T)' = Queued(T)
    BY <1>1 DEF Post, Queued
  <2> QED BY <1>1, <2>1, QueuedFinite
<1>2. CASE Len(eventQ) < EventQueueSize
  <2>1. /\ DOMAIN eventQ = 1 .. Len(eventQ) /\ DOMAIN eventQ' = 1 .. Len(eventQ) + 1
        /\ Len(eventQ) \in Nat
        /\ \A i \in 1 .. Len(eventQ) : eventQ'[i] = eventQ[i]
        /\ eventQ'[Len(eventQ) + 1] = e
    BY <1>2 DEF TypeOK, Post
  <2>2. Queued(T)' = IF e.type \in T THEN Queued(T) \cup {Len(eventQ) + 1} ELSE Queued(T)
    BY <2>1 DEF Queued
  <2>3. Len(eventQ) + 1 \notin Queued(T)
    BY <2>1 DEF Queued
  <2>4. Cardinality(Queued(T) \cup {Len(eventQ) + 1}) = Cardinality(Queued(T)) + 1
    BY <2>3, QueuedFinite, FS_AddElement
  <2>5. CASE e.type \in T
    <3>1. Queued(T)' = Queued(T) \cup {Len(eventQ) + 1}
      BY <2>2, <2>5
    <3>2. Cardinality(Queued(T)') = Cardinality(Queued(T)) + 1
      BY <2>4, <3>1
    <3> QED BY <2>5, <3>1, <3>2, QueuedFinite
  <2>6. CASE e.type \notin T
    BY <2>2, <2>6, QueuedFinite
  <2> QED BY <2>5, <2>6
<1> QED BY <1>1, <1>2

(* get_event *)
LEMMA QueuedFetched ==
  ASSUME TypeOK, eventQ # <<>>, eventQ' = Tail(eventQ), NEW T
  PROVE  /\ Cardinality(Queued(T)') <= Cardinality(Queued(T))
         /\ Queued(T) = {} => Queued(T)' = {}
         /\ Head(eventQ).type \notin T /\ Queued(T) # {} => Queued(T)' # {}
<1>1. /\ DOMAIN eventQ = 1 .. Len(eventQ) /\ DOMAIN eventQ' = 1 .. Len(eventQ) - 1
      /\ Len(eventQ) \in Nat \ {0} /\ eventQ[1] = Head(eventQ)
      /\ \A i \in DOMAIN eventQ' : eventQ'[i] = eventQ[i + 1]
  BY DEF TypeOK
<1>2. \A i \in Queued(T)' : i \in Nat /\ i + 1 \in Queued(T)
  BY <1>1 DEF Queued
<1>3. Cardinality(Queued(T)') <= Cardinality(Queued(T))
  <2> DEFINE next == [i \in Queued(T)' |-> i + 1]
  <2>1. next \in [Queued(T)' -> Queued(T)]
    BY <1>2
  <2>2. \A i, j \in Queued(T)' : next[i] = next[j] => i = j
    BY <1>2
  <2>3. next \in Injection(Queued(T)', Queued(T))
    BY <2>1, <2>2 DEF Injection, IsInjective
  <2> QED BY <2>3, QueuedFinite, FS_Injection
<1>4. Queued(T) = {} => Queued(T)' = {}
  BY <1>2
<1>5. ASSUME Head(eventQ).type \notin T, NEW i \in Queued(T)
      PROVE  i - 1 \in Queued(T)'
  BY <1>1, <1>5 DEF Queued
<1> QED BY <1>3, <1>4, <1>5

LEMMA HeadQueued ==
  ASSUME TypeOK, eventQ # <<>>, NEW T, Head(eventQ).type \in T
  PROVE  1 \in Queued(T)
BY DEF TypeOK, Queued

LEMMA TailQueued ==
  ASSUME TypeOK, eventQ # <<>>, eventQ' = Tail(eventQ), NEW T
  PROVE  \A i \in Queued(T)' : i \in Nat /\ i > 0 /\ i + 1 \in Queued(T)
BY DEF TypeOK, Queued

LEMMA OneLeft ==
  ASSUME TypeOK, eventQ # <<>>, eventQ' = Tail(eventQ), NEW T,
         \A i, j \in Queued(T) : i = j
  PROVE  /\ \A i, j \in Queued(T)' : i = j
         /\ 1 \in Queued(T) => Queued(T)' = {}
<1>1. \A i \in Queued(T)' : i \in Nat /\ i > 0 /\ i + 1 \in Queued(T)
  BY TailQueued
<1> QED BY <1>1

LEMMA QueuedSame ==
  ASSUME UNCHANGED eventQ, NEW T
  PROVE  Queued(T)' = Queued(T)
BY DEF Queued

(* What the predicates on the queue say of the sets. *)
LEMMA Completing ==
  /\ CompletionWaiting <=> Queued(Completions) # {}
  /\ UnblockWaiting <=> Queued({"TXUNBLOCK"}) # {}
  /\ \A T \in SUBSET Completions : Queued(T) # {} => CompletionWaiting
BY DEF CompletionWaiting, UnblockWaiting, Queued

LEMMA RestartedSets ==
  Restarted =>
    /\ Queued({"STATE_ENTER"}) = {1} /\ Queued({"TXUNBLOCK"}) = {}
    /\ Queued({"CADTIMEOUT"}) = {} /\ Queued(Completions) = {}
BY DEF Restarted, Queued, Simple, Completions

LEMMA RestartedSetsNext ==
  ASSUME Restarted'
  PROVE  /\ Queued({"STATE_ENTER"})' = {1} /\ Queued({"TXUNBLOCK"})' = {}
         /\ Queued({"CADTIMEOUT"})' = {} /\ Queued(Completions)' = {}
BY DEF Restarted, Queued, Simple, Completions

(* A set of one element at most. *)
LEMMA AtMostOne ==
  ASSUME NEW S, IsFiniteSet(S), \A x, y \in S : x = y
  PROVE  Cardinality(S) <= 1 /\ (S # {} => Cardinality(S) = 1)
<1>1. CASE S = {}
  BY <1>1, FS_EmptySet
<1>2. CASE S # {}
  <2>1. PICK x : x \in S
    BY <1>2
  <2>2. S = {x}
    BY <2>1
  <2> QED BY <2>2, FS_Singleton
<1> QED BY <1>1, <1>2
-------------------------------------------------------------------------------
(* Room.                                                                   *)

CadRoom == Cardinality(Queued({"CADTIMEOUT"})) <= MaxPendingCad

(* STATE_ENTER waits in RESTART only, alone or before CADTIMEOUT events. *)
EnterRoom ==
  /\ \A i, j \in Queued({"STATE_ENTER"}) : i = j
  /\ state = "RESTART" <=> Queued({"STATE_ENTER"}) # {}
  /\ state = "RESTART" => Queued({"TXUNBLOCK"}) = {}

(* Of the TXUNBLOCK events one at most is behind a completion. *)
OneLate ==
  \A i, j \in Queued({"TXUNBLOCK"}) : \A k \in Queued(Completions) :
    k < i /\ k < j => i = j

Unblocks == Cardinality(Queued({"TXUNBLOCK"})) + (IF timer2 THEN 1 ELSE 0)

UnblockRoom == OneLate /\ Unblocks <= IF state = "IDLE" THEN 1 ELSE 2

RoomInv == CadRoom /\ EnterRoom /\ UnblockRoom

(* The steps as the event queue sees them.                                 *)

(* IDLE starts something, or nothing of interest changes. *)
Kept == \/ UNCHANGED <<state, timer2>>
        \/ state = "IDLE" /\ state' \notin {"IDLE", "RESTART"}

Taken == eventQ # <<>> /\ eventQ' = Tail(eventQ)

Quiet == UNCHANGED eventQ /\ Kept

(* An event that completes nothing, handled by IDLE or dropped. *)
Drops ==
  Taken /\ Kept /\ (state = "RESTART" => Head(eventQ).type # "STATE_ENTER")

Completes ==
  /\ Taken /\ Head(eventQ).type \in Completions
  /\ state \notin {"IDLE", "RESTART"} /\ state' # "RESTART"
  /\ timer2' => timer2 \/ state \in Exchange

Starts ==
  /\ Taken /\ Head(eventQ).type = "STATE_ENTER"
  /\ state = "RESTART" /\ state' = "IDLE" /\ UNCHANGED timer2

Posts(e) ==
  /\ Post(e) /\ e.type # "STATE_ENTER" /\ UNCHANGED state
  /\ e.type = "CADTIMEOUT" => PendingCad < MaxPendingCad
  /\ e.type \in Completions => ~CompletionWaiting /\ state # "RESTART"
  /\ IF e.type = "TXUNBLOCK" THEN timer2 /\ ~timer2' ELSE UNCHANGED timer2

Restarts == Restarted' /\ state' = "RESTART" /\ ~timer2'

LEMMA QueueStep ==
  ASSUME CoreAssumption, TypeOK, WakeInv, Next
  PROVE  \/ Quiet \/ Drops \/ Completes \/ Starts \/ Restarts
         \/ \E e \in Events : Posts(e)
<1> USE DEF Kept, Taken, Goto, Stay
<1>1. CASE IdleEnter \/ IdleRxAt \/ CommandsDone \/ CmdSend
           \/ CmdPollRx \/ CmdSetMode \/ CmdDisconnect \/ CmdConnect \/ CmdPing
           \/ PingSent \/ PingOver \/ TxingEnter \/ WaitEnter \/ RxingEnter
           \/ RxingAckEnter \/ CadEnter \/ RadioPingEnds \/ RadioStalls
           \/ AppCommand \/ AppNotify
  BY <1>1 DEF Quiet, IdleEnter, FetchCold, IdleRxAt, CommandsDone, CmdSend,
     NextCommand, CmdPollRx, CmdSetMode, CmdDisconnect, CmdConnect, CmdPing, PingSent,
     PingOver, TxingEnter, WaitEnter, RxingEnter, RxingAckEnter, CadEnter,
     RadioPingEnds, RadioStalls, AppCommand, AppNotify
<1>2. CASE IdleTx \/ IdleTxReq
  BY <1>2 DEF Quiet, IdleTx, IdleTxReq, FetchCold, TrySend, TryTxFromQueue,
     TryTxFrame, StartTx, PutOff, GiveUp, WakeInv
<1>3. CASE IdleTxUnblock
  BY <1>3 DEF Drops, IdleTxUnblock, Fetch, TrySend, TryTxFromQueue,
     TryTxFrame, StartTx, PutOff, GiveUp
<1>4. CASE IdleCadTimeout
  BY <1>4 DEF Drops, IdleCadTimeout, Fetch
<1>5. CASE IgnoreEvent
  BY <1>5 DEF Drops, IgnoreEvent, Handled
<1>6. CASE RestartEnter
  BY <1>6 DEF Starts, RestartEnter, Fetch
<1>7. CASE CadDone \/ RxingMsg \/ RxingFails \/ SkippingTimeout \/ SendAck
           \/ TxingAckOver \/ TxingDone \/ TxingTimeout \/ WaitBeforeTimeout
           \/ RxingAckOver
  BY <1>7 DEF Completes, Completions, Fetch, CadDone, RxingMsg, RxingFails,
     SkippingTimeout, SendAck, TxingAckOver, TxingDone, TxingTimeout,
     WaitBeforeTimeout, RxingAckOver, Exchange
<1>8. CASE RadioTxEnds \/ RadioCadEnds \/ RadioRxEnds
  BY <1>8, PostedEvents, EventTypes DEF Posts, WakeInv, Pinging, RadioTxEnds, RadioCadEnds, RadioRxEnds, RadioEnds
<1>9. CASE Timer1Expires \/ Timer2Expires \/ CadTimerExpires
  BY <1>9, PostedEvents, EventTypes DEF Posts, WakeInv, Timer1Expires, Timer2Expires, CadTimerExpires
<1>10. CASE CmdReset
  BY <1>10 DEF Restarts, CmdReset, Restarted
<1> QED BY <1>1, <1>2, <1>3, <1>4, <1>5, <1>6, <1>7, <1>8, <1>9, <1>10
        DEF Next, SmRun, RadioCallbacks

LEMMA CadRoomStep ==
  ASSUME CoreAssumption, TypeOK, WakeInv, CadRoom, Next
  PROVE  CadRoom'
<1> DEFINE T == {"CADTIMEOUT"}
<1>1. Cardinality(Queued(T)) = PendingCad
  BY DEF Queued, PendingCad
<1>2. MaxPendingCad \in Nat /\ Cardinality(Queued(T)) \in Nat
  BY QueuedFinite DEF CoreAssumption
<1>3. Cardinality(Queued(T)') \in Nat
  BY TypeStep, QueuedFiniteNext
<1>4. CASE UNCHANGED eventQ
  BY <1>4, QueuedSame DEF CadRoom
<1>5. CASE Taken
  <2>1. Cardinality(Queued(T)') <= Cardinality(Queued(T))
    BY <1>5, QueuedFetched DEF Taken
  <2> QED BY <1>2, <1>3, <2>1 DEF CadRoom
<1>6. ASSUME NEW e \in Events, Posts(e)
      PROVE  CadRoom'
  <2>1. CASE e.type \notin T
    BY <1>6, <2>1, QueuedPosted DEF Posts, CadRoom
  <2>2. CASE e.type \in T
    <3>1. Cardinality(Queued(T)') <= Cardinality(Queued(T)) + 1
      BY <1>6, QueuedPosted DEF Posts
    <3>2. Cardinality(Queued(T)) < MaxPendingCad
      BY <1>1, <1>6, <2>2 DEF Posts
    <3> QED BY <1>2, <1>3, <3>1, <3>2 DEF CadRoom
  <2> QED BY <2>1, <2>2
<1>7. CASE Restarts
  BY <1>2, <1>7, RestartedSetsNext, FS_EmptySet DEF Restarts, CadRoom
<1> QED BY <1>4, <1>5, <1>6, <1>7, QueueStep DEF Quiet, Drops, Completes, Starts

LEMMA EnterRoomStep ==
  ASSUME CoreAssumption, TypeOK, WakeInv, BackoffInv, EnterRoom, Next
  PROVE  EnterRoom'
<1> DEFINE E == Queued({"STATE_ENTER"})
           U == Queued({"TXUNBLOCK"})
<1>1. CASE Quiet
  <2>1. E' = E /\ U' = U
    BY <1>1, QueuedSame DEF Quiet
  <2> QED BY <1>1, <2>1 DEF EnterRoom, Quiet, Kept
<1>2. CASE Taken /\ Head(eventQ).type # "STATE_ENTER"
           /\ (state' = "RESTART" <=> state = "RESTART")
  <2>1. E # {} => E' # {}
    BY <1>2, QueuedFetched DEF Taken
  <2>2. (E = {} => E' = {}) /\ (U = {} => U' = {})
    BY <1>2, QueuedFetched DEF Taken
  <2>3. \A i, j \in E' : i = j
    BY <1>2, OneLeft DEF EnterRoom, Taken
  <2> QED BY <1>2, <2>1, <2>2, <2>3 DEF EnterRoom
<1>3. CASE Drops /\ Head(eventQ).type = "STATE_ENTER"
  <2>1. E = {}
    BY <1>3 DEF Drops, EnterRoom
  <2> QED BY <1>3, <2>1, HeadQueued DEF Drops, Taken
<1>4. CASE Starts
  <2>1. E' = {}
    BY <1>4, HeadQueued, OneLeft DEF Starts, Taken, EnterRoom
  <2> QED BY <1>4, <2>1 DEF Starts, EnterRoom
<1>5. ASSUME NEW e \in Events, Posts(e)
      PROVE  EnterRoom'
  <2>1. E' = E
    BY <1>5, QueuedPosted DEF Posts
  <2>2. state = "RESTART" => U' = U
    BY <1>5, QueuedPosted DEF Posts, BackoffInv
  <2> QED BY <1>5, <2>1, <2>2 DEF Posts, EnterRoom
<1>6. CASE Restarts
  BY <1>6, RestartedSetsNext DEF Restarts, EnterRoom
<1> QED BY <1>1, <1>2, <1>3, <1>4, <1>5, <1>6, QueueStep
        DEF Drops, Completes, Kept, Completions

(* TXUNBLOCK is posted only while none is behind a completion. *)
LEMMA LatePosted ==
  ASSUME TypeOK, OneLate, NEW e \in Events, Post(e),
         e.type = "TXUNBLOCK" => UnblockFirst
  PROVE  OneLate'
<1>1. CASE UNCHANGED eventQ
  BY <1>1, QueuedSame DEF OneLate
<1>2. CASE eventQ' = Append(eventQ, e)
  <2>1. /\ DOMAIN eventQ = 1 .. Len(eventQ) /\ DOMAIN eventQ' = 1 .. Len(eventQ) + 1
        /\ Len(eventQ) \in Nat
        /\ \A i \in 1 .. Len(eventQ) : eventQ'[i] = eventQ[i]
        /\ eventQ'[Len(eventQ) + 1] = e
    BY <1>2 DEF TypeOK
  <2>2. SUFFICES ASSUME NEW i \in Queued({"TXUNBLOCK"})', NEW j \in Queued({"TXUNBLOCK"})',
                        NEW k \in Queued(Completions)', k < i, k < j
                 PROVE  i = j
    BY DEF OneLate
  <2>3. k # Len(eventQ) + 1
    BY <2>1, <2>2 DEF Queued
  <2>4. k \in Queued(Completions)
    BY <2>1, <2>3 DEF Queued
  <2>5. CASE i \in DOMAIN eventQ /\ j \in DOMAIN eventQ
    <3>1. i \in Queued({"TXUNBLOCK"}) /\ j \in Queued({"TXUNBLOCK"})
      BY <2>1, <2>5 DEF Queued
    <3> QED BY <2>2, <2>4, <3>1 DEF OneLate
  <2>6. CASE e.type # "TXUNBLOCK"
    <3>1. i # Len(eventQ) + 1 /\ j # Len(eventQ) + 1
      BY <2>1, <2>6 DEF Queued
    <3> QED BY <2>1, <2>5, <3>1 DEF Queued
  <2>7. CASE e.type = "TXUNBLOCK"
    <3>1. \A n \in DOMAIN eventQ : eventQ[n].type = "TXUNBLOCK" => n < k
      BY <2>4, <2>7 DEF UnblockFirst, Queued
    <3>2. \A n \in Queued({"TXUNBLOCK"})' : n > k => n = Len(eventQ) + 1
      BY <2>1, <2>4, <3>1 DEF Queued
    <3> QED BY <2>1, <2>2, <2>4, <3>2 DEF Queued
  <2> QED BY <2>5, <2>6, <2>7
<1> QED BY <1>1, <1>2 DEF Post

LEMMA LateFetched ==
  ASSUME TypeOK, OneLate, Taken
  PROVE  OneLate'
<1>1. \A T : \A i \in Queued(T)' : i \in Nat /\ i > 0 /\ i + 1 \in Queued(T)
  BY TailQueued DEF Taken
<1>2. SUFFICES ASSUME NEW i \in Queued({"TXUNBLOCK"})', NEW j \in Queued({"TXUNBLOCK"})',
                      NEW k \in Queued(Completions)', k < i, k < j
               PROVE  i = j
  BY DEF OneLate
<1>3. /\ i + 1 \in Queued({"TXUNBLOCK"}) /\ j + 1 \in Queued({"TXUNBLOCK"})
      /\ k + 1 \in Queued(Completions)
      /\ i \in Nat /\ j \in Nat /\ k \in Nat
  BY <1>1
<1>4. i + 1 = j + 1
  BY <1>2, <1>3 DEF OneLate
<1> QED BY <1>3, <1>4

(* What the completion leaves of them when it is taken. *)
LEMMA CompletionTaken ==
  ASSUME CoreAssumption, TypeOK, TypeOK', OneLate, Taken, Head(eventQ).type \in Completions
  PROVE  /\ Cardinality(Queued({"TXUNBLOCK"})') <= 1
         /\ UnblockFirst => Cardinality(Queued({"TXUNBLOCK"})') = 0
<1> DEFINE U == Queued({"TXUNBLOCK"})
<1>1. \A i \in U' : i \in Nat /\ i > 0 /\ i + 1 \in U
  BY TailQueued DEF Taken
<1>2. 1 \in Queued(Completions)
  BY HeadQueued DEF Taken
<1>3. \A i, j \in U' : i = j
  <2>1. \A i, j \in U' : i + 1 = j + 1
    BY <1>1, <1>2 DEF OneLate
  <2> QED BY <1>1, <2>1
<1>4. Cardinality(U') <= 1
  BY <1>3, QueuedFiniteNext, AtMostOne
<1>5. ASSUME UnblockFirst PROVE U' = {}
  BY <1>1, <1>2, <1>5 DEF UnblockFirst, Queued
<1> QED BY <1>4, <1>5, FS_EmptySet

LEMMA UnblockRoomStep ==
  ASSUME CoreAssumption, TypeOK, WakeInv, BackoffInv, EnterRoom, UnblockRoom, Next
  PROVE  UnblockRoom'
<1> DEFINE n == Cardinality(Queued({"TXUNBLOCK"}))
<1>0. TypeOK' /\ n \in Nat /\ n' \in Nat
  BY TypeStep, QueuedFinite, QueuedFiniteNext
<1> HIDE DEF n
<1>1. ASSUME n' <= n, Kept PROVE Unblocks' <= IF state' = "IDLE" THEN 1 ELSE 2
  BY <1>0, <1>1 DEF Kept, UnblockRoom, Unblocks, n
<1>2. CASE Quiet
  <2>1. n' = n
    BY <1>2, QueuedSame DEF Quiet, n
  <2>2. OneLate'
    BY <1>2, QueuedSame DEF Quiet, OneLate, UnblockRoom
  <2> QED BY <1>0, <1>1, <1>2, <2>1, <2>2 DEF Quiet, UnblockRoom
<1>3. CASE Drops
  <2>1. n' <= n
    BY <1>3, QueuedFetched DEF Drops, Taken, n
  <2> QED BY <1>1, <1>3, <2>1, LateFetched DEF Drops, UnblockRoom
<1>4. CASE Completes
  <2>1. n' <= 1 /\ (UnblockFirst => n' = 0)
    BY <1>0, <1>4, CompletionTaken DEF Completes, UnblockRoom, n
  <2>2. timer2' => UnblockFirst
    BY <1>4 DEF Completes, BackoffInv, BackoffReleases
  <2>3. Unblocks' <= 1
    BY <1>0, <2>1, <2>2 DEF Unblocks, n
  <2>4. Unblocks' \in Int
    BY <1>0 DEF Unblocks, n
  <2> QED BY <1>4, <2>3, <2>4, LateFetched DEF Completes, UnblockRoom
<1>5. CASE Starts
  <2>1. n' <= n
    BY <1>5, QueuedFetched DEF Starts, Taken, n
  <2>2. n = 0
    BY <1>5, FS_EmptySet DEF Starts, EnterRoom, n
  <2>3. ~timer2'
    BY <1>5 DEF Starts, BackoffInv
  <2> QED BY <1>0, <1>5, <2>1, <2>2, <2>3, LateFetched DEF Starts, UnblockRoom, Unblocks, n
<1>6. ASSUME NEW e \in Events, Posts(e)
      PROVE  UnblockRoom'
  <2>1. e.type = "TXUNBLOCK" => UnblockFirst
    BY <1>6 DEF Posts, BackoffInv, BackoffReleases
  <2>2. OneLate'
    BY <1>6, <2>1, LatePosted DEF UnblockRoom, Posts
  <2>3. CASE e.type = "TXUNBLOCK"
    <3>1. n' <= n + 1
      BY <1>6, QueuedPosted DEF Posts, n
    <3> QED BY <1>0, <1>6, <2>2, <2>3, <3>1 DEF Posts, UnblockRoom, Unblocks, n
  <2>4. CASE e.type # "TXUNBLOCK"
    <3>1. n' = n
      BY <1>6, <2>4, QueuedPosted DEF Posts, n
    <3> QED BY <1>6, <2>2, <2>4, <3>1 DEF Posts, UnblockRoom, Unblocks, n
  <2> QED BY <2>3, <2>4
<1>7. CASE Restarts
  <2>1. n' = 0
    BY <1>7, RestartedSetsNext, FS_EmptySet DEF Restarts, n
  <2>2. OneLate'
    BY <1>7, RestartedSetsNext DEF Restarts, OneLate
  <2> QED BY <1>7, <2>1, <2>2 DEF Restarts, UnblockRoom, Unblocks, n
<1> QED BY <1>2, <1>3, <1>4, <1>5, <1>6, <1>7, QueueStep

(* What may wait beside a completion leaves room for it. *)
LEMMA RoomForCompletion ==
  ASSUME CoreAssumption, TypeOK, RoomInv, ~CompletionWaiting, state # "RESTART",
         EventQueueSize >= MaxPendingCad + 3
  PROVE  Len(eventQ) < EventQueueSize
<1> DEFINE C == Queued({"CADTIMEOUT"})
           U == Queued({"TXUNBLOCK"})
<1>1. DOMAIN eventQ = 1 .. Len(eventQ) /\ Len(eventQ) \in Nat
  BY DEF TypeOK
<1>2. DOMAIN eventQ \subseteq C \cup U
  <2>1. \A i \in DOMAIN eventQ : eventQ[i] \in Events
    BY DEF TypeOK
  <2>2. \A i \in DOMAIN eventQ : eventQ[i].type \in {"CADTIMEOUT", "TXUNBLOCK",
                                                     "STATE_ENTER"} \cup Completions
    BY <2>1 DEF Events, Completions
  <2>3. \A i \in DOMAIN eventQ : eventQ[i].type # "STATE_ENTER"
    BY DEF RoomInv, EnterRoom, Queued
  <2> QED BY <2>2, <2>3 DEF CompletionWaiting, Queued
<1>3. IsFiniteSet(C) /\ IsFiniteSet(U) /\ Cardinality(C) \in Nat /\ Cardinality(U) \in Nat
  BY QueuedFinite
<1>4. Cardinality(C) <= MaxPendingCad
  BY DEF RoomInv, CadRoom
<1>5. Cardinality(U) <= 2
  BY <1>3 DEF RoomInv, UnblockRoom, Unblocks
<1>6. /\ IsFiniteSet(C \cup U)
      /\ Cardinality(C \cup U) = Cardinality(C) + Cardinality(U) - Cardinality(C \cap U)
  BY <1>3, FS_Union
<1>7. Cardinality(C \cap U) \in Nat
  BY <1>3, FS_Intersection, FS_CardinalityType
<1>8. Cardinality(DOMAIN eventQ) = Len(eventQ)
  BY <1>1, FS_Interval
<1>9. Cardinality(DOMAIN eventQ) <= Cardinality(C \cup U)
  BY <1>2, <1>6, FS_Subset
<1>10. MaxPendingCad \in Nat /\ EventQueueSize \in Nat
  BY DEF CoreAssumption
<1> HIDE DEF C, U
<1> QED BY <1>1, <1>3, <1>4, <1>5, <1>6, <1>7, <1>8, <1>9, <1>10
-------------------------------------------------------------------------------
(* The completion is there.                                                *)

TxEnds == {"TXDONE", "TXTIMEOUT"}
RxEnds == {"RXMSG", "RXERROR", "RXTIMEOUT"}
Delays == {"SKIPPING_ACK", "WAIT_SLOT_TX_ACK", "WAIT_BEFORE_LISTENING_FOR_ACK"}

(* Nothing is waited for that is not under way or waiting in the queue. *)
Awaited ==
  /\ state \in {"TXING", "TXING_ACK"} => radio = "TX" \/ Queued(TxEnds) # {}
  /\ phase = "fetch" =>
       /\ state \in {"RXING", "RXING_ACK"} => radio = "RX" \/ Queued(RxEnds) # {}
       /\ state = "CAD" => radio = "CAD" \/ Queued({"CADDONE"}) # {}
       /\ state \in Delays => timer1 \/ Queued({"TIMEOUT"}) # {}

(* The end of an operation under way finds room. *)
LEMMA EndPosted ==
  ASSUME CoreAssumption, TypeOK, WakeInv, RoomInv,
         EventQueueSize >= MaxPendingCad + 3,
         (radio # "SLEEP" /\ ~Pinging) \/ timer1,
         NEW e \in Events, Post(e), NEW T, e.type \in T
  PROVE  Queued(T)' # {}
<1>1. ~CompletionWaiting /\ state # "RESTART"
  BY DEF WakeInv
<1> QED BY <1>1, RoomForCompletion, QueuedPosted

LEMMA AwaitedStep ==
  ASSUME CoreAssumption, TypeOK, WakeInv, RoomInv, Awaited, Next,
         EventQueueSize >= MaxPendingCad + 3, ~RadioMayStall
  PROVE  Awaited'
<1> USE DEF Awaited, Delays, WakeInv, Pinging, Goto, Stay
<1>0. \A T : UNCHANGED eventQ => Queued(T)' = Queued(T)
  BY QueuedSame
<1>1. CASE IdleEnter \/ IdleRxAt \/ CommandsDone \/ CmdSend \/ CmdPollRx
           \/ CmdSetMode \/ CmdDisconnect \/ CmdConnect \/ CmdPing \/ PingSent
           \/ PingOver \/ IdleTx \/ IdleTxReq \/ IdleTxUnblock \/ IdleCadTimeout
           \/ RestartEnter \/ CmdReset
  BY <1>1 DEF IdleEnter, FetchCold, IdleRxAt, CommandsDone, CmdSend, NextCommand,
     CmdPollRx, CmdSetMode, CmdDisconnect, CmdConnect, CmdPing, PingSent, PingOver,
     IdleTx, IdleTxReq, IdleTxUnblock, IdleCadTimeout, RestartEnter, CmdReset, Fetch,
     TrySend, TryTxFromQueue, TryTxFrame, StartTx, PutOff, GiveUp
<1>2. CASE TxingEnter \/ WaitEnter \/ RxingEnter \/ RxingAckEnter \/ CadEnter
  BY <1>0, <1>2 DEF TxingEnter, WaitEnter, RxingEnter, RxingAckEnter, CadEnter
<1>3. CASE CadDone \/ RxingMsg \/ RxingFails \/ SkippingTimeout \/ SendAck
           \/ TxingAckOver \/ TxingDone \/ TxingTimeout \/ WaitBeforeTimeout
           \/ RxingAckOver
  BY <1>3 DEF Fetch, CadDone, RxingMsg, RxingFails, SkippingTimeout, SendAck,
     TxingAckOver, TxingDone, TxingTimeout, WaitBeforeTimeout, RxingAckOver
<1>4. CASE IgnoreEvent
  <2>1. \A T : Head(eventQ).type \notin T /\ Queued(T) # {} => Queued(T)' # {}
    BY <1>4, QueuedFetched DEF IgnoreEvent
  <2>2. CASE state \in {"TXING", "TXING_ACK"}
    <3>1. Head(eventQ).type \notin TxEnds
      BY <1>4, <2>2 DEF IgnoreEvent, Handled, TxEnds
    <3> QED BY <1>4, <2>1, <2>2, <3>1 DEF IgnoreEvent
  <2>3. CASE state \in {"RXING", "RXING_ACK"}
    <3>1. Head(eventQ).type \notin RxEnds
      BY <1>4, <2>3 DEF IgnoreEvent, Handled, RxEnds
    <3> QED BY <1>4, <2>1, <2>3, <3>1 DEF IgnoreEvent
  <2>4. CASE state = "CAD"
    <3>1. Head(eventQ).type \notin {"CADDONE"}
      BY <1>4, <2>4 DEF IgnoreEvent, Handled
    <3> QED BY <1>4, <2>1, <2>4, <3>1 DEF IgnoreEvent
  <2>5. CASE state \in Delays
    <3>1. Head(eventQ).type \notin {"TIMEOUT"}
      BY <1>4, <2>5 DEF IgnoreEvent, Handled
    <3> QED BY <1>4, <2>1, <2>5, <3>1 DEF IgnoreEvent
  <2>6. CASE state \in {"IDLE", "RESTART"}
    BY <1>4, <2>6 DEF IgnoreEvent
  <2> QED BY <2>2, <2>3, <2>4, <2>5, <2>6 DEF TypeOK, States
<1>5. ASSUME NEW op, NEW ends \in SUBSET Events, RadioEnds(op, ends), op # "SLEEP",
             NEW T, \A e \in ends : e.type \in T,
             CASE op = "TX" -> T = TxEnds [] op = "RX" -> T = RxEnds
               [] op = "CAD" -> T = {"CADDONE"},
             op \in {"TX", "RX", "CAD"}
      PROVE  Awaited'
  <2>1. PICK e \in ends : Post(e)
    BY <1>5 DEF RadioEnds
  <2>2. Queued(T)' # {}
    BY <1>5, <2>1, EndPosted DEF RadioEnds
  <2>3. \A S : Queued(S) # {} => Queued(S)' # {}
    BY <1>5, <2>1, QueuedPosted
  <2> QED BY <1>5, <2>2, <2>3 DEF RadioEnds
<1>6. CASE RadioTxEnds
  <2> DEFINE ends == {Simple("TXDONE"), Simple("TXTIMEOUT")}
  <2>1. ends \in SUBSET Events /\ \A e \in ends : e.type \in TxEnds
    BY PostedEvents DEF TxEnds
  <2>2. RadioEnds("TX", ends)
    BY <1>6 DEF RadioTxEnds
  <2> HIDE DEF ends
  <2> QED BY <1>5, <2>1, <2>2
<1>7. CASE RadioRxEnds
  <2> DEFINE ends == [type : {"RXMSG"}, data : FrameKinds] \cup
                     {Simple("RXERROR"), Simple("RXTIMEOUT")}
  <2>1. ends \in SUBSET Events /\ \A e \in ends : e.type \in RxEnds
    BY PostedEvents DEF RxEnds
  <2>2. RadioEnds("RX", ends)
    BY <1>7 DEF RadioRxEnds
  <2> HIDE DEF ends
  <2> QED BY <1>5, <2>1, <2>2
<1>8. CASE RadioCadEnds
  <2> DEFINE ends == [type : {"CADDONE"}, data : {"busy", "clear"}]
  <2>1. ends \in SUBSET Events /\ \A e \in ends : e.type \in {"CADDONE"}
    BY PostedEvents
  <2>2. RadioEnds("CAD", ends)
    BY <1>8 DEF RadioCadEnds
  <2> HIDE DEF ends
  <2> QED BY <1>5, <2>1, <2>2
<1>9. CASE Timer1Expires
  <2>1. Queued({"TIMEOUT"})' # {}
    BY <1>9, PostedEvents, EndPosted DEF Timer1Expires
  <2>2. \A S : Queued(S) # {} => Queued(S)' # {}
    BY <1>9, PostedEvents, QueuedPosted DEF Timer1Expires
  <2> QED BY <1>9, <2>1, <2>2 DEF Timer1Expires
<1>10. CASE Timer2Expires \/ CadTimerExpires
  <2>1. \A S : Queued(S) # {} => Queued(S)' # {}
    BY <1>10, PostedEvents, QueuedPosted DEF Timer2Expires, CadTimerExpires
  <2> QED BY <1>10, <2>1 DEF Timer2Expires, CadTimerExpires
<1>11. CASE RadioPingEnds \/ RadioStalls \/ AppCommand \/ AppNotify
  BY <1>0, <1>11 DEF RadioPingEnds, RadioStalls, AppCommand, AppNotify
<1> QED BY <1>1, <1>2, <1>3, <1>4, <1>6, <1>7, <1>8, <1>9, <1>10, <1>11
        DEF Next, SmRun, RadioCallbacks

LEMMA WaitsFromSets ==
  ASSUME TypeOK, OneCompletion, NEW running \in BOOLEAN, NEW T \in SUBSET Completions,
         running => ~CompletionWaiting, running \/ Queued(T) # {}
  PROVE  Waits(running, T)
<1> DEFINE C == Queued(Completions)
<1>1. CASE running
  <2>1. C = {}
    BY <1>1, Completing
  <2> QED BY <1>1, <2>1, FS_EmptySet DEF Waits
<1>2. CASE ~running
  <2>1. C # {}
    BY <1>2, Completing
  <2>2. \A i, j \in C : i = j
    BY DEF OneCompletion, Queued
  <2>3. Cardinality(C) = 1
    BY <2>1, <2>2, QueuedFinite, AtMostOne
  <2> QED BY <1>2, <2>3 DEF Waits
<1> QED BY <1>1, <1>2

LEMMA OneWakeUpHolds ==
  ASSUME TypeOK, WakeInv, EnterRoom, Awaited
  PROVE  OneWakeUp
<1>1. ~CompletionWaiting => Queued(Completions) = {}
  BY Completing
<1>2. /\ TxEnds \in SUBSET Completions /\ RxEnds \in SUBSET Completions
      /\ {"CADDONE"} \in SUBSET Completions /\ {"TIMEOUT"} \in SUBSET Completions
  BY DEF TxEnds, RxEnds, Completions
<1>3. OneCompletion /\ \A op \in {"TX", "RX", "CAD"} : radio = op => ~CompletionWaiting
  BY DEF WakeInv
<1>4. timer1 \in BOOLEAN /\ (timer1 => ~CompletionWaiting)
  BY DEF WakeInv, TypeOK
<1>5. state \in {"TXING", "TXING_ACK"} => Waits(radio = "TX", TxEnds)
  BY <1>2, <1>3, WaitsFromSets DEF Awaited
<1>6. phase = "fetch" /\ state \in {"RXING", "RXING_ACK"} => Waits(radio = "RX", RxEnds)
  BY <1>2, <1>3, WaitsFromSets DEF Awaited
<1>7. phase = "fetch" /\ state = "CAD" => Waits(radio = "CAD", {"CADDONE"})
  BY <1>2, <1>3, WaitsFromSets DEF Awaited
<1>8. phase = "fetch" /\ state \in Delays => Waits(timer1, {"TIMEOUT"})
  BY <1>2, <1>3, <1>4, WaitsFromSets DEF Awaited
<1>9. state = "RESTART" => Queued({"STATE_ENTER"}) # {}
  BY DEF EnterRoom
<1> QED BY <1>1, <1>5, <1>6, <1>7, <1>8, <1>9
        DEF OneWakeUp, WakeInv, Pinging, TxEnds, RxEnds, Delays

WakeRoomInv == RoomInv /\ Awaited

LEMMA WakeRoomInit ==
  ASSUME CoreAssumption, Init
  PROVE  WakeRoomInv
<1>1. Restarted /\ state = "RESTART" /\ timer2 = FALSE
  BY DEF Init, Restarted
<1>2. CadRoom
  BY <1>1, RestartedSets, FS_EmptySet DEF CadRoom, CoreAssumption
<1>3. EnterRoom
  BY <1>1, RestartedSets DEF EnterRoom
<1>4. UnblockRoom
  BY <1>1, RestartedSets, FS_EmptySet DEF UnblockRoom, OneLate, Unblocks
<1>5. Awaited
  BY <1>1 DEF Awaited, Delays
<1> QED BY <1>2, <1>3, <1>4, <1>5 DEF WakeRoomInv, RoomInv

(* The machine is never left waiting for an event that is not on its way,  *)
(* nor does it find two, whatever the application, the radio and the       *)
(* timers do: if the event queue has three entries more than there may be  *)
(* CADTIMEOUT events waiting, and the radio always reports.  What add_event *)
(* drops when the queue is full is then never the end of an operation.     *)
THEOREM NeverStuck ==
  ASSUME EventQueueSize >= MaxPendingCad + 3, ~RadioMayStall
  PROVE  Spec => []OneWakeUp
<1>1. Init => WakeRoomInv
  BY CoreAssumption, WakeRoomInit
<1>2. TypeOK /\ WakeInv /\ BackoffInv /\ WakeRoomInv /\ [Next]_vars => WakeRoomInv'
  <2>1. ASSUME TypeOK, WakeInv, BackoffInv, WakeRoomInv, Next
        PROVE  WakeRoomInv'
    BY <2>1, CoreAssumption, CadRoomStep, EnterRoomStep, UnblockRoomStep, AwaitedStep
    DEF WakeRoomInv, RoomInv
  <2>2. WakeRoomInv /\ UNCHANGED vars => WakeRoomInv'
    <3>1. UNCHANGED eventQ => \A T : Queued(T)' = Queued(T)
      BY QueuedSame
    <3> QED
      BY <3>1 DEF vars, WakeRoomInv, RoomInv, CadRoom, EnterRoom, UnblockRoom, OneLate,
                  Unblocks, Awaited
  <2> QED BY <2>1, <2>2
<1>3. TypeOK /\ WakeInv /\ WakeRoomInv => OneWakeUp
  BY OneWakeUpHolds DEF WakeRoomInv, RoomInv
<1> QED BY <1>1, <1>2, <1>3, WakeCorrect, BackoffAlways, PTL DEF Spec
===============================================================================
