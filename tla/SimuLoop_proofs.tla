-------------------------- MODULE SimuLoop_proofs --------------------------
(***************************************************************************)
(* Proofs about the threads of the simulation, for queues of any size.     *)
(***************************************************************************)
EXTENDS SimuLoop, SequenceTheorems, TLAPS

(* A thread that is adding an event holds the mutex of a queue with room.  *)
Locked ==
  \A t \in Posters : at[t] \in {"signal", "count"} =>
    IF t = "console" THEN coldLock = t /\ Len(commands) < QueueSize
    ELSE eventLock = t /\ events < QueueSize

(* The timer thread of a device disconnected is gone, or AT+DISCONNECT     *)
(* came while it ran.                                                      *)
Settled == ~connected /\ past = {} => at["timer"] = "idle"

IInv == TypeOK /\ Locked /\ Settled /\ ListensIfConnected

LEMMA InitIInv == Init => IInv
  BY QueueAssumption DEF Init, IInv, TypeOK, Locked, Settled, ListensIfConnected,
     Threads, Posters

LEMMA PostIInv ==
  ASSUME IInv, NEW t \in Posters, Post(t)
  PROVE  IInv'
<1> USE QueueAssumption DEF Posters, Threads
<1>1. CASE BeginPost(t)
  <2> USE <1>1 DEF IInv, TypeOK, BeginPost, Move, Full, After
  <2>1. TypeOK' OBVIOUS
  <2>2. Locked' BY DEF Locked
  <2>3. Settled' /\ ListensIfConnected' BY DEF Settled, ListensIfConnected
  <2> QED BY <2>1, <2>2, <2>3
<1>2. CASE Signal(t)
  <2> USE <1>2 DEF IInv, TypeOK, Signal
  <2>1. TypeOK' OBVIOUS
  <2>2. Locked' BY DEF Locked
  <2>3. Settled' /\ ListensIfConnected' BY DEF Settled, ListensIfConnected
  <2> QED BY <2>1, <2>2, <2>3
<1>3. CASE Count(t)
  <2> USE <1>3 DEF IInv, TypeOK, Count, Move, After
  <2>1. TypeOK'
    <3>1. CASE t = "console"
      <4>1. PICK c \in Commands : commands' = Append(commands, c) BY <3>1
      <4>2. commands' \in Seq(Commands) /\ Len(commands') = Len(commands) + 1
        BY <4>1
      <4> QED BY <3>1, <4>2 DEF Locked
    <3>2. CASE t # "console"
      BY <3>2 DEF Locked
    <3> QED BY <3>1, <3>2
  <2>2. Locked'
    <3> SUFFICES ASSUME NEW u \in Posters, at'[u] \in {"signal", "count"}
                 PROVE  (IF u = "console" THEN coldLock = u /\ Len(commands) < QueueSize
                         ELSE eventLock = u /\ events < QueueSize)'
      BY DEF Locked
    <3>1. u # t /\ at[u] = at'[u] OBVIOUS
    <3>2. IF u = "console" THEN coldLock = u /\ Len(commands) < QueueSize
          ELSE eventLock = u /\ events < QueueSize
      BY <3>1 DEF Locked
    <3>3. (t # "console" => eventLock = t) /\ (t = "console" => u # "console")
      BY <3>1 DEF Locked
    <3> QED BY <3>1, <3>2, <3>3
  <2>3. Settled' /\ ListensIfConnected' BY DEF Settled, ListensIfConnected
  <2> QED BY <2>1, <2>2, <2>3
<1> QED BY <1>1, <1>2, <1>3 DEF Post

LEMMA TimerIInv ==
  ASSUME IInv, Expire \/ Rearm
  PROVE  IInv'
  BY DEF IInv, TypeOK, Locked, Settled, ListensIfConnected, Expire, Rearm, Move,
     Posters, Threads

LEMMA MainIInv ==
  ASSUME IInv, Main
  PROVE  IInv'
<1> USE QueueAssumption DEF Posters, Threads
<1>1. CASE FetchEvent
  BY <1>1 DEF IInv, TypeOK, Locked, Settled, ListensIfConnected, FetchEvent, Move
<1>2. CASE FetchCommand
  <2> USE <1>2 DEF IInv, TypeOK, FetchCommand, Move
  <2>1. CASE commands = <<>>
    BY <2>1 DEF Locked, Settled, ListensIfConnected
  <2>2. CASE commands # <<>>
    <3>1. commands' \in Seq(Commands) /\ Len(commands') = Len(commands) - 1
      BY SMTT(30), <2>2
    <3>2. \A t \in Posters : at'[t] = at[t]
      BY <2>2
    <3>3. connected' \in BOOLEAN /\ armed' \in BOOLEAN /\ past' \subseteq {"overlap"}
      BY <2>2 DEF CmdConnect, CmdDisconnect
    <3>4. TypeOK' BY <2>2, <3>1, <3>3
    <3>5. Locked'
      BY <2>2, <3>1, <3>2 DEF Locked
    <3>6. Settled' /\ ListensIfConnected'
      BY <2>2, <3>2 DEF Settled, ListensIfConnected, CmdConnect, CmdDisconnect
    <3> QED BY <3>4, <3>5, <3>6
  <2> QED BY <2>1, <2>2
<1>3. CASE Sleep \/ WakeUp
  <2>1. \A t \in Posters : at'[t] = at[t]
    BY <1>3 DEF IInv, TypeOK, Sleep, WakeUp, Move
  <2>2. UNCHANGED <<eventLock, coldLock, events, commands, connected, armed, past>>
    BY <1>3 DEF Sleep, WakeUp
  <2>3. TypeOK'
    BY <1>3 DEF IInv, TypeOK, Sleep, WakeUp, Move
  <2>4. Locked'
    BY <2>1, <2>2 DEF IInv, Locked
  <2>5. Settled' /\ ListensIfConnected'
    BY <2>1, <2>2 DEF IInv, Settled, ListensIfConnected
  <2> QED BY <2>3, <2>4, <2>5 DEF IInv
<1> QED BY <1>1, <1>2, <1>3 DEF Main

LEMMA SafetyOfSpec == Spec => []IInv
<1>1. IInv /\ [Next]_vars => IInv'
  <2> SUFFICES ASSUME IInv, [Next]_vars PROVE IInv'
    OBVIOUS
  <2>1. CASE UNCHANGED vars
    BY <2>1 DEF IInv, TypeOK, Locked, Settled, ListensIfConnected, vars
  <2> QED BY <2>1, PostIInv, TimerIInv, MainIInv DEF Next
<1> QED BY InitIInv, <1>1, PTL DEF Spec

(* No queue is overrun: the main loop, the console, the radio and the      *)
(* timer's thread keep the counts of the event queues within MAXQSZ.       *)
THEOREM ThreadsTypeCorrect == Spec => []TypeOK
  BY SafetyOfSpec, PTL DEF IInv

(* AT+CONNECT and AT+DISCONNECT start and stop the CAD timer, whatever the *)
(* moment of its last expiry, unless its thread was at work when the last  *)
(* AT+DISCONNECT came.                                                     *)
THEOREM ListeningFollowsConnection == Spec => []ListensIfConnected
  BY SafetyOfSpec, PTL DEF IInv
=============================================================================
