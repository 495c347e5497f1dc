------------------------------ MODULE RingQueue ------------------------------
(***************************************************************************)
(* The ring buffer of lowapp_utils_queue.c behind every queue of the core: *)
(* QFIXED_T (AT commands, tx, rx) and QEVENT_T (the two event queues) keep *)
(* the same indices in the same way.  A call is atomic: its callers hold   *)
(* the lock of the queue, or are alone to use it.                          *)
(***************************************************************************)
EXTENDS Integers, Sequences

CONSTANTS Elements, \* what is queued
          Empty,    \* what an unused slot holds
          MAXQSZ    \* number of slots

ASSUME RingAssumption ==
  MAXQSZ \in Nat \ {0} /\ Empty \notin Elements

VARIABLES head,    \* next slot to write
          tail,    \* next slot to read
          count,   \* number of elements
          els,     \* the slots
          returned \* what the last call gave back: its return value, an element

vars == <<head, tail, count, els, returned>>

Slots == 0 .. MAXQSZ - 1

Call(size, element) == [size |-> size, element |-> element]

Init ==
  /\ head = 0 /\ tail = 0 /\ count = 0
  /\ els = [s \in Slots |-> Empty]
  /\ returned = Call(0, Empty)

(* Mutant of Following: off by one at the end of the buffer. *)
FollowingShort(s) == (s + 1) % (MAXQSZ + 1)

Following(s) == (s + 1) % MAXQSZ

(* Mutant of IsFull: the queue is never found full. *)
IsFullNever == count > MAXQSZ

IsFull == count = MAXQSZ

(* add_to_queue, add_event *)
Add(d) ==
  \/ /\ ~IsFull
     /\ els' = [els EXCEPT ![head] = d]
     /\ head' = Following(head)
     /\ count' = count + 1
     /\ returned' = Call(count + 1, Empty)
     /\ UNCHANGED tail
  \/ /\ IsFull
     /\ returned' = Call(-1, Empty)
     /\ UNCHANGED <<head, tail, count, els>>

(* get_from_queue, get_event: the slot read is reset. *)
Get ==
  \/ /\ count # 0
     /\ els' = [els EXCEPT ![tail] = Empty]
     /\ tail' = Following(tail)
     /\ count' = count - 1
     /\ returned' = Call(count - 1, els[tail])
     /\ UNCHANGED head
  \/ /\ count = 0
     /\ returned' = Call(-1, Empty)
     /\ UNCHANGED <<head, tail, count, els>>

Next == (\E d \in Elements : Add(d)) \/ Get

Spec == Init /\ [][Next]_vars
-----------------------------------------------------------------------------
(* The slot of the i-th oldest element. *)
Slot(i) == (tail + i - 1) % MAXQSZ

(* The elements, oldest first. *)
Contents == [i \in 1 .. count |-> els[Slot(i)]]

(* The indices stay within the buffer, head is count slots after tail, and *)
(* the slots in use, and only these, hold an element: an element is never  *)
(* overwritten before it was read nor read after it was released.          *)
RingInv ==
  /\ head \in Slots /\ tail \in Slots /\ count \in 0 .. MAXQSZ
  /\ head = IF tail + count < MAXQSZ THEN tail + count ELSE tail + count - MAXQSZ
  /\ els \in [Slots -> Elements \cup {Empty}]
  /\ \A s \in Slots :
       els[s] # Empty <=> (tail <= s /\ s < tail + count) \/ s + MAXQSZ < tail + count

(* The ring buffer is a bounded first in, first out queue. *)
Fifo == INSTANCE BoundedFifo WITH
          fifo <- Contents, Capacity <- MAXQSZ, returned <- returned

(* Every call does to the contents what the abstract queue does: order is  *)
(* kept across the end of the buffer, and full and empty are told apart.   *)
ImplementsFifo == Fifo!Spec
=============================================================================
