----------------------------- MODULE BoundedFifo -----------------------------
(***************************************************************************)
(* What the rest of the core expects of a queue of lowapp_utils_queue.c:   *)
(* first in, first out, at most Capacity elements, a refusal when full or  *)
(* empty, and the size afterwards otherwise.                               *)
(***************************************************************************)
EXTENDS Integers, Sequences

CONSTANTS Elements, \* what is queued
          Empty,    \* no element
          Capacity  \* MAXQSZ

VARIABLES fifo,     \* the elements, oldest first
          returned  \* what the last call gave back: its return value, an element

Call(size, element) == [size |-> size, element |-> element]

Init == fifo = <<>> /\ returned = Call(0, Empty)

Put(e) ==
  \/ /\ Len(fifo) < Capacity
     /\ fifo' = Append(fifo, e)
     /\ returned' = Call(Len(fifo) + 1, Empty)
  \/ /\ Len(fifo) = Capacity
     /\ UNCHANGED fifo
     /\ returned' = Call(-1, Empty)

Take ==
  \/ /\ fifo # <<>>
     /\ fifo' = Tail(fifo)
     /\ returned' = Call(Len(fifo) - 1, Head(fifo))
  \/ /\ fifo = <<>>
     /\ UNCHANGED fifo
     /\ returned' = Call(-1, Empty)

Next == (\E e \in Elements : Put(e)) \/ Take

Spec == Init /\ [][Next]_<<fifo, returned>>
=============================================================================
