--------------------------- MODULE RingQueue_proofs ---------------------------
(***************************************************************************)
(* RingQueue implements BoundedFifo, for every size of the buffer.         *)
(***************************************************************************)
EXTENDS RingQueue, SequenceTheorems, TLAPS

(* One step in the ring, without the modulo. *)
LEMMA FollowingSlot ==
  ASSUME NEW s \in Slots
  PROVE  /\ Following(s) \in Slots
         /\ Following(s) = IF s = MAXQSZ - 1 THEN 0 ELSE s + 1
  BY RingAssumption DEF Following, Slots

(* Where the i-th oldest element is, without the modulo. *)
LEMMA SlotInRing ==
  ASSUME NEW t \in Slots, NEW i \in 1 .. MAXQSZ
  PROVE  (t + i - 1) % MAXQSZ = IF t + i - 1 < MAXQSZ THEN t + i - 1 ELSE t + i - 1 - MAXQSZ
  BY RingAssumption DEF Slots
-------------------------------------------------------------------------------
(* RingInv is inductive: no call overwrites an element that was not read,  *)
(* nor reads a slot that was released.                                     *)
THEOREM RingCorrect == Spec => []RingInv
<1>1. Init => RingInv
  BY RingAssumption DEF Init, RingInv, Slots
<1>2. RingInv /\ [Next]_vars => RingInv'
  <2> SUFFICES ASSUME RingInv, [Next]_vars PROVE RingInv'
    OBVIOUS
  <2> USE RingAssumption
  <2>1. ASSUME NEW d \in Elements, Add(d) PROVE RingInv'
    <3>1. CASE ~IsFull
      <4>1. head \in Slots /\ head' = IF head = MAXQSZ - 1 THEN 0 ELSE head + 1
        BY <2>1, <3>1, FollowingSlot DEF Add, RingInv
      <4>2. /\ tail' = tail /\ count' = count + 1 /\ count < MAXQSZ
            /\ els' = [els EXCEPT ![head] = d]
        BY <2>1, <3>1 DEF Add, IsFull, RingInv
      <4> QED
        BY <4>1, <4>2 DEF RingInv, Slots
    <3>2. CASE IsFull
      BY <2>1, <3>2 DEF Add, IsFull, RingInv
    <3> QED
      BY <3>1, <3>2
  <2>2. CASE Get
    <3>1. CASE count # 0
      <4>1. tail \in Slots /\ tail' = IF tail = MAXQSZ - 1 THEN 0 ELSE tail + 1
        BY <2>2, <3>1, FollowingSlot DEF Get, RingInv
      <4>2. /\ head' = head /\ count' = count - 1 /\ count > 0
            /\ els' = [els EXCEPT ![tail] = Empty]
        BY <2>2, <3>1 DEF Get, RingInv
      <4> QED
        BY <4>1, <4>2 DEF RingInv, Slots
    <3>2. CASE count = 0
      BY <2>2, <3>2 DEF Get, RingInv
    <3> QED
      BY <3>1, <3>2
  <2>3. CASE UNCHANGED vars
    BY <2>3 DEF vars, RingInv
  <2> QED
    BY <2>1, <2>2, <2>3 DEF Next
<1> QED
  BY <1>1, <1>2, PTL DEF Spec
-------------------------------------------------------------------------------
(* The slots in use hold the elements of a sequence. *)
ContentsOrdered ==
  /\ Contents \in Seq(Elements)
  /\ Len(Contents) = count
  /\ \A i \in 1 .. count :
       /\ Slot(i) \in Slots /\ Contents[i] = els[Slot(i)]
       /\ Slot(i) = IF tail + i - 1 < MAXQSZ THEN tail + i - 1
                    ELSE tail + i - 1 - MAXQSZ

LEMMA ContentsIsSeq == RingInv => ContentsOrdered
<1> SUFFICES ASSUME RingInv PROVE ContentsOrdered
  OBVIOUS
<1>1. ASSUME NEW i \in 1 .. count
      PROVE  /\ Slot(i) \in Slots /\ els[Slot(i)] \in Elements
             /\ Slot(i) = IF tail + i - 1 < MAXQSZ THEN tail + i - 1
                          ELSE tail + i - 1 - MAXQSZ
  <2>1. i \in 1 .. MAXQSZ /\ tail \in Slots
    BY RingAssumption DEF RingInv
  <2>2. Slot(i) = IF tail + i - 1 < MAXQSZ THEN tail + i - 1 ELSE tail + i - 1 - MAXQSZ
    BY <2>1, SlotInRing DEF Slot
  <2> QED
    BY <2>2, RingAssumption DEF RingInv, Slots
<1>2. Contents \in [1 .. count -> Elements]
  BY <1>1 DEF Contents
<1>3. count \in Nat
  BY DEF RingInv
<1>4. Contents \in Seq(Elements) /\ Len(Contents) = count
  BY <1>2, <1>3
<1> QED
  BY <1>1, <1>4 DEF Contents, ContentsOrdered

(* add_to_queue appends to the contents, or finds the queue full. *)
LEMMA AddPuts ==
  ASSUME RingInv, ContentsOrdered', NEW d \in Elements, Add(d)
  PROVE  Fifo!Put(d)
<1> USE RingAssumption
<1>1. /\ Contents \in Seq(Elements) /\ Len(Contents) = count
      /\ \A i \in 1 .. count :
           Contents[i] = els[Slot(i)] /\ Slot(i) \in Slots
           /\ Slot(i) = IF tail + i - 1 < MAXQSZ THEN tail + i - 1
                        ELSE tail + i - 1 - MAXQSZ
  BY ContentsIsSeq DEF ContentsOrdered
<1>2. /\ Contents' \in Seq(Elements) /\ Len(Contents') = count'
      /\ \A i \in 1 .. count' :
           Contents'[i] = els'[Slot(i)'] /\ Slot(i)' \in Slots
           /\ Slot(i)' = IF tail' + i - 1 < MAXQSZ THEN tail' + i - 1
                         ELSE tail' + i - 1 - MAXQSZ
  BY DEF ContentsOrdered
<1>3. CASE ~IsFull
  <2>1. /\ tail' = tail /\ count' = count + 1 /\ count < MAXQSZ /\ count \in Nat
        /\ els' = [els EXCEPT ![head] = d]
    BY <1>3 DEF Add, IsFull, RingInv
  <2>2. returned' = Fifo!Call(Len(Contents) + 1, Empty)
    BY <1>1, <1>3 DEF Add, Call, Fifo!Call
  <2>3. Contents' = Append(Contents, d)
    <3>1. /\ Append(Contents, d) \in Seq(Elements)
          /\ Len(Append(Contents, d)) = count + 1
          /\ \A i \in 1 .. count + 1 :
               Append(Contents, d)[i] = IF i = count + 1 THEN d ELSE Contents[i]
      BY <1>1, <2>1, AppendProperties
    <3>2. ASSUME NEW i \in 1 .. count + 1
          PROVE  Contents'[i] = Append(Contents, d)[i]
      <4>1. /\ Contents'[i] = els'[Slot(i)'] /\ Slot(i)' \in Slots
            /\ Slot(i)' = IF tail + i - 1 < MAXQSZ THEN tail + i - 1
                          ELSE tail + i - 1 - MAXQSZ
        BY <1>2, <2>1
      <4>2. CASE i = count + 1
        <5>1. Slot(i)' = head
          BY <4>1, <4>2, <2>1 DEF RingInv, Slots
        <5> QED
          BY <5>1, <4>1, <4>2, <3>1, <2>1 DEF RingInv
      <4>3. CASE i # count + 1
        <5>1. i \in 1 .. count
          BY <4>3, <2>1
        <5>2. Slot(i)' = Slot(i) /\ Slot(i) # head
          BY <5>1, <4>1, <1>1, <2>1 DEF RingInv, Slots
        <5> QED
          BY <5>1, <5>2, <4>1, <4>3, <3>1, <2>1, <1>1 DEF RingInv
      <4> QED
        BY <4>2, <4>3
    <3> QED
      BY <3>1, <3>2, <1>2, <2>1, SeqEqual
  <2> QED
    BY <1>1, <2>1, <2>2, <2>3 DEF Fifo!Put
<1>4. CASE IsFull
  <2>1. Contents' = Contents
    BY <1>4 DEF Add, Contents, Slot
  <2>2. Len(Contents) = MAXQSZ /\ returned' = Fifo!Call(-1, Empty)
    BY <1>1, <1>4 DEF Add, IsFull, Call, Fifo!Call
  <2> QED
    BY <2>1, <2>2 DEF Fifo!Put
<1> QED
  BY <1>3, <1>4

(* get_from_queue takes the head of the contents, or finds none. *)
LEMMA GetTakes ==
  ASSUME RingInv, ContentsOrdered', Get
  PROVE  Fifo!Take
<1> USE RingAssumption
<1>1. /\ Contents \in Seq(Elements) /\ Len(Contents) = count
      /\ \A i \in 1 .. count :
           Contents[i] = els[Slot(i)] /\ Slot(i) \in Slots
           /\ Slot(i) = IF tail + i - 1 < MAXQSZ THEN tail + i - 1
                        ELSE tail + i - 1 - MAXQSZ
  BY ContentsIsSeq DEF ContentsOrdered
<1>2. /\ Contents' \in Seq(Elements) /\ Len(Contents') = count'
      /\ \A i \in 1 .. count' :
           Contents'[i] = els'[Slot(i)'] /\ Slot(i)' \in Slots
           /\ Slot(i)' = IF tail' + i - 1 < MAXQSZ THEN tail' + i - 1
                         ELSE tail' + i - 1 - MAXQSZ
  BY DEF ContentsOrdered
<1>3. CASE count # 0
  <2>1. /\ tail' = Following(tail) /\ count' = count - 1 /\ count \in Nat \ {0}
        /\ els' = [els EXCEPT ![tail] = Empty] /\ tail \in Slots
    BY <1>3 DEF Get, RingInv
  <2>2. tail' = IF tail = MAXQSZ - 1 THEN 0 ELSE tail + 1
    BY <2>1, FollowingSlot
  <2>3. Contents # <<>> /\ Head(Contents) = els[tail]
    <3>1. Contents # <<>> /\ Head(Contents) = Contents[1]
      BY <1>1, <2>1
    <3>2. Contents[1] = els[tail]
      BY <1>1, <2>1 DEF Slots
    <3> QED
      BY <3>1, <3>2
  <2>4. returned' = Fifo!Call(Len(Contents) - 1, Head(Contents))
    BY <1>1, <1>3, <2>3 DEF Get, Call, Fifo!Call
  <2>5. Contents' = Tail(Contents)
    <3>1. /\ Tail(Contents) \in Seq(Elements)
          /\ Len(Tail(Contents)) = count - 1
          /\ \A i \in 1 .. count - 1 : Tail(Contents)[i] = Contents[i + 1]
      BY <1>1, <2>3, HeadTailProperties
    <3>2. ASSUME NEW i \in 1 .. count - 1
          PROVE  Contents'[i] = Tail(Contents)[i]
      <4>1. i + 1 \in 1 .. count
        BY <2>1
      <4>2. /\ Contents'[i] = els'[Slot(i)'] /\ Slot(i)' \in Slots
            /\ Slot(i)' = IF tail' + i - 1 < MAXQSZ THEN tail' + i - 1
                          ELSE tail' + i - 1 - MAXQSZ
        BY <1>2, <2>1
      <4>3. Slot(i)' = Slot(i + 1) /\ Slot(i + 1) # tail
        BY <4>1, <4>2, <1>1, <2>1, <2>2 DEF RingInv, Slots
      <4> QED
        BY <4>1, <4>2, <4>3, <3>1, <2>1, <1>1 DEF RingInv
    <3> QED
      BY <3>1, <3>2, <1>2, <2>1, SeqEqual
  <2> QED
    BY <2>3, <2>4, <2>5 DEF Fifo!Take
<1>4. CASE count = 0
  <2>1. Contents' = Contents
    BY <1>4 DEF Get, Contents, Slot
  <2>2. Contents = <<>> /\ returned' = Fifo!Call(-1, Empty)
    BY <1>1, <1>4 DEF Get, Call, Fifo!Call
  <2> QED
    BY <2>1, <2>2 DEF Fifo!Take
<1> QED
  BY <1>3, <1>4

(* Every behaviour of the ring buffer is one of the abstract queue. *)
THEOREM RingImplementsFifo == Spec => ImplementsFifo
<1>1. Init => Fifo!Init
  BY DEF Init, Contents, Fifo!Init, Call, Fifo!Call
<1>2. RingInv /\ ContentsOrdered' /\ [Next]_vars => [Fifo!Next]_<<Contents, returned>>
  <2> SUFFICES ASSUME RingInv, ContentsOrdered', [Next]_vars
               PROVE  [Fifo!Next]_<<Contents, returned>>
    OBVIOUS
  <2>1. ASSUME NEW d \in Elements, Add(d) PROVE Fifo!Next
    BY <2>1, AddPuts DEF Fifo!Next
  <2>2. ASSUME Get PROVE Fifo!Next
    BY <2>2, GetTakes DEF Fifo!Next
  <2>3. CASE UNCHANGED vars
    BY <2>3 DEF vars, Contents, Slot
  <2> QED
    BY <2>1, <2>2, <2>3 DEF Next
<1> QED
  BY <1>1, <1>2, RingCorrect, ContentsIsSeq, PTL DEF Spec, ImplementsFifo, Fifo!Spec
===============================================================================
