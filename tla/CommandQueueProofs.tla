------------------------- MODULE CommandQueueProofs -------------------------
(***************************************************************************)
(* The ring implements the queue for every number of slots, without a      *)
(* lock: the interrupt writes only the slot at the head, the task reads    *)
(* only the one at the tail, and they differ while a frame is copied.      *)
(***************************************************************************)
EXTENDS CommandQueue, SequenceTheorems, TLAPS

USE RingAssumption

(* An index stays in the ring, and the next one is another.                *)
LEMMA AfterInRing == \A i \in Index : After(i) \in Index /\ After(i) # i
  BY DEF After, Index

(* Types are kept, and so is what the task has copied: the interrupt       *)
(* writes the slot at the head, which is not the one being read.           *)
LEMMA CopyStep == TypeOK /\ CopyInv /\ [Next]_vars => TypeOK' /\ CopyInv'
<1> SUFFICES ASSUME TypeOK, CopyInv, [Next]_vars PROVE TypeOK' /\ CopyInv'
  OBVIOUS
<1> USE DEF TypeOK, CopyInv
<1>1. CASE Loop
  BY <1>1 DEF Loop
<1>2. CASE ReadCommand
  BY <1>2 DEF ReadCommand, Frame
<1>3. CASE ReadTrans
  BY <1>3 DEF ReadTrans, Frame
<1>4. CASE Advance
  BY <1>4, AfterInRing DEF Advance, Frame
<1>5. ASSUME NEW f \in Frame, Enqueue(f) PROVE TypeOK' /\ CopyInv'
  <2>1. CASE After(head) # tail
    <3>1. slots' = [slots EXCEPT ![head] = f] /\ head' = After(head)
          /\ UNCHANGED <<drops, tail, task, command, trans, taken>>
      BY <1>5, <2>1 DEF Enqueue
    <3>2. TypeOK'
      BY <3>1, AfterInRing
    <3>3. tail # head => slots'[tail] = slots[tail]
      BY <3>1
    <3> QED
      BY <2>1, <3>1, <3>2, <3>3
  <2>2. CASE After(head) = tail
    BY <1>5, <2>2 DEF Enqueue
  <2> QED
    BY <2>1, <2>2
<1>6. CASE UNCHANGED vars
  BY <1>6 DEF vars
<1> QED
  BY <1>1, <1>2, <1>3, <1>4, <1>5, <1>6 DEF Next

(* At the start the queue is empty and nothing has been copied.            *)
LEMMA CopyInit == Init => TypeOK /\ CopyInv
<1> SUFFICES ASSUME Init PROVE TypeOK /\ CopyInv
  OBVIOUS
<1>1. PICK f \in Frame :
        slots = [i \in Index |-> f] /\ command = f.command /\ trans = f.trans /\ taken = f
  BY DEF Init
<1> QED
  BY <1>1 DEF Init, TypeOK, CopyInv, Index, Frame

(* Indices stay in the ring (BSP/usart5.c, TASK/send_data.c).              *)
THEOREM TypeCorrect == Spec => []TypeOK
  BY CopyInit, CopyStep, PTL DEF Spec

(* What Send_Task has copied of a slot is what the slot holds until the    *)
(* task gives it back, although the interrupt may come in between.         *)
THEOREM CopiesAreWhole == Spec => []CopyInv
  BY CopyInit, CopyStep, PTL DEF Spec

-----------------------------------------------------------------------------
(* The refinement of CommandFifo.                                          *)

(* What waits is a sequence of frames; the ring is never quite full.       *)
WaitingOK ==
  /\ Waiting \in Seq(Frame) /\ Len(Waiting) = Count /\ Count \in 0 .. Slots - 1
  /\ \A k \in 1 .. Count : Waiting[k] = slots[Place(k - 1)]
  /\ Count = 0 <=> head = tail
  /\ Count = Slots - 1 <=> After(head) = tail

LEMMA WaitingIsSeq == TypeOK => WaitingOK
<1> SUFFICES ASSUME TypeOK PROVE WaitingOK
  OBVIOUS
<1>1. Count \in 0 .. Slots - 1 /\ (Count = 0 <=> head = tail)
      /\ (Count = Slots - 1 <=> After(head) = tail)
  BY DEF TypeOK, Index, Count, After
<1>2. \A k \in 1 .. Count : Place(k - 1) \in Index
  BY <1>1 DEF TypeOK, Index, Place
<1>3. \A k \in 1 .. Count : slots[Place(k - 1)] \in Frame
  BY <1>2 DEF TypeOK
<1>4. Waiting \in [1 .. Count -> Frame]
  BY <1>3 DEF Waiting
<1>5. Waiting \in Seq(Frame)
  BY <1>1, <1>4, SeqDef
<1>6. Len(Waiting) = Count
  BY <1>1, <1>4, <1>5, LenProperties
<1> QED
  BY <1>1, <1>5, <1>6 DEF Waiting, WaitingOK

(* The same after a step.                                                  *)
LEMMA WaitingIsSeqAfter == TypeOK' => WaitingOK'
  BY WaitingIsSeq, PTL

(* A frame the interrupt takes in goes to the end.                         *)
LEMMA EnqueueAppends ==
  ASSUME TypeOK, TypeOK', NEW f \in Frame, Enqueue(f), After(head) # tail
  PROVE  Waiting' = Append(Waiting, f)
<1>1. /\ slots' = [slots EXCEPT ![head] = f]
      /\ head' = After(head) /\ tail' = tail
  BY DEF Enqueue
<1>2. Count' = Count + 1 /\ Place(Count) = head
  BY <1>1 DEF TypeOK, Index, Count, Place, After
<1>3. \A k \in 1 .. Count : Place(k - 1) \in Index /\ Place(k - 1) # head
  BY WaitingIsSeq DEF TypeOK, Index, Count, Place, WaitingOK
<1>4. \A k \in Nat : Place(k)' = Place(k)
  BY <1>1 DEF Place
<1>5. \A k \in 1 .. Count : slots'[Place(k - 1)] = slots[Place(k - 1)]
  BY <1>1, <1>3 DEF TypeOK
<1>6. slots'[head] = f
  BY <1>1 DEF TypeOK
<1>7. Waiting' \in Seq(Frame) /\ Len(Waiting') = Count + 1
      /\ \A k \in 1 .. Count + 1 : Waiting'[k] = slots'[Place(k - 1)]
  <2>1. Waiting' \in Seq(Frame) /\ Len(Waiting') = Count'
        /\ \A k \in 1 .. Count' : Waiting'[k] = slots'[Place(k - 1)']
    BY WaitingIsSeqAfter DEF WaitingOK
  <2> QED
    BY <1>2, <1>4, <2>1, WaitingIsSeq DEF WaitingOK
<1>8. Append(Waiting, f) \in Seq(Frame) /\ Len(Append(Waiting, f)) = Count + 1
      /\ Append(Waiting, f)[Count + 1] = f
      /\ \A k \in 1 .. Count : Append(Waiting, f)[k] = Waiting[k]
  BY WaitingIsSeq DEF WaitingOK
<1>9. \A k \in 1 .. Count + 1 : Waiting'[k] = Append(Waiting, f)[k]
  <2> TAKE k \in 1 .. Count + 1
  <2>1. CASE k \in 1 .. Count
    BY <1>5, <1>7, <1>8, <2>1, WaitingIsSeq DEF WaitingOK
  <2>2. CASE k = Count + 1
    BY <1>2, <1>6, <1>7, <1>8, <2>2, WaitingIsSeq DEF WaitingOK
  <2> QED
    BY <2>1, <2>2, WaitingIsSeq DEF WaitingOK
<1> QED
  BY <1>7, <1>8, <1>9, SeqEqual

(* Giving the slot back takes the first frame off.                         *)
LEMMA AdvanceTakes ==
  ASSUME TypeOK, TypeOK', CopyInv, Advance
  PROVE  Waiting # <<>> /\ Waiting' = Tail(Waiting) /\ taken' = Head(Waiting)
<1>1. /\ slots' = slots /\ head' = head /\ tail' = After(tail) /\ tail # head
      /\ taken' = [command |-> slots[tail].command, trans |-> slots[tail].trans]
  BY DEF Advance, CopyInv
<1>2. /\ Slots \in Nat /\ head \in 0 .. Slots - 1 /\ tail \in 0 .. Slots - 1
      /\ head' = head /\ tail # head
      /\ tail' = IF tail + 1 = Slots THEN 0 ELSE tail + 1
  BY <1>1 DEF TypeOK, Index, After
<1>3. Count \in Nat \ {0} /\ Count < Slots /\ Count' = Count - 1 /\ Place(0) = tail
  <2>1. CASE tail + 1 = Slots
    BY <1>2, <2>1 DEF Count, Place
  <2>2. CASE tail + 1 # Slots
    BY <1>2, <2>2 DEF Count, Place
  <2> QED
    BY <2>1, <2>2
<1>4. \A k \in 0 .. Count - 1 : Place(k)' = Place(k + 1)
  <2> TAKE k \in 0 .. Count - 1
  <2>1. k \in Nat /\ k + 1 < Slots
    BY <1>3
  <2>2. CASE tail + 1 = Slots
    BY <1>2, <2>1, <2>2 DEF Place
  <2>3. CASE tail + 1 # Slots
    BY <1>2, <2>1, <2>3 DEF Place
  <2> QED
    BY <2>2, <2>3
<1>5. Waiting \in Seq(Frame) /\ Len(Waiting) = Count /\ Waiting # <<>>
      /\ \A k \in 1 .. Count : Waiting[k] = slots[Place(k - 1)]
  BY <1>3, WaitingIsSeq DEF WaitingOK
<1>6. taken' = Head(Waiting)
  <2>1. Head(Waiting) = slots[tail] /\ slots[tail] \in Frame
    BY <1>3, <1>5 DEF TypeOK
  <2> QED
    BY <1>1, <2>1 DEF Frame
<1>7. Waiting' \in Seq(Frame) /\ Len(Waiting') = Count - 1
      /\ \A k \in 1 .. Count - 1 : Waiting'[k] = slots[Place(k - 1)']
  <2>1. Waiting' \in Seq(Frame) /\ Len(Waiting') = Count'
        /\ \A k \in 1 .. Count' : Waiting'[k] = slots'[Place(k - 1)']
    BY WaitingIsSeqAfter DEF WaitingOK
  <2> QED
    BY <1>1, <1>3, <2>1
<1>8. Tail(Waiting) \in Seq(Frame) /\ Len(Tail(Waiting)) = Count - 1
      /\ \A k \in 1 .. Count - 1 : Tail(Waiting)[k] = Waiting[k + 1]
  BY <1>5, HeadTailProperties
<1>9. \A k \in 1 .. Count - 1 : Waiting'[k] = Tail(Waiting)[k]
  <2> TAKE k \in 1 .. Count - 1
  <2>1. Place(k - 1)' = Place(k)
    <3>1. k - 1 \in 0 .. Count - 1 /\ (k - 1) + 1 = k
      BY <1>3
    <3> QED
      BY <1>4, <3>1
  <2>2. Tail(Waiting)[k] = slots[Place(k)]
    <3>1. k + 1 \in 1 .. Count /\ (k + 1) - 1 = k
      BY <1>3
    <3> QED
      BY <1>5, <1>8, <3>1
  <2> QED
    BY <1>7, <2>1, <2>2
<1> QED
  BY <1>5, <1>6, <1>7, <1>8, <1>9, SeqEqual

(* The other steps of the task do not show.                                *)
LEMMA WaitingUnchanged ==
  ASSUME UNCHANGED <<slots, head, tail>> PROVE Waiting' = Waiting
  BY DEF Waiting, Count, Place

(* Every step of the ring is a step of the queue or none.                  *)
LEMMA FifoStep ==
  TypeOK /\ TypeOK' /\ CopyInv /\ [Next]_vars => [Fifo!Next]_<<Waiting, taken, drops>>
<1> SUFFICES ASSUME TypeOK, TypeOK', CopyInv, [Next]_vars
             PROVE  [Fifo!Next]_<<Waiting, taken, drops>>
  OBVIOUS
<1>1. CASE Loop \/ ReadCommand \/ ReadTrans \/ UNCHANGED vars
  <2>1. UNCHANGED <<slots, head, tail, taken, drops>>
    BY <1>1 DEF Loop, ReadCommand, ReadTrans, vars
  <2> QED
    BY <2>1, WaitingUnchanged
<1>2. CASE Advance
  <2>1. Fifo!Take
    BY <1>2, AdvanceTakes DEF Fifo!Take, Advance
  <2> QED
    BY <2>1 DEF Fifo!Next
<1>3. ASSUME NEW f \in Frame, Enqueue(f) PROVE Fifo!Next
  <2>1. CASE After(head) # tail
    <3>1. Len(Waiting) < Slots - 1
      BY <2>1, WaitingIsSeq DEF WaitingOK
    <3>2. Fifo!Put(f)
      BY <1>3, <2>1, <3>1, EnqueueAppends DEF Fifo!Put, Enqueue
    <3> QED
      BY <3>2 DEF Fifo!Next
  <2>2. CASE After(head) = tail
    <3>1. Len(Waiting) = Slots - 1
      BY <2>2, WaitingIsSeq DEF WaitingOK
    <3>2. Waiting' = Waiting
      BY <1>3, <2>2, WaitingUnchanged DEF Enqueue
    <3>3. Fifo!Drop
      BY <1>3, <2>2, <3>1, <3>2 DEF Fifo!Drop, Enqueue
    <3> QED
      BY <3>3 DEF Fifo!Next
  <2> QED
    BY <2>1, <2>2
<1> QED
  BY <1>1, <1>2, <1>3 DEF Next

(* The command ring is a bounded queue that loses only what it counts,     *)
(* whatever the size of the ring and wherever the interrupt comes.         *)
THEOREM ImplementsFifo == Spec => RefinesFifo
<1>1. Init => Fifo!Init
  <2> SUFFICES ASSUME Init PROVE Fifo!Init
    OBVIOUS
  <2>1. TypeOK /\ head = tail
    BY CopyInit DEF Init
  <2>2. Waiting = <<>>
    BY <2>1, WaitingIsSeq DEF WaitingOK
  <2> QED
    BY <2>1, <2>2 DEF Fifo!Init, Init, TypeOK
<1> QED
  BY <1>1, CopyInit, CopyStep, FifoStep, PTL DEF Spec, RefinesFifo, Fifo!Spec
=============================================================================
