---------------------------- MODULE CommandFifo ----------------------------
(***************************************************************************)
(* What the command queue promises to the interrupt that fills it and the  *)
(* task that drains it: frames leave whole and in the order they came; one *)
(* is lost only while Capacity frames wait, and every loss is counted.     *)
(* CommandQueue implements it; GsCommand takes its queue from here.        *)
(***************************************************************************)
EXTENDS Naturals, Sequences

CONSTANTS Frames, Capacity, DropLimit

VARIABLES
  queue,   \* the frames that wait
  taken,   \* the frame that was taken last
  drops    \* frames lost, modulo DropLimit

Init == queue = <<>> /\ taken \in Frames /\ drops = 0

Put(f) == Len(queue) < Capacity /\ queue' = Append(queue, f) /\ UNCHANGED <<taken, drops>>

Drop == /\ Len(queue) = Capacity
        /\ drops' = (drops + 1) % DropLimit /\ UNCHANGED <<queue, taken>>

Take == /\ queue # <<>>
        /\ taken' = Head(queue) /\ queue' = Tail(queue) /\ UNCHANGED drops

Next == Drop \/ Take \/ \E f \in Frames : Put(f)

Spec == Init /\ [][Next]_<<queue, taken, drops>>
=============================================================================
