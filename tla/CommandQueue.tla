---------------------------- MODULE CommandQueue ----------------------------
(***************************************************************************)
(* gs_cmd_queue: the ring between the USART3 interrupt, which parses the   *)
(* frames of the ground station (BSP/usart5.c), and Send_Task, which       *)
(* drains it in Process_GroundStation_Command (TASK/send_data.c).  There   *)
(* is no lock: the interrupt owns the head, the task owns the tail, and    *)
(* the interrupt may come between any two reads of a slot.  A frame is its *)
(* command (id, index and value, read first) and its transaction (id,      *)
(* flags and transport, read after).                                       *)
(***************************************************************************)
EXTENDS Naturals, Sequences

CONSTANTS
  Slots,          \* the size of the ring (16)
  CommandParts,   \* what a frame may command
  TransParts,     \* and its transaction
  DropLimit       \* gs_cmd_drop_count counts modulo this (2^32)

ASSUME RingAssumption ==
  /\ Slots \in Nat \ {0, 1} /\ DropLimit \in Nat \ {0}
  /\ CommandParts # {} /\ TransParts # {}

VARIABLES
  slots,     \* gs_cmd_queue
  head,      \* gs_cmd_head
  tail,      \* gs_cmd_tail
  drops,     \* gs_cmd_drop_count
  task,      \* what Send_Task does next
  command,   \* its local copy, cmd
  trans,     \* its local copy, transaction_id and so on
  taken      \* what it goes on to dispatch

vars == <<slots, head, tail, drops, task, command, trans, taken>>

Frame == [command : CommandParts, trans : TransParts]
Index == 0 .. Slots - 1

TypeOK ==
  /\ slots \in [Index -> Frame]
  /\ head \in Index /\ tail \in Index
  /\ drops \in 0 .. DropLimit - 1
  /\ task \in {"loop", "command", "trans", "advance"}
  /\ command \in CommandParts /\ trans \in TransParts /\ taken \in Frame

Init ==
  /\ \E f \in Frame :
       slots = [i \in Index |-> f] /\ command = f.command /\ trans = f.trans /\ taken = f
  /\ head = 0 /\ tail = 0 /\ drops = 0 /\ task = "loop"

(* (i + 1) % Slots.                                                        *)
After(i) == IF i + 1 = Slots THEN 0 ELSE i + 1

(* Seeded fault: the full ring is overwritten.                             *)
EnqueueOverwrites(f) ==
  /\ slots' = [slots EXCEPT ![head] = f] /\ head' = After(head)
  /\ UNCHANGED <<drops, tail, task, command, trans, taken>>

(* The interrupt, for a frame whose checksum is right.  One slot stays     *)
(* free, so that a full ring is not taken for an empty one.                *)
Enqueue(f) ==
  /\ IF After(head) # tail
     THEN slots' = [slots EXCEPT ![head] = f] /\ head' = After(head) /\ UNCHANGED drops
     ELSE drops' = (drops + 1) % DropLimit /\ UNCHANGED <<slots, head>>
  /\ UNCHANGED <<tail, task, command, trans, taken>>

(* Send_Task: while a frame waits, copy it field by field, ...             *)
Loop ==
  /\ task = "loop" /\ tail # head /\ task' = "command"
  /\ UNCHANGED <<slots, head, tail, drops, command, trans, taken>>

ReadCommand ==
  /\ task = "command" /\ task' = "trans"
  /\ command' = slots[tail].command
  /\ UNCHANGED <<slots, head, tail, drops, trans, taken>>

ReadTrans ==
  /\ task = "trans" /\ task' = "advance"
  /\ trans' = slots[tail].trans
  /\ UNCHANGED <<slots, head, tail, drops, command, taken>>

(* ... and only then give the slot back.                                   *)
Advance ==
  /\ task = "advance" /\ task' = "loop"
  /\ tail' = After(tail)
  /\ taken' = [command |-> command, trans |-> trans]
  /\ UNCHANGED <<slots, head, drops, command, trans>>

Next == Loop \/ ReadCommand \/ ReadTrans \/ Advance \/ \E f \in Frame : Enqueue(f)

Spec == Init /\ [][Next]_vars

-----------------------------------------------------------------------------
(* The frames that wait, oldest first.                                     *)
Count == IF head >= tail THEN head - tail ELSE head + Slots - tail
Place(k) == IF tail + k < Slots THEN tail + k ELSE tail + k - Slots
Waiting == [k \in 1 .. Count |-> slots[Place(k - 1)]]

Fifo == INSTANCE CommandFifo
          WITH queue <- Waiting, Frames <- Frame, Capacity <- Slots - 1

(* The ring is a queue: whatever the interrupt does between the reads of a *)
(* slot, a frame is dispatched whole, once and in its turn; it is lost     *)
(* only when every slot but one is taken, and then it is counted.          *)
RefinesFifo == Fifo!Spec

(* What the task has copied is what the slot it has not given back holds.  *)
CopyInv ==
  /\ task # "loop" => tail # head
  /\ task \in {"trans", "advance"} => command = slots[tail].command
  /\ task = "advance" => trans = slots[tail].trans
=============================================================================
