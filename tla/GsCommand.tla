----------------------------- MODULE GsCommand -----------------------------
(***************************************************************************)
(* A command's way from the ground station to its handler and back: the    *)
(* stop-and-wait client (ground_station/service/campaign_live.py) on the   *)
(* bridge's transaction counter (comm/wifi_bridge.py), a link that loses   *)
(* and repeats frames, the command queue, and Send_Task, which drops       *)
(* repeated transactions, asks CommandSafetyReject, acknowledges,          *)
(* dispatches and answers (TASK/send_data.c).                              *)
(*                                                                         *)
(* A command is the number of its sending, so that two are never confused; *)
(* the program knows only its transaction id.  The queue is CommandFifo,   *)
(* which CommandQueue implements; what may become of a command is          *)
(* CommandFates.                                                           *)
(* Both directions of the link keep the order; a frame lost in flight is   *)
(* lost when it is sent.  Deadlines may pass at any time.                  *)
(*                                                                         *)
(* The bridge is shared by the client's thread and those of the dashboard  *)
(* (service/api.py).  A thread draws an id and sends in one step: CPython  *)
(* switches threads at calls and backward jumps, and there is none between *)
(* advancing the counter and reading it for the frame.                     *)
(***************************************************************************)
EXTENDS Naturals, Sequences, FiniteSets

CONSTANTS
  QueueCap,     \* commands that wait at most (15)
  HistoryLen,   \* TXN_HISTORY_LEN (16)
  IdMax,        \* the largest transaction id (0xFFFF)
  FirstIds,     \* where the counter may stand when the drone boots
  LinkCap,      \* frames in flight to the drone
  AnswerCap,    \* and back
  MaxSends,     \* bounds the commands sent,
  MaxLegacy,    \* the unversioned ones among them,
  MaxRepeats,   \* the frames that arrive twice
  MaxRestarts   \* and the restarts of the ground station

(* Between a frame and its repetition the link holds fewer transactions    *)
(* than are remembered.                                                    *)
ASSUME LinkAssumption ==
  /\ {QueueCap, HistoryLen, IdMax, LinkCap, AnswerCap} \subseteq Nat \ {0}
  /\ LinkCap <= HistoryLen + 1 /\ FirstIds \subseteq 0 .. IdMax
  /\ {MaxSends, MaxLegacy, MaxRepeats, MaxRestarts} \subseteq Nat

VARIABLES
  lastId,    \* _transaction_id of the bridge
  sent,      \* the ids of the commands sent so far
  client,    \* the command _send_cmd waits for, and what it returned
  results,   \* _txn_results: the latest answer by transaction id
  up, down,  \* the link
  repeated,  \* the commands whose frame arrived twice
  restarts,
  queue,     \* the command queue
  task,      \* what Send_Task does with cur
  cur,
  history, slot,   \* s_transaction_history and its head
  took             \* how often a command's handler did its work

ground == <<lastId, sent, client, results, restarts>>
drone  == <<queue, task, cur, history, slot, took>>
vars   == <<ground, up, down, repeated, drone>>

Sent     == 1 .. MaxSends
Commands == DOMAIN sent
Ids      == 1 .. IdMax
Frames   == [id : 0 .. IdMax, command : Sent]
Outcomes == {"ack", "applied", "rejected"}

TypeOK ==
  /\ lastId \in 0 .. IdMax /\ restarts \in 0 .. MaxRestarts
  /\ sent \in Seq(0 .. IdMax) /\ Len(sent) <= MaxSends
  /\ client \in [id : Ids, command : Sent, acked : BOOLEAN,
                 says : {"waiting", "applied", "rejected", "accepted", "timeout"}]
                \cup {[says |-> "none"]}
  /\ results \in [Ids -> Outcomes \cup {"none"}]
  /\ up \in Seq(Frames) /\ queue \in Seq(Frames) /\ Len(up) <= LinkCap /\ Len(queue) <= QueueCap
  /\ down \in Seq([id : Ids, outcome : Outcomes]) /\ Len(down) <= AnswerCap
  /\ repeated \subseteq Sent
  /\ task \in {"loop", "dispatch"} /\ cur \in Frames \cup {[id |-> 0]}
  /\ history \in [0 .. HistoryLen - 1 -> 0 .. IdMax] /\ slot \in 0 .. HistoryLen - 1
  /\ took \in [Sent -> 0 .. 2]

Init ==
  /\ lastId \in FirstIds /\ sent = <<>> /\ restarts = 0
  /\ client = [says |-> "none"] /\ results = [i \in Ids |-> "none"]
  /\ up = <<>> /\ down = <<>> /\ repeated = {}
  /\ queue = <<>> /\ task = "loop" /\ cur = [id |-> 0]
  /\ history = [i \in 0 .. HistoryLen - 1 |-> 0] /\ slot = 0
  /\ took = [c \in Sent |-> 0]

-----------------------------------------------------------------------------
(* The ground station.                                                     *)

(* Seeded fault: the counter wraps to the id of the legacy frames.         *)
NextIdThroughZero == (lastId + 1) % (IdMax + 1)

(* send_transaction skips 0, which marks a legacy frame.                   *)
NextId == IF lastId = IdMax THEN 1 ELSE lastId + 1

(* A frame is put on the link, or lost.                                    *)
Transmit(f) == up' \in {up} \cup (IF Len(up) < LinkCap THEN {Append(up, f)} ELSE {})

Send(id) ==
  /\ Len(sent) < MaxSends /\ sent' = Append(sent, id)
  /\ Transmit([id |-> id, command |-> Len(sent')])

Submit == lastId' = NextId /\ Send(lastId')

(* _send_cmd: one command at a time, ...                                   *)
SendCommand ==
  /\ client.says # "waiting" /\ Submit
  /\ client' = [id |-> lastId', command |-> Len(sent'), acked |-> FALSE, says |-> "waiting"]
  /\ UNCHANGED <<results, restarts, down, repeated, drone>>

(* ... while heartbeats and the dashboard send and wait for nothing.       *)
SendOther == Submit /\ UNCHANGED <<client, results, restarts, down, repeated, drone>>

(* The unversioned frame: no transaction, no answer.                       *)
Legacy == {c \in Commands : sent[c] = 0}

SendLegacy ==
  /\ Cardinality(Legacy) < MaxLegacy /\ Send(0)
  /\ UNCHANGED <<lastId, client, results, restarts, down, repeated, drone>>

(* The polling thread files the answer.  One nobody will ask for (the      *)
(* 256 entries are gone before the counter comes round) is not kept here.  *)
Poll ==
  /\ down # <<>> /\ down' = Tail(down)
  /\ LET a == Head(down)
         awaited == client.says = "waiting" /\ a.id = client.id
     IN  results' = IF awaited THEN [results EXCEPT ![a.id] = a.outcome] ELSE results
  /\ UNCHANGED <<lastId, sent, client, restarts, up, repeated, drone>>

(* The client takes its answer; an ACK is not the last one.                *)
TakeResult ==
  /\ client.says = "waiting" /\ results[client.id] # "none"
  /\ client' = IF results[client.id] = "ack" THEN [client EXCEPT !.acked = TRUE]
               ELSE [client EXCEPT !.says = results[client.id]]
  /\ results' = [results EXCEPT ![client.id] = "none"]
  /\ UNCHANGED <<lastId, sent, restarts, up, down, repeated, drone>>

(* The deadline, with no answer to take: an acknowledged command counts as *)
(* sent.                                                                   *)
GiveUp ==
  /\ client.says = "waiting" /\ results[client.id] = "none"
  /\ client' = [client EXCEPT !.says = IF client.acked THEN "accepted" ELSE "timeout"]
  /\ UNCHANGED <<lastId, sent, results, restarts, up, down, repeated, drone>>

(* A new process starts its counter from 0; the drone stays as it is.      *)
(* Starting one takes longer than any frame is on its way or waits to be   *)
(* executed, and the answers to the old one go with its socket.            *)
Restart ==
  /\ restarts < MaxRestarts /\ restarts' = restarts + 1
  /\ up = <<>> /\ queue = <<>> /\ task = "loop" /\ down' = <<>>
  /\ lastId' = 0 /\ client' = [says |-> "none"] /\ results' = [i \in Ids |-> "none"]
  /\ UNCHANGED <<sent, up, repeated, drone>>

-----------------------------------------------------------------------------
(* The link and the interrupt.                                             *)

(* A frame in flight arrives once more.                                    *)
Repeat ==
  /\ Len(up) \in 1 .. LinkCap - 1 /\ Cardinality(repeated) < MaxRepeats
  /\ \E i \in 1 .. Len(up) :
       /\ up' = Append(up, up[i])
       /\ up[i].command \notin repeated /\ repeated' = repeated \cup {up[i].command}
  /\ UNCHANGED <<ground, down, drone>>

(* Seeded fault: the newest command first.                                 *)
ArriveInFront ==
  /\ up # <<>> /\ up' = Tail(up)
  /\ queue' = IF Len(queue) < QueueCap THEN <<Head(up)>> \o queue ELSE queue
  /\ UNCHANGED <<ground, down, repeated, task, cur, history, slot, took>>

(* The interrupt queues a frame, or drops it when the queue is full.       *)
Arrive ==
  /\ up # <<>> /\ up' = Tail(up)
  /\ queue' = IF Len(queue) < QueueCap THEN Append(queue, Head(up)) ELSE queue
  /\ UNCHANGED <<ground, down, repeated, task, cur, history, slot, took>>

-----------------------------------------------------------------------------
(* Send_Task: Process_GroundStation_Command.                               *)

(* SendTransactionResult; the answer may be lost.                          *)
Answer(outcome, id) ==
  down' \in {down} \cup (IF Len(down) < AnswerCap
                         THEN {Append(down, [id |-> id, outcome |-> outcome])} ELSE {})

Seen(id) == \E i \in DOMAIN history : history[i] = id

Next1 == queue # <<>> /\ task = "loop" /\ queue' = Tail(queue)

(* A transaction that was seen is answered and not executed again.         *)
Duplicate ==
  /\ Next1 /\ Head(queue).id # 0 /\ Seen(Head(queue).id)
  /\ Answer("applied", Head(queue).id)
  /\ UNCHANGED <<ground, up, repeated, task, cur, history, slot, took>>

(* CommandSafetyReject may refuse any transaction; it is not remembered.   *)
Reject ==
  /\ Next1 /\ Head(queue).id # 0 /\ ~Seen(Head(queue).id)
  /\ Answer("rejected", Head(queue).id)
  /\ UNCHANGED <<ground, up, repeated, task, cur, history, slot, took>>

(* Seeded fault: the head of the history stays where it is.                *)
AcceptInPlace ==
  /\ Next1 /\ Head(queue).id # 0 /\ ~Seen(Head(queue).id)
  /\ Answer("ack", Head(queue).id)
  /\ history' = [history EXCEPT ![slot] = Head(queue).id]
  /\ task' = "dispatch" /\ cur' = Head(queue)
  /\ UNCHANGED <<ground, up, repeated, slot, took>>

(* Everything else is acknowledged and remembered, then dispatched.        *)
Accept ==
  /\ Next1 /\ Head(queue).id # 0 /\ ~Seen(Head(queue).id)
  /\ Answer("ack", Head(queue).id)
  /\ history' = [history EXCEPT ![slot] = Head(queue).id]
  /\ slot' = (slot + 1) % HistoryLen
  /\ task' = "dispatch" /\ cur' = Head(queue)
  /\ UNCHANGED <<ground, up, repeated, took>>

(* A legacy frame goes straight to its handler.                            *)
AcceptLegacy ==
  /\ Next1 /\ Head(queue).id = 0
  /\ task' = "dispatch" /\ cur' = Head(queue)
  /\ UNCHANGED <<ground, up, down, repeated, history, slot, took>>

Return == task = "dispatch" /\ task' = "loop" /\ cur' = [id |-> 0]

(* The handler did its work, which for most of them may be to ignore an    *)
(* unfit value.                                                            *)
Apply ==
  /\ Return /\ took' = [took EXCEPT ![cur.command] = @ + 1]
  /\ IF cur.id = 0 THEN UNCHANGED down ELSE Answer("applied", cur.id)
  /\ UNCHANGED <<ground, up, repeated, queue, history, slot>>

(* Seeded fault: a refused transaction stays in the history.               *)
RefuseKept ==
  /\ Return /\ IF cur.id = 0 THEN UNCHANGED down ELSE Answer("rejected", cur.id)
  /\ UNCHANGED <<ground, up, repeated, queue, history, slot, took>>

(* A handler that can say so (CMD 0x1A to 0x1C, 0x2D) refuses: the         *)
(* transaction leaves the history, so that it may be tried again.          *)
Refuse ==
  /\ Return /\ IF cur.id = 0 THEN UNCHANGED down ELSE Answer("rejected", cur.id)
  /\ LET last == (slot + HistoryLen - 1) % HistoryLen
     IN  history' = IF cur.id # 0 /\ history[last] = cur.id
                    THEN [history EXCEPT ![last] = 0] ELSE history
  /\ UNCHANGED <<ground, up, repeated, queue, slot, took>>

Ground    == \/ SendCommand \/ SendOther \/ SendLegacy
             \/ Poll \/ TakeResult \/ GiveUp \/ Restart
Link      == Repeat \/ Arrive
Send_Task == Duplicate \/ Reject \/ Accept \/ AcceptLegacy \/ Apply \/ Refuse

Next == Ground \/ Link \/ Send_Task

Spec == Init /\ [][Next]_vars

-----------------------------------------------------------------------------
(* Properties.                                                             *)

(* The replay of a transaction executes nothing a second time, although    *)
(* the history is a ring that other transactions run through and refused   *)
(* ones are taken out of.                                                  *)
AtMostOnce == \A c \in Commands \ Legacy : took[c] <= 1

(* What _send_cmd returns is what happened, for a command that shares its  *)
(* id with no other.                                                       *)
Done(c)     == took[c] > 0
Underway(c) == task = "dispatch" /\ cur.command = c
Unique(c)   == \A d \in Commands \ {c} : sent[d] # sent[c]

(* A command that returned "applied" was executed, whatever was lost,      *)
(* repeated, refused in between or forgotten by the history.               *)
AppliedIsTrue ==
  client.says = "applied" /\ Unique(client.command) => Done(client.command)

(* One that was reported rejected did and does nothing, unless its frame   *)
(* came twice and the second one was accepted.                             *)
RejectedIsTrue ==
  client.says = "rejected" /\ Unique(client.command) /\ client.command \notin repeated =>
    ~Done(client.command) /\ ~Underway(client.command)

(* Both: the client may act on either answer without asking telemetry.     *)
AnswersAreTrue == AppliedIsTrue /\ RejectedIsTrue

(* "Command was successfully applied" (COMMAND_SPEC.md, APPLIED) and "its  *)
(* outcome can be correlated without guessing" (platform/transactions.py): *)
(* the same of every command.                                              *)
AppliedIsTrueAlways == client.says = "applied" => Done(client.command)

(* Commands take effect in the order they were sent; only one that came    *)
(* twice may follow a later one.                                           *)
InOrder ==
  [][\A c, d \in Sent : c < d /\ took[d] > 0 /\ took'[c] > took[c] => c \in repeated]_vars

(* What may still take effect: a command of which something is left and    *)
(* whose transaction was not executed.                                     *)
Carries(frames, c) == \E k \in DOMAIN frames : frames[k].command = c
Afoot(c) == Carries(up, c) \/ Carries(queue, c) \/ Underway(c)
Open     == {c \in Commands : Afoot(c) /\ (took[c] = 0 \/ sent[c] = 0)}

Fates == INSTANCE CommandFates
           WITH Sendings <- Sent, count <- Len(sent), plain <- Legacy, twice <- repeated,
                open <- Open, took <- took

(* A command takes effect while it is open, once and in its order, and is  *)
(* never opened again: not by its repetition, by a history that forgot it, *)
(* by an id used twice or by a new process on the ground.                  *)
RefinesFates == Fates!Spec
=============================================================================
