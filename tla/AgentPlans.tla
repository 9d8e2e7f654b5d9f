------------------------------ MODULE AgentPlans ------------------------------
(***************************************************************************)
(* The agent layer of the ground-station service                           *)
(* (ground_station/service/agent.py): plans of steps run one at a time by  *)
(* a thread of their own, critical steps held until the operator approves  *)
(* them, and an operator switch (off, supervised, autonomous) that any     *)
(* HTTP thread may turn while a plan runs.  The service lock makes each    *)
(* locked region one step; the plan thread works outside it, so the switch *)
(* may move between any two of its steps.                                  *)
(***************************************************************************)
EXTENDS Naturals, Sequences, FiniteSets

CONSTANTS MaxPlans,   \* how many plans are posted
          Bodies,     \* the step lists an agent may post
          Positions   \* the positions of the switch the operator uses

Plans == 1..MaxPlans  \* _plan_id: ids count up
NoPlan == 0           \* _running_plan is None
Step == [kind : {"safe", "arm", "param"}, cont : BOOLEAN]

ASSUME PlansAssumption == MaxPlans \in Nat
ASSUME BodiesAssumption == Bodies \subseteq Seq(Step) /\ <<>> \notin Bodies
ASSUME PositionsAssumption ==
  Positions \subseteq {"off", "supervised", "autonomous"} \X BOOLEAN \X {"partial", "full"}

VARIABLES
  mode, arm, access,   \* the operator's switch: mode, allow_agent_arm, tier0_access
  ctl,                 \* what set_control has still to do after it dropped the lock
  st, body,            \* Plan.status and Plan.steps
  ss,                  \* PlanStep.status of each step
  item,                \* the ApprovalItem made for each step, "none" if none was
  cancelled,           \* Plan.cancelled, the event
  approvals,           \* AgentManager._approvals, the operator's queue
  running, queue,      \* _running_plan and _queue
  pc, at,              \* the plan thread: where it is, and at which step
  sent                 \* the steps whose command has gone to submit_command

switch == <<mode, arm, access>>
vars == <<switch, ctl, st, body, ss, item, cancelled, approvals, running, queue, pc, at, sent>>

Modes == {"off", "supervised", "autonomous"}
Terminal == {"done", "failed", "cancelled"}
OpenStep == {"pending", "running", "awaiting_approval"}
Pcs == {"none", "top", "approve", "wait", "use", "exec", "answer", "fail", "gone"}
Idx(p) == DOMAIN body[p]
Live(p) == pc[p] \notin {"none", "gone"}

Init ==
  /\ mode = "supervised" /\ arm = FALSE /\ access = "partial"
  /\ ctl = {}
  /\ st = [p \in Plans |-> "none"]
  /\ body = [p \in Plans |-> <<>>]
  /\ ss = [p \in Plans |-> <<>>]
  /\ item = [p \in Plans |-> <<>>]
  /\ cancelled = [p \in Plans |-> FALSE]
  /\ approvals = {}
  /\ running = NoPlan
  /\ queue = <<>>
  /\ pc = [p \in Plans |-> "none"]
  /\ at = [p \in Plans |-> 1]
  /\ sent = [p \in Plans |-> {}]

(***************************************************************************)
(* What the switch asks for, and the endings a plan can have.              *)
(***************************************************************************)

\* Every parameter write is tier 0, so only full access releases one.
NeedsApproval(s) ==
  /\ s.kind # "safe"
  /\ \/ mode # "autonomous"
     \/ s.kind = "arm" /\ ~arm
     \/ s.kind = "param" /\ access # "full"

CancelSteps(s) == [i \in DOMAIN s |-> IF s[i] \in OpenStep THEN "cancelled" ELSE s[i]]

\* Seeded fault: the ending that forgets the queue.
FinishAlone(p, status) ==
  /\ st' = [st EXCEPT ![p] = status]
  /\ pc' = [pc EXCEPT ![p] = "gone"]
  /\ running' = IF running = p THEN NoPlan ELSE running
  /\ UNCHANGED queue

\* _finish_plan_unlocked: only this ending starts the next queued plan.
Finish(p, status) ==
  IF running = p /\ queue # <<>>
  THEN /\ st' = [st EXCEPT ![p] = status, ![Head(queue)] = "running"]
       /\ pc' = [pc EXCEPT ![p] = "gone", ![Head(queue)] = "top"]
       /\ running' = Head(queue)
       /\ queue' = Tail(queue)
  ELSE /\ st' = [st EXCEPT ![p] = status]
       /\ pc' = [pc EXCEPT ![p] = "gone"]
       /\ running' = IF running = p THEN NoPlan ELSE running
       /\ UNCHANGED queue

(***************************************************************************)
(* The operator's and the agents' requests, on HTTP threads.               *)
(***************************************************************************)

\* set_control, its locked part: the new switch.  A change of access sets
\* allow_agent_arm with it.  What follows runs after the lock is dropped.
SetControl(m, a, t) ==
  /\ mode' = m
  /\ access' = t
  /\ arm' = IF t # access THEN t = "full" ELSE a
  /\ switch' # switch
  /\ ctl' = ctl \union {IF m = "off" THEN "cancel" ELSE "release"}
  /\ UNCHANGED <<st, body, ss, item, cancelled, approvals, running, queue, pc, at, sent>>

\* Seeded fault: the kill switch stops the running plan and leaves the queue.
CancelTheRunning ==
  /\ "cancel" \in ctl
  /\ cancelled' = [p \in Plans |-> cancelled[p] \/ p = running]
  /\ ss' = [p \in Plans |-> IF p = running THEN CancelSteps(ss[p]) ELSE ss[p]]
  /\ approvals' = {}
  /\ ctl' = ctl \ {"cancel"}
  /\ UNCHANGED <<switch, st, body, item, running, queue, pc, at, sent>>

\* _cancel_everything: the running plan is told to stop, the queued ones end here.
CancelEverything ==
  /\ "cancel" \in ctl
  /\ LET queued == {queue[k] : k \in DOMAIN queue}
         hit == queued \union ({running} \ {NoPlan})
     IN /\ cancelled' = [p \in Plans |-> cancelled[p] \/ p \in hit]
        /\ ss' = [p \in Plans |-> IF p \in hit THEN CancelSteps(ss[p]) ELSE ss[p]]
        /\ st' = [p \in Plans |-> IF p \in queued THEN "cancelled" ELSE st[p]]
        /\ pc' = [p \in Plans |-> IF p \in queued THEN "gone" ELSE pc[p]]
  /\ queue' = <<>>
  /\ approvals' = {}
  /\ ctl' = ctl \ {"cancel"}
  /\ UNCHANGED <<switch, body, item, running, at, sent>>

\* _auto_approve_released: what the present switch no longer holds is decided for good.
AutoApprove ==
  /\ "release" \in ctl
  /\ LET released == {a \in approvals : ~NeedsApproval(body[a[1]][a[2]])}
     IN /\ item' = [p \in Plans |-> [i \in Idx(p) |->
                      IF <<p, i>> \in released THEN "approved" ELSE item[p][i]]]
        /\ approvals' = approvals \ released
  /\ ctl' = ctl \ {"release"}
  /\ UNCHANGED <<switch, st, body, ss, cancelled, running, queue, pc, at, sent>>

\* create_plan: one approval item per step that needs one under the present switch.
CreatePlan(p, b, queueIfBusy) ==
  /\ st[p] = "none" /\ \A q \in 1..p - 1 : st[q] # "none"
  /\ mode # "off"
  /\ running # NoPlan => queueIfBusy
  /\ body' = [body EXCEPT ![p] = b]
  /\ ss' = [ss EXCEPT ![p] = [i \in DOMAIN b |-> "pending"]]
  /\ item' = [item EXCEPT ![p] =
                [i \in DOMAIN b |-> IF NeedsApproval(b[i]) THEN "pending" ELSE "none"]]
  /\ approvals' = approvals \union {<<p, i>> : i \in {j \in DOMAIN b : NeedsApproval(b[j])}}
  /\ IF running # NoPlan
     THEN /\ queue' = Append(queue, p)
          /\ st' = [st EXCEPT ![p] = "pending"]
          /\ UNCHANGED <<running, pc>>
     ELSE /\ running' = p
          /\ st' = [st EXCEPT ![p] = "running"]
          /\ pc' = [pc EXCEPT ![p] = "top"]
          /\ UNCHANGED queue
  /\ UNCHANGED <<switch, ctl, cancelled, at, sent>>

\* Seeded fault: the plan's items are cleared and the event is not set.
CancelItems(p) ==
  /\ st[p] \notin Terminal \union {"none"}
  /\ ss' = [ss EXCEPT ![p] = CancelSteps(@)]
  /\ approvals' = {a \in approvals : a[1] # p}
  /\ UNCHANGED <<switch, ctl, st, body, item, cancelled, running, queue, pc, at, sent>>

\* cancel_plan: a queued plan keeps its place in the queue and its status.
CancelPlan(p) ==
  /\ st[p] \notin Terminal \union {"none"}
  /\ cancelled' = [cancelled EXCEPT ![p] = TRUE]
  /\ ss' = [ss EXCEPT ![p] = CancelSteps(@)]
  /\ approvals' = {a \in approvals : a[1] # p}
  /\ UNCHANGED <<switch, ctl, st, body, item, running, queue, pc, at, sent>>

\* decide_approval: a decided item stays in the queue until its step uses it,
\* so the operator may still turn it round.
Decide(p, i, verdict) ==
  /\ <<p, i>> \in approvals
  /\ item[p][i] # verdict
  /\ item' = [item EXCEPT ![p][i] = verdict]
  /\ UNCHANGED <<switch, ctl, st, body, ss, cancelled, approvals, running, queue, pc, at, sent>>

(***************************************************************************)
(* _run_plan, the plan's thread.                                           *)
(***************************************************************************)

Goto(p, l) == pc' = [pc EXCEPT ![p] = l]
\* Seeded fault: the index is moved on twice.
NextStepTwice(p, status) ==
  /\ ss' = [ss EXCEPT ![p][at[p]] = status]
  /\ at' = [at EXCEPT ![p] = @ + 2]
  /\ Goto(p, "top")

NextStep(p, status) ==
  /\ ss' = [ss EXCEPT ![p][at[p]] = status]
  /\ at' = [at EXCEPT ![p] = @ + 1]
  /\ Goto(p, "top")

\* The head of the loop: the one place where the thread looks at the cancel
\* event before it takes up a step.
Top(p) ==
  /\ pc[p] = "top"
  /\ at[p] \in Idx(p)
  /\ IF cancelled[p] \/ ss[p][at[p]] \in {"done", "cancelled"}
     THEN NextStep(p, IF ss[p][at[p]] \in {"done", "failed"} THEN ss[p][at[p]] ELSE "cancelled")
     ELSE /\ ss' = [ss EXCEPT ![p][at[p]] = "running"]
          /\ Goto(p, IF body[p][at[p]].kind = "safe" THEN "use" ELSE "approve")
          /\ UNCHANGED at
  /\ UNCHANGED <<switch, ctl, st, body, item, cancelled, approvals, running, queue, sent>>

\* _maybe_approve, up to the wait: a step for which no item was made passes.
Ask(p) ==
  /\ pc[p] = "approve"
  /\ IF NeedsApproval(body[p][at[p]]) /\ item[p][at[p]] # "none"
     THEN Goto(p, "wait") /\ ss' = [ss EXCEPT ![p][at[p]] = "awaiting_approval"]
     ELSE Goto(p, "use") /\ UNCHANGED ss
  /\ UNCHANGED <<switch, ctl, st, body, item, cancelled, approvals, running, queue, at, sent>>

\* Seeded fault: the wait for the operator does not look at the cancel event.
InterruptedInAnswer(p) ==
  /\ cancelled[p]
  /\ pc[p] = "answer"
  /\ ss' = [ss EXCEPT ![p][at[p]] = IF @ \in {"done", "failed"} THEN @ ELSE "cancelled"]
  /\ Finish(p, "cancelled")
  /\ UNCHANGED <<switch, ctl, body, item, cancelled, approvals, at, sent>>

\* A step interrupted by the cancel event ends the plan as cancelled.
Interrupted(p) ==
  /\ cancelled[p]
  /\ pc[p] \in {"wait", "answer"}
  /\ ss' = [ss EXCEPT ![p][at[p]] = IF @ \in {"done", "failed"} THEN @ ELSE "cancelled"]
  /\ Finish(p, "cancelled")
  /\ UNCHANGED <<switch, ctl, body, item, cancelled, approvals, at, sent>>

\* Seeded fault: a rejected step is skipped in every plan.
WakeSkipping(p) ==
  /\ pc[p] = "wait"
  /\ ~cancelled[p]
  /\ item[p][at[p]] # "pending"
  /\ IF item[p][at[p]] = "approved" THEN Goto(p, "use") /\ UNCHANGED <<ss, at>>
     ELSE NextStep(p, "skipped")
  /\ UNCHANGED <<switch, ctl, st, body, item, cancelled, approvals, running, queue, sent>>

\* _maybe_approve, once ApprovalItem.wait returns with a decision.
Wake(p) ==
  /\ pc[p] = "wait"
  /\ ~cancelled[p]
  /\ item[p][at[p]] # "pending"
  /\ IF item[p][at[p]] = "approved" THEN Goto(p, "use") /\ UNCHANGED <<ss, at>>
     ELSE IF body[p][at[p]].cont THEN NextStep(p, "skipped")
     ELSE /\ ss' = [ss EXCEPT ![p][at[p]] = "failed"]
          /\ Goto(p, "fail")
          /\ UNCHANGED at
  /\ UNCHANGED <<switch, ctl, st, body, item, cancelled, approvals, running, queue, sent>>

\* Seeded fault: the item is taken from the queue undecided.
UseUndecided(p) ==
  /\ pc[p] = "use"
  /\ approvals' = approvals \ {<<p, at[p]>>}
  /\ Goto(p, "exec")
  /\ UNCHANGED <<switch, ctl, st, body, ss, item, cancelled, running, queue, at, sent>>

\* _mark_approval_used: an item still undecided is decided by the step itself.
UseApproval(p) ==
  /\ pc[p] = "use"
  /\ item' = IF <<p, at[p]>> \in approvals /\ item[p][at[p]] = "pending"
             THEN [item EXCEPT ![p][at[p]] = "approved"] ELSE item
  /\ approvals' = approvals \ {<<p, at[p]>>}
  /\ Goto(p, "exec")
  /\ UNCHANGED <<switch, ctl, st, body, ss, cancelled, running, queue, at, sent>>

\* _exec_service, the submit of a command step: the cancel event is not looked at.
Submit(p) ==
  /\ pc[p] = "exec"
  /\ sent' = [sent EXCEPT ![p] = @ \union {at[p]}]
  /\ Goto(p, "answer")
  /\ UNCHANGED <<switch, ctl, st, body, ss, item, cancelled, approvals, running, queue, at>>

\* The outcomes of a step: an answer, or an error (refused, rejected, timed out).
Answer(p, ok) ==
  /\ pc[p] \in IF ok THEN {"answer"} ELSE {"exec", "answer"}
  /\ IF ok THEN NextStep(p, "done")
     ELSE IF body[p][at[p]].cont THEN NextStep(p, "failed")
     ELSE /\ ss' = [ss EXCEPT ![p][at[p]] = "failed"]
          /\ Goto(p, "fail")
          /\ UNCHANGED at
  /\ UNCHANGED <<switch, ctl, st, body, item, cancelled, approvals, running, queue, sent>>

\* _fail_plan: frees the runner but leaves the queue as it is.
FailPlan(p) ==
  /\ pc[p] = "fail"
  /\ st' = [st EXCEPT ![p] = "failed"]
  /\ ss' = [ss EXCEPT ![p] = [i \in Idx(p) |-> IF @[i] = "pending" THEN "skipped" ELSE @[i]]]
  /\ item' = [item EXCEPT ![p] = [i \in Idx(p) |->
                IF <<p, i>> \in approvals /\ @[i] = "pending" THEN "rejected" ELSE @[i]]]
  /\ approvals' = {a \in approvals : a[1] # p}
  /\ running' = IF running = p THEN NoPlan ELSE running
  /\ Goto(p, "gone")
  /\ UNCHANGED <<switch, ctl, body, cancelled, queue, at, sent>>

\* The end of the loop: done, whatever became of the steps.
EndPlan(p) ==
  /\ pc[p] = "top"
  /\ at[p] \notin Idx(p)
  /\ Finish(p, "done")
  /\ UNCHANGED <<switch, ctl, body, ss, item, cancelled, approvals, at, sent>>

PlanThread(p) ==
  \/ Top(p) \/ Ask(p) \/ Wake(p) \/ UseApproval(p) \/ Submit(p) \/ FailPlan(p) \/ EndPlan(p)
  \/ Interrupted(p)
  \/ \E ok \in BOOLEAN : Answer(p, ok)

Operator ==
  \/ \E s \in Positions : SetControl(s[1], s[2], s[3])
  \/ \E p \in Plans : \E i \in Idx(p), v \in {"approved", "rejected"} : Decide(p, i, v)
  \/ \E p \in Plans : CancelPlan(p)

Agent == \E p \in Plans, b \in Bodies, q \in BOOLEAN : CreatePlan(p, b, q)

Next == Operator \/ Agent \/ CancelEverything \/ AutoApprove \/ \E p \in Plans : PlanThread(p)

Spec == Init /\ [][Next]_vars

\* Every wait of the plan thread is a poll with a deadline or on the cancel event.
FairSpec == Spec /\ \A p \in Plans : WF_vars(PlanThread(p))

-----------------------------------------------------------------------------
\* The values the fields of the manager can hold.
TypeOK ==
  /\ mode \in Modes /\ arm \in BOOLEAN /\ access \in {"partial", "full"}
  /\ ctl \subseteq {"cancel", "release"}
  /\ st \in [Plans -> Terminal \union {"none", "pending", "running"}]
  /\ body \in [Plans -> Bodies \union {<<>>}]
  /\ \A p \in Plans :
       /\ ss[p] \in [Idx(p) -> OpenStep \union Terminal \union {"skipped"}]
       /\ item[p] \in [Idx(p) -> {"none", "pending", "approved", "rejected"}]
       /\ at[p] \in 1..Len(body[p]) + 1
       /\ sent[p] \subseteq Idx(p)
  /\ cancelled \in [Plans -> BOOLEAN]
  /\ approvals \subseteq UNION {{p} \X Idx(p) : p \in Plans}
  /\ running \in Plans \union {NoPlan}
  /\ queue \in Seq(Plans)
  /\ pc \in [Plans -> Pcs]

\* A plan thread that waits for an operator can be answered: its item is in the
\* operator's queue, whatever clean-up, release or cancel ran meanwhile, or the
\* plan's cancel event is set and the wait ends by itself.
WaitersAreReachable ==
  \A p \in Plans :
    pc[p] = "wait" /\ item[p][at[p]] = "pending" => <<p, at[p]>> \in approvals \/ cancelled[p]

\* Once the switch is off and its clean-up has run, nothing is left to run: no
\* item waits for a decision, no plan is queued, and the plan still in its
\* thread has been told to stop.
OffMeansOff ==
  mode = "off" /\ "cancel" \notin ctl =>
    /\ approvals = {} /\ queue = <<>>
    /\ \A p \in Plans : Live(p) => cancelled[p]

\* The command of a step for which an approval item was made never goes out
\* with the item undecided, except in a plan cancelled under the step's feet.
AskedBeforeSent ==
  \A p \in Plans : \A i \in sent[p] : item[p][i] = "pending" => cancelled[p]

\* A plan that nobody cancelled and that ends "done" ran each of its steps, but
\* for those marked to go on without: apply_params reads that status as "the
\* parameters are in".
DoneMeansRan ==
  \A p \in Plans : st[p] = "done" /\ ~cancelled[p] =>
    \A i \in Idx(p) :
      \/ ss[p][i] = "done" /\ i \in sent[p]
      \/ ss[p][i] \in {"failed", "skipped"} /\ body[p][i].cont

\* A queued plan is left behind with no plan running only where an earlier plan
\* failed: every other ending starts it.
QueueIsServed ==
  queue # <<>> /\ running = NoPlan => \E p \in Plans : st[p] = "failed"

\* A running plan that is cancelled comes to its end, whatever its thread was
\* waiting for.
CancelEnds ==
  \A p \in Plans : running = p /\ cancelled[p] ~> pc[p] = "gone"

\* The guide's rule for the supervised mode: a critical step waits for the
\* operator.  A step for which no item was made does not.
SupervisedWaits ==
  [][\A p \in Plans : mode = "supervised" /\ pc[p] = "approve" /\ pc'[p] # "approve"
        => pc'[p] = "wait"]_vars
=============================================================================
