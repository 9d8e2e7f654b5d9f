-------------------------- MODULE AgentPlansProofs --------------------------
(***************************************************************************)
(* AgentPlans holds what its run shows for every number of plans, every    *)
(* step list and every set of switch positions.                            *)
(***************************************************************************)
EXTENDS AgentPlans, TLAPS

USE PlansAssumption, BodiesAssumption, PositionsAssumption

Statuses == Terminal \union {"none", "pending", "running"}
StepStatuses == OpenStep \union Terminal \union {"skipped"}
Items == {"none", "pending", "approved", "rejected"}

(* The parts of the type invariant.                                        *)
SwitchOK == /\ mode \in Modes /\ arm \in BOOLEAN /\ access \in {"partial", "full"}
            /\ ctl \subseteq {"cancel", "release"}
BodyOK == body \in [Plans -> Bodies \union {<<>>}]
StepsOK == \A p \in Plans : ss[p] \in [Idx(p) -> StepStatuses]
ItemsOK == \A p \in Plans : item[p] \in [Idx(p) -> Items]
AtOK == \A p \in Plans : at[p] \in 1 .. Len(body[p]) + 1
SentOK == \A p \in Plans : sent[p] \subseteq Idx(p)
AskedOK == approvals \subseteq UNION {{p} \X Idx(p) : p \in Plans}
RunOK == /\ st \in [Plans -> Statuses] /\ pc \in [Plans -> Pcs]
         /\ running \in Plans \union {NoPlan} /\ queue \in Seq(Plans)

(* The fields that TypeOK leaves open: they are functions on the plans.    *)
Shapes == DOMAIN ss = Plans /\ DOMAIN item = Plans /\ DOMAIN at = Plans /\ DOMAIN sent = Plans

Typed == /\ SwitchOK /\ BodyOK /\ StepsOK /\ ItemsOK /\ AtOK /\ SentOK /\ AskedOK /\ RunOK
         /\ cancelled \in [Plans -> BOOLEAN] /\ Shapes

(* A step in hand is a step of the plan.                                   *)
Busy == {"approve", "wait", "use", "exec", "answer", "fail"}
InHand == \A p \in Plans : pc[p] \in Busy => at[p] \in Idx(p)

(* A plan not yet posted has no steps.                                     *)
Unborn == \A p \in Plans : st[p] = "none" => body[p] = <<>>

Shaped == Typed /\ InHand /\ Unborn

LEMMA TypeParts == Typed => TypeOK
  BY DEF TypeOK, Typed, SwitchOK, BodyOK, StepsOK, ItemsOK, AtOK, SentOK, AskedOK, RunOK, Statuses,
     StepStatuses, Items

LEMMA PlanIds == NoPlan \notin Plans /\ Plans \subseteq Nat
  BY DEF NoPlan, Plans

LEMMA Bodied == ASSUME NEW b \in Bodies \union {<<>>}
                PROVE  Len(b) \in Nat /\ DOMAIN b = 1 .. Len(b) /\ \A n \in DOMAIN b : b[n] \in Step
<1>1. CASE b \in Bodies
  BY <1>1 DEF BodiesAssumption
<1>2. CASE b = <<>>
  BY <1>2
<1> QED
  BY <1>1, <1>2

LEMMA TypeInit == Init => Shaped
<1> SUFFICES ASSUME Init PROVE Shaped
  OBVIOUS
<1>1. SwitchOK
  BY DEF Init, SwitchOK, Modes
<1>2. BodyOK /\ RunOK /\ cancelled \in [Plans -> BOOLEAN]
  BY DEF Init, BodyOK, RunOK, Statuses, Pcs
<1>3. \A p \in Plans : Idx(p) = {} /\ Len(body[p]) = 0
  BY DEF Init, Idx
<1>4. StepsOK /\ ItemsOK
  <2>1. \A S : <<>> \in [{} -> S]
    <3>1. ASSUME NEW S PROVE <<>> \in [{} -> S]
      <4>1. <<>> \in Seq(S) /\ Len(<<>>) = 0
        OBVIOUS
      <4>2. <<>> \in [1 .. 0 -> S]
        BY <4>1
      <4>3. 1 .. 0 = {}
        OBVIOUS
      <4> QED
        BY <4>2, <4>3, Zenon
    <3> QED
      BY <3>1
  <2>2. \A p \in Plans : ss[p] = <<>> /\ item[p] = <<>>
    BY DEF Init
  <2> QED
    BY <1>3, <2>1, <2>2, Zenon DEF StepsOK, ItemsOK
<1>5. AtOK
  BY <1>3 DEF Init, AtOK
<1>6. SentOK /\ AskedOK
  BY DEF Init, SentOK, AskedOK
<1>7. Shapes
  BY DEF Init, Shapes
<1> QED
  BY <1>1, <1>2, <1>4, <1>5, <1>6, <1>7 DEF Shaped, Unborn, Typed, InHand, Busy, Init

LEMMA Cancelled ==
  ASSUME NEW S, NEW s \in [S -> StepStatuses]
  PROVE  CancelSteps(s) \in [S -> StepStatuses]
  BY DEF CancelSteps, StepStatuses, OpenStep, Terminal

(* The queue, when a plan ends.                                            *)
LEMMA FinishRun ==
  ASSUME RunOK, NEW p \in Plans, NEW status \in Terminal, Finish(p, status)
  PROVE  RunOK' /\ \A q \in Plans : pc'[q] \in {pc[q], "gone", "top"}
<1>1. CASE running = p /\ queue # <<>>
  <2>1. Head(queue) \in Plans /\ Tail(queue) \in Seq(Plans)
    BY <1>1 DEF RunOK
  <2>2. /\ st' = [st EXCEPT ![p] = status, ![Head(queue)] = "running"]
        /\ pc' = [pc EXCEPT ![p] = "gone", ![Head(queue)] = "top"]
        /\ running' = Head(queue) /\ queue' = Tail(queue)
    BY <1>1 DEF Finish
  <2> QED
    BY <2>1, <2>2 DEF RunOK, Statuses, Pcs
<1>2. CASE ~(running = p /\ queue # <<>>)
  BY <1>2 DEF Finish, RunOK, Statuses, Pcs
<1> QED
  BY <1>1, <1>2

(* One entry of a nested function.                                         *)
LEMMA SetOne ==
  ASSUME NEW f, NEW p \in DOMAIN f, NEW n \in DOMAIN f[p], NEW x, NEW S,
         f[p] \in [DOMAIN f[p] -> S], x \in S,
         NEW g, g = [f EXCEPT ![p][n] = x]
  PROVE  /\ DOMAIN g = DOMAIN f
         /\ \A q \in DOMAIN f : q # p => g[q] = f[q]
         /\ g[p] \in [DOMAIN f[p] -> S]
         /\ g[p][n] = x /\ \A m \in DOMAIN f[p] : m # n => g[p][m] = f[p][m]
  OBVIOUS

LEMMA StepSet ==
  ASSUME Typed, NEW p \in Plans, at[p] \in Idx(p), NEW x \in StepStatuses,
         ss' = [ss EXCEPT ![p][at[p]] = x], body' = body
  PROVE  /\ StepsOK' /\ DOMAIN ss' = Plans
         /\ \A q \in Plans : q # p => ss'[q] = ss[q]
         /\ ss'[p][at[p]] = x /\ \A m \in Idx(p) : m # at[p] => ss'[p][m] = ss[p][m]
<1>1. ss[p] \in [Idx(p) -> StepStatuses] /\ DOMAIN ss = Plans /\ DOMAIN ss[p] = Idx(p)
  BY DEF Typed, StepsOK, Shapes
<1>2. /\ DOMAIN ss' = Plans
      /\ \A q \in Plans : q # p => ss'[q] = ss[q]
      /\ ss'[p] \in [Idx(p) -> StepStatuses]
      /\ ss'[p][at[p]] = x /\ \A m \in Idx(p) : m # at[p] => ss'[p][m] = ss[p][m]
  BY <1>1, SetOne
<1>3. \A q \in Plans : Idx(q)' = Idx(q)
  BY DEF Idx
<1> QED
  BY <1>2, <1>3 DEF Typed, StepsOK

LEMMA Next1 ==
  ASSUME Typed, InHand, NEW p \in Plans, NEW x \in StepStatuses, at[p] \in Idx(p), NextStep(p, x), body' = body
  PROVE  StepsOK' /\ DOMAIN ss' = Plans /\ AtOK' /\ DOMAIN at' = Plans /\ InHand'
         /\ pc' \in [Plans -> Pcs]
<1>1. at' = [at EXCEPT ![p] = at[p] + 1] /\ ss' = [ss EXCEPT ![p][at[p]] = x]
      /\ pc' = [pc EXCEPT ![p] = "top"]
  BY DEF NextStep, Goto
<1>2. Len(body[p]) \in Nat /\ Idx(p) = 1 .. Len(body[p])
  BY Bodied DEF Typed, BodyOK, Idx
<1>3. AtOK' /\ DOMAIN at' = Plans
  BY <1>1, <1>2 DEF Typed, AtOK, Shapes
<1>4. InHand' /\ pc' \in [Plans -> Pcs]
  BY <1>1 DEF Typed, RunOK, InHand, Idx, Busy, Pcs, Shapes
<1> QED
  BY <1>1, <1>3, <1>4, StepSet

LEMMA FinishBorn ==
  ASSUME RunOK, Unborn, NEW p \in Plans, NEW status \in Terminal, Finish(p, status), body' = body
  PROVE  Unborn'
<1>1. \A q \in Plans : st'[q] = "none" => st[q] = "none"
  <2>1. CASE running = p /\ queue # <<>>
    BY <2>1 DEF Finish, RunOK, Terminal
  <2>2. CASE ~(running = p /\ queue # <<>>)
    BY <2>2 DEF Finish, RunOK, Terminal
  <2> QED
    BY <2>1, <2>2
<1> QED
  BY <1>1 DEF Unborn

LEMMA TypeStep == Shaped /\ [Next]_vars => Shaped'
<1> SUFFICES ASSUME Shaped, [Next]_vars PROVE Shaped'
  OBVIOUS
<1> USE DEF switch
<1>0. /\ SwitchOK /\ BodyOK /\ StepsOK /\ ItemsOK /\ AtOK /\ SentOK /\ AskedOK /\ RunOK
      /\ cancelled \in [Plans -> BOOLEAN] /\ Shapes /\ InHand /\ Unborn /\ Typed
  BY DEF Shaped, Typed
<1>1. ASSUME UNCHANGED body PROVE \A p \in Plans : Idx(p)' = Idx(p)
  BY <1>1 DEF Idx
<1>2. "cancelled" \in StepStatuses /\ "done" \in StepStatuses /\ "failed" \in StepStatuses
      /\ "skipped" \in StepStatuses /\ "running" \in StepStatuses
      /\ "awaiting_approval" \in StepStatuses /\ "pending" \in StepStatuses
  BY DEF StepStatuses, OpenStep, Terminal
<1>a. ASSUME NEW s \in Positions, SetControl(s[1], s[2], s[3]) PROVE Shaped'
  <2>1. s[1] \in Modes /\ s[2] \in BOOLEAN /\ s[3] \in {"partial", "full"}
    BY DEF PositionsAssumption, Modes
  <2>2. mode' = s[1] /\ access' = s[3] /\ ctl' = ctl \union {IF s[1] = "off" THEN "cancel" ELSE "release"}
    BY <1>a DEF SetControl
  <2>3. arm' \in BOOLEAN
    <3>1. arm' = IF s[3] # access THEN s[3] = "full" ELSE s[2]
      BY <1>a DEF SetControl
    <3> QED
      BY <2>1, <3>1, Zenon
  <2>4. SwitchOK'
    BY <1>0, <2>1, <2>2, <2>3 DEF SwitchOK
  <2> QED
    BY <1>0, <1>1, <1>a, <2>4
       DEF SetControl, Shaped, Unborn, Typed, BodyOK, StepsOK, ItemsOK, AtOK, SentOK, AskedOK, RunOK, Shapes, InHand, Idx
<1>b. CASE CancelEverything
  <2>1. SwitchOK' /\ BodyOK' /\ ItemsOK' /\ AtOK' /\ SentOK' /\ AskedOK'
    BY <1>0, <1>1, <1>b DEF CancelEverything, SwitchOK, BodyOK, ItemsOK, AtOK, SentOK, AskedOK, Idx
  <2>2. StepsOK' /\ DOMAIN ss' = Plans
    <3>1. PICK hit : ss' = [p \in Plans |-> IF p \in hit THEN CancelSteps(ss[p]) ELSE ss[p]]
      BY <1>b DEF CancelEverything
    <3>2. \A p \in Plans : CancelSteps(ss[p]) \in [Idx(p) -> StepStatuses]
      BY <1>0, Cancelled DEF StepsOK
    <3> QED
      BY <1>0, <1>1, <1>b, <3>1, <3>2 DEF StepsOK, CancelEverything
  <2>3. PICK hit : cancelled' = [p \in Plans |-> cancelled[p] \/ p \in hit]
    BY <1>b DEF CancelEverything
  <2>4. cancelled' \in [Plans -> BOOLEAN]
    BY <2>3
  <2>5. RunOK' /\ \A p \in Plans : pc'[p] \in {pc[p], "gone"}
    BY <1>0, <1>b DEF CancelEverything, RunOK, Statuses, Terminal, Pcs
  <2>6. InHand' /\ Shapes'
    BY <1>0, <1>1, <1>b, <2>2, <2>5 DEF CancelEverything, InHand, Busy, Shapes
  <2>7. Unborn'
    BY <1>0, <1>b DEF CancelEverything, Unborn, RunOK
  <2> QED
    BY <2>1, <2>2, <2>4, <2>5, <2>6, <2>7 DEF Shaped, Typed
<1>c. CASE AutoApprove
  <2>1. PICK rel : /\ item' = [p \in Plans |-> [i \in Idx(p) |->
                                  IF <<p, i>> \in rel THEN "approved" ELSE item[p][i]]]
                   /\ approvals' = approvals \ rel
    BY <1>c DEF AutoApprove
  <2>2. ItemsOK' /\ DOMAIN item' = Plans /\ AskedOK'
    BY <1>0, <1>1, <1>c, <2>1 DEF AutoApprove, ItemsOK, AskedOK, Items
  <2> QED
    BY <1>0, <1>1, <1>c, <2>2
       DEF AutoApprove, Shaped, Unborn, Typed, SwitchOK, BodyOK, StepsOK, AtOK, SentOK, RunOK, Shapes, InHand
<1>d. ASSUME NEW p \in Plans, NEW b \in Bodies, NEW q \in BOOLEAN, CreatePlan(p, b, q)
      PROVE  Shaped'
  <2>1. Len(b) \in Nat /\ DOMAIN b = 1 .. Len(b) /\ b \in Bodies \union {<<>>}
    BY Bodied
  <2>2. /\ body' = [body EXCEPT ![p] = b]
        /\ ss' = [ss EXCEPT ![p] = [i \in DOMAIN b |-> "pending"]]
        /\ item' = [item EXCEPT ![p] = [i \in DOMAIN b |-> IF NeedsApproval(b[i]) THEN "pending" ELSE "none"]]
        /\ UNCHANGED <<switch, ctl, cancelled, at, sent>>
    BY <1>d DEF CreatePlan
  <2>3. \A r \in Plans : Idx(r)' = IF r = p THEN DOMAIN b ELSE Idx(r)
    BY <1>0, <2>2 DEF Idx, BodyOK
  <2>4. SwitchOK' /\ BodyOK'
    BY <1>0, <2>2 DEF SwitchOK, BodyOK
  <2>5. StepsOK' /\ ItemsOK' /\ Shapes'
    BY <1>0, <1>2, <2>2, <2>3 DEF StepsOK, ItemsOK, Items, Shapes
  <2>6. Idx(p) = {} /\ body[p] = <<>> /\ at[p] = 1 /\ sent[p] = {} /\ pc[p] \notin Busy
    <3>1. body[p] = <<>>
      BY <1>0, <1>d DEF CreatePlan, Unborn
    <3>2. Idx(p) = {} /\ Len(body[p]) = 0
      BY <3>1 DEF Idx
    <3>3. sent[p] \subseteq {} /\ at[p] \in 1 .. 1
      BY <1>0, <3>2 DEF SentOK, AtOK
    <3> QED
      BY <1>0, <3>1, <3>2, <3>3 DEF InHand
  <2>7. AtOK' /\ SentOK'
    <3>1. \A r \in Plans : r # p => body'[r] = body[r]
      BY <1>0, <2>2 DEF BodyOK
    <3>2. body'[p] = b
      BY <1>0, <2>2 DEF BodyOK
    <3> QED
      BY <1>0, <2>1, <2>2, <2>3, <2>6, <3>1, <3>2 DEF AtOK, SentOK
  <2>8. AskedOK'
    <3>1. approvals' \subseteq approvals \union {<<p, i>> : i \in DOMAIN b}
      BY <1>d DEF CreatePlan
    <3> QED
      BY <1>0, <2>3, <2>6, <3>1 DEF AskedOK
  <2>9. /\ RunOK' /\ pc' \in {pc, [pc EXCEPT ![p] = "top"]}
        /\ st' \in {[st EXCEPT ![p] = "pending"], [st EXCEPT ![p] = "running"]}
    <3>1. CASE running # NoPlan
      <4>1. /\ queue' = Append(queue, p) /\ st' = [st EXCEPT ![p] = "pending"]
            /\ running' = running /\ pc' = pc
        BY <1>d, <3>1 DEF CreatePlan
      <4>2. queue' \in Seq(Plans)
        BY <1>0, <4>1 DEF RunOK
      <4> QED
        BY <1>0, <4>1, <4>2 DEF RunOK, Statuses
    <3>2. CASE running = NoPlan
      <4>1. /\ running' = p /\ st' = [st EXCEPT ![p] = "running"]
            /\ pc' = [pc EXCEPT ![p] = "top"] /\ queue' = queue
        BY <1>d, <3>2 DEF CreatePlan
      <4> QED
        BY <1>0, <4>1 DEF RunOK, Statuses, Pcs
    <3> QED
      BY <3>1, <3>2
  <2>10. InHand'
    BY <1>0, <2>2, <2>3, <2>6, <2>9 DEF InHand, Busy, RunOK
  <2>11. Unborn'
    BY <1>0, <2>2, <2>9 DEF Unborn, RunOK, BodyOK
  <2> QED
    BY <1>0, <2>2, <2>4, <2>5, <2>7, <2>8, <2>9, <2>10, <2>11 DEF Shaped, Typed
<1>e. ASSUME NEW p \in Plans, CancelPlan(p) PROVE Shaped'
  <2>1. ss' = [ss EXCEPT ![p] = CancelSteps(ss[p])] /\ CancelSteps(ss[p]) \in [Idx(p) -> StepStatuses]
    BY <1>0, <1>e, Cancelled DEF CancelPlan, StepsOK
  <2>2. StepsOK' /\ Shapes'
    BY <1>0, <1>1, <1>e, <2>1 DEF CancelPlan, StepsOK, Shapes
  <2>3. cancelled' \in [Plans -> BOOLEAN] /\ AskedOK'
    BY <1>0, <1>1, <1>e DEF CancelPlan, AskedOK
  <2> QED
    BY <1>0, <1>1, <1>e, <2>2, <2>3
       DEF CancelPlan, Shaped, Unborn, Typed, SwitchOK, BodyOK, ItemsOK, AtOK, SentOK, RunOK, InHand
<1>f. ASSUME NEW p \in Plans, NEW i \in Idx(p), NEW v \in {"approved", "rejected"}, Decide(p, i, v)
      PROVE  Shaped'
  <2>1. item' = [item EXCEPT ![p][i] = v] /\ v \in Items
    BY <1>f DEF Decide, Items
  <2>2. item[p] \in [Idx(p) -> Items] /\ DOMAIN item = Plans /\ DOMAIN item[p] = Idx(p)
    BY <1>0 DEF ItemsOK, Shapes
  <2>3. /\ DOMAIN item' = Plans /\ item'[p] \in [Idx(p) -> Items]
        /\ \A q \in Plans : q # p => item'[q] = item[q]
    BY <2>1, <2>2, SetOne
  <2>4. ItemsOK' /\ Shapes'
    BY <1>0, <1>1, <1>f, <2>3 DEF Decide, ItemsOK, Shapes
  <2> QED
    BY <1>0, <1>1, <1>f, <2>4
       DEF Decide, Shaped, Unborn, Typed, SwitchOK, BodyOK, StepsOK, AtOK, SentOK, AskedOK, RunOK, InHand
<1>g. ASSUME NEW p \in Plans, PlanThread(p) PROVE Shaped'
  <2>1. SwitchOK' /\ BodyOK' /\ cancelled' = cancelled /\ body' = body
    BY <1>0, <1>g
       DEF PlanThread, Top, Ask, Wake, UseApproval, Submit, FailPlan, EndPlan, Interrupted, Answer,
           SwitchOK, BodyOK
  <2>2. \A q \in Plans : Idx(q)' = Idx(q)
    BY <1>1, <2>1
  <2>3. ASSUME UNCHANGED st PROVE Unborn'
    BY <1>0, <2>1, <2>3 DEF Unborn
  (* A move of the thread alone.                                           *)
  <2>4. ASSUME NEW l \in Pcs, Goto(p, l), at[p] \in Idx(p), UNCHANGED <<at, st, running, queue>>
        PROVE  RunOK' /\ InHand' /\ AtOK' /\ DOMAIN at' = Plans
    BY <1>0, <2>1, <2>2, <2>4 DEF Goto, RunOK, InHand, AtOK, Shapes
  (* What a step that only moves the thread and sets a status keeps.       *)
  <2>5. ASSUME UNCHANGED <<st, item, approvals, running, queue, sent>>,
               StepsOK', DOMAIN ss' = Plans, AtOK', DOMAIN at' = Plans, InHand', pc' \in [Plans -> Pcs]
        PROVE  Shaped'
    BY <1>0, <2>1, <2>2, <2>3, <2>5 DEF Shaped, Typed, ItemsOK, SentOK, AskedOK, RunOK, Shapes
  <2>6. ASSUME NEW x \in StepStatuses, NextStep(p, x), at[p] \in Idx(p),
               UNCHANGED <<st, item, approvals, running, queue, sent>>
        PROVE  Shaped'
    BY <1>0, <2>1, <2>5, <2>6, Next1
  <2>7. ASSUME NEW l \in Pcs, Goto(p, l), NEW x \in StepStatuses, ss' = [ss EXCEPT ![p][at[p]] = x],
               at[p] \in Idx(p), UNCHANGED <<at, st, item, approvals, running, queue, sent>>
        PROVE  Shaped'
    <3>1. StepsOK' /\ DOMAIN ss' = Plans
      BY <1>0, <2>1, <2>7, StepSet
    <3> QED
      BY <2>4, <2>5, <2>7, <3>1 DEF RunOK
  <2>8. ASSUME NEW l \in Pcs, Goto(p, l), at[p] \in Idx(p),
               UNCHANGED <<at, st, ss, item, approvals, running, queue, sent>>
        PROVE  Shaped'
    <3>1. StepsOK' /\ DOMAIN ss' = Plans
      BY <1>0, <2>2, <2>8 DEF StepsOK, Shapes
    <3> QED
      BY <2>4, <2>5, <2>8, <3>1 DEF RunOK
  <2>9. "top" \in Pcs /\ \A l \in Busy : l \in Pcs
    BY DEF Pcs, Busy
  <2>a. CASE Top(p)
    <3>1. CASE cancelled[p] \/ ss[p][at[p]] \in {"done", "cancelled"}
      BY <1>2, <1>0, <2>6, <2>a, <3>1 DEF Top
    <3>2. CASE ~(cancelled[p] \/ ss[p][at[p]] \in {"done", "cancelled"})
      BY <1>2, <2>7, <2>9, <2>a, <3>2 DEF Top, Busy
    <3> QED
      BY <3>1, <3>2
  <2>b. CASE Ask(p)
    <3>1. at[p] \in Idx(p)
      BY <1>0, <2>b DEF Ask, InHand, Busy
    <3> QED
      BY <1>2, <2>7, <2>8, <2>9, <2>b, <3>1 DEF Ask, Busy
  <2>c. CASE Wake(p)
    <3>1. at[p] \in Idx(p)
      BY <1>0, <2>c DEF Wake, InHand, Busy
    <3> QED
      BY <1>2, <2>6, <2>7, <2>8, <2>9, <2>c, <3>1 DEF Wake, Busy
  <2>d. CASE UseApproval(p)
    <3>1. at[p] \in Idx(p)
      BY <1>0, <2>d DEF UseApproval, InHand, Busy
    <3>2. RunOK' /\ InHand' /\ AtOK' /\ DOMAIN at' = Plans
      BY <2>4, <2>9, <2>d, <3>1 DEF UseApproval, Busy
    <3>3. item[p] \in [Idx(p) -> Items] /\ DOMAIN item = Plans /\ DOMAIN item[p] = Idx(p)
      BY <1>0 DEF ItemsOK, Shapes
    <3>4. item' = item \/ item' = [item EXCEPT ![p][at[p]] = "approved"]
      BY <2>d DEF UseApproval
    <3>7. ItemsOK' /\ DOMAIN item' = Plans
      <4>1. CASE item' = item
        BY <1>0, <2>2, <4>1 DEF ItemsOK, Shapes
      <4>2. CASE item' = [item EXCEPT ![p][at[p]] = "approved"]
        <5>1. "approved" \in Items
          BY DEF Items
        <5>2. /\ DOMAIN item' = Plans /\ item'[p] \in [Idx(p) -> Items]
              /\ \A q \in Plans : q # p => item'[q] = item[q]
          BY <3>1, <3>3, <4>2, <5>1, SetOne
        <5> QED
          BY <1>0, <2>2, <5>2 DEF ItemsOK
      <4> QED
        BY <3>4, <4>1, <4>2
    <3> QED
      BY <1>0, <2>1, <2>2, <2>3, <2>d, <3>2, <3>7
         DEF UseApproval, Shaped, Typed, StepsOK, SentOK, AskedOK, Shapes
  <2>e. CASE Submit(p)
    <3>1. at[p] \in Idx(p)
      BY <1>0, <2>e DEF Submit, InHand, Busy
    <3>2. RunOK' /\ InHand' /\ AtOK' /\ DOMAIN at' = Plans
      BY <2>4, <2>9, <2>e, <3>1 DEF Submit, Busy
    <3>3. SentOK' /\ DOMAIN sent' = Plans
      BY <1>0, <2>2, <2>e, <3>1 DEF Submit, SentOK, Shapes
    <3> QED
      BY <1>0, <2>1, <2>2, <2>3, <2>e, <3>2, <3>3
         DEF Submit, Shaped, Typed, StepsOK, ItemsOK, AskedOK, Shapes
  <2>f. ASSUME NEW ok \in BOOLEAN, Answer(p, ok) PROVE Shaped'
    <3>1. at[p] \in Idx(p)
      BY <1>0, <2>f DEF Answer, InHand, Busy
    <3>2. \/ NextStep(p, "done") \/ NextStep(p, "failed")
          \/ ss' = [ss EXCEPT ![p][at[p]] = "failed"] /\ Goto(p, "fail") /\ UNCHANGED at
      BY <2>f DEF Answer
    <3>3. UNCHANGED <<st, item, approvals, running, queue, sent>>
      BY <2>f DEF Answer
    <3> QED
      BY <1>2, <2>6, <2>7, <2>9, <3>1, <3>2, <3>3 DEF Busy
  <2>g. CASE FailPlan(p)
    <3>1. ss'[p] \in [Idx(p) -> StepStatuses] /\ item'[p] \in [Idx(p) -> Items]
      BY <1>0, <2>g DEF FailPlan, StepsOK, ItemsOK, Shapes, StepStatuses, Items
    <3>2. /\ DOMAIN ss' = Plans /\ DOMAIN item' = Plans
          /\ \A q \in Plans : q # p => ss'[q] = ss[q] /\ item'[q] = item[q]
      BY <1>0, <2>g DEF FailPlan, Shapes
    <3>3. StepsOK' /\ ItemsOK'
      BY <1>0, <2>2, <3>1, <3>2 DEF StepsOK, ItemsOK
    <3>4. RunOK' /\ InHand' /\ Unborn'
      BY <1>0, <2>1, <2>2, <2>g
         DEF FailPlan, Goto, RunOK, Statuses, Terminal, Pcs, InHand, Busy, Unborn
    <3> QED
      BY <1>0, <2>1, <2>2, <2>g, <3>2, <3>3, <3>4
         DEF FailPlan, Shaped, Typed, AtOK, SentOK, AskedOK, Shapes
  <2>h. ASSUME NEW x \in Terminal, Finish(p, x), UNCHANGED <<item, approvals, at, sent>>,
               StepsOK', DOMAIN ss' = Plans
        PROVE  Shaped'
    <3>1. RunOK' /\ \A q \in Plans : pc'[q] \in {pc[q], "gone", "top"}
      BY <1>0, <2>h, FinishRun
    <3>2. InHand'
      BY <1>0, <2>2, <2>h, <3>1 DEF InHand, Busy
    <3>3. Unborn'
      BY <1>0, <2>1, <2>h, FinishBorn
    <3> QED
      BY <1>0, <2>1, <2>2, <2>h, <3>1, <3>2, <3>3
         DEF Shaped, Typed, ItemsOK, AtOK, SentOK, AskedOK, Shapes
  <2>i. CASE EndPlan(p)
    <3>1. StepsOK' /\ DOMAIN ss' = Plans
      BY <1>0, <2>2, <2>i DEF EndPlan, StepsOK, Shapes
    <3> QED
      BY <2>h, <2>i, <3>1 DEF EndPlan, Terminal
  <2>j. CASE Interrupted(p)
    <3>1. at[p] \in Idx(p)
      BY <1>0, <2>j DEF Interrupted, InHand, Busy
    <3> DEFINE x == IF ss[p][at[p]] \in {"done", "failed"} THEN ss[p][at[p]] ELSE "cancelled"
    <3>2. ss' = [ss EXCEPT ![p][at[p]] = x]
      BY <2>j DEF Interrupted
    <3>3. x \in StepStatuses
      BY <1>2
    <3> HIDE DEF x
    <3>4. StepsOK' /\ DOMAIN ss' = Plans
      BY <1>0, <2>1, <3>1, <3>2, <3>3, StepSet
    <3> QED
      BY <2>h, <2>j, <3>4 DEF Interrupted, Terminal
  <2> QED
    BY <1>g, <2>a, <2>b, <2>c, <2>d, <2>e, <2>f, <2>g, <2>i, <2>j DEF PlanThread
<1>h. CASE UNCHANGED vars
  BY <1>0, <1>1, <1>h
     DEF vars, Shaped, Unborn, Typed, SwitchOK, BodyOK, StepsOK, ItemsOK, AtOK, SentOK, AskedOK, RunOK,
         Shapes, InHand
<1> QED
  BY <1>a, <1>b, <1>c, <1>d, <1>e, <1>f, <1>g, <1>h DEF Next, Operator, Agent

-----------------------------------------------------------------------------
(* The runner and the queue: the plan with a thread is the running one,    *)
(* the queued ones wait without one, and every plan not ended is either.   *)

Queued == {queue[k] : k \in DOMAIN queue}

Single == /\ \A p \in Plans : Live(p) => running = p /\ st[p] = "running"
          /\ running # NoPlan => Live(running)
Lined  == /\ \A k \in DOMAIN queue : st[queue[k]] = "pending" /\ pc[queue[k]] = "none"
          /\ \A j, k \in DOMAIN queue : queue[j] = queue[k] => j = k
          /\ running \notin Queued
Open   == \A p \in Plans : st[p] \notin Terminal \union {"none"} => running = p \/ p \in Queued
Early  == \A p \in Plans : st[p] \in {"none", "pending"} => pc[p] = "none"
Placed == Single /\ Lined /\ Open /\ Early

LEMMA QueueTail ==
  ASSUME queue \in Seq(Plans), queue # <<>>,
         \A j, k \in DOMAIN queue : queue[j] = queue[k] => j = k,
         NEW t, t = Tail(queue)
  PROVE  /\ Head(queue) = queue[1] /\ 1 \in DOMAIN queue /\ t \in Seq(Plans)
         /\ \A k \in DOMAIN t : k + 1 \in DOMAIN queue /\ t[k] = queue[k + 1] /\ t[k] # queue[1]
         /\ \A k \in DOMAIN queue : k # 1 => k - 1 \in DOMAIN t /\ queue[k] = t[k - 1]
         /\ \A j, k \in DOMAIN t : t[j] = t[k] => j = k
<1>1. Len(queue) \in Nat \ {0} /\ DOMAIN queue = 1 .. Len(queue)
  OBVIOUS
<1>2. /\ Head(queue) = queue[1] /\ t \in Seq(Plans) /\ Len(t) = Len(queue) - 1
      /\ DOMAIN t = 1 .. Len(t) /\ \A k \in 1 .. Len(t) : t[k] = queue[k + 1]
  BY <1>1
<1> QED
  BY <1>1, <1>2

LEMMA FinishPlaced ==
  ASSUME RunOK, Placed, NEW p \in Plans, Live(p), NEW status \in Terminal, Finish(p, status)
  PROVE  /\ Placed' /\ ~Live(p)' /\ st'[p] = status
         /\ (queue' # <<>> => running' # NoPlan)
         /\ \A q \in Plans : q # p => st'[q] \in {st[q], "running"} /\ (st[q] # "pending" => st'[q] = st[q])
         /\ \A q \in Plans : q # p => pc'[q] = pc[q] \/ (pc[q] = "none" /\ pc'[q] = "top" /\ st[q] = "pending")
<1>1. running = p /\ st[p] = "running" /\ pc[p] \notin {"none", "gone"}
  BY DEF Placed, Single, Live
<1>2. CASE queue # <<>>
  <2> DEFINE h == queue[1]
             t == Tail(queue)
  <2>1. /\ Head(queue) = h /\ 1 \in DOMAIN queue /\ t \in Seq(Plans)
        /\ \A k \in DOMAIN t : k + 1 \in DOMAIN queue /\ t[k] = queue[k + 1] /\ t[k] # h
        /\ \A k \in DOMAIN queue : k # 1 => k - 1 \in DOMAIN t /\ queue[k] = t[k - 1]
        /\ \A j, k \in DOMAIN t : t[j] = t[k] => j = k
    BY <1>2, QueueTail DEF RunOK, Placed, Lined
  <2>2. h \in Plans /\ st[h] = "pending" /\ pc[h] = "none" /\ h # p
    BY <1>1, <2>1 DEF RunOK, Placed, Lined
  <2> HIDE DEF h, t
  <2>3. /\ st' = [st EXCEPT ![p] = status, ![h] = "running"]
        /\ pc' = [pc EXCEPT ![p] = "gone", ![h] = "top"]
        /\ running' = h /\ queue' = t
    BY <1>1, <1>2, <2>1 DEF Finish, t
  <2>4. /\ st'[p] = status /\ st'[h] = "running" /\ pc'[p] = "gone" /\ pc'[h] = "top"
        /\ \A q \in Plans : q \notin {p, h} => st'[q] = st[q] /\ pc'[q] = pc[q]
    BY <2>2, <2>3 DEF RunOK
  <2>5. \A q \in Queued' : q \in Queued /\ q # h /\ q \in Plans
    BY <2>1, <2>3 DEF Queued, RunOK
  <2>6. Single'
    BY <1>1, <2>2, <2>3, <2>4 DEF Placed, Single, Live
  <2>7. Lined'
    <3>1. \A k \in DOMAIN t : t[k] \in Plans /\ st[t[k]] = "pending" /\ pc[t[k]] = "none" /\ t[k] \notin {p, h}
      BY <1>1, <2>1 DEF RunOK, Placed, Lined
    <3>2. h \notin Queued'
      BY <2>5
    <3>3. \A k \in DOMAIN queue' : st'[queue'[k]] = "pending" /\ pc'[queue'[k]] = "none"
      <4> SUFFICES ASSUME NEW k \in DOMAIN t
                   PROVE  st'[t[k]] = "pending" /\ pc'[t[k]] = "none"
        BY <2>3
      <4>1. t[k] \in Plans /\ t[k] \notin {p, h} /\ st[t[k]] = "pending" /\ pc[t[k]] = "none"
        BY <3>1
      <4> QED
        BY <2>4, <4>1
    <3>4. \A j, k \in DOMAIN queue' : queue'[j] = queue'[k] => j = k
      BY <2>1, <2>3
    <3>5. running' \notin Queued'
      BY <2>3, <3>2
    <3> QED
      BY <3>3, <3>4, <3>5 DEF Lined
  <2>8. Open'
    <3>1. \A q \in Queued : q = h \/ q \in Queued'
      BY <2>1, <2>3 DEF Queued, h
    <3> QED
      BY <1>1, <2>2, <2>3, <2>4, <3>1 DEF Placed, Open
  <2>9. Early'
    BY <2>2, <2>4 DEF Placed, Early, Terminal
  <2>10. running' # NoPlan
    BY <2>2, <2>3, PlanIds
  <2> QED
    BY <2>2, <2>4, <2>6, <2>7, <2>8, <2>9, <2>10 DEF Placed, Live
<1>3. CASE queue = <<>>
  <2>1. /\ st' = [st EXCEPT ![p] = status] /\ pc' = [pc EXCEPT ![p] = "gone"]
        /\ running' = NoPlan /\ queue' = queue
    BY <1>1, <1>3 DEF Finish
  <2>2. /\ st'[p] = status /\ pc'[p] = "gone"
        /\ \A q \in Plans : q # p => st'[q] = st[q] /\ pc'[q] = pc[q]
    BY <2>1 DEF RunOK
  <2>3. Queued = {} /\ Queued' = {} /\ DOMAIN queue' = {}
    BY <1>3, <2>1 DEF Queued
  <2>4. Single' /\ Open' /\ Early'
    BY <1>1, <2>1, <2>2, <2>3 DEF Placed, Single, Open, Early, Live, Terminal
  <2>5. Lined'
    BY <2>3 DEF Lined
  <2> QED
    BY <1>3, <2>1, <2>2, <2>4, <2>5 DEF Placed, Live
<1> QED
  BY <1>2, <1>3

(* What the plan thread does to its place, but for the endings.            *)
Moves(p) == /\ Live(p) /\ UNCHANGED <<st, running, queue>>
            /\ \E l \in Pcs \ {"none", "gone"} : pc' = [pc EXCEPT ![p] = l]

LEMMA ThreadMoves ==
  ASSUME NEW p \in Plans, RunOK, Shapes, PlanThread(p)
  PROVE  /\ Live(p) /\ UNCHANGED <<switch, ctl, body, cancelled>>
         /\ \/ Moves(p)
            \/ FailPlan(p)
            \/ EndPlan(p) /\ Finish(p, "done")
            \/ Interrupted(p) /\ Finish(p, "cancelled")
<1> USE DEF switch
<1>1. UNCHANGED <<switch, ctl, body, cancelled>>
  BY DEF PlanThread, Top, Ask, Wake, UseApproval, Submit, FailPlan, EndPlan, Interrupted, Answer
<1>2. Live(p)
  BY DEF PlanThread, Top, Ask, Wake, UseApproval, Submit, FailPlan, EndPlan, Interrupted, Answer, Live
<1>3. ASSUME NEW l \in Pcs \ {"none", "gone"}, Goto(p, l), UNCHANGED <<st, running, queue>> PROVE Moves(p)
  BY <1>2, <1>3 DEF Moves, Goto
<1>4. {"top", "approve", "wait", "use", "exec", "answer", "fail"} \subseteq Pcs \ {"none", "gone"}
  BY DEF Pcs
<1>5. ASSUME UNCHANGED <<st, running, queue>>,
             \/ Goto(p, "top") \/ Goto(p, "approve") \/ Goto(p, "wait") \/ Goto(p, "use")
             \/ Goto(p, "exec") \/ Goto(p, "answer") \/ Goto(p, "fail")
      PROVE  Moves(p)
  <2>1. \A l \in Pcs \ {"none", "gone"} : Goto(p, l) => Moves(p)
    BY <1>3, <1>5
  <2> QED
    BY <1>4, <1>5, <2>1
<1>a. ASSUME Top(p) \/ Ask(p) PROVE Moves(p)
  BY <1>5, <1>a DEF Top, Ask, NextStep
<1>b. ASSUME Wake(p) PROVE Moves(p)
  BY <1>5, <1>b DEF Wake, NextStep
<1>c. ASSUME UseApproval(p) \/ Submit(p) PROVE Moves(p)
  BY <1>5, <1>c DEF UseApproval, Submit
<1>d. ASSUME NEW ok \in BOOLEAN, Answer(p, ok) PROVE Moves(p)
  BY <1>5, <1>d DEF Answer, NextStep
<1>e. CASE EndPlan(p) \/ Interrupted(p)
  BY <1>1, <1>2, <1>e DEF EndPlan, Interrupted
<1> QED
  BY <1>1, <1>2, <1>a, <1>b, <1>c, <1>d, <1>e DEF PlanThread

LEMMA PlacedStep == Shaped /\ Placed /\ [Next]_vars => Placed'
<1> SUFFICES ASSUME Shaped, Placed, [Next]_vars PROVE Placed'
  OBVIOUS
<1>0. RunOK /\ Shapes
  BY DEF Shaped, Typed
<1>1. ASSUME UNCHANGED <<st, pc, running, queue>> PROVE Placed'
  BY <1>1 DEF Placed, Single, Lined, Open, Early, Live, Queued
<1>a. ASSUME NEW s \in Positions, SetControl(s[1], s[2], s[3]) PROVE Placed'
  BY <1>1, <1>a DEF SetControl
<1>b. CASE CancelEverything
  <2>1. /\ st' = [p \in Plans |-> IF p \in Queued THEN "cancelled" ELSE st[p]]
        /\ pc' = [p \in Plans |-> IF p \in Queued THEN "gone" ELSE pc[p]]
        /\ queue' = <<>> /\ running' = running
    BY <1>b DEF CancelEverything, Queued
  <2>2. Queued' = {} /\ DOMAIN queue' = {}
    BY <2>1 DEF Queued
  <2>3. Single'
    <3>1. running # NoPlan => Live(running)'
      BY <1>0, <2>1 DEF Placed, Single, Lined, Live, RunOK
    <3> QED
      BY <1>0, <2>1, <3>1 DEF Placed, Single, Live
  <2>4. Lined'
    BY <2>2 DEF Lined
  <2>5. Open' /\ Early'
    BY <1>0, <2>1, <2>2 DEF Placed, Open, Early, Terminal, RunOK
  <2> QED
    BY <2>3, <2>4, <2>5 DEF Placed
<1>c. CASE AutoApprove
  BY <1>1, <1>c DEF AutoApprove
<1>d. ASSUME NEW p \in Plans, NEW b \in Bodies, NEW q \in BOOLEAN, CreatePlan(p, b, q) PROVE Placed'
  <2>1. st[p] = "none" /\ pc[p] = "none" /\ p \notin Queued /\ p # running /\ p # NoPlan
    <3>1. st[p] = "none"
      BY <1>d DEF CreatePlan
    <3>2. p \notin Queued
      BY <3>1 DEF Placed, Lined, Queued
    <3>3. p # running
      BY <1>0, <3>1, PlanIds DEF Placed, Single, RunOK
    <3> QED
      BY <3>1, <3>2, <3>3, PlanIds DEF Placed, Early
  <2>2. CASE running # NoPlan
    <3>1. /\ queue' = Append(queue, p) /\ st' = [st EXCEPT ![p] = "pending"]
          /\ running' = running /\ pc' = pc
      BY <1>d, <2>2 DEF CreatePlan
    <3>2. /\ DOMAIN queue' = 1 .. Len(queue) + 1 /\ queue'[Len(queue) + 1] = p
          /\ \A k \in DOMAIN queue : queue'[k] = queue[k] /\ queue[k] \in Plans /\ queue[k] # p
          /\ DOMAIN queue = 1 .. Len(queue) /\ Len(queue) \in Nat
      BY <1>0, <2>1, <3>1 DEF RunOK, Queued
    <3>3. Queued' = Queued \union {p}
      BY <3>2 DEF Queued
    <3>4. Single' /\ Open' /\ Early'
      BY <1>0, <2>1, <3>1, <3>3 DEF Placed, Single, Open, Early, Live, RunOK
    <3>5. Lined'
      <4>1. \A k \in DOMAIN queue' : k \in DOMAIN queue \/ k = Len(queue) + 1
        BY <3>2
      <4>2. \A k \in DOMAIN queue' : st'[queue'[k]] = "pending" /\ pc'[queue'[k]] = "none"
        BY <1>0, <2>1, <3>1, <3>2, <4>1 DEF Placed, Lined, RunOK
      <4>3. \A j, k \in DOMAIN queue' : queue'[j] = queue'[k] => j = k
        BY <3>2, <4>1 DEF Placed, Lined
      <4>4. running' \notin Queued'
        BY <2>1, <3>1, <3>3 DEF Placed, Lined
      <4> QED
        BY <4>2, <4>3, <4>4 DEF Lined
    <3> QED
      BY <3>4, <3>5 DEF Placed
  <2>3. CASE running = NoPlan
    <3>1. /\ running' = p /\ st' = [st EXCEPT ![p] = "running"]
          /\ pc' = [pc EXCEPT ![p] = "top"] /\ queue' = queue
      BY <1>d, <2>3 DEF CreatePlan
    <3>2. Queued' = Queued
      BY <3>1 DEF Queued
    <3>3. \A r \in Plans : ~Live(r)
      BY <2>3, PlanIds DEF Placed, Single
    <3>4. Single' /\ Open' /\ Early'
      BY <1>0, <2>1, <2>3, <3>1, <3>2, <3>3, PlanIds DEF Placed, Single, Open, Early, Live, RunOK
    <3>5. Lined'
      BY <1>0, <2>1, <3>1, <3>2 DEF Placed, Lined, RunOK, Queued
    <3> QED
      BY <3>4, <3>5 DEF Placed
  <2> QED
    BY <2>2, <2>3
<1>e. ASSUME NEW p \in Plans, CancelPlan(p) PROVE Placed'
  BY <1>1, <1>e DEF CancelPlan
<1>f. ASSUME NEW p \in Plans, NEW i \in Idx(p), NEW v \in {"approved", "rejected"}, Decide(p, i, v)
      PROVE  Placed'
  BY <1>1, <1>f DEF Decide
<1>g. ASSUME NEW p \in Plans, PlanThread(p) PROVE Placed'
  <2>1. /\ Live(p)
        /\ \/ Moves(p)
           \/ FailPlan(p)
           \/ EndPlan(p) /\ Finish(p, "done")
           \/ Interrupted(p) /\ Finish(p, "cancelled")
    BY <1>0, <1>g, ThreadMoves
  <2>2. CASE Moves(p)
    <3>1. /\ \A q \in Plans : q # p => pc'[q] = pc[q]
          /\ pc'[p] \notin {"none", "gone"} /\ UNCHANGED <<st, running, queue>>
      BY <1>0, <2>2 DEF Moves, RunOK
    <3>2. st[p] = "running" /\ running = p /\ Queued' = Queued
      BY <2>1, <3>1 DEF Placed, Single, Queued
    <3>3. Single' /\ Open' /\ Early'
      BY <3>1, <3>2 DEF Placed, Single, Open, Early, Live
    <3>4. Lined'
      BY <1>0, <3>1, <3>2 DEF Placed, Lined, RunOK
    <3> QED
      BY <3>3, <3>4 DEF Placed
  <2>3. CASE FailPlan(p)
    <3>1. /\ st' = [st EXCEPT ![p] = "failed"] /\ pc' = [pc EXCEPT ![p] = "gone"]
          /\ running' = (IF running = p THEN NoPlan ELSE running) /\ queue' = queue
      BY <2>3 DEF FailPlan, Goto
    <3>2. running = p /\ st[p] = "running" /\ pc[p] # "none" /\ Queued' = Queued
      BY <2>1, <3>1 DEF Placed, Single, Live, Queued
    <3>3. /\ running' = NoPlan /\ st'[p] = "failed" /\ pc'[p] = "gone"
          /\ \A q \in Plans : q # p => st'[q] = st[q] /\ pc'[q] = pc[q]
      BY <1>0, <3>1, <3>2 DEF RunOK
    <3>4. Single' /\ Open' /\ Early'
      BY <3>2, <3>3 DEF Placed, Single, Open, Early, Live, Terminal
    <3>5. NoPlan \notin Queued
      BY <1>0, PlanIds DEF RunOK, Queued
    <3>6. Lined'
      BY <1>0, <3>1, <3>2, <3>3, <3>5 DEF Placed, Lined, RunOK
    <3> QED
      BY <3>4, <3>6 DEF Placed
  <2> QED
    BY <1>0, <2>1, <2>2, <2>3, FinishPlaced DEF Terminal
<1>h. CASE UNCHANGED vars
  BY <1>1, <1>h DEF vars
<1> QED
  BY <1>a, <1>b, <1>c, <1>d, <1>e, <1>f, <1>g, <1>h DEF Next, Operator, Agent

-----------------------------------------------------------------------------
(* QueueIsServed and OffMeansOff.                                          *)

LEMMA ServedStep == Shaped /\ Placed /\ QueueIsServed /\ [Next]_vars => QueueIsServed'
<1> SUFFICES ASSUME Shaped, Placed, QueueIsServed, [Next]_vars PROVE QueueIsServed'
  OBVIOUS
<1>0. RunOK /\ Shapes
  BY DEF Shaped, Typed
<1>1. ASSUME UNCHANGED <<st, running, queue>> PROVE QueueIsServed'
  BY <1>1 DEF QueueIsServed
<1>a. ASSUME NEW s \in Positions, SetControl(s[1], s[2], s[3]) PROVE QueueIsServed'
  BY <1>1, <1>a DEF SetControl
<1>b. CASE CancelEverything
  BY <1>b DEF CancelEverything, QueueIsServed
<1>c. CASE AutoApprove
  BY <1>1, <1>c DEF AutoApprove
<1>d. ASSUME NEW p \in Plans, NEW b \in Bodies, NEW q \in BOOLEAN, CreatePlan(p, b, q)
      PROVE  QueueIsServed'
  <2>1. running' # NoPlan
    BY <1>d, PlanIds DEF CreatePlan
  <2> QED
    BY <2>1 DEF QueueIsServed
<1>e. ASSUME NEW p \in Plans, CancelPlan(p) PROVE QueueIsServed'
  BY <1>1, <1>e DEF CancelPlan
<1>f. ASSUME NEW p \in Plans, NEW i \in Idx(p), NEW v \in {"approved", "rejected"}, Decide(p, i, v)
      PROVE  QueueIsServed'
  BY <1>1, <1>f DEF Decide
<1>g. ASSUME NEW p \in Plans, PlanThread(p) PROVE QueueIsServed'
  <2>1. /\ Live(p)
        /\ \/ Moves(p)
           \/ FailPlan(p)
           \/ EndPlan(p) /\ Finish(p, "done")
           \/ Interrupted(p) /\ Finish(p, "cancelled")
    BY <1>0, <1>g, ThreadMoves
  <2>2. CASE Moves(p)
    BY <1>1, <2>2 DEF Moves
  <2>3. CASE FailPlan(p)
    BY <1>0, <2>3 DEF FailPlan, QueueIsServed, RunOK
  <2>4. ASSUME NEW x \in Terminal, Finish(p, x) PROVE QueueIsServed'
    BY <1>0, <2>1, <2>4, FinishPlaced DEF QueueIsServed
  <2> QED
    BY <2>1, <2>2, <2>3, <2>4 DEF Terminal
<1>h. CASE UNCHANGED vars
  BY <1>1, <1>h DEF vars
<1> QED
  BY <1>a, <1>b, <1>c, <1>d, <1>e, <1>f, <1>g, <1>h DEF Next, Operator, Agent

LEMMA OffStep == Shaped /\ Placed /\ OffMeansOff /\ [Next]_vars => OffMeansOff'
<1> SUFFICES ASSUME Shaped, Placed, OffMeansOff, [Next]_vars PROVE OffMeansOff'
  OBVIOUS
<1> USE DEF switch
<1>0. RunOK /\ Shapes /\ AskedOK /\ cancelled \in [Plans -> BOOLEAN]
  BY DEF Shaped, Typed
<1>1. ASSUME UNCHANGED <<mode, ctl, running, queue, pc>>, approvals' \subseteq approvals,
             \A p \in Plans : cancelled[p] => cancelled'[p]
      PROVE  OffMeansOff'
  BY <1>1 DEF OffMeansOff, Live
<1>a. ASSUME NEW s \in Positions, SetControl(s[1], s[2], s[3]) PROVE OffMeansOff'
  BY <1>a DEF SetControl, OffMeansOff
<1>b. CASE CancelEverything
  <2>1. /\ cancelled' = [p \in Plans |-> cancelled[p] \/ p \in Queued \union ({running} \ {NoPlan})]
        /\ pc' = [p \in Plans |-> IF p \in Queued THEN "gone" ELSE pc[p]]
        /\ queue' = <<>> /\ approvals' = {}
    BY <1>b DEF CancelEverything, Queued
  <2>2. ASSUME NEW p \in Plans, Live(p)' PROVE cancelled'[p]
    <3>1. Live(p)
      BY <2>1, <2>2 DEF Live
    <3>2. p \in {running} \ {NoPlan}
      BY <3>1, PlanIds DEF Placed, Single
    <3> QED
      BY <2>1, <3>2
  <2> QED
    BY <2>1, <2>2 DEF OffMeansOff
<1>c. CASE AutoApprove
  <2>1. approvals' \subseteq approvals /\ (mode' = "off" => mode = "off")
        /\ ("cancel" \notin ctl' => "cancel" \notin ctl) /\ UNCHANGED <<running, queue, pc, cancelled>>
    BY <1>c DEF AutoApprove
  <2> QED
    BY <2>1 DEF OffMeansOff, Live
<1>d. ASSUME NEW p \in Plans, NEW b \in Bodies, NEW q \in BOOLEAN, CreatePlan(p, b, q)
      PROVE  OffMeansOff'
  BY <1>d DEF CreatePlan, OffMeansOff
<1>e. ASSUME NEW p \in Plans, CancelPlan(p) PROVE OffMeansOff'
  BY <1>0, <1>1, <1>e DEF CancelPlan
<1>f. ASSUME NEW p \in Plans, NEW i \in Idx(p), NEW v \in {"approved", "rejected"}, Decide(p, i, v)
      PROVE  OffMeansOff'
  BY <1>1, <1>f DEF Decide
<1>g. ASSUME NEW p \in Plans, PlanThread(p) PROVE OffMeansOff'
  <2>1. /\ Live(p) /\ UNCHANGED <<mode, ctl, cancelled>>
        /\ \/ Moves(p)
           \/ FailPlan(p)
           \/ EndPlan(p) /\ Finish(p, "done")
           \/ Interrupted(p) /\ Finish(p, "cancelled")
    BY <1>0, <1>g, ThreadMoves
  <2>2. approvals' \subseteq approvals
    BY <1>g
       DEF PlanThread, Top, Ask, Wake, UseApproval, Submit, FailPlan, EndPlan, Interrupted, Answer
  <2>3. queue = <<>> => queue' = <<>> /\ \A q \in Plans : Live(q)' => Live(q)
    <3>1. CASE Moves(p)
      BY <1>0, <2>1, <3>1 DEF Moves, Live, RunOK
    <3>2. CASE FailPlan(p)
      BY <1>0, <3>2 DEF FailPlan, Goto, Live, RunOK
    <3>3. ASSUME NEW x \in Terminal, Finish(p, x), queue = <<>>
          PROVE  queue' = <<>> /\ \A q \in Plans : Live(q)' => Live(q)
      BY <1>0, <3>3 DEF Finish, Live, RunOK
    <3> QED
      BY <2>1, <3>1, <3>2, <3>3 DEF Terminal
  <2> QED
    BY <2>1, <2>2, <2>3 DEF OffMeansOff
<1>h. CASE UNCHANGED vars
  BY <1>1, <1>h DEF vars
<1> QED
  BY <1>a, <1>b, <1>c, <1>d, <1>e, <1>f, <1>g, <1>h DEF Next, Operator, Agent

-----------------------------------------------------------------------------
(* The approvals.  An undecided item is in the operator's queue, or its    *)
(* plan has been told to stop, or has ended; so a step in its thread was   *)
(* decided when it was sent, unless its plan had been told to stop.        *)

Asked == \A p \in Plans : \A i \in Idx(p) :
           item[p][i] = "pending" => <<p, i>> \in approvals \/ cancelled[p] \/ st[p] \in Terminal
Decided == \A p \in Plans :
             pc[p] \in {"exec", "answer"} /\ item[p][at[p]] = "pending" => cancelled[p]
Approved == Asked /\ Decided /\ AskedBeforeSent

LEMMA ApprovedStep == Shaped /\ Placed /\ Approved /\ [Next]_vars => Approved'
<1> SUFFICES ASSUME Shaped, Placed, Approved, [Next]_vars PROVE Approved'
  OBVIOUS
<1> USE DEF switch
<1>0. /\ RunOK /\ Shapes /\ AskedOK /\ ItemsOK /\ SentOK /\ BodyOK /\ AtOK /\ InHand
      /\ cancelled \in [Plans -> BOOLEAN]
  BY DEF Shaped, Typed
<1>1. ASSUME UNCHANGED <<body, item, approvals, cancelled, st, pc, at, sent>> PROVE Approved'
  BY <1>1 DEF Approved, Asked, Decided, AskedBeforeSent, Idx
(* The endings of a plan: nothing that was undecided is held against it.   *)
<1>2. ASSUME UNCHANGED <<body, item, approvals, cancelled, at, sent>>,
             \A p \in Plans : st[p] \in Terminal => st'[p] \in Terminal,
             \A p \in Plans : pc'[p] \in {"exec", "answer"} => pc'[p] = pc[p]
      PROVE  Approved'
  BY <1>2 DEF Approved, Asked, Decided, AskedBeforeSent, Idx
<1>a. ASSUME NEW s \in Positions, SetControl(s[1], s[2], s[3]) PROVE Approved'
  BY <1>1, <1>a DEF SetControl
<1>b. CASE CancelEverything
  <2>1. /\ cancelled' = [p \in Plans |-> cancelled[p] \/ p \in Queued \union ({running} \ {NoPlan})]
        /\ pc' = [p \in Plans |-> IF p \in Queued THEN "gone" ELSE pc[p]]
        /\ st' = [p \in Plans |-> IF p \in Queued THEN "cancelled" ELSE st[p]]
        /\ UNCHANGED <<body, item, at, sent>>
    BY <1>b DEF CancelEverything, Queued
  <2>2. ASSUME NEW p \in Plans PROVE cancelled'[p] \/ st'[p] \in Terminal \/ st'[p] = "none"
    BY <2>1, PlanIds DEF Placed, Open, Terminal
  <2>3. \A p \in Plans : st'[p] = "none" => Idx(p)' = {}
    BY <2>1 DEF Shaped, Unborn, Idx, Terminal
  <2>4. Asked'
    BY <2>2, <2>3 DEF Asked
  <2>5. Decided' /\ AskedBeforeSent'
    BY <1>0, <2>1 DEF Approved, Decided, AskedBeforeSent
  <2> QED
    BY <2>4, <2>5 DEF Approved
<1>c. CASE AutoApprove
  <2>1. PICK rel : /\ item' = [p \in Plans |-> [i \in Idx(p) |->
                                  IF <<p, i>> \in rel THEN "approved" ELSE item[p][i]]]
                   /\ approvals' = approvals \ rel
    BY <1>c DEF AutoApprove
  <2>2. UNCHANGED <<body, cancelled, st, pc, at, sent>>
    BY <1>c DEF AutoApprove
  <2>3. \A p \in Plans : \A i \in Idx(p) :
          item'[p][i] = "pending" => item[p][i] = "pending" /\ <<p, i>> \notin rel
    BY <2>1
  <2>4. \A p \in Plans : Idx(p)' = Idx(p)
    BY <2>2 DEF Idx
  <2>5. Asked'
    BY <2>1, <2>2, <2>3, <2>4 DEF Approved, Asked
  <2>6. Decided' /\ AskedBeforeSent'
    BY <1>0, <2>2, <2>3 DEF Approved, Decided, AskedBeforeSent, InHand, Busy, SentOK
  <2> QED
    BY <2>5, <2>6 DEF Approved
<1>d. ASSUME NEW p \in Plans, NEW b \in Bodies, NEW q \in BOOLEAN, CreatePlan(p, b, q) PROVE Approved'
  <2>1. /\ body' = [body EXCEPT ![p] = b]
        /\ item' = [item EXCEPT ![p] = [i \in DOMAIN b |-> IF NeedsApproval(b[i]) THEN "pending" ELSE "none"]]
        /\ approvals' = approvals \union {<<p, i>> : i \in {j \in DOMAIN b : NeedsApproval(b[j])}}
        /\ UNCHANGED <<cancelled, at, sent>> /\ st[p] = "none"
    BY <1>d DEF CreatePlan
  <2>2. /\ \A r \in Plans : r # p => st'[r] = st[r] /\ pc'[r] = pc[r]
        /\ pc'[p] \in {pc[p], "top"}
    BY <1>0, <1>d DEF CreatePlan, RunOK
  <2>3. sent[p] = {} /\ pc[p] = "none"
    BY <1>0, <2>1 DEF Shaped, Unborn, SentOK, Idx, Placed, Early
  <2>4. \A r \in Plans : r # p => Idx(r)' = Idx(r) /\ item'[r] = item[r]
    BY <1>0, <2>1 DEF Idx, BodyOK, Shapes
  <2>5. Idx(p)' = DOMAIN b /\ \A i \in DOMAIN b : item'[p][i] = "pending" => <<p, i>> \in approvals'
    BY <1>0, <2>1 DEF Idx, BodyOK, Shapes
  <2>6. Asked'
    BY <2>1, <2>2, <2>4, <2>5 DEF Approved, Asked
  <2>7. Decided' /\ AskedBeforeSent'
    BY <2>1, <2>2, <2>3, <2>4 DEF Approved, Decided, AskedBeforeSent
  <2> QED
    BY <2>6, <2>7 DEF Approved
<1>e. ASSUME NEW p \in Plans, CancelPlan(p) PROVE Approved'
  <2>1. /\ cancelled' = [cancelled EXCEPT ![p] = TRUE] /\ approvals' = {a \in approvals : a[1] # p}
        /\ UNCHANGED <<body, item, st, pc, at, sent>>
    BY <1>e DEF CancelPlan
  <2>2. cancelled'[p] /\ \A r \in Plans : r # p => cancelled'[r] = cancelled[r]
    BY <1>0, <2>1
  <2>3. \A r \in Plans : r # p => \A i : <<r, i>> \in approvals => <<r, i>> \in approvals'
    BY <2>1
  <2>4. Asked'
    BY <2>1, <2>2, <2>3 DEF Approved, Asked, Idx
  <2>5. Decided' /\ AskedBeforeSent'
    BY <2>1, <2>2 DEF Approved, Decided, AskedBeforeSent
  <2> QED
    BY <2>4, <2>5 DEF Approved
<1>f. ASSUME NEW p \in Plans, NEW i \in Idx(p), NEW v \in {"approved", "rejected"}, Decide(p, i, v)
      PROVE  Approved'
  <2>1. item' = [item EXCEPT ![p][i] = v] /\ UNCHANGED <<body, approvals, cancelled, st, pc, at, sent>>
    BY <1>f DEF Decide
  <2>2. \A r \in Plans : \A j \in Idx(r) : item'[r][j] = "pending" => item[r][j] = "pending"
    BY <1>0, <2>1 DEF ItemsOK, Shapes
  <2>3. \A r \in Plans : Idx(r)' = Idx(r)
    BY <2>1 DEF Idx
  <2> QED
    BY <1>0, <2>1, <2>2, <2>3 DEF Approved, Asked, Decided, AskedBeforeSent, InHand, Busy, SentOK
<1>g. ASSUME NEW p \in Plans, PlanThread(p) PROVE Approved'
  <2>1. UNCHANGED <<body, cancelled>> /\ Live(p)
    BY <1>0, <1>g, ThreadMoves
  <2>2. \A r \in Plans : Idx(r)' = Idx(r)
    BY <2>1 DEF Idx
  <2>3. st[p] = "running"
    BY <2>1 DEF Placed, Single
  <2>4. ASSUME NEW l \in Pcs \ {"exec", "answer"}, Goto(p, l), UNCHANGED <<item, approvals, st, sent>>,
               \A r \in Plans : r # p => at'[r] = at[r]
        PROVE  Approved'
    <3>1. \A r \in Plans : pc'[r] \in {"exec", "answer"} => r # p /\ pc[r] = pc'[r]
      BY <1>0, <2>4 DEF Goto, RunOK
    <3> QED
      BY <2>1, <2>2, <2>4, <3>1 DEF Approved, Asked, Decided, AskedBeforeSent
  <2>5. {"top", "approve", "wait", "use", "fail", "gone"} \subseteq Pcs \ {"exec", "answer"}
    BY DEF Pcs
  <2>6. ASSUME UNCHANGED <<item, approvals, st, sent>>, \A r \in Plans : r # p => at'[r] = at[r],
               \/ Goto(p, "top") \/ Goto(p, "approve") \/ Goto(p, "wait") \/ Goto(p, "use")
               \/ Goto(p, "fail")
        PROVE  Approved'
    <3>1. \A l \in Pcs \ {"exec", "answer"} : Goto(p, l) => Approved'
      BY <2>4, <2>6
    <3> QED
      BY <2>5, <2>6, <3>1
  <2>a. CASE Top(p) \/ Ask(p) \/ Wake(p)
    <3>1. \A r \in Plans : r # p => at'[r] = at[r]
      BY <1>0, <2>a DEF Top, Ask, Wake, NextStep, Shapes
    <3> QED
      BY <2>6, <2>a, <3>1 DEF Top, Ask, Wake, NextStep
  <2>b. ASSUME NEW ok \in BOOLEAN, Answer(p, ok) PROVE Approved'
    <3>1. \A r \in Plans : r # p => at'[r] = at[r]
      BY <1>0, <2>b DEF Answer, NextStep, Shapes
    <3> QED
      BY <2>6, <2>b, <3>1 DEF Answer, NextStep
  <2>c. CASE UseApproval(p)
    <3>1. /\ item' = IF <<p, at[p]>> \in approvals /\ item[p][at[p]] = "pending"
                     THEN [item EXCEPT ![p][at[p]] = "approved"] ELSE item
          /\ approvals' = approvals \ {<<p, at[p]>>} /\ pc' = [pc EXCEPT ![p] = "exec"]
          /\ UNCHANGED <<st, at, sent>>
      BY <2>c DEF UseApproval, Goto
    <3>2. at[p] \in Idx(p)
      BY <1>0, <2>c DEF UseApproval, InHand, Busy
    <3>3. item'[p][at[p]] = "pending" => cancelled[p]
      BY <1>0, <2>3, <3>1, <3>2 DEF Approved, Asked, Terminal, ItemsOK, Shapes
    <3>4. \A r \in Plans : \A j \in Idx(r) : item'[r][j] = "pending" => item[r][j] = "pending"
      BY <1>0, <3>1, <3>2 DEF ItemsOK, Shapes
    <3>5. Asked'
      BY <2>1, <2>2, <3>1, <3>3, <3>4 DEF Approved, Asked
    <3>6. Decided'
      BY <1>0, <2>1, <3>1, <3>3, <3>4 DEF Approved, Decided, RunOK, InHand, Busy
    <3>7. AskedBeforeSent'
      BY <1>0, <2>1, <3>1, <3>4 DEF Approved, AskedBeforeSent, SentOK
    <3> QED
      BY <3>5, <3>6, <3>7 DEF Approved
  <2>d. CASE Submit(p)
    <3>1. /\ sent' = [sent EXCEPT ![p] = sent[p] \union {at[p]}] /\ pc' = [pc EXCEPT ![p] = "answer"]
          /\ pc[p] = "exec" /\ UNCHANGED <<item, approvals, st, at>>
      BY <2>d DEF Submit, Goto
    <3>2. Asked' /\ Decided'
      BY <1>0, <2>1, <2>2, <3>1 DEF Approved, Asked, Decided, RunOK
    <3>3. AskedBeforeSent'
      BY <1>0, <2>1, <3>1 DEF Approved, Decided, AskedBeforeSent, Shapes
    <3> QED
      BY <3>2, <3>3 DEF Approved
  <2>e. CASE FailPlan(p)
    <3>1. /\ item' = [item EXCEPT ![p] = [i \in Idx(p) |->
                         IF <<p, i>> \in approvals /\ item[p][i] = "pending" THEN "rejected" ELSE item[p][i]]]
          /\ st' = [st EXCEPT ![p] = "failed"] /\ pc' = [pc EXCEPT ![p] = "gone"]
          /\ approvals' = {a \in approvals : a[1] # p} /\ UNCHANGED <<at, sent>>
      BY <2>e DEF FailPlan, Goto
    <3>2. \A r \in Plans : r # p => item'[r] = item[r] /\ st'[r] = st[r] /\ pc'[r] = pc[r]
      BY <1>0, <3>1 DEF Shapes, RunOK
    <3>3. st'[p] \in Terminal /\ pc'[p] = "gone"
      BY <1>0, <3>1 DEF RunOK, Terminal
    <3>4. \A j \in Idx(p) : item'[p][j] = "pending" => item[p][j] = "pending"
      BY <1>0, <3>1 DEF Shapes
    <3>5. Asked'
      BY <2>1, <2>2, <3>1, <3>2, <3>3 DEF Approved, Asked
    <3>6. Decided' /\ AskedBeforeSent'
      BY <1>0, <2>1, <3>1, <3>2, <3>3, <3>4 DEF Approved, Decided, AskedBeforeSent, SentOK
    <3> QED
      BY <3>5, <3>6 DEF Approved
  <2>f. ASSUME NEW x \in Terminal, Finish(p, x), UNCHANGED <<item, approvals, at, sent>> PROVE Approved'
    <3>1. /\ st'[p] = x /\ ~Live(p)'
          /\ \A q \in Plans : q # p => st'[q] \in {st[q], "running"} /\ (st[q] # "pending" => st'[q] = st[q])
          /\ \A q \in Plans : q # p => pc'[q] \in {pc[q], "top"}
      BY <1>0, <2>1, <2>f, FinishPlaced
    <3>2. \A q \in Plans : st[q] \in Terminal => st'[q] \in Terminal
      BY <2>f, <3>1 DEF Terminal
    <3>3. \A q \in Plans : pc'[q] \in {"exec", "answer"} => pc'[q] = pc[q]
      BY <3>1 DEF Live
    <3> QED
      BY <1>2, <2>1, <2>f, <3>2, <3>3
  <2>g. CASE EndPlan(p) \/ Interrupted(p)
    BY <2>f, <2>g DEF EndPlan, Interrupted, Terminal
  <2> QED
    BY <1>g, <2>a, <2>b, <2>c, <2>d, <2>e, <2>g DEF PlanThread
<1>h. CASE UNCHANGED vars
  BY <1>1, <1>h DEF vars
<1> QED
  BY <1>a, <1>b, <1>c, <1>d, <1>e, <1>f, <1>g, <1>h DEF Next, Operator, Agent

-----------------------------------------------------------------------------
(* The steps of a plan nobody cancelled: those behind the thread ran,      *)
(* those ahead of it are pending, and the one in hand was sent when its    *)
(* answer is waited for.                                                   *)

Ran(p, i) == \/ ss[p][i] = "done" /\ i \in sent[p]
             \/ ss[p][i] \in {"failed", "skipped"} /\ body[p][i].cont
Behind(p) == \A i \in Idx(p) : i < at[p] => Ran(p, i)
Ahead(p) == pc[p] # "gone" =>
              \A i \in Idx(p) : at[p] < i \/ (i = at[p] /\ pc[p] \in {"none", "top"})
                                  => ss[p][i] = "pending"
Sent(p) == pc[p] = "answer" => at[p] \in sent[p]
Ended(p) == st[p] = "done" => at[p] \notin Idx(p)
Orderly(p) == ~cancelled[p] => Behind(p) /\ Ahead(p) /\ Sent(p) /\ Ended(p)
Steady == \A p \in Plans : Orderly(p)

(* What the steps of other plans do to a plan.                             *)
LEMMA OrderlyKept ==
  ASSUME NEW p \in Plans, Orderly(p),
         body'[p] = body[p], ss'[p] = ss[p], at'[p] = at[p], sent'[p] = sent[p],
         cancelled[p] => cancelled'[p],
         pc'[p] \in {pc[p], "gone"} \/ (pc[p] = "none" /\ pc'[p] = "top"),
         st'[p] = st[p] \/ st'[p] # "done"
  PROVE  Orderly(p)'
<1>1. Idx(p)' = Idx(p)
  BY DEF Idx
<1>2. Behind(p) => Behind(p)'
  BY <1>1 DEF Behind, Ran
<1>3. Ahead(p) => Ahead(p)'
  BY <1>1 DEF Ahead
<1>4. Sent(p) => Sent(p)'
  BY DEF Sent
<1>5. Ended(p) => Ended(p)'
  BY <1>1 DEF Ended
<1> QED
  BY <1>2, <1>3, <1>4, <1>5 DEF Orderly

(* What a step of its own thread does to it: the statuses of the steps     *)
(* behind stand, and those ahead stay pending.                             *)
LEMMA OrderlyMoved ==
  ASSUME Shaped, NEW p \in Plans, Orderly(p), at[p] \in Idx(p),
         body' = body, cancelled' = cancelled, st' = st,
         \A i \in Idx(p) : i # at[p] => ss'[p][i] = ss[p][i],
         sent[p] \subseteq sent'[p],
         NEW n, n = at[p],
         \/ at'[p] = at[p] + 1 /\ pc'[p] = "top" /\ (~cancelled[p] => Ran(p, n)')
         \/ at'[p] = at[p] /\ pc'[p] \notin {"none", "top", "gone", "answer"}
         \/ at'[p] = at[p] /\ pc'[p] = "answer" /\ at[p] \in sent'[p],
         pc[p] # "gone", st[p] = "running"
  PROVE  Orderly(p)'
<1>1. Idx(p)' = Idx(p) /\ Idx(p) \subseteq Nat /\ at[p] \in Nat
  <2>1. Idx(p) = 1 .. Len(body[p]) /\ Len(body[p]) \in Nat
    BY Bodied DEF Shaped, Typed, BodyOK, Idx
  <2> QED
    BY <2>1 DEF Idx
<1> SUFFICES ASSUME ~cancelled[p] PROVE Behind(p)' /\ Ahead(p)' /\ Sent(p)' /\ Ended(p)'
  BY DEF Orderly
<1>2. Behind(p) /\ Ahead(p)
  BY DEF Orderly
<1>3. \A i \in Idx(p) : i < at[p] => Ran(p, i)'
  BY <1>1, <1>2 DEF Behind, Ran
<1>4. Behind(p)'
  BY <1>1, <1>3 DEF Behind
<1>5. Ahead(p)'
  BY <1>1, <1>2 DEF Ahead
<1>6. Sent(p)' /\ Ended(p)'
  BY DEF Sent, Ended
<1> QED
  BY <1>4, <1>5, <1>6

LEMMA SteadyStep == Shaped /\ Placed /\ Steady /\ [Next]_vars => Steady'
<1> SUFFICES ASSUME Shaped, Placed, Steady, [Next]_vars PROVE Steady'
  OBVIOUS
<1> USE DEF switch
<1>0. /\ RunOK /\ Shapes /\ StepsOK /\ SentOK /\ BodyOK /\ AtOK /\ InHand
      /\ cancelled \in [Plans -> BOOLEAN] /\ Typed
  BY DEF Shaped, Typed
<1>1. ASSUME UNCHANGED <<body, ss, at, sent, cancelled, pc, st>> PROVE Steady'
  BY <1>1, OrderlyKept DEF Steady
<1>2. ASSUME NEW p \in Plans, cancelled'[p] PROVE Orderly(p)'
  BY <1>2 DEF Orderly
<1>a. ASSUME NEW s \in Positions, SetControl(s[1], s[2], s[3]) PROVE Steady'
  BY <1>1, <1>a DEF SetControl
<1>b. CASE CancelEverything
  <2>1. PICK hit :
          /\ cancelled' = [p \in Plans |-> cancelled[p] \/ p \in hit]
          /\ ss' = [p \in Plans |-> IF p \in hit THEN CancelSteps(ss[p]) ELSE ss[p]]
    BY <1>b DEF CancelEverything
  <2>2. /\ st' = [p \in Plans |-> IF p \in Queued THEN "cancelled" ELSE st[p]]
        /\ pc' = [p \in Plans |-> IF p \in Queued THEN "gone" ELSE pc[p]]
        /\ UNCHANGED <<body, at, sent>>
    BY <1>b DEF CancelEverything, Queued
  <2>3. ASSUME NEW p \in Plans, p \notin hit PROVE Orderly(p)'
    <3>1. ss'[p] = ss[p] /\ (cancelled[p] => cancelled'[p])
      BY <2>1, <2>3
    <3>2. pc'[p] \in {pc[p], "gone"} /\ (st'[p] = st[p] \/ st'[p] # "done")
      BY <2>2
    <3> QED
      BY <2>2, <3>1, <3>2, OrderlyKept DEF Steady
  <2>4. \A p \in hit : p \in Plans => cancelled'[p]
    BY <2>1
  <2> QED
    BY <1>2, <2>3, <2>4 DEF Steady
<1>c. CASE AutoApprove
  BY <1>1, <1>c DEF AutoApprove
<1>d. ASSUME NEW p \in Plans, NEW b \in Bodies, NEW q \in BOOLEAN, CreatePlan(p, b, q) PROVE Steady'
  <2>1. /\ body' = [body EXCEPT ![p] = b] /\ ss' = [ss EXCEPT ![p] = [i \in DOMAIN b |-> "pending"]]
        /\ UNCHANGED <<cancelled, at, sent>> /\ st[p] = "none"
    BY <1>d DEF CreatePlan
  <2>2. /\ \A r \in Plans : r # p => st'[r] = st[r] /\ pc'[r] = pc[r]
        /\ pc'[p] \in {pc[p], "top"} /\ st'[p] # "done"
    BY <1>0, <1>d DEF CreatePlan, RunOK
  <2>3. pc[p] = "none" /\ body[p] = <<>>
    BY <2>1 DEF Shaped, Unborn, Placed, Early
  <2>4. at[p] = 1
    <3>1. Len(body[p]) = 0
      BY <2>3
    <3> QED
      BY <1>0, <3>1 DEF AtOK
  <2>5. Idx(p)' = DOMAIN b /\ \A i \in DOMAIN b : ss'[p][i] = "pending"
    BY <1>0, <2>1 DEF Idx, BodyOK, Shapes
  <2>6. DOMAIN b \subseteq Nat \ {0}
    BY Bodied
  <2>7. Behind(p)' /\ Ahead(p)' /\ Sent(p)' /\ Ended(p)'
    BY <2>1, <2>2, <2>3, <2>4, <2>5, <2>6 DEF Behind, Ahead, Sent, Ended
  <2>8. ASSUME NEW r \in Plans, r # p PROVE Orderly(r)'
    <3>1. body'[r] = body[r] /\ ss'[r] = ss[r]
      BY <1>0, <2>1, <2>8 DEF BodyOK, Shapes
    <3> QED
      BY <2>1, <2>2, <2>8, <3>1, OrderlyKept DEF Steady
  <2> QED
    BY <2>7, <2>8 DEF Steady, Orderly
<1>e. ASSUME NEW p \in Plans, CancelPlan(p) PROVE Steady'
  <2>1. /\ cancelled' = [cancelled EXCEPT ![p] = TRUE] /\ ss' = [ss EXCEPT ![p] = CancelSteps(ss[p])]
        /\ UNCHANGED <<body, st, pc, at, sent>>
    BY <1>e DEF CancelPlan
  <2>2. cancelled'[p] /\ \A r \in Plans : r # p => cancelled'[r] = cancelled[r] /\ ss'[r] = ss[r]
    BY <1>0, <2>1 DEF Shapes
  <2>3. ASSUME NEW r \in Plans, r # p PROVE Orderly(r)'
    BY <2>1, <2>2, <2>3, OrderlyKept DEF Steady
  <2> QED
    BY <1>2, <2>2, <2>3 DEF Steady
<1>f. ASSUME NEW p \in Plans, NEW i \in Idx(p), NEW v \in {"approved", "rejected"}, Decide(p, i, v)
      PROVE  Steady'
  BY <1>1, <1>f DEF Decide
<1>g. ASSUME NEW p \in Plans, PlanThread(p) PROVE Steady'
  <2>1. UNCHANGED <<body, cancelled>> /\ Live(p)
    BY <1>0, <1>g, ThreadMoves
  <2>2. st[p] = "running" /\ pc[p] # "gone" /\ Orderly(p)
    BY <2>1 DEF Placed, Single, Live, Steady
  (* The other plans, when the thread only moves.                          *)
  <2>3. ASSUME NEW l \in Pcs, Goto(p, l), UNCHANGED st,
               \A r \in Plans : r # p => ss'[r] = ss[r] /\ at'[r] = at[r] /\ sent'[r] = sent[r],
               Orderly(p)'
        PROVE  Steady'
    <3>1. ASSUME NEW r \in Plans, r # p PROVE Orderly(r)'
      <4>1. pc'[r] = pc[r] /\ body'[r] = body[r] /\ cancelled'[r] = cancelled[r] /\ st'[r] = st[r]
        BY <1>0, <2>1, <2>3, <3>1 DEF Goto, RunOK
      <4> QED
        BY <2>3, <3>1, <4>1, OrderlyKept DEF Steady
    <3> QED
      BY <2>3, <3>1 DEF Steady
  <2>4. Pcs = {"none", "top", "approve", "wait", "use", "exec", "answer", "fail", "gone"}
    BY DEF Pcs
  (* A status for the step in hand, and a place in the same step.          *)
  <2>5. ASSUME at[p] \in Idx(p), NEW l \in Pcs \ {"none", "top", "gone", "answer"}, Goto(p, l),
               NEW x \in StepStatuses, ss' = ss \/ ss' = [ss EXCEPT ![p][at[p]] = x],
               UNCHANGED <<st, at, sent>>
        PROVE  Steady'
    <3>1. /\ \A r \in Plans : r # p => ss'[r] = ss[r]
          /\ \A i \in Idx(p) : i # at[p] => ss'[p][i] = ss[p][i]
      BY <1>0, <2>1, <2>5, StepSet
    <3>2. pc'[p] = l
      BY <1>0, <2>5 DEF Goto, RunOK
    <3>3. Orderly(p)'
      BY <2>1, <2>2, <2>5, <3>1, <3>2, OrderlyMoved
    <3> QED
      BY <2>3, <2>5, <3>1, <3>3
  (* The end of a step.                                                    *)
  <2>6. ASSUME at[p] \in Idx(p), NEW x \in StepStatuses, NextStep(p, x), UNCHANGED <<st, sent>>,
               ~cancelled[p] => \/ x = "done" /\ at[p] \in sent[p]
                                \/ x \in {"failed", "skipped"} /\ body[p][at[p]].cont
        PROVE  Steady'
    <3>1. /\ ss' = [ss EXCEPT ![p][at[p]] = x] /\ at' = [at EXCEPT ![p] = at[p] + 1]
          /\ Goto(p, "top")
      BY <2>6 DEF NextStep
    <3>2. /\ \A r \in Plans : r # p => ss'[r] = ss[r]
          /\ ss'[p][at[p]] = x /\ \A i \in Idx(p) : i # at[p] => ss'[p][i] = ss[p][i]
      BY <1>0, <2>1, <2>6, <3>1, StepSet
    <3>3. /\ at'[p] = at[p] + 1 /\ \A r \in Plans : r # p => at'[r] = at[r]
          /\ pc'[p] = "top"
      BY <1>0, <3>1 DEF Goto, RunOK, Shapes
    <3>4. PICK n : n = at[p]
      OBVIOUS
    <3>5. ~cancelled[p] => Ran(p, n)'
      BY <2>1, <2>6, <3>2, <3>4 DEF Ran
    <3>6. Orderly(p)'
      BY <2>1, <2>2, <2>6, <3>2, <3>3, <3>4, <3>5, OrderlyMoved
    <3> QED
      BY <2>3, <2>4, <2>6, <3>1, <3>2, <3>3, <3>6
  (* How a plan ends.                                                      *)
  <2>7. ASSUME NEW x \in Terminal, Finish(p, x), UNCHANGED <<at, sent>>, Orderly(p)',
               \A r \in Plans : r # p => ss'[r] = ss[r]
        PROVE  Steady'
    <3>1. /\ \A q \in Plans : q # p => st'[q] = st[q] \/ st'[q] # "done"
          /\ \A q \in Plans : q # p => pc'[q] = pc[q] \/ (pc[q] = "none" /\ pc'[q] = "top")
      <4>1. /\ \A q \in Plans : q # p => st'[q] \in {st[q], "running"}
            /\ \A q \in Plans : q # p => pc'[q] = pc[q] \/ (pc[q] = "none" /\ pc'[q] = "top")
        BY <1>0, <2>1, <2>7, FinishPlaced
      <4> QED
        BY <4>1
    <3>2. ASSUME NEW r \in Plans, r # p PROVE Orderly(r)'
      BY <2>1, <2>7, <3>1, <3>2, OrderlyKept DEF Steady
    <3> QED
      BY <2>7, <3>2 DEF Steady
  <2>8. "cancelled" \in StepStatuses /\ "done" \in StepStatuses /\ "failed" \in StepStatuses
        /\ "skipped" \in StepStatuses /\ "running" \in StepStatuses /\ "awaiting_approval" \in StepStatuses
    BY DEF StepStatuses, OpenStep, Terminal
  <2>9. pc[p] \in Busy => at[p] \in Idx(p)
    BY <1>0 DEF InHand
  <2>a. CASE Top(p)
    <3>1. at[p] \in Idx(p) /\ pc[p] = "top" /\ UNCHANGED <<st, sent>>
      BY <2>a DEF Top
    <3>2. CASE cancelled[p]
      <4>1. PICK x \in {ss[p][at[p]], "cancelled"} : NextStep(p, x)
        BY <2>a, <3>2 DEF Top
      <4>2. x \in StepStatuses
        BY <1>0, <2>8, <3>1, <4>1 DEF StepsOK
      <4> QED
        BY <2>6, <3>1, <3>2, <4>1, <4>2
    <3>3. CASE ~cancelled[p]
      <4>1. ss[p][at[p]] = "pending"
        BY <2>2, <3>1, <3>3 DEF Orderly, Ahead
      <4>2. /\ ss' = [ss EXCEPT ![p][at[p]] = "running"] /\ UNCHANGED at
            /\ Goto(p, "use") \/ Goto(p, "approve")
        BY <2>a, <3>3, <4>1 DEF Top
      <4> QED
        BY <2>4, <2>5, <2>8, <3>1, <4>2
    <3> QED
      BY <3>2, <3>3
  <2>b. CASE Ask(p)
    <3>1. /\ pc[p] = "approve" /\ UNCHANGED <<st, sent, at>>
          /\ \/ Goto(p, "wait") /\ ss' = [ss EXCEPT ![p][at[p]] = "awaiting_approval"]
             \/ Goto(p, "use") /\ ss' = ss
      BY <2>b DEF Ask
    <3> QED
      BY <2>4, <2>5, <2>8, <2>9, <3>1 DEF Busy
  <2>c. CASE Wake(p)
    <3>1. /\ pc[p] = "wait" /\ UNCHANGED <<st, sent>>
          /\ \/ Goto(p, "use") /\ ss' = ss /\ at' = at
             \/ body[p][at[p]].cont /\ NextStep(p, "skipped")
             \/ Goto(p, "fail") /\ ss' = [ss EXCEPT ![p][at[p]] = "failed"] /\ at' = at
      BY <2>c DEF Wake
    <3>2. at[p] \in Idx(p)
      BY <2>9, <3>1 DEF Busy
    <3>3. CASE body[p][at[p]].cont /\ NextStep(p, "skipped")
      BY <2>6, <2>8, <3>1, <3>2, <3>3
    <3>4. CASE \/ Goto(p, "use") /\ ss' = ss /\ at' = at
               \/ Goto(p, "fail") /\ ss' = [ss EXCEPT ![p][at[p]] = "failed"] /\ at' = at
      BY <2>4, <2>5, <2>8, <3>1, <3>2, <3>4
    <3> QED
      BY <3>1, <3>3, <3>4
  <2>d. CASE UseApproval(p)
    <3>1. pc[p] = "use" /\ Goto(p, "exec") /\ UNCHANGED <<ss, st, sent, at>>
      BY <2>d DEF UseApproval
    <3> QED
      BY <2>4, <2>5, <2>8, <2>9, <3>1 DEF Busy
  <2>e. CASE Submit(p)
    <3>1. /\ pc[p] = "exec" /\ Goto(p, "answer") /\ UNCHANGED <<ss, st, at>>
          /\ sent' = [sent EXCEPT ![p] = sent[p] \union {at[p]}]
      BY <2>e DEF Submit
    <3>2. at[p] \in Idx(p)
      BY <2>9, <3>1 DEF Busy
    <3>3. /\ pc'[p] = "answer" /\ sent'[p] = sent[p] \union {at[p]}
          /\ \A r \in Plans : r # p => sent'[r] = sent[r]
      BY <1>0, <3>1 DEF Goto, RunOK, Shapes
    <3>4. Orderly(p)'
      BY <2>1, <2>2, <3>1, <3>2, <3>3, OrderlyMoved
    <3> QED
      BY <2>3, <2>4, <3>1, <3>3, <3>4
  <2>f. ASSUME NEW ok \in BOOLEAN, Answer(p, ok) PROVE Steady'
    <3>1. /\ pc[p] \in {"exec", "answer"} /\ UNCHANGED <<st, sent>> /\ (ok => pc[p] = "answer")
          /\ \/ ok /\ NextStep(p, "done")
             \/ body[p][at[p]].cont /\ NextStep(p, "failed")
             \/ Goto(p, "fail") /\ ss' = [ss EXCEPT ![p][at[p]] = "failed"] /\ at' = at
      BY <2>f DEF Answer
    <3>2. at[p] \in Idx(p)
      BY <2>9, <3>1 DEF Busy
    <3>3. CASE ok /\ NextStep(p, "done")
      <4>1. ~cancelled[p] => at[p] \in sent[p]
        BY <2>2, <3>1, <3>3 DEF Orderly, Sent
      <4> QED
        BY <2>6, <2>8, <3>1, <3>2, <3>3, <4>1
    <3>4. CASE body[p][at[p]].cont /\ NextStep(p, "failed")
      BY <2>6, <2>8, <3>1, <3>2, <3>4
    <3>5. CASE Goto(p, "fail") /\ ss' = [ss EXCEPT ![p][at[p]] = "failed"] /\ at' = at
      BY <2>4, <2>5, <2>8, <3>1, <3>2, <3>5
    <3> QED
      BY <3>1, <3>3, <3>4, <3>5
  <2>g. CASE FailPlan(p)
    <3>1. /\ st' = [st EXCEPT ![p] = "failed"] /\ pc' = [pc EXCEPT ![p] = "gone"]
          /\ ss' = [ss EXCEPT ![p] = [i \in Idx(p) |-> IF ss[p][i] = "pending" THEN "skipped" ELSE ss[p][i]]]
          /\ UNCHANGED <<at, sent>>
      BY <2>g DEF FailPlan, Goto
    <3>2. \A r \in Plans : r # p => ss'[r] = ss[r] /\ st'[r] = st[r] /\ pc'[r] = pc[r]
      BY <1>0, <3>1 DEF Shapes, RunOK
    <3>3. ASSUME NEW r \in Plans, r # p PROVE Orderly(r)'
      BY <2>1, <3>1, <3>2, <3>3, OrderlyKept DEF Steady
    <3>4. st'[p] = "failed" /\ pc'[p] = "gone"
          /\ \A i \in Idx(p) : ss'[p][i] = IF ss[p][i] = "pending" THEN "skipped" ELSE ss[p][i]
      BY <1>0, <3>1 DEF Shapes, RunOK
    <3>5. Idx(p)' = Idx(p)
      BY <2>1 DEF Idx
    <3>6. Behind(p) => Behind(p)'
      BY <2>1, <3>1, <3>4, <3>5 DEF Behind, Ran
    <3>7. Ahead(p)' /\ Sent(p)' /\ Ended(p)'
      BY <3>4 DEF Ahead, Sent, Ended
    <3>8. Orderly(p)'
      BY <2>1, <2>2, <3>6, <3>7 DEF Orderly
    <3> QED
      BY <3>3, <3>8 DEF Steady
  <2>h. CASE EndPlan(p)
    <3>1. at[p] \notin Idx(p) /\ UNCHANGED <<ss, at, sent>> /\ Finish(p, "done")
      BY <2>h DEF EndPlan
    <3>2. ~Live(p)' /\ st'[p] = "done" /\ "done" \in Terminal
      BY <1>0, <2>1, <3>1, FinishPlaced DEF Terminal
    <3>3. pc'[p] # "answer" /\ (pc'[p] # "gone" => pc'[p] = "none")
      BY <3>2 DEF Live
    <3>4. Idx(p)' = Idx(p)
      BY <2>1 DEF Idx
    <3>5. Behind(p) => Behind(p)'
      BY <2>1, <3>1, <3>4 DEF Behind, Ran
    <3>6. pc'[p] = "gone"
      BY <1>0, <3>1 DEF Finish, RunOK, Placed, Lined
    <3>7. Ahead(p)' /\ Sent(p)' /\ Ended(p)'
      BY <3>1, <3>4, <3>6 DEF Ahead, Sent, Ended
    <3>8. Orderly(p)'
      BY <2>1, <2>2, <3>5, <3>7 DEF Orderly
    <3> QED
      BY <2>7, <3>1, <3>2, <3>8
  <2>i. CASE Interrupted(p)
    <3>1. /\ cancelled[p] /\ Finish(p, "cancelled") /\ UNCHANGED <<at, sent>> /\ pc[p] \in Busy
          /\ \E x : ss' = [ss EXCEPT ![p][at[p]] = x]
      BY <2>i DEF Interrupted, Busy
    <3>2. \A r \in Plans : r # p => ss'[r] = ss[r]
      BY <1>0, <3>1 DEF Shapes
    <3>3. Orderly(p)'
      BY <1>2, <2>1, <3>1
    <3> QED
      BY <2>7, <3>1, <3>2, <3>3 DEF Terminal
  <2> QED
    BY <1>g, <2>a, <2>b, <2>c, <2>d, <2>e, <2>f, <2>g, <2>h, <2>i DEF PlanThread
<1>h. CASE UNCHANGED vars
  BY <1>1, <1>h DEF vars
<1> QED
  BY <1>a, <1>b, <1>c, <1>d, <1>e, <1>f, <1>g, <1>h DEF Next, Operator, Agent

-----------------------------------------------------------------------------
(* The inductive invariant, and what follows from it.                      *)

IInv == Shaped /\ Placed /\ QueueIsServed /\ OffMeansOff /\ Approved /\ Steady

LEMMA IInvInit == Init => IInv
<1> SUFFICES ASSUME Init PROVE IInv
  OBVIOUS
<1>1. \A p \in Plans : pc[p] = "none" /\ st[p] = "none" /\ sent[p] = {} /\ Idx(p) = {}
  BY DEF Init, Idx
<1>2. running = NoPlan /\ queue = <<>> /\ mode = "supervised"
  BY DEF Init
<1>3. Placed
  <2>1. DOMAIN queue = {}
    BY <1>2
  <2>2. Single /\ Open /\ Early
    BY <1>1, <1>2 DEF Single, Open, Early, Live
  <2>3. Lined
    BY <1>2, <2>1 DEF Lined, Queued
  <2> QED
    BY <2>2, <2>3 DEF Placed
<1>4. QueueIsServed /\ OffMeansOff
  BY <1>2 DEF QueueIsServed, OffMeansOff
<1>5. Approved
  BY <1>1 DEF Approved, Asked, Decided, AskedBeforeSent
<1>6. Steady
  BY <1>1 DEF Steady, Orderly, Behind, Ahead, Sent, Ended
<1> QED
  BY <1>3, <1>4, <1>5, <1>6, TypeInit DEF IInv

LEMMA IInvStep == IInv /\ [Next]_vars => IInv'
  BY TypeStep, PlacedStep, ServedStep, OffStep, ApprovedStep, SteadyStep DEF IInv

LEMMA Inductive == Spec => []IInv
  BY IInvInit, IInvStep, PTL DEF Spec

(* The fields of the manager hold what they are declared to hold, for      *)
(* every number of plans and every step list (AgentManager, Plan).         *)
THEOREM TypeCorrect == Spec => []TypeOK
<1>1. IInv => TypeOK
  BY TypeParts DEF IInv, Shaped
<1> QED
  BY <1>1, Inductive, PTL

(* A plan thread in ApprovalItem.wait can be answered or is told to stop   *)
(* (create_plan, _auto_approve_released, _cancel_everything, cancel_plan). *)
THEOREM WaitersReachable == Spec => []WaitersAreReachable
<1>1. IInv => WaitersAreReachable
  <2> SUFFICES ASSUME IInv, NEW p \in Plans, pc[p] = "wait", item[p][at[p]] = "pending"
               PROVE  <<p, at[p]>> \in approvals \/ cancelled[p]
    BY DEF WaitersAreReachable
  <2>1. at[p] \in Idx(p)
    BY DEF IInv, Shaped, InHand, Busy
  <2>2. st[p] = "running"
    BY DEF IInv, Placed, Single, Live
  <2> QED
    BY <2>1, <2>2 DEF IInv, Approved, Asked, Terminal
<1> QED
  BY <1>1, Inductive, PTL

(* Off, and cleaned up, the agent layer has nothing left to run            *)
(* (set_control, _cancel_everything, the mode test of create_plan).        *)
THEOREM OffIsOff == Spec => []OffMeansOff
<1>1. IInv => OffMeansOff
  BY DEF IInv
<1> QED
  BY <1>1, Inductive, PTL

(* A step with an approval item goes out decided (_maybe_approve,          *)
(* _mark_approval_used), unless its plan was cancelled.                    *)
THEOREM SentWasAsked == Spec => []AskedBeforeSent
<1>1. IInv => AskedBeforeSent
  BY DEF IInv, Approved
<1> QED
  BY <1>1, Inductive, PTL

(* A plan nobody cancelled that ends done ran its steps (_run_plan).       *)
THEOREM DoneRan == Spec => []DoneMeansRan
<1>1. IInv => DoneMeansRan
  <2> SUFFICES ASSUME IInv, NEW p \in Plans, st[p] = "done", ~cancelled[p], NEW i \in Idx(p)
               PROVE  Ran(p, i)
    BY DEF DoneMeansRan, Ran
  <2>1. Behind(p) /\ at[p] \notin Idx(p)
    BY DEF IInv, Steady, Orderly, Ended
  <2>2. Idx(p) = 1 .. Len(body[p]) /\ Len(body[p]) \in Nat
    BY Bodied DEF IInv, Shaped, Typed, BodyOK, Idx
  <2>3. at[p] \in 1 .. Len(body[p]) + 1
    BY DEF IInv, Shaped, Typed, AtOK
  <2>4. i < at[p]
    BY <2>1, <2>2, <2>3
  <2> QED
    BY <2>1, <2>4 DEF Behind
<1> QED
  BY <1>1, Inductive, PTL

(* Only _fail_plan leaves a queue behind it; _finish_plan_unlocked starts  *)
(* the next plan.                                                          *)
THEOREM QueueServed == Spec => []QueueIsServed
<1>1. IInv => QueueIsServed
  BY DEF IInv
<1> QED
  BY <1>1, Inductive, PTL

-----------------------------------------------------------------------------
(* How far a plan is from its end: a thread that moves gets nearer, and    *)
(* nothing else takes it back.                                             *)

StepsOfPlan == [top |-> 7, approve |-> 6, wait |-> 5, use |-> 4, exec |-> 3, answer |-> 2, fail |-> 1]

PlanLeft(p) == 7 * (Len(body[p]) + 1 - at[p]) + StepsOfPlan[pc[p]]

LEMMA Counted ==
  \A n \in Nat : \A k \in 1 .. n + 1 : \A r \in 1 .. 7 :
    /\ 7 * (n + 1 - k) + r \in Nat \ {0}
    /\ \A t \in 1 .. 7 : t < r => 7 * (n + 1 - k) + t < 7 * (n + 1 - k) + r
    /\ r > 1 => 7 * (n + 1 - (k + 1)) + 7 < 7 * (n + 1 - k) + r
  OBVIOUS

LEMMA PlanLeftRange ==
  ASSUME Shaped, NEW p \in Plans, Live(p)
  PROVE  PlanLeft(p) \in Nat \ {0}
<1>1. Len(body[p]) \in Nat /\ at[p] \in 1 .. Len(body[p]) + 1
  BY Bodied DEF Shaped, Typed, BodyOK, AtOK
<1>2. StepsOfPlan[pc[p]] \in 1 .. 7
  BY DEF Shaped, Typed, RunOK, Pcs, Live, StepsOfPlan
<1> QED
  BY <1>1, <1>2, Counted, Zenon DEF PlanLeft

(* Every plan with a thread is some steps from its end.                    *)
Ranged == \A p \in Plans : Live(p) => PlanLeft(p) \in Nat

LEMMA AllRanged == Shaped => Ranged
  BY PlanLeftRange DEF Ranged

LEMMA AllRangedNext == Shaped' => Ranged'
  BY AllRanged, PTL

LEMMA ThreadGetsNearer ==
  ASSUME Shaped, Placed, NEW p \in Plans, PlanThread(p), Live(p)'
  PROVE  PlanLeft(p)' < PlanLeft(p)
<1>0. /\ Len(body[p]) \in Nat /\ at[p] \in 1 .. Len(body[p]) + 1
      /\ DOMAIN at = Plans /\ DOMAIN pc = Plans
  BY Bodied DEF Shaped, Typed, BodyOK, AtOK, Shapes, RunOK
<1>1. /\ body' = body
      /\ \/ pc'[p] = "top" /\ at'[p] = at[p] + 1 /\ pc[p] \in {"top", "wait", "exec", "answer"}
         \/ /\ at' = at
            /\ \/ pc[p] = "top" /\ pc'[p] \in {"use", "approve"}
               \/ pc[p] = "approve" /\ pc'[p] \in {"wait", "use"}
               \/ pc[p] = "wait" /\ pc'[p] \in {"use", "fail"}
               \/ pc[p] = "use" /\ pc'[p] = "exec"
               \/ pc[p] = "exec" /\ pc'[p] \in {"answer", "fail"}
               \/ pc[p] = "answer" /\ pc'[p] = "fail"
  <2> USE DEF NextStep, Goto
  <2>1. CASE Top(p)
    BY <1>0, <2>1 DEF Top
  <2>2. CASE Ask(p)
    BY <1>0, <2>2 DEF Ask
  <2>3. CASE Wake(p)
    BY <1>0, <2>3 DEF Wake
  <2>4. CASE UseApproval(p) \/ Submit(p)
    BY <1>0, <2>4 DEF UseApproval, Submit
  <2>5. ASSUME NEW ok \in BOOLEAN, Answer(p, ok)
        PROVE  /\ body' = body
               /\ pc[p] = "answer" \/ pc[p] = "exec"
               /\ \/ pc'[p] = "top" /\ at'[p] = at[p] + 1
                  \/ pc'[p] = "fail" /\ at' = at
    <3>1. CASE ok = TRUE
      BY <1>0, <2>5, <3>1 DEF Answer
    <3>2. CASE ok = FALSE
      BY <1>0, <2>5, <3>2 DEF Answer
    <3> QED
      BY <3>1, <3>2
  <2>6. CASE FailPlan(p) \/ EndPlan(p) \/ Interrupted(p)
    <3>1. CASE FailPlan(p)
      BY <1>0, <3>1 DEF FailPlan, Live
    <3>2. CASE EndPlan(p) \/ Interrupted(p)
      <4>1. pc'[p] = "gone" \/ (running = p /\ queue # <<>> /\ Head(queue) = p)
        BY <1>0, <3>2 DEF EndPlan, Interrupted, Finish
      <4> QED
        <5>1. Live(p)
          BY <3>2 DEF EndPlan, Interrupted, Live
        <5>2. running = p /\ p \notin Queued
          BY <5>1 DEF Placed, Single, Lined
        <5>3. queue # <<>> => Head(queue) \in Queued
          BY DEF Queued, Shaped, Typed, RunOK
        <5> QED
          BY <4>1, <5>2, <5>3 DEF Live
    <3> QED
      BY <2>6, <3>1, <3>2
  <2> QED
    BY <2>1, <2>2, <2>3, <2>4, <2>5, <2>6 DEF PlanThread
<1>2. CASE pc'[p] = "top" /\ at'[p] = at[p] + 1
  <2>1. StepsOfPlan[pc'[p]] = 7 /\ StepsOfPlan[pc[p]] \in 2 .. 7
    BY <1>1, <1>2 DEF StepsOfPlan
  <2>2. StepsOfPlan[pc[p]] \in 1 .. 7 /\ StepsOfPlan[pc[p]] > 1
    BY <2>1
  <2>3. PlanLeft(p)' = 7 * (Len(body[p]) + 1 - (at[p] + 1)) + 7
    BY <1>1, <1>2, <2>1 DEF PlanLeft
  <2> QED
    BY <1>0, <2>2, <2>3, Counted DEF PlanLeft
<1>3. CASE ~(pc'[p] = "top" /\ at'[p] = at[p] + 1)
  <2>1. /\ StepsOfPlan[pc'[p]] \in 1 .. 7 /\ StepsOfPlan[pc[p]] \in 1 .. 7
        /\ StepsOfPlan[pc'[p]] < StepsOfPlan[pc[p]]
    BY <1>1, <1>3 DEF StepsOfPlan
  <2>2. at' = at
    BY <1>1, <1>3
  <2>3. PlanLeft(p)' = 7 * (Len(body[p]) + 1 - at[p]) + StepsOfPlan[pc'[p]]
    BY <1>1, <2>2 DEF PlanLeft
  <2> QED
    BY <1>0, <2>1, <2>3, Counted DEF PlanLeft
<1> QED
  BY <1>2, <1>3

(* A plan has only so many steps of its thread left, and each takes one    *)
(* away, whoever decides, cancels or turns the switch in between: what is  *)
(* left of CancelEnds is that the thread can move (_run_plan).             *)
THEOREM PlanCountsDown ==
  Spec => /\ []Ranged
          /\ [][\A p \in Plans : Live(p) /\ Live(p)' =>
                  /\ PlanLeft(p)' <= PlanLeft(p)
                  /\ PlanThread(p) => PlanLeft(p)' < PlanLeft(p)]_vars
<1>1. IInv => Ranged
  BY AllRanged DEF IInv
<1>2. IInv /\ [Next]_vars =>
        [\A p \in Plans : Live(p) /\ Live(p)' =>
           /\ PlanLeft(p)' <= PlanLeft(p)
           /\ PlanThread(p) => PlanLeft(p)' < PlanLeft(p)]_vars
  <2> SUFFICES ASSUME IInv, Next, NEW p \in Plans, Live(p), Live(p)'
               PROVE  /\ PlanLeft(p)' <= PlanLeft(p)
                      /\ PlanThread(p) => PlanLeft(p)' < PlanLeft(p)
    OBVIOUS
  <2>0. /\ PlanLeft(p) \in Nat /\ RunOK /\ Shapes /\ st[p] = "running" /\ running = p
        /\ DOMAIN pc = Plans
    BY <1>1 DEF Ranged, IInv, Shaped, Typed, Placed, Single, RunOK
  <2>1. CASE PlanThread(p)
    <3>1. PlanLeft(p)' < PlanLeft(p)
      BY <2>1, ThreadGetsNearer DEF IInv
    <3>2. body'[p] = body[p] /\ PlanLeft(p)' \in Nat
      <4>1. Shaped'
        BY TypeStep DEF IInv
      <4>2. Ranged'
        BY <4>1, AllRangedNext
      <4>3. body' = body
        BY <2>0, <2>1, ThreadMoves
      <4> QED
        BY <4>2, <4>3 DEF Ranged
    <3> QED
      BY <2>0, <3>1, <3>2
  <2>2. CASE ~PlanThread(p)
    <3>1. pc'[p] = pc[p] /\ at'[p] = at[p] /\ body'[p] = body[p]
      <4>1. ASSUME NEW s \in Positions, SetControl(s[1], s[2], s[3])
            PROVE  UNCHANGED <<pc, at, body>>
        BY <4>1 DEF SetControl
      <4>2. CASE CancelEverything
        BY <2>0, <4>2 DEF CancelEverything, Live
      <4>3. CASE AutoApprove
        BY <4>3 DEF AutoApprove
      <4>4. ASSUME NEW q \in Plans, NEW b \in Bodies, NEW f \in BOOLEAN, CreatePlan(q, b, f)
            PROVE  pc'[p] = pc[p] /\ at'[p] = at[p] /\ body'[p] = body[p]
        <5>1. q # p
          BY <2>0, <4>4 DEF CreatePlan
        <5> QED
          BY <2>0, <4>4, <5>1 DEF CreatePlan, IInv, Shaped, Typed, BodyOK
      <4>5. ASSUME NEW q \in Plans, CancelPlan(q) PROVE UNCHANGED <<pc, at, body>>
        BY <4>5 DEF CancelPlan
      <4>6. ASSUME NEW q \in Plans, NEW n \in Idx(q), NEW v, Decide(q, n, v)
            PROVE  UNCHANGED <<pc, at, body>>
        BY <4>6 DEF Decide
      <4>7. ASSUME NEW q \in Plans, PlanThread(q) PROVE FALSE
        <5>1. Live(q)
          BY <2>0, <4>7, ThreadMoves
        <5> QED
          BY <2>0, <2>2, <4>7, <5>1 DEF IInv, Placed, Single
      <4> QED
        BY <4>1, <4>2, <4>3, <4>4, <4>5, <4>6, <4>7 DEF Next, Operator, Agent
    <3>2. PlanLeft(p)' = PlanLeft(p)
      BY <3>1 DEF PlanLeft
    <3> QED
      BY <2>0, <2>2, <3>2
  <2> QED
    BY <2>1, <2>2
<1>3. Spec => []Ranged
  BY <1>1, Inductive, PTL
<1>4. Spec => [][\A p \in Plans : Live(p) /\ Live(p)' =>
                   /\ PlanLeft(p)' <= PlanLeft(p)
                   /\ PlanThread(p) => PlanLeft(p)' < PlanLeft(p)]_vars
  BY <1>2, Inductive, PTL DEF Spec
<1> QED
  BY <1>3, <1>4
=============================================================================
