--------------------------- MODULE WfbFlightProofs ---------------------------
(***************************************************************************)
(* What the runs of WfbFlight show, for every value of its clocks and for  *)
(* every length of path and return.  A tick is a pipeline of operators on  *)
(* the glue's record: each of them keeps the record sound, whatever it     *)
(* reads, and the rest between two ticks adds that the safety level was    *)
(* applied and that the return clock has not run out.                      *)
(***************************************************************************)
EXTENDS WfbFlightFair, TLAPS

USE WfbAssumption DEF NoAction, ViaHover, InPlace, KillAct

(* The flight is on its way down.                                          *)
Down(w) == w.prim = "DESCEND" \/ (w.landAfter /\ w.prim \in {"RETURN", "SETTLE"})

(* The executors and the sequencer agree.                                  *)
Paths(w) ==
  /\ Executing(w) <=> w.prim = "TRAJ"
  /\ \A e \in Executors : w.path[e] # "EMPTY" => e = w.mode

(* Who has the flight.                                                     *)
Claims(w) ==
  /\ w.gs => w.armed
  /\ w.prim # "IDLE" => GsFlying(w)
  /\ w.takeover => w.gs
  /\ w.landAfter => w.prim \in {"RETURN", "SETTLE", "DESCEND"}
  /\ w.landAfter /\ w.prim \in {"RETURN", "SETTLE"} => w.ret <= ReturnTicks

(* What the safety net's level has done; a claimed flight without a        *)
(* primitive is one whose motors a crash tilt stopped.                     *)
Levels(w) ==
  /\ w.applied <= w.action
  /\ w.action # NoAction => w.gs
  /\ GsFlying(w) /\ w.prim = "IDLE" => w.applied = KillAct
  /\ GsFlying(w) /\ w.applied \in {ViaHover, InPlace} => Down(w)

Sound(w) == w \in Glue /\ Paths(w) /\ Claims(w) /\ Levels(w)

(* Between two ticks the level has been applied.                           *)
Rested(w) == w.action = w.applied

IInv ==
  /\ stage \in Vehicle!Stages /\ out \in Requests
  /\ Sound(wfb) /\ Rested(wfb)
  /\ wfb.takeover => out \in {"none", "land", "stop"}

-----------------------------------------------------------------------------
(* One field at a time: the record stays a record of the glue.             *)

LEMMA SetFlag ==
  \A w \in Glue, b \in BOOLEAN :
    /\ [w EXCEPT !.armed = b] \in Glue /\ [w EXCEPT !.idle = b] \in Glue
    /\ [w EXCEPT !.air = b] \in Glue /\ [w EXCEPT !.gs = b] \in Glue
    /\ [w EXCEPT !.pending = b] \in Glue /\ [w EXCEPT !.takeover = b] \in Glue
    /\ [w EXCEPT !.landNow = b] \in Glue /\ [w EXCEPT !.landAfter = b] \in Glue
    /\ [w EXCEPT !.push = b] \in Glue
  BY SMT DEF Glue

LEMMA SetLevel ==
  \A w \in Glue, n \in 0 .. 3 :
    [w EXCEPT !.applied = n] \in Glue /\ [w EXCEPT !.action = n] \in Glue
  BY SMT DEF Glue

LEMMA SetPrim == \A w \in Glue, p \in Prims : [w EXCEPT !.prim = p] \in Glue
  BY SMT DEF Glue

LEMMA SetClock ==
  \A w \in Glue :
    /\ \A n \in 0 .. HbTicks + 1 : [w EXCEPT !.hb = n] \in Glue
    /\ \A n \in 0 .. MaxDist : [w EXCEPT !.dist = n] \in Glue
    /\ \A n \in 0 .. SettleTicks : [w EXCEPT !.settle = n] \in Glue
    /\ \A n \in 0 .. ReturnTicks + 1 : [w EXCEPT !.ret = n] \in Glue
    /\ \A n \in 0 .. CapTicks + 1 : [w EXCEPT !.airT = n] \in Glue
    /\ \A n \in 0 .. FenceTicks : [w EXCEPT !.fenceT = n] \in Glue
    /\ \A n \in 0 .. PathTicks - 1 : [w EXCEPT !.pathT = n] \in Glue
  BY SMT DEF Glue

LEMMA SetPath ==
  \A w \in Glue :
    /\ \A p \in [Executors -> PathStates] : [w EXCEPT !.path = p] \in Glue
    /\ \A e \in Executors : [w EXCEPT !.mode = e] \in Glue
  BY SMT DEF Glue

LEMMA Zeros ==
  /\ TRUE \in BOOLEAN /\ FALSE \in BOOLEAN
  /\ 0 \in 0 .. 3 /\ 0 \in 0 .. HbTicks + 1 /\ 0 \in 0 .. MaxDist /\ 0 \in 0 .. SettleTicks
  /\ 0 \in 0 .. ReturnTicks + 1 /\ 0 \in 0 .. CapTicks + 1 /\ 0 \in 0 .. FenceTicks
  /\ 0 \in 0 .. PathTicks - 1
  OBVIOUS

LEMMA PrimNames ==
  /\ "IDLE" \in Prims /\ "CLIMB" \in Prims /\ "HOVER" \in Prims /\ "TRAJ" \in Prims
  /\ "RETURN" \in Prims /\ "SETTLE" \in Prims /\ "DESCEND" \in Prims
  BY DEF Prims

(* What a tick may read.                                                   *)
Readings == [rc : BOOLEAN, health : {"ok", "low", "tilt"}, fence : {"in", "out", "far"},
             settled : BOOLEAN, preset : BOOLEAN, dist : 1 .. MaxDist, phase : BOOLEAN]

LEMMA InputsAreReadings == Inputs \subseteq Readings
<1>1. \A r, values, default : default \in values => Among(r, values, default) \subseteq values
  BY DEF Among
<1>2. SUFFICES ASSUME NEW in \in Inputs PROVE in \in Readings
  OBVIOUS
<1> DEFINE watched == wfb.gs /\ stage \in Airborne \union {"STOPPED"}
<1>3. /\ in.rc \in Among(GsFlying(wfb), BOOLEAN, FALSE)
      /\ in.health \in Among(watched, {"ok", "low", "tilt"}, "ok")
      /\ in.fence \in Among(watched, {"in", "out", "far"}, "in")
      /\ in.settled \in Among(wfb.prim \in {"CLIMB", "SETTLE"}, BOOLEAN, FALSE)
      /\ in.preset \in Among(wfb.prim \in {"CLIMB", "HOVER", "SETTLE"}, BOOLEAN, FALSE)
      /\ in.dist \in Among(wfb.prim \in {"CLIMB", "HOVER", "TRAJ"}, 1 .. MaxDist, 1)
      /\ in.phase \in Among(stage = "STOPPED", BOOLEAN, FALSE)
  BY DEF Inputs
<1> HIDE DEF watched
<1>5. \A r : Among(r, BOOLEAN, FALSE) \subseteq BOOLEAN
  BY <1>1, Zeros, Zenon
<1>7. /\ in.rc \in BOOLEAN /\ in.settled \in BOOLEAN /\ in.preset \in BOOLEAN /\ in.phase \in BOOLEAN
  <2>1. \A r, x : x \in Among(r, BOOLEAN, FALSE) => x \in BOOLEAN
    BY <1>5, Zenon
  <2> QED
    BY <1>3, <2>1, Zenon
<1>6. /\ in.health \in {"ok", "low", "tilt"} /\ in.fence \in {"in", "out", "far"}
      /\ in.dist \in 1 .. MaxDist
  BY <1>1, <1>3
<1>4. in = [rc |-> in.rc, health |-> in.health, fence |-> in.fence, settled |-> in.settled,
            preset |-> in.preset, dist |-> in.dist, phase |-> in.phase]
  BY DEF Inputs
<1> QED
  BY <1>4, <1>6, <1>7 DEF Readings

-----------------------------------------------------------------------------
(* The operators of the pipeline.                                          *)

LEMMA StopPathType ==
  ASSUME NEW w \in Glue
  PROVE  /\ StopPath(w) \in Glue
         /\ ~Executing(StopPath(w))
         /\ \A e \in Executors : StopPath(w).path[e] # "EMPTY" => w.path[e] # "EMPTY"
  BY DEF StopPath, Executing, Glue, PathStates, Executors

LEMMA StopPathFields ==
  ASSUME NEW w \in Glue
  PROVE  /\ StopPath(w).prim = w.prim /\ StopPath(w).gs = w.gs /\ StopPath(w).armed = w.armed
         /\ StopPath(w).takeover = w.takeover /\ StopPath(w).landAfter = w.landAfter
         /\ StopPath(w).ret = w.ret /\ StopPath(w).mode = w.mode
         /\ StopPath(w).action = w.action /\ StopPath(w).applied = w.applied
  BY DEF StopPath, Glue

LEMMA PrimOffType ==
  ASSUME NEW w \in Glue
  PROVE  /\ PrimOff(w) \in Glue
         /\ PrimOff(w).prim = "IDLE" /\ PrimOff(w).landAfter = FALSE
         /\ PrimOff(w).path = w.path /\ PrimOff(w).mode = w.mode
         /\ PrimOff(w).gs = w.gs /\ PrimOff(w).takeover = w.takeover /\ PrimOff(w).armed = w.armed
         /\ PrimOff(w).action = w.action /\ PrimOff(w).applied = w.applied
<1>1. PrimOff(w) \in Glue
  BY PrimNames, Zeros, SetPrim, SetFlag, SetClock, Zenon DEF PrimOff
<1> QED
  BY <1>1 DEF PrimOff, Glue

(* What a disarm and a take-over leave.                                    *)
LEMMA Grounded ==
  ASSUME NEW w \in Glue, NEW p, p = PrimOff(StopPath(w))
  PROVE  /\ p \in Glue /\ ~Executing(p)
         /\ \A e \in Executors : p.path[e] # "EMPTY" => w.path[e] # "EMPTY"
         /\ p.prim = "IDLE" /\ p.landAfter = FALSE /\ p.mode = w.mode
         /\ p.gs = w.gs /\ p.armed = w.armed /\ p.action = w.action /\ p.applied = w.applied
<1> DEFINE q == StopPath(w)
<1>1. q \in Glue /\ ~Executing(q) /\ \A e \in Executors : q.path[e] # "EMPTY" => w.path[e] # "EMPTY"
  BY StopPathType
<1>2. q.mode = w.mode /\ q.gs = w.gs /\ q.armed = w.armed /\ q.action = w.action
      /\ q.applied = w.applied
  BY StopPathFields
<1> HIDE DEF q
<1>3. /\ p \in Glue /\ p.prim = "IDLE" /\ p.landAfter = FALSE /\ p.path = q.path
      /\ p.mode = q.mode /\ p.gs = q.gs /\ p.armed = q.armed /\ p.action = q.action
      /\ p.applied = q.applied
  BY <1>1, PrimOffType DEF q
<1> QED
  BY <1>1, <1>2, <1>3 DEF Executing

LEMMA GlueLevels ==
  ASSUME NEW w \in Glue
  PROVE  w.action \in 0 .. 3 /\ w.applied \in 0 .. 3 /\ w.ret \in 0 .. ReturnTicks + 1
  BY DEF Glue

LEMMA DisarmedSound ==
  ASSUME NEW w, Sound(w)
  PROVE  Sound(Disarmed(w)) /\ Rested(Disarmed(w)) /\ Disarmed(w).gs = FALSE
<1> DEFINE p == PrimOff(StopPath(w))
           v == Disarmed(w)
<1>1. p \in Glue /\ p.prim = "IDLE" /\ p.landAfter = FALSE /\ p.mode = w.mode /\ ~Executing(p)
      /\ \A e \in Executors : p.path[e] # "EMPTY" => w.path[e] # "EMPTY"
  BY Grounded DEF Sound
<1>2. v \in Glue
  BY <1>1, Zeros, SetLevel, SetFlag, SetClock, Zenon DEF Disarmed, NoAction
<1>3. /\ v.prim = p.prim /\ v.landAfter = p.landAfter /\ v.path = p.path /\ v.mode = p.mode
      /\ v.gs = FALSE /\ v.takeover = FALSE /\ v.action = 0 /\ v.applied = 0
  BY <1>1 DEF Disarmed, Glue
<1>4. Paths(v)
  BY <1>1, <1>3 DEF Sound, Paths, Executing
<1>5. Claims(v) /\ Levels(v) /\ Rested(v)
  BY <1>1, <1>3 DEF Claims, Levels, Rested, GsFlying
<1> QED
  BY <1>2, <1>3, <1>4, <1>5 DEF Sound

LEMMA SampledType ==
  ASSUME NEW w \in Glue, NEW a \in BOOLEAN, NEW i \in BOOLEAN, NEW r \in BOOLEAN,
         NEW h \in 0 .. HbTicks + 1
  PROVE  [w EXCEPT !.armed = a, !.idle = i, !.air = r, !.hb = h] \in Glue
  BY SetFlag, SetClock, Zenon

LEMMA SampledSound ==
  ASSUME Sound(wfb), Rested(wfb), NEW in \in Readings
  PROVE  Sound(Sampled(wfb, in)) /\ Rested(Sampled(wfb, in))
<1> DEFINE armed == stage \in Vehicle!Armed
           v == IF wfb.armed /\ ~armed THEN Disarmed(wfb) ELSE wfb
           s == Sampled(wfb, in)
<1>1. Sound(v) /\ Rested(v) /\ (v.gs => armed)
  BY DisarmedSound DEF Sound, Claims
<1>2. v \in Glue
  BY <1>1 DEF Sound
<1>3. (IF v.gs THEN Least(v.hb + 1, HbTicks + 1) ELSE v.hb) \in 0 .. HbTicks + 1
  BY <1>2 DEF Glue, Least
<1>4. s \in Glue
  <2> DEFINE a == stage \in Vehicle!Armed
             i == stage = "IDLING"
             r == stage \in Airborne \/ (stage = "STOPPED" /\ in.phase)
             h == IF v.gs THEN Least(v.hb + 1, HbTicks + 1) ELSE v.hb
  <2>1. a \in BOOLEAN /\ i \in BOOLEAN /\ r \in BOOLEAN
    OBVIOUS
  <2>2. s = [v EXCEPT !.armed = a, !.idle = i, !.air = r, !.hb = h]
    BY <1>2 DEF Sampled, Glue
  <2> HIDE DEF a, i, r, h, v, s
  <2>3. h \in 0 .. HbTicks + 1
    BY <1>3 DEF h
  <2> QED
    BY <1>2, <2>1, <2>2, <2>3, SampledType, Zenon
<1>5. /\ s.prim = v.prim /\ s.landAfter = v.landAfter /\ s.path = v.path /\ s.mode = v.mode
      /\ s.gs = v.gs /\ s.takeover = v.takeover /\ s.ret = v.ret
      /\ s.action = v.action /\ s.applied = v.applied
  BY <1>2 DEF Sampled, Glue
<1>6. v.gs => s.armed
  BY <1>1, <1>2 DEF Sampled, Glue
<1>7. Paths(s) /\ Levels(s) /\ Rested(s)
  BY <1>1, <1>5 DEF Sound, Paths, Levels, Rested, Executing, GsFlying, Down
<1>8. Claims(s)
  BY <1>1, <1>5, <1>6 DEF Sound, Claims, GsFlying
<1> QED
  BY <1>4, <1>7, <1>8 DEF Sound

LEMMA TakeOverSound ==
  ASSUME NEW w, Sound(w), Rested(w), NEW in \in Readings
  PROVE  Sound(PilotTakeOver(w, in)) /\ Rested(PilotTakeOver(w, in))
<1> DEFINE p == PrimOff(StopPath(w))
           v == [p EXCEPT !.pending = FALSE, !.takeover = TRUE]
<1>1. CASE ~(in.rc /\ GsFlying(w))
  BY <1>1 DEF PilotTakeOver
<1>2. CASE in.rc /\ GsFlying(w)
  <2>1. p \in Glue /\ p.prim = "IDLE" /\ p.landAfter = FALSE /\ p.mode = w.mode /\ ~Executing(p)
        /\ \A e \in Executors : p.path[e] # "EMPTY" => w.path[e] # "EMPTY"
    BY Grounded DEF Sound
  <2>2. p.gs = w.gs /\ p.armed = w.armed /\ p.action = w.action /\ p.applied = w.applied
    BY Grounded DEF Sound
  <2>3. v \in Glue
    BY <2>1, Zeros, SetFlag, Zenon
  <2>4. /\ v.prim = p.prim /\ v.landAfter = p.landAfter /\ v.path = p.path /\ v.mode = p.mode
        /\ v.gs = p.gs /\ v.takeover = TRUE /\ v.armed = p.armed
        /\ v.action = p.action /\ v.applied = p.applied
    BY <2>1 DEF Glue
  <2>5. Paths(v)
    BY <2>1, <2>4 DEF Sound, Paths, Executing
  <2>6. Claims(v) /\ Levels(v) /\ Rested(v)
    BY <1>2, <2>1, <2>2, <2>4 DEF Sound, Claims, Levels, Rested, GsFlying
  <2> QED
    BY <1>2, <2>3, <2>5, <2>6 DEF Sound, PilotTakeOver
<1> QED
  BY <1>1, <1>2

LEMMA SafetyType ==
  ASSUME NEW w \in Glue, NEW t \in 0 .. CapTicks + 1, NEW f \in 0 .. FenceTicks,
         NEW l \in 0 .. 3, NEW b \in BOOLEAN
  PROVE  [w EXCEPT !.airT = t, !.fenceT = f, !.action = l, !.push = b] \in Glue
  BY SetLevel, SetClock, SetFlag, Zenon

LEMMA SafetySound ==
  ASSUME NEW w, Sound(w), NEW in \in Readings
  PROVE  Sound(SafetyStep(w, in))
<1> DEFINE v == SafetyStep(w, in)
<1>0. w \in Glue
  BY DEF Sound
<1>1. PICK airT \in 0 .. CapTicks + 1, fenceT \in 0 .. FenceTicks, action \in 0 .. 3,
           push \in BOOLEAN :
        /\ v = [w EXCEPT !.airT = airT, !.fenceT = fenceT, !.action = action, !.push = push]
        /\ w.action <= action /\ (action # w.action => w.gs)
  <2>1. CASE w.gs /\ w.air
    <3> DEFINE outside == in.fence # "in"
               airT    == Least(w.airT + 1, CapTicks + 1)
               fenceT  == IF outside THEN Least(w.fenceT + 1, FenceTicks) ELSE 0
    <3>1. airT \in 0 .. CapTicks + 1 /\ fenceT \in 0 .. FenceTicks
      BY <1>0 DEF Glue, Least
    <3> DEFINE fenced == outside /\ (~GsFlying(w) \/ in.fence = "far" \/ fenceT >= FenceTicks)
               via    == \/ in.health = "low"
                         \/ GsFlying(w) /\ (w.hb > HbTicks \/ airT > CapTicks)
               level  == IF in.health = "tilt" THEN KillAct
                         ELSE IF fenced THEN InPlace ELSE IF via THEN ViaHover ELSE NoAction
    <3>2. v = [w EXCEPT !.airT = airT, !.fenceT = fenceT, !.action = Most(w.action, level),
                        !.push = outside /\ Most(w.action, level) = NoAction]
      BY <2>1 DEF SafetyStep
    <3>5. level \in 0 .. 3
      <4> HIDE DEF fenced, via
      <4> QED
        OBVIOUS
    <3> HIDE DEF level
    <3>3. Most(w.action, level) \in 0 .. 3 /\ w.action <= Most(w.action, level)
      BY <1>0, <3>5, GlueLevels DEF Most
    <3>4. (outside /\ Most(w.action, level) = NoAction) \in BOOLEAN
      OBVIOUS
    <3> HIDE DEF v, airT, fenceT, outside
    <3> QED
      BY <2>1, <3>1, <3>2, <3>3, <3>4, Zenon
  <2>2. CASE ~(w.gs /\ w.air)
    <3>1. v = [w EXCEPT !.airT = w.airT, !.fenceT = 0, !.action = w.action, !.push = FALSE]
      BY <1>0, <2>2 DEF SafetyStep, Glue
    <3>2. w.airT \in 0 .. CapTicks + 1 /\ 0 \in 0 .. FenceTicks /\ w.action \in 0 .. 3
          /\ w.action <= w.action /\ FALSE \in BOOLEAN
      BY <1>0 DEF Glue
    <3> HIDE DEF v
    <3> QED
      BY <3>1, <3>2, Zenon
  <2> QED
    BY <2>1, <2>2
<1>2. v \in Glue
  <2> HIDE DEF v
  <2> QED
    BY <1>0, <1>1, SafetyType, Zenon
<1>3. /\ v.prim = w.prim /\ v.landAfter = w.landAfter /\ v.path = w.path /\ v.mode = w.mode
      /\ v.gs = w.gs /\ v.takeover = w.takeover /\ v.armed = w.armed /\ v.ret = w.ret
      /\ v.action = action /\ v.applied = w.applied
  BY <1>0, <1>1 DEF Glue
<1>4. Paths(v) /\ Claims(v)
  BY <1>3 DEF Sound, Paths, Claims, Executing, GsFlying
<1>5. Levels(v)
  BY <1>0, <1>1, <1>3, GlueLevels DEF Sound, Levels, GsFlying, Down
<1> QED
  BY <1>2, <1>4, <1>5 DEF Sound

(* The fields a landing and the end of a path leave alone.                 *)
SameHolder(v, w) ==
  /\ v.gs = w.gs /\ v.takeover = w.takeover /\ v.armed = w.armed
  /\ v.action = w.action /\ v.applied = w.applied

(* What wfb_prim_land does: nothing, or it makes the return one to land.   *)
LandCases(v, w) ==
  \/ /\ w.prim \in {"IDLE", "DESCEND"} \/ (w.landAfter /\ w.prim \in {"RETURN", "SETTLE"})
     /\ v = w
  \/ /\ w.prim \in {"RETURN", "SETTLE"} /\ ~w.landAfter
     /\ v.prim = w.prim /\ v.landAfter = TRUE /\ v.ret = 0
  \/ /\ w.prim \in {"CLIMB", "HOVER", "TRAJ"}
     /\ v.prim = "RETURN" /\ v.landAfter = TRUE /\ v.ret = 0

LEMMA PrimLandCases ==
  ASSUME NEW w \in Glue, NEW d \in 1 .. MaxDist, NEW v, v = PrimLand(w, d)
  PROVE  v \in Glue /\ SameHolder(v, w) /\ v.path = w.path /\ v.mode = w.mode /\ LandCases(v, w)
<1>0. w.prim \in Prims
  BY DEF Glue
<1>1. CASE w.prim \in {"IDLE", "DESCEND"} \/ (w.landAfter /\ w.prim \in {"RETURN", "SETTLE"})
  BY <1>1 DEF PrimLand, SameHolder, LandCases
<1>2. CASE w.prim \in {"RETURN", "SETTLE"} /\ ~w.landAfter
  <2>1. v = [w EXCEPT !.landAfter = TRUE, !.ret = 0]
    BY <1>2 DEF PrimLand
  <2>2. [w EXCEPT !.landAfter = TRUE, !.ret = 0] \in Glue
    BY Zeros, SetFlag, SetClock, Zenon
  <2> QED
    BY <1>2, <2>1, <2>2 DEF Glue, SameHolder, LandCases
<1>3. CASE w.prim \in {"CLIMB", "HOVER", "TRAJ"}
  <2>1. v = [w EXCEPT !.prim = "RETURN", !.landAfter = TRUE, !.dist = d, !.ret = 0]
    BY <1>3 DEF PrimLand
  <2>2. d \in 0 .. MaxDist
    OBVIOUS
  <2>3. [w EXCEPT !.prim = "RETURN", !.landAfter = TRUE, !.dist = d, !.ret = 0] \in Glue
    BY <2>2, Zeros, PrimNames, SetPrim, SetFlag, SetClock, Zenon
  <2> QED
    BY <1>3, <2>1, <2>3 DEF Glue, SameHolder, LandCases
<1> QED
  BY <1>0, <1>1, <1>2, <1>3 DEF Prims

(* What the end of a path does: a return to hold.                          *)
EndShape(v, w) ==
  \/ w.prim # "TRAJ" /\ v = w
  \/ w.prim = "TRAJ" /\ v.prim = "RETURN" /\ v.landAfter = FALSE /\ v.ret = 0

LEMMA TrajEndCases ==
  ASSUME NEW w \in Glue, NEW d \in 1 .. MaxDist, NEW v, v = TrajEnd(w, d)
  PROVE  v \in Glue /\ SameHolder(v, w) /\ v.path = w.path /\ v.mode = w.mode /\ EndShape(v, w)
<1>1. CASE w.prim # "TRAJ"
  BY <1>1 DEF TrajEnd, SameHolder, EndShape
<1>2. CASE w.prim = "TRAJ"
  <2>1. v = [w EXCEPT !.prim = "RETURN", !.landAfter = FALSE, !.dist = d, !.ret = 0]
    BY <1>2 DEF TrajEnd
  <2>2. d \in 0 .. MaxDist
    OBVIOUS
  <2>3. [w EXCEPT !.prim = "RETURN", !.landAfter = FALSE, !.dist = d, !.ret = 0] \in Glue
    BY <2>2, Zeros, PrimNames, SetPrim, SetFlag, SetClock, Zenon
  <2> QED
    BY <1>2, <2>1, <2>3 DEF Glue, SameHolder, EndShape
<1> QED
  BY <1>1, <1>2

(* What is left of a path that was stopped.                                *)
Stopped(v, w) ==
  /\ ~Executing(v) /\ v.mode = w.mode
  /\ \A e \in Executors : v.path[e] # "EMPTY" => w.path[e] # "EMPTY"

(* What a level that was not yet applied does.                             *)
ApplyShape(v, w) ==
  \/ w.action = KillAct /\ v.prim = "IDLE" /\ v.landAfter = FALSE
  \/ w.action # KillAct /\ w.prim = "IDLE" /\ v.prim = "IDLE" /\ v.landAfter = w.landAfter
  \/ w.action = InPlace /\ w.prim # "IDLE" /\ v.prim = "DESCEND"
  \/ /\ w.action = ViaHover /\ w.prim # "IDLE"
     /\ \/ Down(w) /\ v.prim = w.prim /\ v.landAfter = w.landAfter /\ v.ret = w.ret
        \/ /\ w.prim \in {"RETURN", "SETTLE"} /\ ~w.landAfter
           /\ v.prim = w.prim /\ v.landAfter = TRUE /\ v.ret = 0
        \/ /\ w.prim \in {"CLIMB", "HOVER", "TRAJ"}
           /\ v.prim = "RETURN" /\ v.landAfter = TRUE /\ v.ret = 0

LEMMA ApplyCases ==
  ASSUME NEW w, Sound(w), NEW in \in Readings, NEW v, v = ApplyAction(w, in)
  PROVE  /\ v \in Glue
         /\ v.gs = w.gs /\ v.takeover = w.takeover /\ v.armed = w.armed
         /\ v.action = w.action /\ v.applied = w.action
         /\ v = w \/ (w.action > w.applied /\ Stopped(v, w) /\ ApplyShape(v, w))
<1> DEFINE q == StopPath(w)
           u == [q EXCEPT !.applied = w.action, !.pending = FALSE]
<1>0. w \in Glue /\ w.action \in 0 .. 3 /\ w.applied \in 0 .. 3 /\ w.applied <= w.action
  BY GlueLevels DEF Sound, Levels
<1>1. /\ q \in Glue /\ ~Executing(q) /\ q.mode = w.mode
      /\ \A e \in Executors : q.path[e] # "EMPTY" => w.path[e] # "EMPTY"
      /\ q.prim = w.prim /\ q.gs = w.gs /\ q.armed = w.armed /\ q.takeover = w.takeover
      /\ q.landAfter = w.landAfter /\ q.ret = w.ret /\ q.action = w.action
  BY <1>0, StopPathType, StopPathFields
<1> HIDE DEF q
<1>2. u \in Glue
  BY <1>0, <1>1, Zeros, SetLevel, SetFlag, Zenon
<1>3. /\ u.path = q.path /\ u.mode = q.mode /\ u.prim = q.prim /\ u.gs = q.gs /\ u.armed = q.armed
      /\ u.takeover = q.takeover /\ u.landAfter = q.landAfter /\ u.ret = q.ret
      /\ u.action = q.action /\ u.applied = w.action
  BY <1>1 DEF Glue
<1>a. ApplyAction(w, in) =
        IF w.action <= w.applied THEN w
        ELSE IF w.action = KillAct THEN PrimOff(u)
        ELSE IF w.prim = "IDLE" THEN [u EXCEPT !.landNow = TRUE]
        ELSE IF w.action = InPlace THEN [u EXCEPT !.prim = "DESCEND"]
        ELSE PrimLand(u, in.dist)
  BY DEF ApplyAction, q
<1> HIDE DEF u
<1>4. CASE w.action <= w.applied
  <2>1. v = w /\ w.action = w.applied
    BY <1>0, <1>4, <1>a
  <2> QED
    BY <1>0, <2>1
<1>5. CASE w.action > w.applied /\ w.action = KillAct
  <2>1. v = PrimOff(u)
    BY <1>0, <1>5, <1>a
  <2>2. /\ v \in Glue /\ v.prim = "IDLE" /\ v.landAfter = FALSE /\ v.path = u.path /\ v.mode = u.mode
        /\ v.gs = u.gs /\ v.takeover = u.takeover /\ v.armed = u.armed
        /\ v.action = u.action /\ v.applied = u.applied
    BY <1>2, <2>1, PrimOffType
  <2> QED
    BY <1>1, <1>3, <1>5, <2>2 DEF Stopped, Executing, ApplyShape
<1>6. CASE w.action > w.applied /\ w.action # KillAct /\ w.prim = "IDLE"
  <2>1. v = [u EXCEPT !.landNow = TRUE]
    BY <1>0, <1>6, <1>a
  <2>2. v \in Glue
    BY <1>2, <2>1, Zeros, SetFlag, Zenon
  <2>3. /\ v.prim = u.prim /\ v.landAfter = u.landAfter /\ v.path = u.path /\ v.mode = u.mode
        /\ v.gs = u.gs /\ v.takeover = u.takeover /\ v.armed = u.armed
        /\ v.action = u.action /\ v.applied = u.applied
    BY <1>2, <2>1 DEF Glue
  <2> QED
    BY <1>1, <1>3, <1>6, <2>2, <2>3 DEF Stopped, Executing, ApplyShape
<1>7. CASE w.action > w.applied /\ w.action = InPlace /\ w.prim # "IDLE"
  <2>1. v = [u EXCEPT !.prim = "DESCEND"]
    BY <1>0, <1>7, <1>a
  <2>2. v \in Glue
    BY <1>2, <2>1, PrimNames, SetPrim, Zenon
  <2>3. /\ v.prim = "DESCEND" /\ v.path = u.path /\ v.mode = u.mode
        /\ v.gs = u.gs /\ v.takeover = u.takeover /\ v.armed = u.armed
        /\ v.action = u.action /\ v.applied = u.applied
    BY <1>2, <2>1 DEF Glue
  <2> QED
    BY <1>1, <1>3, <1>7, <2>2, <2>3 DEF Stopped, Executing, ApplyShape
<1>8. CASE w.action > w.applied /\ w.action = ViaHover /\ w.prim # "IDLE"
  <2>1. v = PrimLand(u, in.dist) /\ in.dist \in 1 .. MaxDist
    BY <1>0, <1>8, <1>a DEF Readings
  <2>2. v \in Glue /\ SameHolder(v, u) /\ v.path = u.path /\ v.mode = u.mode /\ LandCases(v, u)
    BY <1>2, <2>1, PrimLandCases
  <2>3. Stopped(v, w)
    BY <1>1, <1>3, <2>2 DEF Stopped, Executing
  <2> QED
    BY <1>1, <1>3, <1>8, <2>2, <2>3 DEF SameHolder, LandCases, ApplyShape, Down
<1> QED
  BY <1>0, <1>4, <1>5, <1>6, <1>7, <1>8

LEMMA ApplySound ==
  ASSUME NEW w, Sound(w), NEW in \in Readings, NEW v, v = ApplyAction(w, in)
  PROVE  Sound(v) /\ Rested(v)
<1>0. w \in Glue /\ w.action \in 0 .. 3 /\ w.applied \in 0 .. 3 /\ w.prim \in Prims
  BY GlueLevels DEF Sound, Glue
<1>1. /\ v \in Glue /\ v.gs = w.gs /\ v.takeover = w.takeover /\ v.armed = w.armed
      /\ v.action = w.action /\ v.applied = w.action
      /\ v = w \/ (w.action > w.applied /\ Stopped(v, w) /\ ApplyShape(v, w))
  BY ApplyCases
<1>2. CASE v = w
  BY <1>1, <1>2 DEF Rested
<1>3. CASE w.action > w.applied /\ Stopped(v, w) /\ ApplyShape(v, w)
  <2>1. \/ v.prim = "IDLE" /\ (w.action = KillAct \/ w.prim = "IDLE") /\ ~v.landAfter
        \/ v.prim = "DESCEND" /\ w.prim # "IDLE"
        \/ v.prim \in {"RETURN", "SETTLE"} /\ v.landAfter /\ v.ret <= ReturnTicks /\ w.prim # "IDLE"
    BY <1>0, <1>3 DEF ApplyShape, Sound, Claims, Down
  <2>2. Paths(v)
    BY <1>3, <2>1 DEF Sound, Paths, Stopped
  <2>3. Claims(v)
    BY <1>1, <2>1 DEF Sound, Claims, GsFlying
  <2>4. Levels(v)
    BY <1>0, <1>1, <1>3, <2>1 DEF Sound, Levels, GsFlying, Down
  <2> QED
    BY <1>1, <2>2, <2>3, <2>4 DEF Sound, Rested
<1> QED
  BY <1>1, <1>2, <1>3

LEMMA PathSound ==
  ASSUME NEW w, Sound(w), Rested(w), NEW in \in Readings, NEW v, v = PathStep(w, in)
  PROVE  Sound(v) /\ Rested(v)
<1> DEFINE t == IF w.push THEN w.pathT ELSE w.pathT + 1
<1>0. w \in Glue /\ in.dist \in 1 .. MaxDist /\ w.mode \in Executors
  BY DEF Sound, Readings, Glue
<1>1. CASE ~Executing(w)
  <2>1. v = TrajEnd(w, in.dist) /\ w.prim # "TRAJ"
    BY <1>1 DEF PathStep, Sound, Paths
  <2>2. v = w
    BY <2>1 DEF TrajEnd
  <2> QED
    BY <2>2
<1>2. CASE Executing(w) /\ w.path[w.mode] = "EXECUTING" /\ t < PathTicks
  <2>1. v = [w EXCEPT !.pathT = t]
    BY <1>2 DEF PathStep, Sound, Paths
  <2>2. t \in 0 .. PathTicks - 1
    BY <1>0, <1>2 DEF Glue
  <2>3. [w EXCEPT !.pathT = t] \in Glue
    <3> HIDE DEF t
    <3> QED
      BY <1>0, <2>2, SetClock, Zenon
  <2>4. /\ v.prim = w.prim /\ v.landAfter = w.landAfter /\ v.path = w.path /\ v.mode = w.mode
        /\ v.gs = w.gs /\ v.takeover = w.takeover /\ v.armed = w.armed /\ v.ret = w.ret
        /\ v.action = w.action /\ v.applied = w.applied
    BY <1>0, <2>1 DEF Glue
  <2> QED
    BY <2>1, <2>3, <2>4 DEF Sound, Paths, Claims, Levels, Rested, Executing, GsFlying, Down
<1>3. CASE Executing(w) /\ ~(w.path[w.mode] = "EXECUTING" /\ t < PathTicks)
  <2> DEFINE x == [w EXCEPT !.path[w.mode] = IF @ = "EXECUTING" THEN "DONE" ELSE @]
  <2>0. w.prim = "TRAJ"
    BY <1>3 DEF Sound, Paths
  <2>1. v = TrajEnd(x, in.dist)
    BY <1>3, <2>0 DEF PathStep
  <2>2. /\ x.path \in [Executors -> PathStates]
        /\ \A e \in Executors : x.path[e] # "EMPTY" => w.path[e] # "EMPTY"
        /\ \A e \in Executors : e # w.mode => x.path[e] = w.path[e]
        /\ x.path[w.mode] # "EXECUTING"
    BY <1>0 DEF Glue, PathStates
  <2>3. /\ x.prim = "TRAJ" /\ x.mode = w.mode /\ SameHolder(x, w)
    BY <1>0, <2>0 DEF Glue, SameHolder
  <2>4. x \in Glue
    <3>1. x = [w EXCEPT !.path = x.path]
      BY <1>0 DEF Glue
    <3> HIDE DEF x
    <3> QED
      BY <1>0, <2>2, <3>1, SetPath, Zenon
  <2> HIDE DEF x
  <2>5. /\ v \in Glue /\ SameHolder(v, x) /\ v.path = x.path /\ v.mode = x.mode
        /\ v.prim = "RETURN" /\ v.landAfter = FALSE /\ v.ret = 0
    <3>1. v \in Glue /\ SameHolder(v, x) /\ v.path = x.path /\ v.mode = x.mode /\ EndShape(v, x)
      BY <1>0, <2>1, <2>4, TrajEndCases
    <3> QED
      BY <2>3, <3>1 DEF EndShape
  <2>6. Paths(v)
    <3>1. ~Executing(v)
      BY <1>0, <1>3, <2>2, <2>5 DEF Sound, Paths, Executing
    <3> QED
      BY <2>2, <2>3, <2>5, <3>1 DEF Sound, Paths
  <2>7. Claims(v) /\ Rested(v)
    BY <2>0, <2>3, <2>5 DEF Sound, Claims, SameHolder, GsFlying, Rested
  <2>8. Levels(v)
    BY <2>0, <2>3, <2>5 DEF Sound, Levels, SameHolder, GsFlying, Down
  <2> QED
    BY <2>5, <2>6, <2>7, <2>8 DEF Sound
<1> QED
  BY <1>1, <1>2, <1>3

(* What the sequencer's step does to a primitive.                          *)
PrimShape(v, w) ==
  \/ /\ w.prim \in {"IDLE", "TRAJ", "DESCEND", "HOVER"} \/ (w.prim = "CLIMB" /\ v.prim = "CLIMB")
     /\ v.prim = w.prim
  \/ w.prim = "CLIMB" /\ v.prim = "HOVER"
  \/ w.prim \in {"RETURN", "SETTLE"} /\ v.prim \in {"RETURN", "SETTLE"}
     /\ (w.landAfter => v.ret = w.ret + 1 /\ v.ret <= ReturnTicks)
  \/ w.prim = "SETTLE" /\ ~w.landAfter /\ v.prim = "HOVER"
  \/ w.prim \in {"RETURN", "SETTLE"} /\ w.landAfter /\ v.prim = "DESCEND"

(* The fields the sequencer does not write.                                *)
SameFlight(v, w) ==
  SameHolder(v, w) /\ v.path = w.path /\ v.mode = w.mode /\ v.landAfter = w.landAfter

LEMMA SettledCases ==
  ASSUME NEW w \in Glue, NEW p \in Prims, NEW v, v = Settled(w, p)
  PROVE  v \in Glue /\ SameFlight(v, w) /\ v.ret = w.ret /\ v.prim \in {p, w.prim}
<1>1. CASE w.settle + 1 >= SettleTicks
  <2>1. [w EXCEPT !.prim = p, !.settle = 0] \in Glue
    BY Zeros, SetPrim, SetClock, Zenon
  <2>2. v = [w EXCEPT !.prim = p, !.settle = 0]
    BY <1>1 DEF Settled
  <2> QED
    BY <2>1, <2>2 DEF Glue, SameFlight, SameHolder
<1>2. CASE ~(w.settle + 1 >= SettleTicks)
  <2>0. w.settle + 1 \in 0 .. SettleTicks
    BY <1>2 DEF Glue
  <2>1. [w EXCEPT !.settle = w.settle + 1] \in Glue
    BY <2>0, SetClock
  <2>2. v = [w EXCEPT !.settle = w.settle + 1]
    BY <1>2 DEF Settled
  <2> QED
    BY <2>1, <2>2 DEF Glue, SameFlight, SameHolder
<1> QED
  BY <1>1, <1>2

LEMMA HomedCases ==
  ASSUME NEW w \in Glue, NEW v, v = Homed(w)
  PROVE  /\ v \in Glue /\ SameFlight(v, w)
         /\ \/ v.prim = w.prim /\ (w.landAfter => v.ret = w.ret + 1 /\ v.ret <= ReturnTicks)
            \/ w.landAfter /\ v.prim = "DESCEND"
<1> DEFINE r == Least(w.ret + 1, ReturnTicks + 1)
           x == [w EXCEPT !.ret = r]
<1>1. r \in 0 .. ReturnTicks + 1 /\ (r <= ReturnTicks => r = w.ret + 1)
  BY DEF Glue, Least
<1>2. /\ x.ret = r /\ x.prim = w.prim /\ SameFlight(x, w)
  BY DEF Glue, SameFlight, SameHolder
<1>3. v = IF x.landAfter /\ x.ret > ReturnTicks THEN [x EXCEPT !.prim = "DESCEND"] ELSE x
  BY DEF Homed
<1>4. x \in Glue
  <2> HIDE DEF r
  <2> QED
    BY <1>1, SetClock, Zenon
<1> HIDE DEF x
<1>5. CASE x.landAfter /\ x.ret > ReturnTicks
  <2>1. [x EXCEPT !.prim = "DESCEND"] \in Glue
    BY <1>4, PrimNames, SetPrim, Zenon
  <2>2. v = [x EXCEPT !.prim = "DESCEND"]
    BY <1>3, <1>5
  <2>3. v.prim = "DESCEND" /\ v.ret = x.ret /\ SameFlight(v, x)
    BY <1>4, <2>2 DEF Glue, SameFlight, SameHolder
  <2> QED
    BY <1>2, <1>5, <2>1, <2>2, <2>3 DEF SameFlight, SameHolder
<1>6. CASE ~(x.landAfter /\ x.ret > ReturnTicks)
  <2>1. v = x
    BY <1>3, <1>6
  <2> QED
    BY <1>1, <1>2, <1>4, <1>6, <2>1 DEF SameFlight
<1> QED
  BY <1>5, <1>6

LEMMA PrimCases ==
  ASSUME NEW w, Sound(w), NEW in \in Readings, NEW v, v = PrimStep(w, in)
  PROVE  v \in Glue /\ SameFlight(v, w) /\ PrimShape(v, w)
<1>0. w \in Glue /\ w.prim \in Prims
  BY DEF Sound, Glue
<1> USE DEF SameFlight, SameHolder, PrimShape
<1>1. CASE w.prim = "CLIMB"
  <2>1. CASE in.settled
    <3> DEFINE next == "HOVER"
    <3>1. v = Settled(w, next) /\ next \in Prims
      BY <1>1, <2>1, PrimNames DEF PrimStep
    <3> HIDE DEF next
    <3>2. v \in Glue /\ SameFlight(v, w) /\ v.prim \in {next, w.prim}
      BY <1>0, <3>1, SettledCases
    <3> QED
      BY <1>1, <3>2 DEF next
  <2>2. CASE ~in.settled
    <3>1. v = [w EXCEPT !.settle = 0]
      BY <1>1, <2>2 DEF PrimStep
    <3>2. [w EXCEPT !.settle = 0] \in Glue
      BY <1>0, Zeros, SetClock
    <3> QED
      BY <1>0, <1>1, <3>1, <3>2 DEF Glue
  <2> QED
    BY <2>1, <2>2
<1>2. CASE w.prim = "RETURN"
  <2> DEFINE x == IF w.dist <= 1 THEN [w EXCEPT !.dist = 0, !.prim = "SETTLE", !.settle = 0]
                  ELSE [w EXCEPT !.dist = @ - 1]
  <2>1. v = Homed(x)
    BY <1>2 DEF PrimStep
  <2>2. x \in Glue /\ SameFlight(x, w) /\ x.ret = w.ret /\ x.prim \in {"RETURN", "SETTLE"}
    <3>1. CASE w.dist <= 1
      <4>1. [w EXCEPT !.dist = 0, !.prim = "SETTLE", !.settle = 0] \in Glue
        BY <1>0, Zeros, PrimNames, SetPrim, SetClock, Zenon
      <4> QED
        BY <1>0, <3>1, <4>1 DEF Glue
    <3>2. CASE ~(w.dist <= 1)
      <4>1. w.dist - 1 \in 0 .. MaxDist
        BY <1>0, <3>2 DEF Glue
      <4>2. [w EXCEPT !.dist = w.dist - 1] \in Glue
        BY <1>0, <4>1, SetClock
      <4>3. x = [w EXCEPT !.dist = w.dist - 1]
        BY <3>2
      <4> HIDE DEF x
      <4> QED
        BY <1>0, <1>2, <4>2, <4>3 DEF Glue
    <3> QED
      BY <3>1, <3>2
  <2> HIDE DEF x
  <2>3. v \in Glue /\ SameFlight(v, x)
        /\ \/ v.prim = x.prim /\ (x.landAfter => v.ret = x.ret + 1 /\ v.ret <= ReturnTicks)
           \/ x.landAfter /\ v.prim = "DESCEND"
    BY <2>1, <2>2, HomedCases
  <2> QED
    BY <1>2, <2>2, <2>3
<1>3. CASE w.prim = "SETTLE"
  <2> DEFINE next == IF w.landAfter THEN "DESCEND" ELSE "HOVER"
             x == IF in.settled THEN Settled(w, next) ELSE [w EXCEPT !.settle = 0]
  <2>1. v = Homed(x)
    BY <1>3 DEF PrimStep
  <2>2. x \in Glue /\ SameFlight(x, w) /\ x.ret = w.ret /\ x.prim \in {next, "SETTLE"}
    <3>1. CASE in.settled
      <4>1. next \in Prims
        BY PrimNames
      <4>2. x = Settled(w, next)
        BY <3>1
      <4> HIDE DEF next
      <4> QED
        BY <1>0, <1>3, <4>1, <4>2, SettledCases
    <3>2. CASE ~in.settled
      <4>1. [w EXCEPT !.settle = 0] \in Glue
        BY <1>0, Zeros, SetClock
      <4> QED
        BY <1>0, <1>3, <3>2, <4>1 DEF Glue
    <3> QED
      BY <3>1, <3>2
  <2> HIDE DEF x
  <2>3. v \in Glue /\ SameFlight(v, x)
        /\ \/ v.prim = x.prim /\ (x.landAfter => v.ret = x.ret + 1 /\ v.ret <= ReturnTicks)
           \/ x.landAfter /\ v.prim = "DESCEND"
    BY <2>1, <2>2, HomedCases
  <2> QED
    BY <1>3, <2>2, <2>3
<1>4. CASE w.prim \in {"IDLE", "TRAJ", "DESCEND", "HOVER"}
  BY <1>0, <1>4 DEF PrimStep
<1> QED
  BY <1>0, <1>1, <1>2, <1>3, <1>4 DEF Prims

LEMMA PrimSound ==
  ASSUME NEW w, Sound(w), Rested(w), NEW in \in Readings, NEW v, v = PrimStep(w, in)
  PROVE  Sound(v) /\ Rested(v)
<1>0. w \in Glue /\ w.prim \in Prims
  BY DEF Sound, Glue
<1>1. v \in Glue /\ SameFlight(v, w) /\ PrimShape(v, w)
  BY PrimCases
<1>2. Paths(v)
  BY <1>1 DEF Sound, Paths, SameFlight, PrimShape, Executing
<1>3. Claims(v)
  BY <1>1 DEF Sound, Claims, SameFlight, SameHolder, PrimShape, GsFlying
<1>4. Levels(v)
  BY <1>1 DEF Sound, Levels, Claims, SameFlight, SameHolder, PrimShape, GsFlying, Down
<1> QED
  BY <1>1, <1>2, <1>3, <1>4 DEF Sound, Rested, SameFlight, SameHolder

LEMMA TickedSound ==
  ASSUME Sound(wfb), Rested(wfb), NEW in \in Inputs
  PROVE  Sound(Ticked(wfb, in)) /\ Rested(Ticked(wfb, in))
<1> DEFINE a == Sampled(wfb, in)
           b == PilotTakeOver(a, in)
           c == SafetyStep(b, in)
           d == ApplyAction(c, in)
           e == PathStep(d, in)
<1>0. in \in Readings
  BY InputsAreReadings
<1>1. Sound(a) /\ Rested(a)
  BY <1>0, SampledSound
<1> HIDE DEF a
<1>2. Sound(b) /\ Rested(b)
  BY <1>0, <1>1, TakeOverSound
<1> HIDE DEF b
<1>3. Sound(c)
  BY <1>0, <1>2, SafetySound
<1> HIDE DEF c
<1>4. Sound(d) /\ Rested(d)
  BY <1>0, <1>3, ApplySound
<1> HIDE DEF d
<1>5. Sound(e) /\ Rested(e)
  BY <1>0, <1>4, PathSound
<1> HIDE DEF e
<1>6. Sound(PrimStep(e, in)) /\ Rested(PrimStep(e, in))
  BY <1>0, <1>5, PrimSound
<1> QED
  BY <1>6 DEF Ticked, a, b, c, d, e

-----------------------------------------------------------------------------
(* The steps.                                                              *)

LEMMA TickStepInv == IInv /\ TickStep => IInv'
<1> SUFFICES ASSUME IInv, NEW in \in Inputs, Tick(in) PROVE IInv'
  BY DEF TickStep
<1> DEFINE w == Ticked(wfb, in)
<1>1. Sound(w) /\ Rested(w)
  BY TickedSound DEF IInv
<1>2. wfb' = [w EXCEPT !.pending = FALSE] /\ out' = Request(w, in)
  BY DEF Tick
<1> HIDE DEF w
<1>3. w \in Glue
  BY <1>1 DEF Sound
<1>4. [w EXCEPT !.pending = FALSE] \in Glue
  BY <1>3, Zeros, SetFlag, Zenon
<1>5. /\ wfb'.prim = w.prim /\ SameFlight(wfb', w) /\ wfb'.ret = w.ret
  BY <1>2, <1>3 DEF Glue, SameFlight, SameHolder
<1>6. Sound(wfb') /\ Rested(wfb')
  BY <1>1, <1>2, <1>4, <1>5 DEF Sound, Rested, Paths, Claims, Levels, SameFlight, SameHolder,
     Executing, GsFlying, Down
<1>7. out' \in Requests
  BY <1>2 DEF Request, Requests
<1>8. stage' \in Vehicle!Stages
  BY DEF Tick, IInv, Vehicle!Stages
<1>9. wfb'.takeover => out' \in {"none", "land", "stop"}
  <2>1. w.takeover => w.prim = "IDLE"
    BY <1>1 DEF Sound, Claims, GsFlying
  <2>2. w.takeover => Request(w, in) \in {"none", "land", "stop"}
    BY <2>1 DEF Request
  <2> QED
    BY <1>2, <1>5, <2>2 DEF SameFlight, SameHolder
<1> QED
  BY <1>6, <1>7, <1>8, <1>9 DEF IInv

LEMMA VehicleStepInv == IInv /\ VehicleStep => IInv'
<1> SUFFICES ASSUME IInv, VehicleStep PROVE IInv'
  OBVIOUS
<1>1. stage' \in Vehicle!Stages
  BY DEF VehicleStep, Vehicle!Next, Vehicle!Move, Vehicle!Arm, Vehicle!EnableIdle,
     Vehicle!DisableIdle, Vehicle!TakeOff, Vehicle!Land, Vehicle!Disarm, Vehicle!Stop,
     Vehicle!Recover, Vehicle!LateIdle, Vehicle!Stages
<1>2. UNCHANGED <<wfb, out>>
  BY DEF VehicleStep
<1> QED
  BY <1>1, <1>2 DEF IInv

LEMMA AcceptsInv ==
  ASSUME NEW w
  PROVE  IInv /\ Accepts(w) /\ Sound(w) /\ Rested(w) /\ w.takeover = wfb.takeover => IInv'
  BY DEF IInv, Accepts

LEMMA TakeoffInv == IInv /\ Takeoff => IInv'
<1> SUFFICES ASSUME IInv, Takeoff PROVE IInv'
  OBVIOUS
<1> DEFINE v == [wfb EXCEPT !.prim = "CLIMB", !.settle = 0, !.gs = TRUE, !.pending = TRUE, !.hb = 0]
<1>0. wfb \in Glue /\ wfb.applied \in 0 .. 3
  BY GlueLevels DEF IInv, Sound
<1>1. /\ Accepts(v) /\ wfb.armed /\ ~wfb.takeover /\ wfb.action = NoAction /\ wfb.prim = "IDLE"
  BY DEF Takeoff
<1>2. v \in Glue
  BY <1>0, Zeros, PrimNames, SetPrim, SetClock, SetFlag, Zenon
<1>3. /\ v.prim = "CLIMB" /\ v.gs = TRUE /\ v.armed = wfb.armed /\ v.takeover = wfb.takeover
      /\ v.landAfter = wfb.landAfter /\ v.path = wfb.path /\ v.mode = wfb.mode
      /\ v.action = wfb.action /\ v.applied = wfb.applied
  BY <1>0 DEF Glue
<1> HIDE DEF v
<1>4. Paths(v)
  BY <1>1, <1>3 DEF IInv, Sound, Paths, Executing
<1>5. Claims(v)
  BY <1>1, <1>3 DEF IInv, Sound, Claims, GsFlying
<1>6. Levels(v) /\ Rested(v)
  <2>1. v.action = 0 /\ v.applied = 0 /\ v.prim # "IDLE"
    BY <1>1, <1>3 DEF IInv, Rested
  <2> QED
    BY <2>1 DEF Levels, Rested
<1> QED
  BY <1>1, <1>2, <1>3, <1>4, <1>5, <1>6, AcceptsInv DEF Sound

LEMMA GlueLandSound ==
  ASSUME NEW w, Sound(w), Rested(w), NEW d \in 1 .. MaxDist, NEW v, v = GlueLand(w, d)
  PROVE  Sound(v) /\ Rested(v) /\ v.takeover = w.takeover
<1> DEFINE q == StopPath(w)
<1>0. w \in Glue /\ w.prim \in Prims
  BY DEF Sound, Glue
<1>1. /\ q \in Glue /\ ~Executing(q) /\ q.mode = w.mode /\ SameHolder(q, w)
      /\ \A e \in Executors : q.path[e] # "EMPTY" => w.path[e] # "EMPTY"
      /\ q.prim = w.prim /\ q.landAfter = w.landAfter /\ q.ret = w.ret
  BY <1>0, StopPathType, StopPathFields DEF SameHolder
<1>2. v = IF w.prim = "IDLE" THEN [q EXCEPT !.landNow = TRUE] ELSE PrimLand(q, d)
  BY DEF GlueLand
<1> HIDE DEF q
<1>3. CASE w.prim = "IDLE"
  <2>1. [q EXCEPT !.landNow = TRUE] \in Glue
    BY <1>1, Zeros, SetFlag, Zenon
  <2>2. v = [q EXCEPT !.landNow = TRUE]
    BY <1>2, <1>3
  <2>3. SameFlight(v, q) /\ v.prim = q.prim
    BY <1>1, <2>2 DEF Glue, SameFlight, SameHolder
  <2>4. Paths(v) /\ Claims(v) /\ Levels(v) /\ Rested(v)
    BY <1>1, <1>3, <2>3 DEF Sound, Paths, Claims, Levels, Rested, SameFlight, SameHolder, Executing,
       GsFlying, Down
  <2> QED
    BY <1>1, <2>1, <2>2, <2>3, <2>4 DEF Sound, SameFlight, SameHolder
<1>4. CASE w.prim # "IDLE"
  <2>1. v \in Glue /\ SameHolder(v, q) /\ v.path = q.path /\ v.mode = q.mode /\ LandCases(v, q)
    BY <1>1, <1>2, <1>4, PrimLandCases
  <2>2. /\ v.prim \in {"RETURN", "SETTLE", "DESCEND"} /\ (v.prim = "DESCEND" \/ v.landAfter)
        /\ v.prim \in {"RETURN", "SETTLE"} => v.ret <= ReturnTicks
    BY <1>0, <1>1, <1>4, <2>1 DEF LandCases, Prims, Sound, Claims
  <2>3. Paths(v) /\ Claims(v) /\ Levels(v) /\ Rested(v)
    BY <1>1, <1>4, <2>1, <2>2 DEF Sound, Paths, Claims, Levels, Rested, SameHolder, Executing,
       GsFlying, Down
  <2> QED
    BY <1>1, <2>1, <2>3 DEF Sound, SameHolder
<1> QED
  BY <1>3, <1>4

LEMMA LandInv == IInv /\ (Land \/ RcLand) => IInv'
<1> SUFFICES ASSUME IInv, NEW d \in 1 .. MaxDist, Accepts(GlueLand(wfb, d)) PROVE IInv'
  BY DEF Land, RcLand
<1> DEFINE v == GlueLand(wfb, d)
<1>1. Sound(v) /\ Rested(v) /\ v.takeover = wfb.takeover
  BY GlueLandSound DEF IInv
<1> HIDE DEF v
<1>2. Accepts(v)
  BY DEF v
<1> QED
  BY <1>1, <1>2, AcceptsInv

LEMMA HeartbeatInv == IInv /\ Heartbeat => IInv'
<1> SUFFICES ASSUME IInv, Heartbeat PROVE IInv'
  OBVIOUS
<1> DEFINE v == [wfb EXCEPT !.hb = 0]
<1>0. wfb \in Glue
  BY DEF IInv, Sound
<1>1. v \in Glue
  BY <1>0, Zeros, SetClock
<1>2. v.prim = wfb.prim /\ SameFlight(v, wfb) /\ v.ret = wfb.ret
  BY <1>0 DEF Glue, SameFlight, SameHolder
<1>3. Accepts(v)
  BY DEF Heartbeat
<1> HIDE DEF v
<1>4. Paths(v) /\ Claims(v) /\ Levels(v) /\ Rested(v)
  BY <1>2 DEF IInv, Sound, Paths, Claims, Levels, Rested, SameFlight, SameHolder, Executing,
     GsFlying, Down
<1> QED
  BY <1>1, <1>2, <1>3, <1>4, AcceptsInv DEF Sound, SameFlight, SameHolder

(* An upload command only writes states of the path that do not run.       *)
LEMMA UploadInv ==
  ASSUME NEW p \in [Executors -> PathStates], NEW m \in Executors,
         \A x \in Executors : p[x] # "EMPTY" => x = m,
         \A x \in Executors : p[x] = "EXECUTING" <=> wfb.path[x] = "EXECUTING"
  PROVE  IInv /\ Accepts([wfb EXCEPT !.mode = m, !.path = p]) => IInv'
<1> DEFINE v == [wfb EXCEPT !.mode = m, !.path = p]
<1> SUFFICES ASSUME IInv, Accepts(v) PROVE IInv'
  OBVIOUS
<1>0. wfb \in Glue
  BY DEF IInv, Sound
<1>1. v \in Glue
  BY <1>0, SetPath, Zenon
<1>2. /\ v.prim = wfb.prim /\ SameHolder(v, wfb) /\ v.ret = wfb.ret /\ v.landAfter = wfb.landAfter
      /\ v.path = p /\ v.mode = m
  BY <1>0 DEF Glue, SameHolder
<1> HIDE DEF v
<1>3. Paths(v)
  BY <1>2 DEF IInv, Sound, Paths, Executing
<1>4. Claims(v) /\ Levels(v) /\ Rested(v)
  BY <1>2 DEF IInv, Sound, Claims, Levels, Rested, SameHolder, GsFlying, Down
<1> QED
  BY <1>1, <1>2, <1>3, <1>4, AcceptsInv DEF Sound, SameHolder

LEMMA BeginInv == ASSUME NEW e \in Executors PROVE IInv /\ Begin(e) => IInv'
<1> SUFFICES ASSUME IInv, Begin(e) PROVE IInv'
  OBVIOUS
<1> DEFINE p == [x \in Executors |-> IF x = e THEN "LOADING" ELSE "EMPTY"]
<1>0. wfb \in Glue /\ \A x \in Executors : wfb.path[x] # "EXECUTING"
  BY DEF IInv, Sound, Begin, Executing
<1>1. p \in [Executors -> PathStates]
  BY DEF PathStates
<1>2. /\ \A x \in Executors : p[x] # "EMPTY" => x = e
      /\ \A x \in Executors : p[x] = "EXECUTING" <=> wfb.path[x] = "EXECUTING"
  BY <1>0
<1>3. Accepts([wfb EXCEPT !.mode = e, !.path = p])
  BY DEF Begin
<1> HIDE DEF p
<1> QED
  BY <1>1, <1>2, <1>3, UploadInv

(* One executor's state changes, the upload in use stays.                  *)
LEMMA OnePathInv ==
  ASSUME NEW e \in Executors, NEW st \in PathStates, st # "EXECUTING",
         IInv, wfb.path[e] # "EXECUTING", st # "EMPTY" => wfb.path[e] # "EMPTY",
         Accepts([wfb EXCEPT !.path[e] = st])
  PROVE  IInv'
<1> DEFINE p == [wfb.path EXCEPT ![e] = st]
<1>0. wfb \in Glue /\ wfb.path \in [Executors -> PathStates] /\ wfb.mode \in Executors
      /\ \A x \in Executors : wfb.path[x] # "EMPTY" => x = wfb.mode
  BY DEF IInv, Sound, Paths, Glue
<1>1. p \in [Executors -> PathStates]
  BY <1>0
<1>2. /\ \A x \in Executors : p[x] # "EMPTY" => x = wfb.mode
      /\ \A x \in Executors : p[x] = "EXECUTING" <=> wfb.path[x] = "EXECUTING"
  BY <1>0
<1>3. [wfb EXCEPT !.path[e] = st] = [wfb EXCEPT !.mode = wfb.mode, !.path = p]
  BY <1>0 DEF Glue
<1>4. Accepts([wfb EXCEPT !.mode = wfb.mode, !.path = p])
  BY <1>3
<1> HIDE DEF p
<1> QED
  BY <1>0, <1>1, <1>2, <1>4, UploadInv

LEMMA CommitInv == ASSUME NEW e \in Executors PROVE IInv /\ Commit(e) => IInv'
<1> SUFFICES ASSUME IInv, wfb.path[e] = "LOADING", NEW st \in {"READY", "EMPTY"},
                    Accepts([wfb EXCEPT !.path[e] = st])
             PROVE  IInv'
  BY DEF Commit
<1>1. st \in PathStates
  BY DEF PathStates
<1> QED
  BY <1>1, OnePathInv

LEMMA ClearInv == ASSUME NEW e \in Executors PROVE IInv /\ Clear(e) => IInv'
<1> SUFFICES ASSUME IInv, Clear(e) PROVE IInv'
  OBVIOUS
<1> DEFINE st == "EMPTY"
<1>1. /\ st \in PathStates /\ st # "EXECUTING" /\ ~(st # "EMPTY")
      /\ wfb.path[e] # "EXECUTING" /\ Accepts([wfb EXCEPT !.path[e] = st])
  BY DEF Clear, PathStates
<1> HIDE DEF st
<1> QED
  BY <1>1, OnePathInv

LEMMA StartInv == IInv /\ Start => IInv'
<1> SUFFICES ASSUME IInv, Start PROVE IInv'
  OBVIOUS
<1> DEFINE p == [wfb.path EXCEPT ![wfb.mode] = "EXECUTING"]
           v == [wfb EXCEPT !.path = p, !.prim = "TRAJ", !.pathT = 0]
<1>0. wfb \in Glue /\ wfb.mode \in Executors /\ wfb.path \in [Executors -> PathStates]
  BY DEF IInv, Sound, Glue
<1>1. p \in [Executors -> PathStates] /\ p[wfb.mode] = "EXECUTING"
      /\ \A x \in Executors : p[x] # "EMPTY" => wfb.path[x] # "EMPTY" \/ x = wfb.mode
  BY <1>0 DEF PathStates
<1>2. Accepts(v) /\ wfb.prim = "HOVER"
  <2>1. [wfb EXCEPT !.path[wfb.mode] = "EXECUTING", !.prim = "TRAJ", !.pathT = 0] = v
    BY <1>0 DEF Glue
  <2> QED
    BY <2>1 DEF Start
<1> HIDE DEF p
<1>3. v \in Glue
  BY <1>0, <1>1, Zeros, PrimNames, SetPath, SetPrim, SetClock, Zenon
<1>4. v.prim = "TRAJ" /\ SameHolder(v, wfb) /\ v.landAfter = wfb.landAfter /\ v.path = p
      /\ v.mode = wfb.mode
  BY <1>0 DEF Glue, SameHolder
<1> HIDE DEF v
<1>5. Paths(v)
  BY <1>0, <1>1, <1>4 DEF IInv, Sound, Paths, Executing
<1>6. Claims(v) /\ Levels(v) /\ Rested(v)
  BY <1>2, <1>4 DEF IInv, Sound, Claims, Levels, Rested, SameHolder, GsFlying, Down
<1> QED
  BY <1>2, <1>3, <1>4, <1>5, <1>6, AcceptsInv DEF Sound, SameHolder

LEMMA StopCmdInv == IInv /\ StopCmd => IInv'
<1> SUFFICES ASSUME IInv, wfb.path[wfb.mode] = "EXECUTING", NEW d \in 1 .. MaxDist,
                    Accepts(TrajEnd([wfb EXCEPT !.path[wfb.mode] = "READY"], d))
             PROVE  IInv'
  BY DEF StopCmd
<1> DEFINE p == [wfb.path EXCEPT ![wfb.mode] = "READY"]
           x == [wfb EXCEPT !.path = p]
           v == TrajEnd(x, d)
<1>0. wfb \in Glue /\ wfb.mode \in Executors /\ wfb.path \in [Executors -> PathStates]
      /\ wfb.prim = "TRAJ"
  BY DEF IInv, Sound, Glue, Paths, Executing
<1>1. p \in [Executors -> PathStates] /\ (\A e \in Executors : p[e] # "EXECUTING")
      /\ \A e \in Executors : p[e] # "EMPTY" => e = wfb.mode
  BY <1>0 DEF PathStates, IInv, Sound, Paths
<1>2. Accepts(v)
  <2>1. [wfb EXCEPT !.path[wfb.mode] = "READY"] = x
    BY <1>0 DEF Glue
  <2> QED
    BY <2>1
<1> HIDE DEF p
<1>3. x \in Glue
  BY <1>0, <1>1, SetPath, Zenon
<1>4. x.prim = "TRAJ" /\ SameHolder(x, wfb) /\ x.path = p /\ x.mode = wfb.mode
  BY <1>0 DEF Glue, SameHolder
<1> HIDE DEF x
<1>5. v \in Glue /\ SameHolder(v, x) /\ v.path = x.path /\ v.mode = x.mode /\ EndShape(v, x)
  BY <1>3, TrajEndCases
<1> HIDE DEF v
<1>6. v.prim = "RETURN" /\ v.landAfter = FALSE
  BY <1>4, <1>5 DEF EndShape
<1>7. Paths(v)
  BY <1>1, <1>4, <1>5, <1>6 DEF Paths, Executing
<1>8. Claims(v) /\ Levels(v) /\ Rested(v)
  BY <1>0, <1>4, <1>5, <1>6 DEF IInv, Sound, Claims, Levels, Rested, SameHolder, GsFlying, Down
<1> QED
  BY <1>2, <1>4, <1>5, <1>7, <1>8, AcceptsInv DEF Sound, SameHolder

LEMMA InitInv == Init => IInv
<1> SUFFICES ASSUME Init PROVE IInv
  OBVIOUS
<1>1. stage \in Vehicle!Stages /\ out \in Requests
  BY DEF Init, Vehicle!Init, Vehicle!Stages, Requests
<1>2. wfb \in Glue
  BY DEF Init, Glue, Prims, PathStates, Executors
<1>3. /\ wfb.gs = FALSE /\ wfb.takeover = FALSE /\ wfb.prim = "IDLE" /\ wfb.landAfter = FALSE
      /\ wfb.action = 0 /\ wfb.applied = 0 /\ wfb.path = [e \in Executors |-> "EMPTY"]
  BY DEF Init
<1>4. Paths(wfb) /\ Claims(wfb) /\ Levels(wfb) /\ Rested(wfb)
  BY <1>3 DEF Paths, Claims, Levels, Rested, Executing, GsFlying
<1> QED
  BY <1>1, <1>2, <1>3, <1>4 DEF IInv, Sound

LEMMA Invariant == Spec => []IInv
<1>1. IInv /\ UNCHANGED vars => IInv'
  BY DEF IInv, vars
<1>2. IInv /\ [Next]_vars => IInv'
  BY <1>1, TickStepInv, VehicleStepInv, TakeoffInv, LandInv, HeartbeatInv, BeginInv, CommitInv,
     ClearInv, StartInv, StopCmdInv DEF Next, Command
<1> QED
  BY <1>2, InitInv, PTL DEF Spec

-----------------------------------------------------------------------------
(* The glue's record keeps its types for every length of its clocks: each  *)
(* counter of wfb_glue.c, wfb_prim.c and wfb_safety.c stays in its range,  *)
(* and the path's clock never reaches its end while it is sampled.         *)
THEOREM TypeCorrect == Spec => []TypeOK
<1>1. IInv => TypeOK
  BY DEF IInv, TypeOK, Sound
<1> QED
  BY <1>1, Invariant, PTL

(* A path runs exactly while the sequencer flies it, and the points and    *)
(* the program never both hold the buffer they share, for every sequence   *)
(* of uploads, starts, stops, landings and disarms.                        *)
THEOREM PathInStep == Spec => []OnePathInStep
<1>1. IInv => OnePathInStep
  BY DEF IInv, Sound, Paths, OnePathInStep
<1> QED
  BY <1>1, Invariant, PTL

(* A claim is on an armed vehicle, no primitive runs without one, and what *)
(* the pilot took over the glue neither steers nor flies again.            *)
THEOREM ClaimSound == Spec => []ClaimIsSound
<1>1. IInv => ClaimIsSound
  BY DEF IInv, Sound, Claims, ClaimIsSound
<1> QED
  BY <1>1, Invariant, PTL

(* Once the safety net has tripped, the flight is on its way down whatever *)
(* is commanded, until the pilot takes it, it is stopped or disarmed.      *)
THEOREM TrippedDescends == Spec => []TrippedGoesDown
<1>1. IInv => TrippedGoesDown
  BY DEF IInv, Sound, Levels, Rested, Down, TrippedGoesDown
<1> QED
  BY <1>1, Invariant, PTL

-----------------------------------------------------------------------------
(* WfbFlight implements GsClaim: what each operator of a tick, and each    *)
(* command, does to the claim a record stands for.                         *)

ClaimIn(w) == IF ~w.gs THEN "none"
              ELSE IF w.takeover THEN "pilot"
              ELSE IF w.prim = "IDLE" THEN "stopped"
              ELSE IF w.prim = "DESCEND" THEN "landing"
              ELSE IF w.prim \in {"RETURN", "SETTLE"} /\ w.landAfter THEN "homing"
              ELSE "auto"
ClockIn(w) == IF ClaimIn(w) = "homing" THEN w.ret ELSE 0

LEMMA ClaimMeans ==
  ASSUME NEW w
  PROVE  /\ ClaimIn(w) \in {"none", "pilot", "stopped", "landing", "homing", "auto"}
         /\ ClaimIn(w) = "none" <=> ~w.gs
         /\ ClaimIn(w) = "pilot" <=> w.gs /\ w.takeover
         /\ ClaimIn(w) = "stopped" <=> GsFlying(w) /\ w.prim = "IDLE"
         /\ ClaimIn(w) = "landing" <=> GsFlying(w) /\ w.prim = "DESCEND"
         /\ ClaimIn(w) = "homing" <=>
              GsFlying(w) /\ w.prim \in {"RETURN", "SETTLE"} /\ w.landAfter
  BY DEF ClaimIn, GsFlying

(* The same claim and clock.                                               *)
Holds(v, w) == ClaimIn(v) = ClaimIn(w) /\ ClockIn(v) = ClockIn(w)

LEMMA SameHolds ==
  ASSUME NEW v, NEW w, v.gs = w.gs, v.takeover = w.takeover, v.prim = w.prim,
         v.landAfter = w.landAfter, v.ret = w.ret
  PROVE  Holds(v, w)
  BY DEF Holds, ClaimIn, ClockIn, GsFlying

LEMMA SampledClaim ==
  ASSUME Sound(wfb), NEW in \in Readings, NEW v, v = Sampled(wfb, in)
  PROVE  Holds(v, wfb) \/ ClaimIn(v) = "none"
<1> DEFINE armed == stage \in Vehicle!Armed
           u == IF wfb.armed /\ ~armed THEN Disarmed(wfb) ELSE wfb
<1>1. u \in Glue /\ (u = wfb \/ u.gs = FALSE)
  BY DisarmedSound DEF Sound
<1>2. v.gs = u.gs /\ v.takeover = u.takeover /\ v.prim = u.prim /\ v.landAfter = u.landAfter
      /\ v.ret = u.ret
  BY <1>1 DEF Sampled, Glue
<1> HIDE DEF u
<1>3. CASE u = wfb
  BY <1>2, <1>3, SameHolds
<1>4. CASE u.gs = FALSE
  BY <1>2, <1>4, ClaimMeans
<1> QED
  BY <1>1, <1>3, <1>4

LEMMA TakeOverClaim ==
  ASSUME NEW w, Sound(w), NEW in \in Readings, NEW v, v = PilotTakeOver(w, in)
  PROVE  Holds(v, w) \/ (ClaimIn(v) = "pilot" /\ ClaimIn(w) \notin {"none", "pilot"})
<1> DEFINE p == PrimOff(StopPath(w))
           u == [p EXCEPT !.pending = FALSE, !.takeover = TRUE]
<1>1. CASE ~(in.rc /\ GsFlying(w))
  BY <1>1 DEF PilotTakeOver, Holds
<1>2. CASE in.rc /\ GsFlying(w)
  <2>1. p \in Glue /\ p.gs = w.gs
    BY Grounded DEF Sound
  <2>2. v = u
    BY <1>2 DEF PilotTakeOver
  <2> HIDE DEF p
  <2>3. u.gs = p.gs /\ u.takeover = TRUE
    BY <2>1 DEF Glue
  <2> HIDE DEF u
  <2>4. ClaimIn(v) = "pilot"
    BY <1>2, <2>1, <2>2, <2>3, ClaimMeans DEF GsFlying
  <2>5. ClaimIn(w) \notin {"none", "pilot"}
    BY <1>2, ClaimMeans DEF GsFlying
  <2> QED
    BY <2>4, <2>5
<1> QED
  BY <1>1, <1>2

LEMMA SafetyClaim ==
  ASSUME NEW w, Sound(w), NEW in \in Readings, NEW v, v = SafetyStep(w, in)
  PROVE  Holds(v, w)
<1>0. w \in Glue
  BY DEF Sound
<1>1. v.gs = w.gs /\ v.takeover = w.takeover /\ v.prim = w.prim /\ v.landAfter = w.landAfter
      /\ v.ret = w.ret
  <2>1. CASE w.gs /\ w.air
    BY <1>0, <2>1 DEF SafetyStep, Glue
  <2>2. CASE ~(w.gs /\ w.air)
    BY <1>0, <2>2 DEF SafetyStep, Glue
  <2> QED
    BY <2>1, <2>2
<1> QED
  BY <1>1, SameHolds

(* What a safety level, a landing or a stop makes of a claim.              *)
Trips(v, w) ==
  \/ ClaimIn(w) = "auto" /\ ClaimIn(v) = "homing" /\ v.ret = 0
  \/ ClaimIn(w) \in {"auto", "homing"} /\ ClaimIn(v) = "landing"
  \/ ClaimIn(w) \in {"auto", "homing", "landing"} /\ ClaimIn(v) = "stopped"

LEMMA ApplyClaim ==
  ASSUME NEW w, Sound(w), NEW in \in Readings, NEW v, v = ApplyAction(w, in)
  PROVE  Holds(v, w) \/ Trips(v, w)
<1>0. w \in Glue /\ w.prim \in Prims /\ w.action \in 0 .. 3 /\ w.applied \in 0 .. 3
  BY GlueLevels DEF Sound, Glue
<1>1. /\ v.gs = w.gs /\ v.takeover = w.takeover
      /\ v = w \/ (w.action > w.applied /\ Stopped(v, w) /\ ApplyShape(v, w))
  BY ApplyCases
<1>2. CASE v = w
  BY <1>2 DEF Holds
<1>3. CASE w.action > w.applied /\ ApplyShape(v, w)
  <2>0. w.gs
    BY <1>0, <1>3 DEF Sound, Levels
  <2>1. CASE w.takeover
    <3>1. ClaimIn(v) = "pilot" /\ ClaimIn(w) = "pilot"
      BY <1>1, <2>0, <2>1, ClaimMeans
    <3> QED
      BY <3>1 DEF Holds, ClockIn
  <2>2. CASE ~w.takeover
    <3>0. GsFlying(w) /\ GsFlying(v) /\ w.prim # "IDLE"
      BY <1>0, <1>1, <1>3, <2>0, <2>2 DEF GsFlying, Sound, Levels
    <3>1. CASE v.prim = "IDLE"
      <4>1. ClaimIn(v) = "stopped" /\ ClaimIn(w) \in {"auto", "homing", "landing"}
        BY <3>0, <3>1, ClaimMeans DEF GsFlying
      <4> QED
        BY <4>1 DEF Trips
    <3>2. CASE v.prim = "DESCEND"
      <4>1. ClaimIn(v) = "landing" /\ ClaimIn(w) \in {"auto", "homing", "landing"}
        BY <3>0, <3>2, ClaimMeans DEF GsFlying
      <4> QED
        BY <4>1 DEF Trips, Holds, ClockIn
    <3>3. CASE /\ v.prim \in {"RETURN", "SETTLE"} /\ v.landAfter = TRUE /\ v.ret = 0
               /\ w.prim # "DESCEND" /\ (w.prim \in {"RETURN", "SETTLE"} => ~w.landAfter)
      <4>1. ClaimIn(v) = "homing" /\ ClaimIn(w) = "auto"
        BY <3>0, <3>3, ClaimMeans DEF GsFlying
      <4> QED
        BY <3>3, <4>1 DEF Trips
    <3>4. CASE v.prim = w.prim /\ v.landAfter = w.landAfter /\ v.ret = w.ret
      BY <1>1, <3>4, SameHolds
    <3> QED
      BY <1>0, <1>3, <3>0, <3>1, <3>2, <3>3, <3>4 DEF ApplyShape
  <2> QED
    BY <2>1, <2>2
<1> QED
  BY <1>1, <1>2, <1>3

LEMMA PathClaim ==
  ASSUME NEW w, Sound(w), NEW in \in Readings, NEW v, v = PathStep(w, in)
  PROVE  Holds(v, w)
<1> DEFINE t == IF w.push THEN w.pathT ELSE w.pathT + 1
<1>0. w \in Glue /\ in.dist \in 1 .. MaxDist /\ w.mode \in Executors
  BY DEF Sound, Readings, Glue
<1>1. CASE ~Executing(w)
  <2>1. v = TrajEnd(w, in.dist) /\ w.prim # "TRAJ"
    BY <1>1 DEF PathStep, Sound, Paths
  <2>2. v = w
    BY <2>1 DEF TrajEnd
  <2> QED
    BY <2>2 DEF Holds
<1>2. CASE Executing(w) /\ w.path[w.mode] = "EXECUTING" /\ t < PathTicks
  <2>1. v = [w EXCEPT !.pathT = t]
    BY <1>2 DEF PathStep, Sound, Paths
  <2>2. v.gs = w.gs /\ v.takeover = w.takeover /\ v.prim = w.prim /\ v.landAfter = w.landAfter
        /\ v.ret = w.ret
    BY <1>0, <2>1 DEF Glue
  <2> QED
    BY <2>2, SameHolds
<1>3. CASE Executing(w) /\ ~(w.path[w.mode] = "EXECUTING" /\ t < PathTicks)
  <2>0. w.prim = "TRAJ"
    BY <1>3 DEF Sound, Paths
  <2>1. /\ v.gs = w.gs /\ v.takeover = w.takeover /\ v.prim = "RETURN" /\ v.landAfter = FALSE
    BY <1>0, <1>3, <2>0 DEF PathStep, TrajEnd, Glue
  <2>2. ClaimIn(v) = "auto" /\ ClaimIn(w) = "auto"
    BY <2>0, <2>1, ClaimMeans DEF Sound, Claims, GsFlying
  <2> QED
    BY <2>2 DEF Holds, ClockIn
<1> QED
  BY <1>1, <1>2, <1>3

(* What the sequencer's step makes of a claim.                             *)
Homes(v, w) ==
  /\ ClaimIn(w) = "homing"
  /\ ClaimIn(v) = "landing" \/ (ClaimIn(v) = "homing" /\ v.ret = w.ret + 1 /\ v.ret <= ReturnTicks)

LEMMA PrimClaim ==
  ASSUME NEW w, Sound(w), NEW in \in Readings, NEW v, v = PrimStep(w, in)
  PROVE  (ClaimIn(w) # "homing" /\ Holds(v, w)) \/ Homes(v, w)
<1>1. SameFlight(v, w) /\ PrimShape(v, w)
  BY PrimCases
<1>2. v.gs = w.gs /\ v.takeover = w.takeover /\ v.landAfter = w.landAfter
  BY <1>1 DEF SameFlight, SameHolder
<1>3. CASE ~GsFlying(w)
  <2>1. ClaimIn(v) = ClaimIn(w) /\ ClaimIn(w) \in {"none", "pilot"}
    BY <1>2, <1>3, ClaimMeans DEF GsFlying
  <2> QED
    BY <2>1 DEF Holds, ClockIn
<1>4. CASE GsFlying(w) /\ w.prim \in {"RETURN", "SETTLE"} /\ w.landAfter
  <2>1. ClaimIn(w) = "homing"
    BY <1>4, ClaimMeans
  <2>2. \/ v.prim \in {"RETURN", "SETTLE"} /\ v.ret = w.ret + 1 /\ v.ret <= ReturnTicks
        \/ v.prim = "DESCEND"
    BY <1>1, <1>4 DEF PrimShape
  <2> QED
    BY <1>2, <1>4, <2>1, <2>2, ClaimMeans DEF Homes, GsFlying
<1>5. CASE GsFlying(w) /\ ~(w.prim \in {"RETURN", "SETTLE"} /\ w.landAfter)
  <2>1. \/ v.prim = w.prim /\ ~(w.prim \in {"RETURN", "SETTLE"} /\ w.landAfter)
        \/ /\ w.prim \notin {"IDLE", "DESCEND"} /\ v.prim \notin {"IDLE", "DESCEND"}
           /\ v.prim \in {"RETURN", "SETTLE"} => ~v.landAfter
    BY <1>1, <1>2, <1>5 DEF PrimShape, Sound, Claims
  <2>2. ClaimIn(v) = ClaimIn(w) /\ ClaimIn(w) # "homing"
    BY <1>2, <1>5, <2>1 DEF ClaimIn, GsFlying
  <2> QED
    BY <2>2 DEF Holds, ClockIn
<1> QED
  BY <1>3, <1>4, <1>5

(* A tick makes at most one move of GsClaim.                               *)
Moved(v, w) ==
  \/ Holds(v, w)
  \/ ClaimIn(w) # "none" /\ ClaimIn(v) = "none"
  \/ ClaimIn(w) \notin {"none", "pilot"} /\ ClaimIn(v) = "pilot"
  \/ ClaimIn(w) = "none" /\ ClaimIn(v) = "auto"
  \/ ClaimIn(w) = "auto" /\ ClaimIn(v) = "homing" /\ v.ret \in {0, 1}
  \/ Homes(v, w)
  \/ ClaimIn(w) \in {"auto", "homing"} /\ ClaimIn(v) = "landing"
  \/ ClaimIn(w) \in {"auto", "homing", "landing"} /\ ClaimIn(v) = "stopped"

LEMMA MovedSteps ==
  ASSUME Moved(wfb', wfb)
  PROVE  [GsFlight!Next]_<<ClaimOf, ClockOf>>
<1>1. /\ ClaimOf = ClaimIn(wfb) /\ ClockOf = ClockIn(wfb)
      /\ ClaimOf' = ClaimIn(wfb') /\ ClockOf' = ClockIn(wfb')
  BY DEF ClaimOf, ClockOf, ClaimIn, ClockIn, GsFlying
<1>2. /\ ClaimOf # "homing" => ClockOf = 0
      /\ ClaimOf' # "homing" => ClockOf' = 0
      /\ ClaimOf = "homing" => ClockOf = wfb.ret
      /\ ClaimOf' = "homing" => ClockOf' = wfb'.ret
  BY <1>1 DEF ClockIn
<1>3. ClaimIn(wfb) \in {"none", "pilot", "stopped", "landing", "homing", "auto"}
  BY ClaimMeans
<1> USE DEF GsFlight!Next, GsFlight!Moves
<1>4. CASE Holds(wfb', wfb)
  BY <1>1, <1>4 DEF Holds
<1>5. CASE ClaimIn(wfb) # "none" /\ ClaimIn(wfb') = "none"
  BY <1>1, <1>2, <1>3, <1>5 DEF GsFlight!Release
<1>6. CASE ClaimIn(wfb) \notin {"none", "pilot"} /\ ClaimIn(wfb') = "pilot"
  BY <1>1, <1>2, <1>3, <1>6 DEF GsFlight!TakeOver
<1>7. CASE ClaimIn(wfb) = "none" /\ ClaimIn(wfb') = "auto"
  BY <1>1, <1>2, <1>7 DEF GsFlight!Claim
<1>8. CASE ClaimIn(wfb) = "auto" /\ ClaimIn(wfb') = "homing" /\ wfb'.ret \in {0, 1}
  BY <1>1, <1>2, <1>8 DEF GsFlight!GoHome
<1>9. CASE Homes(wfb', wfb)
  BY <1>1, <1>2, <1>9 DEF Homes, GsFlight!Home, GsFlight!Land
<1>10. CASE ClaimIn(wfb) \in {"auto", "homing"} /\ ClaimIn(wfb') = "landing"
  BY <1>1, <1>2, <1>10 DEF GsFlight!Land
<1>11. CASE ClaimIn(wfb) \in {"auto", "homing", "landing"} /\ ClaimIn(wfb') = "stopped"
  BY <1>1, <1>2, <1>11 DEF GsFlight!Stop
<1> QED
  BY <1>4, <1>5, <1>6, <1>7, <1>8, <1>9, <1>10, <1>11 DEF Moved

(* A tick of a return runs its clock.                                      *)
Ticks(v, w) ==
  /\ Moved(v, w)
  /\ ClaimIn(w) = "homing" /\ ClaimIn(v) = "homing" => v.ret = w.ret + 1

LEMMA TickMoves == IInv /\ TickStep => Ticks(wfb', wfb)
<1> SUFFICES ASSUME IInv, NEW in \in Inputs, Tick(in) PROVE Ticks(wfb', wfb)
  BY DEF TickStep
<1> DEFINE a == Sampled(wfb, in)
           b == PilotTakeOver(a, in)
           c == SafetyStep(b, in)
           d == ApplyAction(c, in)
           e == PathStep(d, in)
           f == PrimStep(e, in)
<1>0. in \in Readings
  BY InputsAreReadings
<1>1. Sound(a) /\ Rested(a) /\ (Holds(a, wfb) \/ ClaimIn(a) = "none")
  BY <1>0, SampledSound, SampledClaim DEF IInv
<1> HIDE DEF a
<1>2. Sound(b) /\ Rested(b)
      /\ (Holds(b, a) \/ (ClaimIn(b) = "pilot" /\ ClaimIn(a) \notin {"none", "pilot"}))
  BY <1>0, <1>1, TakeOverSound, TakeOverClaim
<1> HIDE DEF b
<1>3. Sound(c) /\ Holds(c, b)
  BY <1>0, <1>2, SafetySound, SafetyClaim
<1> HIDE DEF c
<1>4. Sound(d) /\ Rested(d) /\ (Holds(d, c) \/ Trips(d, c))
  BY <1>0, <1>3, ApplySound, ApplyClaim
<1> HIDE DEF d
<1>5. Sound(e) /\ Rested(e) /\ Holds(e, d)
  BY <1>0, <1>4, PathSound, PathClaim
<1> HIDE DEF e
<1>6. Sound(f) /\ ((ClaimIn(e) # "homing" /\ Holds(f, e)) \/ Homes(f, e))
  BY <1>0, <1>5, PrimSound, PrimClaim
<1> HIDE DEF f
<1>7. Holds(wfb', f)
  <2>1. wfb' = [f EXCEPT !.pending = FALSE]
    BY DEF Tick, Ticked, a, b, c, d, e, f
  <2>2. wfb'.gs = f.gs /\ wfb'.takeover = f.takeover /\ wfb'.prim = f.prim
        /\ wfb'.landAfter = f.landAfter /\ wfb'.ret = f.ret
    BY <1>6, <2>1 DEF Sound, Glue
  <2> QED
    BY <2>2, SameHolds
<1>8. \A v, w : Holds(v, w) => ClaimIn(v) = ClaimIn(w) /\ (ClaimIn(v) = "homing" => v.ret = w.ret)
  BY DEF Holds, ClockIn
<1>9. CASE ClaimIn(a) = "none"
  <2>1. ClaimIn(wfb') = "none"
    BY <1>2, <1>3, <1>4, <1>5, <1>6, <1>7, <1>8, <1>9 DEF Trips, Homes
  <2> QED
    BY <2>1 DEF Ticks, Moved, Holds, ClockIn
<1>10. CASE ClaimIn(b) = "pilot" /\ ClaimIn(a) \notin {"none", "pilot"}
  <2>1. ClaimIn(wfb') = "pilot"
    BY <1>3, <1>4, <1>5, <1>6, <1>7, <1>8, <1>10 DEF Trips, Homes
  <2>2. ClaimIn(wfb) = ClaimIn(a)
    BY <1>1, <1>10 DEF Holds
  <2> QED
    BY <1>10, <2>1, <2>2 DEF Ticks, Moved
<1>11. CASE Holds(a, wfb) /\ Holds(b, a)
  <2>1. ClaimIn(c) = ClaimIn(wfb) /\ ClockIn(c) = ClockIn(wfb)
    BY <1>3, <1>11 DEF Holds
  <2>2. CASE Trips(d, c)
    <3>1. /\ ClaimIn(e) = ClaimIn(d) /\ (ClaimIn(d) = "homing" => e.ret = 0)
      BY <1>5, <1>8, <2>2, ClaimMeans DEF Trips
    <3>2. CASE ClaimIn(d) = "homing"
      <4>1. ClaimIn(wfb) = "auto"
        BY <2>1, <2>2, <3>2 DEF Trips
      <4>2. ClaimIn(f) = "landing" \/ (ClaimIn(f) = "homing" /\ f.ret = 1)
        BY <1>6, <3>1, <3>2 DEF Homes
      <4>3. ClaimIn(wfb') = "landing" \/ (ClaimIn(wfb') = "homing" /\ wfb'.ret = 1)
        BY <1>7, <1>8, <4>2
      <4> QED
        BY <4>1, <4>3 DEF Ticks, Moved
    <3>3. CASE ClaimIn(d) # "homing"
      <4>1. ClaimIn(wfb') = ClaimIn(d)
        BY <1>6, <1>7, <1>8, <3>1, <3>3 DEF Homes
      <4> QED
        BY <2>1, <2>2, <3>3, <4>1 DEF Ticks, Trips, Moved
    <3> QED
      BY <3>2, <3>3
  <2>3. CASE Holds(d, c)
    <3>1. ClaimIn(e) = ClaimIn(wfb) /\ ClockIn(e) = ClockIn(wfb)
      BY <1>5, <2>1, <2>3 DEF Holds
    <3>2. CASE ClaimIn(e) # "homing" /\ Holds(f, e)
      BY <1>7, <3>1, <3>2 DEF Ticks, Moved, Holds
    <3>3. CASE Homes(f, e)
      <4>1. e.ret = wfb.ret
        BY <3>1, <3>3 DEF Homes, ClockIn
      <4>2. Homes(wfb', wfb)
        BY <1>7, <1>8, <3>1, <3>3, <4>1 DEF Homes
      <4> QED
        BY <4>2 DEF Ticks, Moved, Homes
    <3> QED
      BY <1>6, <3>2, <3>3
  <2> QED
    BY <1>4, <2>2, <2>3
<1> QED
  BY <1>1, <1>2, <1>9, <1>10, <1>11

LEMMA TakeoffMoves == IInv /\ Takeoff => Moved(wfb', wfb)
<1> SUFFICES ASSUME IInv, Takeoff PROVE Moved(wfb', wfb)
  OBVIOUS
<1>0. wfb \in Glue
  BY DEF IInv, Sound
<1>1. /\ ~wfb.takeover /\ wfb.action = NoAction /\ wfb.prim = "IDLE"
      /\ wfb'.prim = "CLIMB" /\ wfb'.gs = TRUE /\ wfb'.takeover = wfb.takeover
  BY <1>0 DEF Takeoff, Accepts, Glue
<1>2. ~wfb.gs
  BY <1>1 DEF IInv, Rested, Sound, Levels, GsFlying
<1>3. ClaimIn(wfb) = "none" /\ ClaimIn(wfb') = "auto"
  BY <1>1, <1>2, ClaimMeans DEF GsFlying
<1> QED
  BY <1>3 DEF Moved

LEMMA LandMoves == IInv /\ (Land \/ RcLand) => Moved(wfb', wfb)
<1> SUFFICES ASSUME IInv, NEW d \in 1 .. MaxDist, Accepts(GlueLand(wfb, d))
             PROVE  Moved(wfb', wfb)
  BY DEF Land, RcLand
<1> DEFINE q == StopPath(wfb)
<1>0. wfb \in Glue /\ wfb.prim \in Prims
  BY DEF IInv, Sound, Glue
<1>1. /\ q \in Glue /\ q.gs = wfb.gs /\ q.takeover = wfb.takeover
      /\ q.prim = wfb.prim /\ q.landAfter = wfb.landAfter /\ q.ret = wfb.ret
  BY <1>0, StopPathType, StopPathFields
<1>2. wfb' = IF wfb.prim = "IDLE" THEN [q EXCEPT !.landNow = TRUE] ELSE PrimLand(q, d)
  BY DEF Accepts, GlueLand
<1> HIDE DEF q
<1>3. CASE wfb.prim = "IDLE"
  <2>1. /\ wfb'.gs = q.gs /\ wfb'.takeover = q.takeover /\ wfb'.prim = q.prim
        /\ wfb'.landAfter = q.landAfter /\ wfb'.ret = q.ret
    BY <1>1, <1>2, <1>3 DEF Glue
  <2>2. Holds(wfb', wfb)
    BY <1>1, <2>1, SameHolds
  <2> QED
    BY <2>2 DEF Moved
<1>4. CASE wfb.prim # "IDLE"
  <2>0. GsFlying(wfb)
    BY <1>4 DEF IInv, Sound, Claims
  <2>1. SameHolder(wfb', q) /\ LandCases(wfb', q)
    BY <1>1, <1>2, <1>4, PrimLandCases
  <2>2. CASE wfb' = q
    <3>1. Holds(wfb', wfb)
      BY <1>1, <2>2, SameHolds
    <3> QED
      BY <3>1 DEF Moved
  <2>3. CASE wfb' # q
    <3>1. /\ wfb'.prim \in {"RETURN", "SETTLE"} /\ wfb'.landAfter = TRUE /\ wfb'.ret = 0
          /\ wfb.prim # "DESCEND" /\ (wfb.prim \in {"RETURN", "SETTLE"} => ~wfb.landAfter)
      BY <1>1, <2>1, <2>3 DEF LandCases
    <3>2. wfb'.gs = wfb.gs /\ wfb'.takeover = wfb.takeover
      BY <1>1, <2>1 DEF SameHolder
    <3>3. ClaimIn(wfb) = "auto" /\ ClaimIn(wfb') = "homing"
      BY <1>4, <2>0, <3>1, <3>2, ClaimMeans DEF GsFlying
    <3> QED
      BY <3>1, <3>3 DEF Moved
  <2> QED
    BY <2>2, <2>3
<1> QED
  BY <1>3, <1>4

(* Heartbeats and uploads leave the claim alone; a path that starts or is  *)
(* stopped leaves it "auto".                                               *)
LEMMA OthersMove ==
  /\ IInv /\ Heartbeat => Moved(wfb', wfb)
  /\ \A e \in Executors : IInv /\ (Begin(e) \/ Commit(e) \/ Clear(e)) => Moved(wfb', wfb)
  /\ IInv /\ (Start \/ StopCmd) => Moved(wfb', wfb)
<1>0. IInv => wfb \in Glue /\ wfb.mode \in Executors
  BY DEF IInv, Sound, Glue
<1>1. ASSUME IInv, Heartbeat \/ \E e \in Executors : Begin(e) \/ Commit(e) \/ Clear(e)
      PROVE  Moved(wfb', wfb)
  <2>1. /\ wfb'.gs = wfb.gs /\ wfb'.takeover = wfb.takeover /\ wfb'.prim = wfb.prim
        /\ wfb'.landAfter = wfb.landAfter /\ wfb'.ret = wfb.ret
    BY <1>0, <1>1 DEF Heartbeat, Begin, Commit, Clear, Accepts, Glue
  <2>2. Holds(wfb', wfb)
    BY <2>1, SameHolds
  <2> QED
    BY <2>2 DEF Moved
<1>2. ASSUME IInv, Start PROVE Moved(wfb', wfb)
  <2>1. /\ wfb'.gs = wfb.gs /\ wfb'.takeover = wfb.takeover /\ wfb'.prim = "TRAJ"
        /\ wfb.prim = "HOVER"
    BY <1>0, <1>2 DEF Start, Accepts, Glue
  <2>2. ClaimIn(wfb) = "auto" /\ ClaimIn(wfb') = "auto"
    BY <1>2, <2>1, ClaimMeans DEF IInv, Sound, Claims, GsFlying
  <2> QED
    BY <2>2 DEF Moved, Holds, ClockIn
<1>3. ASSUME IInv, StopCmd PROVE Moved(wfb', wfb)
  <2>0. wfb.prim = "TRAJ"
    BY <1>0, <1>3 DEF StopCmd, IInv, Sound, Paths, Executing
  <2>1. /\ wfb'.gs = wfb.gs /\ wfb'.takeover = wfb.takeover
        /\ wfb'.prim = "RETURN" /\ wfb'.landAfter = FALSE
    BY <1>0, <1>3, <2>0 DEF StopCmd, Accepts, TrajEnd, Glue
  <2>2. ClaimIn(wfb) = "auto" /\ ClaimIn(wfb') = "auto"
    BY <1>3, <2>0, <2>1, ClaimMeans DEF IInv, Sound, Claims, GsFlying
  <2> QED
    BY <2>2 DEF Moved, Holds, ClockIn
<1> QED
  BY <1>1, <1>2, <1>3

(* A ground-station flight goes home once and in bounded time, whatever is *)
(* commanded in between, and what the pilot took over or a crash tilt      *)
(* stopped is never flown again: every step of WfbFlight is a step of      *)
(* GsClaim or leaves the claim alone.                                      *)
THEOREM ClaimRefined == Spec => RefinesClaim
<1>1. Init => GsFlight!Init
  <2> SUFFICES ASSUME Init PROVE GsFlight!Init
    OBVIOUS
  <2>1. wfb.gs = FALSE
    BY DEF Init
  <2> QED
    BY <2>1 DEF GsFlight!Init, ClaimOf, ClockOf, GsFlying
<1>2. IInv /\ [Next]_vars => [GsFlight!Next]_<<ClaimOf, ClockOf>>
  <2> SUFFICES ASSUME IInv, [Next]_vars PROVE Moved(wfb', wfb)
    BY MovedSteps
  <2>1. CASE TickStep \/ Takeoff \/ Land \/ RcLand
    BY <2>1, TickMoves, TakeoffMoves, LandMoves DEF Ticks
  <2>2. CASE Heartbeat \/ Start \/ StopCmd \/ \E e \in Executors : Begin(e) \/ Commit(e) \/ Clear(e)
    BY <2>2, OthersMove
  <2>3. CASE VehicleStep \/ UNCHANGED vars
    BY <2>3 DEF VehicleStep, vars, Moved, Holds
  <2> QED
    BY <2>1, <2>2, <2>3 DEF Next, Command
<1> QED
  BY <1>1, <1>2, Invariant, PTL DEF Spec, RefinesClaim, GsFlight!Spec
-----------------------------------------------------------------------------
(* How far a flight is from its landing.  The airborne clock is run by the *)
(* safety net alone.                                                       *)

LEMMA StopKeepsAir == \A w \in Glue : StopPath(w).airT = w.airT
  BY DEF StopPath, Glue

LEMMA OffKeepsAir == \A w \in Glue : PrimOff(w).airT = w.airT
  BY DEF PrimOff, Glue

LEMMA LandKeepsAir == \A w \in Glue : \A d : PrimLand(w, d).airT = w.airT
  BY DEF PrimLand, Glue

LEMMA EndKeepsAir == \A w \in Glue : \A d : TrajEnd(w, d).airT = w.airT
  BY DEF TrajEnd, Glue

LEMMA ApplyKeepsAir ==
  ASSUME NEW w, Sound(w), NEW in \in Readings
  PROVE  ApplyAction(w, in).airT = w.airT
<1> DEFINE q == StopPath(w)
           u == [q EXCEPT !.applied = w.action, !.pending = FALSE]
<1>0. w \in Glue /\ w.action \in 0 .. 3
  BY GlueLevels DEF Sound
<1>1. q \in Glue /\ q.airT = w.airT
  BY <1>0, StopPathType, StopKeepsAir
<1>a. ApplyAction(w, in) =
        IF w.action <= w.applied THEN w
        ELSE IF w.action = KillAct THEN PrimOff(u)
        ELSE IF w.prim = "IDLE" THEN [u EXCEPT !.landNow = TRUE]
        ELSE IF w.action = InPlace THEN [u EXCEPT !.prim = "DESCEND"]
        ELSE PrimLand(u, in.dist)
  BY DEF ApplyAction, q
<1> HIDE DEF q
<1>2. u \in Glue
  BY <1>0, <1>1, Zeros, SetLevel, SetFlag, Zenon
<1>3. u.airT = w.airT
  BY <1>1 DEF Glue
<1> HIDE DEF u
<1>4. PrimOff(u).airT = u.airT /\ PrimLand(u, in.dist).airT = u.airT
  BY <1>2, OffKeepsAir, LandKeepsAir
<1>5. [u EXCEPT !.landNow = TRUE].airT = u.airT /\ [u EXCEPT !.prim = "DESCEND"].airT = u.airT
  BY <1>2 DEF Glue
<1> QED
  BY <1>3, <1>4, <1>5, <1>a, Zenon

LEMMA PathKeepsAir ==
  ASSUME NEW w, Sound(w), NEW in \in Readings
  PROVE  PathStep(w, in).airT = w.airT
<1> DEFINE t == IF w.push THEN w.pathT ELSE w.pathT + 1
           x == [w EXCEPT !.path[w.mode] = IF @ = "EXECUTING" THEN "DONE" ELSE @]
<1>0. w \in Glue /\ w.mode \in Executors
  BY DEF Sound, Glue
<1>1. x \in Glue /\ x.airT = w.airT
  <2>1. x.path \in [Executors -> PathStates] /\ x = [w EXCEPT !.path = x.path] /\ x.airT = w.airT
    BY <1>0 DEF Glue, PathStates
  <2> HIDE DEF x
  <2> QED
    BY <1>0, <2>1, SetPath, Zenon
<1>2. [w EXCEPT !.pathT = t].airT = w.airT
  BY <1>0 DEF Glue
<1>3. PathStep(w, in) =
        IF ~Executing(w) THEN TrajEnd(w, in.dist)
        ELSE IF w.prim # "TRAJ" THEN StopPath(w)
        ELSE IF w.path[w.mode] = "EXECUTING" /\ t < PathTicks THEN [w EXCEPT !.pathT = t]
        ELSE TrajEnd(x, in.dist)
  BY DEF PathStep
<1> HIDE DEF x, t
<1>4. /\ TrajEnd(w, in.dist).airT = w.airT /\ StopPath(w).airT = w.airT
      /\ TrajEnd(x, in.dist).airT = x.airT
  BY <1>0, <1>1, EndKeepsAir, StopKeepsAir
<1> QED
  BY <1>1, <1>2, <1>3, <1>4, Zenon

LEMMA PathSame ==
  ASSUME NEW w, Sound(w), NEW in \in Readings, NEW v, v = PathStep(w, in)
  PROVE  v.takeover = w.takeover /\ v.action = w.action
<1> DEFINE t == IF w.push THEN w.pathT ELSE w.pathT + 1
           x == [w EXCEPT !.path[w.mode] = IF @ = "EXECUTING" THEN "DONE" ELSE @]
<1>0. w \in Glue
  BY DEF Sound
<1>1. /\ x.takeover = w.takeover /\ x.action = w.action /\ x.prim = w.prim
      /\ [w EXCEPT !.pathT = t].takeover = w.takeover /\ [w EXCEPT !.pathT = t].action = w.action
  BY <1>0 DEF Glue
<1> QED
  BY <1>0, <1>1 DEF PathStep, TrajEnd, StopPath, Glue

LEMMA SettledKeepsAir == \A w \in Glue : \A p : Settled(w, p).airT = w.airT
  BY DEF Settled, Glue

LEMMA HomedKeepsAir == \A w \in Glue : Homed(w).airT = w.airT
  BY DEF Homed, Glue

LEMMA PrimKeepsAir ==
  ASSUME NEW w, Sound(w), NEW in \in Readings
  PROVE  PrimStep(w, in).airT = w.airT
<1> DEFINE x == IF w.dist <= 1 THEN [w EXCEPT !.dist = 0, !.prim = "SETTLE", !.settle = 0]
                ELSE [w EXCEPT !.dist = @ - 1]
           next == IF w.landAfter THEN "DESCEND" ELSE "HOVER"
           y == IF in.settled THEN Settled(w, next) ELSE [w EXCEPT !.settle = 0]
<1>0. w \in Glue
  BY DEF Sound
<1>1. x \in Glue /\ x.airT = w.airT
  <2>1. CASE w.dist <= 1
    <3>1. [w EXCEPT !.dist = 0, !.prim = "SETTLE", !.settle = 0] \in Glue
      BY <1>0, Zeros, PrimNames, SetPrim, SetClock, Zenon
    <3> QED
      BY <1>0, <2>1, <3>1 DEF Glue
  <2>2. CASE ~(w.dist <= 1)
    <3>1. w.dist - 1 \in 0 .. MaxDist
      BY <1>0, <2>2 DEF Glue
    <3>2. [w EXCEPT !.dist = w.dist - 1] \in Glue
      BY <1>0, <3>1, SetClock
    <3>3. x = [w EXCEPT !.dist = w.dist - 1]
      BY <2>2
    <3> HIDE DEF x
    <3> QED
      BY <1>0, <3>2, <3>3 DEF Glue
  <2> QED
    BY <2>1, <2>2
<1>2. [w EXCEPT !.settle = 0] \in Glue /\ [w EXCEPT !.settle = 0].airT = w.airT
  <2>1. [w EXCEPT !.settle = 0] \in Glue
    BY <1>0, Zeros, SetClock
  <2> QED
    BY <1>0, <2>1 DEF Glue
<1>3. y \in Glue /\ y.airT = w.airT
  <2>1. next \in Prims
    BY PrimNames
  <2> HIDE DEF next
  <2>2. Settled(w, next) \in Glue /\ Settled(w, next).airT = w.airT
    BY <1>0, <2>1, SettledCases, SettledKeepsAir
  <2> QED
    BY <1>2, <2>2
<1>4. PrimStep(w, in) =
        IF w.prim = "CLIMB" THEN
          IF in.settled THEN Settled(w, "HOVER") ELSE [w EXCEPT !.settle = 0]
        ELSE IF w.prim = "RETURN" THEN Homed(x)
        ELSE IF w.prim = "SETTLE" THEN Homed(y)
        ELSE w
  BY DEF PrimStep
<1> HIDE DEF x, y
<1>5. /\ Homed(x).airT = x.airT /\ Homed(y).airT = y.airT
      /\ Settled(w, "HOVER").airT = w.airT
  BY <1>0, <1>1, <1>3, HomedKeepsAir, SettledKeepsAir
<1> QED
  BY <1>1, <1>2, <1>3, <1>4, <1>5, Zenon

(* A flight under way, and the ticks it has left.                          *)
InFlight == stage = "FLYING" /\ GsFlying(wfb)

TicksLeft ==
  IF ClaimIn(wfb) = "auto" THEN ReturnTicks + CapTicks + 4 - wfb.airT
  ELSE IF ClaimIn(wfb) = "homing" THEN ReturnTicks + 2 - wfb.ret
  ELSE 1

LEMMA TicksLeftRange == IInv => TicksLeft \in Nat \ {0}
<1> SUFFICES ASSUME IInv PROVE TicksLeft \in Nat \ {0}
  OBVIOUS
<1>1. wfb.airT \in 0 .. CapTicks + 1 /\ wfb.ret \in 0 .. ReturnTicks + 1
  BY DEF IInv, Sound, Glue
<1> QED
  BY <1>1 DEF TicksLeft

LEMMA TicksLeftRangeNext == IInv' => (TicksLeft \in Nat \ {0})'
  BY TicksLeftRange, PTL

(* A tick of a flight nobody takes over runs the airborne clock, and trips *)
(* the safety net when it is over.                                         *)
LEMMA AirTick ==
  ASSUME IInv, NEW in \in Inputs, Tick(in), InFlight, GsFlying(wfb')
  PROVE  /\ wfb'.airT = Least(wfb.airT + 1, CapTicks + 1)
         /\ wfb'.airT > CapTicks => wfb'.action # NoAction
<1> DEFINE a == Sampled(wfb, in)
           b == PilotTakeOver(a, in)
           c == SafetyStep(b, in)
           d == ApplyAction(c, in)
           e == PathStep(d, in)
           f == PrimStep(e, in)
<1>0. in \in Readings
  BY InputsAreReadings
<1>1. Sound(a) /\ Rested(a)
  BY <1>0, SampledSound DEF IInv
<1>2. a.gs = wfb.gs /\ a.air = TRUE /\ a.takeover = wfb.takeover /\ a.airT = wfb.airT
  <2>1. wfb \in Glue /\ stage \in Vehicle!Armed /\ stage \in Airborne
    BY DEF IInv, Sound, InFlight, Vehicle!Armed, Airborne
  <2>2. a = [wfb EXCEPT !.armed = (stage \in Vehicle!Armed), !.idle = (stage = "IDLING"),
                        !.air = (stage \in Airborne \/ (stage = "STOPPED" /\ in.phase)),
                        !.hb = IF wfb.gs THEN Least(wfb.hb + 1, HbTicks + 1) ELSE wfb.hb]
    BY <2>1 DEF Sampled
  <2> HIDE DEF a
  <2> QED
    BY <2>1, <2>2 DEF Glue
<1> HIDE DEF a
<1>3. Sound(b) /\ Rested(b)
  BY <1>0, <1>1, TakeOverSound
<1>4. b = a \/ b.takeover = TRUE
  <2>1. CASE in.rc /\ GsFlying(a)
    <3> DEFINE p == PrimOff(StopPath(a))
    <3>1. p \in Glue
      BY <1>1, Grounded DEF Sound
    <3>2. b = [p EXCEPT !.pending = FALSE, !.takeover = TRUE]
      BY <2>1 DEF PilotTakeOver
    <3> HIDE DEF p, b
    <3> QED
      BY <3>1, <3>2 DEF Glue
  <2>2. CASE ~(in.rc /\ GsFlying(a))
    BY <2>2 DEF PilotTakeOver
  <2> QED
    BY <2>1, <2>2
<1> HIDE DEF b
<1>5. Sound(c)
  BY <1>0, <1>3, SafetySound
<1>6. c.takeover = b.takeover
  <2>1. b \in Glue
    BY <1>3 DEF Sound
  <2> QED
    BY <2>1 DEF SafetyStep, Glue
<1> HIDE DEF c
<1>7. Sound(d) /\ Rested(d) /\ d.takeover = c.takeover /\ d.action = c.action /\ d.airT = c.airT
  BY <1>0, <1>5, ApplySound, ApplyCases, ApplyKeepsAir
<1> HIDE DEF d
<1>8. Sound(e) /\ Rested(e) /\ e.airT = d.airT
  BY <1>0, <1>7, PathSound, PathKeepsAir
<1>9. e.takeover = d.takeover /\ e.action = d.action
  BY <1>0, <1>7, PathSame
<1> HIDE DEF e
<1>10. Sound(f) /\ f.airT = e.airT /\ SameFlight(f, e)
  BY <1>0, <1>8, PrimSound, PrimKeepsAir, PrimCases
<1> HIDE DEF f
<1>11. wfb'.takeover = f.takeover /\ wfb'.airT = f.airT /\ wfb'.action = f.action
  <2>1. wfb' = [f EXCEPT !.pending = FALSE]
    BY DEF Tick, Ticked, a, b, c, d, e, f
  <2> QED
    BY <1>10, <2>1 DEF Sound, Glue
<1>12. b = a
  BY <1>4, <1>6, <1>7, <1>9, <1>10, <1>11 DEF GsFlying, SameFlight, SameHolder
<1>13. /\ c.airT = Least(a.airT + 1, CapTicks + 1)
       /\ c.airT > CapTicks => c.action # NoAction
  <2> DEFINE outside == in.fence # "in"
             airT    == Least(a.airT + 1, CapTicks + 1)
             fenceT  == IF outside THEN Least(a.fenceT + 1, FenceTicks) ELSE 0
             fenced  == outside /\ (~GsFlying(a) \/ in.fence = "far" \/ fenceT >= FenceTicks)
             via     == \/ in.health = "low"
                        \/ GsFlying(a) /\ (a.hb > HbTicks \/ airT > CapTicks)
             level   == IF in.health = "tilt" THEN KillAct
                        ELSE IF fenced THEN InPlace ELSE IF via THEN ViaHover ELSE NoAction
  <2>1. a \in Glue /\ a.gs /\ a.air /\ GsFlying(a) /\ a.action \in 0 .. 3
    BY <1>1, <1>2, GlueLevels DEF Sound, InFlight, GsFlying
  <2>2. c = [a EXCEPT !.airT = airT, !.fenceT = fenceT, !.action = Most(a.action, level),
                      !.push = outside /\ Most(a.action, level) = NoAction]
    BY <1>12, <2>1 DEF SafetyStep, c
  <2>3. airT > CapTicks => level \in 1 .. 3
    <3> HIDE DEF fenced, airT
    <3> QED
      BY <2>1
  <2>4. level \in 0 .. 3
    <3> HIDE DEF fenced, via
    <3> QED
      OBVIOUS
  <2> HIDE DEF level, airT, fenceT, outside
  <2>5. c.airT = airT /\ c.action = Most(a.action, level)
    BY <2>1, <2>2 DEF Glue
  <2>6. airT > CapTicks => Most(a.action, level) # NoAction
    BY <2>1, <2>3, <2>4 DEF Most
  <2> QED
    BY <2>5, <2>6 DEF airT
<1> QED
  BY <1>2, <1>7, <1>8, <1>9, <1>10, <1>11, <1>13 DEF SameFlight, SameHolder

LEMMA TickNears ==
  ASSUME IInv, IInv', TickStep, InFlight, InFlight'
  PROVE  TicksLeft' < TicksLeft
<1> PICK in \in Inputs : Tick(in)
  BY DEF TickStep
<1>0. /\ wfb.airT \in 0 .. CapTicks + 1 /\ wfb.ret \in 0 .. ReturnTicks + 1
      /\ wfb'.airT \in 0 .. CapTicks + 1 /\ wfb'.ret \in 0 .. ReturnTicks + 1
      /\ wfb'.action \in 0 .. 3
  BY DEF IInv, Sound, Glue
<1>1. GsFlying(wfb) /\ GsFlying(wfb') /\ stage' = "FLYING" /\ stage = "FLYING"
  BY DEF InFlight
<1>2. /\ wfb'.airT = Least(wfb.airT + 1, CapTicks + 1)
      /\ wfb'.airT > CapTicks => wfb'.action # NoAction
  BY <1>1, AirTick
<1>3. wfb'.action # KillAct /\ wfb'.prim # "DESCEND"
  <2> DEFINE w == Ticked(wfb, in)
  <2>1. Sound(w)
    BY TickedSound DEF IInv
  <2>2. /\ wfb' = [w EXCEPT !.pending = FALSE] /\ out' = Request(w, in)
        /\ stage' = IF out' = "stop" THEN "STOPPED"
                    ELSE IF out' = "land" /\ stage = "FLYING" THEN "LANDING" ELSE stage
    BY DEF Tick
  <2> HIDE DEF w
  <2>3. /\ wfb'.action = w.action /\ wfb'.prim = w.prim /\ wfb'.gs = w.gs
        /\ w.gs => w.armed
    BY <2>1, <2>2 DEF Sound, Claims, Glue
  <2>4. out' # "stop" /\ out' # "land"
    BY <1>1, <2>2
  <2> QED
    BY <1>1, <2>2, <2>3, <2>4 DEF Request, GsFlying
<1>4. wfb'.prim # "IDLE"
  BY <1>1, <1>3 DEF IInv, Sound, Levels, Rested
<1>5. ClaimIn(wfb') \in {"auto", "homing"}
  BY <1>1, <1>3, <1>4, ClaimMeans DEF GsFlying
<1>6. wfb'.action # NoAction => ClaimIn(wfb') = "homing"
  <2>1. wfb'.action \in {ViaHover, InPlace} => Down(wfb')
    BY <1>1 DEF IInv, Sound, Levels, Rested
  <2>2. wfb'.action # NoAction => Down(wfb')
    BY <1>0, <1>3, <2>1
  <2> QED
    BY <1>1, <1>3, <2>2, ClaimMeans DEF Down
<1>7. Ticks(wfb', wfb)
  BY TickMoves
<1>8. CASE ClaimIn(wfb') = "auto"
  <2>1. ClaimIn(wfb) = "auto"
    <3>1. ClaimIn(wfb) # "none"
      BY <1>1, ClaimMeans DEF GsFlying
    <3> QED
      BY <1>7, <1>8, <3>1 DEF Ticks, Moved, Holds, Homes
  <2>2. wfb'.airT <= CapTicks
    BY <1>0, <1>2, <1>6, <1>8
  <2> QED
    BY <1>0, <1>2, <1>8, <2>1, <2>2 DEF TicksLeft, Least
<1>9. CASE ClaimIn(wfb') = "homing"
  <2>1. ClaimIn(wfb) \in {"auto", "homing"}
    <3>1. ClaimIn(wfb) # "none"
      BY <1>1, ClaimMeans DEF GsFlying
    <3> QED
      BY <1>7, <1>9, <3>1 DEF Ticks, Moved, Holds, Homes
  <2>2. CASE ClaimIn(wfb) = "auto"
    BY <1>0, <1>9, <2>2 DEF TicksLeft
  <2>3. CASE ClaimIn(wfb) = "homing"
    <3>1. wfb'.ret = wfb.ret + 1
      BY <1>7, <1>9, <2>3 DEF Ticks
    <3> QED
      BY <1>0, <1>9, <2>3, <3>1 DEF TicksLeft
  <2> QED
    BY <2>1, <2>2, <2>3
<1> QED
  BY <1>5, <1>8, <1>9

(* What is commanded in between, and what the vehicle does by itself, does *)
(* not put the landing off.                                                *)
LEMMA OthersNear ==
  ASSUME IInv, IInv', VehicleStep \/ Command \/ UNCHANGED vars, InFlight, InFlight'
  PROVE  TicksLeft' <= TicksLeft
<1>0. /\ wfb.airT \in 0 .. CapTicks + 1 /\ wfb.ret \in 0 .. ReturnTicks + 1
      /\ wfb'.ret \in 0 .. ReturnTicks + 1 /\ wfb \in Glue
  BY DEF IInv, Sound, Glue
<1>1. GsFlying(wfb) /\ GsFlying(wfb')
  BY DEF InFlight
<1>2. CASE VehicleStep \/ UNCHANGED vars
  <2>1. wfb' = wfb
    BY <1>2 DEF VehicleStep, vars
  <2> QED
    BY <1>0, <2>1 DEF TicksLeft
<1>3. CASE Command
  <2>1. Moved(wfb', wfb)
    BY <1>3, TakeoffMoves, LandMoves, OthersMove DEF Command
  <2>2. wfb'.airT = wfb.airT
    <3>1. CASE Takeoff \/ Heartbeat \/ \E e \in Executors : Begin(e) \/ Commit(e) \/ Clear(e)
      BY <1>0, <3>1 DEF Takeoff, Heartbeat, Begin, Commit, Clear, Accepts, Glue
    <3>2. CASE Start \/ StopCmd
      BY <1>0, <3>2 DEF Start, StopCmd, Accepts, TrajEnd, Glue
    <3>3. CASE Land \/ RcLand
      <4>1. PICK d \in 1 .. MaxDist : wfb' = GlueLand(wfb, d)
        BY <3>3 DEF Land, RcLand, Accepts
      <4> DEFINE q == StopPath(wfb)
      <4>2. q \in Glue /\ q.airT = wfb.airT
        BY <1>0, StopPathType, StopKeepsAir
      <4>3. wfb' = IF wfb.prim = "IDLE" THEN [q EXCEPT !.landNow = TRUE] ELSE PrimLand(q, d)
        BY <4>1 DEF GlueLand
      <4> HIDE DEF q
      <4>4. PrimLand(q, d).airT = q.airT /\ [q EXCEPT !.landNow = TRUE].airT = q.airT
        <5>1. PrimLand(q, d).airT = q.airT
          BY <4>2, LandKeepsAir
        <5> QED
          BY <4>2, <5>1 DEF Glue
      <4> QED
        BY <4>2, <4>3, <4>4, Zenon
    <3> QED
      BY <1>3, <3>1, <3>2, <3>3 DEF Command
  <2>3. /\ ClaimIn(wfb) \notin {"none", "pilot"} /\ ClaimIn(wfb') \notin {"none", "pilot"}
    BY <1>1, ClaimMeans DEF GsFlying
  <2>4. \/ ClaimIn(wfb') = ClaimIn(wfb) /\ ClockIn(wfb') = ClockIn(wfb)
        \/ ClaimIn(wfb) = "auto" /\ ClaimIn(wfb') = "homing"
        \/ ClaimIn(wfb) = "homing" /\ ClaimIn(wfb') = "homing" /\ wfb'.ret = wfb.ret + 1
        \/ ClaimIn(wfb') \in {"landing", "stopped"}
    BY <2>1, <2>3, Zenon DEF Moved, Holds, Homes
  <2>5. ClaimIn(wfb') \in {"landing", "stopped"} => TicksLeft' = 1
    BY DEF TicksLeft
  <2>6. CASE ClaimIn(wfb') = ClaimIn(wfb) /\ ClockIn(wfb') = ClockIn(wfb)
    BY <1>0, <2>2, <2>6 DEF TicksLeft, ClockIn
  <2>7. TicksLeft \in Nat \ {0} /\ TicksLeft' \in Nat \ {0}
    BY TicksLeftRange, TicksLeftRangeNext
  <2>8. CASE ClaimIn(wfb) = "auto" /\ ClaimIn(wfb') = "homing"
    BY <1>0, <2>8 DEF TicksLeft
  <2>9. CASE ClaimIn(wfb) = "homing" /\ ClaimIn(wfb') = "homing" /\ wfb'.ret = wfb.ret + 1
    BY <1>0, <2>9 DEF TicksLeft
  <2>10. ClaimIn(wfb') \in {"landing", "stopped"} => TicksLeft' <= TicksLeft
    BY <2>5, <2>7
  <2> QED
    BY <2>4, <2>6, <2>7, <2>8, <2>9, <2>10
<1> QED
  BY <1>2, <1>3

LEMMA FairIsSpec == FairSpec => Spec
<1>1. FairInit => Init
  BY DEF FairInit
<1>2. [Beats \/ Others]_<<vars, beat>> => [Next]_vars
  BY DEF Beats, Others, Next, vars
<1> QED
  BY <1>1, <1>2, PTL DEF FairSpec, Spec

(* However many ticks a ground-station flight may still take, it comes to  *)
(* its end, or closer to it, whatever is commanded in between.             *)
THEOREM FlightGetsNearer ==
  ASSUME NEW n \in Nat
  PROVE  FairSpec => (InFlight /\ TicksLeft <= n + 1 ~> ~InFlight \/ TicksLeft <= n)
<1> DEFINE Near(k) == TicksLeft <= k
<1>1. Near(n + 1) /\ InFlight /\ InFlight' /\ IInv /\ IInv' /\ [Beats \/ Others]_<<vars, beat>>
        => Near(n + 1)' /\ (beat' # beat => Near(n)')
  <2> SUFFICES ASSUME TicksLeft <= n + 1, InFlight, InFlight', IInv, IInv',
                      [Beats \/ Others]_<<vars, beat>>
               PROVE  TicksLeft' <= n + 1 /\ (beat' # beat => TicksLeft' <= n)
    OBVIOUS
  <2>1. TicksLeft \in Nat \ {0} /\ TicksLeft' \in Nat \ {0}
    BY TicksLeftRange, TicksLeftRangeNext
  <2>2. CASE TickStep
    <3>1. TicksLeft' < TicksLeft
      BY <2>2, TickNears
    <3> QED
      BY <2>1, <3>1
  <2>3. CASE ~TickStep
    <3>1. (VehicleStep \/ Command \/ UNCHANGED vars) /\ beat' = beat
      BY <2>3 DEF Beats, Others
    <3>2. TicksLeft' <= TicksLeft
      BY <3>1, OthersNear
    <3> QED
      BY <2>1, <3>1, <3>2
  <2> QED
    BY <2>2, <2>3
<1> HIDE DEF Near
<1>2. FairSpec => (InFlight /\ Near(n + 1) ~> ~InFlight \/ Near(n))
  BY <1>1, Invariant, FairIsSpec, PTL DEF FairSpec
<1> QED
  BY <1>2 DEF Near
=============================================================================
