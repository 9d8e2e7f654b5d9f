----------------------------- MODULE WfbFlight -----------------------------
(***************************************************************************)
(* Workflow B: the glue (API/wfb_glue.c) with its flight primitives        *)
(* (wfb_prim.c), its safety net (wfb_safety.c) and the executors of an     *)
(* uploaded path (the point list of wfb_traj.c, the program of wfb_prog.c, *)
(* which share one buffer), and Wfb_Step of TASK/StabilizerTask.c, which   *)
(* samples the vehicle and applies the glue's request once per 200 Hz tick.*)
(* Ticks and commands are critical sections: each is one action.  What the *)
(* other tasks do between the snapshot and the write of a tick is          *)
(* FlightCore's subject.                                                   *)
(*                                                                         *)
(* The vehicle is FlightLifecycle, which FlightCore implements: between    *)
(* two ticks it may go through any of its stages.  Time is counted in      *)
(* ticks.  Positions are only what the glue tells apart: inside, outside   *)
(* or far outside the fence; settled over the pad or not; and how many     *)
(* ticks of rate-limited return the setpoint still has to go.  A voltage   *)
(* or a tilt counts as low or tilted once it was held for its time.        *)
(***************************************************************************)
EXTENDS Naturals

CONSTANTS
  HbTicks,      \* hb_timeout_s
  CapTicks,     \* airborne_cap_s
  FenceTicks,   \* fence_hold_s
  ReturnTicks,  \* return_timeout_s
  SettleTicks,  \* settle_time_s
  PathTicks,    \* the length of the uploaded path
  MaxDist       \* the longest rate-limited return

ASSUME WfbAssumption ==
  /\ HbTicks \in Nat /\ CapTicks \in Nat /\ FenceTicks \in Nat
  /\ ReturnTicks \in Nat \ {0} /\ SettleTicks \in Nat \ {0}
  /\ PathTicks \in Nat \ {0} /\ MaxDist \in Nat \ {0}

VARIABLES
  stage,   \* the vehicle
  wfb,     \* s_wfb
  out      \* what Wfb_Step applied last

vars == <<stage, wfb, out>>

Vehicle == INSTANCE FlightLifecycle

Prims      == {"IDLE", "CLIMB", "HOVER", "TRAJ", "RETURN", "SETTLE", "DESCEND"}
PathStates == {"EMPTY", "LOADING", "READY", "EXECUTING", "DONE"}
Executors  == {"traj", "prog"}
Requests   == {"none", "stop", "land", "takeoff", "setpoint"}
Airborne   == {"FLYING", "LANDING"}

(* wfb_action_t.                                                           *)
NoAction == 0
ViaHover == 1
InPlace  == 2
KillAct  == 3

Least(a, b) == IF a < b THEN a ELSE b
Most(a, b)  == IF a > b THEN a ELSE b

(* armed, idle and air are last_in, and armed is also s_was_armed: the     *)
(* same tick writes both.  gs, pending, takeover, landNow and applied are  *)
(* the glue's; prim to timeout are wfb_prim_t's; action, airT, fenceT and  *)
(* push are wfb_safety_t's; path, mode and pathT are the executors' and    *)
(* their clock.  The hover height only moves setpoints and is left out.    *)
Glue == [armed : BOOLEAN, idle : BOOLEAN, air : BOOLEAN,
         gs : BOOLEAN, pending : BOOLEAN, takeover : BOOLEAN, landNow : BOOLEAN,
         applied : 0 .. 3, hb : 0 .. HbTicks + 1,
         prim : Prims, landAfter : BOOLEAN, dist : 0 .. MaxDist,
         settle : 0 .. SettleTicks, ret : 0 .. ReturnTicks + 1,
         action : 0 .. 3, airT : 0 .. CapTicks + 1, fenceT : 0 .. FenceTicks,
         push : BOOLEAN,
         path : [Executors -> PathStates], mode : Executors, pathT : 0 .. PathTicks - 1]

TypeOK == stage \in Vehicle!Stages /\ wfb \in Glue /\ out \in Requests

Init ==
  /\ Vehicle!Init /\ out = "none"
  /\ wfb = [armed |-> FALSE, idle |-> FALSE, air |-> FALSE,
            gs |-> FALSE, pending |-> FALSE, takeover |-> FALSE, landNow |-> FALSE,
            applied |-> 0, hb |-> 0,
            prim |-> "IDLE", landAfter |-> FALSE, dist |-> 0, settle |-> 0, ret |-> 0,
            action |-> 0, airT |-> 0, fenceT |-> 0, push |-> FALSE,
            path |-> [e \in Executors |-> "EMPTY"], mode |-> "traj", pathT |-> 0]

-----------------------------------------------------------------------------
(* The parts: each takes the glue's state and returns its next.            *)

Executing(w) == \E e \in Executors : w.path[e] = "EXECUTING"
GsFlying(w)  == w.gs /\ ~w.takeover

(* wfb_glue_stop_traj: whatever runs is ready to run again.                *)
StopPath(w) ==
  [w EXCEPT !.path = [e \in Executors |-> IF @[e] = "EXECUTING" THEN "READY" ELSE @[e]]]

(* wfb_prim_disarmed.                                                      *)
PrimOff(w) == [w EXCEPT !.prim = "IDLE", !.landAfter = FALSE, !.dist = 0,
                        !.settle = 0, !.ret = 0]

(* Seeded fault: a landing asked for again starts its clock again.         *)
PrimLandRestarts(w, d) ==
  IF w.prim \in {"IDLE", "DESCEND"} THEN w
  ELSE IF w.prim \in {"RETURN", "SETTLE"} THEN [w EXCEPT !.landAfter = TRUE, !.ret = 0]
  ELSE [w EXCEPT !.prim = "RETURN", !.landAfter = TRUE, !.dist = d, !.ret = 0]

(* wfb_prim_land, from where the aircraft is d ticks from the pad.         *)
PrimLand(w, d) ==
  IF w.prim \in {"IDLE", "DESCEND"} THEN w
  ELSE IF w.prim \in {"RETURN", "SETTLE"} THEN
    IF w.landAfter THEN w ELSE [w EXCEPT !.landAfter = TRUE, !.ret = 0]
  ELSE [w EXCEPT !.prim = "RETURN", !.landAfter = TRUE, !.dist = d, !.ret = 0]

(* wfb_prim_traj_end: return to the hover point and hold.                  *)
TrajEnd(w, d) ==
  IF w.prim # "TRAJ" THEN w
  ELSE [w EXCEPT !.prim = "RETURN", !.landAfter = FALSE, !.dist = d, !.ret = 0]

(* wfb_glue_disarmed.                                                      *)
Disarmed(w) ==
  [PrimOff(StopPath(w)) EXCEPT
     !.action = 0, !.airT = 0, !.fenceT = 0, !.push = FALSE, !.gs = FALSE,
     !.pending = FALSE, !.takeover = FALSE, !.landNow = FALSE, !.applied = 0]

(* wfb_glue_land.                                                          *)
GlueLand(w, d) ==
  IF w.prim = "IDLE" THEN [StopPath(w) EXCEPT !.landNow = TRUE]
  ELSE PrimLand(StopPath(w), d)

-----------------------------------------------------------------------------
(* One tick.                                                               *)

(* What a tick may read, those parts of it that it will look at.           *)
Among(relevant, values, default) == IF relevant THEN values ELSE {default}

Inputs ==
  LET watched == wfb.gs /\ stage \in Airborne \union {"STOPPED"}
  IN
  [rc      : Among(GsFlying(wfb), BOOLEAN, FALSE),
   health  : Among(watched, {"ok", "low", "tilt"}, "ok"),
   fence   : Among(watched, {"in", "out", "far"}, "in"),
   settled : Among(wfb.prim \in {"CLIMB", "SETTLE"}, BOOLEAN, FALSE),
   preset  : Among(wfb.prim \in {"CLIMB", "HOVER", "SETTLE"}, BOOLEAN, FALSE),
   dist    : Among(wfb.prim \in {"CLIMB", "HOVER", "TRAJ"}, 1 .. MaxDist, 1),
   phase   : Among(stage = "STOPPED", BOOLEAN, FALSE)]

(* The snapshot.  A stopped vehicle may still show an air phase: the write *)
(* of FLYING may have come after the stop.                                 *)
Sampled(w, in) ==
  LET armed == stage \in Vehicle!Armed
      v     == IF w.armed /\ ~armed THEN Disarmed(w) ELSE w
  IN  [v EXCEPT !.armed = armed,
                !.idle  = stage = "IDLING",
                !.air   = stage \in Airborne \/ (stage = "STOPPED" /\ in.phase),
                !.hb    = IF v.gs THEN Least(@ + 1, HbTicks + 1) ELSE @]

(* The pilot's stick ends a ground-station flight for good.                *)
PilotTakeOver(w, in) ==
  IF in.rc /\ GsFlying(w)
  THEN [PrimOff(StopPath(w)) EXCEPT !.pending = FALSE, !.takeover = TRUE] ELSE w

(* wfb_safety_step: the level only rises.                                  *)
SafetyStep(w, in) ==
  LET outside == in.fence # "in"
      airT    == Least(w.airT + 1, CapTicks + 1)
      fenceT  == IF outside THEN Least(w.fenceT + 1, FenceTicks) ELSE 0
      fenced  == outside /\ (~GsFlying(w) \/ in.fence = "far" \/ fenceT >= FenceTicks)
      via     == \/ in.health = "low"
                 \/ GsFlying(w) /\ (w.hb > HbTicks \/ airT > CapTicks)
      level   == IF in.health = "tilt" THEN KillAct
                 ELSE IF fenced THEN InPlace ELSE IF via THEN ViaHover ELSE NoAction
      action  == Most(w.action, level)
  IN  IF w.gs /\ w.air
      THEN [w EXCEPT !.airT = airT, !.fenceT = fenceT, !.action = action,
                     !.push = outside /\ action = NoAction]
      ELSE [w EXCEPT !.fenceT = 0, !.push = FALSE]

(* wfb_glue_apply_action: each level once.                                 *)
ApplyAction(w, in) ==
  LET v == [StopPath(w) EXCEPT !.applied = w.action, !.pending = FALSE]
  IN  IF w.action <= w.applied THEN w
      ELSE IF w.action = KillAct THEN PrimOff(v)
      ELSE IF w.prim = "IDLE" THEN [v EXCEPT !.landNow = TRUE]
      ELSE IF w.action = InPlace THEN [v EXCEPT !.prim = "DESCEND"]
      ELSE PrimLand(v, in.dist)

(* Seeded fault: the path is sampled once more at its end.                 *)
PathStepLate(w, in) ==
  LET t == IF w.push THEN w.pathT ELSE w.pathT + 1
  IN  IF ~Executing(w) THEN TrajEnd(w, in.dist)
      ELSE IF w.prim # "TRAJ" THEN StopPath(w)
      ELSE IF w.path[w.mode] = "EXECUTING" /\ t <= PathTicks THEN [w EXCEPT !.pathT = t]
      ELSE TrajEnd([w EXCEPT !.path[w.mode] = IF @ = "EXECUTING" THEN "DONE" ELSE @], in.dist)

(* The executor and the sequencer in step: a push-back stops the path's    *)
(* clock, the end of the path returns to the hover point.                  *)
PathStep(w, in) ==
  LET t == IF w.push THEN w.pathT ELSE w.pathT + 1
  IN  IF ~Executing(w) THEN TrajEnd(w, in.dist)
      ELSE IF w.prim # "TRAJ" THEN StopPath(w)
      ELSE IF w.path[w.mode] = "EXECUTING" /\ t < PathTicks THEN [w EXCEPT !.pathT = t]
      ELSE TrajEnd([w EXCEPT !.path[w.mode] = IF @ = "EXECUTING" THEN "DONE" ELSE @], in.dist)

(* wfb_prim_step.  What settle_t holds once it is over is never read.      *)
Settled(w, next) ==
  IF w.settle + 1 >= SettleTicks THEN [w EXCEPT !.prim = next, !.settle = 0]
  ELSE [w EXCEPT !.settle = @ + 1]

(* Seeded fault: no return timeout.                                        *)
HomedPatiently(w) == [w EXCEPT !.ret = Least(@ + 1, ReturnTicks + 1)]

Homed(w) ==
  LET v == [w EXCEPT !.ret = Least(@ + 1, ReturnTicks + 1)]
  IN  IF v.landAfter /\ v.ret > ReturnTicks THEN [v EXCEPT !.prim = "DESCEND"] ELSE v

PrimStep(w, in) ==
  IF w.prim = "CLIMB" THEN
    IF in.settled THEN Settled(w, "HOVER") ELSE [w EXCEPT !.settle = 0]
  ELSE IF w.prim = "RETURN" THEN
    Homed(IF w.dist <= 1 THEN [w EXCEPT !.dist = 0, !.prim = "SETTLE", !.settle = 0]
          ELSE [w EXCEPT !.dist = @ - 1])
  ELSE IF w.prim = "SETTLE" THEN
    Homed(IF in.settled THEN Settled(w, IF w.landAfter THEN "DESCEND" ELSE "HOVER")
          ELSE [w EXCEPT !.settle = 0])
  ELSE w

(* What the glue asks for, and of that what Wfb_Step applies.              *)
Request(w, in) ==
  LET holds == w.prim \in {"CLIMB", "HOVER", "TRAJ", "RETURN", "SETTLE"}
  IN  IF w.action = KillAct THEN IF w.armed THEN "stop" ELSE "none"
      ELSE IF w.landNow \/ w.prim = "DESCEND" THEN "land"
      ELSE IF w.prim = "CLIMB" /\ w.pending THEN "takeoff"
      ELSE IF holds /\ ~w.takeover /\ ~(w.prim = "HOVER" /\ in.preset) THEN "setpoint"
      ELSE "none"

Ticked(w, in) ==
  PrimStep(PathStep(ApplyAction(SafetyStep(PilotTakeOver(Sampled(w, in), in), in), in), in), in)

Tick(in) ==
  LET w == Ticked(wfb, in)
  IN  /\ wfb' = [w EXCEPT !.pending = FALSE]
      /\ out' = Request(w, in)
      /\ stage' = IF out' = "stop" THEN "STOPPED"
                  ELSE IF out' = "land" /\ stage = "FLYING" THEN "LANDING" ELSE stage

(* The vehicle between two ticks.                                          *)
VehicleStep == Vehicle!Next /\ UNCHANGED <<wfb, out>>

-----------------------------------------------------------------------------
(* The commands, between two ticks; a refused one changes nothing.         *)

Accepts(w) == wfb' = w /\ UNCHANGED <<stage, out>>

(* Seeded fault: a taken-over flight may be claimed again.                 *)
TakeoffAfterTakeover ==
  /\ wfb.armed /\ wfb.idle /\ ~wfb.air
  /\ wfb.action = NoAction /\ wfb.prim = "IDLE"
  /\ Accepts([wfb EXCEPT !.prim = "CLIMB", !.settle = 0, !.gs = TRUE,
                         !.pending = TRUE, !.hb = 0])

(* CMD 0x1A.  The checks are made on the last tick's snapshot.             *)
Takeoff ==
  /\ wfb.armed /\ wfb.idle /\ ~wfb.air
  /\ ~wfb.takeover /\ wfb.action = NoAction /\ wfb.prim = "IDLE"
  /\ Accepts([wfb EXCEPT !.prim = "CLIMB", !.settle = 0, !.gs = TRUE,
                         !.pending = TRUE, !.hb = 0])

Land ==
  wfb.air /\ \E d \in 1 .. MaxDist : Accepts(GlueLand(wfb, d))

(* The ch5 edge of a ground-station flight is the same landing.            *)
RcLand == GsFlying(wfb) /\ stage = "FLYING" /\ Land

Heartbeat == Accepts([wfb EXCEPT !.hb = 0])

(* Seeded fault: the other upload keeps its state.                         *)
BeginKeepsOther(e) ==
  /\ ~Executing(wfb)
  /\ Accepts([wfb EXCEPT !.mode = e, !.path[e] = "LOADING"])

(* CMD 0x1B and 0x1C: a BEGIN of either takes the buffer from the other.   *)
Begin(e) ==
  /\ ~Executing(wfb)
  /\ Accepts([wfb EXCEPT !.mode = e,
                         !.path = [x \in Executors |-> IF x = e THEN "LOADING" ELSE "EMPTY"]])

(* The upload in between, and the checks of COMMIT, may fail.              *)
Commit(e) ==
  /\ wfb.path[e] = "LOADING"
  /\ \/ Accepts([wfb EXCEPT !.path[e] = "READY"])
     \/ Accepts([wfb EXCEPT !.path[e] = "EMPTY"])

(* CLEAR of 0x1B clears the upload in use, that of 0x1C the program.       *)
Clear(e) ==
  /\ e = wfb.mode \/ e = "prog"
  /\ wfb.path[e] # "EXECUTING"
  /\ Accepts([wfb EXCEPT !.path[e] = "EMPTY"])

(* Seeded fault: START does not wait for the hover.                        *)
StartAnywhere ==
  /\ GsFlying(wfb) /\ wfb.path[wfb.mode] = "READY"
  /\ Accepts([wfb EXCEPT !.path[wfb.mode] = "EXECUTING", !.prim = "TRAJ", !.pathT = 0])

Start ==
  /\ wfb.prim = "HOVER" /\ wfb.path[wfb.mode] = "READY"
  /\ Accepts([wfb EXCEPT !.path[wfb.mode] = "EXECUTING", !.prim = "TRAJ", !.pathT = 0])

StopCmd ==
  /\ wfb.path[wfb.mode] = "EXECUTING"
  /\ \E d \in 1 .. MaxDist :
       Accepts(TrajEnd([wfb EXCEPT !.path[wfb.mode] = "READY"], d))

Command ==
  \/ Takeoff \/ Land \/ RcLand \/ Heartbeat \/ Start \/ StopCmd
  \/ \E e \in Executors : Begin(e) \/ Commit(e) \/ Clear(e)

TickStep == \E in \in Inputs : Tick(in)

Next == TickStep \/ VehicleStep \/ Command

Spec == Init /\ [][Next]_vars

-----------------------------------------------------------------------------
(* The claim of GsClaim.                                                   *)
ClaimOf == IF ~wfb.gs THEN "none"
           ELSE IF wfb.takeover THEN "pilot"
           ELSE IF wfb.prim = "IDLE" THEN "stopped"
           ELSE IF wfb.prim = "DESCEND" THEN "landing"
           ELSE IF wfb.prim \in {"RETURN", "SETTLE"} /\ wfb.landAfter THEN "homing"
           ELSE "auto"
ClockOf == IF ClaimOf = "homing" THEN wfb.ret ELSE 0

GsFlight == INSTANCE GsClaim WITH claim <- ClaimOf, clock <- ClockOf

(* A flight goes home once, in bounded time, whatever is commanded, and    *)
(* what the pilot took over or a crash stopped is never flown again until  *)
(* a disarm.                                                               *)
RefinesClaim == GsFlight!Spec

(* A path runs exactly while the sequencer flies it, it is the one in use, *)
(* and the other executor does not hold the shared buffer.                 *)
OnePathInStep ==
  /\ Executing(wfb) <=> wfb.prim = "TRAJ"
  /\ \A e \in Executors : wfb.path[e] # "EMPTY" => e = wfb.mode

(* A claim is on an armed vehicle, as the last tick saw it: a TAKEOFF that *)
(* raced a disarm is undone by the next tick.  No primitive runs without   *)
(* one, and after a take-over the glue neither steers nor takes off and    *)
(* has no primitive left that could, whatever is commanded late.           *)
ClaimIsSound ==
  /\ wfb.gs => wfb.armed
  /\ wfb.prim # "IDLE" => GsFlying(wfb)
  /\ wfb.takeover => wfb.gs /\ out \in {"none", "land", "stop"}

(* A tripped flight is on its way down: the safety net's level has been    *)
(* applied, and no later command took the flight back.                     *)
TrippedGoesDown ==
  wfb.action \in {ViaHover, InPlace} /\ GsFlying(wfb) =>
    wfb.prim = "DESCEND" \/ (wfb.landAfter /\ wfb.prim \in {"RETURN", "SETTLE"})
=============================================================================
