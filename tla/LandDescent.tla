---------------------------- MODULE LandDescent ----------------------------
(***************************************************************************)
(* One LANDING after another, tick by tick: the setpoint ramp of           *)
(* Des_Height and Des_VHeight, the touchdown detector, time limit and      *)
(* spool-down of Land_Step, and Land_ResetDetector on every way out        *)
(* (TASK/StabilizerTask.c, API/land_profile.h).                            *)
(*                                                                         *)
(* Heights are in quarters of a millimetre and speeds in quarters of a     *)
(* millimetre per 5 ms tick, so 0.65 m/s is 13.  The aircraft follows its  *)
(* sink command exactly, except for FloatTicks ticks of a landing in which *)
(* it may float on the ground-effect cushion; it never sinks below the     *)
(* ground, whose reading may have shifted since the take-off.              *)
(***************************************************************************)
EXTENDS Naturals

CONSTANTS
  LandMaxTicks,    \* LAND_MAX_TICKS
  LandSpoolTicks,  \* LAND_SPOOL_TICKS
  Heights,         \* where a landing may start
  Grounds,         \* what the height may read on the ground, before and after
  FloatTicks       \* ticks of a landing in which the aircraft may float

ASSUME LandAssumption ==
  /\ LandMaxTicks \in Nat \ {0} /\ LandSpoolTicks \in Nat \ {0}
  /\ Heights \subseteq Nat /\ Grounds \subseteq Nat /\ FloatTicks \in Nat

LAND_FAST_ALT       == 1600   \* 0.40 m
LAND_SLOW_ALT       == 600    \* 0.15 m
LAND_CUT_ALT_M      == 600    \* 0.15 m
LAND_RATE_SLOW_ALT  == 800    \* 0.20 m
DES_FLOOR_M         == 40     \* 0.01 m
LAND_REST_MIN       == 200    \* 0.05 m
LAND_REST_MARGIN    == 120    \* 0.03 m
LAND_CUSHION        == 440 .. 560   \* 0.11 to 0.14 m, where ground effect carries it
LAND_STABLE_TICKS   == 10
LAND_REST_CUT_TICKS == 5
LAND_SINK_BIAS_MAX  == 400    \* 0.40 m/s in steps of 0.001 m/s

VARIABLES
  landing,   \* armed and in LANDING
  fb,        \* Z_posPID.FB
  des,       \* Z_posPID.Des
  ground,    \* the reading on the ground where this flight lands
  restZ,     \* s_land_rest_z, sampled before it took off
  bias,      \* s_land_sink_bias, in steps
  stable,    \* s_stable_ticks
  rest,      \* s_land_rest_ticks
  timer,     \* s_land_timeout
  spool,     \* s_land_spool
  fresh,     \* ~s_land_init
  from,      \* the height this landing began at
  floats,    \* ticks floated in this landing
  elapsed    \* ticks since this landing began

detector == <<stable, rest, timer, spool, fresh>>
vars     == <<landing, fb, des, ground, restZ, bias, detector, from, floats, elapsed>>

Least(a, b) == IF a < b THEN a ELSE b
Most(a, b)  == IF a > b THEN a ELSE b
Minus(a, b) == IF a > b THEN a - b ELSE 0

(* The sink rate at a height.                                              *)
LandProfile_SinkMps(z) ==
  IF z < LAND_SLOW_ALT THEN 5 ELSE IF z < LAND_FAST_ALT THEN 10 ELSE 13

(* At the height read before the take-off, within the margin.              *)
AtRest(z) == z <= restZ + LAND_REST_MARGIN

TypeOK ==
  /\ landing \in BOOLEAN /\ fresh \in BOOLEAN
  /\ fb \in Nat /\ des \in Nat /\ from \in Nat /\ ground \in Grounds /\ restZ \in Nat
  /\ bias \in 0 .. LAND_SINK_BIAS_MAX
  /\ stable \in 0 .. LandMaxTicks /\ rest \in 0 .. LandMaxTicks
  /\ timer \in 0 .. LandMaxTicks /\ spool \in 0 .. LandSpoolTicks
  /\ floats \in 0 .. FloatTicks
  /\ elapsed \in 0 .. LandMaxTicks + LandSpoolTicks

Init ==
  /\ landing = FALSE /\ fresh = TRUE
  /\ ground \in Grounds /\ fb = ground /\ des = ground /\ restZ = LAND_REST_MIN
  /\ bias = 0 /\ stable = 0 /\ rest = 0 /\ timer = 0 /\ spool = 0
  /\ from = ground /\ floats = 0 /\ elapsed = 0

(* A flight left the ground, where GroundIdle_Step sampled the rest        *)
(* height, reached some height and is told to land.  The detector is as    *)
(* the last landing left it.                                               *)
Begin ==
  /\ ~landing /\ landing' = TRUE
  /\ ground' \in Grounds
  /\ \E before \in Grounds : restZ' = Most(before, LAND_REST_MIN)
  /\ fb' \in {h \in Heights : h > ground'} /\ des' = fb' /\ from' = fb'
  /\ floats' = 0 /\ elapsed' = 0
  /\ UNCHANGED <<bias, detector>>

(* The aircraft: what it sinks in one tick.                                *)
Sinks ==
  \/ /\ fb' = Most(ground, Minus(fb, LandProfile_SinkMps(fb) + bias \div 50))
     /\ UNCHANGED floats
  \/ /\ floats < FloatTicks /\ fb \in LAND_CUSHION /\ fb > ground
     /\ fb' = fb /\ floats' = floats + 1

(* Des_Height and Des_VHeight: the ramp runs down from the aircraft at the *)
(* profile's rate, and once it is at the floor a slow aircraft is pushed.  *)
Ramps ==
  /\ des' = Minus(Least(des, fb'), LandProfile_SinkMps(fb'))
  /\ bias' = IF des' <= DES_FLOOR_M /\ fb - fb' <= 1
             THEN Least(bias + 1, LAND_SINK_BIAS_MAX) ELSE bias

(* Land_Step counts the ticks the aircraft was still, those it was at rest *)
(* under a setpoint at the floor, and all of them.                         *)
Counts ==
  LET upto(n) == IF fresh THEN 0 ELSE n
      still   == IF fb' < LAND_RATE_SLOW_ALT THEN 1 ELSE 0
  IN  /\ stable' = IF fb - fb' <= still THEN upto(stable) + 1 ELSE 0
      /\ rest'   = IF des' <= DES_FLOOR_M /\ AtRest(fb') THEN upto(rest) + 1 ELSE 0
      /\ timer'  = upto(timer) + 1
      /\ fresh'  = FALSE

(* Seeded faults: the detector of 2026-10-02, content with a still         *)
(* aircraft over a setpoint at the floor, and one that is late by a tick.  *)
TouchedAtFloor ==
  \/ rest' >= LAND_REST_CUT_TICKS
  \/ stable' >= LAND_STABLE_TICKS /\ fb' < LAND_CUT_ALT_M /\ des' <= DES_FLOOR_M
  \/ timer' >= LandMaxTicks

TouchedLate ==
  \/ rest' >= LAND_REST_CUT_TICKS
  \/ /\ stable' >= LAND_STABLE_TICKS /\ fb' < LAND_CUT_ALT_M /\ des' <= DES_FLOOR_M
     /\ AtRest(fb') \/ bias' >= LAND_SINK_BIAS_MAX
  \/ timer' > LandMaxTicks

(* Land_Step's gates: at rest; or still, low and with evidence of the      *)
(* ground; or out of time.                                                 *)
Touched ==
  \/ rest' >= LAND_REST_CUT_TICKS
  \/ /\ stable' >= LAND_STABLE_TICKS /\ fb' < LAND_CUT_ALT_M /\ des' <= DES_FLOOR_M
     /\ AtRest(fb') \/ bias' >= LAND_SINK_BIAS_MAX
  \/ timer' >= LandMaxTicks

Descend ==
  /\ landing /\ (fresh \/ spool = 0)
  /\ Sinks /\ Ramps /\ Counts
  /\ spool' = IF Touched THEN 1 ELSE 0
  /\ elapsed' = elapsed + 1
  /\ UNCHANGED <<landing, ground, restZ, from>>

(* The motors are off, and GroundIdle_Step pins the setpoint to the ground.*)
Grounded ==
  /\ landing' = FALSE /\ fresh' = TRUE
  /\ fb' = ground /\ des' = ground /\ from' = ground /\ floats' = 0 /\ elapsed' = 0
  /\ UNCHANGED <<ground, restZ>>

(* The spool-down fades the motors; what the aircraft does then is not of  *)
(* this module.                                                            *)
SpoolDown ==
  /\ landing /\ ~fresh /\ spool \in 1 .. LandSpoolTicks - 1
  /\ spool' = spool + 1 /\ elapsed' = elapsed + 1
  /\ UNCHANGED <<landing, fb, des, ground, restZ, bias, stable, rest, timer, fresh, from, floats>>

Cut ==
  /\ landing /\ ~fresh /\ spool >= LandSpoolTicks
  /\ stable' = 0 /\ rest' = 0 /\ timer' = 0 /\ spool' = 0 /\ bias' = 0
  /\ Grounded

(* A stop or a disarm in the middle: Land_ResetDetector, which leaves the  *)
(* rest count to the next Land_Step.                                       *)
Interrupt ==
  /\ landing
  /\ stable' = 0 /\ timer' = 0 /\ spool' = 0 /\ bias' = 0
  /\ UNCHANGED rest
  /\ Grounded

Next == Begin \/ Descend \/ SpoolDown \/ Cut \/ Interrupt

Spec == Init /\ [][Next]_vars

-----------------------------------------------------------------------------
(* A landing is over LAND_MAX_TICKS plus LAND_SPOOL_TICKS ticks after it    *)
(* began, however the aircraft moves and whatever cut the last one short.  *)
LandingIsBounded == landing => elapsed < LandMaxTicks + LandSpoolTicks

(* The ticks the profile takes from z to the ground, in parts of 1/130 of  *)
(* a tick: a step of height costs 1/5, 1/10 or 1/13 of a tick by its band. *)
Reach(z) ==
  26 * Least(z, LAND_SLOW_ALT) + 13 * Minus(Least(z, LAND_FAST_ALT), LAND_SLOW_ALT)
    + 10 * Minus(z, LAND_FAST_ALT)

(* The time limit came before the way down and the ticks floated were over.*)
OutOfTime ==
  /\ timer = LandMaxTicks
  /\ 130 * LandMaxTicks + Reach(ground) < Reach(from) + 130 * floats

(* The aircraft floated for as long as the push takes to its limit.        *)
Carried == bias = LAND_SINK_BIAS_MAX /\ LAND_SINK_BIAS_MAX <= floats

(* The motors fade on the ground or within the margin of the rest height,  *)
(* and in the air in two cases only: LAND_MAX_TICKS is less than the way   *)
(* down takes, as it is from more than 1.3 m, where the comment speaks of  *)
(* 15 s and a landing from 2.5 m; and an aircraft carried for two seconds. *)
(* Nothing else takes a descent that follows its command out of the air    *)
(* ("mid-air cuts at 0.11-0.14 m are blocked", TASK/StabilizerTask.c).     *)
FadesOnTheGround ==
  [][spool = 0 /\ spool' = 1 =>
       fb' = ground \/ AtRest(fb') \/ OutOfTime' \/ Carried']_vars

(* Why: above the ground only floating ticks push, and every other tick    *)
(* falls as far as the profile says.                                       *)
AirInv ==
  /\ ~landing => bias = 0 /\ floats = 0
  /\ fb >= ground
  /\ landing /\ fb # ground =>
       /\ bias <= floats
       /\ Reach(fb) + 130 * timer <= Reach(from) + 130 * floats

(* Why a landing is bounded: the timer counts every tick but those of the  *)
(* spool-down, and a timer that ran out has started it.                    *)
TimeInv ==
  /\ ~landing => fresh
  /\ fresh => timer = 0 /\ spool = 0
  /\ fresh /\ landing => elapsed = 0
  /\ landing /\ ~fresh => elapsed + 1 = timer + Most(spool, 1)
  /\ timer = LandMaxTicks => spool # 0
=============================================================================
