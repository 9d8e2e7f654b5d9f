------------------------- MODULE LandDescentProofs -------------------------
(***************************************************************************)
(* A landing is bounded whatever the heights, the ground readings and the  *)
(* two limits are, and however the aircraft moves: of the aircraft that    *)
(* proof uses nothing.  Every field keeps to its range: the counters of    *)
(* the detector never run past the timer they are counted beside.  And of  *)
(* an aircraft that follows its command, the motors fade in the air only   *)
(* when the time limit is less than its way down takes, or when it floated *)
(* for as long as the push takes to its limit.                             *)
(***************************************************************************)
EXTENDS LandDescent, TLAPS

USE LandAssumption

(* The part of the type invariant the bound rests on.                      *)
ClockOK ==
  /\ timer \in 0 .. LandMaxTicks /\ spool \in 0 .. LandSpoolTicks
  /\ elapsed \in Nat

(* The clock facts are preserved by every step.                            *)
LEMMA ClockStep == ClockOK /\ TimeInv /\ [Next]_vars => ClockOK' /\ TimeInv'
<1> SUFFICES ASSUME ClockOK, TimeInv, [Next]_vars PROVE ClockOK' /\ TimeInv'
  OBVIOUS
<1> USE DEF ClockOK, TimeInv, Most, detector
<1>1. CASE Begin
  BY <1>1 DEF Begin
<1>2. CASE Descend
  <2> DEFINE before == IF fresh THEN 0 ELSE timer
  <2>1. /\ landing'
        /\ timer' = before + 1 /\ ~fresh' /\ elapsed' = elapsed + 1
        /\ spool' \in {0, 1} /\ (timer' >= LandMaxTicks => spool' = 1)
    BY <1>2 DEF Descend, Counts, Touched
  <2>2. before \in 0 .. LandMaxTicks - 1 /\ elapsed = before
    BY <1>2 DEF Descend
  <2>3. ClockOK'
    BY <2>1, <2>2
  <2>4. elapsed' = timer' /\ Most(spool', 1) = 1
    BY <2>1, <2>2
  <2>5. timer' = LandMaxTicks => spool' # 0
    BY <2>1, <2>2
  <2> QED
    BY Zenon, <2>1, <2>3, <2>4, <2>5
<1>3. CASE SpoolDown
  BY <1>3 DEF SpoolDown
<1>4. CASE Cut
  BY <1>4 DEF Cut, Grounded
<1>5. CASE Interrupt
  BY <1>5 DEF Interrupt, Grounded
<1>6. CASE UNCHANGED vars
  BY <1>6 DEF vars
<1> QED
  BY <1>1, <1>2, <1>3, <1>4, <1>5, <1>6 DEF Next

(* The timer counts every tick of a landing but those of its spool-down.   *)
THEOREM ClockIsExact == Spec => [](ClockOK /\ TimeInv)
<1>1. Init => ClockOK /\ TimeInv
  BY DEF Init, ClockOK, TimeInv
<1> QED
  BY <1>1, ClockStep, PTL DEF Spec

(* A landing is over LAND_MAX_TICKS + LAND_SPOOL_TICKS ticks after it      *)
(* began.                                                                  *)
THEOREM LandingEndsInTime == Spec => []LandingIsBounded
<1>1. ClockOK /\ TimeInv => LandingIsBounded
  BY DEF ClockOK, TimeInv, LandingIsBounded, Most
<1> QED
  BY <1>1, ClockIsExact, PTL

-----------------------------------------------------------------------------
(* The counters of the detector restart with the timer, so none is ahead   *)
(* of it while a landing runs.                                             *)
Counted ==
  /\ ~fresh => stable <= timer /\ rest <= timer
  /\ ~landing => elapsed = 0

LEMMA Falls ==
  ASSUME NEW a \in Nat, NEW b \in Nat
  PROVE  Minus(a, b) \in Nat /\ Least(a, b) \in Nat /\ Most(a, b) \in Nat /\ Least(a, b) <= b
  BY DEF Minus, Least, Most

LEMMA TypeStep ==
  TypeOK /\ ClockOK /\ TimeInv /\ Counted /\ [Next]_vars => TypeOK' /\ Counted'
<1> SUFFICES ASSUME TypeOK, ClockOK, TimeInv, Counted, [Next]_vars PROVE TypeOK' /\ Counted'
  OBVIOUS
<1> USE DEF detector
<1>1. CASE Begin
  <2>1. ground' \in Grounds /\ restZ' \in Nat /\ fb' \in Nat /\ des' \in Nat /\ from' \in Nat
    BY <1>1, Falls DEF Begin, LAND_REST_MIN
  <2> QED
    BY <1>1, <2>1 DEF Begin, TypeOK, Counted, TimeInv
<1>2. CASE Descend
  <2>1. /\ LandProfile_SinkMps(fb) \in Nat /\ LandProfile_SinkMps(fb') \in Nat
        /\ bias \div 50 \in Nat /\ bias + 1 \in Nat
    BY DEF LandProfile_SinkMps, TypeOK, LAND_SINK_BIAS_MAX
  <2>2. fb' \in Nat /\ floats' \in 0 .. FloatTicks
    <3>1. CASE fb' = Most(ground, Minus(fb, LandProfile_SinkMps(fb) + bias \div 50)) /\ UNCHANGED floats
      <4>1. LandProfile_SinkMps(fb) + bias \div 50 \in Nat
        BY <2>1
      <4>2. Minus(fb, LandProfile_SinkMps(fb) + bias \div 50) \in Nat
        BY <4>1, Falls DEF TypeOK
      <4>3. ground \in Nat
        BY DEF TypeOK, LandAssumption
      <4> QED
        BY <3>1, <4>2, <4>3, Falls DEF TypeOK
    <3>2. CASE floats < FloatTicks /\ fb' = fb /\ floats' = floats + 1
      BY <3>2 DEF TypeOK
    <3> QED
      BY <1>2, <3>1, <3>2 DEF Descend, Sinks
  <2>3. des' \in Nat
    <3>1. Least(des, fb') \in Nat
      BY <2>2, Falls DEF TypeOK
    <3> QED
      BY <1>2, <2>1, <2>2, <3>1, Falls DEF Descend, Ramps
  <2>4. bias' \in 0 .. LAND_SINK_BIAS_MAX
    BY <1>2, <2>1 DEF Descend, Ramps, Least, TypeOK, LAND_SINK_BIAS_MAX
  <2>5. /\ stable' \in 0 .. timer' /\ rest' \in 0 .. timer' /\ ~fresh'
        /\ UNCHANGED <<landing, ground, restZ>> /\ landing
    BY <1>2 DEF Descend, Counts, TypeOK, Counted
  <2>6. ClockOK' /\ TimeInv'
    BY ClockStep
  <2>7. timer' \in 0 .. LandMaxTicks /\ spool' \in 0 .. LandSpoolTicks
    BY <2>6 DEF ClockOK
  <2>8. stable' \in 0 .. LandMaxTicks /\ rest' \in 0 .. LandMaxTicks
    BY <2>5, <2>7
  <2>9. elapsed' \in 0 .. LandMaxTicks + LandSpoolTicks
    BY <2>5, <2>6, <2>7 DEF ClockOK, TimeInv, Most
  <2>10. Counted'
    BY <2>5, <2>7, <2>8 DEF Counted
  <2>11. /\ landing' \in BOOLEAN /\ fresh' \in BOOLEAN
         /\ ground' \in Grounds /\ restZ' \in Nat /\ from' \in Nat
    BY <1>2, Zenon DEF Descend, Counts, TypeOK
  <2>12. TypeOK'
    BY <2>2, <2>3, <2>4, <2>7, <2>8, <2>9, <2>11 DEF TypeOK
  <2> QED
    BY <2>10, <2>12
<1>3. CASE SpoolDown
  <2>1. ClockOK' /\ TimeInv'
    BY ClockStep
  <2>2. elapsed' \in 0 .. LandMaxTicks + LandSpoolTicks
    BY <1>3, <2>1 DEF SpoolDown, ClockOK, TimeInv, Most
  <2> QED
    BY <1>3, <2>2 DEF SpoolDown, TypeOK, Counted
<1>4. CASE Cut
  <2>1. /\ fb' = ground /\ des' = ground /\ from' = ground /\ ground' = ground /\ restZ' = restZ
        /\ stable' = 0 /\ timer' = 0 /\ spool' = 0 /\ bias' = 0 /\ rest' = 0
        /\ floats' = 0 /\ elapsed' = 0 /\ landing' = FALSE /\ fresh' = TRUE
    BY <1>4 DEF Cut, Grounded
  <2>2. ground \in Nat
    BY DEF TypeOK, LandAssumption
  <2>3. landing' \in BOOLEAN /\ fresh' \in BOOLEAN
    BY <2>1, Zenon
  <2> QED
    BY <2>1, <2>2, <2>3 DEF TypeOK, Counted, LandAssumption, LAND_SINK_BIAS_MAX
<1>5. CASE Interrupt
  <2>1. /\ fb' = ground /\ des' = ground /\ from' = ground /\ ground' = ground /\ restZ' = restZ
        /\ stable' = 0 /\ timer' = 0 /\ spool' = 0 /\ bias' = 0 /\ rest' = rest
        /\ floats' = 0 /\ elapsed' = 0 /\ landing' = FALSE /\ fresh' = TRUE
    BY <1>5 DEF Interrupt, Grounded
  <2>2. ground \in Nat
    BY DEF TypeOK, LandAssumption
  <2>3. landing' \in BOOLEAN /\ fresh' \in BOOLEAN
    BY <2>1, Zenon
  <2> QED
    BY <2>1, <2>2, <2>3 DEF TypeOK, Counted, LandAssumption, LAND_SINK_BIAS_MAX
<1>6. CASE UNCHANGED vars
  BY <1>6 DEF vars, TypeOK, Counted
<1> QED
  BY <1>1, <1>2, <1>3, <1>4, <1>5, <1>6 DEF Next

(* Every field of a landing keeps to its range, the three counters of      *)
(* Land_Step to the time limit among them.                                 *)
THEOREM TypeCorrect == Spec => []TypeOK
<1>1. Init => TypeOK /\ Counted
  <2> SUFFICES ASSUME Init PROVE TypeOK /\ Counted
    OBVIOUS
  <2>1. landing \in BOOLEAN /\ fresh \in BOOLEAN
    BY Zenon DEF Init
  <2>2. ground \in Nat
    BY DEF Init, LandAssumption
  <2> QED
    BY <2>1, <2>2 DEF Init, TypeOK, Counted, LandAssumption, LAND_REST_MIN, LAND_SINK_BIAS_MAX
<1>2. Spec => [](TypeOK /\ Counted)
  BY <1>1, TypeStep, ClockIsExact, PTL DEF Spec
<1> QED
  BY <1>2, PTL
-----------------------------------------------------------------------------
(* What the sink profile does to a height: it takes at least 5 off, and    *)
(* whoever falls by the profile's rate is a tick nearer to the ground.     *)
LEMMA ProfileFalls ==
  ASSUME NEW a \in Nat, NEW b \in Nat, b + LandProfile_SinkMps(a) <= a
  PROVE  b + 5 <= a /\ Reach(b) + 130 <= Reach(a)
<1> USE DEF LandProfile_SinkMps, Reach, Least, Minus, LAND_SLOW_ALT, LAND_FAST_ALT
<1>1. CASE a < LAND_SLOW_ALT
  BY <1>1
<1>2. CASE a >= LAND_SLOW_ALT /\ a < LAND_FAST_ALT
  <2>1. b + 10 <= a /\ Reach(a) = 26 * 600 + 13 * (a - 600)
    BY <1>2
  <2>2. CASE b < LAND_SLOW_ALT
    BY <2>1, <2>2, <1>2
  <2>3. CASE b >= LAND_SLOW_ALT
    BY <2>1, <2>3, <1>2
  <2> QED
    BY <2>2, <2>3
<1>3. CASE a >= LAND_FAST_ALT
  <2>1. b + 13 <= a
    BY <1>3
  <2>2. Reach(a) = 12600 + 10 * a
    BY <1>3
  <2>3. CASE b < LAND_SLOW_ALT
    <3>1. Reach(b) = 26 * b
      BY <2>3
    <3> QED
      BY <2>1, <2>2, <2>3, <3>1, <1>3
  <2>4. CASE b >= LAND_SLOW_ALT /\ b < LAND_FAST_ALT
    <3>1. Reach(b) = 7800 + 13 * b
      BY <2>4
    <3> QED
      BY <2>1, <2>2, <2>4, <3>1, <1>3
  <2>5. CASE b >= LAND_FAST_ALT
    <3>1. Reach(b) = 12600 + 10 * b
      BY <2>5
    <3> QED
      BY <2>1, <2>2, <2>5, <3>1, <1>3
  <2> QED
    BY <2>3, <2>4, <2>5
<1> QED
  BY <1>1, <1>2, <1>3

LEMMA ReachIsNat == ASSUME NEW z \in Nat PROVE Reach(z) \in Nat
  BY DEF Reach, Least, Minus, LAND_SLOW_ALT, LAND_FAST_ALT

LEMMA ReachRises ==
  ASSUME NEW a \in Nat, NEW b \in Nat, b < a PROVE Reach(b) < Reach(a)
  BY DEF Reach, Least, Minus, LAND_SLOW_ALT, LAND_FAST_ALT

(* A fall by 5 or more: it is no still tick, and began above the floor it  *)
(* keeps to.                                                               *)
LEMMA FallsClear ==
  ASSUME NEW a \in Nat, NEW b \in Nat, b + 5 <= a, NEW low \in Nat, low <= b
  PROVE  ~(a - b <= 1) /\ ~(a - b <= 0) /\ a # low
  OBVIOUS

(* The aircraft in one tick of a descent: it comes down to the ground, or  *)
(* falls by the profile, or floats.  A tick that falls is no still one.    *)
Lands  == fb' = ground /\ floats' = floats
Falling ==
  /\ floats' = floats /\ fb' + 5 <= fb
  /\ Reach(fb') + 130 <= Reach(fb) /\ bias' = bias /\ stable' = 0
Floats == fb' = fb /\ fb # ground /\ floats' = floats + 1

LEMMA DescentMoves ==
  ASSUME TypeOK, fb >= ground, Descend
  PROVE  /\ Lands \/ Falling \/ Floats
         /\ fb' \in Nat /\ fb' >= ground /\ bias' \in {bias, bias + 1, LAND_SINK_BIAS_MAX}
         /\ bias' <= bias + 1
<1>1. /\ fb \in Nat /\ ground \in Nat /\ bias \in Nat /\ floats \in Nat
      /\ bias <= LAND_SINK_BIAS_MAX
  BY DEF TypeOK, LandAssumption, LAND_SINK_BIAS_MAX
<1>2. LandProfile_SinkMps(fb) \in Nat /\ LandProfile_SinkMps(fb) >= 5 /\ bias \div 50 \in Nat
  BY <1>1 DEF LandProfile_SinkMps
<1>3. bias' \in {bias, bias + 1, LAND_SINK_BIAS_MAX} /\ bias' <= bias + 1
  BY <1>1 DEF Descend, Ramps, Least, LAND_SINK_BIAS_MAX
<1>4. CASE fb' = Most(ground, Minus(fb, LandProfile_SinkMps(fb) + bias \div 50)) /\ UNCHANGED floats
  <2> DEFINE sink == LandProfile_SinkMps(fb) + bias \div 50
  <2>1. sink \in Nat /\ sink >= LandProfile_SinkMps(fb)
    BY <1>2
  <2>2. CASE fb' = ground
    BY <1>1, <1>3, <1>4, <2>2 DEF Lands
  <2>3. CASE fb' # ground
    <3>1. fb' \in Nat /\ fb' > ground /\ fb' + sink = fb
      <4> HIDE DEF sink
      <4>1. fb' = Most(ground, Minus(fb, sink))
        BY <1>4 DEF sink
      <4> QED
        BY <4>1, <1>1, <2>1, <2>3 DEF Most, Minus
    <3>2. fb' + LandProfile_SinkMps(fb) <= fb
      BY <3>1, <2>1, <1>1, <1>2
    <3>3. fb' + 5 <= fb /\ Reach(fb') + 130 <= Reach(fb)
      BY <3>1, <3>2, <1>1, ProfileFalls
    <3>4. ~(fb - fb' <= 1) /\ ~(fb - fb' <= 0)
      <4>1. ground <= fb'
        BY <3>1, <1>1
      <4>2. fb' + 5 <= fb
        BY <3>3
      <4> QED
        BY <4>1, <4>2, <3>1, <1>1, FallsClear
    <3>5. bias' = bias
      BY <3>4 DEF Descend, Ramps
    <3>6. stable' = 0
      BY <3>4 DEF Descend, Counts
    <3>7. Falling
      BY Zenon, <1>4, <3>3, <3>5, <3>6 DEF Falling
    <3> QED
      BY <1>1, <1>3, <3>1, <3>7
  <2> QED
    BY <2>2, <2>3
<1>5. CASE floats < FloatTicks /\ fb > ground /\ fb' = fb /\ floats' = floats + 1
  BY <1>1, <1>3, <1>5 DEF Floats
<1>6. \/ /\ fb' = Most(ground, Minus(fb, LandProfile_SinkMps(fb) + bias \div 50))
         /\ UNCHANGED floats
      \/ floats < FloatTicks /\ fb > ground /\ fb' = fb /\ floats' = floats + 1
  BY Zenon DEF Descend, Sinks
<1> QED
  BY Zenon, <1>4, <1>5, <1>6

(* Above the ground the push has no more steps than the floating ticks,    *)
(* and what is left of the time covers what is left of the way down.       *)
LEMMA AirStep ==
  ASSUME TypeOK, ClockOK, TimeInv, AirInv, [Next]_vars
  PROVE  AirInv'
<1>1. CASE Begin
  <2>1. PICK h \in Heights : fb' = h /\ h > ground'
    BY <1>1 DEF Begin
  <2>2. fb' \in Nat /\ ground' \in Nat /\ fb' > ground' /\ landing' /\ from' = fb'
    BY <1>1, <2>1 DEF Begin, LandAssumption
  <2>3. bias' = 0 /\ floats' = 0 /\ timer' = 0
    BY <1>1 DEF Begin, AirInv, TimeInv, detector
  <2>4. Reach(fb') \in Nat /\ Reach(from') = Reach(fb')
    BY <2>2, ReachIsNat
  <2> QED
    BY <2>2, <2>3, <2>4 DEF AirInv
<1>2. CASE Descend
  <2>0. fb' \in Nat /\ fb' >= ground
    BY <1>2, DescentMoves DEF AirInv
  <2>1. /\ Lands \/ Falling \/ Floats
        /\ fb' \in Nat /\ fb' >= ground /\ bias' <= bias + 1
        /\ bias' \in {bias, bias + 1, LAND_SINK_BIAS_MAX}
    BY <1>2, DescentMoves DEF AirInv
  <2>2. landing /\ landing' /\ ground' = ground /\ from' = from
    BY <1>2 DEF Descend
  <2>3. /\ timer' = timer + 1 /\ timer \in Nat /\ bias \in Nat /\ floats \in Nat
        /\ fb \in Nat /\ ground \in Nat /\ bias' \in Nat
    BY <1>2, <2>1 DEF Descend, Counts, TimeInv, ClockOK, TypeOK, LAND_SINK_BIAS_MAX
  <2>4. Reach(fb) \in Nat /\ Reach(fb') \in Nat /\ Reach(from) \in Nat /\ Reach(from') = Reach(from)
    BY <2>1, <2>2, <2>3, ReachIsNat DEF TypeOK
  <2> DEFINE Room == /\ bias <= floats
                     /\ Reach(fb) + 130 * timer <= Reach(from) + 130 * floats
  <2>5. ASSUME fb' # ground PROVE Room'
    <3>1. CASE Lands
      BY <2>5, <3>1 DEF Lands
    <3>2. CASE Falling
      <4>1. fb # ground
        <5>1. fb' + 5 <= fb
          BY <3>2 DEF Falling
        <5> QED
          BY <5>1, <2>0, <2>3, FallsClear
      <4>2. Room
        BY <4>1, <2>2 DEF AirInv
      <4> QED
        BY <3>2, <4>2, <2>3, <2>4 DEF Falling
    <3>3. CASE Floats
      <4>1. Room
        BY <2>2, <3>3 DEF AirInv, Floats
      <4>2. Reach(fb') = Reach(fb)
        BY <3>3 DEF Floats
      <4> QED
        BY <3>3, <4>1, <4>2, <2>1, <2>3, <2>4 DEF Floats
    <3> QED
      BY <2>1, <3>1, <3>2, <3>3
  <2> QED
    BY <2>1, <2>2, <2>5 DEF AirInv
<1>3. CASE SpoolDown
  BY <1>3 DEF SpoolDown, AirInv, Reach
<1>4. CASE Cut
  <2>1. ground \in Nat
    BY DEF TypeOK, LandAssumption
  <2> QED
    BY <1>4, <2>1 DEF Cut, Grounded, AirInv
<1>5. CASE Interrupt
  <2>1. ground \in Nat
    BY DEF TypeOK, LandAssumption
  <2> QED
    BY <1>5, <2>1 DEF Interrupt, Grounded, AirInv
<1>6. CASE UNCHANGED vars
  BY <1>6 DEF vars, detector, AirInv, Reach
<1> QED
  BY <1>1, <1>2, <1>3, <1>4, <1>5, <1>6 DEF Next

(* Above the ground and above the rest height the rest count opens no      *)
(* gate, a still aircraft only once it was carried, and the time limit     *)
(* only when the way down took longer than it.                             *)
LEMMA FadeStep ==
  ASSUME TypeOK, TypeOK', ClockOK, ClockOK', TimeInv, AirInv, AirInv', [Next]_vars
  PROVE  [spool = 0 /\ spool' = 1 => fb' = ground \/ AtRest(fb') \/ OutOfTime' \/ Carried']_vars
<1> SUFFICES ASSUME spool = 0, spool' = 1, fb' # ground, ~AtRest(fb')
             PROVE  OutOfTime' \/ Carried'
  OBVIOUS
<1>1. Descend
  BY DEF Next, vars, detector, Begin, SpoolDown, Cut, Interrupt
<1>2. Touched
  BY <1>1 DEF Descend
<1>3. fb' \in Nat /\ ground' \in Nat /\ from' \in Nat /\ floats' \in Nat /\ timer' \in Nat /\ bias' \in Nat
  BY DEF TypeOK, ClockOK, LandAssumption, LAND_SINK_BIAS_MAX
<1>4. landing' /\ ground' = ground
  BY <1>1 DEF Descend
<1>5. /\ bias' <= floats' /\ fb' > ground'
      /\ Reach(fb') + 130 * timer' <= Reach(from') + 130 * floats'
  BY <1>3, <1>4 DEF AirInv
<1>6. ~(rest' >= LAND_REST_CUT_TICKS)
  BY <1>1 DEF Descend, Counts, LAND_REST_CUT_TICKS
<1>7. CASE bias' >= LAND_SINK_BIAS_MAX
  BY <1>3, <1>5, <1>7 DEF Carried, TypeOK, LAND_SINK_BIAS_MAX
<1>8. CASE timer' >= LandMaxTicks
  <2>1. timer' = LandMaxTicks
    BY <1>3, <1>8 DEF ClockOK, LandAssumption
  <2>2. Reach(ground') < Reach(fb')
    BY <1>3, <1>5, ReachRises
  <2>3. Reach(ground') \in Nat /\ Reach(fb') \in Nat /\ Reach(from') \in Nat
    BY <1>3, ReachIsNat
  <2>4. 130 * LandMaxTicks + Reach(ground') < Reach(from') + 130 * floats'
    BY <1>3, <1>5, <2>1, <2>2, <2>3
  <2> QED
    BY <2>1, <2>4 DEF OutOfTime
<1> QED
  BY <1>2, <1>6, <1>7, <1>8 DEF Touched

(* Of an aircraft that follows its sink command the motors fade on the     *)
(* ground or within the margin of the rest height, unless LAND_MAX_TICKS   *)
(* is less than its way down took or it floated for LAND_SINK_BIAS_MAX     *)
(* ticks, whatever the heights, the ground readings and the limits are.    *)
THEOREM FadesGrounded == Spec => FadesOnTheGround
<1>1. Init => AirInv
  <2> SUFFICES ASSUME Init PROVE AirInv
    OBVIOUS
  <2>1. ground \in Nat
    BY DEF Init, LandAssumption
  <2> QED
    BY <2>1 DEF Init, AirInv
<1>2. TypeOK /\ ClockOK /\ TimeInv /\ AirInv /\ [Next]_vars => AirInv'
  BY AirStep
<1>3. /\ TypeOK /\ TypeOK' /\ ClockOK /\ ClockOK' /\ TimeInv /\ AirInv /\ AirInv' /\ [Next]_vars
      => [spool = 0 /\ spool' = 1 => fb' = ground \/ AtRest(fb') \/ OutOfTime' \/ Carried']_vars
  BY FadeStep
<1>4. Spec => []AirInv
  BY <1>1, <1>2, TypeCorrect, ClockIsExact, PTL DEF Spec
<1> QED
  BY <1>3, <1>4, TypeCorrect, ClockIsExact, PTL DEF Spec, FadesOnTheGround
=============================================================================
