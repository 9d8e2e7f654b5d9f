-------------------------- MODULE FlightCoreProofs --------------------------
(***************************************************************************)
(* What FlightCore guarantees for every value of its constants: every      *)
(* count of the kill switch, every landing limit, every set of commands    *)
(* and any number of ticks inside one ground-station handler.              *)
(*                                                                         *)
(* The invariant that is inductive is TypeOK /\ IndInv.  TypeOK is split   *)
(* into FlagsOK and ValuesOK because Zenon carries the Boolean variables   *)
(* and the SMT solver the rest.                                            *)
(***************************************************************************)
EXTENDS FlightCore, TLAPS

USE TicksAssumption

(* No step takes a flag out of BOOLEAN.                                    *)
LEMMA FlagsStep == FlagsOK /\ [Next]_vars => FlagsOK'
<1> SUFFICES ASSUME FlagsOK, [Next]_vars PROVE FlagsOK'
  OBVIOUS
<1> USE DEF FlagsOK,
            fsm, landing, glue, rest, send
<1>1. CASE LeftStick
  BY Zenon, <1>1 DEF LeftStick, FlightFSM_Event, ArmRequest
<1>2. CASE RightStick
  BY Zenon, <1>2 DEF RightStick
<1>3. CASE RightStickWrite
  BY Zenon, <1>3 DEF RightStickWrite
<1>4. CASE Kill
  BY Zenon, <1>4 DEF Kill, FlightFSM_Event
<1>5. CASE Ch5
  BY Zenon, <1>5 DEF Ch5
<1>6. CASE Ch5Write
  BY Zenon, <1>6 DEF Ch5Write
<1>7. CASE Ch7
  BY Zenon, <1>7 DEF Ch7, ArmRequest, FlightFSM_Event
<1>8. CASE WfbStep
  BY Zenon, <1>8 DEF WfbStep, FlightFSM_Event
<1>9. CASE WfbWrite
  BY Zenon, <1>9 DEF WfbWrite
<1>10. CASE GsIdle_ReleaseOnDisarm
  BY Zenon, <1>10 DEF GsIdle_ReleaseOnDisarm
<1>11. CASE Desired
  BY Zenon, <1>11 DEF Desired
<1>12. CASE LandGate
  BY Zenon, <1>12 DEF LandGate
<1>13. CASE LandGateWrite
  BY Zenon, <1>13 DEF LandGateWrite
<1>14. CASE Update
  BY Zenon, <1>14 DEF Update
<1>15. CASE ActStopped
  BY Zenon, <1>15 DEF ActStopped, Land_ResetDetector
<1>16. CASE ActDisarmed
  BY Zenon, <1>16 DEF ActDisarmed, Land_ResetDetector
<1>17. CASE LandStep
  BY Zenon, <1>17 DEF LandStep, Land_ResetDetector
<1>18. CASE Cut
  BY Zenon, <1>18 DEF Cut, FlightFSM_Event
<1>19. CASE GroundIdle
  BY Zenon, <1>19 DEF GroundIdle, ThrottleLow
<1>20. CASE FlyWrite
  BY Zenon, <1>20 DEF FlyWrite
<1>21. CASE IdleOutput
  BY Zenon, <1>21 DEF IdleOutput, ThrottleLow
<1>22. CASE Fly
  BY Zenon, <1>22 DEF Fly
<1>23. CASE DropAuthority
  BY Zenon, <1>23 DEF DropAuthority
<1>24. CASE PathArbitrate
  BY Zenon, <1>24 DEF PathArbitrate
<1>25. CASE ScriptStop
  BY Zenon, <1>25 DEF ScriptStop, FlightFSM_Event
<1>26. CASE GsArm
  BY Zenon, <1>26 DEF GsArm, ArmRequest, Begins, FlightFSM_Event
<1>27. CASE GsArmOff
  BY Zenon, <1>27 DEF GsArmOff, Begins
<1>28. CASE GsIdleOn
  BY Zenon, <1>28 DEF GsIdleOn, Begins
<1>29. CASE GsIdleOff
  BY Zenon, <1>29 DEF GsIdleOff, Begins
<1>30. CASE GsAbort
  BY Zenon, <1>30 DEF GsAbort, Begins
<1>31. CASE GsRecover
  BY Zenon, <1>31 DEF GsRecover, FlightFSM_Event, Begins
<1>32. CASE GsExecute
  BY Zenon, <1>32 DEF GsExecute, Begins
<1>33. CASE GsThrottle
  BY Zenon, <1>33 DEF GsThrottle, Begins
<1>34. CASE GsTakeoff
  BY Zenon, <1>34 DEF GsTakeoff, Begins
<1>35. CASE GsLand
  BY Zenon, <1>35 DEF GsLand, Begins
<1>36. CASE GsBench
  BY Zenon, <1>36 DEF GsBench, Begins
<1>37. CASE GsArmCheck
  BY Zenon, <1>37 DEF GsArmCheck, Goes
<1>38. CASE GsArmGrant
  BY Zenon, <1>38 DEF GsArmGrant, Goes
<1>39. CASE GsArmLift
  BY Zenon, <1>39 DEF GsArmLift, Goes
<1>40. CASE GsIdleGrant
  BY Zenon, <1>40 DEF GsIdleGrant, Goes
<1>41. CASE GsIdleWrite
  BY Zenon, <1>41 DEF GsIdleWrite, Goes
<1>42. CASE GsIdleClear
  BY Zenon, <1>42 DEF GsIdleClear, Goes
<1>43. CASE GsAbortStop
  BY Zenon, <1>43 DEF GsAbortStop, FlightFSM_Event, Goes
<1>44. CASE UNCHANGED vars
  BY Zenon, <1>44 DEF vars
<1> QED
  BY <1>1, <1>2, <1>3, <1>4, <1>5, <1>6, <1>7, <1>8, <1>9, <1>10, <1>11, <1>12,
     <1>13, <1>14, <1>15, <1>16, <1>17, <1>18, <1>19, <1>20, <1>21, <1>22, <1>23, <1>24,
     <1>25, <1>26, <1>27, <1>28, <1>29, <1>30, <1>31, <1>32, <1>33, <1>34, <1>35, <1>36,
     <1>37, <1>38, <1>39, <1>40, <1>41, <1>42, <1>43, <1>44
  DEF Next, Stabilizer, SendBegin, SendContinue

(* What the glue records of the vehicle is made of the three facts.        *)
LEMMA SnapshotType == Snapshot \subseteq {"armed", "idle", "air"}
BY Zenon DEF Snapshot

(* Every step keeps the values in their ranges and the reasons why the     *)
(* safety properties hold: the two go together, since the landing timer    *)
(* stays in its range only because a landing out of time has started its   *)
(* spool-down.                                                             *)
LEMMA IndStep == ValuesOK /\ IndInv /\ [Next]_vars => ValuesOK' /\ IndInv'
<1> SUFFICES ASSUME ValuesOK, IndInv, [Next]_vars PROVE ValuesOK' /\ IndInv'
  OBVIOUS
<1> USE DEF ValuesOK, States, Phases, Sticks, Outputs, BeforeKill, AfterKill, SendSteps,
            IndInv, TickInv, DisarmedOnGround, LandedOnlyInCut, Still, KillInv,
            LandInv, FlyupConsumedInTick,
            fsm, landing, glue, rest, send
<1>1. CASE LeftStick
  BY <1>1 DEF LeftStick, FlightFSM_Event, ArmRequest, Target
<1>2. CASE RightStick
  BY <1>2 DEF RightStick
<1>3. CASE RightStickWrite
  BY <1>3 DEF RightStickWrite
<1>4. CASE Kill
  BY <1>4 DEF Kill, FlightFSM_Event, Target
<1>5. CASE Ch5
  BY <1>5 DEF Ch5
<1>6. CASE Ch5Write
  BY <1>6 DEF Ch5Write
<1>7. CASE Ch7
  BY <1>7 DEF Ch7, ArmRequest, FlightFSM_Event, Target
<1>8. CASE WfbStep
  <2>1. seen' \subseteq {"armed", "idle", "air"}
    BY <1>8, SnapshotType DEF WfbStep
  <2>2. CASE FlightFSM_Event("DANGEROUS_STOP")
    BY <1>8, <2>1, <2>2 DEF WfbStep, FlightFSM_Event, Target
  <2>3. CASE UNCHANGED fsm
    BY <1>8, <2>1, <2>3 DEF WfbStep
  <2> QED
    BY <1>8, <2>2, <2>3 DEF WfbStep
<1>9. CASE WfbWrite
  BY <1>9 DEF WfbWrite
<1>10. CASE GsIdle_ReleaseOnDisarm
  BY <1>10 DEF GsIdle_ReleaseOnDisarm
<1>11. CASE Desired
  BY <1>11 DEF Desired
<1>12. CASE LandGate
  BY <1>12 DEF LandGate
<1>13. CASE LandGateWrite
  BY <1>13 DEF LandGateWrite
<1>14. CASE Update
  BY <1>14 DEF Update
<1>15. CASE ActStopped
  BY <1>15 DEF ActStopped, Land_ResetDetector
<1>16. CASE ActDisarmed
  BY <1>16 DEF ActDisarmed, Land_ResetDetector
<1>17. CASE LandStep
  BY <1>17 DEF LandStep, Land_ResetDetector
<1>18. CASE Cut
  BY <1>18 DEF Cut, FlightFSM_Event, Target
<1>19. CASE GroundIdle
  BY <1>19 DEF GroundIdle, ThrottleLow
<1>20. CASE FlyWrite
  BY <1>20 DEF FlyWrite
<1>21. CASE IdleOutput
  BY <1>21 DEF IdleOutput, ThrottleLow
<1>22. CASE Fly
  BY <1>22 DEF Fly
<1>23. CASE DropAuthority
  BY <1>23 DEF DropAuthority
<1>24. CASE PathArbitrate
  BY <1>24 DEF PathArbitrate
<1>25. CASE ScriptStop
  BY <1>25 DEF ScriptStop, FlightFSM_Event, Target
<1>26. CASE GsArm
  BY <1>26 DEF GsArm, ArmRequest, Begins, FlightFSM_Event, Target
<1>27. CASE GsArmOff
  BY <1>27 DEF GsArmOff, Begins
<1>28. CASE GsIdleOn
  BY <1>28 DEF GsIdleOn, Begins
<1>29. CASE GsIdleOff
  BY <1>29 DEF GsIdleOff, Begins
<1>30. CASE GsAbort
  BY <1>30 DEF GsAbort, Begins
<1>31. CASE GsRecover
  BY <1>31 DEF GsRecover, FlightFSM_Event, Begins, Target
<1>32. CASE GsExecute
  BY <1>32 DEF GsExecute, Begins
<1>33. CASE GsThrottle
  BY <1>33 DEF GsThrottle, Begins
<1>34. CASE GsTakeoff
  BY <1>34 DEF GsTakeoff, Begins
<1>35. CASE GsLand
  BY <1>35 DEF GsLand, Begins
<1>36. CASE GsBench
  BY <1>36 DEF GsBench, Begins
<1>37. CASE GsArmCheck
  BY <1>37 DEF GsArmCheck, Goes
<1>38. CASE GsArmGrant
  BY <1>38 DEF GsArmGrant, Goes
<1>39. CASE GsArmLift
  BY <1>39 DEF GsArmLift, Goes
<1>40. CASE GsIdleGrant
  BY <1>40 DEF GsIdleGrant, Goes
<1>41. CASE GsIdleWrite
  BY <1>41 DEF GsIdleWrite, Goes
<1>42. CASE GsIdleClear
  BY <1>42 DEF GsIdleClear, Goes
<1>43. CASE GsAbortStop
  BY <1>43 DEF GsAbortStop, FlightFSM_Event, Goes, Target
<1>44. CASE UNCHANGED vars
  BY <1>44 DEF vars
<1> QED
  BY <1>1, <1>2, <1>3, <1>4, <1>5, <1>6, <1>7, <1>8, <1>9, <1>10, <1>11, <1>12,
     <1>13, <1>14, <1>15, <1>16, <1>17, <1>18, <1>19, <1>20, <1>21, <1>22, <1>23, <1>24,
     <1>25, <1>26, <1>27, <1>28, <1>29, <1>30, <1>31, <1>32, <1>33, <1>34, <1>35, <1>36,
     <1>37, <1>38, <1>39, <1>40, <1>41, <1>42, <1>43, <1>44
  DEF Next, Stabilizer, SendBegin, SendContinue

(* The inductive invariant of the flight core.                             *)
THEOREM Inductive == Spec => [](TypeOK /\ IndInv)
<1>1. Init => TypeOK /\ IndInv
  <2> SUFFICES ASSUME Init PROVE TypeOK /\ IndInv
    OBVIOUS
  <2>1. FlagsOK
    BY Zenon DEF Init, FlagsOK
  <2>2. ValuesOK /\ IndInv
    BY DEF Init, ValuesOK, States, Phases, Sticks, Outputs, BeforeKill, AfterKill, SendSteps,
       IndInv, TickInv, DisarmedOnGround, LandedOnlyInCut, Still, KillInv,
       LandInv, FlyupConsumedInTick
  <2> QED
    BY <2>1, <2>2 DEF TypeOK
<1>2. (TypeOK /\ IndInv) /\ [Next]_vars => (TypeOK /\ IndInv)'
  BY FlagsStep, IndStep DEF TypeOK
<1> QED
  BY <1>1, <1>2, PTL DEF Spec

(* Every variable keeps its type, and every counter its bound.             *)
THEOREM TypeCorrect == Spec => []TypeOK
BY Inductive, PTL

(* A disarmed drone is in GROUND_IDLE: the late phase writes of the ch5,   *)
(* glue, battery and take-off branches can meet a stop, never a disarm.    *)
THEOREM DisarmedIsOnGround == Spec => []DisarmedOnGround
<1>1. TypeOK /\ IndInv => DisarmedOnGround
  BY DEF IndInv, TickInv
<1> QED
  BY <1>1, Inductive, PTL

(* LANDED is seen only between the two statements of Land_Step's cut.      *)
THEOREM LandedIsTransient == Spec => []LandedOnlyInCut
<1>1. TypeOK /\ IndInv => LandedOnlyInCut
  BY DEF IndInv, TickInv
<1> QED
  BY <1>1, Inductive, PTL

(* A kill switch held past its count leaves every motor at zero.           *)
THEOREM KillIsSilent == Spec => []KillSilencesMotors
<1>1. TypeOK /\ IndInv => KillSilencesMotors
  BY DEF IndInv, KillInv, KillSilencesMotors
<1> QED
  BY <1>1, Inductive, PTL

(* A fly-up request is consumed by the tick that raised it.                *)
THEOREM FlyupIsConsumed == Spec => []FlyupConsumedInTick
<1>1. TypeOK /\ IndInv => FlyupConsumedInTick
  BY DEF IndInv
<1> QED
  BY <1>1, Inductive, PTL

(* An event of the arm state machine that arms shuts the idle gate, and    *)
(* finds the sub-phase where the last disarm left it.                      *)
LEMMA EventArmsCold ==
  ASSUME NEW event, state \in States, DisarmedOnGround, FlightFSM_Event(event),
         state # "ARMED", state' = "ARMED"
  PROVE  phase' = "GROUND_IDLE" /\ ~idle'
<1>1. state = "DISARMED"
  BY DEF FlightFSM_Event, Target, States
<1>2. phase' = "GROUND_IDLE"
  BY <1>1 DEF FlightFSM_Event, DisarmedOnGround
<1>3. ~idle'
  BY Zenon DEF FlightFSM_Event
<1> QED
  BY <1>2, <1>3

(* Only an event of the arm state machine writes the state.                *)
LEMMA OnlyEventsWriteState ==
  [Next]_vars => UNCHANGED state \/ \E event : FlightFSM_Event(event)
<1> SUFFICES ASSUME [Next]_vars
             PROVE  UNCHANGED state \/ \E event : FlightFSM_Event(event)
  OBVIOUS
<1> USE DEF ArmRequest, fsm, landing
<1>1. CASE Stabilizer
  BY Zenon, <1>1 DEF Stabilizer, LeftStick, RightStick, RightStickWrite, Kill, Ch5, Ch5Write,
     Ch7, WfbStep, WfbWrite, GsIdle_ReleaseOnDisarm, Desired, LandGate, LandGateWrite, Update,
     ActStopped, ActDisarmed, LandStep, Cut, GroundIdle, FlyWrite, IdleOutput, Fly
<1>2. CASE DropAuthority \/ PathArbitrate \/ ScriptStop
  BY Zenon, <1>2 DEF DropAuthority, PathArbitrate, ScriptStop
<1>3. CASE SendBegin
  BY Zenon, <1>3 DEF SendBegin, GsArm, GsArmOff, GsIdleOn, GsIdleOff, GsAbort, GsRecover,
     GsExecute, GsThrottle, GsTakeoff, GsLand, GsBench
<1>4. CASE SendContinue
  BY Zenon, <1>4 DEF SendContinue, GsArmCheck, GsArmGrant, GsArmLift, GsIdleGrant,
     GsIdleWrite, GsIdleClear, GsAbortStop
<1>5. CASE UNCHANGED vars
  BY <1>5 DEF vars
<1> QED
  BY <1>1, <1>2, <1>3, <1>4, <1>5 DEF Next

(* Arming starts on the ground with the idle gate shut.                    *)
THEOREM ArmingIsCold == Spec => ArmsCold
<1>1. TypeOK /\ IndInv /\ [Next]_vars
        => [state # "ARMED" /\ state' = "ARMED" => phase' = "GROUND_IDLE" /\ ~idle']_vars
  <2> SUFFICES ASSUME TypeOK, IndInv, [Next]_vars, state # "ARMED", state' = "ARMED"
               PROVE  phase' = "GROUND_IDLE" /\ ~idle'
    OBVIOUS
  <2>1. state \in States /\ DisarmedOnGround
    BY DEF TypeOK, ValuesOK, IndInv, TickInv
  <2>2. PICK event : FlightFSM_Event(event)
    BY OnlyEventsWriteState
  <2> QED
    BY <2>1, <2>2, EventArmsCold
<1> QED
  BY <1>1, Inductive, PTL DEF Spec, ArmsCold

(* An arm request arms a disarmed drone, cold, and does nothing else.       *)
LEMMA ArmMoves ==
  ASSUME FlagsOK, ValuesOK, DisarmedOnGround, ArmRequest
  PROVE  Lifecycle!Arm \/ UNCHANGED Stage
<1> USE DEF Stage, fsm
<1>1. CASE UNCHANGED fsm
  BY <1>1
<1>2. CASE FlightFSM_Event("ARM_REQUEST") /\ state = "DISARMED"
  <2>1. state' = "ARMED"
    BY <1>2 DEF FlightFSM_Event, Target
  <2>2. phase' = "GROUND_IDLE" /\ ~idle'
    BY <1>2, <2>1, EventArmsCold DEF ValuesOK
  <2> QED
    BY <1>2, <2>1, <2>2 DEF Lifecycle!Arm, Lifecycle!Move
<1>3. CASE FlightFSM_Event("ARM_REQUEST") /\ state # "DISARMED"
  <2>1. state' = state
    BY <1>3 DEF FlightFSM_Event, Target
  <2>2. phase' = phase /\ idle' = idle
    BY Zenon, <1>3, <2>1 DEF FlightFSM_Event, FlagsOK
  <2> QED
    BY <2>1, <2>2
<1> QED
  BY <1>1, <1>2, <1>3 DEF ArmRequest

(* Every step moves the flight along one edge of FlightLifecycle, or none. *)
LEMMA LifecycleStep == TypeOK /\ IndInv /\ [Next]_vars => [Lifecycle!Next]_Stage
<1> SUFFICES ASSUME FlagsOK, ValuesOK, TickInv, [Next]_vars PROVE [Lifecycle!Next]_Stage
  BY DEF TypeOK, IndInv
<1> USE DEF FlagsOK, ValuesOK, TickInv, DisarmedOnGround, LandedOnlyInCut, Still,
            States, Phases, Stage,
            Lifecycle!Next, Lifecycle!Move, Lifecycle!Arm, Lifecycle!EnableIdle,
            Lifecycle!DisableIdle, Lifecycle!TakeOff, Lifecycle!Land, Lifecycle!Disarm,
            Lifecycle!Stop, Lifecycle!Recover, Lifecycle!LateIdle, Lifecycle!Stages,
            Lifecycle!Armed,
            fsm, landing, glue, rest, send
<1>1. CASE LeftStick
  BY SMT, <1>1, ArmMoves DEF LeftStick, FlightFSM_Event, Target
<1>2. CASE RightStick
  BY SMT, <1>2 DEF RightStick
<1>3. CASE RightStickWrite
  BY SMT, <1>3 DEF RightStickWrite
<1>4. CASE Kill
  BY SMT, <1>4 DEF Kill, FlightFSM_Event, Target
<1>5. CASE Ch5
  BY SMT, <1>5 DEF Ch5
<1>6. CASE Ch5Write
  BY SMT, <1>6 DEF Ch5Write
<1>7. CASE Ch7
  BY SMT, <1>7, ArmMoves DEF Ch7
<1>8. CASE WfbStep
  BY SMT, <1>8 DEF WfbStep, FlightFSM_Event, Snapshot, Target
<1>9. CASE WfbWrite
  BY SMT, <1>9 DEF WfbWrite
<1>10. CASE GsIdle_ReleaseOnDisarm
  BY SMT, <1>10 DEF GsIdle_ReleaseOnDisarm
<1>11. CASE Desired
  BY SMT, <1>11 DEF Desired
<1>12. CASE LandGate
  BY SMT, <1>12 DEF LandGate
<1>13. CASE LandGateWrite
  BY SMT, <1>13 DEF LandGateWrite
<1>14. CASE Update
  BY SMT, <1>14 DEF Update
<1>15. CASE ActStopped
  BY SMT, <1>15 DEF ActStopped, Land_ResetDetector
<1>16. CASE ActDisarmed
  BY SMT, <1>16 DEF ActDisarmed, Land_ResetDetector
<1>17. CASE LandStep
  BY SMT, <1>17 DEF LandStep, Land_ResetDetector
<1>18. CASE Cut
  BY SMT, <1>18 DEF Cut, FlightFSM_Event, Target
<1>19. CASE GroundIdle
  BY SMT, <1>19 DEF GroundIdle, ThrottleLow
<1>20. CASE FlyWrite
  BY SMT, <1>20 DEF FlyWrite
<1>21. CASE IdleOutput
  BY SMT, <1>21 DEF IdleOutput, ThrottleLow
<1>22. CASE Fly
  BY SMT, <1>22 DEF Fly
<1>23. CASE DropAuthority
  BY SMT, <1>23 DEF DropAuthority
<1>24. CASE PathArbitrate
  BY SMT, <1>24 DEF PathArbitrate
<1>25. CASE ScriptStop
  BY SMT, <1>25 DEF ScriptStop, FlightFSM_Event, Target
<1>26. CASE GsArm
  BY <1>26, ArmMoves DEF GsArm
<1>27. CASE GsArmOff
  BY SMT, <1>27 DEF GsArmOff, Begins
<1>28. CASE GsIdleOn
  BY SMT, <1>28 DEF GsIdleOn, Begins
<1>29. CASE GsIdleOff
  BY SMT, <1>29 DEF GsIdleOff, Begins
<1>30. CASE GsAbort
  BY SMT, <1>30 DEF GsAbort, Begins
<1>31. CASE GsRecover
  BY SMT, <1>31 DEF GsRecover, FlightFSM_Event, Begins, Target
<1>32. CASE GsExecute
  BY SMT, <1>32 DEF GsExecute, Begins
<1>33. CASE GsThrottle
  BY SMT, <1>33 DEF GsThrottle, Begins
<1>34. CASE GsTakeoff
  BY SMT, <1>34 DEF GsTakeoff, Begins
<1>35. CASE GsLand
  BY SMT, <1>35 DEF GsLand, Begins
<1>36. CASE GsBench
  BY SMT, <1>36 DEF GsBench, Begins
<1>37. CASE GsArmCheck
  BY SMT, <1>37 DEF GsArmCheck, Goes
<1>38. CASE GsArmGrant
  BY SMT, <1>38 DEF GsArmGrant, Goes
<1>39. CASE GsArmLift
  BY SMT, <1>39 DEF GsArmLift, Goes
<1>40. CASE GsIdleGrant
  BY SMT, <1>40 DEF GsIdleGrant, Goes
<1>41. CASE GsIdleWrite
  BY SMT, <1>41 DEF GsIdleWrite, Goes
<1>42. CASE GsIdleClear
  BY SMT, <1>42 DEF GsIdleClear, Goes
<1>43. CASE GsAbortStop
  BY SMT, <1>43 DEF GsAbortStop, FlightFSM_Event, Goes, Target
<1>44. CASE UNCHANGED vars
  BY SMT, <1>44 DEF vars
<1> QED
  BY <1>1, <1>2, <1>3, <1>4, <1>5, <1>6, <1>7, <1>8, <1>9, <1>10, <1>11, <1>12,
     <1>13, <1>14, <1>15, <1>16, <1>17, <1>18, <1>19, <1>20, <1>21, <1>22, <1>23, <1>24,
     <1>25, <1>26, <1>27, <1>28, <1>29, <1>30, <1>31, <1>32, <1>33, <1>34, <1>35, <1>36,
     <1>37, <1>38, <1>39, <1>40, <1>41, <1>42, <1>43, <1>44
  DEF Next, Stabilizer, SendBegin, SendContinue

(* The flight core implements FlightLifecycle.                             *)
THEOREM ImplementsLifecycle == Spec => RefinesLifecycle
<1>1. Init => Lifecycle!Init
  BY DEF Init, Lifecycle!Init, Stage
<1> QED
  BY <1>1, Inductive, LifecycleStep, PTL DEF Spec, RefinesLifecycle, Lifecycle!Spec
-----------------------------------------------------------------------------
(* A stop reaches the motors.  Silent is where it has; a tick is Cold when *)
(* it will silence them: stopped before the motor branch, or disarmed by a *)
(* recover, or armed again by ch7 with the idle gate shut.  A stop that    *)
(* comes after Update_Motor's copy of the state is Late, and is met by the *)
(* tick that follows.                                                      *)
Silent == motors \in {"ZERO", "BENCH"} \/ ArmedAgain

Cold ==
  \/ /\ pc \in {"wait", "gesture", "idle_write", "kill", "ch5", "ch5_write", "ch7"}
     /\ state # "ARMED"
  \/ /\ pc \in {"wfb", "wfb_write", "release", "desired", "gate", "gate_write", "update"}
     /\ state = "ARMED" => phase = "GROUND_IDLE" /\ ~idle
  \/ pc = "act" /\ (snap = "ARMED" => phase = "GROUND_IDLE" /\ ~idle)

Late == pc \in {"act", "fly_write", "output", "cut"} /\ state = "EMERGENCY"

Owes == ~Silent /\ (Cold \/ Late)

(* Steps of the stabilizer until the motors are silent, at most.           *)
StepsLeft ==
  LET order == [wait |-> 15, gesture |-> 14, idle_write |-> 13, kill |-> 12, ch5 |-> 11,
                ch5_write |-> 10, ch7 |-> 9, wfb |-> 8, wfb_write |-> 7, release |-> 6,
                desired |-> 5, gate |-> 4, gate_write |-> 3, update |-> 2, act |-> 18,
                fly_write |-> 17, output |-> 16, cut |-> 16]
  IN  IF pc = "act" /\ Cold THEN 1 ELSE order[pc]

Nearer == Owes' /\ StepsLeft' < StepsLeft

(* A handler of Send_Task runs between two ticks.                          *)
LEMMA BetweenTicks == SendBegin \/ SendContinue => pc = "wait" /\ pc' = pc
<1>1. CASE SendBegin
  BY Zenon, <1>1 DEF SendBegin, Begins, GsArm, GsArmOff, GsIdleOn, GsIdleOff, GsAbort, GsRecover,
     GsExecute, GsThrottle, GsTakeoff, GsLand, GsBench
<1>2. CASE SendContinue
  BY Zenon, <1>2 DEF SendContinue, Goes, GsArmCheck, GsArmGrant, GsArmLift, GsIdleGrant,
     GsIdleWrite, GsIdleClear, GsAbortStop
<1> QED
  BY <1>1, <1>2

(* Every step of the stabilizer brings the silence nearer.                 *)
LEMMA StopStep == TypeOK /\ IndInv /\ Owes /\ Stabilizer => Silent' \/ Nearer
<1> SUFFICES ASSUME FlagsOK, ValuesOK, TickInv, Owes, Stabilizer, ~Silent' PROVE Nearer
  BY DEF TypeOK, IndInv
<1> USE DEF ValuesOK, TickInv, DisarmedOnGround, LandedOnlyInCut, Still,
            States, Phases, Outputs, BeforeKill, AfterKill,
            Nearer, Owes, Silent, ArmedAgain, Cold, Late, StepsLeft,
            fsm, landing, glue, rest, send
<1>1. CASE LeftStick
  BY <1>1 DEF LeftStick, ArmRequest, FlightFSM_Event, Target
<1>2. CASE RightStick
  BY <1>2 DEF RightStick
<1>3. CASE RightStickWrite
  BY <1>3 DEF RightStickWrite
<1>4. CASE Kill
  BY <1>4 DEF Kill, FlightFSM_Event, Target
<1>5. CASE Ch5
  BY <1>5 DEF Ch5
<1>6. CASE Ch5Write
  BY <1>6 DEF Ch5Write
<1>7. CASE Ch7
  <2>1. pc' = "wfb" /\ pc = "ch7" /\ motors' = motors /\ state # "ARMED"
    BY <1>7 DEF Ch7
  <2>2. UNCHANGED fsm \/ FlightFSM_Event("ARM_REQUEST")
    BY Zenon, <1>7, <2>1 DEF Ch7, ArmRequest
  <2>3. state' = "ARMED" => phase' = "GROUND_IDLE" /\ ~idle'
    BY <2>1, <2>2, EventArmsCold
  <2> QED
    BY <2>1, <2>3
<1>8. CASE WfbStep
  BY <1>8 DEF WfbStep, FlightFSM_Event, Target
<1>9. CASE WfbWrite
  BY <1>9 DEF WfbWrite
<1>10. CASE GsIdle_ReleaseOnDisarm
  BY <1>10 DEF GsIdle_ReleaseOnDisarm
<1>11. CASE Desired
  BY <1>11 DEF Desired
<1>12. CASE LandGate
  BY <1>12 DEF LandGate
<1>13. CASE LandGateWrite
  BY <1>13 DEF LandGateWrite
<1>14. CASE Update
  BY <1>14 DEF Update
<1>15. CASE ActStopped
  BY <1>15 DEF ActStopped
<1>16. CASE ActDisarmed
  BY <1>16 DEF ActDisarmed
<1>17. CASE LandStep
  BY <1>17 DEF LandStep
<1>18. CASE Cut
  BY <1>18 DEF Cut, FlightFSM_Event, Target
<1>19. CASE GroundIdle
  <2>1. CASE idle
    <3>1. /\ motors' = motors /\ (pc' = "output" \/ pc' = "fly_write")
          /\ UNCHANGED <<state, phase, idle, snap>>
      BY Zenon, <1>19, <2>1 DEF GroundIdle
    <3>2. pc = "act" /\ snap = "ARMED" /\ phase = "GROUND_IDLE"
      BY Zenon, <1>19 DEF GroundIdle
    <3>3. state = "EMERGENCY"
      BY <2>1, <3>2
    <3>4. pc' \in {"output", "fly_write"} /\ state' = "EMERGENCY"
      BY Zenon, <3>1, <3>3
    <3>5. ~Cold
      BY <2>1, <3>2
    <3> QED
      BY <3>2, <3>4, <3>5
  <2>2. CASE ~idle
    BY <1>19, <2>2 DEF GroundIdle
  <2> QED
    BY <2>1, <2>2
<1>20. CASE FlyWrite
  BY <1>20 DEF FlyWrite
<1>21. CASE IdleOutput
  BY <1>21 DEF IdleOutput, ThrottleLow
<1>22. CASE Fly
  BY <1>22 DEF Fly
<1> QED
  BY <1>1, <1>2, <1>3, <1>4, <1>5, <1>6, <1>7, <1>8, <1>9, <1>10, <1>11,
     <1>12, <1>13, <1>14, <1>15, <1>16, <1>17, <1>18, <1>19, <1>20, <1>21, <1>22 DEF Stabilizer

(* And every other step of the system keeps it as near.                    *)
LEMMA StopKept ==
  ASSUME TypeOK, IndInv, Owes, [Next]_vars, ~Stabilizer, ~Silent'
  PROVE  pc' = pc /\ Owes' /\ StepsLeft' = StepsLeft
<1> USE DEF Owes, Silent, ArmedAgain, Cold, Late, StepsLeft, States, Target, FlightFSM_Event,
            fsm, landing, glue, rest, send
<1>1. CASE DropAuthority \/ PathArbitrate \/ UNCHANGED vars
  BY <1>1 DEF DropAuthority, PathArbitrate, vars
<1>2. CASE ScriptStop
  BY <1>2 DEF ScriptStop, TypeOK, ValuesOK, IndInv, TickInv, DisarmedOnGround
<1>3. CASE SendBegin \/ SendContinue
  <2>1. pc = "wait" /\ pc' = pc /\ state # "ARMED"
    BY <1>3, BetweenTicks
  <2>2. state' # "ARMED"
    BY <2>1 DEF ArmedAgain, BeforeKill
  <2> QED
    BY <2>1, <2>2
<1> QED
  BY <1>1, <1>2, <1>3 DEF Next

(* Owed(k): the motors will be silent within k steps of the stabilizer.    *)
Owed(k) == TypeOK /\ IndInv /\ Owes /\ StepsLeft <= k

LEMMA StepsLeftRange == ASSUME ValuesOK PROVE StepsLeft \in 1 .. 18
  BY DEF StepsLeft, ValuesOK, BeforeKill, AfterKill

LEMMA StepsLeftRangeNext == ASSUME ValuesOK' PROVE StepsLeft' \in 1 .. 18
  BY DEF StepsLeft, ValuesOK, BeforeKill, AfterKill

(* The stabilizer pays one of them, and nobody else takes one back.        *)
LEMMA OneStep ==
  ASSUME NEW k \in Nat
  PROVE  /\ Owed(k + 1) /\ TypeOK' /\ IndInv' /\ [Next]_vars => (Silent \/ Owed(k + 1))'
         /\ Owed(k + 1) /\ TypeOK' /\ IndInv' /\ [Next]_vars /\ <<pc' # pc>>_pc
              => (Silent \/ Owed(k))'
<1> SUFFICES ASSUME Owed(k + 1), TypeOK', IndInv', [Next]_vars, ~Silent'
             PROVE  Owed(k + 1)' /\ (pc' # pc => Owed(k)')
  OBVIOUS
<1>1. StepsLeft \in 1 .. 18 /\ StepsLeft' \in 1 .. 18 /\ StepsLeft <= k + 1
  BY StepsLeftRange, StepsLeftRangeNext, Zenon DEF Owed, TypeOK
<1>2. CASE Stabilizer
  <2>1. Owes' /\ StepsLeft' < StepsLeft
    BY <1>2, StopStep DEF Owed, Nearer
  <2>2. StepsLeft' <= k /\ StepsLeft' <= k + 1
    BY <1>1, <2>1
  <2> QED
    BY <2>1, <2>2, Zenon DEF Owed
<1>3. CASE ~Stabilizer
  <2>1. pc' = pc /\ Owes' /\ StepsLeft' = StepsLeft
    BY <1>3, StopKept DEF Owed
  <2> QED
    BY <1>1, <2>1, Zenon DEF Owed
<1> QED
  BY <1>2, <1>3

(* The stop reaches the motors: a chain of eighteen steps at most, each    *)
(* taken by the stabilizer because its ticks never cease.                  *)
THEOREM StopReachesMotors == FairSpec => StopSilencesMotors
<1>0. TypeOK /\ IndInv /\ state = "EMERGENCY" => Silent \/ Owed(18)
  <2> SUFFICES ASSUME TypeOK, IndInv, state = "EMERGENCY", ~Silent PROVE Owed(18)
    OBVIOUS
  <2>1. Owes
    BY DEF Owes, Cold, Late, Silent, ArmedAgain, TypeOK, ValuesOK, BeforeKill, AfterKill
  <2>2. StepsLeft <= 18
    BY StepsLeftRange DEF TypeOK
  <2> QED
    BY <2>1, <2>2, Zenon DEF Owed
<1>z. ~Owed(0)
  <2> SUFFICES ASSUME ValuesOK, StepsLeft <= 0 PROVE FALSE
    BY Zenon DEF Owed, TypeOK
  <2> QED
    BY StepsLeftRange
<1>1. /\ Owed(1) /\ TypeOK' /\ IndInv' /\ [Next]_vars => Silent' \/ Owed(1)'
      /\ Owed(1) /\ TypeOK' /\ IndInv' /\ [Next]_vars /\ <<pc' # pc>>_pc
           => Silent' \/ Owed(0)'
  BY OneStep, 0 \in Nat, 0 + 1 = 1
<1>2. /\ Owed(2) /\ TypeOK' /\ IndInv' /\ [Next]_vars => Silent' \/ Owed(2)'
      /\ Owed(2) /\ TypeOK' /\ IndInv' /\ [Next]_vars /\ <<pc' # pc>>_pc
           => Silent' \/ Owed(1)'
  BY OneStep, 1 \in Nat, 1 + 1 = 2
<1>3. /\ Owed(3) /\ TypeOK' /\ IndInv' /\ [Next]_vars => Silent' \/ Owed(3)'
      /\ Owed(3) /\ TypeOK' /\ IndInv' /\ [Next]_vars /\ <<pc' # pc>>_pc
           => Silent' \/ Owed(2)'
  BY OneStep, 2 \in Nat, 2 + 1 = 3
<1>4. /\ Owed(4) /\ TypeOK' /\ IndInv' /\ [Next]_vars => Silent' \/ Owed(4)'
      /\ Owed(4) /\ TypeOK' /\ IndInv' /\ [Next]_vars /\ <<pc' # pc>>_pc
           => Silent' \/ Owed(3)'
  BY OneStep, 3 \in Nat, 3 + 1 = 4
<1>5. /\ Owed(5) /\ TypeOK' /\ IndInv' /\ [Next]_vars => Silent' \/ Owed(5)'
      /\ Owed(5) /\ TypeOK' /\ IndInv' /\ [Next]_vars /\ <<pc' # pc>>_pc
           => Silent' \/ Owed(4)'
  BY OneStep, 4 \in Nat, 4 + 1 = 5
<1>6. /\ Owed(6) /\ TypeOK' /\ IndInv' /\ [Next]_vars => Silent' \/ Owed(6)'
      /\ Owed(6) /\ TypeOK' /\ IndInv' /\ [Next]_vars /\ <<pc' # pc>>_pc
           => Silent' \/ Owed(5)'
  BY OneStep, 5 \in Nat, 5 + 1 = 6
<1>7. /\ Owed(7) /\ TypeOK' /\ IndInv' /\ [Next]_vars => Silent' \/ Owed(7)'
      /\ Owed(7) /\ TypeOK' /\ IndInv' /\ [Next]_vars /\ <<pc' # pc>>_pc
           => Silent' \/ Owed(6)'
  BY OneStep, 6 \in Nat, 6 + 1 = 7
<1>8. /\ Owed(8) /\ TypeOK' /\ IndInv' /\ [Next]_vars => Silent' \/ Owed(8)'
      /\ Owed(8) /\ TypeOK' /\ IndInv' /\ [Next]_vars /\ <<pc' # pc>>_pc
           => Silent' \/ Owed(7)'
  BY OneStep, 7 \in Nat, 7 + 1 = 8
<1>9. /\ Owed(9) /\ TypeOK' /\ IndInv' /\ [Next]_vars => Silent' \/ Owed(9)'
      /\ Owed(9) /\ TypeOK' /\ IndInv' /\ [Next]_vars /\ <<pc' # pc>>_pc
           => Silent' \/ Owed(8)'
  BY OneStep, 8 \in Nat, 8 + 1 = 9
<1>10. /\ Owed(10) /\ TypeOK' /\ IndInv' /\ [Next]_vars => Silent' \/ Owed(10)'
       /\ Owed(10) /\ TypeOK' /\ IndInv' /\ [Next]_vars /\ <<pc' # pc>>_pc
            => Silent' \/ Owed(9)'
  BY OneStep, 9 \in Nat, 9 + 1 = 10
<1>11. /\ Owed(11) /\ TypeOK' /\ IndInv' /\ [Next]_vars => Silent' \/ Owed(11)'
       /\ Owed(11) /\ TypeOK' /\ IndInv' /\ [Next]_vars /\ <<pc' # pc>>_pc
            => Silent' \/ Owed(10)'
  BY OneStep, 10 \in Nat, 10 + 1 = 11
<1>12. /\ Owed(12) /\ TypeOK' /\ IndInv' /\ [Next]_vars => Silent' \/ Owed(12)'
       /\ Owed(12) /\ TypeOK' /\ IndInv' /\ [Next]_vars /\ <<pc' # pc>>_pc
            => Silent' \/ Owed(11)'
  BY OneStep, 11 \in Nat, 11 + 1 = 12
<1>13. /\ Owed(13) /\ TypeOK' /\ IndInv' /\ [Next]_vars => Silent' \/ Owed(13)'
       /\ Owed(13) /\ TypeOK' /\ IndInv' /\ [Next]_vars /\ <<pc' # pc>>_pc
            => Silent' \/ Owed(12)'
  BY OneStep, 12 \in Nat, 12 + 1 = 13
<1>14. /\ Owed(14) /\ TypeOK' /\ IndInv' /\ [Next]_vars => Silent' \/ Owed(14)'
       /\ Owed(14) /\ TypeOK' /\ IndInv' /\ [Next]_vars /\ <<pc' # pc>>_pc
            => Silent' \/ Owed(13)'
  BY OneStep, 13 \in Nat, 13 + 1 = 14
<1>15. /\ Owed(15) /\ TypeOK' /\ IndInv' /\ [Next]_vars => Silent' \/ Owed(15)'
       /\ Owed(15) /\ TypeOK' /\ IndInv' /\ [Next]_vars /\ <<pc' # pc>>_pc
            => Silent' \/ Owed(14)'
  BY OneStep, 14 \in Nat, 14 + 1 = 15
<1>16. /\ Owed(16) /\ TypeOK' /\ IndInv' /\ [Next]_vars => Silent' \/ Owed(16)'
       /\ Owed(16) /\ TypeOK' /\ IndInv' /\ [Next]_vars /\ <<pc' # pc>>_pc
            => Silent' \/ Owed(15)'
  BY OneStep, 15 \in Nat, 15 + 1 = 16
<1>17. /\ Owed(17) /\ TypeOK' /\ IndInv' /\ [Next]_vars => Silent' \/ Owed(17)'
       /\ Owed(17) /\ TypeOK' /\ IndInv' /\ [Next]_vars /\ <<pc' # pc>>_pc
            => Silent' \/ Owed(16)'
  BY OneStep, 16 \in Nat, 16 + 1 = 17
<1>18. /\ Owed(18) /\ TypeOK' /\ IndInv' /\ [Next]_vars => Silent' \/ Owed(18)'
       /\ Owed(18) /\ TypeOK' /\ IndInv' /\ [Next]_vars /\ <<pc' # pc>>_pc
            => Silent' \/ Owed(17)'
  BY OneStep, 17 \in Nat, 17 + 1 = 18
<1> QED
  BY <1>0, <1>1, <1>2, <1>3, <1>4, <1>5, <1>6, <1>7, <1>8, <1>9,
     <1>10, <1>11, <1>12, <1>13, <1>14, <1>15, <1>16, <1>17, <1>18, <1>z, Inductive, PTL
  DEF FairSpec, Spec, StopSilencesMotors, Silent
-----------------------------------------------------------------------------
(* A landing ends.  Its time is LandMaxTicks and LandSpoolTicks, of which  *)
(* every tick takes one; LandingLeft counts it in steps of the stabilizer. *)
(* The chain is as long as the constants make it, so what is proved is one *)
(* link of it for any length, and that the length is never below one.      *)

(* The motor branch acts on the state, or on one overtaken by a stop.      *)
Copied == pc = "act" => state = snap \/ state = "EMERGENCY"

LEMMA CopyIsTrue == Spec => []Copied
<1>1. Init => Copied
  BY DEF Init, Copied
<1>2. Copied /\ [Next]_vars => Copied'
  <2> SUFFICES ASSUME Copied, [Next]_vars, pc' = "act" PROVE state' = snap' \/ state' = "EMERGENCY"
    BY DEF Copied
  <2> USE DEF Copied, fsm, landing, glue, rest, send
  <2>1. CASE Stabilizer
    BY <2>1, Zenon DEF Stabilizer, LeftStick, RightStick, RightStickWrite, Kill, Ch5, Ch5Write, Ch7,
       WfbStep, WfbWrite, GsIdle_ReleaseOnDisarm, Desired, LandGate, LandGateWrite, Update,
       ActStopped, ActDisarmed, LandStep, Cut, GroundIdle, FlyWrite, IdleOutput, Fly
  <2>2. CASE SendBegin \/ SendContinue
    BY <2>2, BetweenTicks
  <2>3. CASE DropAuthority \/ PathArbitrate \/ UNCHANGED vars
    BY <2>3 DEF DropAuthority, PathArbitrate, vars
  <2>4. CASE ScriptStop
    BY <2>4 DEF ScriptStop, FlightFSM_Event, Target
  <2> QED
    BY <2>1, <2>2, <2>3, <2>4 DEF Next
<1> QED
  BY <1>1, <1>2, PTL DEF Spec

StillLanding == Lands /\ ~bench

StepsOfTick ==
  [act |-> 1, update |-> 2, gate_write |-> 3, gate |-> 4, desired |-> 5, release |-> 6,
   wfb_write |-> 7, wfb |-> 8, ch7 |-> 9, ch5_write |-> 10, ch5 |-> 11, kill |-> 12,
   idle_write |-> 13, gesture |-> 14, wait |-> 15, output |-> 16, cut |-> 16, fly_write |-> 17]

LandingLeft == 18 * (LandMaxTicks + LandSpoolTicks - landTimer - spool) + StepsOfTick[pc]

LEMMA LandingLeftRange == TypeOK => LandingLeft \in Nat \ {0}
<1> SUFFICES ASSUME ValuesOK PROVE LandingLeft \in Nat \ {0}
  BY DEF TypeOK
<1>1. StepsOfTick[pc] \in 1 .. 17
  BY DEF StepsOfTick, ValuesOK, BeforeKill, AfterKill
<1> QED
  BY <1>1 DEF LandingLeft, ValuesOK

LEMMA LandingLeftRangeNext == TypeOK' => (LandingLeft \in Nat \ {0})'
  BY LandingLeftRange, PTL

LEMMA LandingStep ==
  ASSUME TypeOK, TypeOK', IndInv, Copied, StillLanding, Stabilizer, StillLanding'
  PROVE  LandingLeft' < LandingLeft
<1> USE DEF StillLanding, Lands, fsm, landing, glue, rest, send
<1>0. /\ landTimer \in 0 .. LandMaxTicks /\ spool \in 0 .. LandSpoolTicks
      /\ pc \in BeforeKill \cup AfterKill
      /\ state = "ARMED" /\ phase = "LANDING"
  BY DEF TypeOK, ValuesOK
<1>1. CASE pc # "act"
  <2>1. UNCHANGED landing /\ StepsOfTick[pc'] < StepsOfTick[pc]
    <3> USE DEF StepsOfTick
    <3>1. CASE LeftStick \/ RightStick \/ RightStickWrite \/ Kill \/ Ch5 \/ Ch5Write \/ Ch7
      BY <3>1 DEF LeftStick, RightStick, RightStickWrite, Kill, Ch5, Ch5Write, Ch7
    <3>2. CASE WfbStep \/ WfbWrite \/ GsIdle_ReleaseOnDisarm \/ Desired \/ LandGate \/ LandGateWrite
      BY <3>2 DEF WfbStep, WfbWrite, GsIdle_ReleaseOnDisarm, Desired, LandGate, LandGateWrite
    <3>3. CASE Update \/ Cut \/ FlyWrite \/ IdleOutput
      BY <3>3 DEF Update, Cut, FlyWrite, IdleOutput
    <3>4. CASE ActStopped \/ ActDisarmed \/ LandStep \/ GroundIdle \/ Fly
      BY <1>1, <3>4, Zenon DEF ActStopped, ActDisarmed, LandStep, GroundIdle, Fly
    <3> QED
      BY <3>1, <3>2, <3>3, <3>4 DEF Stabilizer
  <2>2. StepsOfTick[pc'] \in 1 .. 17 /\ StepsOfTick[pc] \in 1 .. 17
    BY <1>0, <2>1 DEF StepsOfTick, BeforeKill, AfterKill, TypeOK, ValuesOK
  <2> QED
    BY <1>0, <2>1, <2>2 DEF LandingLeft
<1>2. CASE pc = "act"
  <2>1. LandStep
    <3>1. snap = "ARMED"
      BY <1>0, <1>2 DEF Copied
    <3> QED
      BY <1>0, <1>2, <3>1, Zenon DEF Stabilizer, LeftStick, RightStick, RightStickWrite, Kill,
         Ch5, Ch5Write, Ch7, WfbStep, WfbWrite, GsIdle_ReleaseOnDisarm, Desired, LandGate,
         LandGateWrite, Update, ActStopped, ActDisarmed, Cut, GroundIdle, FlyWrite, IdleOutput, Fly
  <2>2. /\ (IF landInit THEN spool ELSE 0) = spool
        /\ (IF landInit THEN landTimer ELSE 0) = landTimer
    BY Zenon DEF IndInv, LandInv
  <2>3. /\ pc' = "wait"
        /\ \/ landTimer' = landTimer + 1 /\ (spool' = 0 \/ spool' = 1) /\ spool = 0
           \/ landTimer' = landTimer /\ spool' = spool + 1
    <3>1. \/ /\ spool = 0 /\ landTimer' = landTimer + 1 /\ pc' = "wait"
             /\ \E touched \in BOOLEAN :
                  spool' = IF touched \/ landTimer' >= LandMaxTicks THEN 1 ELSE 0
          \/ spool' = spool + 1 /\ landTimer' = landTimer /\ pc' = "wait"
          \/ phase' = "LANDED"
      BY <2>1, <2>2, Zenon DEF LandStep
    <3> QED
      BY <3>1
  <2>4. StepsOfTick[pc'] = 15 /\ StepsOfTick[pc] = 1
    BY <1>2, <2>3 DEF StepsOfTick
  <2> QED
    BY <1>0, <2>3, <2>4 DEF LandingLeft
<1> QED
  BY <1>1, <1>2

LEMMA LandingKept ==
  ASSUME [Next]_vars, ~Stabilizer
  PROVE  pc' = pc /\ LandingLeft' = LandingLeft
<1>1. pc' = pc /\ UNCHANGED <<landTimer, spool>>
  <2> USE DEF landing
  <2>1. CASE DropAuthority \/ PathArbitrate \/ ScriptStop \/ UNCHANGED vars
    BY <2>1, Zenon DEF DropAuthority, PathArbitrate, ScriptStop, vars
  <2>2. CASE SendBegin
    BY <2>2, Zenon DEF SendBegin, Begins, GsArm, GsArmOff, GsIdleOn, GsIdleOff, GsAbort, GsRecover,
       GsExecute, GsThrottle, GsTakeoff, GsLand, GsBench
  <2>3. CASE SendContinue
    BY <2>3, Zenon DEF SendContinue, Goes, GsArmCheck, GsArmGrant, GsArmLift, GsIdleGrant,
       GsIdleWrite, GsIdleClear, GsAbortStop
  <2>4. pc' = pc
    BY <2>1, <2>2, <2>3, BetweenTicks DEF Next, DropAuthority, PathArbitrate, ScriptStop, vars
  <2> QED
    BY <2>1, <2>2, <2>3, <2>4 DEF Next
<1> QED
  BY <1>1 DEF LandingLeft

(* However long a landing may still take, it comes to its end, or to the   *)
(* bench, or closer to it.                                                 *)
THEOREM LandingGetsNearer ==
  ASSUME NEW n \in Nat
  PROVE  FairSpec => (StillLanding /\ LandingLeft <= n + 1 ~>
                        ~StillLanding \/ LandingLeft <= n)
<1> DEFINE Inv == TypeOK /\ IndInv /\ Copied
           Near(k) == LandingLeft <= k
<1>1. Near(n + 1) /\ StillLanding /\ StillLanding' /\ Inv /\ Inv' /\ [Next]_vars
        => Near(n + 1)' /\ (pc' # pc => Near(n)')
  <2> SUFFICES ASSUME LandingLeft <= n + 1, StillLanding, StillLanding', Inv, Inv', [Next]_vars
               PROVE  LandingLeft' <= n + 1 /\ (pc' # pc => LandingLeft' <= n)
    OBVIOUS
  <2>1. LandingLeft \in Nat /\ LandingLeft' \in Nat
    BY LandingLeftRange, LandingLeftRangeNext
  <2>2. CASE Stabilizer
    <3>1. LandingLeft' < LandingLeft
      BY <2>2, LandingStep
    <3> QED
      BY <2>1, <3>1
  <2>3. CASE ~Stabilizer
    BY <2>1, <2>3, LandingKept
  <2> QED
    BY <2>2, <2>3
<1> HIDE DEF Near
<1>2. FairSpec => (StillLanding /\ Near(n + 1) ~> ~StillLanding \/ Near(n))
  BY <1>1, Inductive, CopyIsTrue, PTL DEF FairSpec, Spec
<1> QED
  BY <1>2 DEF Near
=============================================================================
