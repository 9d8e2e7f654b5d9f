----------------------------- MODULE FlightCore -----------------------------
(***************************************************************************)
(* The arm state machine (API/flight_fsm.c), the flight sub-phase, and the *)
(* tasks that drive both:                                                  *)
(*                                                                         *)
(*   Stabilizer_Task  200 Hz, priority 4: one tick is Check_Fly_Mode,      *)
(*                    Wfb_Step, GsIdle_ReleaseOnDisarm, Compute_Motor and  *)
(*                    Update_Motor, in that order (pc walks through it)    *)
(*   Remoter_Task, Autofly_Task   priority 4 with time slicing, so they    *)
(*                    may run between any two steps of the tick            *)
(*   Send_Task        priority 2: handles ground-station commands only     *)
(*                    while no priority-4 task is ready, and is preempted  *)
(*                    by the next tick between any two statements (spc)    *)
(*                                                                         *)
(* Abstracted: the sticks, the switches and the altitude are inputs chosen *)
(* at each tick (a gesture's hold counter is the choice of the tick that   *)
(* completes it); the throttle is only below or above the idle gate; the   *)
(* workflow-B glue is its claim on the flight (gs) and the request it may  *)
(* then make; the watchdog of the motor bench test is a choice to expire.  *)
(***************************************************************************)
EXTENDS Naturals

CONSTANTS
  StopTicks,       \* DangerousStop_cnt must exceed this to stop (10)
  LandMaxTicks,    \* LAND_MAX_TICKS, the landing's time limit
  LandSpoolTicks,  \* LAND_SPOOL_TICKS, the spool-down after touchdown
  MaxPreempt,      \* ticks that may pass inside one Send_Task handler
  Commands,        \* the ground-station commands in play
  ScriptOverrun    \* whether the script loop may read SDK_Cmd_Land

AllCommands == {"arm", "arm_off", "idle_on", "idle_off", "abort", "recover",
                "execute", "throttle", "takeoff", "land", "bench"}

ASSUME TicksAssumption ==
  /\ StopTicks \in Nat
  /\ LandMaxTicks \in Nat \ {0}
  /\ LandSpoolTicks \in Nat \ {0}
  /\ MaxPreempt \in Nat
ASSUME CommandsAssumption == Commands \subseteq AllCommands
ASSUME OverrunAssumption == ScriptOverrun \in BOOLEAN

VARIABLES
  state,      \* s_state
  phase,      \* flight_phase
  idle,       \* g_motor_idle_enabled
  stick,      \* whose throttle RCInput_Get returns, and where it stands
  execute,    \* TWC.execute
  flyup,      \* sbus_flyup_trigger
  gs,         \* the workflow-B glue has a claim on this flight
  seen,       \* what the glue last saw: armed, motors idle, airborne
  gsArmed,    \* s_was_armed of GsIdle_ReleaseOnDisarm
  bench,      \* motor_test_active
  stopCnt,    \* DangerousStop_cnt
  landInit,   \* s_land_init
  landTimer,  \* s_land_timeout
  spool,      \* s_land_spool
  motors,     \* what the last Update_Motor commanded
  snap,       \* Update_Motor's copy of the state
  pc,         \* where Stabilizer_Task stands in its tick
  spc,        \* where Send_Task stands in a handler
  preempts    \* ticks that began since this handler did

fsm     == <<state, phase, idle>>
landing == <<landInit, landTimer, spool>>
glue    == <<gs, seen>>
rest    == <<gsArmed, bench, stopCnt, motors, snap>>
send    == <<spc, preempts>>
vars    == <<fsm, stick, execute, flyup, glue, landing, rest, pc, send>>

States  == {"DISARMED", "ARMED", "EMERGENCY"}
Phases  == {"GROUND_IDLE", "FLYING", "LANDING", "LANDED"}
Sticks  == {"RC", "GS_MIN", "GS_UP"}
Outputs == {"ZERO", "IDLE", "PWM", "BENCH"}

(* The steps of a tick before the kill switch is read, and those after it. *)
BeforeKill == {"wait", "gesture", "idle_write", "kill"}
AfterKill  == {"ch5", "ch5_write", "ch7", "wfb", "wfb_write", "release",
               "desired", "gate", "gate_write", "update", "act",
               "fly_write", "output", "cut"}
SendSteps  == {"none", "arm_check", "arm_grant", "arm_lift", "idle_grant",
               "idle_write", "idle_clear", "abort_stop"}

(* The type invariant, in two parts: the Booleans, and the rest.           *)
FlagsOK ==
  /\ idle \in BOOLEAN /\ execute \in BOOLEAN /\ flyup \in BOOLEAN /\ gs \in BOOLEAN
  /\ gsArmed \in BOOLEAN /\ bench \in BOOLEAN /\ landInit \in BOOLEAN

ValuesOK ==
  /\ state \in States /\ phase \in Phases /\ stick \in Sticks
  /\ seen \subseteq {"armed", "idle", "air"}
  /\ stopCnt \in 0 .. StopTicks + 1
  /\ landTimer \in 0 .. LandMaxTicks
  /\ spool \in 0 .. LandSpoolTicks
  /\ motors \in Outputs /\ snap \in States
  /\ pc \in BeforeKill \cup AfterKill
  /\ spc \in SendSteps /\ preempts \in 0 .. MaxPreempt

TypeOK == FlagsOK /\ ValuesOK

Init ==
  /\ state = "DISARMED" /\ phase = "GROUND_IDLE" /\ idle = FALSE
  /\ stick = "RC" /\ execute = FALSE /\ flyup = FALSE
  /\ gs = FALSE /\ seen = {} /\ gsArmed = FALSE /\ bench = FALSE
  /\ stopCnt = 0 /\ landInit = FALSE /\ landTimer = 0 /\ spool = 0
  /\ motors = "ZERO" /\ snap = "DISARMED"
  /\ pc = "wait" /\ spc = "none" /\ preempts = 0

-----------------------------------------------------------------------------
(* The arm state machine: one critical section per event.                  *)

Target(s, event) ==
  IF s = "DISARMED" /\ event = "ARM_REQUEST" THEN "ARMED"
  ELSE IF s \in {"DISARMED", "ARMED"} /\ event = "DANGEROUS_STOP" THEN "EMERGENCY"
  ELSE IF s = "ARMED" /\ event = "DISARM_REQUEST" THEN "DISARMED"
  ELSE IF s = "EMERGENCY" /\ event \in {"RECOVER_SDK", "DISARM_REQUEST"} THEN "DISARMED"
  ELSE s

(* Seeded faults: a transition that keeps the sub-phase, or the idle gate. *)
FlightFSM_EventKeepsPhase(event) ==
  /\ state' = Target(state, event)
  /\ idle' = (idle /\ state' = state)
  /\ UNCHANGED phase

FlightFSM_EventKeepsIdle(event) ==
  /\ state' = Target(state, event)
  /\ idle' = (idle /\ state' # "EMERGENCY")
  /\ phase' = IF state' = state \/ state = "DISARMED" THEN phase ELSE "GROUND_IDLE"

(* A transition clears the idle gate; one out of ARMED or EMERGENCY also   *)
(* returns the sub-phase to the ground.  Any other event is ignored.       *)
FlightFSM_Event(event) ==
  /\ state' = Target(state, event)
  /\ idle' = (idle /\ state' = state)
  /\ phase' = IF state' = state \/ state = "DISARMED" THEN phase ELSE "GROUND_IDLE"

(* The estimator or a pre-arm check may refuse an arm request.             *)
ArmRequest == FlightFSM_Event("ARM_REQUEST") \/ UNCHANGED fsm

(* Whether RCInput_Get(THR) may be below the idle gate: always at the      *)
(* virtual floor, perhaps anywhere else (a centred stick is below it).     *)
ThrottleLow == IF stick = "GS_MIN" THEN {TRUE} ELSE BOOLEAN

-----------------------------------------------------------------------------
(* Stabilizer_Task: Check_Fly_Mode.                                        *)

(* The tick starts; Check_Stick_Motion may complete the arm or the disarm  *)
(* gesture.  (Nothing reads the copy of the last tick's Update_Motor.)     *)
LeftStick ==
  /\ pc = "wait" /\ pc' = "gesture"
  /\ spc = "none" \/ preempts < MaxPreempt
  /\ preempts' = IF spc = "none" THEN 0 ELSE preempts + 1
  /\ \/ UNCHANGED fsm
     \/ ArmRequest
     \/ FlightFSM_Event("DISARM_REQUEST")
  /\ snap' = "DISARMED"
  /\ UNCHANGED <<stick, execute, flyup, glue, landing, gsArmed, bench, stopCnt, motors, spc>>

(* The idle gesture, accepted only when armed on the ground.               *)
RightStick ==
  /\ pc = "gesture"
  /\ \/ /\ state = "ARMED" /\ phase \in {"GROUND_IDLE", "LANDED"} /\ ~idle
        /\ pc' = "idle_write"
     \/ pc' = "kill"
  /\ UNCHANGED <<fsm, stick, execute, flyup, glue, landing, rest, send>>

RightStickWrite ==
  /\ pc = "idle_write" /\ pc' = "kill"
  /\ phase' = "GROUND_IDLE" /\ idle' = TRUE
  /\ UNCHANGED <<state, stick, execute, flyup, glue, landing, rest, send>>

(* Seeded fault: the count is tested before it advances.                   *)
KillTestsOldCount ==
  /\ pc = "kill" /\ pc' = "ch5"
  /\ \E cut \in BOOLEAN :
       stopCnt' = IF ~cut THEN 0
                  ELSE IF stopCnt > StopTicks THEN stopCnt ELSE stopCnt + 1
  /\ FlightFSM_Event(IF stopCnt > StopTicks THEN "DANGEROUS_STOP" ELSE "RECOVER_SDK")
  /\ UNCHANGED <<stick, execute, flyup, glue, landing, gsArmed, bench, motors, snap, send>>

(* ch9 or a lost link, held for more than StopTicks ticks, stops; every    *)
(* other tick recovers.                                                    *)
Kill ==
  /\ pc = "kill" /\ pc' = "ch5"
  /\ \E cut \in BOOLEAN :
       stopCnt' = IF ~cut THEN 0
                  ELSE IF stopCnt > StopTicks THEN stopCnt ELSE stopCnt + 1
  /\ FlightFSM_Event(IF stopCnt' > StopTicks THEN "DANGEROUS_STOP" ELSE "RECOVER_SDK")
  /\ UNCHANGED <<stick, execute, flyup, glue, landing, gsArmed, bench, motors, snap, send>>

(* A rising edge of ch5 lands a flight.  A ground-station flight lands     *)
(* through the glue, unless the pilot has taken it over.                   *)
Ch5 ==
  /\ pc = "ch5"
  /\ \/ pc' = "ch5_write" /\ phase = "FLYING"
     \/ pc' = "ch7"
  /\ UNCHANGED <<fsm, stick, execute, flyup, glue, landing, rest, send>>

Ch5Write ==
  /\ pc = "ch5_write" /\ pc' = "ch7"
  /\ phase' = "LANDING" /\ execute' = FALSE
  /\ UNCHANGED <<state, idle, stick, flyup, glue, landing, rest, send>>

(* A rising edge of ch7 arms a disarmed drone, and asks an idling one to   *)
(* fly up.                                                                 *)
Ch7 ==
  /\ pc = "ch7" /\ pc' = "wfb"
  /\ \/ UNCHANGED <<fsm, flyup>>
     \/ state = "DISARMED" /\ ArmRequest /\ UNCHANGED flyup
     \/ state = "ARMED" /\ idle /\ flyup' = TRUE /\ UNCHANGED fsm
  /\ UNCHANGED <<stick, execute, glue, landing, rest, send>>

-----------------------------------------------------------------------------
(* Stabilizer_Task: Wfb_Step and GsIdle_ReleaseOnDisarm.                   *)

Snapshot == {f \in {"armed", "idle", "air"} :
               /\ f = "armed" => state = "ARMED"
               /\ f = "idle"  => idle
               /\ f = "air"   => phase \in {"FLYING", "LANDING"}}

(* The glue sees the vehicle and, when the arm it saw is gone, drops its   *)
(* claim.  A glue with a claim may ask for a stop (only when armed), a     *)
(* landing, the fly-up or a setpoint.                                      *)
WfbStep ==
  /\ pc = "wfb"
  /\ seen' = Snapshot
  /\ gs' = (gs /\ ~("armed" \in seen /\ state # "ARMED"))
  /\ \/ pc' = "release" /\ UNCHANGED <<fsm, execute, flyup>>
     \/ /\ gs' /\ state = "ARMED" /\ pc' = "release"
        /\ FlightFSM_Event("DANGEROUS_STOP")
        /\ UNCHANGED <<execute, flyup>>
     \/ /\ gs' /\ phase = "FLYING" /\ pc' = "wfb_write"
        /\ UNCHANGED <<fsm, execute, flyup>>
     \/ /\ gs' /\ pc' = "release" /\ flyup' = TRUE
        /\ UNCHANGED <<fsm, execute>>
     \/ /\ gs' /\ pc' = "release" /\ execute' = TRUE
        /\ UNCHANGED <<fsm, flyup>>
  /\ UNCHANGED <<stick, landing, rest, send>>

WfbWrite ==
  /\ pc = "wfb_write" /\ pc' = "release"
  /\ phase' = "LANDING" /\ execute' = FALSE
  /\ UNCHANGED <<state, idle, stick, flyup, glue, landing, rest, send>>

(* The stick authority of the ground-station idle goes back on disarm.     *)
GsIdle_ReleaseOnDisarm ==
  /\ pc = "release" /\ pc' = "desired"
  /\ stick' = IF gsArmed /\ state # "ARMED" THEN "RC" ELSE stick
  /\ gsArmed' = (state = "ARMED")
  /\ UNCHANGED <<fsm, execute, flyup, glue, landing, bench, stopCnt, motors, snap, send>>

-----------------------------------------------------------------------------
(* Stabilizer_Task: Compute_Motor.                                         *)

(* Des_Height takes the fly-up, which releases the authority; then a       *)
(* landing, or (Des_Loc, armed only) a roll or pitch stick, cancels the    *)
(* target.                                                                 *)
Desired ==
  /\ pc = "desired" /\ pc' = "gate"
  /\ flyup' = FALSE
  /\ stick' = IF flyup THEN "RC" ELSE stick
  /\ \E pilot \in BOOLEAN :
       /\ pilot => state = "ARMED"
       /\ execute' = ((execute \/ flyup) /\ ~pilot /\ phase \notin {"LANDING", "LANDED"})
  /\ UNCHANGED <<fsm, glue, landing, rest, send>>

(* The battery gate lands a flight.                                        *)
LandGate ==
  /\ pc = "gate"
  /\ \/ pc' = "gate_write" /\ phase = "FLYING"
     \/ pc' = "update"
  /\ UNCHANGED <<fsm, stick, execute, flyup, glue, landing, rest, send>>

LandGateWrite ==
  /\ pc = "gate_write" /\ pc' = "update"
  /\ phase' = "LANDING" /\ execute' = FALSE
  /\ UNCHANGED <<state, idle, stick, flyup, glue, landing, rest, send>>

-----------------------------------------------------------------------------
(* Stabilizer_Task: Update_Motor.                                          *)

(* The state is copied; the bench test, when on, owns the motors of this   *)
(* tick, and ends outside DISARMED or without a heartbeat.                 *)
Update ==
  /\ pc = "update"
  /\ snap' = state
  /\ \/ /\ ~bench /\ pc' = "act"
        /\ UNCHANGED <<bench, motors>>
     \/ /\ bench /\ pc' = "wait"
        /\ \/ state = "DISARMED" /\ motors' = "BENCH" /\ UNCHANGED bench
           \/ motors' = "ZERO" /\ bench' = FALSE
  /\ UNCHANGED <<fsm, stick, execute, flyup, glue, landing, gsArmed, stopCnt, send>>

Land_ResetDetector == landInit' = FALSE /\ landTimer' = 0 /\ spool' = 0

(* Seeded fault: a stop resets the detector and leaves the motors.         *)
ActStoppedKeepsMotors ==
  /\ pc = "act" /\ snap = "EMERGENCY" /\ pc' = "wait"
  /\ Land_ResetDetector
  /\ UNCHANGED <<fsm, stick, execute, flyup, glue, gsArmed, bench, stopCnt, motors, snap, send>>

ActStopped ==
  /\ pc = "act" /\ snap = "EMERGENCY" /\ pc' = "wait"
  /\ Land_ResetDetector
  /\ motors' = "ZERO"
  /\ UNCHANGED <<fsm, stick, execute, flyup, glue, gsArmed, bench, stopCnt, snap, send>>

ActDisarmed ==
  /\ pc = "act" /\ snap = "DISARMED" /\ pc' = "wait"
  /\ Land_ResetDetector
  /\ execute' = FALSE /\ flyup' = FALSE /\ motors' = "ZERO"
  /\ UNCHANGED <<fsm, stick, glue, gsArmed, bench, stopCnt, snap, send>>

(* Seeded faults: a landing without its time limit, and one that restarts  *)
(* the detector at every tick.                                             *)
LandStepNoLimit ==
  /\ pc = "act" /\ snap = "ARMED" /\ phase = "LANDING"
  /\ LET done  == IF landInit THEN spool ELSE 0
         timer == IF landInit THEN landTimer ELSE 0
     IN  \/ /\ done = 0
            /\ landInit' = TRUE /\ landTimer' = timer + 1
            /\ \E touched \in BOOLEAN :
                 spool' = IF touched THEN 1 ELSE 0
            /\ motors' = "PWM" /\ pc' = "wait" /\ UNCHANGED phase
         \/ /\ done \in 1 .. LandSpoolTicks - 1
            /\ spool' = done + 1
            /\ motors' = "PWM" /\ pc' = "wait"
            /\ UNCHANGED <<phase, landInit, landTimer>>
         \/ /\ done >= LandSpoolTicks
            /\ Land_ResetDetector
            /\ phase' = "LANDED" /\ pc' = "cut" /\ UNCHANGED motors
  /\ UNCHANGED <<state, idle, stick, execute, flyup, glue, gsArmed, bench, stopCnt, snap, send>>

LandStepRestarts ==
  /\ pc = "act" /\ snap = "ARMED" /\ phase = "LANDING"
  /\ LET done  == IF landInit THEN spool ELSE 0
         timer == IF landInit THEN landTimer ELSE 0
     IN  \/ /\ done = 0
            /\ UNCHANGED landInit /\ landTimer' = timer + 1
            /\ \E touched \in BOOLEAN :
                 spool' = IF touched \/ landTimer' >= LandMaxTicks THEN 1 ELSE 0
            /\ motors' = "PWM" /\ pc' = "wait" /\ UNCHANGED phase
         \/ /\ done \in 1 .. LandSpoolTicks - 1
            /\ spool' = done + 1
            /\ motors' = "PWM" /\ pc' = "wait"
            /\ UNCHANGED <<phase, landInit, landTimer>>
         \/ /\ done >= LandSpoolTicks
            /\ Land_ResetDetector
            /\ phase' = "LANDED" /\ pc' = "cut" /\ UNCHANGED motors
  /\ UNCHANGED <<state, idle, stick, execute, flyup, glue, gsArmed, bench, stopCnt, snap, send>>

(* Land_Step: fly down; a touchdown, or the time limit, starts the         *)
(* spool-down, and the end of the spool-down is the landing.               *)
LandStep ==
  /\ pc = "act" /\ snap = "ARMED" /\ phase = "LANDING"
  /\ LET done  == IF landInit THEN spool ELSE 0
         timer == IF landInit THEN landTimer ELSE 0
     IN  \/ /\ done = 0
            /\ landInit' = TRUE /\ landTimer' = timer + 1
            /\ \E touched \in BOOLEAN :
                 spool' = IF touched \/ landTimer' >= LandMaxTicks THEN 1 ELSE 0
            /\ motors' = "PWM" /\ pc' = "wait" /\ UNCHANGED phase
         \/ /\ done \in 1 .. LandSpoolTicks - 1
            /\ spool' = done + 1
            /\ motors' = "PWM" /\ pc' = "wait"
            /\ UNCHANGED <<phase, landInit, landTimer>>
         \/ /\ done >= LandSpoolTicks
            /\ Land_ResetDetector
            /\ phase' = "LANDED" /\ pc' = "cut" /\ UNCHANGED motors
  /\ UNCHANGED <<state, idle, stick, execute, flyup, glue, gsArmed, bench, stopCnt, snap, send>>

Cut ==
  /\ pc = "cut" /\ pc' = "wait"
  /\ FlightFSM_Event("DISARM_REQUEST")
  /\ motors' = "ZERO"
  /\ UNCHANGED <<stick, execute, flyup, glue, landing, gsArmed, bench, stopCnt, snap, send>>

(* Seeded fault: the idle gate is not asked.                               *)
GroundIdleUngated ==
  /\ pc = "act" /\ snap = "ARMED" /\ phase = "GROUND_IDLE"
  /\ UNCHANGED motors
  /\ \/ pc' = "output"
     \/ pc' = "fly_write" /\ (execute \/ FALSE \in ThrottleLow)
  /\ UNCHANGED <<fsm, stick, execute, flyup, glue, landing, gsArmed, bench, stopCnt, snap, send>>

(* GroundIdle_Step: zero until the idle gate opens; then take-off when     *)
(* the height says so and the throttle or a target wants to fly.           *)
GroundIdle ==
  /\ pc = "act" /\ snap = "ARMED" /\ phase = "GROUND_IDLE"
  /\ IF ~idle
     THEN motors' = "ZERO" /\ pc' = "wait"
     ELSE /\ UNCHANGED motors
          /\ \/ pc' = "output"
             \/ pc' = "fly_write" /\ (execute \/ FALSE \in ThrottleLow)
  /\ UNCHANGED <<fsm, stick, execute, flyup, glue, landing, gsArmed, bench, stopCnt, snap, send>>

FlyWrite ==
  /\ pc = "fly_write" /\ pc' = "output"
  /\ phase' = "FLYING"
  /\ UNCHANGED <<state, idle, stick, execute, flyup, glue, landing, rest, send>>

(* The idle speed while nobody wants to fly, or while the script waits.    *)
IdleOutput ==
  /\ pc = "output" /\ pc' = "wait"
  /\ \E low \in ThrottleLow :
       motors' \in IF ~execute /\ low THEN {"IDLE"} ELSE {"IDLE", "PWM"}
  /\ UNCHANGED <<fsm, stick, execute, flyup, glue, landing, gsArmed, bench, stopCnt, snap, send>>

(* FLYING drives the motors; LANDED leaves them as they are.               *)
Fly ==
  /\ pc = "act" /\ snap = "ARMED" /\ phase \in {"FLYING", "LANDED"} /\ pc' = "wait"
  /\ motors' = IF phase = "FLYING" THEN "PWM" ELSE motors
  /\ UNCHANGED <<fsm, stick, execute, flyup, glue, landing, gsArmed, bench, stopCnt, snap, send>>

Stabilizer ==
  \/ LeftStick \/ RightStick \/ RightStickWrite \/ Kill \/ Ch5 \/ Ch5Write \/ Ch7
  \/ WfbStep \/ WfbWrite \/ GsIdle_ReleaseOnDisarm
  \/ Desired \/ LandGate \/ LandGateWrite
  \/ Update \/ ActStopped \/ ActDisarmed \/ LandStep \/ Cut
  \/ GroundIdle \/ FlyWrite \/ IdleOutput \/ Fly

-----------------------------------------------------------------------------
(* Remoter_Task and Autofly_Task, between any two steps of the tick.       *)

(* The pilot moves a stick, or the ground station's heartbeat times out.   *)
DropAuthority ==
  /\ stick # "RC" /\ stick' = "RC"
  /\ UNCHANGED <<fsm, execute, flyup, glue, landing, rest, pc, send>>

(* Without the authority no target is flown; with it, a preset path that   *)
(* runs puts the target out.                                               *)
PathArbitrate ==
  /\ execute /\ execute' = FALSE
  /\ UNCHANGED <<fsm, stick, flyup, glue, landing, rest, pc, send>>

(* SDK_Cmd_Land of the onboard script.  The shipped script table is empty, *)
(* and the loop then walks past its end: any command may be read there.    *)
ScriptStop ==
  /\ ScriptOverrun /\ state # "EMERGENCY"
  /\ FlightFSM_Event("DANGEROUS_STOP")
  /\ UNCHANGED <<stick, execute, flyup, glue, landing, rest, pc, send>>

-----------------------------------------------------------------------------
(* Send_Task: one ground-station command at a time, between two ticks.     *)

Begins(command) == command \in Commands /\ pc = "wait" /\ spc = "none"
Goes(from, to)  == /\ spc = from /\ pc = "wait" /\ spc' = to /\ UNCHANGED pc
                   /\ preempts' = IF to = "none" THEN 0 ELSE preempts

(* CMD 0x0E idx 0 on: ask to arm; when armed take the sticks, which puts   *)
(* the virtual throttle to the floor; when airborne, raise it again.       *)
GsArm ==
  /\ Begins("arm") /\ spc' = "arm_check" /\ ArmRequest
  /\ UNCHANGED <<stick, execute, flyup, glue, landing, rest, pc, preempts>>

GsArmCheck ==
  /\ Goes("arm_check", IF state = "ARMED" THEN "arm_grant" ELSE "none")
  /\ UNCHANGED <<fsm, stick, execute, flyup, glue, landing, rest>>

GsArmGrant ==
  /\ Goes("arm_grant", "arm_lift") \/ Goes("arm_grant", "none")
  /\ stick' = "GS_MIN"
  /\ UNCHANGED <<fsm, execute, flyup, glue, landing, rest>>

GsArmLift ==
  /\ Goes("arm_lift", "none")
  /\ stick' = IF stick = "RC" THEN "RC" ELSE "GS_UP"
  /\ UNCHANGED <<fsm, execute, flyup, glue, landing, rest>>

(* CMD 0x0E idx 0 off: give the sticks back.                               *)
GsArmOff ==
  /\ Begins("arm_off") /\ stick # "RC" /\ stick' = "RC"
  /\ UNCHANGED <<fsm, execute, flyup, glue, landing, rest, pc, send>>

(* CMD 0x0E idx 1 on: checked, then (in FlyMode_SDK) the sticks are taken, *)
(* then the gate opens.                                                    *)
GsIdleOn ==
  /\ Begins("idle_on") /\ spc' = "idle_grant"
  /\ state = "ARMED" /\ phase \in {"GROUND_IDLE", "LANDED"} /\ ~idle
  /\ UNCHANGED <<fsm, stick, execute, flyup, glue, landing, rest, pc, preempts>>

GsIdleGrant ==
  /\ Goes("idle_grant", "idle_write") /\ stick' \in {"GS_MIN", stick}
  /\ UNCHANGED <<fsm, execute, flyup, glue, landing, rest>>

GsIdleWrite ==
  /\ Goes("idle_write", "none")
  /\ phase' = "GROUND_IDLE" /\ idle' = TRUE
  /\ UNCHANGED <<state, stick, execute, flyup, glue, landing, rest>>

(* CMD 0x0E idx 1 off: checked, then the gate closes.                      *)
GsIdleOff ==
  /\ Begins("idle_off") /\ spc' = "idle_clear"
  /\ state = "ARMED" /\ phase = "GROUND_IDLE"
  /\ UNCHANGED <<fsm, stick, execute, flyup, glue, landing, rest, pc, preempts>>

GsIdleClear ==
  /\ Goes("idle_clear", "none") /\ idle' = FALSE
  /\ UNCHANGED <<state, phase, stick, execute, flyup, glue, landing, rest>>

(* CMD 0x0D, CMD 0x04 idx 0: stop every path, give the sticks back, then   *)
(* stop the motors.                                                        *)
GsAbort ==
  /\ Begins("abort") /\ spc' = "abort_stop"
  /\ execute' = FALSE /\ stick' = "RC"
  /\ UNCHANGED <<fsm, flyup, glue, landing, rest, pc, preempts>>

GsAbortStop ==
  /\ Goes("abort_stop", "none") /\ FlightFSM_Event("DANGEROUS_STOP")
  /\ UNCHANGED <<stick, execute, flyup, glue, landing, rest>>

(* CMD 0x04 idx 1.                                                         *)
GsRecover ==
  /\ Begins("recover") /\ state = "EMERGENCY" /\ FlightFSM_Event("RECOVER_SDK")
  /\ UNCHANGED <<stick, execute, flyup, glue, landing, rest, pc, send>>

(* CMD 0x0A idx 4, refused in EMERGENCY (FlyMode).                         *)
GsExecute ==
  /\ Begins("execute") /\ state # "EMERGENCY" /\ execute' = ~execute
  /\ UNCHANGED <<fsm, stick, flyup, glue, landing, rest, pc, send>>

(* CMD 0x06 idx 0, refused in EMERGENCY; it moves nothing the loops read   *)
(* while the pilot has the sticks.                                         *)
GsThrottle ==
  /\ Begins("throttle") /\ state # "EMERGENCY" /\ stick # "RC"
  /\ stick' \in {"GS_MIN", "GS_UP"} \ {stick}
  /\ UNCHANGED <<fsm, execute, flyup, glue, landing, rest, pc, send>>

(* CMD 0x1A: the glue decides on the vehicle it saw at the last tick.      *)
GsTakeoff ==
  /\ Begins("takeoff") /\ seen = {"armed", "idle"} /\ gs' = TRUE
  /\ UNCHANGED <<fsm, stick, execute, flyup, seen, landing, rest, pc, send>>

GsLand ==
  /\ Begins("land") /\ "air" \in seen /\ gs' = TRUE
  /\ UNCHANGED <<fsm, stick, execute, flyup, seen, landing, rest, pc, send>>

(* CMD 0x16 idx 0.                                                         *)
GsBench ==
  /\ Begins("bench") /\ bench' = ~bench
  /\ UNCHANGED <<fsm, stick, execute, flyup, glue, landing, gsArmed, stopCnt, motors, snap, pc, send>>

SendBegin == \/ GsArm \/ GsArmOff \/ GsIdleOn \/ GsIdleOff \/ GsAbort \/ GsRecover
             \/ GsExecute \/ GsThrottle \/ GsTakeoff \/ GsLand \/ GsBench
SendContinue == \/ GsArmCheck \/ GsArmGrant \/ GsArmLift \/ GsIdleGrant \/ GsIdleWrite
                \/ GsIdleClear \/ GsAbortStop

-----------------------------------------------------------------------------
Next == \/ Stabilizer
        \/ DropAuthority \/ PathArbitrate \/ ScriptStop
        \/ SendBegin \/ SendContinue

Spec == Init /\ [][Next]_vars

(* The 5 ms timer always wakes the stabilizer: only its steps move pc, and *)
(* they never cease.  A handler of Send_Task once begun gets through, since*)
(* no more than MaxPreempt ticks pass inside it.                           *)
FairSpec == Spec /\ []<><<pc' # pc>>_pc

-----------------------------------------------------------------------------
(* Properties.                                                             *)

(* Whoever disarms, the sub-phase is back on the ground: FlightFSM_Event   *)
(* resets it when it leaves ARMED or EMERGENCY, and no task that checked   *)
(* the phase before a disarm writes FLYING or LANDING after it.            *)
DisarmedOnGround == state = "DISARMED" => phase = "GROUND_IDLE"

(* LANDED is never seen outside the tick that lands: Land_Step disarms     *)
(* right after writing it, so the re-idle paths that accept LANDED never   *)
(* meet it.                                                                *)
LandedOnlyInCut == phase = "LANDED" => pc = "cut"

(* The kill switch (or a lost link) held past its count silences every     *)
(* motor whatever the ground station, the glue and the other gestures ask  *)
(* for in the same tick, and keeps them silent between two ticks.          *)
KillSilencesMotors == stopCnt > StopTicks /\ pc \in BeforeKill => motors = "ZERO"

(* Arming starts cold: on the ground, with the idle gate shut, even when a *)
(* ground-station idle command that was checked before the disarm wrote    *)
(* after it.                                                               *)
ArmsCold == [][state # "ARMED" /\ state' = "ARMED" => phase' = "GROUND_IDLE" /\ ~idle']_vars

(* A fly-up request never outlives the tick that raised it, so it cannot   *)
(* take effect in a later arm.                                             *)
FlyupConsumedInTick == flyup => pc \in {"wfb", "wfb_write", "release", "desired"}

(* The stage of the flight that FlightLifecycle describes.                 *)
Stage == IF state = "DISARMED" THEN "SAFE"
         ELSE IF state = "EMERGENCY" THEN "STOPPED"
         ELSE IF phase = "FLYING" THEN "FLYING"
         ELSE IF phase \in {"LANDING", "LANDED"} THEN "LANDING"
         ELSE IF idle THEN "IDLING" ELSE "ARMED"
Lifecycle == INSTANCE FlightLifecycle WITH stage <- Stage

(* The flight goes through the stages of FlightLifecycle only: into the    *)
(* air only through the idle gesture, out of LANDING only by a disarm or   *)
(* a stop.                                                                 *)
RefinesLifecycle == Lifecycle!Spec

(* A landing ends: by touchdown, by its time limit, or by leaving ARMED,   *)
(* unless the motor bench is switched on under it, which takes the motors  *)
(* and the tick's landing step with them.                                  *)
Lands == state = "ARMED" /\ phase = "LANDING"
LandingEnds == Lands ~> ~Lands \/ bench

(* A stop reaches the motors by the next tick, although that tick recovers *)
(* from it before it comes to the motors and ch7 may arm again in between. *)
(* It does not if the ground station recovers and somebody arms before     *)
(* that tick reads the kill switch; and it does not stop the motor on the  *)
(* bench, whose test ends outside DISARMED only if Update_Motor sees that. *)
ArmedAgain == state = "ARMED" /\ pc \in BeforeKill
StopSilencesMotors == state = "EMERGENCY" ~> motors \in {"ZERO", "BENCH"} \/ ArmedAgain

(* Why they hold, step by step of the tick.  A write that follows a check  *)
(* of the phase can only have been overtaken by a stop, and so can the     *)
(* motor branch that follows Update_Motor's copy of the state.             *)
Still(arm) == state = "EMERGENCY" \/ (state = "ARMED" /\ arm)

TickInv ==
  /\ DisarmedOnGround
  /\ LandedOnlyInCut
  /\ pc \in {"ch5_write", "wfb_write", "gate_write"} => Still(phase = "FLYING")
  /\ pc = "idle_write" => Still(phase = "GROUND_IDLE" /\ ~idle)
  /\ pc \in {"act", "fly_write", "output", "cut"} /\ snap = "ARMED" => Still(TRUE)
  /\ pc \in {"fly_write", "output", "cut"} => snap = "ARMED"
  /\ pc = "fly_write" => Still(phase = "GROUND_IDLE" /\ idle)
  /\ pc = "cut" => Still(phase = "LANDED")

(* From the moment the count is exceeded the tick runs in EMERGENCY.       *)
KillInv ==
  stopCnt > StopTicks =>
    /\ pc \in BeforeKill => motors = "ZERO"
    /\ pc \in AfterKill  => state = "EMERGENCY"
    /\ pc \in {"act", "fly_write", "output", "cut"} => snap = "EMERGENCY"

(* The landing detector at rest is empty, and a landing out of time has    *)
(* started its spool-down.                                                 *)
LandInv ==
  /\ ~landInit => landTimer = 0 /\ spool = 0
  /\ landTimer = LandMaxTicks => spool # 0

IndInv == TickInv /\ KillInv /\ LandInv /\ FlyupConsumedInTick
=============================================================================
