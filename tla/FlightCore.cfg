SPECIFICATION FairSpec
CONSTANTS
  StopTicks = 1
  LandMaxTicks = 2
  LandSpoolTicks = 2
  MaxPreempt = 1
  ScriptOverrun = TRUE
  Commands = {"arm", "arm_off", "idle_on", "idle_off", "abort", "recover", "execute", "throttle", "takeoff", "land", "bench"}
INVARIANTS
  TypeOK
  DisarmedOnGround
  KillSilencesMotors
PROPERTIES
  ArmsCold
  RefinesLifecycle
  LandingEnds
  StopSilencesMotors
