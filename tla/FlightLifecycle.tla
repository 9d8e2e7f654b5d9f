-------------------------- MODULE FlightLifecycle --------------------------
(***************************************************************************)
(* What the arm state machine and the flight sub-phase promise together,   *)
(* whatever task drives them: the stages a flight goes through, and the    *)
(* only ways to go from one to the next.  FlightCore implements it.        *)
(*                                                                         *)
(*   SAFE     state DISARMED                                               *)
(*   ARMED    armed on the ground, motors held at zero                     *)
(*   IDLING   armed on the ground, the idle gesture was given              *)
(*   FLYING, LANDING   armed and in that sub-phase                         *)
(*   STOPPED  state EMERGENCY                                              *)
(***************************************************************************)

VARIABLE stage

Stages == {"SAFE", "ARMED", "IDLING", "FLYING", "LANDING", "STOPPED"}
Armed  == {"ARMED", "IDLING", "FLYING", "LANDING"}

Move(from, to) == stage \in from /\ stage' = to

Init == stage = "SAFE"

(* Arming always starts at the bottom: motors at zero, idle not given.     *)
Arm         == Move({"SAFE"}, "ARMED")
EnableIdle  == Move({"ARMED"}, "IDLING")
DisableIdle == Move({"IDLING"}, "ARMED")

(* The only way into the air: through IDLING.                              *)
TakeOff     == Move({"IDLING"}, "FLYING")
Land        == Move({"FLYING"}, "LANDING")
Disarm      == Move(Armed, "SAFE")
Stop        == Move(Stages \ {"STOPPED"}, "STOPPED")
Recover     == Move({"STOPPED"}, "SAFE")

(* The ground-station idle command is checked, then applied: the aircraft  *)
(* may have left the ground in between, and is then sent back to IDLING.   *)
LateIdle    == Move({"FLYING", "LANDING"}, "IDLING")

Next == \/ Arm \/ EnableIdle \/ DisableIdle \/ TakeOff \/ Land
        \/ Disarm \/ Stop \/ Recover \/ LateIdle

Spec == Init /\ [][Next]_stage
=============================================================================
