------------------------------ MODULE GsClaim ------------------------------
(***************************************************************************)
(* What workflow B promises of its claim on a flight, whoever commands and *)
(* whatever fails.  WfbFlight implements it.                               *)
(*                                                                         *)
(*   none      no ground-station flight                                    *)
(*   auto      it climbs, holds, flies a path or returns to hold           *)
(*   homing    it returns to the pad to land; clock counts its ticks       *)
(*   landing   it asks for the existing landing                            *)
(*   pilot     the pilot's stick took it over                              *)
(*   stopped   a crash tilt stopped its motors                             *)
(***************************************************************************)
EXTENDS Naturals

CONSTANT ReturnTicks   \* the longest homing

VARIABLES claim, clock

Moves(from, to) == claim \in from /\ claim' = to /\ clock' = 0

Init == claim = "none" /\ clock = 0

(* A flight is claimed by an accepted TAKEOFF only; a disarm that is seen  *)
(* ends any claim.                                                         *)
Claim   == Moves({"none"}, "auto")
Release == Moves({"auto", "homing", "landing", "pilot", "stopped"}, "none")

(* Going home starts the clock, and no later command or fault stops it or  *)
(* sets it back: when it runs out, the flight lands where it is.           *)
GoHome == claim = "auto" /\ claim' = "homing" /\ clock' \in {0, 1}
Home   == claim = "homing" /\ UNCHANGED claim /\ clock' = clock + 1 /\ clock' <= ReturnTicks
Land   == Moves({"auto", "homing"}, "landing")

(* What the pilot took, or a crash stopped, is never flown again.          *)
TakeOver == Moves({"auto", "homing", "landing", "stopped"}, "pilot")
Stop     == Moves({"auto", "homing", "landing"}, "stopped")

Next == Claim \/ Release \/ GoHome \/ Home \/ Land \/ TakeOver \/ Stop

Spec == Init /\ [][Next]_<<claim, clock>>
=============================================================================
