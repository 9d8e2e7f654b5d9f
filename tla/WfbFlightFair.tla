--------------------------- MODULE WfbFlightFair ---------------------------
(***************************************************************************)
(* WfbFlight with the stabilizer's fairness: it ticks for ever, and nobody *)
(* has to command anything.  beat flips at every tick, which lets the      *)
(* fairness speak of ticks without naming their inputs.                    *)
(***************************************************************************)
EXTENDS WfbFlight

VARIABLE beat

FairInit == Init /\ beat = 0

Beats  == TickStep /\ beat' = 1 - beat
Others == (VehicleStep \/ Command) /\ UNCHANGED beat

FairSpec ==
  /\ FairInit
  /\ [][Beats \/ Others]_<<vars, beat>>
  /\ []<><<beat' # beat>>_beat

(* A ground-station flight ends by itself even when nobody sends anything, *)
(* or somebody keeps sending: the airborne cap, then the return timeout.   *)
GsFlightLands == (stage = "FLYING" /\ GsFlying(wfb)) ~> (stage # "FLYING" \/ ~GsFlying(wfb))
=============================================================================
