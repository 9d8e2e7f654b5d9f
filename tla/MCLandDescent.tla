--------------------------- MODULE MCLandDescent ---------------------------
(* The heights landings start from (0.25 m, 0.75 m, the hover's limit of   *)
(* 1.4 m, the 2.5 m of the comment on LAND_MAX_TICKS), and the ground      *)
(* readings of the flight logs the comments of the firmware quote.         *)
EXTENDS LandDescent
FlownHeights   == {1000, 3000, 5600, 10000}
GroundReadings == {0, 400}
=============================================================================
