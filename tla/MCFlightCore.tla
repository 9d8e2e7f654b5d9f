---------------------------- MODULE MCFlightCore ----------------------------
EXTENDS FlightCore, TLC
=============================================================================
