--------------------------- MODULE MCCommandQueue ---------------------------
EXTENDS CommandQueue, TLC
=============================================================================
