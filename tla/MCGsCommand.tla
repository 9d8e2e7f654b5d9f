---------------------------- MODULE MCGsCommand ----------------------------
EXTENDS GsCommand, TLC
=============================================================================
