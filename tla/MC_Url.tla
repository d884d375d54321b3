-------------------------------- MODULE MC_Url --------------------------------
EXTENDS Url, TLC
CONSTANTS t1, t2
=============================================================================
