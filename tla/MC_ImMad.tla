------------------------------- MODULE MC_ImMad -------------------------------
EXTENDS ImMad, TLC
CONSTANTS r1, r2, r3

\* r2 searches the whole VO, r3 has host_filter = c1.
MCHostFilter == (r2 :> NoFilter) @@ (r3 :> {"c1"})
=============================================================================
