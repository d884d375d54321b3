------------------------------ MODULE MC_EmMad ------------------------------
(* Model-checking instance of EmMad.                                       *)
EXTENDS EmMad, TLC

CONSTANTS j1, j2, w1, w2

Symmetry == Permutations({j1, j2})
=============================================================================
