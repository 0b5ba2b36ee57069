--------------------------- MODULE MCCooperativeReplay ---------------------------
(* Small instances of CooperativeReplay for TLC.                           *)
EXTENDS CooperativeReplay, TLC

CONSTANTS w1, w2, c1, c2, d1, d2

Symmetry == Permutations(Workers) \cup Permutations(Callers)
=================================================================================
