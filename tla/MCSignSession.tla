--------------------------- MODULE MCSignSession ---------------------------
(* SignSession for TLC: calls and ids can be permuted.                      *)
EXTENDS SignSession, TLC

Symmetry == Permutations(Calls) \cup Permutations(Ids)
=============================================================================
