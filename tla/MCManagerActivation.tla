------------------------ MODULE MCManagerActivation ------------------------
(* ManagerActivation for TLC.                                               *)
EXTENDS ManagerActivation, TLC

\* Runs and managers are told apart by nothing but their names.
Symmetry == Permutations(Runs) \cup Permutations(Mgr)
=============================================================================
