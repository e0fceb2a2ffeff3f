---------------------------- MODULE MCSplitSync ----------------------------
(* SplitSync for TLC.                                                       *)
EXTENDS SplitSync, TLC

CONSTANTS m1

\* Both split wallets are of one merchant: the other one has none.
MCOwner == [s \in Splits |-> m1]

Symmetry == Permutations(Splits)
=============================================================================
