---------------------------- MODULE MCBatchSetup ----------------------------
(* BatchSetup for TLC: its constants have their values in the .cfg files.   *)
EXTENDS BatchSetupInvariant, TLC

\* The addresses the MPC server hands out are interchangeable: no action and
\* no safety property names one.
AddrSymmetry == Permutations(Addr)
=============================================================================
