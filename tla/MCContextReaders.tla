-------------------------- MODULE MCContextReaders --------------------------
(* ContextReaders for TLC.                                                  *)
EXTENDS ContextReaders, TLC

\* Wallets of one type are told apart by nothing but their names.
Symmetry == Permutations(EvmWallets) \cup Permutations(TronWallets)
=============================================================================
