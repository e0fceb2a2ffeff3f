------------------------- MODULE MCMerchantAccount -------------------------
(* MerchantAccount for TLC.                                                 *)
EXTENDS MerchantAccount
=============================================================================
