--------------------------- MODULE AccountLedger ---------------------------
(***************************************************************************)
(* What the operations of the client promise of the merchant's account,    *)
(* stated without nonces, requests or goroutines: one list of payments in  *)
(* the order in which they are made.  A payment is added at its end, once; *)
(* those at its front are settled one after the other and stay what they   *)
(* are; one that is not settled may give way to another that pays a higher *)
(* fee, and a filler does nothing else.                                    *)
(*                                                                         *)
(* MerchantAccount.tla implements this specification.                      *)
(***************************************************************************)
EXTENDS Naturals, Sequences

CONSTANT Fillers          \* who only takes the place of others

VARIABLES
  ledger,                 \* the payments: by whom, its how manieth, the fee
  settled                 \* how many of them are

vars == <<ledger, settled>>

Init == ledger = <<>> /\ settled = 0

\* No one makes the same payment twice.
IsNew(payment) ==
  \A i \in DOMAIN ledger :
    ledger[i].by # payment.by \/ ledger[i].n # payment.n

Submit ==
  /\ Len(ledger') = Len(ledger) + 1
  /\ \A i \in DOMAIN ledger : ledger'[i] = ledger[i]
  /\ IsNew(ledger'[Len(ledger')])
  /\ ledger'[Len(ledger')].by \notin Fillers
  /\ UNCHANGED settled

Outbid(i) ==
  /\ Len(ledger') = Len(ledger)
  /\ \A j \in DOMAIN ledger : j # i => ledger'[j] = ledger[j]
  /\ ledger[i].fee < ledger'[i].fee
  /\ IsNew(ledger'[i])
  /\ UNCHANGED settled

Settle ==
  /\ settled < Len(ledger)
  /\ settled' = settled + 1
  /\ UNCHANGED ledger

Next == Submit \/ Settle \/ \E i \in settled + 1 .. Len(ledger) : Outbid(i)

Spec == Init /\ [][Next]_vars
=============================================================================
