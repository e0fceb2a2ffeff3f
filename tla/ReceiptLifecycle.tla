------------------------- MODULE ReceiptLifecycle -------------------------
(***************************************************************************)
(* The custody promise of the client, stated without goroutines, requests  *)
(* or databases: a receipt address climbs one ladder, rung by rung, and    *)
(* never goes back.  Nothing is registered before the merchant can sign    *)
(* for it, nothing is funded before it is registered, nothing is listed in *)
(* the split contract before its allowance is confirmed.                   *)
(*                                                                         *)
(* BatchSetup.tla implements this specification.                           *)
(***************************************************************************)
EXTENDS Naturals

CONSTANT Addr                    \* the addresses the MPC server can generate

VARIABLE stage

Unborn     == 0   \* no MPC keygen has produced it
Bound      == 1   \* verify-bind succeeded at the MPC server (Party 2 share)
Keyed      == 2   \* the Party 1 share is in keys.db
Signable   == 3   \* share and public key are in keys.db: it can be signed for
Registered == 4   \* the payment server knows it (GENERATED or later)
Funded     == 5   \* a native-coin transfer to it has been broadcast
Approving  == 6   \* its approve transaction has been broadcast
Approved   == 7   \* the payment server reports APPROVED
Listed     == 8   \* the split contract lists it as a receipt wallet
Active     == 9   \* the payment server reports ACTIVE

Stages == 0 .. Active

Init == stage = [a \in Addr |-> Unborn]

\* A group of addresses takes the next rung together (one transaction lists
\* many); a single address is the group of one.
Climb(group, rung) ==
  /\ rung \in 0 .. (Active - 1)
  /\ \A a \in group : stage[a] = rung
  /\ stage' = [a \in Addr |-> IF a \in group THEN rung + 1 ELSE stage[a]]

Next == \E group \in SUBSET Addr, rung \in 0 .. (Active - 1) :
          Climb(group, rung)

Spec == Init /\ [][Next]_stage
=============================================================================
