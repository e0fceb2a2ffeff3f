-------------------------- MODULE MerchantAccount --------------------------
(***************************************************************************)
(* The merchant's EVM account and the operations that send from it:        *)
(* batchFundGas, which reads the nonce once and counts on; claimOnEvm,     *)
(* which reads it for each batch; releaseOnEvm and activateOnEvm with one  *)
(* transaction; and ForceResetNonce, which replaces what is stuck.         *)
(*                                                                         *)
(* Nothing in the client keeps two of them apart but the node, which they  *)
(* ask for the pending nonce and which refuses a nonce that is mined and a *)
(* replacement that pays no more.                                          *)
(***************************************************************************)
EXTENDS Integers

CONSTANTS
  Funds, Singles, Claims, Resets,   \* operations, by kind
  Size,                             \* transfers of a funding, most batches of a claim
  MaxNonce,                         \* bound on the account's nonces
  MaxFee,                           \* bound on the suggested gas price
  NoTx

Ops   == Funds \cup Singles \cup Claims \cup Resets
Nonce == 0 .. MaxNonce

\* The n-th transaction of an operation (a reset's: the one at nonce n).
Tx == [by : Ops, n : Nat, fee : Nat]

ASSUME AccountAssumption ==
  /\ Size \in Nat \ {0}
  /\ MaxNonce \in Nat
  /\ MaxFee \in Nat \ {0}
  /\ NoTx \notin Tx
  /\ Resets \cap (Funds \cup Singles \cup Claims) = {}
  /\ Claims \cap (Funds \cup Singles) = {}
  /\ Funds \cap Singles = {}

VARIABLES
  pc,       \* where each operation is
  next,     \* the nonce it uses next
  fee,      \* what it pays
  count,    \* transfers sent, batches visited
  empty,    \* emptyConsecutive of a claim
  logged,   \* batches in a claim's executedBatches and totalClaimedSum
  from,     \* diag.LatestNonce of a reset
  until,    \* diag.PendingNonce of a reset
  before,   \* operations that were over when it found the account healthy
  latest,   \* the node's latest nonce: those below are mined
  slot,     \* the transaction that holds a nonce
  good      \* mined nonces whose transaction did not revert

opVars   == <<next, fee, count, empty, logged, from, until, before>>
nodeVars == <<latest, slot, good>>
vars == <<pc, next, fee, count, empty, logged, from, until, before, latest,
          slot, good>>

Working == {"read", "send", "wait", "simulate"}
Over    == {"done", "failed", "dead"}

TypeOK ==
  /\ pc \in [Ops -> {"idle"} \cup Working \cup Over]
  /\ next \in [Ops -> Nat]
  /\ fee \in [Ops -> Nat]
  /\ count \in [Ops -> 0 .. Size]
  /\ empty \in [Ops -> 0 .. 2]
  /\ logged \in [Ops -> SUBSET (1 .. Size)]
  /\ from \in [Ops -> Nat]
  /\ until \in [Ops -> Nat]
  /\ before \in [Ops -> SUBSET Ops]
  /\ latest \in 0 .. MaxNonce + 1
  /\ slot \in [Nonce -> Tx \cup {NoTx}]
  /\ good \in SUBSET Nonce

Init ==
  /\ pc = [o \in Ops |-> "idle"]
  /\ next = [o \in Ops |-> 0]
  /\ fee = [o \in Ops |-> 0]
  /\ count = [o \in Ops |-> 0]
  /\ empty = [o \in Ops |-> 0]
  /\ logged = [o \in Ops |-> {}]
  /\ from = [o \in Ops |-> 0]
  /\ until = [o \in Ops |-> 0]
  /\ before = [o \in Ops |-> {}]
  /\ latest = 0
  /\ slot = [n \in Nonce |-> NoTx]
  /\ good = {}

Goto(o, label) == pc' = [pc EXCEPT ![o] = label]

-----------------------------------------------------------------------------
(* The node.                                                               *)

\* The nonce after those that are mined or can be.
Pending ==
  CHOOSE p \in 0 .. MaxNonce + 1 :
    /\ \A n \in Nonce : n < p => slot[n] # NoTx
    /\ p \in Nonce => slot[p] = NoTx

\* A nonce that is mined is too low; a replacement has to pay more.
Accepts(n, price) ==
  /\ n \in Nonce
  /\ n >= latest
  /\ slot[n] # NoTx => slot[n].fee < price

Put(n, o, k) == slot' = [slot EXCEPT ![n] = [by |-> o, n |-> k, fee |-> fee[o]]]

\* The k-th transaction of an operation is mined and has not reverted: its
\* hash has a receipt with status 1.
Mined(o, k) ==
  \E n \in good : n < latest /\ slot[n].by = o /\ slot[n].n = k

\* The transaction with the lowest nonce is mined; a transfer cannot revert.
Mine ==
  /\ latest \in Nonce
  /\ slot[latest] # NoTx
  /\ latest' = latest + 1
  /\ \/ good' = good \cup {latest}
     \/ slot[latest].by \in Claims \cup Singles /\ UNCHANGED good
  /\ UNCHANGED <<pc, opVars, slot>>

-----------------------------------------------------------------------------
(* The check, and what an operation sends.                                 *)

RememberOver(o) == before' = [before EXCEPT ![o] = { q \in Ops : pc[q] \in Over }]

\* Mutant: the account is not asked for pending transactions.
CheckNothing(o) ==
  /\ pc[o] = "idle"
  /\ o \notin Resets
  /\ Goto(o, IF o \in Claims THEN "simulate" ELSE "read")
  /\ RememberOver(o)
  /\ UNCHANGED <<next, fee, count, empty, logged, from, until, nodeVars>>

\* CheckNonceHealth: DiagnoseNonce reads latest before pending, so that it can
\* report a transaction mined in between, and fail, but miss none.
CheckNonceHealth(o) ==
  /\ pc[o] = "idle"
  /\ o \notin Resets
  /\ \/ /\ Pending = latest
        /\ Goto(o, IF o \in Claims THEN "simulate" ELSE "read")
        /\ RememberOver(o)
     \/ /\ Goto(o, "failed")
        /\ UNCHANGED before
  /\ UNCHANGED <<next, fee, count, empty, logged, from, until, nodeVars>>

\* A batch of a claim without funds, or whose simulation failed: two in a row
\* end the walk.
SimulateSkip(o) ==
  /\ pc[o] = "simulate"
  /\ count[o] < Size
  /\ count' = [count EXCEPT ![o] = @ + 1]
  /\ empty' = [empty EXCEPT ![o] = @ + 1]
  /\ Goto(o, IF empty'[o] = 2 THEN "done" ELSE "simulate")
  /\ UNCHANGED <<next, fee, logged, from, until, before, nodeVars>>

\* Mutant: emptyConsecutive counts all batches without funds.
SimulateClaimableUncleared(o) ==
  /\ pc[o] = "simulate"
  /\ count[o] < Size
  /\ count' = [count EXCEPT ![o] = @ + 1]
  /\ Goto(o, "read")
  /\ UNCHANGED <<next, fee, empty, logged, from, until, before, nodeVars>>

SimulateClaimable(o) ==
  /\ pc[o] = "simulate"
  /\ count[o] < Size
  /\ count' = [count EXCEPT ![o] = @ + 1]
  /\ empty' = [empty EXCEPT ![o] = 0]
  /\ Goto(o, "read")
  /\ UNCHANGED <<next, fee, logged, from, until, before, nodeVars>>

\* The list ends, after at most Size batches.
ClaimEnd(o) ==
  /\ pc[o] = "simulate"
  /\ Goto(o, "done")
  /\ UNCHANGED <<opVars, nodeVars>>

\* PendingNonceAt and GetFeeData.
ReadNonce(o) ==
  /\ pc[o] = "read"
  /\ next' = [next EXCEPT ![o] = Pending]
  /\ \E price \in 1 .. MaxFee : fee' = [fee EXCEPT ![o] = price]
  /\ Goto(o, "send")
  /\ UNCHANGED <<count, empty, logged, from, until, before, nodeVars>>

\* The node refuses the transaction, or could not be asked; ForceResetNonce
\* gives up the nonces that follow as well.
SendError(o) ==
  /\ pc[o] = "send"
  /\ Goto(o, "failed")
  /\ UNCHANGED <<opVars, nodeVars>>

\* Mutant: a transfer that was refused is skipped and its nonce with it.
SendTransferOrSkip(o) ==
  /\ pc[o] = "send"
  /\ o \in Funds
  /\ next[o] \in Nonce
  /\ \/ Accepts(next[o], fee[o]) /\ Put(next[o], o, count[o] + 1)
     \/ UNCHANGED slot
  /\ next' = [next EXCEPT ![o] = @ + 1]
  /\ count' = [count EXCEPT ![o] = @ + 1]
  /\ Goto(o, IF count'[o] = Size THEN "wait" ELSE "send")
  /\ UNCHANGED <<fee, empty, logged, from, until, before, latest, good>>

\* The loop of batchFundGas, which counts the nonce itself; the answer of the
\* node may be lost.
SendTransfer(o) ==
  /\ pc[o] = "send"
  /\ o \in Funds
  /\ Accepts(next[o], fee[o])
  /\ Put(next[o], o, count[o] + 1)
  /\ next' = [next EXCEPT ![o] = @ + 1]
  /\ count' = [count EXCEPT ![o] = @ + 1]
  /\ Goto(o, IF count'[o] = Size THEN "wait" ELSE "send") \/ Goto(o, "failed")
  /\ UNCHANGED <<fee, empty, logged, from, until, before, latest, good>>

\* A claim of a batch, a release, an activation.
SendCall(o) ==
  /\ pc[o] = "send"
  /\ o \in Claims \cup Singles
  /\ Accepts(next[o], fee[o])
  /\ Put(next[o], o, count[o])
  /\ Goto(o, "wait") \/ Goto(o, "failed")
  /\ UNCHANGED <<opVars, latest, good>>

\* The transactions an operation waits for.
Awaited(o) == IF o \in Funds THEN 1 .. Size ELSE {count[o]}

\* Mutant: a nonce that is used up is taken for a confirmation.
ConfirmedByNonce(o) ==
  /\ pc[o] = "wait"
  /\ o \notin Claims
  /\ next[o] < latest
  /\ Goto(o, "done")
  /\ UNCHANGED <<opVars, nodeVars>>

\* waitTxConfirmations: every hash has a receipt.
Confirmed(o) ==
  /\ pc[o] = "wait"
  /\ o \notin Claims
  /\ \A k \in Awaited(o) : Mined(o, k)
  /\ Goto(o, "done")
  /\ UNCHANGED <<opVars, nodeVars>>

\* The deadline, or a revert.
Unconfirmed(o) ==
  /\ pc[o] = "wait"
  /\ o \notin Claims
  /\ Goto(o, "failed")
  /\ UNCHANGED <<opVars, nodeVars>>

\* A claim counts the batch and goes on whatever the wait returned.
ClaimWaited(o) ==
  /\ pc[o] = "wait"
  /\ o \in Claims
  /\ logged' = [logged EXCEPT ![o] = @ \cup {count[o]}]
  /\ Goto(o, "simulate")
  /\ UNCHANGED <<next, fee, count, empty, from, until, before, nodeVars>>

-----------------------------------------------------------------------------
(* ForceResetNonce.                                                        *)

\* DiagnoseNonce and twice the suggested gas price.
Diagnose(o) ==
  /\ pc[o] = "idle"
  /\ o \in Resets
  /\ next' = [next EXCEPT ![o] = latest]
  /\ from' = [from EXCEPT ![o] = latest]
  /\ until' = [until EXCEPT ![o] = Pending]
  /\ \E price \in 1 .. MaxFee : fee' = [fee EXCEPT ![o] = 2 * price]
  /\ Goto(o, IF Pending = latest THEN "done" ELSE "send")
  /\ UNCHANGED <<count, empty, logged, before, nodeVars>>

\* Mutants: the loop ends one nonce late, or goes on after an error.
ReplaceInclusive(o) ==
  /\ pc[o] = "send"
  /\ o \in Resets
  /\ Accepts(next[o], fee[o])
  /\ Put(next[o], o, next[o])
  /\ next' = [next EXCEPT ![o] = @ + 1]
  /\ Goto(o, IF next[o] = until[o] THEN "done" ELSE "send")
  /\ UNCHANGED <<fee, count, empty, logged, from, until, before, latest, good>>

ReplaceOrSkip(o) ==
  /\ pc[o] = "send"
  /\ o \in Resets
  /\ \/ Accepts(next[o], fee[o]) /\ Put(next[o], o, next[o])
     \/ UNCHANGED slot
  /\ next' = [next EXCEPT ![o] = @ + 1]
  /\ Goto(o, IF next'[o] = until[o] THEN "done" ELSE "send")
  /\ UNCHANGED <<fee, count, empty, logged, from, until, before, latest, good>>

\* One transfer to itself for each nonce from latest to pending.
Replace(o) ==
  /\ pc[o] = "send"
  /\ o \in Resets
  /\ Accepts(next[o], fee[o])
  /\ Put(next[o], o, next[o])
  /\ next' = [next EXCEPT ![o] = @ + 1]
  /\ \/ Goto(o, IF next'[o] = until[o] THEN "done" ELSE "send")
     \/ Goto(o, "failed")
  /\ UNCHANGED <<fee, count, empty, logged, from, until, before, latest, good>>

-----------------------------------------------------------------------------
\* A request before the send fails, or that for the length of the list.
StepError(o) ==
  /\ pc[o] = "read" \/ (pc[o] = "simulate" /\ count[o] = 0)
  /\ Goto(o, "failed")
  /\ UNCHANGED <<opVars, nodeVars>>

\* The process dies; the user may start other operations in the next one.
Crash ==
  /\ \E o \in Ops : pc[o] \in Working
  /\ pc' = [o \in Ops |-> IF pc[o] \in Working THEN "dead" ELSE pc[o]]
  /\ UNCHANGED <<opVars, nodeVars>>

OpStep(o) ==
  \/ CheckNonceHealth(o) \/ SimulateSkip(o) \/ SimulateClaimable(o)
  \/ ClaimEnd(o) \/ ReadNonce(o) \/ SendError(o) \/ SendTransfer(o)
  \/ SendCall(o) \/ Confirmed(o) \/ Unconfirmed(o) \/ ClaimWaited(o)
  \/ Diagnose(o) \/ Replace(o) \/ StepError(o)

Next == Mine \/ Crash \/ \E o \in Ops : OpStep(o)

Spec == Init /\ [][Next]_vars

-----------------------------------------------------------------------------
(* Properties.                                                             *)

\* The account never has a missing nonce, behind which every later transaction
\* would wait: whatever is replaced, refused or lost (batchFundGas counts its
\* nonces itself, ForceResetNonce walks over those of others).
NoGap == \A m, n \in Nonce : m < n /\ slot[n] # NoTx => slot[m] # NoTx

\* A funding, a release or an activation that returned without an error has its
\* own transactions mined, although each nonce may have been taken over by
\* another operation or a reset (waitTxConfirmations asks for hashes).
DoneIsMined ==
  \A o \in Funds \cup Singles : pc[o] = "done" =>
    \A k \in Awaited(o) : Mined(o, k)

\* An operation that follows one that has ended never works beside a pending
\* transaction of it (CheckNonceHealth): where a retry pays a second time, the first
\* payment was mined between its timeout and the retry.
RetryIsClean ==
  \A o \in Ops : pc[o] \in Working =>
    \A n \in Nonce : n >= latest /\ slot[n] # NoTx => slot[n].by \notin before[o]

\* After a reset that ended well every nonce it had found stuck is mined or
\* paid for at its price (ForceResetNonce).
ResetUnsticks ==
  \A o \in Resets : pc[o] = "done" =>
    \A n \in Nonce : from[o] <= n /\ n < until[o] =>
      n < latest \/ (slot[n] # NoTx /\ slot[n].fee >= fee[o])

\* The walk of a claim gives a list up only where the last two batches it has
\* seen were without funds or could not be simulated: the batches that are
\* counted as empty are the last ones, and none of them was claimed
\* (emptyConsecutive of claimOnEvm).
WalkStopsAtGap ==
  \A o \in Claims : \A j \in 1 .. count[o] :
    j > count[o] - empty[o] => j \notin logged[o]

\* The transactions that hold a nonce, in the order of their nonces.
Ledger == INSTANCE AccountLedger WITH
  Fillers <- Resets,
  ledger  <- [i \in 1 .. Pending |-> slot[i - 1]],
  settled <- latest

\* The account is a list of payments, each made at most once and mined in its
\* turn; what is mined stays, what is not gives way to a higher fee only, and a
\* reset takes over places and never adds one (SendRawTransaction,
\* batchFundGas, ForceResetNonce).
ImplementsLedger == Ledger!Spec

-----------------------------------------------------------------------------
(* The inductive invariant.                                                *)

\* The nonces in use are those below one number, and the mined ones are.
Prefix ==
  \E p \in 0 .. MaxNonce + 1 :
    /\ latest <= p
    /\ \A n \in Nonce : slot[n] # NoTx <=> n < p

UsedBelow(k) == \A n \in Nonce : n < k => slot[n] # NoTx

\* An operation never sends beyond the nonces in use, a reset never after
\* them; a claim sends for a batch it has visited and stops at two empty ones,
\* a funding has transfers left while it sends.
Counting ==
  /\ \A o \in Ops : pc[o] = "send" => UsedBelow(next[o])
  /\ \A o \in Resets :
       /\ UsedBelow(until[o])
       /\ pc[o] \in {"idle", "send"} \cup Over
       /\ pc[o] = "send" => next[o] < until[o]
       /\ pc[o] = "done" => next[o] = until[o]
  /\ \A o \in Ops \ Claims : pc[o] # "simulate"
  /\ \A o \in Claims : pc[o] \in {"read", "send", "wait"} => count[o] > 0
  /\ \A o \in Funds : pc[o] \in {"idle", "read", "send"} => count[o] < Size
  /\ \A o \in Ops : pc[o] # "done" => empty[o] < 2

\* What a reset has walked over is mined or pays its price.
Mended ==
  \A o \in Resets : \A n \in Nonce : from[o] <= n /\ n < next[o] =>
    n < latest \/ (slot[n] # NoTx /\ slot[n].fee >= fee[o])

\* An operation remembers others only when they are over.
Remembered ==
  \A o \in Ops :
    /\ pc[o] = "idle" => before[o] = {}
    /\ \A q \in before[o] : pc[q] \in Over

\* The account in every reachable state: what NoGap, RetryIsClean, DoneIsMined
\* and ResetUnsticks rest on.
IInv ==
  /\ TypeOK /\ Prefix /\ Counting /\ Mended /\ Remembered
  /\ RetryIsClean /\ DoneIsMined

\* A claim logs batches it has visited, and has none empty in hand while it
\* claims one.
WalkCounts ==
  \A o \in Claims :
    /\ logged[o] \subseteq 1 .. count[o]
    /\ pc[o] \in {"read", "send", "wait"} => empty[o] = 0

WalkIInv == WalkCounts /\ WalkStopsAtGap

\* What is at the node was sent by an operation that has counted it, and is not
\* what it sends next.
SentOnce ==
  \A n \in Nonce : slot[n] # NoTx =>
    LET o == slot[n].by  j == slot[n].n
    IN  /\ pc[o] # "idle"
        /\ o \in Funds => j <= count[o]
        /\ o \in Claims => /\ j <= count[o]
                           /\ pc[o] \in {"read", "send"} => j < count[o]
        /\ o \in Singles => pc[o] \notin {"read", "send"}
        /\ o \in Resets => j = n /\ n < next[o]
=============================================================================
