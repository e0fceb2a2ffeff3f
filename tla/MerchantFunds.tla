--------------------------- MODULE MerchantFunds ---------------------------
(***************************************************************************)
(* What the operations of the GUI cost: the dialog that compares an        *)
(* estimate with the merchant's balance, and the payments that follow it,  *)
(* each with a fee of its own moment, while fees move and other operations *)
(* spend from the same wallet.                                             *)
(*                                                                         *)
(* Gas and energy are counted in thousands.  On EVM the price is the base  *)
(* fee, in any unit, and there is a priority fee, the tip, beside it; on   *)
(* Tron it is the energy price in SUN, and amounts are thousandths of a    *)
(* TRX.  Each estimate and each transaction reads the tip, or the energy   *)
(* price, anew, and takes a default without a word when the node does not  *)
(* answer.                                                                 *)
(*                                                                         *)
(* A chain without a base fee has the base fee 0 and its gas price for a   *)
(* tip: the code then reckons with the gas price alone, as here.           *)
(***************************************************************************)
EXTENDS Integers, FiniteSets

CONSTANTS
  N,             \* receipt wallets of a set-up
  Size,          \* receipt wallets of a batch of a claim
  Listed,        \* receipt wallets on the contract's list, and how far it may grow
  Prices,        \* for each kind of chain, the prices it may have
  Tips,          \* for each kind of chain, the tips its node may suggest
  DefaultTip,    \* the tip taken when the node suggests none, 1.5 Gwei
  Purses,        \* for each kind of chain, what the merchant may have
  ApproveGas,    \* what calls really use, of gas or energy
  AddGas,
  CallGas,       \* claims of a batch and releases
  MaxSpent       \* bound on what other operations spend

Nets  == {"evm", "tron"}
Calls == {"claim", "release"}

ASSUME FundsAssumption ==
  /\ {N, Size, Listed} \subseteq Nat \ {0}
  /\ {MaxSpent, ApproveGas, AddGas} \subseteq Nat
  /\ Prices \in [Nets -> SUBSET Nat]
  /\ Tips \in [Nets -> SUBSET Nat]
  /\ DefaultTip \in Nat
  /\ Purses \in [Nets -> SUBSET Nat]
  /\ CallGas \in [Calls -> SUBSET Nat]

\* GetEnergyPrice takes this price when the chain's cannot be read.
DefaultPrice == 420

\* A unit of gas costs something, and a tip is nothing or enough for the
\* roundings not to matter.
ASSUME TipAssumption ==
  /\ 0 \notin Prices["evm"] \cap Tips["evm"]
  /\ \A t \in Tips["evm"] \cup {DefaultTip} : t = 0 \/ t >= 27
  /\ DefaultTip > 0

\* What the estimates take for granted of real calls: an approve uses at most
\* the 60 thousand gas reckoned with (gas_estimator.go:13), a listed address 0.56
\* to 0.73 of an approve (gui_service.go:1156), and an approve on Tron costs
\* 3 TRX or more, its default being 8 (gui_service.go:873).
ASSUME UsageAssumption ==
  /\ ApproveGas <= 60
  /\ 56 * ApproveGas <= 100 * AddGas
  /\ 100 * AddGas <= 73 * ApproveGas
  /\ \A p \in Prices["tron"] \cup {DefaultPrice} : ApproveGas * p >= 3000

VARIABLES
  net,       \* the kind of chain
  price,     \* its price now
  tip,       \* the tip its node suggests now
  wallet,    \* the merchant's native coin
  gas,       \* the coin of the receipts 1 .. N and of the manager N + 1
  op,        \* the operation
  at,        \* where it is
  k,         \* transfers or calls it has made
  batches,   \* BatchCount of the dialog
  listed,    \* the length of the contract's list
  quote,     \* PerReceiptWallet and ManagerTotal it pays by
  cap,       \* GasFeeCap of batchFundGas, read once
  tipCap,    \* GasTipCap, likewise
  approved,  \* receipts whose approve was mined
  sent,      \* the last call: its gas limit and what it needs
  refused,   \* a payment was refused or a sweep left out for want of coin
  \* What the properties compare with:
  start,     \* the merchant's coin at the dialog
  shown,     \* the total the dialog, or on EVM the log, has shown
  basis,     \* the lowest price an estimate was made at
  basisTip,  \* the tip it was made at
  peak,      \* the highest price the chain had or an estimate read since
  peakTip,   \* the highest tip suggested or read since
  guessed,   \* an estimate failed and a default was used
  over,      \* a call held or used more than the dialog reckons with
  spent      \* what other operations have spent

quoteVars == <<batches, quote, shown>>
feeVars   == <<cap, tipCap>>
since     == <<basis, basisTip, peak>>
ghosts == <<start, since, peakTip, guessed, over, spent>>
vars == <<net, price, tip, wallet, gas, op, at, k, listed, feeVars, approved, sent,
          refused, quoteVars, ghosts>>

Manager == N + 1
Targets == 1 .. Manager
evm     == net = "evm"

NoQuote == [receipt |-> 0, manager |-> 0]
NoCall  == [limit |-> 0, needs |-> 0]

Init ==
  /\ net \in Nets
  /\ price \in Prices[net] /\ tip \in Tips[net]
  /\ wallet \in Purses[net]
  /\ gas = [i \in Targets |-> 0]
  /\ op = "none" /\ at = "idle" /\ k = 0
  /\ listed = Listed
  /\ batches = 0 /\ quote = NoQuote /\ shown = 0
  /\ cap = 0 /\ tipCap = 0 /\ approved = {} /\ sent = NoCall /\ refused = FALSE
  /\ start = wallet
  /\ basis = price /\ basisTip = tip /\ peak = price /\ peakTip = tip
  /\ guessed = FALSE /\ over = FALSE /\ spent = 0

-----------------------------------------------------------------------------
(* Prices and estimates.                                                   *)

Percent(n, p) == (n * p) \div 100
Least(a, b)   == IF a < b THEN a ELSE b
Most(a, b)    == IF a < b THEN b ELSE a

\* What SuggestGasTipCap, and GetEnergyPrice, may give.
TipReadings   == {tip, DefaultTip}
PriceReadings == {price, DefaultPrice}

\* SuggestGasPrice.
Suggested == price + tip

\* Mutant: the safety factor is left out.
PriceOnly(t) == 2 * price + t

\* GetGasPriceWithSafety with a tip t.
SafePrice(t) == Percent(2 * price + t, 150)

\* GetFeeData with a tip t.
FeeCap(t) == (3 * price) \div 2 + t

\* What a call may be sent with: GetFeeData's caps, or the suggested gas price
\* when the base fee is 0 or could not be read.
Offers ==
  IF evm THEN { [cap |-> Suggested, tip |-> tip] }
              \cup { [cap |-> FeeCap(t), tip |-> t] :
                      t \in IF price = 0 THEN {} ELSE TipReadings }
         ELSE { [cap |-> 0, tip |-> 0] }

\* What is paid of a cap.
Paid(offer) == Least(offer.cap, price + offer.tip)

\* EstimateTronContractFee at a price p and calculateFeeLimit.
ContractFee(energy, p) == ((energy * p + 500) * 6) \div 5
FeeLimit(energy)       == ((energy * DefaultPrice + 500) * 13) \div 10

\* EstimateBatchSetup.
EstimateEvm(t) ==
  [receipt |-> (60 + 21) * SafePrice(t),
   manager |-> (50 + 100 * N + 21) * SafePrice(t)]

TotalEvm(t) ==
  N * EstimateEvm(t).receipt + EstimateEvm(t).manager + (N + 1) * (21 * SafePrice(t))

TotalTron(receipt, manager) == N * receipt + manager + (N + 1) * 1100

\* The estimate of an approve on Tron, or 8 TRX.
ReceiptFee(p)   == ContractFee(ApproveGas, p)
TronReceipts(p) == {ReceiptFee(p), 8000}

\* The estimate of the dialog for addReceiptWallets on Tron, or 50 TRX.
ManagerFee(p) ==
  ContractFee(AddGas, p) + (ContractFee(AddGas, p) * (N - 1)) \div 2
TronManagers(p) == {ManagerFee(p), 50000}

\* What batchSetupTron pays instead: a share of the receipts' estimate.
TronShare(receipt) == Percent(receipt * N, 73)

Batches == Most(1, (listed + Size - 1) \div Size)

\* What a dialog reckons with for a call of the merchant: gas, or TRX on Tron.
GuessedGas == [claim |-> 50 + 30 * Size, release |-> 150]
GuessedTrx == [claim |-> 100000, release |-> 80000]

\* Mutant: the fee of one batch is taken for all.
CallFeesOfOne(o, count) ==
  Percent(IF evm THEN GuessedGas[o] * Suggested ELSE GuessedTrx[o], 150)

CallFees(o, count) ==
  Percent(count * IF evm THEN GuessedGas[o] * Suggested ELSE GuessedTrx[o], 150)

-----------------------------------------------------------------------------
(* The dialogs: an operation goes on when the balance is sufficient.       *)

AskSetupEvm ==
  /\ at = "idle" /\ evm
  /\ \E t \in TipReadings :
       /\ wallet >= Percent(TotalEvm(t), 150)
       /\ shown' = TotalEvm(t)
       /\ basisTip' = t /\ peakTip' = Most(tip, t)
  /\ op' = "setup" /\ at' = "confirmed"
  /\ start' = wallet /\ basis' = price /\ peak' = price
  /\ UNCHANGED <<net, price, tip, wallet, gas, k, batches, listed, quote, feeVars,
                 approved, sent, refused, guessed, over, spent>>

AskSetupTron ==
  /\ at = "idle" /\ ~evm
  /\ \E p, q \in PriceReadings : \E r \in TronReceipts(p), m \in TronManagers(q) :
       /\ wallet >= Percent(TotalTron(r, m), 150)
       /\ shown' = TotalTron(r, m)
       /\ guessed' = (r # ReceiptFee(p) \/ m # ManagerFee(q))
       /\ basis' = Least(p, q) /\ peak' = Most(price, Most(p, q))
  /\ op' = "setup" /\ at' = "confirmed"
  /\ start' = wallet
  /\ UNCHANGED <<net, price, tip, wallet, gas, k, batches, listed, quote, feeVars,
                 approved, sent, refused, basisTip, peakTip, over, spent>>

AskCall(o) ==
  /\ at = "idle"
  /\ batches' = IF o = "claim" THEN Batches ELSE 1
  /\ shown' = CallFees(o, batches')
  /\ wallet >= shown'
  /\ op' = o /\ at' = "call"
  /\ start' = wallet
  /\ basis' = price /\ basisTip' = tip /\ peak' = price /\ peakTip' = tip
  /\ UNCHANGED <<net, price, tip, wallet, gas, k, listed, quote, feeVars, approved,
                 sent, refused, guessed, over, spent>>

-----------------------------------------------------------------------------
(* The set-up.                                                             *)

\* batchSetupEvm estimates again, logs the total and looks at the balance.
StartEvm ==
  /\ at = "confirmed" /\ evm
  /\ \E t \in TipReadings :
       /\ quote' = EstimateEvm(t) /\ shown' = TotalEvm(t)
       /\ basisTip' = t /\ peakTip' = Most(tip, t)
  /\ basis' = price /\ peak' = price
  /\ at' = IF wallet >= shown' THEN "begin" ELSE "declined"
  /\ UNCHANGED <<net, price, tip, wallet, gas, op, k, batches, listed, feeVars,
                 approved, sent, refused, start, guessed, over, spent>>

\* batchSetupTron estimates again and only logs the balance.
StartTron ==
  /\ at = "confirmed" /\ ~evm
  /\ \E p \in PriceReadings : \E r \in TronReceipts(p) :
       /\ quote' = [receipt |-> r, manager |-> TronShare(r)]
       /\ guessed' = (guessed \/ r # ReceiptFee(p))
       /\ basis' = Least(basis, p) /\ peak' = Most(peak, p)
  /\ at' = "begin"
  /\ UNCHANGED <<net, price, tip, wallet, gas, op, k, batches, listed, feeVars,
                 approved, sent, refused, start, shown, basisTip, peakTip, over,
                 spent>>

\* The fee data is read once for all transfers.
FundBegin ==
  /\ at = "begin"
  /\ IF evm THEN \E t \in TipReadings :
                   cap' = FeeCap(t) /\ tipCap' = t /\ peakTip' = Most(peakTip, t)
            ELSE UNCHANGED <<feeVars, peakTip>>
  /\ at' = "fund"
  /\ UNCHANGED <<net, price, tip, wallet, gas, op, k, listed, approved, sent, refused,
                 quoteVars, start, since, guessed, over, spent>>

\* The node holds back the whole fee of a transfer until it is mined.
Held == IF evm THEN 21 * cap ELSE 1100

Value == IF k + 1 = Manager THEN quote.manager ELSE quote.receipt

Fund ==
  /\ at = "fund" /\ k < Manager
  /\ wallet >= Value + Held
  /\ wallet' = wallet - Value - Held
  /\ gas' = [gas EXCEPT ![k + 1] = Value]
  /\ k' = k + 1
  /\ UNCHANGED <<net, price, tip, op, at, listed, feeVars, approved, sent, refused,
                 quoteVars, ghosts>>

FundRefused ==
  /\ at = "fund" /\ k < Manager
  /\ wallet < Value + Held
  /\ refused' = TRUE
  /\ at' = "failed"
  /\ UNCHANGED <<net, price, tip, wallet, gas, op, k, listed, feeVars, approved, sent,
                 quoteVars, ghosts>>

\* The transfers are mined when the base fee is within the cap, and what was
\* held back beyond the fee comes back; the wait gives up otherwise.
FundMined ==
  /\ at = "fund" /\ k = Manager
  /\ IF evm /\ price > cap
       THEN at' = "failed" /\ UNCHANGED wallet
       ELSE /\ at' = "approve"
            /\ wallet' = wallet +
                 IF evm THEN Manager * 21 * (cap - Paid([cap |-> cap, tip |-> tipCap]))
                        ELSE 0
  /\ k' = 0
  /\ UNCHANGED <<net, price, tip, gas, op, listed, feeVars, approved, sent, refused,
                 quoteVars, ghosts>>

\* The gas limits an EVM call may get: the node's estimate and 30 %, at most
\* 500 thousand, or the default when it does not answer (EstimateGas).
Limits(needs) ==
  { [limit |-> Least(Percent(needs, 130), 500), needs |-> needs],
    [limit |-> 100, needs |-> needs] }

\* What an account pays for a call that uses `used' of a limit.
Fee(used, offer) == IF evm THEN used * Paid(offer) ELSE used * price + 350

\* It must have the limit at the cap on EVM; on Tron the fee, within the fee
\* limit.
Affords(have, call, offer) ==
  IF evm THEN have >= call.limit * offer.cap
         ELSE /\ have >= Fee(call.needs, offer)
              /\ call.needs * price <= FeeLimit(call.needs)

CallsFor(needs) ==
  IF evm THEN Limits(needs) ELSE { [limit |-> needs, needs |-> needs] }

\* A receipt's approve.
SendApprove(call, offer) ==
  /\ peakTip' = Most(peakTip, offer.tip)
  /\ IF Affords(gas[k + 1], call, offer)
       THEN /\ gas' = [gas EXCEPT ![k + 1] =
                                   @ - Fee(Least(call.limit, ApproveGas), offer)]
            /\ approved' = approved \cup {k + 1}
            /\ UNCHANGED refused
       ELSE refused' = TRUE /\ UNCHANGED <<gas, approved>>

\* doSingleApprove, and the loop of batchApproveTron.
Approve ==
  /\ at = "approve" /\ k < N
  /\ \E call \in CallsFor(ApproveGas), offer \in Offers : SendApprove(call, offer)
  /\ k' = k + 1
  /\ UNCHANGED <<net, price, tip, wallet, op, at, listed, feeVars, sent, quoteVars,
                 start, since, guessed, over, spent>>

\* An approve that fails for another reason is skipped.
ApproveSkip ==
  /\ at = "approve" /\ k < N
  /\ k' = k + 1
  /\ UNCHANGED <<net, price, tip, wallet, gas, op, at, listed, feeVars, approved, sent,
                 refused, quoteVars, ghosts>>

ApproveEnd ==
  /\ at = "approve" /\ k = N
  /\ at' = IF approved = {} THEN "failed" ELSE "add"
  /\ UNCHANGED <<net, price, tip, wallet, gas, op, k, listed, feeVars, approved, sent,
                 refused, quoteVars, ghosts>>

\* The limit of addReceiptWallets on EVM is reckoned, not asked for.
AddCall ==
  LET count == Cardinality(approved)
  IN  IF evm THEN [limit |-> 50 + 100 * count, needs |-> 50 + 100 * count]
             ELSE [limit |-> AddGas * count, needs |-> AddGas * count]

SendAdd(offer) ==
  /\ peakTip' = Most(peakTip, offer.tip)
  /\ IF Affords(gas[Manager], AddCall, offer)
       THEN /\ gas' = [gas EXCEPT ![Manager] = @ - Fee(AddCall.needs, offer)]
            /\ at' = "sweep"
            /\ UNCHANGED refused
       ELSE /\ refused' = TRUE
            /\ at' = "failed"
            /\ UNCHANGED gas

AddReceiptWallets ==
  /\ at = "add"
  /\ \E offer \in Offers : SendAdd(offer)
  /\ k' = 0
  /\ UNCHANGED <<net, price, tip, wallet, op, listed, feeVars, approved, sent,
                 quoteVars, start, since, guessed, over, spent>>

\* BuildSweepTx holds 21 thousand gas at one and a half times the price back
\* and spends them; BuildTronSweepTx leaves 0.3 TRX.
SweepCost == IF evm THEN 21 * Percent(Suggested, 150) ELSE 300

Sweep ==
  /\ at = "sweep" /\ k < Manager
  /\ IF k + 1 \notin approved \cup {Manager}
       THEN UNCHANGED <<wallet, gas, refused>>
       ELSE IF gas[k + 1] > SweepCost
         THEN /\ wallet' = wallet + gas[k + 1] - SweepCost
              /\ gas' = [gas EXCEPT ![k + 1] = 0]
              /\ UNCHANGED refused
         ELSE refused' = TRUE /\ UNCHANGED <<wallet, gas>>
  /\ k' = k + 1
  /\ at' = IF k' = Manager THEN "done" ELSE "sweep"
  /\ UNCHANGED <<net, price, tip, op, listed, feeVars, approved, sent, quoteVars, ghosts>>

\* A sweep that cannot be signed or sent is left out.
SweepSkip ==
  /\ at = "sweep" /\ k < Manager
  /\ k' = k + 1
  /\ at' = IF k' = Manager THEN "done" ELSE "sweep"
  /\ UNCHANGED <<net, price, tip, wallet, gas, op, listed, feeVars, approved, sent,
                 refused, quoteVars, ghosts>>

-----------------------------------------------------------------------------
(* Claims and releases.                                                    *)

\* The batches of a claim as the list is now; some have nothing to claim.
Calling == at = "call" /\ k < IF op = "claim" THEN Batches ELSE 1

\* The dialog has reckoned with less, of gas to be held or of TRX.
BeyondReckoned(call) ==
  IF evm THEN call.limit > GuessedGas[op]
         ELSE call.needs * price > GuessedTrx[op]

\* A call is sent when the wallet can hold it.
SendCall(call, offer) ==
  /\ sent' = call
  /\ peakTip' = Most(peakTip, offer.tip)
  /\ guessed' = (guessed \/ (evm /\ call.limit # Percent(call.needs, 130)
                                 /\ call.limit # 500))
  /\ over' = (over \/ BeyondReckoned(call))
  /\ IF Affords(wallet, call, offer)
       THEN /\ wallet' = wallet - Fee(Least(call.limit, call.needs), offer)
            /\ k' = k + 1
            /\ UNCHANGED <<at, refused>>
       ELSE refused' = TRUE /\ at' = "failed" /\ UNCHANGED <<wallet, k>>

Call ==
  /\ Calling
  /\ \E needs \in CallGas[op], offer \in Offers :
       \E call \in CallsFor(needs) : SendCall(call, offer)
  /\ UNCHANGED <<net, price, tip, gas, op, listed, feeVars, approved, quoteVars, start,
                 since, spent>>

CallSkip ==
  /\ Calling /\ op = "claim"
  /\ k' = k + 1
  /\ UNCHANGED <<net, price, tip, wallet, gas, op, at, listed, feeVars, approved, sent,
                 refused, quoteVars, ghosts>>

CallEnd ==
  /\ at = "call" /\ k > 0
  /\ at' = "done"
  /\ UNCHANGED <<net, price, tip, wallet, gas, op, k, listed, feeVars, approved, sent,
                 refused, quoteVars, ghosts>>

-----------------------------------------------------------------------------
(* The chain and the other operations.                                     *)

PriceMoves ==
  /\ price' \in Prices[net] /\ tip' \in Tips[net]
  /\ peak' = Most(peak, price') /\ peakTip' = Most(peakTip, tip')
  /\ UNCHANGED <<net, wallet, gas, op, at, k, listed, feeVars, approved, sent,
                 refused, quoteVars, start, basis, basisTip, guessed, over, spent>>

\* Another operation pays from the wallet.
Spend ==
  /\ at \notin {"idle", "done", "failed", "declined"}
  /\ spent < MaxSpent
  /\ wallet > 0
  /\ spent' = spent + 1
  /\ wallet' = wallet \div 2
  /\ UNCHANGED <<net, price, tip, gas, op, at, k, listed, feeVars, approved, sent,
                 refused, quoteVars, start, since, peakTip, guessed, over>>

\* Another set-up lists its receipts while a claim goes on.
ListGrows ==
  /\ at = "call"
  /\ listed = Listed
  /\ listed' = listed + 1
  /\ UNCHANGED <<net, price, tip, wallet, gas, op, at, k, feeVars, approved, sent,
                 refused, quoteVars, ghosts>>

Next ==
  \/ AskSetupEvm \/ AskSetupTron \/ StartEvm \/ StartTron \/ FundBegin \/ Fund
  \/ FundRefused \/ FundMined \/ Approve \/ ApproveSkip \/ ApproveEnd
  \/ AddReceiptWallets \/ Sweep \/ SweepSkip \/ Call \/ CallSkip \/ CallEnd
  \/ PriceMoves \/ Spend \/ ListGrows
  \/ \E o \in Calls : AskCall(o)

Spec == Init /\ [][Next]_vars

-----------------------------------------------------------------------------
(* Properties.                                                             *)

\* Since the estimate prices, the defaults read for them included, have stayed
\* within the slack it has: a half for the base fee and a fifth for the tip of a
\* set-up on EVM, a tenth on Tron, none for a call.
Within(percent)    == 100 * peak <= basis * percent
TipWithin(percent) == 100 * peakTip <= basisTip * percent

Calm ==
  /\ spent = 0
  /\ IF op # "setup" THEN Within(100) /\ TipWithin(100)
       ELSE IF evm THEN Within(150) /\ TipWithin(120) ELSE Within(110)
  /\ evm \/ (peak <= 546 /\ ~guessed)

\* The calls are as many as were counted, and none was dearer than reckoned.
AsReckoned ==
  /\ ~over
  /\ op = "claim" => Batches <= batches

\* A balance that was found sufficient is: no transfer, approve, listing, claim
\* or release is refused for want of coin and no sweep is left out, unless
\* prices are beyond the slack of what the estimate has read, be it that they
\* rose or that it took a default below them, another operation has spent, or
\* calls are more or dearer than reckoned with (EstimateBatchSetup,
\* BuildLegacyRawTx, batchFundGas, BuildSweepTx and their Tron counterparts).
NeverShort == refused => ~Calm \/ ~AsReckoned

\* What an operation has cost when it ends, counting as lost what its sweeps did
\* not fetch, is at most the total it showed; a set-up on Tron, which pays by a
\* second estimate, costs at most the one and a half times that the dialog asks
\* for (TotalRequired, MinBalance, MerchantTotal, TotalFee).
WithinEstimate ==
  at = "done" /\ Calm /\ AsReckoned =>
    start - wallet <= IF evm \/ op # "setup" THEN shown ELSE Percent(shown, 150)

\* evm_util.go:505: a call gets the gas the node estimates for it and 30 %.
CallGasEnough == guessed \/ sent.limit >= sent.needs

-----------------------------------------------------------------------------
(* The inductive invariant.                                                *)

\* The prices an estimate may have been made at.
PricesRead == Prices[net] \cup {DefaultPrice}

TypeOK ==
  /\ net \in Nets
  /\ price \in Prices[net] /\ tip \in Tips[net]
  /\ {basis, peak} \subseteq PricesRead
  /\ basisTip \in Tips[net] \cup {DefaultTip}
  /\ {wallet, start, shown, cap, tipCap, peakTip, spent, batches, k, listed}
       \subseteq Nat
  /\ gas \in [Targets -> Nat]
  /\ op \in Calls \cup {"none", "setup"}
  /\ at \in {"idle", "confirmed", "declined", "begin", "fund", "approve", "add",
             "sweep", "call", "done", "failed"}
  /\ quote \in [receipt : Nat, manager : Nat]
  /\ approved \in SUBSET (1 .. N)
  /\ sent \in [limit : Nat, needs : Nat]
  /\ {refused, guessed, over} \subseteq BOOLEAN

\* Which operation is where, and how far it may have come.
Where ==
  /\ price <= peak /\ basis <= peak /\ tip <= peakTip
  /\ at = "idle" => op = "none" /\ k = 0 /\ spent = 0 /\ ~over
  /\ at = "call" => op \in Calls
  /\ at \in {"confirmed", "declined", "begin", "fund", "approve", "add", "sweep"} =>
       op = "setup" /\ ~over
  /\ op = "none" => at = "idle"
  /\ at \in {"idle", "confirmed", "begin", "fund"} => ~refused /\ approved = {}
  /\ at \in {"confirmed", "begin"} => k = 0
  /\ at \in {"idle", "confirmed", "begin"} => cap = 0 /\ tipCap = 0
  /\ at = "fund" => k <= Manager
  /\ at = "approve" => k <= N
  /\ at = "sweep" => k < Manager

Paying == at \in {"begin", "fund", "approve", "add", "sweep", "done"}

\* What the quotes were made of.
SafeAt(p, t) == Percent(2 * p + t, 150)

DialogOnTron(p, q) ==
  LET base == ContractFee(AddGas, q)
  IN  N * ContractFee(ApproveGas, p) + (base + (base * (N - 1)) \div 2)
        + (N + 1) * 1100

QuotedEvm ==
  op = "setup" /\ evm /\ Paying =>
    /\ quote.receipt = 81 * SafeAt(basis, basisTip)
    /\ quote.manager = (71 + 100 * N) * SafeAt(basis, basisTip)
    /\ shown = N * quote.receipt + quote.manager
                 + Manager * (21 * SafeAt(basis, basisTip))
    /\ spent = 0 => start >= shown

QuotedTron ==
  op = "setup" /\ ~evm =>
    /\ start >= Percent(shown, 150)
    /\ ~guessed => \E p, q \in PricesRead :
                     basis <= p /\ basis <= q /\ shown = DialogOnTron(p, q)
    /\ Paying => quote.manager = TronShare(quote.receipt)
    /\ Paying /\ ~guessed =>
         \E p \in PricesRead :
           basis <= p /\ p <= peak /\ quote.receipt = ContractFee(ApproveGas, p)

\* What has left the wallet.
HeldMost == IF evm THEN 21 * (peak + peakTip) ELSE 1100

Outlay ==
  IF k <= N THEN k * (quote.receipt + Held)
            ELSE N * (quote.receipt + Held) + quote.manager + Held

Ledger ==
  op = "setup" =>
    /\ cap <= (3 * peak) \div 2 + peakTip /\ tipCap <= peakTip
    /\ spent = 0 =>
         /\ at \in {"confirmed", "begin"} => wallet = start
         /\ at = "fund" => wallet + Outlay = start
         /\ at \in {"approve", "add", "sweep", "done"} =>
              start - wallet <= N * quote.receipt + quote.manager + Manager * HeldMost

\* What is left on an address of what it got; ten times what a call may cost.
ApproveMost ==
  IF evm THEN 60 * (15 * basis + 12 * basisTip) ELSE 11 * (ApproveGas * basis) + 3500

AddMost ==
  IF evm THEN (50 + 100 * N) * (15 * basis + 12 * basisTip)
         ELSE 11 * (N * (AddGas * basis)) + 3500

Purse ==
  op = "setup" =>
    /\ at = "fund" => /\ \A i \in 1 .. N : i <= k => gas[i] = quote.receipt
                      /\ k = Manager => gas[Manager] = quote.manager
    /\ at = "approve" => \A i \in 1 .. N : i > k => gas[i] = quote.receipt
    /\ at \in {"approve", "add"} => gas[Manager] = quote.manager
    /\ Calm => /\ \A i \in approved :
                    at \in {"approve", "add"} \/ (at = "sweep" /\ i > k) =>
                      10 * quote.receipt <= 10 * gas[i] + ApproveMost
               /\ at = "sweep" =>
                    10 * quote.manager <= 10 * gas[Manager] + AddMost
               /\ ~refused

\* What the calls have cost.
CallCount == IF op = "claim" THEN Batches ELSE 1
CallBase  == IF evm THEN GuessedGas[op] * (basis + basisTip) ELSE GuessedTrx[op]
CallMost  == IF evm THEN CallBase ELSE CallBase + 350

Bill ==
  op \in Calls =>
    /\ shown = Percent(batches * CallBase, 150)
    /\ start >= shown
    /\ k <= CallCount
    /\ batches >= 1
    /\ Calm /\ ~over => start - wallet <= k * CallMost
    /\ NeverShort

\* What a quote was made of, what has left the wallet since, what every address
\* has left of it and what calls have cost agree at each step of an operation.
IInv ==
  TypeOK /\ Where /\ QuotedEvm /\ QuotedTron /\ Ledger /\ Purse /\ Bill
=============================================================================
