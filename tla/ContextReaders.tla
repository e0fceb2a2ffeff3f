--------------------------- MODULE ContextReaders ---------------------------
(***************************************************************************)
(* The operations that work with the WalletContext, beside the GUI thread  *)
(* that switches it.                                                       *)
(*                                                                         *)
(* A page lists the split wallets of the wallet and the chain it was built *)
(* under and is not rebuilt by a switch.  Its button starts a goroutine,   *)
(* which takes the chain from the split wallet and the merchant's account  *)
(* from the one WalletContext of the process, again and again: at the      *)
(* start of a series of transactions, for each transaction, and once more  *)
(* for each signature.                                                     *)
(***************************************************************************)
EXTENDS WalletContext

CONSTANTS
  N,       \* transactions of a series: receipts to fund or sweep, batches
  Nobody   \* what HexToAddress makes of a Tron address: the zero address

ASSUME ReadersAssumption ==
  /\ N \in Nat \ {0}
  /\ Nobody \notin Wallets \cup {NoWallet}

VARIABLES
  page,  \* the page in view: the owner of its split wallets, their chain type,
         \* and whether the user has asked for nothing else since it was built
  job,   \* the operation it has started, for whom
  phase, \* the series of calls the operation is in
  step,  \* what it does next in the series
  held,  \* the account it has read before and works with
  left,  \* what is left of the series
  use    \* the last use the operation has made of the merchant's account

progress   == <<phase, step, held, left>>
readerVars == <<page, job, progress, use>>
allVars == <<vars, readerVars>>

Ops    == {"setup", "sweep", "claim", "release"}
Sweeps == {"sweepReceipts", "sweepManager"}
Paid   == {"fund", "claim", "release"}
Phases == {"estimate"} \cup Paid \cup Sweeps

NoPage == [type |-> "none", owner |-> NoWallet, steady |-> FALSE]
NoJob  == [op |-> "none", type |-> "none", owner |-> NoWallet, steady |-> FALSE]
NoUse  == [phase |-> "none", account |-> NoWallet, signer |-> NoWallet]

Types == {"evm", "tron", "none"}

Owners == Wallets \cup {NoWallet}
Pages  == [type : Types, owner : Owners, steady : BOOLEAN]
Jobs   == [op : Ops \cup {"none"}, type : Types, owner : Owners,
           steady : BOOLEAN]
Uses   == [phase : Phases \cup {"none"}, account : Owners \cup {Nobody},
           signer : Owners]

ReadersTypeOK ==
  /\ page \in Pages
  /\ job \in Jobs
  /\ phase \in Phases \cup {"none"}
  /\ step \in {"none", "enter", "ask", "next", "sign"}
  /\ held \in Owners
  /\ left \in 0 .. N
  /\ use \in Uses

ReadersInit ==
  /\ Init
  /\ page = NoPage
  /\ job = NoJob
  /\ phase = "none"
  /\ step = "none"
  /\ held = NoWallet
  /\ left = 0
  /\ use = NoUse

-----------------------------------------------------------------------------
(* The GUI thread.                                                         *)

\* The page lists what the context owns (ListActiveSplitWallets).
OpenPage ==
  /\ at = "idle"
  /\ ctx.addr # NoWallet
  /\ TypeOf(ctx.addr) = ctx.type
  /\ page' = [type |-> ctx.type, owner |-> ctx.addr, steady |-> ok]
  /\ UNCHANGED <<vars, job, progress, use>>

Enter(series) ==
  /\ phase' = series
  /\ step' = "enter"
  /\ held' = NoWallet
  /\ left' = IF series \in {"estimate", "release", "sweepManager"} THEN 1 ELSE N

\* One operation at a time: operations read the context and never write it.
Press(op) ==
  /\ at = "idle"
  /\ page # NoPage
  /\ job.op = "none"
  /\ job' = [op |-> op, type |-> page.type, owner |-> page.owner,
             steady |-> page.steady]
  /\ Enter(IF op = "sweep" THEN "sweepReceipts" ELSE "estimate")
  /\ UNCHANGED <<vars, page, use>>

\* The dialog with the estimate.
Confirm ==
  /\ at = "idle"
  /\ step = "ask"
  /\ Enter(IF job.op = "setup" THEN "fund" ELSE job.op)
  /\ UNCHANGED <<vars, page, job, use>>

\* A switch leaves pages and operations as they are; `steady' is the record that
\* the user has asked for none but the wallets in S.
SwitchTo(S) ==
  /\ page' = IF page.owner \in S THEN page ELSE [page EXCEPT !.steady = FALSE]
  /\ job' = IF job.owner \in S THEN job ELSE [job EXCEPT !.steady = FALSE]
  /\ UNCHANGED <<progress, use>>

SwitchChain(c) ==
  SetDefaultChain(c) /\ SwitchTo({ w \in Wallets : TypeOf(w) = ChainType(c) })

SwitchWallet(w) == SetDefaultWallet(w) /\ SwitchTo({w})

ContextMoves ==
  \/ Login \/ Load \/ PickNone \/ Pick \/ Assign \/ LoadAssign
  \/ WalletChain \/ WalletAssign \/ StepError \/ SwallowedError
  \/ \E w \in Wallets : ImportWallet(w)

ContextStep == ContextMoves /\ UNCHANGED readerVars

-----------------------------------------------------------------------------
(* The goroutine.                                                          *)

Working == at # "off" /\ job.op # "none"

\* A conversion of an address string: HexToAddress makes zero of a Tron address.
Account(w) == IF job.type = "evm" /\ w \in TronWallets THEN Nobody ELSE w

\* Base58ToAddress refuses an EVM address; the contract calls convert it.
Accepted(w) ==
  job.type = "evm" \/ w \in TronWallets \/ phase \in {"claim", "release"}

\* Mutant: a series on EVM reads the context for each transaction as well.
ReadEachTime == ctx.addr

\* A series on EVM works with the address it has read first, one on Tron reads
\* it for every transaction.
Named == IF job.type = "evm" THEN held ELSE ctx.addr

Using(account, signer) ==
  use' = [phase |-> phase, account |-> account, signer |-> signer]

\* The balance the estimate is compared with.
Estimate ==
  /\ Working
  /\ phase = "estimate" /\ step = "enter"
  /\ Accepted(ctx.addr)
  /\ Using(Account(ctx.addr), NoWallet)
  /\ step' = "ask"
  /\ UNCHANGED <<vars, page, job, phase, held, left>>

\* batchFundGas: the account whose nonce is counted; batchSweepGas: the wallet
\* that receives; claimOnEvm, releaseOnEvm: the owner.
Begin ==
  /\ Working
  /\ phase # "estimate" /\ step = "enter"
  /\ step' = "next"
  /\ held' = IF job.type = "evm" THEN ctx.addr ELSE NoWallet
  /\ UNCHANGED <<vars, page, job, phase, left, use>>

\* A sweep is signed by the MPC server and this client, not by the wallet.
SweepOne ==
  /\ Working
  /\ phase \in Sweeps /\ step = "next" /\ left > 0
  /\ Accepted(Named)
  /\ Using(Account(Named), NoWallet)
  /\ left' = left - 1
  /\ UNCHANGED <<vars, page, job, phase, step, held>>

\* No balance, an address that is none, no signature; a batch without funds.
SkipOne ==
  /\ Working
  /\ phase \in Sweeps \cup {"claim"} /\ step = "next" /\ left > 0
  /\ left' = left - 1
  /\ UNCHANGED <<vars, page, job, phase, step, held, use>>

\* The transaction of the account is built, several node calls before it is
\* signed.
Build ==
  /\ Working
  /\ phase \in Paid /\ step = "next" /\ left > 0
  /\ Accepted(Named)
  /\ step' = "sign"
  /\ held' = Named
  /\ UNCHANGED <<vars, page, job, phase, left, use>>

Sign ==
  /\ Working
  /\ step = "sign"
  /\ Using(Account(held), ctx.addr)
  /\ step' = "next"
  /\ left' = left - 1
  /\ UNCHANGED <<vars, page, job, phase, held>>

Following == IF phase = "fund" THEN "sweepReceipts" ELSE "sweepManager"

\* The approvals and the listing between the two touch no wallet.
NextSeries ==
  /\ Working
  /\ step = "next" /\ left = 0
  /\ phase \in {"fund", "sweepReceipts"}
  /\ Enter(Following)
  /\ UNCHANGED <<vars, page, job, use>>

Stop ==
  /\ job' = NoJob
  /\ phase' = "none"
  /\ step' = "none"
  /\ held' = NoWallet
  /\ left' = 0
  /\ use' = NoUse

\* The operation is done, was declined, or an error ended it.
EndJob ==
  /\ Working
  /\ Stop
  /\ UNCHANGED <<vars, page>>

CrashAll ==
  /\ Crash
  /\ page' = NoPage
  /\ Stop

ReadersNext ==
  \/ OpenPage \/ Confirm \/ ContextStep
  \/ Estimate \/ Begin \/ SweepOne \/ SkipOne \/ Build \/ Sign \/ NextSeries
  \/ EndJob \/ CrashAll
  \/ \E op \in Ops : Press(op)
  \/ \E c \in Chains : SwitchChain(c)
  \/ \E w \in Wallets : SwitchWallet(w)

ReadersSpec == ReadersInit /\ [][ReadersNext]_allVars

-----------------------------------------------------------------------------
(* Properties.                                                             *)

\* An operation on a page that was built after an operation without error pays,
\* claims and sweeps for the owner of its split wallets from the first balance
\* to the last sweep, and with the owner's key, unless the user asks for another
\* wallet or a chain of the other type: imports, chains of the same type and
\* errors in between change nothing (InitContext beside batchFundGas,
\* batchSweepGas, claimOnEvm, releaseOnTron).
WorksForOwner ==
  job.steady /\ use # NoUse =>
    /\ use.account = job.owner
    /\ use.signer \in {job.owner, NoWallet}

\* Whatever is switched meanwhile, one series of sweeps on EVM goes to one
\* account (batchSweepGas).
SeriesToOneAccount ==
  [][ job.type = "evm" /\ phase \in Sweeps /\ use.phase = phase
      /\ use'.phase = use.phase => use'.account = use.account ]_allVars

-----------------------------------------------------------------------------
(* The inductive invariant.                                                *)

\* There is a newest wallet of each type that has any.
NewestExists ==
  \A type \in {"evm", "tron"} : OfType(type) # {} => NewestWallet(type) # {}

\* The context belongs to a saved wallet; after an operation without error that
\* wallet is the default, or there is none of the type.
ContextFlagged ==
  /\ ctx.addr # NoWallet => ctx.addr \in saved
  /\ at = "idle" /\ ok =>
       isDefault = {ctx.addr} \/ OfType(ctx.type) = {}

\* The context is w's, and whatever the GUI thread is doing leaves it so.
Settled(w) ==
  /\ running
  /\ w \in saved
  /\ isDefault = {w}
  /\ ctx.addr = w
  /\ ctx.type = TypeOf(w)
  /\ ChainType(chain) = TypeOf(w)
  /\ at \in {"idle", "load", "loadPick", "loadAssign", "walletAssign"}

SteadySettled ==
  /\ page.steady => Settled(page.owner) /\ page.type = TypeOf(page.owner)
  /\ job.steady => Settled(job.owner) /\ job.type = TypeOf(job.owner)

\* The dialog belongs to an estimate, and a sweep of its own has none.
EstimateAsks ==
  /\ step = "ask" => phase = "estimate"
  /\ phase = "estimate" => job.op \in Ops \ {"sweep"}

\* What an undisturbed operation has in hand is its owner's.
HeldIsOwners ==
  /\ job.steady /\ (step = "sign" \/ (job.type = "evm" /\ step = "next")) =>
       held = job.owner
  /\ step = "sign" => phase \in Paid /\ left > 0
  /\ job.op = "none" => use = NoUse

\* The account a series of sweeps on EVM has swept to is the one it holds; no
\* series has been swept before its turn.
SweptToHeld ==
  /\ job.type = "evm" /\ phase \in Sweeps /\ use.phase = phase =>
       step = "next" /\ use.account = Account(held)
  /\ use.phase = "sweepManager" => phase = "sweepManager"
  /\ use.phase = "sweepReceipts" => phase \in Sweeps

\* What an operation, the page and the context owe each other (GUIService).
ReadersIInv ==
  /\ IInv
  /\ ReadersTypeOK
  /\ NewestExists
  /\ ContextFlagged
  /\ SteadySettled
  /\ EstimateAsks
  /\ HeldIsOwners
  /\ SweptToHeld
  /\ WorksForOwner
=============================================================================
