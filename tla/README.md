# Verification of hashnut-mpc-client

TLA+ models of the merchant client in `src/`: a desktop program (Fyne GUI over
`GUIService` over `MerchantClient`) that holds Party 1's shares of two-party
ECDSA keys in a local SQLite file, `keys.db`, and drives a payment server, an
MPC server and two kinds of chain (EVM, Tron) with them.

## 1. Inventory

### Components, state and operations

| component | state | operations | source |
|---|---|---|---|
| batch set-up pipeline | goroutine variables `receiptAddresses`, `approvedReceipts`; transfers and approvals on the chain; receipt states 1-5 at the payment server | `BatchSetup`, `batchSetupEvm`, `batchSetupTron`, `batchKeygen`, `batchFundGas`, `batchFundTrx`, `batchApprove*`, `batchAddReceiptWallets*`, `batchSweepGas`, `batchSweepTrx` | `gui/service/gui_service.go` 950-1867 |
| batch set-up session | table `batch_setup_session` | `CreateSession`, `FindPendingSession`, `TransitionTo`, `MarkFailed` | `client/statemachine/batch_setup_sm.go` |
| receipt key generation | key generation contexts in memory, table `receipt_address` (`key_from_data`, `pub_key_data`) | `KeygenInit`, `KeygenStep1`, `KeygenStep2`, `GetAddress`, `SetKeyFrom`, `SetPubKey` | `client/merchant_keygen.go`, `client/tss_client.go` |
| two-party signing | sign contexts in memory, keyed by a time stamp | `SignInit`, `SignStep1`, `SignStep2`, and the same `WithChain` | `client/merchant_sign.go`, `session/session_mgr.go` |
| manager activation | table `split_wallet_manager`, the manager at the server and on the chain | `ActivateSplitWallet`, `ManagerKeygen` | `gui_service.go` 377-560, `merchant_keygen.go` 17-95 |
| wallet manager | `app_state.default_chain`, `merchant_wallet.is_default`, the `WalletContext` in memory | `SetDefaultChain`, `SetDefaultWallet`, `InitContext` | `client/wallet_mgr.go` |
| login, password | `password_auth`, the password in memory | `SetPassword`, `VerifyPassword`, `HasPassword` | `gui_service.go` 82-137 |
| server authentication | `serverAuthenticated` | `AuthenticateServer` | `client/server_auth.go` |
| remote configuration | chain map, RPC map, `loaded` | `LoadFromServer` | `client/remote_config.go` |
| split wallet synchronisation | table `split_wallet` | `FetchSplitWallets`, `SyncSplitWallets` | `client/split_mgr.go` |
| claim, release | none of their own; balances on the chain | `ClaimReceiptERC20Tokens`, `ReleaseERC20Tokens` | `gui_service.go` 2004-2393 |
| gas sweep | none of its own | `SweepGas` | `gui_service.go` 1869-1991 |
| nonce reset | none of its own; the account's pending transactions | `DiagnoseEvmNonce`, `FixEvmPendingNonce` | `gui_service.go` 1655-1694, `util/tx_util/evm_util.go` 640-726 |
| gas estimate, fees | none of its own; the merchant's balance, prices of the chain | `EstimateBatchSetup`, `EstimateClaimFee`, `EstimateReleaseFee`, `GetFeeData`, `EstimateGas`, `calculateFeeLimit` | `util/tx_util/gas_estimator.go`, `evm_util.go`, `tron_util.go`, `gui_service.go` 564-915 |

The HTTP layer, storage opening, generated data access, cryptography, ABI and
transaction encoding, page layout and the build scripts complete the program.

### How they interact

* A page handler starts a goroutine that calls `GUIService`; it disables its own
  button for as long as it runs. Leaving a tab and returning builds a new page
  with a new, enabled button. Nothing else keeps two goroutines apart: there is
  no lock around an operation, and no check of the session table that would
  reject a second run.
* `GUIService` calls the payment server (`doSignedRequest`, 60 s timeout) and
  nodes (Tron with timeouts of the gRPC client, EVM without any) synchronously. A request can fail before or after the server acted.
* Party 1's share is written to `keys.db`, Party 2's is at the MPC server, the
  receipt's state at the payment server, gas and allowance on the chain: four
  stores without a common transaction.
* Everything shared in memory (`WalletContext`, `RemoteConfigMgr`,
  `SessionMgr`) is reached by all goroutines; only the last two have locks.

### What is hard

Several interleaved runs of one pipeline, other operations of other tabs on the
same accounts, a process that dies between any two steps, answers lost after
the server acted, retries that generate something new, deadlines that race a
late confirmation, failures that are skipped one receipt at a time, and
bookkeeping (sessions) whose errors are dropped. `PROJECT.json` lists each under
`hazards` with its line.

### What makes each component correct

* *Set-up pipeline*: gas goes only to addresses that can be signed for; the
  contract lists only approved receipts; a sweep never takes gas that is still
  needed; success means every approved receipt is active; every run ends.
* *Session*: belongs to one run; is finished when the run is; lets an
  interrupted run resume.
* *Key generation*: an address the server knows can be signed for.
* *Signing*: a signature is of the message its caller asked for.
* *Manager activation*: the manager on the chain, at the server and in
  `keys.db` are one address, and it can be signed for.
* *Wallet manager*: address, key and chain type of the context agree, and agree
  with what the program would load after a restart.
* *Login*: unlocked means verified and started.
* *Remote configuration*: a login keeps a default chain that is listed, and does not
  fail for the lack of what it is said to replace.
* *Synchronisation*: a local state is one the server has reported.
* *Claim*: no batch with funds is given up but behind two without; each call gets
  the gas it needs.
* *Estimate*: a balance that was found sufficient is, and what was shown is not exceeded.
* *Nonce reset*: afterwards no nonce is missing, and no transaction that was
  mined is sent again.

## 2. Plan

| order | module | content | status |
|---|---|---|---|
| 1 | `ReceiptLifecycle` | the abstract promise of the pipeline for one address: a ladder of ten rungs | done |
| 2 | `BatchSetup` | pipeline, session, key custody, sweep, chain and servers | done |
| 3 | `BatchSetupInvariant`, `BatchSetupProofs` | inductive invariant, safety theorems, refinement theorem | done |
| 4 | `ManagerActivation`, `ManagerActivationProofs` | manager key generation and activation, crashes, several pages, another installation | done |
| 5 | `WalletContext`, `WalletContextProofs` | default chain and wallet in `keys.db` and in memory; crash, restart, failed switches | done |
| 6 | `MerchantAccount`, `MerchantAccountProofs` | the nonces of the merchant's EVM account: funding, claim, release, activation, nonce reset | done |
| | `AccountLedger` | the abstract promise of that account: a list of payments made once and settled in turn | done |
| 7 | `SignSession`, `SignSessionProofs` | time-stamp ids, shared contexts, three rounds, concurrent signers, restarts | done |
| 8 | `ContextReaders` (extends `WalletContext`) | the operations that read the context for each transaction, beside the page that switches it | done |
| 9 | `MerchantFunds`, `MerchantFundsProofs` | estimates, fees, gas limits and balances of all operations, on both kinds of chain | done |
| 10 | `Startup`, `StartupProofs` | password, authentication, remote configuration, the first choice of a chain | done |
| 11 | `SplitSync`, `SplitSyncProofs` | row by row synchronisation, by overlapping threads | done |
| 12 | `KeygenSession` | the ids of key generation, a counter plus the time, and their contexts | open |

`BatchSetup` implements `ReceiptLifecycle`, `MerchantAccount` implements `AccountLedger`, and
`ContextReaders` implements `WalletContext`. Open: `KeygenSession`; the liveness of a
synchronisation. Runs stay at two or three concurrent operations and
two to five addresses, nonces or rows.

## 3. Batch set-up: model and code

### `BatchSetup`

`Runs` are clicks on the set-up button, in order. `pc[r]` names the step a run is
in:

| label | code |
|---|---|
| `idle` | before `BatchSetup` (950-1006): `Begin` is the click and the first reading of the splitter's row |
| `refresh`, `store`, `reread` | a row below ACTIVE: `FetchSplitWallets` asks the server and stores what it was told, `Reread` is the second reading (961-973) |
| `open` | `FindPendingSession` and `CreateSession` (977-989); an error of any of these steps is `Reject` |
| `precheck` | configuration, node, nonce health, estimate (1015-1043) |
| `keygen`, `persist`, `pubkey`, `register` | `batchKeygen` and `singleKeygen`: verify-bind, `SetKeyFrom`, `GetAddress`/`SetPubKey`, `RegisterReceiptWalletGenerated` |
| `fund`, `fundManager`, `fundWait` | `batchFundGas` / `batchFundTrx` and the transfer to the manager |
| `approve`, `report`, `pollApproved` | `batchApprove`, `SubmitApprove` (EVM only), `PollReceiptState` 3 |
| `add`, `addWait`, `commit`, `pollActive` | `batchAddReceiptWallets`, its confirmation (EVM only), `SubmitAddReceiptWallets`, `PollReceiptState` 5 |
| `sweep`, `sweepManager` | `batchSweepGas` / `batchSweepTrx` over receipts and manager |
| `done`, `failed`, `rejected`, `dead` | success, error return with `MarkFailed`, error before a session exists, process gone |

`addrs`, `todo`, `approved`, `cur`, `attempt` are the goroutine's variables and
vanish with it. `keyFrom` and `pubKey` are rows of `receipt_address`; `row` is the
state column of `batch_setup_session`, and `sess[r]` the row run `r` works on;
`localActive` and `remoteActive` are the splitter's state in `keys.db` and at the server, and
`told[r]` an answer that run `r` has yet to store: a refresh that was answered before the
activation may be stored after a later one, so a run can find the splitter active and another
write it back. `mpc` and `srv` are what the MPC and payment servers hold; `fund`, `mfund`, `allow`,
`adding`, `listed` are transactions and contract state.

`Fail` may leave the row as it is: line 1001 drops the error of `MarkFailed`, which is one more
update of `keys.db`. A failed run therefore need not have a failed row; `FailureIsOwn` claims the
other direction only.

Data is abstracted to what the properties tell apart: a transfer is none, sent,
mined or swept; an approval is none, sent or mined; amounts, fees and nonces are
absent. The three protocol rounds of key generation before verify-bind are one
action, since they leave nothing behind when they fail. `Crash` ends every working
run at once: one process holds them all. Retries with a lost answer have actions
of their own (`VerifyBindLost`, `RegisterLost`); broadcasts whose answer is lost
are the broadcast followed by `StepError`, and reports have a disjunct that acts
at the server and fails at the client.

The chain and the servers are modelled from how the client uses them and are
marked external in the map: `addReceiptWallets` reverts or takes effect for all
its receipts; the server advances a receipt when it sees the event.

### `ReceiptLifecycle`

The promise: an address is bound, its share is kept, its public key is kept, it is
registered, funded, approved on the chain, confirmed, listed, active, in this
order and never backwards. `Rung` in `BatchSetup` is the refinement mapping;
`ImplementsLifecycle` says the pipeline implements it, whatever fails or runs
concurrently.

### `ManagerActivation`

One split wallet and the clicks on its activate button. `pc[r]` follows
`ActivateSplitWallet` (377-463):

| label | code |
|---|---|
| `init` | `InitSplitWalletActivation`, 391: `seen` is the manager the server knows at that moment |
| `local` | the row of `split_wallet_manager`, 404-409; an error in reading it counts as no row |
| `keygen`, `share`, `pubkey` | `ManagerKeygen`: verify-bind, `SetManagerKeyFrom`, `SetManagerPubKey` |
| `register` | `SubmitSplitWalletManager`; the server keeps its first manager and answers with it |
| `broadcast`, `wait` | `activateOnEvm`, and `activateOnTron`, which does not wait |
| `commit`, `fetch` | the report of the transaction, and `FetchSplitWallets`, whose error is ignored |

`rowMgr` and `rowPub` are one row: whose share it holds, and whose public key.
The page refuses a click while its own run works (`tab_splitter.go`); `RebuildPage`
adds the working runs to `gone`, and a new page does not know of them. `evm` is
chosen in `Init` and stays.

External, from how the client uses them: the server takes the first manager it is
told and compares later ones with it; the contract can be activated once and later
transactions revert; another installation with a different `keys.db` may register
its own manager (`ForeignRegisters`), because the client compares for that case.

### `WalletContext`

`saved`, `isDefault`, `chain` are `keys.db`; `ctx` is the `WalletContext` record in
memory, `target` the wallet row in hand, `running` whether the client has started.
`at` is the step of the one operation at work: the wallet page runs its operations in
its handlers, one after the other. An operation is the sequence of its commits: a
switch of chain writes chain and type, looks up a wallet, makes it the default,
assigns address and key; a switch of wallet writes the default, then the chain, then
the context. `Crash` can come between any two, `StepError` is an error the caller
reports, and `SwallowedError` the one `InitContext` logs and drops. `ok` says whether
the last operation met no error and `picked` which wallet the user asked for last; both
are history and guard nothing. A login is one of these operations: that its `InitContext` could overlap the
wallet page, when a second submission of the login page is still at work after the first has built the main
page, is in `Startup`, not here; nothing is claimed of a context that two of them write at once.

### `ContextReaders`

Extends `WalletContext` with a page, an operation it has started, and the use the operation
makes of the merchant's account. `Press` is a button, `Confirm` the dialog with the estimate;
the goroutine then works through series of transactions:

| phase | code |
|---|---|
| `estimate` | the dialog's balance, `EstimateClaimFee` and its like |
| `fund` | `batchFundGas`, `batchFundTrx` |
| `claim`, `release` | `claimOnEvm`, `claimOnTron`, `releaseOnEvm`, `releaseOnTron` |
| `sweepReceipts`, `sweepManager` | `batchSweepGas`, `batchSweepTrx`, of a set-up or of `SweepGas` |

In a series `Begin` reads the address on EVM and `Named` reads it for each transaction on
Tron; `Build` and `Sign` are apart because node calls lie between the address and the key.
`steady` records, as history, that the user has asked for no other wallet since the page was
built. One operation is at work at a time: operations only read the context, so a second
one changes nothing for the first. Address and key are read as one record, as the code
assigns them without a request between; a data race on them is not modelled.

### `MerchantFunds`

One operation from its dialog to its end, in integers. Gas is counted in thousands; on EVM
`price` is the base fee, on Tron the energy price in SUN and amounts are thousandths of a
TRX. `AskSetupEvm`, `AskSetupTron` and `AskCall` are the dialogs, `StartEvm` and `StartTron` the second
estimates of `batchSetupEvm` and `batchSetupTron`, `Fund` to `Sweep` the payments of a
set-up and `Call` those of claims and releases. Base fee, tip and energy price are read where the
code reads them: the cap and the tip of the transfers once (`FundBegin`), those of each call when it
is built (`Offers`). Each reading of the tip may be the default of 1.5 Gwei (`DefaultTip`;
`gas_estimator.go:68`, `evm_util.go:466`) and each reading of the energy price that of 420 SUN
(`DefaultPrice`, `tron_util.go:338`): the code takes them without a word (`TipReadings`, `PriceReadings`).
The dialog on Tron reads the energy price for the approve and again for `addReceiptWallets`, so its
total may be made of two prices.
External: what a chain takes for a call (`Paid`, `Fee`), prices, and other operations that
spend (`Spend`) or extend the contract's list (`ListGrows`).

A chain without a base fee has `price` 0 and its gas price in `tip`; what the code does there is an
instance of the same definitions (`SafePrice`, `Offers`), which the theorems cover and the values of
the run do not. One thing is left out: there `batchFundGas` sends transfers with the 1.5 Gwei tip
above a cap of the gas price, when that is lower, which a node refuses at once.

The slack of the estimates is in the properties (`Calm`): of all that was read or charged since the
estimate, base fees are above the estimate's by a half at most and tips by a fifth for a set-up on EVM, energy
prices by a tenth on Tron, and nothing is for a call. The reading of the estimate counts as it
was made: one that took a default below the real price, 1.5 Gwei where the node then suggests
30 or 420 SUN where the chain asks 540, is not calm, and such a set-up can indeed fall short half
way without a warning. The lowest reading (`basis`, `basisTip`) and the highest (`peak`, `peakTip`) are
history. `NeverShort`
says that within it nothing is refused, as long as a claim meets no more batches than
were counted and no call is dearer than reckoned (`AsReckoned`, with the history `over`).
Each limit comes from a counterexample:

* on EVM `EstimateBatchSetup` reckons with 1.5 times the sum of twice the base fee and the tip; a sweep
  holds 1.5 times the gas price of its moment, which exhausts that when the base fee has risen by a
  half and the tip by a fifth;
* on Tron the second estimate pays up to 1.73 `N` times the receipt's part, and the
  dialog asks for one and a half times another total; when prices rise by a fifth
  in between, a sweep is left out;
* a release or a claim that uses more than 10/13 of the gas reckoned with may not be
  sent although the dialog found the balance sufficient: above 115 thousand for a release, while
  `gui_service.go:749` gives 80 to 150;
* the fee limit of a Tron call uses the default price of 420, so it covers energy
  prices up to 546 only;
* with the fallback of 50 TRX for `addReceiptWallets` the dialog's minimum for about a
  hundred receipts, 1441 TRX, is below what `batchSetupTron` then sends, 1495 TRX: runs
  that used a fallback are excluded (`guessed`).

### `Startup`

Every submission of the login page is a goroutine (`Attempts`); `pc[a]` is its step:

| label | code |
|---|---|
| `save`, `check`, `remember` | `SetPassword`, `VerifyPassword`: the row of `password_auth`, its hash, the password in `WalletMgr` |
| `challenge` | `AuthenticateServer` |
| `chains`, `rpc` | the two fetches of `LoadFromServer`, an error of which is logged |
| `init` | `InitContext`, which decrypts the default wallet |
| `unlock`, `onLogin` | `unlocked`, and the main page, which selects a chain: the default one, or the first of the list when that is not listed or when `GetCurrentChain` fails, an error the page drops (`main_page.go:26`; `why[a]` is then `"unread"`) |

A secret of `keys.db` is the password it is encrypted with. Two conditions on the
properties are history: `misread`, the set-up view was shown although a password is stored
(`HasPassword` returns false on an error), and `overlapped`, two set-ups with two
passwords overlapped (the set-up view does not disable its button). `SecretsOpen` and `RightPasswordOpens`
are claimed where neither happened (`Clean`): what two overlapping first passwords encrypt need not open.

### `SplitSync`

Threads that run `FetchSplitWallets`: `sign` and `asked` are the request, signed with the
wallet of the moment, `answered` the answer on its way, `rows` the loop of
`SyncSplitWallets`, `fill` the second commit of a new row. The GUI thread switches no
wallet while it synchronises; goroutines do not wait for it. `merchant[s]` is the merchant
a row is stored with, which no update writes. `Ladder` has the states that matter: 0 of a
row half inserted, pending, with a manager, active.

### `MerchantAccount`

The account the merchant's key pays from. Four kinds of operation send from it:

| set | code | nonces |
|---|---|---|
| `Funds` | `batchFundGas` | one query, then counted on |
| `Claims` | `claimOnEvm` | a query for each batch with funds |
| `Singles` | `releaseOnEvm`, `activateOnEvm` | one |
| `Resets` | `ForceResetNonce` | from latest to pending, as found at its start |

All but the reset begin with `CheckNonceHealth`; `before[o]` remembers which
operations were over when it passed, as history. The client keeps nothing else
that would hold two operations apart. `slot[n]` is the transaction that occupies
nonce `n` at the node, those below `latest` are mined, `good` are those that did not
revert. Sending has three outcomes: accepted, accepted with the answer lost, refused.
A claim walks over at most `Size` batches; `empty` is `emptyConsecutive`, `logged` the
batches it has counted.

External: the node answers from its current state; it refuses a mined nonce and a
replacement that pays no more; it keeps what it has accepted (no eviction), and
a request that failed at the client does not arrive later. A node that evicts
transactions would open gaps whatever the client does. Gas prices are small
numbers: they are there to decide who replaces whom.

### `AccountLedger`

The promise, without nonces: the account is one list of payments in the order in which they
were made. A payment, named by its operation and its number, is added at the end, once;
payments are settled from the front, one after the other, and stay what they are; one that is
not settled may give way to another that pays a higher fee; resets (`Fillers`) do only that. `Ledger`
in `MerchantAccount` is the refinement mapping: the transactions below the pending nonce,
and the latest nonce. `ImplementsLedger` says that the operations keep the promise, whatever is
refused, replaced, lost or dies.

### `SignSession`

Calls of `mpcSign` and `mpcSignWithChain`, by goroutines of any tab. A call takes the
millisecond as its id; `sessions` is `SessionMgr.SignSessions`, never emptied, and a
context is named after the call that made it. The steps of `merchant_sign.go` find their
context by id every time:

| label | code |
|---|---|
| `prepare` | `PrepareSignInit` stores a new context, over any that is there |
| `init` | the request with `txInfo`, which the guard checks |
| `step1`, `step1Sent`, `storeStep1` | `PrepareSignStep1`; `HandleSignStep1Response` reads the context and stores it again |
| `step2`, `step2Sent`, `read`, `store` | the same for step 2, then Step3 and `GetSignByRS` |
| `fetch` | `signCtx.Step3Data.Sign`: `Fetch`, or `FetchNil`, a nil pointer that ends the process |

`TakeId` chooses any id: two calls can have one millisecond, a clock can be set back
and the next process can see an old time. `met` remembers, as history, which calls
worked under one id at the same time. External: the MPC server keeps one message for an
id, and Step3 of the protocol library rejects an answer that is for another message than
its context's.

## 4. Runs

| run | instance | question | states |
|---|---|---|---|
| `batch_evm` | 2 runs, 3 addresses, 1 receipt each, EVM | all safety properties, `IInv`, and `ImplementsLifecycle` | 319 k |
| `batch_tron` | 1 run, 4 addresses, 2 receipts, Tron, fair | a batch of which part is approved, without report and confirmation waits; `Terminates` | 288 k |
| `manager_share` | 3 clicks, 3 managers, EVM and Tron | agreement of contract, server and `keys.db`; `IInv` | 1.08 M |
| `context_jobs` | 2 EVM wallets and a Tron one, 3 chains, series of 2 | context against `keys.db`, the user's pick, for whom an operation works; `ReadersIInv` | 2.77 M |
| `account_ops` | a funding of 2, a claim of up to 2 batches, a reset, 5 nonces | gaps, confirmations, retries, resets, the walk of a claim; `ImplementsLedger` | 1.77 M |
| `merchant_funds` | 2 receipts, claims of 20 in batches of 10, 2 prices and 2 tips | whether a sufficient balance is, and what an operation costs | 12.6 M |
| `sign_ids` | 3 calls, 2 ids | whose signature a call returns; panics; the guard | 128 k |
| `startup_login` | 2 attempts, 2 passwords, 2 chains, fair | secrets, unlocking, the default chain; `AttemptEnds` | 901 k |
| `sync_rows` | 2 split wallets, 2 merchants, GUI and a goroutine | what rows and lists may say | 2.24 M |
| `startup_cache` | a new `keys.db` | violated: `CacheServes` | |
| `sync_merchant` | as `sync_rows` | violated: `ListedIsOwn` | |
| `claim_gas` | a claim of a batch of 50 | violated: `CallGasEnough` | |

*Bounds.* `BatchSetup`: two runs are the smallest number that disturb each other;
they meet in the session table, in the manager's gas and on the contract, and
each of these relates two runs at a time. Three addresses for two runs of one
receipt let one run retry with a new address while the other keeps its own; four
addresses for one run of two receipts let both key generations retry. `MaxAttempts`
= 2 is the constant of `batchKeygen`. `ManagerActivation`: three clicks let a run
that was left behind overlap with two that follow each other, and three managers let
each of them generate its own. `ContextReaders`: two EVM wallets are the picked one and
the newest, the Tron wallet is the one a switch may find or lack, and a series of 2 has a
transaction before and one after a switch. `MerchantFunds`: base fees rise by a half and fall, tips
by a fifth, the default being the higher one: all that a set-up on EVM allows for, and more than a
call does; energy prices rise by a tenth, with the default of 420 SUN between them, so that an
estimate on the default may be dearer or cheaper than the chain; each balance is the least a dialog accepts at one of the prices, or one unit
less, written out for `N` = 2 in `MCMerchantFunds`; calls use what is reckoned, its 10/13 or more; the total
of a set-up is linear in `N` but for the rounding, which `N` = 2 meets. `MaxSpent` = 1:
one spending lifts every promise. `MerchantAccount`: `MaxNonce` = 4 leaves a
nonce for each of the four transfers and claims and one to spare; a reset adds none.
`MaxFee` = 2 gives a cheaper and a dearer price, and a reset, at twice the price, one
that equals and one that exceeds them. `SignSession`: three calls
let two meet and a third reuse the id afterwards, and two ids keep a call apart. `Startup`:
two attempts with two passwords are the overlap; `Answers` lists the default chain or not.
`SplitSync`: two rows let one be written and the other not. Nothing
else is bounded: every variable is finite for finite constants. Deadlock checking is off
where operations end and the environment need not act; `ContextReaders`, `MerchantFunds`,
`Startup`, `SplitSync` and `ManagerActivation` never stop and are checked for it.

*Symmetry.* `batch_evm` permutes addresses, `manager_share` runs and managers, `context_jobs` wallets of one type,
`sign_ids` calls and ids, and `sync_rows` split wallets, which no definition tells apart. Their
action properties relate two adjacent states under one renaming; none of these runs has a
liveness property. The other runs use none.

*Fairness.* `FairSpec` of `BatchSetup` gives weak fairness to a run that is working, in the Tron
run: the Go scheduler runs a goroutine that can run, requests to the servers have a 60 s timeout and
those to a Tron node the one of its gRPC client (requests to an EVM node are made with
`context.Background()` and have none; liveness is not claimed for EVM), and
`waitTxConfirmations` and `PollReceiptState` have deadlines, so each wait ends in its
answer or in `StepError`. The user, the chain, the servers and the crash are not
fair. `Terminates` therefore holds even when nothing is ever mined. The model has
EVM and Tron only: for any other chain `BatchSetup` returns at once (line 998)
and leaves the new session row in `INIT`. `FairSpec` of `Startup` is the same for an attempt of the
login page, whose requests have the HTTP client's timeout (`merchant_client.go:51`); a login page
that is waited for holds no more than its own label. No other module has a liveness property.

## 5. Where the code disagrees with its comments

Each of the violated runs is one of these:

* `CacheServes`: `merchant_client.go:69` goes on with the local cache when the
  configuration cannot be fetched. No code fills that table any more, so on a `keys.db` of
  this version the login fails instead.
* `ListedIsOwn`: `gui_service.go:326` lists the split wallets of the current wallet. A
  synchronisation reads the wallet again after its answer and stores new rows under it; when
  the wallet was switched meanwhile they are listed as the other wallet's own, for good.
* `CallGasEnough`: `evm_util.go:505` adds 30 % to the node's estimate and then cuts the result to
  500 thousand, below the estimate itself for a claim of the batch size the page suggests.

Further conditions of the code that shape the models, seen while modelling, and the condition
under which the properties hold in spite of them:

* A run never sends `TriggerStart` or the triggers after it, so `TriggerRegisterDone` at the
  end of `BatchSetup` is rejected in `INIT` and its error dropped: a successful session is found
  as unfinished for ever (`batch_setup_sm.go:85`). No run resumes it, hence `FailureIsOwn`.
* `SweepGas` visits the contract's list: gas on a receipt whose approve was skipped or whose
  run failed is not visited (`gui_service.go:1907`). `GasRecoverable` says it can be
  signed for, not that it is swept.
* The guard of `tab_splitter.go:73` against a second activation is a variable of the page: after
  leaving the tab and returning a second one runs beside the first and can replace its
  share. `RegisteredHasShare` therefore asks for `gone = {}`.
* After an error between share and public key the next activation takes the manager as it is
  (`merchant_keygen.go:77`), and `GetPubKey` does not find it.
* A switch to a chain type without a wallet leaves the address and key of the other type in the
  context (`wallet_mgr.go:239`); on EVM a Tron address then becomes the zero
  address (`Nobody`), which a sweep of that moment would pay. `WorksForOwner` asks for `steady`.
* The last line of a claim counts, as carried out and as claimed, batches whose transaction failed or
  was not confirmed (`gui_service.go:2151`).
* On Tron the set-up dialog shows as needed, and as the part of the manager, a total from an estimate of
  `addReceiptWallets` (`gui_service.go:806`, `:808`, `tab_setup.go:103`), but `batchSetupTron`
  transfers 73 % of the receipts' part to the manager (`:1157`): for two receipts, at an unchanged price of
  420, 110 TRX leave the wallet where 96 were shown. `WithinEstimate` therefore compares a set-up on
  Tron with the one and a half times that the dialog asks for.

## 6. Proofs

TLAPS checks every proof for all values of the constants. Each set of theorems names
its assumptions about them.

**Batch set-up.** For every number of runs, addresses and receipts, on EVM and
on Tron, from `BatchAssumption`: `NRuns` and `Count` are positive
naturals, `Evm` is Boolean, `NoAddr` is not an address. No assumption makes `Addr`
finite.

`BatchSetupInvariant` has the inductive invariant `IInv`. None of the safety properties
is inductive alone: that a registered address can be signed for needs to know what a
run that is about to register has already written (`KeyCustody`); that a sweep takes
only from listed receipts needs what a run has waited for (`RunProgress`) and the
order of server and chain (`ServerAndChain`); that an approve is sent once, hence
that no rung is taken back, needs that no two runs own one address (`Ownership`) and
that what a run has yet to do is undone (`Untouched`); that failures stay with their
run needs that rows stay `INIT` unless their own run failed (`SessionRows`); that no run starts before
the activation needs that what is stored or about to be stored in `keys.db` was true at the server
(`SplitterActive`).

* `BatchSetupProofs`: `Init => IInv`; one lemma for each group of actions that
  `IInv` is preserved; `Inductive`, `Invariance` (`Spec => []IInv`); from it
  `TypeCorrect`, `RegisteredAreSignable`, `GasIsRecoverable`, `ListedAreBacked`,
  `OnlyListedAreSwept`, `DoneIsActive`, `OnlyActiveStarts`, `FailuresAreOwn`.
* `Refinement`, in the same module: `Spec => ImplementsLifecycle`. Under `IInv`
  the facts about an address are ordered, so `Rung` moves by at most one for the
  address an action touches and not at all for the others; an action that
  touches a group (a report, the mined `addReceiptWallets`) moves each of its members
  by at most one.

**Manager activation** (`ManagerAssumption`: the managers of this client, the foreign
one and none are distinct). `IInv` says what a run knows of the server stays
true (`Agreement`: `seen`, once set, is the server's manager, and what was
broadcast the server has agreed to), and, as long as no page was left while its
run worked (`gone = {}`), that one run works at a time and the row holds what it
is about to register (`Custody`). `ManagersAlwaysAgree` and `ReportsAreMined` follow
from the first part and hold whatever overlaps; `RegisteredShareIsKept` needs the
second: without the condition a run of a page that was left replaces the share of one that follows it.

**Wallet context** (`WalletAssumption`, `ReadersAssumption`). The inductive invariant adds to the two
properties what each commit leaves for the next: at most one default, which
steps belong to a login, that only the last two commits of a switch of wallet have
a type behind the chain, and that the wallet in hand is the default.
`ContextIsDurable` and `PickedWalletStays` follow. `ReadersKeepContext` proves that
`ContextReaders` implements `WalletContext`, so both hold beside operations as well. `ReadersIInv`
adds that a steady page or operation finds the context settled on its owner whatever the
page does next (`SteadySettled`), that what an operation holds is its owner's
(`HeldIsOwners`), and what an EVM series has swept to (`SweptToHeld`):
`OperationWorksForOwner` and the action property `OneSeriesOneAccount` follow.

**Merchant account** (`AccountAssumption`). The nonces in use are always those below
one number (`Prefix`), which is what the node answers (`PendingIsEnd`). `Counting`
says that an operation about to send has all lower nonces in use, and a reset is
still below the end it found, so that an accepted transaction fills the next nonce or
replaces one (`PutKeepsAccount`). `Mended` is what a reset has done so far;
`Remembered`, that what was over stays over. `RetriesAreClean` says that no retry is paid beside a pending
first payment; one that is mined between the timeout and the retry is not looked for, and the retry then
pays a second time. From these come `AccountHasNoGap`,
`DoneOperationsAreMined`, `RetriesAreClean` and `ResetMends`. `AccountIsLedger`
(`Spec => ImplementsLedger`) needs one invariant more: `SentOnce` says that an operation has
counted what it has at the node and is about to send something else, so that what it sends
is new (`SendIsNew`). An accepted transaction is then an entry at the end of the list when its nonce is the
pending one, which a reset never uses, and outbids one that is not settled otherwise
(`SendRefines`); a mined one is the next to settle (`MineRefines`). `WalksStopAtGaps` has an
invariant of its own, `WalkIInv`: what a claim has counted it has visited, and the batches counted as
empty are the last.

**Signing** (`SignAssumption`). `OwnContext` says that a call past its preparation finds its
own context as long as no other call met it, and `Meeting` that calls which work under
one id have met: so a step of another call writes another slot of the map.
`SignaturesAreOwn` and `PanicsAreShared` follow, `SignaturesAreChecked` from
`ServerChecked`, whatever calls share. Nothing is claimed, or true, of two calls that
meet: one of them may return the other's signature, or end the process.

**Login** (`StartupAssumption`). `IInv` says, as long as the set-up view was not shown in
error and set-ups did not overlap with two passwords, which password each attempt has in
hand, and that it is the one of `keys.db` once it is stored (`OnePassword`, `Stored`, `Unlocked`) and what
each view may expect (`ViewMatches`). `EverySecretOpens`, `OnlyVerifiedUnlocks`,
`RightPasswordIsLetIn` and the action property `ListedChainIsKept` follow.

**Synchronisation** (`SplitAssumption`). No row and no answer is ahead of the server
(`Behind`), a record is of who has asked, a new row has its manager before its state. These hold
whatever overlaps; `StoredIsAsked` needs that no switch came in between, `Alone` that no two
threads work at once. `OffersAreActive`, `ManagersStay` and `StatesClimb` follow.

**Merchant funds** (`FundsAssumption`, the types of the parameters; `TipAssumption`, gas is not free, and
a tip is nothing or at least 27 of the units prices are counted in, so that what an estimate rounds down is
less than its slack; `UsageAssumption`, what the estimates take for granted of the contract). The last says that an approve uses at most the 60
thousand gas of `gas_estimator.go:13`, that listing an address takes 0.56 to 0.73 of an approve (what
`gui_service.go:1156` has measured, and what it pays for; below 0.56 the dialog's total need not cover
what the second estimate sends), and that an approve on Tron costs 3 TRX or more, without which the manager of a set-up
of one receipt may have no 0.3 TRX left to sweep. Nothing bounds the number of receipts,
the length of the list, prices, tips or balances.

Neither property is inductive: what is refused at a sweep was paid in three steps before, each
at a price of its own. `IInv` keeps the trace of the money:

* `QuotedEvm`, `QuotedTron`: the prices a quote was made at, defaults included, lie between `basis` and `peak`, and
  the balance was compared with a total that was made of it (on Tron, of another one);
* `Ledger`: what has left the wallet is what the transfers made so far hold and pay, and
  after the refund at most what they could have cost;
* `Purse`: an address whose turn is still to come has its whole quote, and one that has paid
  has at least what is left of it when the fee is the dearest that calm prices allow;
* `Bill`: each call so far has cost at most its share of the dialog's total;
* `Where`: which clauses apply, and that nothing is refused or approved too early.

Most of the proof is arithmetic over products of two variables, which the solver does not
multiply out: `SafeCovers`, `DialogCovers` and `LimitCovers` say that an estimate is at least each
later price, `FeeBounds` removes the divisions, and `SetupCovered`, `ApproveCovered`, `AddCovered`,
`SweepCovered` and `CallCovered` conclude that the payment of each kind is not refused. `FundsInvariance`,
`BalancesSuffice` and `CostsStayWithin` follow.

Only model-checked: `Terminates` and `AttemptEnds`, liveness under fairness; and the three violated
properties.

## 7. Not modelled

The amounts of the token; the content of messages and
transactions; the rounds of key generation, and the algebra of signing; cryptography; the GUI's
layout; the contract upgrade, one broadcast after two checks. Key generation ids: a session that
lost its context fails like an attempt of `BatchSetup`. `BatchSetup` leaves account nonces to `MerchantAccount` and
amounts to `MerchantFunds`, which leave receipts and servers to it: a funding step that fails for its nonce or its
balance is `StepError` there. The claim on Tron, which waits six seconds instead of for a
confirmation, has its fees in `MerchantFunds` and its account in `ContextReaders`, no nonces.
Components with status `not_modelled` in `PROJECT.json` state why.
