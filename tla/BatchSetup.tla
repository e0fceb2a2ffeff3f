---------------------------- MODULE BatchSetup ----------------------------
(***************************************************************************)
(* GUIService.BatchSetup: the pipeline that generates receipt addresses by *)
(* two-party keygen, funds them, has each approve the split contract, adds *)
(* them to the contract and sweeps what is left of the gas.                *)
(*                                                                         *)
(* A run is one click on the set-up button, hence one goroutine.  Nothing  *)
(* in the program keeps two of them apart: leaving the tab and coming back *)
(* rebuilds the button.  The client's process may die at any moment; what  *)
(* is in keys.db, at the servers and on the chain survives, the            *)
(* goroutine's variables do not.  Requests fail before or after the server *)
(* acted on them.                                                          *)
(*                                                                         *)
(* All runs ask for the same splitter, token and count, the case in which  *)
(* FindPendingSession may match another run's row.                         *)
(***************************************************************************)
EXTENDS Naturals, FiniteSets

CONSTANTS
  NRuns,     \* clicks on the set-up button
  Addr,      \* receipt addresses the MPC server can generate
  Count,     \* addresses asked for in one run
  Evm,       \* TRUE: batchSetupEvm; FALSE: batchSetupTron
  NoAddr     \* no address

ASSUME BatchAssumption ==
  /\ NRuns \in Nat \ {0}
  /\ Count \in Nat \ {0}
  /\ Evm \in BOOLEAN
  /\ NoAddr \notin Addr

Runs == 1 .. NRuns               \* in the order of the clicks
Rows == 1 .. NRuns               \* a run creates at most one

MaxAttempts == 2                 \* keygen attempts for one address

VARIABLES
  pc,            \* where each run is
  sess,          \* the batch_setup_session row a run works on, or 0
  row,           \* state column of each row, in the order of their creation
  attempt,       \* failed keygen attempts for the current address
  cur,           \* the address the current keygen has produced
  addrs,         \* receiptAddresses: what batchKeygen has returned so far
  todo,          \* receipts batchApprove has still to visit
  approved,      \* approvedReceipts
  keyFrom,       \* receipt_address rows with key_from_data
  pubKey,        \* receipt_address rows with pub_key_data
  localActive,   \* split_wallet row: state >= 7 with a manager
  remoteActive,  \* the same at the payment server
  told,          \* what FetchSplitWallets was answered and has yet to write
  mpc,           \* addresses whose Party 2 share the MPC server holds
  srv,           \* receipt state at the payment server
  fund,          \* the native-coin transfer to each receipt address
  mfund,         \* each run's transfer to the split wallet manager
  allow,         \* the approve transaction of each receipt address
  adding,        \* receipts in each run's unmined addReceiptWallets call
  listed         \* receipt wallets of the split contract

runVars    == <<pc, attempt, cur, addrs, todo, approved>>
sessVars   == <<sess, row>>
keyVars    == <<keyFrom, pubKey>>
splitVars  == <<localActive, remoteActive, told>>
gasVars    == <<fund, mfund>>
chainVars  == <<allow, adding, listed>>
serverVars == <<mpc, srv>>
vars == <<pc, attempt, cur, addrs, todo, approved, sess, row, keyFrom, pubKey,
          localActive, remoteActive, told, fund, mfund, allow, adding, listed,
          mpc, srv>>

-----------------------------------------------------------------------------
(* The session state machine.                                              *)

\* NewBatchSetupSM: <<state, trigger, next state>>
Table == { <<"INIT",         "TriggerStart",        "KEYGEN">>,
           <<"KEYGEN",       "TriggerKeygenDone",   "FUND_GAS">>,
           <<"FUND_GAS",     "TriggerFundDone",     "APPROVE">>,
           <<"APPROVE",      "TriggerApproveDone",  "WAIT_CONFIRM">>,
           <<"WAIT_CONFIRM", "TriggerConfirmDone",  "ACTIVATE">>,
           <<"ACTIVATE",     "TriggerActivateDone", "SWEEP">>,
           <<"SWEEP",        "TriggerSweepDone",    "REGISTER">>,
           <<"REGISTER",     "TriggerRegisterDone", "COMPLETE">> }
         \cup { <<state, "TriggerFail", "FAILED">> :
                state \in {"INIT", "KEYGEN", "FUND_GAS", "APPROVE",
                          "WAIT_CONFIRM", "ACTIVATE", "SWEEP", "REGISTER"} }

SessionStates == {"INIT", "KEYGEN", "FUND_GAS", "APPROVE", "WAIT_CONFIRM",
                  "ACTIVATE", "SWEEP", "REGISTER", "COMPLETE", "FAILED"}

\* TransitionTo: a trigger the state does not permit is rejected and the row
\* keeps its state (the callers drop the error).
TransitionTo(state, trigger) ==
  IF \E t \in Table : t[1] = state /\ t[2] = trigger
  THEN (CHOOSE t \in Table : t[1] = state /\ t[2] = trigger)[3]
  ELSE state

Pending == { i \in Rows : row[i] \in SessionStates \ {"COMPLETE", "FAILED"} }

\* The newest pending row, as a set of at most one.
FindPendingSession == { i \in Pending : \A j \in Pending : j <= i }

-----------------------------------------------------------------------------
(* States of a run and of what it works on.                                *)

Checking == {"refresh", "store", "reread", "open"}
Started  == {"precheck", "keygen", "persist", "pubkey", "register", "fund",
             "fundManager", "fundWait", "approve", "report", "pollApproved",
             "add", "addWait", "commit", "pollActive", "sweep", "sweepManager"}
Working  == Checking \cup Started
Over     == {"rejected", "failed", "dead", "done"}

\* Receipt states at the payment server; 3 and 5 are the poll targets.
GENERATED == 1
APPROVE_BROADCAST == 2
APPROVED == 3
ADDING == 4
ACTIVE == 5

Transfer == {"none", "sent", "mined", "swept"}

HasGas(a)     == fund[a] = "mined"
ManagerHasGas == \E q \in Runs : mfund[q] = "mined"
CanSign(a)    == a \in keyFrom /\ a \in pubKey    \* PrepareSignInit

RunTypeOK ==
  /\ pc \in [Runs -> {"idle"} \cup Working \cup Over]
  /\ sess \in [Runs -> 0 .. NRuns]
  /\ row \in [Rows -> {"none"} \cup SessionStates]
  /\ attempt \in [Runs -> 0 .. (MaxAttempts - 1)]
  /\ cur \in [Runs -> Addr \cup {NoAddr}]
  /\ addrs \in [Runs -> SUBSET Addr]
  /\ todo \in [Runs -> SUBSET Addr]
  /\ approved \in [Runs -> SUBSET Addr]

WorldTypeOK ==
  /\ keyFrom \in SUBSET Addr
  /\ pubKey \in SUBSET Addr
  /\ localActive \in BOOLEAN
  /\ remoteActive \in BOOLEAN
  /\ told \in [Runs -> BOOLEAN]
  /\ mpc \in SUBSET Addr
  /\ srv \in [Addr -> 0 .. ACTIVE]
  /\ fund \in [Addr -> Transfer]
  /\ mfund \in [Runs -> Transfer]
  /\ allow \in [Addr -> {"none", "sent", "mined"}]
  /\ adding \in [Runs -> SUBSET Addr]
  /\ listed \in SUBSET Addr

TypeOK == RunTypeOK /\ WorldTypeOK

Init ==
  /\ pc = [r \in Runs |-> "idle"]
  /\ sess = [r \in Runs |-> 0]
  /\ row = [i \in Rows |-> "none"]
  /\ attempt = [r \in Runs |-> 0]
  /\ cur = [r \in Runs |-> NoAddr]
  /\ addrs = [r \in Runs |-> {}]
  /\ todo = [r \in Runs |-> {}]
  /\ approved = [r \in Runs |-> {}]
  /\ keyFrom = {}
  /\ pubKey = {}
  /\ localActive = FALSE
  /\ remoteActive = FALSE
  /\ told = [r \in Runs |-> FALSE]
  /\ mpc = {}
  /\ srv = [a \in Addr |-> 0]
  /\ fund = [a \in Addr |-> "none"]
  /\ mfund = [r \in Runs |-> "none"]
  /\ allow = [a \in Addr |-> "none"]
  /\ adding = [r \in Runs |-> {}]
  /\ listed = {}

Goto(r, label) == pc' = [pc EXCEPT ![r] = label]

-----------------------------------------------------------------------------
(* Entry: BatchSetup up to the call of batchSetupEvm / batchSetupTron.     *)

\* The click, and the first reading of the splitter's row: one below ACTIVE is
\* refreshed from the server first.
Begin(r) ==
  /\ pc[r] = "idle"
  /\ \A q \in 1 .. (r - 1) : pc[q] # "idle"
  /\ Goto(r, IF localActive THEN "open" ELSE "refresh")
  /\ UNCHANGED <<attempt, cur, addrs, todo, approved>>
  /\ UNCHANGED <<sessVars, keyVars, splitVars, gasVars, chainVars, serverVars>>

\* FetchSplitWallets, the server's answer: what it knows at that moment.
RefreshAnswered(r) ==
  /\ pc[r] = "refresh"
  /\ told' = [told EXCEPT ![r] = remoteActive]
  /\ Goto(r, "store")
  /\ UNCHANGED <<attempt, cur, addrs, todo, approved, localActive, remoteActive>>
  /\ UNCHANGED <<sessVars, keyVars, gasVars, chainVars, serverVars>>

\* FetchSplitWallets, the row: overwritten with the answer, even where another
\* refresh has stored a later one meanwhile.
StoreSplit(r) ==
  /\ pc[r] = "store"
  /\ localActive' = told[r]
  /\ told' = [told EXCEPT ![r] = FALSE]
  /\ Goto(r, "reread")
  /\ UNCHANGED <<attempt, cur, addrs, todo, approved, remoteActive>>
  /\ UNCHANGED <<sessVars, keyVars, gasVars, chainVars, serverVars>>

\* Mutant: a refresh that went through is taken for an active splitter.
RereadUnchecked(r) ==
  /\ pc[r] = "reread"
  /\ Goto(r, "open")
  /\ UNCHANGED <<attempt, cur, addrs, todo, approved>>
  /\ UNCHANGED <<sessVars, keyVars, splitVars, gasVars, chainVars, serverVars>>

\* The second reading.
Reread(r) ==
  /\ pc[r] = "reread"
  /\ Goto(r, IF localActive THEN "open" ELSE "rejected")
  /\ UNCHANGED <<attempt, cur, addrs, todo, approved>>
  /\ UNCHANGED <<sessVars, keyVars, splitVars, gasVars, chainVars, serverVars>>

\* GetSplit, FetchSplitWallets or CreateSession failed: no row has been made,
\* and none is marked.
Reject(r) ==
  /\ pc[r] \in {"idle"} \cup Checking
  /\ \A q \in 1 .. (r - 1) : pc[q] # "idle"
  /\ told' = [told EXCEPT ![r] = FALSE]
  /\ Goto(r, "rejected")
  /\ UNCHANGED <<attempt, cur, addrs, todo, approved, localActive, remoteActive>>
  /\ UNCHANGED <<sessVars, keyVars, gasVars, chainVars, serverVars>>

\* CreateSession: the next row.
CreateSession(r) ==
  \E i \in Rows : /\ row[i] = "none"
                  /\ \A j \in 1 .. (i - 1) : row[j] # "none"
                  /\ row' = [row EXCEPT ![i] = "INIT"]
                  /\ sess' = [sess EXCEPT ![r] = i]

\* Mutant: a pending row is taken over in any state, INIT included.
ResumeAnySession(r) ==
  /\ pc[r] = "open"
  /\ \/ /\ \E i \in FindPendingSession : sess' = [sess EXCEPT ![r] = i]
        /\ UNCHANGED row
     \/ /\ FindPendingSession = {}
        /\ CreateSession(r)
  /\ Goto(r, "precheck")
  /\ UNCHANGED <<attempt, cur, addrs, todo, approved>>
  /\ UNCHANGED <<keyVars, splitVars, gasVars, chainVars, serverVars>>

\* The session row of a run: a pending one past INIT is resumed, otherwise a
\* new row is created.
OpenSession(r) ==
  LET resumable == { i \in FindPendingSession : row[i] # "INIT" } IN
  /\ pc[r] = "open"
  /\ \/ /\ \E i \in resumable : sess' = [sess EXCEPT ![r] = i]
        /\ UNCHANGED row
     \/ /\ resumable = {}
        /\ CreateSession(r)
  /\ Goto(r, "precheck")
  /\ UNCHANGED <<attempt, cur, addrs, todo, approved>>
  /\ UNCHANGED <<keyVars, splitVars, gasVars, chainVars, serverVars>>

\* Every error return ends in MarkFailed, whatever the row's state; the
\* goroutine's variables are gone.  MarkFailed's own error is dropped: where
\* keys.db did not take the update, the row stays as it is.
Fail(r) ==
  /\ Goto(r, "failed")
  /\ row' \in {row, [row EXCEPT ![sess[r]] = "FAILED"]}
  /\ attempt' = [attempt EXCEPT ![r] = 0]
  /\ cur' = [cur EXCEPT ![r] = NoAddr]
  /\ addrs' = [addrs EXCEPT ![r] = {}]
  /\ todo' = [todo EXCEPT ![r] = {}]
  /\ approved' = [approved EXCEPT ![r] = {}]
  /\ UNCHANGED sess

\* Chain configuration, node connection, nonce health, gas estimate.
Precheck(r) ==
  /\ pc[r] = "precheck"
  /\ Goto(r, "keygen")
  /\ UNCHANGED <<attempt, cur, addrs, todo, approved>>
  /\ UNCHANGED <<sessVars, keyVars, splitVars, gasVars, chainVars, serverVars>>

\* An error of a step that has no retry: node errors, an insufficient
\* balance, a failed broadcast, a revert, a deadline of waitTxConfirmations or
\* PollReceiptState, a report that was not processed.  A broadcast whose answer
\* was lost is the broadcast followed by this step.
StepError(r) ==
  /\ pc[r] \in {"precheck", "fund", "fundManager", "fundWait", "report",
                "pollApproved", "add", "addWait", "commit", "pollActive"}
  /\ Fail(r)
  /\ UNCHANGED <<keyVars, splitVars, gasVars, chainVars, serverVars>>

-----------------------------------------------------------------------------
(* batchKeygen: Count addresses one after the other, two attempts each.    *)

\* Mutant: attempts are not counted.
RetryForever(r) ==
  /\ Goto(r, "keygen")
  /\ cur' = [cur EXCEPT ![r] = NoAddr]
  /\ UNCHANGED <<attempt, addrs, todo, approved, sessVars>>

\* A keygen attempt failed: a second one starts over with a new address, or
\* the whole run fails and what was generated is forgotten.
AttemptFailed(r) ==
  IF attempt[r] + 1 < MaxAttempts
  THEN /\ Goto(r, "keygen")
       /\ attempt' = [attempt EXCEPT ![r] = @ + 1]
       /\ cur' = [cur EXCEPT ![r] = NoAddr]
       /\ UNCHANGED <<addrs, todo, approved, sessVars>>
  ELSE Fail(r)

\* KeygenStep1 and KeygenStep2 up to the answer of verify-bind: the two
\* parties agree on a fresh address.
VerifyBind(r) ==
  /\ pc[r] = "keygen"
  /\ \E a \in Addr \ mpc :
       /\ mpc' = mpc \cup {a}
       /\ cur' = [cur EXCEPT ![r] = a]
  /\ Goto(r, "persist")
  /\ UNCHANGED <<attempt, addrs, todo, approved, srv>>
  /\ UNCHANGED <<sessVars, keyVars, splitVars, gasVars, chainVars>>

\* The MPC server bound an address but its answer was lost.
VerifyBindLost(r) ==
  /\ pc[r] = "keygen"
  /\ \E a \in Addr \ mpc : mpc' = mpc \cup {a}
  /\ AttemptFailed(r)
  /\ UNCHANGED <<keyVars, splitVars, gasVars, chainVars, srv>>

\* Mutant: GetAddress is left out.
SetKeyFromThenRegister(r) ==
  /\ pc[r] = "persist"
  /\ keyFrom' = keyFrom \cup {cur[r]}
  /\ Goto(r, "register")
  /\ UNCHANGED <<attempt, cur, addrs, todo, approved, pubKey>>
  /\ UNCHANGED <<sessVars, splitVars, gasVars, chainVars, serverVars>>

\* SetKeyFrom: the share is encrypted and committed to keys.db.
SetKeyFrom(r) ==
  /\ pc[r] = "persist"
  /\ keyFrom' = keyFrom \cup {cur[r]}
  /\ Goto(r, "pubkey")
  /\ UNCHANGED <<attempt, cur, addrs, todo, approved, pubKey>>
  /\ UNCHANGED <<sessVars, splitVars, gasVars, chainVars, serverVars>>

\* Mutant: an error of GetAddress is ignored.
SetPubKeyOrIgnore(r) ==
  /\ pc[r] = "pubkey"
  /\ pubKey' \in {pubKey, pubKey \cup {cur[r]}}
  /\ Goto(r, "register")
  /\ UNCHANGED <<attempt, cur, addrs, todo, approved, keyFrom>>
  /\ UNCHANGED <<sessVars, splitVars, gasVars, chainVars, serverVars>>

\* GetAddress: the public key is fetched and written to the row SetKeyFrom
\* made.
SetPubKey(r) ==
  /\ pc[r] = "pubkey"
  /\ cur[r] \in keyFrom
  /\ pubKey' = pubKey \cup {cur[r]}
  /\ Goto(r, "register")
  /\ UNCHANGED <<attempt, cur, addrs, todo, approved, keyFrom>>
  /\ UNCHANGED <<sessVars, splitVars, gasVars, chainVars, serverVars>>

\* A keygen request or a database write of the current attempt failed.
KeygenError(r) ==
  /\ pc[r] \in {"keygen", "persist", "pubkey", "register"}
  /\ AttemptFailed(r)
  /\ UNCHANGED <<keyVars, splitVars, gasVars, chainVars, serverVars>>

\* What the payment server does with a registration, a report of approve
\* transactions, and a report of the addReceiptWallets transaction.
ServerRegisters(a) ==
  srv' = [srv EXCEPT ![a] = IF @ < GENERATED THEN GENERATED ELSE @]
ServerAdvances(group, from, to) ==
  srv' = [a \in Addr |-> IF a \in group /\ srv[a] = from THEN to ELSE srv[a]]

\* RegisterReceiptWalletGenerated, and the next address or the next step.
Register(r) ==
  /\ pc[r] = "register"
  /\ ServerRegisters(cur[r])
  /\ addrs' = [addrs EXCEPT ![r] = @ \cup {cur[r]}]
  /\ cur' = [cur EXCEPT ![r] = NoAddr]
  /\ attempt' = [attempt EXCEPT ![r] = 0]
  /\ Goto(r, IF Cardinality(addrs'[r]) = Count THEN "fund" ELSE "keygen")
  /\ UNCHANGED <<todo, approved, mpc>>
  /\ UNCHANGED <<sessVars, keyVars, splitVars, gasVars, chainVars>>

\* The server registered the address but its answer was lost: the next
\* attempt makes another address.
RegisterLost(r) ==
  /\ pc[r] = "register"
  /\ ServerRegisters(cur[r])
  /\ AttemptFailed(r)
  /\ UNCHANGED <<keyVars, splitVars, gasVars, chainVars, mpc>>

-----------------------------------------------------------------------------
(* batchFundGas / batchFundTrx: the receipts, then the manager.            *)

FundReceipt(r) ==
  /\ pc[r] = "fund"
  /\ \E a \in addrs[r] : /\ fund[a] = "none"
                         /\ fund' = [fund EXCEPT ![a] = "sent"]
  /\ Goto(r, IF \A a \in addrs[r] : fund'[a] # "none"
             THEN "fundManager" ELSE "fund")
  /\ UNCHANGED <<attempt, cur, addrs, todo, approved, mfund>>
  /\ UNCHANGED <<sessVars, keyVars, splitVars, chainVars, serverVars>>

FundManager(r) ==
  /\ pc[r] = "fundManager"
  /\ mfund' = [mfund EXCEPT ![r] = "sent"]
  /\ Goto(r, "fundWait")
  /\ UNCHANGED <<attempt, cur, addrs, todo, approved, fund>>
  /\ UNCHANGED <<sessVars, keyVars, splitVars, chainVars, serverVars>>

\* EVM waits until every transfer is mined, Tron only sleeps.
FundConfirmed(r) ==
  /\ pc[r] = "fundWait"
  /\ Evm => /\ mfund[r] # "sent"
            /\ \A a \in addrs[r] : fund[a] # "sent"
  /\ todo' = [todo EXCEPT ![r] = addrs[r]]
  /\ Goto(r, "approve")
  /\ UNCHANGED <<attempt, cur, addrs, approved>>
  /\ UNCHANGED <<sessVars, keyVars, splitVars, gasVars, chainVars, serverVars>>

-----------------------------------------------------------------------------
(* batchApprove / batchApproveTron: failures are skipped.                  *)

\* The receipt signs with the MPC server and has gas: the transaction is
\* broadcast.
ApproveOne(r) ==
  /\ pc[r] = "approve"
  /\ \E a \in todo[r] :
       /\ CanSign(a) /\ HasGas(a)
       /\ allow' = [allow EXCEPT ![a] = "sent"]
       /\ approved' = [approved EXCEPT ![r] = @ \cup {a}]
       /\ todo' = [todo EXCEPT ![r] = @ \ {a}]
  /\ UNCHANGED <<pc, attempt, cur, addrs, adding, listed>>
  /\ UNCHANGED <<sessVars, keyVars, splitVars, gasVars, serverVars>>

\* Its approve failed, or was broadcast and the node's answer lost.
ApproveSkip(r) ==
  /\ pc[r] = "approve"
  /\ \E a \in todo[r] :
       /\ todo' = [todo EXCEPT ![r] = @ \ {a}]
       /\ \/ UNCHANGED allow
          \/ CanSign(a) /\ HasGas(a) /\ allow' = [allow EXCEPT ![a] = "sent"]
  /\ UNCHANGED <<pc, attempt, cur, addrs, approved, adding, listed>>
  /\ UNCHANGED <<sessVars, keyVars, splitVars, gasVars, serverVars>>

\* Tron has no report of the approve transactions.
ApproveEnd(r) ==
  /\ pc[r] = "approve"
  /\ todo[r] = {}
  /\ IF approved[r] = {}
     THEN Fail(r)
     ELSE /\ Goto(r, IF Evm THEN "report" ELSE "pollApproved")
          /\ UNCHANGED <<attempt, cur, addrs, todo, approved, sessVars>>
  /\ UNCHANGED <<keyVars, splitVars, gasVars, chainVars, serverVars>>

\* Mutant: the report is taken for the confirmation.
SubmitApproveThenAdd(r) ==
  /\ pc[r] = "report"
  /\ ServerAdvances(approved[r], GENERATED, APPROVE_BROADCAST)
  /\ Goto(r, "add")
  /\ UNCHANGED <<attempt, cur, addrs, todo, approved, sessVars>>
  /\ UNCHANGED <<keyVars, splitVars, gasVars, chainVars, mpc>>

\* SubmitApprove: GENERATED -> APPROVE_BROADCAST.
SubmitApprove(r) ==
  /\ pc[r] = "report"
  /\ ServerAdvances(approved[r], GENERATED, APPROVE_BROADCAST)
  /\ \/ /\ Goto(r, "pollApproved")
        /\ UNCHANGED <<attempt, cur, addrs, todo, approved, sessVars>>
     \/ Fail(r)                           \* the answer was lost
  /\ UNCHANGED <<keyVars, splitVars, gasVars, chainVars, mpc>>

\* Mutants: the poll asks for the wrong state, or is content with one receipt.
PollGenerated(r) ==
  /\ pc[r] = "pollApproved"
  /\ \A a \in approved[r] : srv[a] >= GENERATED
  /\ Goto(r, "add")
  /\ UNCHANGED <<attempt, cur, addrs, todo, approved>>
  /\ UNCHANGED <<sessVars, keyVars, splitVars, gasVars, chainVars, serverVars>>
PollSomeApproved(r) ==
  /\ pc[r] = "pollApproved"
  /\ \E a \in approved[r] : srv[a] >= APPROVED
  /\ Goto(r, "add")
  /\ UNCHANGED <<attempt, cur, addrs, todo, approved>>
  /\ UNCHANGED <<sessVars, keyVars, splitVars, gasVars, chainVars, serverVars>>

\* PollReceiptState: the deadline is StepError; a failed or negative answer
\* is asked again and changes nothing.
PollApproved(r) ==
  /\ pc[r] = "pollApproved"
  /\ \A a \in approved[r] : srv[a] >= APPROVED
  /\ Goto(r, "add")
  /\ UNCHANGED <<attempt, cur, addrs, todo, approved>>
  /\ UNCHANGED <<sessVars, keyVars, splitVars, gasVars, chainVars, serverVars>>

-----------------------------------------------------------------------------
(* batchAddReceiptWallets, SubmitAddReceiptWallets and the sweep.          *)

\* The manager pays for the broadcast from what is on it, whoever's transfer
\* that was.  Tron does not wait for the confirmation.
AddReceiptWallets(r) ==
  /\ pc[r] = "add"
  /\ ManagerHasGas
  /\ adding' = [adding EXCEPT ![r] = approved[r]]
  /\ Goto(r, IF Evm THEN "addWait" ELSE "commit")
  /\ UNCHANGED <<attempt, cur, addrs, todo, approved, allow, listed>>
  /\ UNCHANGED <<sessVars, keyVars, splitVars, gasVars, serverVars>>

AddConfirmed(r) ==
  /\ pc[r] = "addWait"
  /\ approved[r] \subseteq listed
  /\ Goto(r, "commit")
  /\ UNCHANGED <<attempt, cur, addrs, todo, approved>>
  /\ UNCHANGED <<sessVars, keyVars, splitVars, gasVars, chainVars, serverVars>>

\* SubmitAddReceiptWallets: APPROVED -> ADDING.
CommitAdd(r) ==
  /\ pc[r] = "commit"
  /\ ServerAdvances(approved[r], APPROVED, ADDING)
  /\ \/ /\ Goto(r, "pollActive")
        /\ UNCHANGED <<attempt, cur, addrs, todo, approved, sessVars>>
     \/ Fail(r)                           \* the answer was lost
  /\ UNCHANGED <<keyVars, splitVars, gasVars, chainVars, mpc>>

\* Mutants: the poll asks for the wrong state, or is content with one receipt.
PollAdding(r) ==
  /\ pc[r] = "pollActive"
  /\ \A a \in approved[r] : srv[a] >= ADDING
  /\ Goto(r, "sweep")
  /\ UNCHANGED <<attempt, cur, addrs, todo, approved>>
  /\ UNCHANGED <<sessVars, keyVars, splitVars, gasVars, chainVars, serverVars>>
PollSomeActive(r) ==
  /\ pc[r] = "pollActive"
  /\ \E a \in approved[r] : srv[a] >= ACTIVE
  /\ Goto(r, "sweep")
  /\ UNCHANGED <<attempt, cur, addrs, todo, approved>>
  /\ UNCHANGED <<sessVars, keyVars, splitVars, gasVars, chainVars, serverVars>>

PollActive(r) ==
  /\ pc[r] = "pollActive"
  /\ \A a \in approved[r] : srv[a] >= ACTIVE
  /\ Goto(r, "sweep")
  /\ UNCHANGED <<attempt, cur, addrs, todo, approved>>
  /\ UNCHANGED <<sessVars, keyVars, splitVars, gasVars, chainVars, serverVars>>

\* What a sweep of a group of receipts, and of the manager, takes away.
SweepReceipts(group) ==
  fund' = [a \in Addr |-> IF a \in group THEN "swept" ELSE fund[a]]
SweepManager ==
  mfund' = [q \in Runs |-> IF mfund[q] = "mined" THEN "swept" ELSE mfund[q]]

\* batchSweepGas over approvedReceipts: any of them may be skipped.
SweepApproved(r) ==
  /\ pc[r] = "sweep"
  /\ \E group \in SUBSET { a \in approved[r] : HasGas(a) /\ CanSign(a) } :
       SweepReceipts(group)
  /\ Goto(r, "sweepManager")
  /\ UNCHANGED <<attempt, cur, addrs, todo, approved, mfund>>
  /\ UNCHANGED <<sessVars, keyVars, splitVars, chainVars, serverVars>>

\* batchSweepGas over the manager, the return, and the transition of the
\* session that BatchSetup asks for.
Finish(r) ==
  /\ pc[r] = "sweepManager"
  /\ SweepManager \/ UNCHANGED mfund
  /\ row' = [row EXCEPT ![sess[r]] = TransitionTo(@, "TriggerRegisterDone")]
  /\ Goto(r, "done")
  /\ UNCHANGED <<attempt, cur, addrs, todo, approved, sess, fund>>
  /\ UNCHANGED <<keyVars, splitVars, chainVars, serverVars>>

-----------------------------------------------------------------------------
(* The user's SweepGas: receipts the contract lists, and the manager.      *)

\* Mutant: SweepGas visits every receipt address in keys.db.
SweepGasLocal(a) ==
  /\ localActive
  /\ HasGas(a) /\ CanSign(a)
  /\ SweepReceipts({a})
  /\ UNCHANGED <<runVars, sessVars, keyVars, splitVars, mfund, chainVars,
                 serverVars>>

SweepGasReceipt(a) ==
  /\ localActive
  /\ a \in listed /\ HasGas(a) /\ CanSign(a)
  /\ SweepReceipts({a})
  /\ UNCHANGED <<runVars, sessVars, keyVars, splitVars, mfund, chainVars,
                 serverVars>>

SweepGasManager ==
  /\ localActive
  /\ ManagerHasGas
  /\ SweepManager
  /\ UNCHANGED <<runVars, sessVars, keyVars, splitVars, fund, chainVars,
                 serverVars>>

-----------------------------------------------------------------------------
(* The process dies: a kill, or the panic of GetAddress on an unreadable   *)
(* answer.  Later clicks are made in a new process.                        *)

Crash ==
  LET live == { r \in Runs : pc[r] \in Working } IN
  /\ live # {}
  /\ pc' = [r \in Runs |-> IF r \in live THEN "dead" ELSE pc[r]]
  /\ attempt' = [r \in Runs |-> 0]
  /\ cur' = [r \in Runs |-> NoAddr]
  /\ addrs' = [r \in Runs |-> IF r \in live THEN {} ELSE addrs[r]]
  /\ todo' = [r \in Runs |-> {}]
  /\ approved' = [r \in Runs |-> IF r \in live THEN {} ELSE approved[r]]
  /\ told' = [r \in Runs |-> FALSE]
  /\ UNCHANGED <<localActive, remoteActive>>
  /\ UNCHANGED <<sessVars, keyVars, gasVars, chainVars, serverVars>>

-----------------------------------------------------------------------------
(* The chain and the servers, as the client relies on them.                *)

MineTransfer ==
  /\ \/ \E a \in Addr : /\ fund[a] = "sent"
                        /\ fund' = [fund EXCEPT ![a] = "mined"]
                        /\ UNCHANGED mfund
     \/ \E r \in Runs : /\ mfund[r] = "sent"
                        /\ mfund' = [mfund EXCEPT ![r] = "mined"]
                        /\ UNCHANGED fund
  /\ UNCHANGED <<runVars, sessVars, keyVars, splitVars, chainVars, serverVars>>

MineApprove ==
  /\ \E a \in Addr : /\ allow[a] = "sent"
                     /\ allow' = [allow EXCEPT ![a] = "mined"]
  /\ UNCHANGED <<runVars, sessVars, keyVars, splitVars, gasVars, adding,
                 listed, serverVars>>

\* addReceiptWallets takes effect, or reverts.
MineAdd ==
  /\ \E r \in Runs :
       /\ adding[r] # {}
       /\ adding' = [adding EXCEPT ![r] = {}]
       /\ \/ /\ \A a \in adding[r] : allow[a] = "mined"
             /\ listed' = listed \cup adding[r]
          \/ UNCHANGED listed
  /\ UNCHANGED <<runVars, sessVars, keyVars, splitVars, gasVars, allow,
                 serverVars>>

\* The server follows the Approval event and the contract's wallet list.
ServerSees(a) ==
  /\ \/ /\ srv[a] \in {GENERATED, APPROVE_BROADCAST}
        /\ allow[a] = "mined"
        /\ srv' = [srv EXCEPT ![a] = APPROVED]
     \/ /\ srv[a] \in {APPROVED, ADDING}
        /\ a \in listed
        /\ srv' = [srv EXCEPT ![a] = ACTIVE]
  /\ UNCHANGED <<runVars, sessVars, keyVars, splitVars, gasVars, chainVars,
                 mpc>>

\* The activation of the split wallet is confirmed.
ServerActivates ==
  /\ ~remoteActive
  /\ remoteActive' = TRUE
  /\ UNCHANGED <<runVars, sessVars, keyVars, localActive, told, gasVars,
                 chainVars, serverVars>>

-----------------------------------------------------------------------------
RunStep(r) ==
  \/ Begin(r) \/ RefreshAnswered(r) \/ StoreSplit(r) \/ Reread(r)
  \/ Reject(r) \/ OpenSession(r) \/ Precheck(r) \/ StepError(r)
  \/ VerifyBind(r) \/ VerifyBindLost(r) \/ SetKeyFrom(r) \/ SetPubKey(r)
  \/ KeygenError(r) \/ Register(r) \/ RegisterLost(r)
  \/ FundReceipt(r) \/ FundManager(r) \/ FundConfirmed(r)
  \/ ApproveOne(r) \/ ApproveSkip(r) \/ ApproveEnd(r)
  \/ SubmitApprove(r) \/ PollApproved(r)
  \/ AddReceiptWallets(r) \/ AddConfirmed(r) \/ CommitAdd(r)
  \/ PollActive(r) \/ SweepApproved(r) \/ Finish(r)

Environment ==
  \/ Crash \/ MineTransfer \/ MineApprove \/ MineAdd \/ ServerActivates
  \/ SweepGasManager
  \/ \E a \in Addr : ServerSees(a) \/ SweepGasReceipt(a)

Next == Environment \/ \E r \in Runs : RunStep(r)

Spec == Init /\ [][Next]_vars

\* A goroutine that has something to do keeps doing it: its requests carry
\* timeouts and its waits deadlines.  Nothing is assumed of the user, the
\* chain or the servers.
FairSpec == Spec /\ \A r \in Runs : WF_vars(pc[r] \in Working /\ RunStep(r))

-----------------------------------------------------------------------------
(* Properties.                                                             *)

\* The payment server never learns of a receipt address that keys.db could not
\* sign for: share and public key are committed before the registration,
\* whichever request or process dies in between (singleKeygen).
RegisteredSignable == \A a \in Addr : srv[a] >= GENERATED => CanSign(a)

\* Gas is only ever sent to a registered address the merchant can sign for, so
\* whatever step fails next, the transfer is not sent into the void.
GasRecoverable ==
  \A a \in Addr : fund[a] # "none" => CanSign(a) /\ srv[a] >= GENERATED

\* The contract lists only receipts whose allowance is mined and that the
\* payment server had confirmed: addReceiptWallets follows the poll.
ListedBacked ==
  \A a \in listed : allow[a] = "mined" /\ srv[a] >= APPROVED

\* A sweep, the run's own or a SweepGas started meanwhile in another tab, never
\* takes the gas of a receipt that still needs it for its approve.
SweptOnlyListed == \A a \in Addr : fund[a] = "swept" => a \in listed

\* A run that reports success has at least one receipt, and each receipt it
\* approved is ACTIVE at the server and listed by the contract.
DoneMeansActive ==
  \A r \in Runs : pc[r] = "done" =>
    /\ approved[r] # {}
    /\ \A a \in approved[r] : srv[a] = ACTIVE /\ a \in listed

\* A session is opened only once the server has activated the splitter: not on
\* the first reading of a row below ACTIVE, not on a refresh that failed, and
\* not on an answer from before the activation, whichever run stored it last.
StartedOnlyActive == \A r \in Runs : sess[r] # 0 => remoteActive

\* The row a run works on is marked failed by its own failure only: runs with
\* the same arguments do not share a row, although FindPendingSession offers
\* each the other's.  (A run may fail and leave its row INIT.)
FailureIsOwn ==
  \A r \in Runs : sess[r] # 0 /\ row[sess[r]] = "FAILED" => pc[r] = "failed"

\* The rung of the ladder of ReceiptLifecycle an address stands on.
Rung(a) ==
  IF srv[a] = ACTIVE THEN 9
  ELSE IF a \in listed THEN 8
  ELSE IF srv[a] >= APPROVED THEN 7
  ELSE IF allow[a] # "none" THEN 6
  ELSE IF fund[a] # "none" THEN 5
  ELSE IF srv[a] >= GENERATED THEN 4
  ELSE IF a \in pubKey THEN 3
  ELSE IF a \in keyFrom THEN 2
  ELSE IF a \in mpc THEN 1
  ELSE 0

Stage == [a \in Addr |-> Rung(a)]

Lifecycle == INSTANCE ReceiptLifecycle WITH stage <- Stage

\* Every address climbs the ladder of ReceiptLifecycle rung by rung, whatever
\* the interleaving of runs, sweeps, crashes, chain and server.
ImplementsLifecycle == Lifecycle!Spec

\* Every run that starts comes to an end: retries are counted, waits and polls
\* have deadlines.
Terminates == \A r \in Runs : pc[r] \in Working ~> pc[r] \in Over
=============================================================================
