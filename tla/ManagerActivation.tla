------------------------- MODULE ManagerActivation -------------------------
(***************************************************************************)
(* GUIService.ActivateSplitWallet for one split wallet: generate its       *)
(* manager by two-party keygen, register the manager with the payment      *)
(* server, activate the contract with it, report the transaction.          *)
(*                                                                         *)
(* Three places have to name the same manager: the split_wallet_manager    *)
(* row of keys.db, the payment server and the contract.  A run is one      *)
(* click on the activate button; the page refuses a click while its own    *)
(* run works, and a rebuilt page knows nothing of the runs of the old one. *)
(***************************************************************************)
EXTENDS Naturals

CONSTANTS
  Runs,        \* clicks on the activate button
  Mgr,         \* manager addresses the MPC server can generate for this client
  Foreign,     \* a manager generated by an installation with another keys.db
  NoMgr        \* no manager

ASSUME ManagerAssumption ==
  /\ NoMgr # Foreign
  /\ Mgr \cap {NoMgr, Foreign} = {}

VARIABLES
  evm,       \* the chain of the split wallet: EVM, or Tron; it never changes
  pc,        \* where each run is
  gone,      \* runs whose page was rebuilt while they worked
  seen,      \* activationInfo.ManagerAddress of each run
  mine,      \* managerAddress of each run
  tx,        \* each run's activate transaction, with mine as its manager
  rowMgr,    \* manager_address of the row, whose key_from_data is its share
  rowPub,    \* the manager whose public key is in pub_key_data
  local,     \* split_wallet.state in keys.db
  mpc,       \* managers whose Party 2 share the MPC server holds
  srvMgr,    \* the manager the payment server knows
  state,     \* the split wallet's state at the payment server
  chainMgr   \* the manager the contract was activated with

rowVars    == <<rowMgr, rowPub>>
serverVars == <<mpc, srvMgr, state>>
chainVars  == <<evm, tx, chainMgr>>
vars == <<evm, pc, gone, seen, mine, tx, rowMgr, rowPub, local, mpc, srvMgr, state,
          chainMgr>>

\* States of a split wallet (stateToString).
PENDING_MANAGER   == 4
MANAGER_GENERATED == 5
ACTIVATING        == 6
ACTIVE            == 7

Working == {"init", "local", "keygen", "share", "pubkey", "register",
            "broadcast", "wait", "commit", "fetch"}
Over    == {"failed", "dead", "done"}

TypeOK ==
  /\ evm \in BOOLEAN
  /\ pc \in [Runs -> {"idle"} \cup Working \cup Over]
  /\ gone \in SUBSET Runs
  /\ seen \in [Runs -> Mgr \cup {Foreign, NoMgr}]
  /\ mine \in [Runs -> Mgr \cup {NoMgr}]
  /\ tx \in [Runs -> {"none", "sent", "mined", "reverted"}]
  /\ rowMgr \in Mgr \cup {NoMgr}
  /\ rowPub \in Mgr \cup {NoMgr}
  /\ local \in PENDING_MANAGER .. ACTIVE
  /\ mpc \in SUBSET Mgr
  /\ srvMgr \in Mgr \cup {Foreign, NoMgr}
  /\ state \in PENDING_MANAGER .. ACTIVE
  /\ chainMgr \in Mgr \cup {Foreign, NoMgr}

Init ==
  /\ evm \in BOOLEAN
  /\ pc = [r \in Runs |-> "idle"]
  /\ gone = {}
  /\ seen = [r \in Runs |-> NoMgr]
  /\ mine = [r \in Runs |-> NoMgr]
  /\ tx = [r \in Runs |-> "none"]
  /\ rowMgr = NoMgr
  /\ rowPub = NoMgr
  /\ local = PENDING_MANAGER
  /\ mpc = {}
  /\ srvMgr = NoMgr
  /\ state = PENDING_MANAGER
  /\ chainMgr = NoMgr

Goto(r, label) == pc' = [pc EXCEPT ![r] = label]

-----------------------------------------------------------------------------
(* The page.                                                               *)

\* The handler refuses while the page's own run works.  The list its button is
\* drawn from may be older than keys.db, which is read again.
Click(r) ==
  /\ pc[r] = "idle"
  /\ \A q \in Runs : pc[q] \in Working => q \in gone
  /\ Goto(r, IF local = ACTIVE THEN "done" ELSE "init")
  /\ UNCHANGED <<gone, seen, mine, rowVars, local, serverVars, chainVars>>

\* Another tab and back: the new page has its own activatingAddr.
RebuildPage ==
  /\ gone' = gone \cup { r \in Runs : pc[r] \in Working }
  /\ UNCHANGED <<pc, seen, mine, rowVars, local, serverVars, chainVars>>

\* refreshList: the server's state is copied to keys.db.
Refresh ==
  /\ local' = state
  /\ UNCHANGED <<pc, gone, seen, mine, rowVars, serverVars, chainVars>>

-----------------------------------------------------------------------------
(* ActivateSplitWallet.                                                    *)

\* A request, a node or keys.db returned an error.  Reading the row and the
\* last refresh ignore theirs.
StepError(r) ==
  /\ pc[r] \in Working \ {"local", "fetch"}
  /\ Goto(r, "failed")
  /\ UNCHANGED <<gone, seen, mine, rowVars, local, serverVars, chainVars>>

\* InitSplitWalletActivation: what the server knows at this moment.
QueryServer(r) ==
  /\ pc[r] = "init"
  /\ seen' = [seen EXCEPT ![r] = srvMgr]
  /\ Goto(r, IF state = ACTIVE THEN "fetch" ELSE "local")
  /\ UNCHANGED <<gone, mine, rowVars, local, serverVars, chainVars>>

\* Mutant: a manager the server already has does not stop the keygen.
ReadLocalOrGenerate(r) ==
  /\ pc[r] = "local"
  /\ \E found \in {rowMgr, NoMgr} :
       /\ mine' = [mine EXCEPT ![r] = found]
       /\ Goto(r, IF found = NoMgr THEN "keygen" ELSE "register")
  /\ UNCHANGED <<gone, seen, rowVars, local, serverVars, chainVars>>

\* GetLocalSplitWalletManager: a read error counts as no manager.
ReadLocal(r) ==
  /\ pc[r] = "local"
  /\ \E found \in {rowMgr, NoMgr} :
       /\ mine' = [mine EXCEPT ![r] = found]
       /\ Goto(r, IF found # NoMgr THEN "register"
                  ELSE IF seen[r] # NoMgr THEN "failed" ELSE "keygen")
  /\ UNCHANGED <<gone, seen, rowVars, local, serverVars, chainVars>>

\* ManagerKeygen up to verify-bind; the answer may be lost.
VerifyBind(r) ==
  /\ pc[r] = "keygen"
  /\ \E m \in Mgr \ mpc :
       /\ mpc' = mpc \cup {m}
       /\ \/ mine' = [mine EXCEPT ![r] = m] /\ Goto(r, "share")
          \/ UNCHANGED mine /\ Goto(r, "failed")
  /\ UNCHANGED <<gone, seen, rowVars, local, srvMgr, state, chainVars>>

\* SetManagerKeyFrom: on conflict the row keeps its pub_key_data.
SetManagerKeyFrom(r) ==
  /\ pc[r] = "share"
  /\ rowMgr' = mine[r]
  /\ Goto(r, "pubkey")
  /\ UNCHANGED <<gone, seen, mine, rowPub, local, serverVars, chainVars>>

\* SetManagerPubKey: an update that matches no row is no error.
SetManagerPubKey(r) ==
  /\ pc[r] = "pubkey"
  /\ rowPub' = IF rowMgr = mine[r] THEN mine[r] ELSE rowPub
  /\ Goto(r, "register")
  /\ UNCHANGED <<gone, seen, mine, rowMgr, local, serverVars, chainVars>>

\* The payment server keeps the first manager it is told.
ServerTakes(m) ==
  /\ srvMgr \in {NoMgr, m}
  /\ srvMgr' = m
  /\ state' = IF state < MANAGER_GENERATED THEN MANAGER_GENERATED ELSE state

\* Mutant: a manager of the server's is not compared with the local one.
RegisterUnlessKnown(r) ==
  /\ pc[r] = "register"
  /\ \/ /\ seen[r] = NoMgr
        /\ ServerTakes(mine[r])
        /\ Goto(r, "broadcast") \/ Goto(r, "failed")
     \/ /\ seen[r] # NoMgr
        /\ Goto(r, "broadcast")
        /\ UNCHANGED <<srvMgr, state>>
  /\ UNCHANGED <<gone, seen, mine, rowVars, local, mpc, chainVars>>

\* RegisterActivationManager, whose answer may be lost, when the server had no
\* manager; otherwise the two must agree.
Register(r) ==
  /\ pc[r] = "register"
  /\ \/ /\ seen[r] = NoMgr
        /\ ServerTakes(mine[r])
        /\ Goto(r, "broadcast") \/ Goto(r, "failed")
     \/ /\ seen[r] # NoMgr
        /\ Goto(r, IF seen[r] = mine[r] THEN "broadcast" ELSE "failed")
        /\ UNCHANGED <<srvMgr, state>>
  /\ UNCHANGED <<gone, seen, mine, rowVars, local, mpc, chainVars>>

\* Mutant: the EVM transaction is not waited for.
BroadcastOnly(r) ==
  /\ pc[r] = "broadcast"
  /\ tx' = [tx EXCEPT ![r] = "sent"]
  /\ Goto(r, "commit")
  /\ UNCHANGED <<gone, seen, mine, rowVars, local, serverVars, evm, chainMgr>>

\* The owner signs and broadcasts activate(manager, proxyAdmin); the node's
\* answer may be lost.  Tron does not wait for the confirmation.
Broadcast(r) ==
  /\ pc[r] = "broadcast"
  /\ tx' = [tx EXCEPT ![r] = "sent"]
  /\ Goto(r, IF evm THEN "wait" ELSE "commit") \/ Goto(r, "failed")
  /\ UNCHANGED <<gone, seen, mine, rowVars, local, serverVars, evm, chainMgr>>

\* waitTxConfirmations: a revert or the deadline is StepError.
Confirmed(r) ==
  /\ pc[r] = "wait"
  /\ tx[r] = "mined"
  /\ Goto(r, "commit")
  /\ UNCHANGED <<gone, seen, mine, rowVars, local, serverVars, chainVars>>

\* CommitSplitWalletActivation, whose answer may be lost.
Commit(r) ==
  /\ pc[r] = "commit"
  /\ state' = IF state < ACTIVATING THEN ACTIVATING ELSE state
  /\ Goto(r, "fetch") \/ Goto(r, "failed")
  /\ UNCHANGED <<gone, seen, mine, rowVars, local, mpc, srvMgr, chainVars>>

\* FetchSplitWallets, whose error is dropped.
Fetch(r) ==
  /\ pc[r] = "fetch"
  /\ local' \in {local, state}
  /\ Goto(r, "done")
  /\ UNCHANGED <<gone, seen, mine, rowVars, serverVars, chainVars>>

-----------------------------------------------------------------------------
(* The process dies; the next click is made in a new one.                  *)

Crash ==
  /\ \E r \in Runs : pc[r] \in Working
  /\ pc' = [r \in Runs |-> IF pc[r] \in Working THEN "dead" ELSE pc[r]]
  /\ UNCHANGED <<gone, seen, mine, rowVars, local, serverVars, chainVars>>

(* The chain, the payment server and another installation.                 *)

\* A contract is activated once.
MineActivate(r) ==
  /\ tx[r] = "sent"
  /\ \/ chainMgr = NoMgr /\ chainMgr' = mine[r]
        /\ tx' = [tx EXCEPT ![r] = "mined"]
     \/ UNCHANGED chainMgr /\ tx' = [tx EXCEPT ![r] = "reverted"]
  /\ UNCHANGED <<pc, gone, seen, mine, rowVars, local, serverVars, evm>>

\* The server follows the chain.
ServerConfirms ==
  /\ srvMgr # NoMgr /\ chainMgr = srvMgr
  /\ state' = ACTIVE
  /\ UNCHANGED <<pc, gone, seen, mine, rowVars, local, mpc, srvMgr, chainVars>>

\* The same merchant with another keys.db registers its manager and activates
\* the contract with it.
ForeignRegisters ==
  /\ ServerTakes(Foreign)
  /\ UNCHANGED chainMgr \/ (chainMgr = NoMgr /\ chainMgr' = Foreign)
  /\ UNCHANGED <<pc, gone, seen, mine, tx, rowVars, local, mpc, evm>>

-----------------------------------------------------------------------------
RunStep(r) ==
  \/ Click(r) \/ StepError(r) \/ QueryServer(r) \/ ReadLocal(r)
  \/ VerifyBind(r) \/ SetManagerKeyFrom(r) \/ SetManagerPubKey(r)
  \/ Register(r) \/ Broadcast(r) \/ Confirmed(r) \/ Commit(r) \/ Fetch(r)

Next ==
  \/ RebuildPage \/ Refresh \/ Crash \/ ServerConfirms \/ ForeignRegisters
  \/ \E r \in Runs : RunStep(r) \/ MineActivate(r)

Spec == Init /\ [][Next]_vars

-----------------------------------------------------------------------------
(* Properties.                                                             *)

\* The contract is only ever activated with the manager the payment server
\* knows, whichever runs, lost answers and other installations got in between
\* (the comparison in ActivateSplitWallet).
ManagersAgree == chainMgr # NoMgr => chainMgr = srvMgr

\* On EVM a run that has reported its transaction to the server and got to the
\* end has activated the contract with its own manager (activateOnEvm waits).
ReportedIsMined ==
  evm => \A r \in Runs :
           pc[r] = "done" /\ tx[r] # "none" => chainMgr = mine[r]

\* As long as the page keeps runs apart, keys.db has the share of the manager
\* this client registered: no retry, crash or unreadable row replaces it.
RegisteredHasShare == gone = {} /\ srvMgr \in Mgr => rowMgr = srvMgr

\* tab_splitter.go:73 refuses a second activation while one is in progress; a page
\* that is left and built again does not know of it, hence `gone' in IInv.
OneAtATime ==
  \A r, q \in Runs : pc[r] \in Working /\ pc[q] \in Working => r = q

\* What a run knows of the server stays true, what it broadcasts the server has
\* agreed to, and what it reports is mined.
Agreement ==
  /\ ManagersAgree
  /\ \A r \in Runs :
       /\ seen[r] # NoMgr => seen[r] = srvMgr
       /\ pc[r] \in {"share", "pubkey", "register"} => mine[r] # NoMgr
       /\ pc[r] \in {"broadcast", "wait", "commit"} \/ tx[r] # "none"
          => mine[r] = srvMgr /\ mine[r] # NoMgr
       /\ pc[r] \in {"idle", "init", "local", "keygen", "share", "pubkey",
                     "register", "broadcast"} => tx[r] = "none"
       /\ tx[r] = "mined" => chainMgr = mine[r]
       /\ evm /\ pc[r] \in {"commit", "fetch", "done"} /\ tx[r] # "none"
          => tx[r] = "mined"

\* One run at a time: until it registers, nobody else registers a manager of
\* this client, and the row holds the manager it is about to register.
Custody ==
  /\ OneAtATime
  /\ RegisteredHasShare
  /\ \A r \in Runs :
       /\ pc[r] \in {"keygen", "share", "pubkey"} => seen[r] = NoMgr
       /\ pc[r] \in {"local", "keygen", "share", "pubkey", "register"}
          /\ seen[r] = NoMgr => srvMgr \notin Mgr
       /\ pc[r] \in {"pubkey", "register"} => rowMgr = mine[r]

\* The inductive invariant.
IInv == TypeOK /\ Agreement /\ (gone = {} => Custody)
=============================================================================
