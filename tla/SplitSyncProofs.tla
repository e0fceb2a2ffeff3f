-------------------------- MODULE SplitSyncProofs --------------------------
(***************************************************************************)
(* What SplitSync promises for all split wallets, merchants and threads.   *)
(***************************************************************************)
EXTENDS SplitSync, TLAPS

USE SplitAssumption DEF SplitAssumption, Threads, rowVars, ghosts, Ladder,
  PENDING_MANAGER, MANAGER_GENERATED, ACTIVE, Asking, Syncing, HasRow

LEMMA InitIInv == Init => IInv
<1> SUFFICES ASSUME Init PROVE IInv
  OBVIOUS
<1> USE DEF Init, Idle
<1>1. TypeOK
  <2>1. PICK old \in SUBSET Splits :
          /\ merchant = [s \in Splits |-> IF s \in old THEN Owner[s] ELSE NoMerchant]
          /\ manager \in {{}, old}
          /\ server = [s \in Splits |-> IF s \in old THEN MANAGER_GENERATED ELSE 0]
    OBVIOUS
  <2>2. merchant \in [Splits -> Merchants \cup {NoMerchant}] BY <2>1
  <2>3. server \in [Splits -> Ladder] BY <2>1
  <2> QED BY <2>1, <2>2, <2>3 DEF TypeOK
<1>2. Behind /\ AnswerIsAskers BY DEF Behind, AnswerIsAskers
<1>3. StoredIsAsked /\ RowIsOwners BY DEF StoredIsAsked, RowIsOwners
<1>4. InHand /\ Alone BY DEF InHand, Alone
<1>5. PastPendingHasManager BY DEF PastPendingHasManager
<1> QED BY <1>1, <1>2, <1>3, <1>4, <1>5 DEF IInv

\* Types: every action writes values of the variable's range.
LEMMA StepType == TypeOK /\ [Next]_vars => TypeOK'
<1> SUFFICES ASSUME TypeOK, [Next]_vars PROVE TypeOK'
  OBVIOUS
<1> USE DEF TypeOK
<1>1. CASE Crash BY <1>1 DEF Crash
<1>2. ASSUME NEW s \in Splits, ServerAdvances(s) PROVE TypeOK'
  BY <1>2 DEF ServerAdvances, Above
<1>3. ASSUME NEW m \in Merchants, SwitchWallet(m) PROVE TypeOK'
  BY <1>3 DEF SwitchWallet
<1>4. ASSUME NEW t \in Threads, Request(t) PROVE TypeOK'
  BY <1>4 DEF Request, Goto
<1>5. ASSUME NEW t \in Threads, Sign(t) PROVE TypeOK'
  BY <1>5 DEF Sign, Goto
<1>6. ASSUME NEW t \in Threads, ServerAnswers(t) PROVE TypeOK'
  BY <1>6 DEF ServerAnswers, Goto
<1>7. ASSUME NEW t \in Threads, Take(t) PROVE TypeOK'
  BY <1>7 DEF Take, Goto
<1>8. ASSUME NEW t \in Threads, NEW s \in Splits, UpdateRow(t, s) PROVE TypeOK'
  BY <1>8 DEF UpdateRow, KeepManager, ManagerOf
<1>9. ASSUME NEW t \in Threads, NEW s \in Splits, InsertRow(t, s) PROVE TypeOK'
  BY <1>9 DEF InsertRow, KeepManager, ManagerOf, Goto
<1>10. ASSUME NEW t \in Threads, FillRow(t) PROVE TypeOK'
  <2>1. state' \in [Splits -> Ladder]
    <3>1. CASE cur[t] \in Splits BY <1>10, <3>1 DEF FillRow
    <3>2. CASE cur[t] = NoSplit BY <1>10, <3>2 DEF FillRow
    <3> QED BY <3>1, <3>2
  <2> QED BY <1>10, <2>1 DEF FillRow, Goto
<1>11. ASSUME NEW t \in Threads, Return(t) PROVE TypeOK'
  BY <1>11 DEF Return, Goto
<1>12. CASE UNCHANGED vars BY <1>12 DEF vars
<1> QED
  BY <1>1, <1>2, <1>3, <1>4, <1>5, <1>6,
     <1>7, <1>8, <1>9, <1>10, <1>11, <1>12 DEF Next, Sync

\* A crash loses the answers, which is why no answer is ahead of the server.
LEMMA CrashBehind == IInv /\ Crash => Behind'
<1> SUFFICES ASSUME IInv, Crash, NEW s \in Splits
             PROVE  /\ state'[s] <= server'[s]
                    /\ \A t \in Threads : answer'[t][s] <= server'[s]
  BY DEF Behind
<1>1. state' = state /\ server' = server BY DEF Crash
<1>2. state[s] <= server[s] BY DEF IInv, Behind
<1>3. server[s] \in Ladder BY DEF IInv, TypeOK
<1>4. \A t \in Threads : answer'[t][s] = 0 BY DEF Crash
<1>5. 0 <= server[s] BY <1>3
<1> QED BY <1>1, <1>2, <1>4, <1>5

\* The server only advances, and rows and answers stay as they were.
LEMMA AdvanceBehind ==
  ASSUME IInv, NEW r \in Splits, ServerAdvances(r) PROVE Behind'
<1> SUFFICES ASSUME NEW s \in Splits
             PROVE  /\ state'[s] <= server'[s]
                    /\ \A t \in Threads : answer'[t][s] <= server'[s]
  BY DEF Behind
<1>1. state' = state /\ answer' = answer BY DEF ServerAdvances
<1>2. server[s] <= server'[s] BY DEF ServerAdvances, Above, IInv, TypeOK
<1>3. /\ state[s] <= server[s]
      /\ \A t \in Threads : answer[t][s] <= server[s]
  BY DEF IInv, Behind
<1>4. /\ state[s] \in Nat /\ server[s] \in Nat
      /\ \A t \in Threads : answer[t][s] \in Nat
  BY DEF IInv, TypeOK
<1>5. server'[s] \in Nat BY <1>4 DEF ServerAdvances, Above, IInv, TypeOK
<1> QED BY <1>1, <1>2, <1>3, <1>4, <1>5

\* The rest of the invariant.
LEMMA StepInvariant == IInv /\ [Next]_vars => IInv'
<1> SUFFICES ASSUME IInv, [Next]_vars PROVE IInv'
  OBVIOUS
<1>0. TypeOK' BY StepType DEF IInv
<1> DEFINE Rest == Behind /\ AnswerIsAskers /\ StoredIsAsked /\ RowIsOwners
                   /\ InHand /\ Alone /\ PastPendingHasManager
<1> SUFFICES Rest' BY <1>0 DEF IInv
<1> USE <1>0 DEF IInv, TypeOK, Behind, AnswerIsAskers, StoredIsAsked,
            RowIsOwners, InHand, Alone, PastPendingHasManager
<1>1. CASE Crash
  <2>1. Behind' BY <1>1, CrashBehind
  <2>2. AnswerIsAskers' BY <1>1 DEF Crash
  <2>3. StoredIsAsked' BY <1>1 DEF Crash
  <2>4. RowIsOwners' BY <1>1 DEF Crash
  <2>5. InHand' BY <1>1 DEF Crash
  <2>6. Alone' BY <1>1 DEF Crash
  <2>7. PastPendingHasManager' BY <1>1 DEF Crash
  <2> QED BY <2>1, <2>2, <2>3, <2>4, <2>5, <2>6, <2>7
<1>2. ASSUME NEW s \in Splits, ServerAdvances(s) PROVE Rest'
  <2>1. Behind' BY <1>2, AdvanceBehind
  <2>2. AnswerIsAskers' BY <1>2 DEF ServerAdvances
  <2>3. StoredIsAsked' BY <1>2 DEF ServerAdvances
  <2>4. RowIsOwners' BY <1>2 DEF ServerAdvances
  <2>5. InHand' BY <1>2 DEF ServerAdvances
  <2>6. Alone' BY <1>2 DEF ServerAdvances
  <2>7. PastPendingHasManager' BY <1>2 DEF ServerAdvances
  <2> QED BY <2>1, <2>2, <2>3, <2>4, <2>5, <2>6, <2>7
<1>3. ASSUME NEW m \in Merchants, SwitchWallet(m) PROVE Rest'
  <2>1. Behind' BY <1>3 DEF SwitchWallet
  <2>2. AnswerIsAskers' BY <1>3 DEF SwitchWallet
  <2>3. StoredIsAsked' BY <1>3 DEF SwitchWallet
  <2>4. RowIsOwners' BY <1>3 DEF SwitchWallet
  <2>5. InHand' BY <1>3 DEF SwitchWallet
  <2>6. Alone' BY <1>3 DEF SwitchWallet
  <2>7. PastPendingHasManager' BY <1>3 DEF SwitchWallet
  <2> QED BY <2>1, <2>2, <2>3, <2>4, <2>5, <2>6, <2>7
<1>4. ASSUME NEW t \in Threads, Request(t) PROVE Rest'
  <2>1. Behind' BY <1>4 DEF Request, Goto
  <2>2. AnswerIsAskers' BY <1>4 DEF Request, Goto
  <2>3. StoredIsAsked' BY <1>4 DEF Request, Goto
  <2>4. RowIsOwners' BY <1>4 DEF Request, Goto
  <2>5. InHand' BY <1>4 DEF Request, Goto
  <2>6. Alone' BY <1>4 DEF Request, Goto
  <2>7. PastPendingHasManager' BY <1>4 DEF Request, Goto
  <2> QED BY <2>1, <2>2, <2>3, <2>4, <2>5, <2>6, <2>7
<1>5. ASSUME NEW t \in Threads, Sign(t) PROVE Rest'
  BY <1>5 DEF Sign, Goto
<1>6. ASSUME NEW t \in Threads, ServerAnswers(t) PROVE Rest'
  <2>1. Behind' BY <1>6 DEF ServerAnswers, Goto
  <2>2. AnswerIsAskers' BY <1>6 DEF ServerAnswers, Goto
  <2>3. StoredIsAsked' BY <1>6 DEF ServerAnswers, Goto
  <2>4. RowIsOwners' BY <1>6 DEF ServerAnswers, Goto
  <2>5. InHand' BY <1>6 DEF ServerAnswers, Goto
  <2>6. Alone' BY <1>6 DEF ServerAnswers, Goto
  <2>7. PastPendingHasManager' BY <1>6 DEF ServerAnswers, Goto
  <2> QED BY <2>1, <2>2, <2>3, <2>4, <2>5, <2>6, <2>7
<1>7. ASSUME NEW t \in Threads, Take(t) PROVE Rest'
  BY <1>7 DEF Take, Goto
<1>8. ASSUME NEW t \in Threads, NEW s \in Splits, UpdateRow(t, s) PROVE Rest'
  BY <1>8 DEF UpdateRow, KeepManager, ManagerOf
<1>9. ASSUME NEW t \in Threads, NEW s \in Splits, InsertRow(t, s) PROVE Rest'
  BY <1>9 DEF InsertRow, KeepManager, ManagerOf, Goto
<1>10. ASSUME NEW t \in Threads, FillRow(t) PROVE Rest'
  BY <1>10 DEF FillRow, Goto
<1>11. ASSUME NEW t \in Threads, Return(t) PROVE Rest'
  BY <1>11 DEF Return, Goto
<1>12. CASE UNCHANGED vars BY <1>12 DEF vars
<1> QED
  BY <1>1, <1>2, <1>3, <1>4, <1>5, <1>6,
     <1>7, <1>8, <1>9, <1>10, <1>11, <1>12 DEF Next, Sync

\* The inductive invariant holds in every reachable state, for any split wallets,
\* merchants and overlapping synchronisations (FetchSplitWallets).
THEOREM SyncInvariance == Spec => []IInv
BY InitIInv, StepInvariant, PTL DEF Spec

\* What is offered as active is so, has its manager and is the wallet's own
\* (ListActiveSplitWallets).
THEOREM OffersAreActive == Spec => []OfferedIsActive
<1>1. IInv => OfferedIsActive
  <2> SUFFICES ASSUME IInv, NEW s \in ListedActive
               PROVE  /\ server[s] = ACTIVE
                      /\ s \in manager
                      /\ ~crossed => Owner[s] = address
    BY DEF OfferedIsActive
  <2> USE DEF IInv, TypeOK, ListedActive, Listed
  <2>1. server[s] = ACTIVE BY DEF Behind
  <2>2. s \in manager BY DEF PastPendingHasManager
  <2>3. ~crossed => Owner[s] = address BY DEF RowIsOwners
  <2> QED BY <2>1, <2>2, <2>3
<1> QED BY <1>1, SyncInvariance, PTL

\* A row past PENDING_MANAGER has a manager (SyncSplitWallets).
THEOREM ManagersStay == Spec => []PastPendingHasManager
<1>1. IInv => PastPendingHasManager BY DEF IInv
<1> QED BY <1>1, SyncInvariance, PTL

\* Without overlap no state falls back, not even by a row half written.
THEOREM StatesClimb == Spec => StateClimbs
<1> DEFINE Climb == ~overlap' => \A s \in Splits : HasRow(s) => state'[s] >= state[s]
<1>1. ASSUME IInv, [Next]_vars PROVE Climb
  <2> SUFFICES ASSUME ~overlap', NEW s \in Splits, HasRow(s)
               PROVE  state'[s] >= state[s]
    OBVIOUS
  <2> USE DEF IInv, TypeOK
  <2>1. ~overlap BY <1>1 DEF Next, Crash, ServerAdvances, SwitchWallet, Request,
    Sync, Sign, ServerAnswers, Take, FillRow, Return, UpdateRow, InsertRow, vars
  <2>2. ASSUME NEW t \in Threads, NEW r \in Splits, UpdateRow(t, r)
        PROVE  state'[s] >= state[s]
    BY <1>1, <2>1, <2>2 DEF UpdateRow, Alone, InHand
  <2>3. ASSUME NEW t \in Threads, NEW r \in Splits, InsertRow(t, r)
        PROVE  state'[s] >= state[s]
    BY <1>1, <2>3 DEF InsertRow
  <2>4. ASSUME NEW t \in Threads, FillRow(t) PROVE state'[s] >= state[s]
    BY <1>1, <2>1, <2>4 DEF FillRow, Alone, InHand
  <2>5. CASE UNCHANGED state BY <1>1, <2>5
  <2> QED BY <1>1, <2>2, <2>3, <2>4, <2>5 DEF Next, Crash, ServerAdvances,
    SwitchWallet, Request, Sync, Sign, ServerAnswers, Take, Return, vars
<1>2. IInv /\ [Next]_vars => [Climb]_vars BY <1>1
<1> QED BY <1>2, SyncInvariance, PTL DEF Spec, StateClimbs
=============================================================================
