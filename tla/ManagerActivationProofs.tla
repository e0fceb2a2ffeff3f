---------------------- MODULE ManagerActivationProofs ----------------------
(***************************************************************************)
(* What ManagerActivation promises for every number of clicks and          *)
(* managers, on EVM and on Tron.                                           *)
(***************************************************************************)
EXTENDS ManagerActivation, TLAPS

USE ManagerAssumption DEF ManagerAssumption, Working, Over, PENDING_MANAGER,
  MANAGER_GENERATED, ACTIVATING, ACTIVE, rowVars, serverVars, chainVars, Goto

LEMMA InitIInv == Init => IInv
BY DEF Init, IInv, TypeOK, Agreement, ManagersAgree, Custody, OneAtATime,
       RegisteredHasShare

\* Types: every action writes values of the variable's range.
LEMMA StepType ==
  ASSUME TypeOK, NEW r \in Runs, RunStep(r) \/ MineActivate(r)
  PROVE  TypeOK'
<1> USE DEF TypeOK
<1>1. CASE Click(r) BY <1>1 DEF Click
<1>2. CASE StepError(r) BY <1>2 DEF StepError
<1>3. CASE QueryServer(r) BY <1>3 DEF QueryServer
<1>4. CASE ReadLocal(r) BY <1>4 DEF ReadLocal
<1>5. CASE VerifyBind(r) BY <1>5 DEF VerifyBind
<1>6. CASE SetManagerKeyFrom(r) BY <1>6 DEF SetManagerKeyFrom
<1>7. CASE SetManagerPubKey(r) BY <1>7 DEF SetManagerPubKey
<1>8. CASE Register(r) BY <1>8 DEF Register, ServerTakes
<1>9. CASE Broadcast(r) BY <1>9 DEF Broadcast
<1>10. CASE Confirmed(r) BY <1>10 DEF Confirmed
<1>11. CASE Commit(r) BY <1>11 DEF Commit
<1>12. CASE Fetch(r) BY <1>12 DEF Fetch
<1>13. CASE MineActivate(r) BY <1>13 DEF MineActivate
<1> QED
  BY <1>1, <1>2, <1>3, <1>4, <1>5, <1>6, <1>7, <1>8, <1>9, <1>10, <1>11,
     <1>12, <1>13 DEF RunStep

\* The agreement of server, contract and runs.
LEMMA StepAgreement ==
  ASSUME TypeOK, Agreement, NEW r \in Runs, RunStep(r) \/ MineActivate(r)
  PROVE  Agreement'
<1> USE DEF TypeOK, Agreement, ManagersAgree
<1>1. CASE Click(r) BY <1>1 DEF Click
<1>2. CASE StepError(r) BY <1>2 DEF StepError
<1>3. CASE QueryServer(r) BY <1>3 DEF QueryServer
<1>4. CASE ReadLocal(r) BY <1>4 DEF ReadLocal
<1>5. CASE VerifyBind(r) BY <1>5 DEF VerifyBind
<1>6. CASE SetManagerKeyFrom(r) BY <1>6 DEF SetManagerKeyFrom
<1>7. CASE SetManagerPubKey(r) BY <1>7 DEF SetManagerPubKey
<1>8. CASE Register(r) BY <1>8 DEF Register, ServerTakes
<1>9. CASE Broadcast(r) BY <1>9 DEF Broadcast
<1>10. CASE Confirmed(r) BY <1>10 DEF Confirmed
<1>11. CASE Commit(r) BY <1>11 DEF Commit
<1>12. CASE Fetch(r) BY <1>12 DEF Fetch
<1>13. CASE MineActivate(r) BY <1>13 DEF MineActivate
<1> QED
  BY <1>1, <1>2, <1>3, <1>4, <1>5, <1>6, <1>7, <1>8, <1>9, <1>10, <1>11,
     <1>12, <1>13 DEF RunStep

\* The custody of the registered manager's share while the page keeps runs
\* apart.
LEMMA StepCustody ==
  ASSUME TypeOK, Agreement, Custody, gone = {}, NEW r \in Runs,
         RunStep(r) \/ MineActivate(r)
  PROVE  Custody'
<1> USE DEF TypeOK, Custody, OneAtATime, RegisteredHasShare
<1>1. CASE Click(r) BY <1>1 DEF Click
<1>2. CASE StepError(r) BY <1>2 DEF StepError
<1>3. CASE QueryServer(r) BY <1>3 DEF QueryServer
<1>4. CASE ReadLocal(r) BY <1>4 DEF ReadLocal
<1>5. CASE VerifyBind(r) BY <1>5 DEF VerifyBind
<1>6. CASE SetManagerKeyFrom(r) BY <1>6 DEF SetManagerKeyFrom
<1>7. CASE SetManagerPubKey(r) BY <1>7 DEF SetManagerPubKey
<1>8. CASE Register(r) BY <1>8 DEF Register, ServerTakes, Agreement
<1>9. CASE Broadcast(r) BY <1>9 DEF Broadcast
<1>10. CASE Confirmed(r) BY <1>10 DEF Confirmed
<1>11. CASE Commit(r) BY <1>11 DEF Commit
<1>12. CASE Fetch(r) BY <1>12 DEF Fetch
<1>13. CASE MineActivate(r) BY <1>13 DEF MineActivate
<1> QED
  BY <1>1, <1>2, <1>3, <1>4, <1>5, <1>6, <1>7, <1>8, <1>9, <1>10, <1>11,
     <1>12, <1>13 DEF RunStep

\* The page, the process, the server's own steps and another installation.
LEMMA OthersKeepIInv ==
  ASSUME IInv,
         RebuildPage \/ Refresh \/ Crash \/ ServerConfirms \/ ForeignRegisters
  PROVE  IInv'
<1> USE DEF IInv, TypeOK, Agreement, ManagersAgree, Custody, OneAtATime,
            RegisteredHasShare
<1>1. CASE RebuildPage BY <1>1 DEF RebuildPage
<1>2. CASE Refresh BY <1>2 DEF Refresh
<1>3. CASE Crash BY <1>3 DEF Crash
<1>4. CASE ServerConfirms BY <1>4 DEF ServerConfirms
<1>5. CASE ForeignRegisters BY <1>5 DEF ForeignRegisters, ServerTakes
<1> QED BY <1>1, <1>2, <1>3, <1>4, <1>5

LEMMA StutterKeepsIInv == ASSUME IInv, UNCHANGED vars PROVE IInv'
BY DEF IInv, TypeOK, Agreement, ManagersAgree, Custody, OneAtATime,
       RegisteredHasShare, vars

\* Every step of every run, the page, the process, the chain and the server
\* keeps the inductive invariant.
THEOREM ManagerInductive == IInv /\ [Next]_vars => IInv'
<1> SUFFICES ASSUME IInv, [Next]_vars PROVE IInv' OBVIOUS
<1>1. ASSUME NEW r \in Runs, RunStep(r) \/ MineActivate(r) PROVE IInv'
  <2>1. UNCHANGED gone
    BY <1>1 DEF RunStep, MineActivate, Click, StepError, QueryServer,
       ReadLocal, VerifyBind, SetManagerKeyFrom, SetManagerPubKey, Register,
       Broadcast, Confirmed, Commit, Fetch
  <2> QED BY <1>1, <2>1, StepType, StepAgreement, StepCustody DEF IInv
<1> QED BY <1>1, OthersKeepIInv, StutterKeepsIInv DEF Next

\* The inductive invariant holds in every reachable state.
THEOREM ManagerInvariance == Spec => []IInv
BY InitIInv, ManagerInductive, PTL DEF Spec

\* Type correctness of the activation.
THEOREM ManagerTypeCorrect == Spec => []TypeOK
<1>1. IInv => TypeOK BY DEF IInv
<1> QED BY ManagerInvariance, <1>1, PTL

\* Whatever runs overlap, the contract and the server name one manager.
THEOREM ManagersAlwaysAgree == Spec => []ManagersAgree
<1>1. IInv => ManagersAgree BY DEF IInv, Agreement
<1> QED BY ManagerInvariance, <1>1, PTL

\* What a finished EVM run has reported is mined, with its own manager.
THEOREM ReportsAreMined == Spec => []ReportedIsMined
<1>1. IInv => ReportedIsMined BY DEF IInv, Agreement, ReportedIsMined
<1> QED BY ManagerInvariance, <1>1, PTL

\* Until the user leaves the page while a run works, keys.db keeps the share of
\* the manager that was registered.
THEOREM RegisteredShareIsKept == Spec => []RegisteredHasShare
<1>1. IInv => RegisteredHasShare BY DEF IInv, Custody, RegisteredHasShare
<1> QED BY ManagerInvariance, <1>1, PTL
=============================================================================
