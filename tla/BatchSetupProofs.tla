------------------------- MODULE BatchSetupProofs -------------------------
(*****************************************************************************)
(* The inductive invariant of BatchSetup is one, for any number of runs,     *)
(* receipts and receipts per run, on EVM and on Tron; the safety properties  *)
(* the runs check follow from it, and BatchSetup implements ReceiptLifecycle.*)
(*****************************************************************************)
EXTENDS BatchSetupInvariant, TLAPS

USE BatchAssumption DEF BatchAssumption, Runs, Rows, Checking, Started,
  Working, Over, SessionStates,
  Transfer, GENERATED, APPROVE_BROADCAST, APPROVED, ADDING, ACTIVE,
  MaxAttempts, Goto, runVars, sessVars, keyVars, splitVars, gasVars,
  chainVars, serverVars

\* No receipt state at the payment server is taken back.
Advanced ==
  \A a \in Addr : srv'[a] \in 0 .. ACTIVE /\ srv'[a] >= srv[a]

\* A registration keeps the receipt states typed and takes none back.
LEMMA RegistrationAdvances ==
  ASSUME WorldTypeOK, NEW a \in Addr, ServerRegisters(a)
  PROVE  /\ srv' \in [Addr -> 0 .. ACTIVE]
         /\ Advanced
BY DEF WorldTypeOK, ServerRegisters, Advanced

\* A report of transactions keeps the receipt states typed and takes none
\* back.
LEMMA ReportAdvances ==
  ASSUME WorldTypeOK, NEW group \in SUBSET Addr,
         NEW from \in 0 .. ACTIVE, NEW to \in 0 .. ACTIVE, from <= to,
         ServerAdvances(group, from, to)
  PROVE  /\ srv' \in [Addr -> 0 .. ACTIVE]
         /\ Advanced
BY DEF WorldTypeOK, ServerAdvances, Advanced

\* Registering an address the merchant can sign for keeps the order of what
\* chain and server know (Register, RegisterLost).
LEMMA RegistrationOrder ==
  ASSUME IInv, NEW a \in Addr, CanSign(a), ServerRegisters(a),
         UNCHANGED <<keyVars, fund, chainVars>>
  PROVE  ServerAndChain'
<1>0. srv \in [Addr -> 0 .. ACTIVE] /\ ServerAndChain
  BY DEF IInv, TypeOK, WorldTypeOK
<1>1. CASE srv[a] < GENERATED
  <2>1. \A b \in Addr : srv'[b] = IF b = a THEN GENERATED ELSE srv[b]
    BY <1>0, <1>1 DEF ServerRegisters
  <2> QED BY <1>0, <1>1, <2>1 DEF ServerAndChain, CanSign
<1>2. CASE ~(srv[a] < GENERATED)
  <2>1. srv' = srv
    BY <1>0, <1>2 DEF ServerRegisters
  <2> QED BY <1>0, <2>1 DEF ServerAndChain, CanSign
<1> QED BY <1>1, <1>2

\* A report of approve or addReceiptWallets transactions keeps that order
\* (SubmitApprove, CommitAdd).
LEMMA ReportOrder ==
  ASSUME IInv, NEW group \in SUBSET Addr,
         \/ ServerAdvances(group, GENERATED, APPROVE_BROADCAST)
         \/ ServerAdvances(group, APPROVED, ADDING),
         UNCHANGED <<keyVars, fund, chainVars>>
  PROVE  ServerAndChain'
BY DEF IInv, TypeOK, WorldTypeOK, ServerAndChain, CanSign, ServerAdvances

\* What a run has waited for survives any advance of the payment server.
LEMMA AdvancedProgress ==
  ASSUME IInv, Advanced, NEW q \in Runs
  PROVE  /\ \A a \in addrs[q] : srv'[a] >= GENERATED
         /\ pc[q] \in AfterApproved =>
              \A a \in approved[q] : srv'[a] >= APPROVED
         /\ pc[q] \in AfterActive => \A a \in approved[q] : srv'[a] = ACTIVE
<1>1. addrs[q] \subseteq Addr /\ approved[q] \subseteq Addr
  BY DEF IInv, TypeOK, RunTypeOK
<1>2. \A a \in Addr : srv[a] \in 0 .. ACTIVE
  BY DEF IInv, TypeOK, WorldTypeOK
<1>3. \A a \in addrs[q] : srv'[a] >= GENERATED
  BY <1>1, <1>2 DEF IInv, Untouched, Advanced
<1>4. pc[q] \in AfterApproved => \A a \in approved[q] : srv'[a] >= APPROVED
  BY <1>1, <1>2 DEF IInv, RunProgress, Advanced
<1>5. pc[q] \in AfterActive => \A a \in approved[q] : srv'[a] = ACTIVE
  BY <1>1, <1>2 DEF IInv, RunProgress, Advanced
<1> QED BY <1>3, <1>4, <1>5

\* An error return with MarkFailed preserves what concerns the runs,
\* whatever the server does in the same step.
LEMMA FailKeeps ==
  ASSUME IInv, NEW r \in Runs, pc[r] \in Started, Fail(r),
         UNCHANGED <<fund, allow, keyVars, splitVars>>, mpc \subseteq mpc',
         Advanced
  PROVE  /\ RunTypeOK' /\ KeyCustody' /\ Ownership' /\ Untouched'
         /\ RunProgress' /\ SessionRows' /\ SplitterActive'
<1> DEFINE gone == /\ attempt' = [attempt EXCEPT ![r] = 0]
                   /\ cur' = [cur EXCEPT ![r] = NoAddr]
                   /\ addrs' = [addrs EXCEPT ![r] = {}]
                   /\ todo' = [todo EXCEPT ![r] = {}]
                   /\ approved' = [approved EXCEPT ![r] = {}]
<1>1. /\ pc' = [pc EXCEPT ![r] = "failed"]
      /\ row' \in {row, [row EXCEPT ![sess[r]] = "FAILED"]}
      /\ gone
      /\ sess' = sess
  BY DEF Fail
<1>2. RunTypeOK'
  <2>1. pc' \in [Runs -> {"idle"} \cup Working \cup Over]
    BY <1>1 DEF IInv, TypeOK, RunTypeOK
  <2>2. row' \in [Rows -> {"none"} \cup SessionStates]
    BY <1>1 DEF IInv, TypeOK, RunTypeOK
  <2>3. attempt' \in [Runs -> 0 .. (MaxAttempts - 1)]
    BY <1>1 DEF IInv, TypeOK, RunTypeOK
  <2>4. cur' \in [Runs -> Addr \cup {NoAddr}]
    BY <1>1 DEF IInv, TypeOK, RunTypeOK
  <2> QED BY <1>1, <2>1, <2>2, <2>3, <2>4 DEF IInv, TypeOK, RunTypeOK
<1>3. KeyCustody'
  BY <1>1 DEF IInv, TypeOK, RunTypeOK, KeyCustody
<1>4. Ownership'
  BY <1>1 DEF IInv, TypeOK, RunTypeOK, Ownership
<1>8. Untouched'
  BY <1>1, AdvancedProgress
  DEF IInv, TypeOK, RunTypeOK, Untouched, BeforeApprove
<1>5. RunProgress'
  BY <1>1, AdvancedProgress
  DEF IInv, TypeOK, RunTypeOK, RunProgress, AfterActive, AfterApproved,
      AfterApprove
<1>6. SessionRows'
  <2> USE <1>1 DEF IInv, TypeOK, RunTypeOK, SessionRows
  <2>1. CASE row' = row
    BY <2>1
  <2>2. CASE row' = [row EXCEPT ![sess[r]] = "FAILED"]
    BY <2>2
  <2> QED BY <2>1, <2>2
<1>7. SplitterActive'
  BY <1>1 DEF IInv, TypeOK, RunTypeOK, SplitterActive, StartedOnlyActive
<1> QED BY <1>2, <1>3, <1>4, <1>5, <1>6, <1>7, <1>8

\* So does a failed keygen attempt, whether it is retried or ends the run.
LEMMA AttemptFailedKeeps ==
  ASSUME IInv, NEW r \in Runs,
         pc[r] \in {"keygen", "persist", "pubkey", "register"},
         AttemptFailed(r),
         UNCHANGED <<fund, allow, keyVars, splitVars>>, mpc \subseteq mpc',
         Advanced
  PROVE  /\ RunTypeOK' /\ KeyCustody' /\ Ownership' /\ Untouched'
         /\ RunProgress' /\ SessionRows' /\ SplitterActive'
<1>1. CASE attempt[r] + 1 < MaxAttempts
  <2>0. /\ pc' = [pc EXCEPT ![r] = "keygen"]
        /\ attempt' = [attempt EXCEPT ![r] = @ + 1]
        /\ cur' = [cur EXCEPT ![r] = NoAddr]
        /\ UNCHANGED <<addrs, todo, approved, sessVars>>
    BY <1>1 DEF AttemptFailed
  <2>a. RunTypeOK
    BY DEF IInv, TypeOK
  <2>1. RunTypeOK'
    <3>1. attempt' \in [Runs -> 0 .. (MaxAttempts - 1)]
      <4>1. attempt \in [Runs -> 0 .. (MaxAttempts - 1)]
        BY <2>a DEF RunTypeOK
      <4>2. attempt[r] + 1 \in 0 .. (MaxAttempts - 1)
        BY <1>1, <4>1
      <4>3. attempt' = [attempt EXCEPT ![r] = attempt[r] + 1]
        BY <2>0
      <4> QED BY <4>1, <4>2, <4>3
    <3>2. cur' \in [Runs -> Addr \cup {NoAddr}]
      BY <2>0, <2>a DEF RunTypeOK
    <3> QED BY <2>0, <2>a, <3>1, <3>2 DEF RunTypeOK
  <2>2. KeyCustody'
    BY <2>0, <2>a DEF RunTypeOK, IInv, KeyCustody
  <2>3. Ownership'
    BY <2>0, <2>a DEF RunTypeOK, IInv, Ownership
  <2>6. Untouched'
    <3>1. \A q \in Runs : \A a \in addrs[q] : srv'[a] >= GENERATED
      BY AdvancedProgress
    <3>2. \A q \in Runs : pc'[q] \in BeforeApprove => pc[q] \in BeforeApprove
      BY <2>0, <2>a DEF RunTypeOK, BeforeApprove
    <3>3. \A q \in Runs : cur'[q] # NoAddr => fund[cur'[q]] = "none"
      BY <2>0, <2>a DEF RunTypeOK, IInv, Untouched
    <3> QED BY <2>0, <3>1, <3>2, <3>3 DEF IInv, Untouched
  <2>4. RunProgress'
    <3>1. \A q \in Runs : /\ pc'[q] \in AfterApprove => pc'[q] = pc[q]
                          /\ pc'[q] \in AfterApproved => pc'[q] = pc[q]
                          /\ pc'[q] \in AfterActive => pc'[q] = pc[q]
      BY <2>0, <2>a
      DEF RunTypeOK, AfterApprove, AfterApproved, AfterActive
    <3> QED BY <2>0, <3>1, AdvancedProgress DEF IInv, RunProgress
  <2>5. SessionRows' /\ SplitterActive'
    BY <2>0, <2>a
    DEF RunTypeOK, IInv, SessionRows, SplitterActive, StartedOnlyActive
  <2> QED BY <2>1, <2>2, <2>3, <2>4, <2>5, <2>6
<1>2. CASE ~(attempt[r] + 1 < MaxAttempts)
  BY <1>2, FailKeeps DEF AttemptFailed
<1> QED BY <1>1, <1>2

\* Entry: the click, the refresh of the splitter's row, the rejection.
LEMMA CheckKeeps ==
  ASSUME IInv, NEW r \in Runs
  PROVE  Begin(r) \/ RefreshAnswered(r) \/ StoreSplit(r) \/ Reread(r)
         \/ Reject(r) => IInv'
<1> SUFFICES ASSUME Begin(r) \/ RefreshAnswered(r) \/ StoreSplit(r)
                    \/ Reread(r) \/ Reject(r)
             PROVE  IInv'
  OBVIOUS
<1> DEFINE next == {"refresh", "store", "reread", "open", "rejected"}
<1>1. /\ pc[r] \in {"idle"} \cup Checking
      /\ \E label \in next : /\ pc' = [pc EXCEPT ![r] = label]
                             /\ label = "open" => localActive
      /\ UNCHANGED <<attempt, cur, addrs, todo, approved, sessVars, keyVars,
                     remoteActive, gasVars, chainVars, serverVars>>
  BY DEF Begin, RefreshAnswered, StoreSplit, Reread, Reject
<1>2. /\ localActive' \in BOOLEAN /\ told' \in [Runs -> BOOLEAN]
      /\ localActive' => remoteActive
      /\ \A q \in Runs : told'[q] => remoteActive
  <2>0. /\ localActive \in BOOLEAN /\ told \in [Runs -> BOOLEAN]
        /\ remoteActive \in BOOLEAN
        /\ localActive => remoteActive
        /\ \A q \in Runs : told[q] => remoteActive
    BY DEF IInv, TypeOK, WorldTypeOK, SplitterActive
  <2>1. CASE Begin(r) \/ Reread(r)
    BY <2>0, <2>1 DEF Begin, Reread
  <2>2. CASE RefreshAnswered(r)
    BY <2>0, <2>2 DEF RefreshAnswered
  <2>3. CASE StoreSplit(r)
    BY <2>0, <2>3 DEF StoreSplit
  <2>4. CASE Reject(r)
    BY <2>0, <2>4 DEF Reject
  <2> QED BY <2>1, <2>2, <2>3, <2>4
<1> USE <1>1 DEF IInv, TypeOK, RunTypeOK, WorldTypeOK
<1>3. TypeOK'
  BY <1>2
<1>4. KeyCustody' /\ Ownership' /\ ServerAndChain'
  BY DEF KeyCustody, Ownership, ServerAndChain, CanSign
<1>5. Untouched'
  BY DEF Untouched, BeforeApprove
<1>6. RunProgress'
  BY DEF RunProgress, AfterApprove, AfterApproved, AfterActive
<1>7. SessionRows'
  BY DEF SessionRows
<1>8. SplitterActive'
  BY <1>2 DEF SplitterActive, StartedOnlyActive
<1> QED BY <1>3, <1>4, <1>5, <1>6, <1>7, <1>8

\* The session's row and the prechecks of batchSetupEvm.
LEMMA EntryKeeps ==
  ASSUME IInv, NEW r \in Runs
  PROVE  OpenSession(r) \/ Precheck(r) => IInv'
<1>1. ASSUME OpenSession(r) PROVE IInv'
  <2>0. PICK i \in Rows : /\ row[i] = "none"
                          /\ row' = [row EXCEPT ![i] = "INIT"]
                          /\ sess' = [sess EXCEPT ![r] = i]
    <3>1. \A k \in FindPendingSession : row[k] = "INIT"
      BY DEF IInv, SessionRows, FindPendingSession, Pending
    <3> QED BY <1>1, <3>1 DEF OpenSession, CreateSession
  <2>1. i # 0 /\ \A q \in Runs : sess[q] # i
    BY <2>0 DEF IInv, SessionRows
  <2> USE <1>1, <2>0, <2>1
      DEF IInv, TypeOK, RunTypeOK, WorldTypeOK, OpenSession
  <2>2. TypeOK'
    <3>1. sess' \in [Runs -> 0 .. NRuns]
      OBVIOUS
    <3>2. row' \in [Rows -> {"none"} \cup SessionStates]
      OBVIOUS
    <3>3. pc' \in [Runs -> {"idle"} \cup Working \cup Over]
      OBVIOUS
    <3> QED BY <3>1, <3>2, <3>3
  <2>3. SessionRows'
    BY DEF SessionRows
  <2>4. SplitterActive'
    BY DEF SplitterActive, StartedOnlyActive
  <2>5. KeyCustody' /\ Ownership' /\ ServerAndChain'
    BY DEF KeyCustody, Ownership, ServerAndChain, CanSign
  <2>6. Untouched'
    BY DEF Untouched, BeforeApprove
  <2>7. RunProgress'
    BY DEF RunProgress, AfterApprove, AfterApproved, AfterActive
  <2> QED BY <2>2, <2>3, <2>4, <2>5, <2>6, <2>7
<1>2. ASSUME Precheck(r) PROVE IInv'
  <2> USE <1>2 DEF IInv, TypeOK, RunTypeOK, WorldTypeOK, Precheck
  <2>1. TypeOK'
    OBVIOUS
  <2>2. KeyCustody' /\ Ownership' /\ Untouched' /\ ServerAndChain'
       /\ RunProgress' /\ SessionRows' /\ SplitterActive'
    BY DEF KeyCustody, Ownership, Untouched, BeforeApprove, ServerAndChain,
           CanSign, RunProgress, AfterApprove, AfterApproved, AfterActive,
           SessionRows, SplitterActive, StartedOnlyActive
  <2> QED BY <2>1, <2>2
<1> QED BY <1>1, <1>2

\* The steps of singleKeygen preserve the invariant.
LEMMA KeygenKeeps ==
  ASSUME IInv, NEW r \in Runs
  PROVE  VerifyBind(r) \/ SetKeyFrom(r) \/ SetPubKey(r) \/ Register(r) => IInv'
<1>1. ASSUME VerifyBind(r) PROVE IInv'
  <2> USE <1>1 DEF IInv, TypeOK, RunTypeOK, WorldTypeOK, VerifyBind
  <2>1. TypeOK'
    OBVIOUS
  <2>2. KeyCustody'
    BY DEF KeyCustody
  <2>3. Ownership'
    BY DEF Ownership, KeyCustody, Untouched, ServerAndChain, CanSign
  <2>4. Untouched'
    BY DEF Untouched, BeforeApprove, KeyCustody, ServerAndChain, CanSign
  <2>5. ServerAndChain' /\ RunProgress' /\ SessionRows' /\ SplitterActive'
    BY DEF ServerAndChain, CanSign, RunProgress, AfterApprove, AfterApproved,
           AfterActive, SessionRows, SplitterActive, StartedOnlyActive
  <2> QED BY <2>1, <2>2, <2>3, <2>4, <2>5
<1>2. ASSUME SetKeyFrom(r) PROVE IInv'
  <2> USE <1>2 DEF IInv, TypeOK, RunTypeOK, WorldTypeOK, SetKeyFrom
  <2>1. TypeOK'
    BY DEF KeyCustody
  <2>2. KeyCustody'
    BY DEF KeyCustody
  <2>3. ServerAndChain'
    BY DEF ServerAndChain, CanSign
  <2>4. Ownership' /\ Untouched' /\ RunProgress' /\ SessionRows'
       /\ SplitterActive'
    BY DEF Ownership, Untouched, BeforeApprove, RunProgress, AfterApprove,
           AfterApproved, AfterActive, SessionRows, SplitterActive,
           StartedOnlyActive
  <2> QED BY <2>1, <2>2, <2>3, <2>4
<1>3. ASSUME SetPubKey(r) PROVE IInv'
  <2> USE <1>3 DEF IInv, TypeOK, RunTypeOK, WorldTypeOK, SetPubKey
  <2>1. TypeOK'
    BY DEF KeyCustody
  <2>2. KeyCustody'
    BY DEF KeyCustody
  <2>3. ServerAndChain'
    BY DEF ServerAndChain, CanSign
  <2>4. Ownership' /\ Untouched' /\ RunProgress' /\ SessionRows'
       /\ SplitterActive'
    BY DEF Ownership, Untouched, BeforeApprove, RunProgress, AfterApprove,
           AfterApproved, AfterActive, SessionRows, SplitterActive,
           StartedOnlyActive
  <2> QED BY <2>1, <2>2, <2>3, <2>4
<1>4. ASSUME Register(r) PROVE IInv'
  <2>1. cur[r] \in Addr /\ cur[r] \in keyFrom /\ cur[r] \in pubKey
    BY <1>4 DEF IInv, TypeOK, RunTypeOK, KeyCustody, Register
  <2>2. srv' \in [Addr -> 0 .. ACTIVE] /\ Advanced
    BY <1>4, <2>1, RegistrationAdvances DEF IInv, TypeOK, Register
  <2>3. ServerAndChain'
    BY <1>4, <2>1, RegistrationOrder DEF Register, CanSign
  <2>4. \A q \in Runs : \A a \in addrs'[q] : srv'[a] >= GENERATED
    <3>1. srv'[cur[r]] >= GENERATED
      <4>1. srv[cur[r]] \in 0 .. ACTIVE
        BY <2>1 DEF IInv, TypeOK, WorldTypeOK
      <4>2. srv'[cur[r]] = IF srv[cur[r]] < GENERATED THEN GENERATED
                                                      ELSE srv[cur[r]]
        BY <1>4, <2>1 DEF IInv, TypeOK, WorldTypeOK, Register, ServerRegisters
      <4> QED BY <4>1, <4>2
    <3> QED BY <1>4, <2>2, <3>1, AdvancedProgress
            DEF IInv, TypeOK, RunTypeOK, Register
  <2>5. RunProgress'
    BY <1>4, <2>2, AdvancedProgress
    DEF IInv, TypeOK, RunTypeOK, Register, RunProgress, AfterApprove,
        AfterApproved, AfterActive
  <2> USE <1>4 DEF IInv, TypeOK, RunTypeOK, WorldTypeOK, Register
  <2>6. TypeOK'
    BY <2>1, <2>2
  <2>7. KeyCustody'
    BY DEF KeyCustody
  <2>8. Ownership'
    BY <2>1 DEF Ownership
  <2>9. Untouched'
    <3>1. allow[cur[r]] = "none"
      BY <2>1 DEF Untouched, ServerAndChain
    <3> QED BY <2>1, <2>4, <3>1 DEF Untouched, Ownership, BeforeApprove
  <2>10. SessionRows' /\ SplitterActive'
    BY DEF SessionRows, SplitterActive, StartedOnlyActive
  <2> QED BY <2>3, <2>5, <2>6, <2>7, <2>8, <2>9, <2>10
<1> QED BY <1>1, <1>2, <1>3, <1>4

\* The steps of batchFundGas preserve the invariant.
LEMMA FundKeeps ==
  ASSUME IInv, NEW r \in Runs
  PROVE  FundReceipt(r) \/ FundManager(r) \/ FundConfirmed(r) => IInv'
<1>1. ASSUME FundReceipt(r) PROVE IInv'
  <2> USE <1>1 DEF IInv, TypeOK, RunTypeOK, WorldTypeOK, FundReceipt
  <2>1. TypeOK'
    OBVIOUS
  <2>2. Untouched'
    BY DEF Untouched, BeforeApprove, Ownership, ServerAndChain
  <2>3. ServerAndChain'
    BY DEF ServerAndChain, CanSign, Untouched
  <2>4. KeyCustody' /\ Ownership' /\ RunProgress' /\ SessionRows'
       /\ SplitterActive'
    BY DEF KeyCustody, Ownership, RunProgress, AfterApprove, AfterApproved,
           AfterActive, SessionRows, SplitterActive, StartedOnlyActive
  <2> QED BY <2>1, <2>2, <2>3, <2>4
<1>2. ASSUME FundManager(r) PROVE IInv'
  <2> USE <1>2 DEF IInv, TypeOK, RunTypeOK, WorldTypeOK, FundManager
  <2>1. TypeOK'
    OBVIOUS
  <2>2. KeyCustody' /\ Ownership' /\ Untouched' /\ ServerAndChain'
       /\ RunProgress' /\ SessionRows' /\ SplitterActive'
    BY DEF KeyCustody, Ownership, Untouched, BeforeApprove, ServerAndChain,
           CanSign, RunProgress, AfterApprove, AfterApproved, AfterActive,
           SessionRows, SplitterActive, StartedOnlyActive
  <2> QED BY <2>1, <2>2
<1>3. ASSUME FundConfirmed(r) PROVE IInv'
  <2> USE <1>3 DEF IInv, TypeOK, RunTypeOK, WorldTypeOK, FundConfirmed
  <2>1. TypeOK'
    OBVIOUS
  <2>2. Untouched'
    BY DEF Untouched, BeforeApprove
  <2>3. KeyCustody' /\ Ownership' /\ ServerAndChain'
    BY DEF KeyCustody, Ownership, ServerAndChain, CanSign
  <2>4. RunProgress'
    BY DEF RunProgress, AfterApprove, AfterApproved, AfterActive
  <2>5. SessionRows' /\ SplitterActive'
    BY DEF SessionRows, SplitterActive, StartedOnlyActive
  <2> QED BY <2>1, <2>2, <2>3, <2>4, <2>5
<1> QED BY <1>1, <1>2, <1>3

\* The steps of batchApprove and the poll for APPROVED preserve the
\* invariant.
LEMMA ApproveKeeps ==
  ASSUME IInv, NEW r \in Runs
  PROVE  ApproveOne(r) \/ ApproveSkip(r) \/ PollApproved(r) => IInv'
<1>1. ASSUME ApproveOne(r) PROVE IInv'
  <2> USE <1>1 DEF IInv, TypeOK, RunTypeOK, WorldTypeOK, ApproveOne, HasGas,
         CanSign
  <2>1. TypeOK'
    OBVIOUS
  <2>2. Untouched'
    BY DEF Untouched, BeforeApprove, Ownership
  <2>3. ServerAndChain'
    BY DEF ServerAndChain, CanSign, Untouched
  <2>4. RunProgress'
    BY DEF RunProgress, AfterApprove, AfterApproved, AfterActive
  <2>5. KeyCustody' /\ Ownership' /\ SessionRows' /\ SplitterActive'
    BY DEF KeyCustody, Ownership, SessionRows, SplitterActive,
           StartedOnlyActive
  <2> QED BY <2>1, <2>2, <2>3, <2>4, <2>5
<1>2. ASSUME ApproveSkip(r) PROVE IInv'
  <2>1. PICK a \in todo[r] :
          /\ todo' = [todo EXCEPT ![r] = @ \ {a}]
          /\ \/ UNCHANGED allow
             \/ /\ CanSign(a) /\ HasGas(a)
                /\ allow' = [allow EXCEPT ![a] = "sent"]
    BY <1>2 DEF ApproveSkip
  <2>2. a \in Addr /\ a \in addrs[r]
    BY DEF IInv, TypeOK, RunTypeOK, Untouched
  <2> USE <1>2, <2>1, <2>2
      DEF IInv, TypeOK, RunTypeOK, WorldTypeOK, ApproveSkip, HasGas
  <2>3. TypeOK'
    <3>1. allow' \in [Addr -> {"none", "sent", "mined"}]
      OBVIOUS
    <3>2. todo' \in [Runs -> SUBSET Addr]
      OBVIOUS
    <3> QED BY <3>1, <3>2
  <2>4. Untouched'
    <3>1. CASE UNCHANGED allow
      BY <3>1 DEF Untouched, BeforeApprove
    <3>2. CASE allow' = [allow EXCEPT ![a] = "sent"]
      BY <3>2 DEF Untouched, BeforeApprove, Ownership
    <3> QED BY <3>1, <3>2
  <2>5. ServerAndChain'
    <3>1. CASE UNCHANGED allow
      BY <3>1 DEF ServerAndChain, CanSign
    <3>2. CASE HasGas(a) /\ allow' = [allow EXCEPT ![a] = "sent"]
      BY <3>2 DEF ServerAndChain, CanSign, Untouched
    <3> QED BY <3>1, <3>2
  <2>6. KeyCustody' /\ Ownership' /\ RunProgress'
    BY DEF KeyCustody, Ownership, RunProgress, AfterApprove, AfterApproved,
           AfterActive
  <2>7. SessionRows' /\ SplitterActive'
    BY DEF SessionRows, SplitterActive, StartedOnlyActive
  <2> QED BY <2>3, <2>4, <2>5, <2>6, <2>7
<1>3. ASSUME PollApproved(r) PROVE IInv'
  <2> USE <1>3 DEF IInv, TypeOK, RunTypeOK, WorldTypeOK, PollApproved
  <2>1. TypeOK'
    OBVIOUS
  <2>2. KeyCustody' /\ Ownership' /\ Untouched' /\ ServerAndChain'
       /\ RunProgress' /\ SessionRows' /\ SplitterActive'
    BY DEF KeyCustody, Ownership, Untouched, BeforeApprove, ServerAndChain,
           CanSign, RunProgress, AfterApprove, AfterApproved, AfterActive,
           SessionRows, SplitterActive, StartedOnlyActive
  <2> QED BY <2>1, <2>2
<1> QED BY <1>1, <1>2, <1>3

\* The steps of batchAddReceiptWallets and the poll for ACTIVE preserve it.
LEMMA AddKeeps ==
  ASSUME IInv, NEW r \in Runs
  PROVE  AddReceiptWallets(r) \/ AddConfirmed(r) \/ PollActive(r) => IInv'
<1>1. ASSUME AddReceiptWallets(r) PROVE IInv'
  <2> USE <1>1 DEF IInv, TypeOK, RunTypeOK, WorldTypeOK, AddReceiptWallets,
         ManagerHasGas
  <2>1. TypeOK'
    OBVIOUS
  <2>2. ServerAndChain'
    BY DEF ServerAndChain, CanSign, RunProgress, AfterApproved
  <2>3. KeyCustody' /\ Ownership' /\ Untouched' /\ RunProgress'
       /\ SessionRows' /\ SplitterActive'
    BY DEF KeyCustody, Ownership, Untouched, BeforeApprove, RunProgress,
           AfterApprove, AfterApproved, AfterActive, SessionRows,
           SplitterActive, StartedOnlyActive
  <2> QED BY <2>1, <2>2, <2>3
<1>2. ASSUME AddConfirmed(r) PROVE IInv'
  <2> USE <1>2 DEF IInv, TypeOK, RunTypeOK, WorldTypeOK, AddConfirmed
  <2>1. TypeOK'
    OBVIOUS
  <2>2. KeyCustody' /\ Ownership' /\ Untouched' /\ ServerAndChain'
       /\ RunProgress' /\ SessionRows' /\ SplitterActive'
    BY DEF KeyCustody, Ownership, Untouched, BeforeApprove, ServerAndChain,
           CanSign, RunProgress, AfterApprove, AfterApproved, AfterActive,
           SessionRows, SplitterActive, StartedOnlyActive
  <2> QED BY <2>1, <2>2
<1>3. ASSUME PollActive(r) PROVE IInv'
  <2>1. \A a \in approved[r] : srv[a] = ACTIVE
    <3>1. \A a \in approved[r] : srv[a] \in 0 .. ACTIVE
      BY DEF IInv, TypeOK, RunTypeOK, WorldTypeOK
    <3>2. \A a \in approved[r] : srv[a] >= ACTIVE
      BY <1>3 DEF PollActive
    <3> QED BY <3>1, <3>2
  <2> USE <1>3 DEF IInv, TypeOK, RunTypeOK, WorldTypeOK, PollActive
  <2>2. TypeOK'
    OBVIOUS
  <2>3. KeyCustody' /\ Ownership' /\ Untouched' /\ ServerAndChain'
    BY DEF KeyCustody, Ownership, Untouched, BeforeApprove, ServerAndChain,
           CanSign
  <2>4. RunProgress'
    BY <2>1 DEF RunProgress, AfterApprove, AfterApproved, AfterActive
  <2>5. SessionRows' /\ SplitterActive'
    BY DEF SessionRows, SplitterActive, StartedOnlyActive
  <2> QED BY <2>2, <2>3, <2>4, <2>5
<1> QED BY <1>1, <1>2, <1>3

\* The sweep at the end of a run and its return preserve it.
LEMMA SweepKeeps ==
  ASSUME IInv, NEW r \in Runs
  PROVE  SweepApproved(r) \/ Finish(r) => IInv'
<1>1. ASSUME SweepApproved(r) PROVE IInv'
  <2> USE <1>1 DEF IInv, TypeOK, RunTypeOK, WorldTypeOK, SweepApproved,
         HasGas, CanSign, SweepReceipts
  <2>1. TypeOK'
    OBVIOUS
  <2>2. Untouched'
    BY DEF Untouched, BeforeApprove
  <2>3. ServerAndChain'
    BY DEF ServerAndChain, CanSign, RunProgress, AfterActive, AfterApproved
  <2>4. KeyCustody' /\ Ownership' /\ RunProgress' /\ SessionRows'
       /\ SplitterActive'
    BY DEF KeyCustody, Ownership, RunProgress, AfterApprove, AfterApproved,
           AfterActive, SessionRows, SplitterActive, StartedOnlyActive
  <2> QED BY <2>1, <2>2, <2>3, <2>4
<1>2. ASSUME Finish(r) PROVE IInv'
  <2> USE <1>2 DEF IInv, TypeOK, RunTypeOK, WorldTypeOK, Finish, TransitionTo,
         Table, SweepManager
  <2>1. TypeOK'
    BY DEF SessionRows
  <2>2. SessionRows'
    BY DEF SessionRows
  <2>3. KeyCustody' /\ Ownership' /\ Untouched' /\ ServerAndChain'
       /\ RunProgress' /\ SplitterActive'
    BY DEF KeyCustody, Ownership, Untouched, BeforeApprove, ServerAndChain,
           CanSign, RunProgress, AfterApprove, AfterApproved, AfterActive,
           SplitterActive, StartedOnlyActive
  <2> QED BY <2>1, <2>2, <2>3
<1> QED BY <1>1, <1>2

\* So do the SweepGas page, a crash, the chain and the servers.
LEMMA EnvironmentKeeps ==
  ASSUME IInv
  PROVE  \/ SweepGasManager \/ Crash \/ MineTransfer \/ MineApprove \/ MineAdd
         \/ ServerActivates
         \/ \E x \in Addr : ServerSees(x) \/ SweepGasReceipt(x)
         => IInv'
<1>1. ASSUME SweepGasManager PROVE IInv'
  <2> USE <1>1 DEF IInv, TypeOK, RunTypeOK, WorldTypeOK, SweepGasManager,
         SweepManager, ManagerHasGas
  <2>1. TypeOK'
    OBVIOUS
  <2>2. KeyCustody' /\ Ownership' /\ Untouched' /\ ServerAndChain'
       /\ RunProgress' /\ SessionRows' /\ SplitterActive'
    BY DEF KeyCustody, Ownership, Untouched, BeforeApprove, ServerAndChain,
           CanSign, RunProgress, AfterApprove, AfterApproved, AfterActive,
           SessionRows, SplitterActive, StartedOnlyActive
  <2> QED BY <2>1, <2>2
<1>2. ASSUME NEW x \in Addr, SweepGasReceipt(x) PROVE IInv'
  <2> USE <1>2 DEF IInv, TypeOK, RunTypeOK, WorldTypeOK, SweepGasReceipt,
         HasGas, CanSign, SweepReceipts
  <2>1. TypeOK'
    OBVIOUS
  <2>2. Untouched'
    BY DEF Untouched, BeforeApprove
  <2>3. ServerAndChain'
    BY DEF ServerAndChain, CanSign
  <2>4. KeyCustody' /\ Ownership' /\ RunProgress' /\ SessionRows'
       /\ SplitterActive'
    BY DEF KeyCustody, Ownership, RunProgress, AfterApprove, AfterApproved,
           AfterActive, SessionRows, SplitterActive, StartedOnlyActive
  <2> QED BY <2>1, <2>2, <2>3, <2>4
<1>3. ASSUME Crash PROVE IInv'
  <2> USE <1>3 DEF IInv, TypeOK, RunTypeOK, WorldTypeOK, Crash
  <2>1. TypeOK'
    OBVIOUS
  <2>2. KeyCustody'
    BY DEF KeyCustody
  <2>3. Ownership'
    BY DEF Ownership
  <2>4. Untouched'
    BY DEF Untouched, BeforeApprove
  <2>5. RunProgress'
    BY DEF RunProgress, AfterApprove, AfterApproved, AfterActive
  <2>6. ServerAndChain' /\ SessionRows' /\ SplitterActive'
    BY DEF ServerAndChain, CanSign, SessionRows, SplitterActive,
           StartedOnlyActive
  <2> QED BY <2>1, <2>2, <2>3, <2>4, <2>5, <2>6
<1>4. ASSUME MineTransfer PROVE IInv'
  <2> USE <1>4 DEF IInv, TypeOK, RunTypeOK, WorldTypeOK, MineTransfer
  <2>1. TypeOK'
    <3>1. ASSUME NEW a \in Addr, fund' = [fund EXCEPT ![a] = "mined"]
          PROVE  fund' \in [Addr -> Transfer]
      BY <3>1
    <3>2. ASSUME NEW q \in Runs, mfund' = [mfund EXCEPT ![q] = "mined"]
          PROVE  mfund' \in [Runs -> Transfer]
      BY <3>2
    <3>3. fund' \in [Addr -> Transfer] /\ mfund' \in [Runs -> Transfer]
      BY <3>1, <3>2
    <3> QED BY <3>3
  <2>2. Untouched'
    BY DEF Untouched, BeforeApprove
  <2>3. ServerAndChain'
    BY DEF ServerAndChain, CanSign
  <2>4. KeyCustody' /\ Ownership' /\ RunProgress' /\ SessionRows'
       /\ SplitterActive'
    BY DEF KeyCustody, Ownership, RunProgress, AfterApprove, AfterApproved,
           AfterActive, SessionRows, SplitterActive, StartedOnlyActive
  <2> QED BY <2>1, <2>2, <2>3, <2>4
<1>5. ASSUME MineApprove PROVE IInv'
  <2> USE <1>5 DEF IInv, TypeOK, RunTypeOK, WorldTypeOK, MineApprove
  <2>1. TypeOK'
    OBVIOUS
  <2>2. Untouched'
    BY DEF Untouched, BeforeApprove
  <2>3. ServerAndChain'
    BY DEF ServerAndChain, CanSign
  <2>4. KeyCustody' /\ Ownership' /\ RunProgress' /\ SessionRows'
       /\ SplitterActive'
    BY DEF KeyCustody, Ownership, RunProgress, AfterApprove, AfterApproved,
           AfterActive, SessionRows, SplitterActive, StartedOnlyActive
  <2> QED BY <2>1, <2>2, <2>3, <2>4
<1>6. ASSUME MineAdd PROVE IInv'
  <2> USE <1>6 DEF IInv, TypeOK, RunTypeOK, WorldTypeOK, MineAdd
  <2>1. TypeOK'
    OBVIOUS
  <2>2. ServerAndChain'
    BY DEF ServerAndChain, CanSign
  <2>3. KeyCustody' /\ Ownership' /\ Untouched' /\ RunProgress'
       /\ SessionRows' /\ SplitterActive'
    BY DEF KeyCustody, Ownership, Untouched, BeforeApprove, RunProgress,
           AfterApprove, AfterApproved, AfterActive, SessionRows,
           SplitterActive, StartedOnlyActive
  <2> QED BY <2>1, <2>2, <2>3
<1>7. ASSUME ServerActivates PROVE IInv'
  <2> USE <1>7 DEF IInv, TypeOK, RunTypeOK, WorldTypeOK, ServerActivates
  <2>1. TypeOK'
    OBVIOUS
  <2>2. SplitterActive'
    BY DEF SplitterActive, StartedOnlyActive
  <2>3. KeyCustody' /\ Ownership' /\ Untouched' /\ ServerAndChain'
       /\ RunProgress' /\ SessionRows'
    BY DEF KeyCustody, Ownership, Untouched, BeforeApprove, ServerAndChain,
           CanSign, RunProgress, AfterApprove, AfterApproved, AfterActive,
           SessionRows
  <2> QED BY <2>1, <2>2, <2>3
<1>8. ASSUME NEW x \in Addr, ServerSees(x) PROVE IInv'
  <2>1. srv' \in [Addr -> 0 .. ACTIVE] /\ Advanced
    BY <1>8 DEF IInv, TypeOK, WorldTypeOK, ServerSees, Advanced
  <2>2. RunProgress' /\ Untouched'
    BY <1>8, <2>1, AdvancedProgress
    DEF IInv, ServerSees, RunProgress, AfterApproved, AfterActive, Untouched
  <2> USE <1>8 DEF IInv, TypeOK, RunTypeOK, WorldTypeOK, ServerSees
  <2>3. TypeOK'
    BY <2>1
  <2>4. ServerAndChain'
    <3>1. CASE srv' = [srv EXCEPT ![x] = APPROVED] /\ allow[x] = "mined"
                                                /\ srv[x] # ACTIVE
      BY <3>1 DEF ServerAndChain, CanSign
    <3>2. CASE srv' = [srv EXCEPT ![x] = ACTIVE] /\ x \in listed
      BY <3>2 DEF ServerAndChain, CanSign
    <3> QED BY <3>1, <3>2
  <2>5. KeyCustody' /\ Ownership' /\ SessionRows' /\ SplitterActive'
    BY DEF KeyCustody, Ownership, SessionRows, SplitterActive,
           StartedOnlyActive
  <2> QED BY <2>2, <2>3, <2>4, <2>5
<1> QED BY <1>1, <1>2, <1>3, <1>4, <1>5, <1>6, <1>7, <1>8

\* Every error return, lost answer and failed report preserves it.
LEMMA FailureKeeps ==
  ASSUME IInv, NEW r \in Runs
  PROVE  StepError(r) \/ VerifyBindLost(r) \/ KeygenError(r) \/ RegisterLost(r)
         \/ ApproveEnd(r) \/ SubmitApprove(r) \/ CommitAdd(r) => IInv'
<1>0. ASSUME UNCHANGED srv PROVE Advanced
  BY <1>0 DEF IInv, TypeOK, WorldTypeOK, Advanced
<1>1. ASSUME StepError(r) PROVE IInv'
  <2>1. /\ RunTypeOK' /\ KeyCustody' /\ Ownership' /\ Untouched'
        /\ RunProgress' /\ SessionRows' /\ SplitterActive'
    BY <1>0, <1>1, FailKeeps DEF StepError
  <2>2. WorldTypeOK' /\ ServerAndChain'
    BY <1>1 DEF StepError, IInv, TypeOK, WorldTypeOK, ServerAndChain, CanSign
  <2> QED BY <2>1, <2>2 DEF IInv, TypeOK
<1>2. ASSUME VerifyBindLost(r) PROVE IInv'
  <2>1. /\ RunTypeOK' /\ KeyCustody' /\ Ownership' /\ Untouched'
        /\ RunProgress' /\ SessionRows' /\ SplitterActive'
    BY <1>0, <1>2, AttemptFailedKeeps DEF VerifyBindLost
  <2>2. WorldTypeOK' /\ ServerAndChain'
    BY <1>2 DEF VerifyBindLost, IInv, TypeOK, WorldTypeOK, ServerAndChain,
                CanSign
  <2> QED BY <2>1, <2>2 DEF IInv, TypeOK
<1>3. ASSUME KeygenError(r) PROVE IInv'
  <2>1. /\ RunTypeOK' /\ KeyCustody' /\ Ownership' /\ Untouched'
        /\ RunProgress' /\ SessionRows' /\ SplitterActive'
    BY <1>0, <1>3, AttemptFailedKeeps DEF KeygenError
  <2>2. WorldTypeOK' /\ ServerAndChain'
    BY <1>3 DEF KeygenError, IInv, TypeOK, WorldTypeOK, ServerAndChain, CanSign
  <2> QED BY <2>1, <2>2 DEF IInv, TypeOK
<1>4. ASSUME RegisterLost(r) PROVE IInv'
  <2>1. cur[r] \in Addr /\ cur[r] \in keyFrom /\ cur[r] \in pubKey
    BY <1>4 DEF IInv, TypeOK, RunTypeOK, KeyCustody, RegisterLost
  <2>2. srv' \in [Addr -> 0 .. ACTIVE] /\ Advanced
    BY <1>4, <2>1, RegistrationAdvances DEF IInv, TypeOK, RegisterLost
  <2>3. ServerAndChain'
    BY <1>4, <2>1, RegistrationOrder DEF RegisterLost, CanSign
  <2>4. /\ RunTypeOK' /\ KeyCustody' /\ Ownership' /\ Untouched'
        /\ RunProgress' /\ SessionRows' /\ SplitterActive'
    BY <1>4, <2>2, AttemptFailedKeeps DEF RegisterLost
  <2>5. WorldTypeOK'
    BY <1>4, <2>2 DEF RegisterLost, IInv, TypeOK, WorldTypeOK
  <2> QED BY <2>3, <2>4, <2>5 DEF IInv, TypeOK
<1>5. ASSUME ApproveEnd(r) PROVE IInv'
  <2>1. CASE approved[r] = {}
    <3>1. /\ RunTypeOK' /\ KeyCustody' /\ Ownership' /\ Untouched'
          /\ RunProgress' /\ SessionRows' /\ SplitterActive'
      BY <1>0, <1>5, <2>1, FailKeeps DEF ApproveEnd
    <3>2. WorldTypeOK' /\ ServerAndChain'
      BY <1>5
      DEF ApproveEnd, IInv, TypeOK, WorldTypeOK, ServerAndChain, CanSign
    <3> QED BY <3>1, <3>2 DEF IInv, TypeOK
  <2>2. CASE approved[r] # {}
    <3> USE <1>5, <2>2 DEF ApproveEnd, IInv, TypeOK, RunTypeOK, WorldTypeOK
    <3>1. TypeOK'
      OBVIOUS
    <3>2. KeyCustody' /\ Ownership' /\ Untouched' /\ ServerAndChain'
      BY DEF KeyCustody, Ownership, Untouched, BeforeApprove, ServerAndChain,
             CanSign
    <3>3. RunProgress'
      BY DEF RunProgress, AfterApprove, AfterApproved, AfterActive
    <3>4. SessionRows' /\ SplitterActive'
      BY DEF SessionRows, SplitterActive, StartedOnlyActive
    <3> QED BY <3>1, <3>2, <3>3, <3>4
  <2> QED BY <2>1, <2>2
<1>6. ASSUME SubmitApprove(r) \/ CommitAdd(r) PROVE IInv'
  <2>1. approved[r] \in SUBSET Addr
    BY DEF IInv, TypeOK, RunTypeOK
  <2>2. srv' \in [Addr -> 0 .. ACTIVE] /\ Advanced
    <3>1. CASE SubmitApprove(r)
      BY <2>1, <3>1, ReportAdvances DEF IInv, TypeOK, SubmitApprove
    <3>2. CASE CommitAdd(r)
      BY <2>1, <3>2, ReportAdvances DEF IInv, TypeOK, CommitAdd
    <3> QED BY <1>6, <3>1, <3>2
  <2>3. UNCHANGED <<keyVars, splitVars, gasVars, chainVars, mpc>>
    BY <1>6 DEF SubmitApprove, CommitAdd
  <2>4. WorldTypeOK'
    BY <2>2, <2>3 DEF IInv, TypeOK, WorldTypeOK
  <2>5. ServerAndChain'
    BY <1>6, <2>1, <2>3, ReportOrder DEF SubmitApprove, CommitAdd
  <2>6. /\ RunTypeOK' /\ KeyCustody' /\ Ownership' /\ Untouched'
        /\ RunProgress' /\ SessionRows' /\ SplitterActive'
    <3>1. CASE Fail(r)
      BY <1>6, <2>2, <2>3, <3>1, FailKeeps DEF SubmitApprove, CommitAdd
    <3>2. CASE ~Fail(r)
      <4> DEFINE next == IF pc[r] = "report" THEN "pollApproved"
                                             ELSE "pollActive"
      <4>1. /\ pc[r] \in {"report", "commit"}
            /\ pc' = [pc EXCEPT ![r] = next]
            /\ UNCHANGED <<attempt, cur, addrs, todo, approved, sessVars>>
        BY <1>6, <3>2 DEF SubmitApprove, CommitAdd
      <4> USE <4>1 DEF IInv, TypeOK, RunTypeOK
      <4>2. RunTypeOK'
        OBVIOUS
      <4>3. KeyCustody' /\ Ownership'
        BY <2>3 DEF KeyCustody, Ownership
      <4>4. Untouched' /\ RunProgress'
        BY <2>2, <2>3, AdvancedProgress
        DEF Untouched, BeforeApprove, RunProgress, AfterApprove, AfterApproved,
            AfterActive
      <4>5. SessionRows' /\ SplitterActive'
        BY <2>3 DEF SessionRows, SplitterActive, StartedOnlyActive
      <4> QED BY <4>2, <4>3, <4>4, <4>5
    <3> QED BY <3>1, <3>2
  <2> QED BY <2>4, <2>5, <2>6 DEF IInv, TypeOK
<1> QED BY <1>1, <1>2, <1>3, <1>4, <1>5, <1>6

\* A step that changes nothing preserves it.
LEMMA StutterKeeps == IInv /\ UNCHANGED vars => IInv'
BY DEF vars, IInv, TypeOK, RunTypeOK, WorldTypeOK, KeyCustody, Ownership,
       Untouched, BeforeApprove, ServerAndChain, CanSign, RunProgress,
       AfterApprove, AfterApproved, AfterActive, SessionRows, SplitterActive,
       StartedOnlyActive

\* The invariant holds before the first click.
LEMMA InitEstablishes == Init => IInv
<1> SUFFICES ASSUME Init PROVE IInv
  OBVIOUS
<1> USE DEF Init
<1>1. RunTypeOK
  BY DEF RunTypeOK
<1>2. WorldTypeOK
  <2>1. srv \in [Addr -> 0 .. ACTIVE]
    OBVIOUS
  <2>2. fund \in [Addr -> Transfer] /\ mfund \in [Runs -> Transfer]
    OBVIOUS
  <2>3. allow \in [Addr -> {"none", "sent", "mined"}]
    OBVIOUS
  <2>4. adding \in [Runs -> SUBSET Addr]
    OBVIOUS
  <2> QED BY <2>1, <2>2, <2>3, <2>4 DEF WorldTypeOK
<1>3. KeyCustody /\ Ownership /\ Untouched
  BY DEF KeyCustody, Ownership, Untouched
<1>4. ServerAndChain
  BY DEF ServerAndChain
<1>5. RunProgress /\ SessionRows /\ SplitterActive
  BY DEF RunProgress, AfterApprove, AfterApproved, AfterActive, SessionRows,
         SplitterActive, StartedOnlyActive
<1> QED BY <1>1, <1>2, <1>3, <1>4, <1>5 DEF IInv, TypeOK

\* Every step of every run, of the chain and the servers, and every crash,
\* preserves the invariant.
THEOREM Inductive == IInv /\ [Next]_vars => IInv'
<1>1. ASSUME IInv, NEW r \in Runs, RunStep(r) PROVE IInv'
  BY <1>1, CheckKeeps, EntryKeeps, KeygenKeeps, FundKeeps, ApproveKeeps, AddKeeps,
     SweepKeeps, FailureKeeps DEF RunStep
<1>2. ASSUME IInv, Environment PROVE IInv'
  BY <1>2, EnvironmentKeeps DEF Environment
<1> QED BY <1>1, <1>2, StutterKeeps DEF Next

\* The inductive invariant holds in every reachable state.
THEOREM Invariance == Spec => []IInv
BY InitEstablishes, Inductive, PTL DEF Spec

\* Every variable keeps its type.
THEOREM TypeCorrect == Spec => []TypeOK
<1>1. IInv => TypeOK
  BY DEF IInv
<1> QED BY <1>1, Invariance, PTL

\* The payment server never learns of an address that cannot be signed for.
THEOREM RegisteredAreSignable == Spec => []RegisteredSignable
<1>1. IInv => RegisteredSignable
  BY DEF IInv, ServerAndChain, RegisteredSignable
<1> QED BY <1>1, Invariance, PTL

\* Gas is only sent to registered addresses that can be signed for.
THEOREM GasIsRecoverable == Spec => []GasRecoverable
<1>1. IInv => GasRecoverable
  BY DEF IInv, ServerAndChain, GasRecoverable
<1> QED BY <1>1, Invariance, PTL

\* The contract lists only receipts with a mined allowance that the server had
\* confirmed.
THEOREM ListedAreBacked == Spec => []ListedBacked
<1>1. IInv => ListedBacked
  BY DEF IInv, TypeOK, WorldTypeOK, ServerAndChain, ListedBacked
<1> QED BY <1>1, Invariance, PTL

\* No sweep takes the gas of a receipt that is not yet listed.
THEOREM OnlyListedAreSwept == Spec => []SweptOnlyListed
<1>1. IInv => SweptOnlyListed
  BY DEF IInv, ServerAndChain, SweptOnlyListed
<1> QED BY <1>1, Invariance, PTL

\* A run that reports success has receipts, all of them ACTIVE and listed.
THEOREM DoneIsActive == Spec => []DoneMeansActive
<1>1. IInv => DoneMeansActive
  <2> SUFFICES ASSUME IInv, NEW r \in Runs, pc[r] = "done"
               PROVE  /\ approved[r] # {}
                      /\ \A a \in approved[r] : srv[a] = ACTIVE /\ a \in listed
    BY DEF DoneMeansActive
  <2>1. approved[r] # {} /\ \A a \in approved[r] : srv[a] = ACTIVE
    BY DEF IInv, RunProgress, AfterApprove, AfterApproved, AfterActive
  <2>2. approved[r] \subseteq Addr
    BY DEF IInv, TypeOK, RunTypeOK
  <2> QED BY <2>1, <2>2 DEF IInv, ServerAndChain
<1> QED BY <1>1, Invariance, PTL

\* No session is opened on a splitter the server had not activated, whatever
\* the interleaving of first readings, answers, writes and second readings.
THEOREM OnlyActiveStarts == Spec => []StartedOnlyActive
<1>1. IInv => StartedOnlyActive
  BY DEF IInv, SplitterActive
<1> QED BY <1>1, Invariance, PTL

\* The row a run works on is marked failed by its own failure only.
THEOREM FailuresAreOwn == Spec => []FailureIsOwn
<1>1. IInv => FailureIsOwn
  BY DEF IInv, SessionRows, FailureIsOwn
<1> QED BY <1>1, Invariance, PTL

-----------------------------------------------------------------------------
(* BatchSetup implements ReceiptLifecycle: each step of a run, of the chain  *)
(* or of the servers takes some receipt addresses one rung up the ladder, or *)
(* leaves all of them where they are.                                        *)

\* A step that moves one address one rung up is a climb.
LEMMA OneRung ==
  ASSUME NEW a \in Addr, Rung(a) \in 0 .. 8, Rung(a)' = Rung(a) + 1,
         \A b \in Addr \ {a} : Rung(b)' = Rung(b)
  PROVE  Lifecycle!Next
<1>1. Lifecycle!Climb({a}, Rung(a))
  BY DEF Lifecycle!Climb, Lifecycle!Active, Stage
<1> QED BY <1>1 DEF Lifecycle!Next, Lifecycle!Active

\* A step that moves no rung is a stutter.
LEMMA SameRungs ==
  ASSUME \A a \in Addr : Rung(a)' = Rung(a)
  PROVE  UNCHANGED Stage
BY DEF Stage

\* A rung depends only on how far each part of the state has come.
LEMMA Silent ==
  ASSUME IInv, UNCHANGED <<keyVars, listed, mpc>>,
         \A a \in Addr : /\ fund'[a] # "none" <=> fund[a] # "none"
                         /\ allow'[a] # "none" <=> allow[a] # "none"
                         /\ srv'[a] >= GENERATED <=> srv[a] >= GENERATED
                         /\ srv'[a] >= APPROVED <=> srv[a] >= APPROVED
                         /\ srv'[a] = ACTIVE <=> srv[a] = ACTIVE
  PROVE  UNCHANGED Stage
BY SameRungs DEF Rung, keyVars

\* A keygen step takes its address one rung, or repeats what is done.
LEMMA KeygenClimbs ==
  ASSUME IInv, NEW r \in Runs,
         VerifyBind(r) \/ VerifyBindLost(r) \/ SetKeyFrom(r) \/ SetPubKey(r)
         \/ Register(r) \/ RegisterLost(r)
  PROVE  Lifecycle!Next \/ UNCHANGED Stage
<1>1. CASE VerifyBind(r) \/ VerifyBindLost(r)
  <2>1. PICK a \in Addr \ mpc : mpc' = mpc \cup {a}
    BY <1>1 DEF VerifyBind, VerifyBindLost
  <2>2. UNCHANGED <<keyFrom, pubKey, fund, allow, listed, srv>>
    BY <1>1 DEF VerifyBind, VerifyBindLost
  <2>3. Rung(a) = 0 /\ Rung(a)' = 1
    BY <2>1, <2>2
    DEF IInv, TypeOK, WorldTypeOK, KeyCustody, ServerAndChain, CanSign, Rung
  <2>4. \A b \in Addr \ {a} : Rung(b)' = Rung(b)
    BY <2>1, <2>2 DEF Rung
  <2> QED BY <2>3, <2>4, OneRung
<1>2. CASE SetKeyFrom(r)
  <2>1. PICK c \in mpc : c \in Addr /\ c = cur[r]
    BY <1>2 DEF SetKeyFrom, IInv, TypeOK, RunTypeOK, KeyCustody
  <2>2. /\ UNCHANGED <<mpc, pubKey, fund, allow, listed, srv>>
        /\ keyFrom' = keyFrom \cup {c}
    BY <1>2, <2>1 DEF SetKeyFrom
  <2>3. \A b \in Addr \ {c} : Rung(b)' = Rung(b)
    BY <2>2 DEF Rung
  <2>4. CASE c \in keyFrom
    BY <2>1, <2>2, <2>4, SameRungs DEF Rung
  <2>5. CASE c \notin keyFrom
    <3>1. Rung(c) = 1 /\ Rung(c)' = 2
      BY <2>1, <2>2, <2>5
      DEF IInv, TypeOK, WorldTypeOK, KeyCustody, ServerAndChain, CanSign, Rung
    <3> QED BY <2>1, <2>3, <3>1, OneRung
  <2> QED BY <2>4, <2>5
<1>3. CASE SetPubKey(r)
  <2>1. PICK c \in keyFrom : c \in Addr /\ c = cur[r]
    BY <1>3 DEF SetPubKey, IInv, TypeOK, RunTypeOK, KeyCustody
  <2>2. /\ UNCHANGED <<mpc, keyFrom, fund, allow, listed, srv>>
        /\ pubKey' = pubKey \cup {c}
    BY <1>3, <2>1 DEF SetPubKey
  <2>3. \A b \in Addr \ {c} : Rung(b)' = Rung(b)
    BY <2>2 DEF Rung
  <2>4. CASE c \in pubKey
    BY <2>1, <2>2, <2>4, SameRungs DEF Rung
  <2>5. CASE c \notin pubKey
    <3>1. Rung(c) = 2 /\ Rung(c)' = 3
      BY <2>1, <2>2, <2>5
      DEF IInv, TypeOK, WorldTypeOK, ServerAndChain, CanSign, Rung
    <3> QED BY <2>1, <2>3, <3>1, OneRung
  <2> QED BY <2>4, <2>5
<1>4. CASE Register(r) \/ RegisterLost(r)
  <2>1. PICK c \in pubKey : c \in Addr /\ c = cur[r]
    BY <1>4 DEF Register, RegisterLost, IInv, TypeOK, RunTypeOK, KeyCustody
  <2>2. /\ UNCHANGED <<mpc, keyFrom, pubKey, fund, allow, listed>>
        /\ ServerRegisters(c)
    BY <1>4, <2>1 DEF Register, RegisterLost
  <2>3. srv \in [Addr -> 0 .. ACTIVE]
    BY DEF IInv, TypeOK, WorldTypeOK
  <2>4. CASE srv[c] >= GENERATED
    <3>1. srv' = srv
      BY <2>1, <2>2, <2>3, <2>4 DEF ServerRegisters
    <3> QED BY <2>2, <3>1, SameRungs DEF Rung
  <2>5. CASE ~(srv[c] >= GENERATED)
    <3>1. srv[c] = 0
      BY <2>1, <2>3, <2>5
    <3>2. srv' = [srv EXCEPT ![c] = GENERATED]
      BY <2>2, <3>1 DEF ServerRegisters
    <3>3. Rung(c) = 3 /\ Rung(c)' = 4
      BY <2>1, <2>2, <2>3, <3>1, <3>2 DEF IInv, ServerAndChain, Rung
    <3>4. \A b \in Addr \ {c} : Rung(b)' = Rung(b)
      BY <2>2, <2>3, <3>2 DEF Rung
    <3> QED BY <2>1, <3>3, <3>4, OneRung
  <2> QED BY <2>4, <2>5
<1> QED BY <1>1, <1>2, <1>3, <1>4

\* A funding or an approve broadcast takes its receipt one rung, an approve
\* that was not broadcast none.
LEMMA GasClimbs ==
  ASSUME IInv, NEW r \in Runs,
         FundReceipt(r) \/ ApproveOne(r) \/ ApproveSkip(r)
  PROVE  Lifecycle!Next \/ UNCHANGED Stage
<1>1. CASE FundReceipt(r)
  <2>1. PICK a \in addrs[r] : /\ fund[a] = "none"
                              /\ fund' = [fund EXCEPT ![a] = "sent"]
    BY <1>1 DEF FundReceipt
  <2>2. UNCHANGED <<mpc, keyFrom, pubKey, allow, listed, srv>>
    BY <1>1 DEF FundReceipt
  <2>3. a \in Addr /\ srv[a] >= GENERATED
    BY DEF IInv, TypeOK, RunTypeOK, Untouched
  <2>4. Rung(a) = 4 /\ Rung(a)' = 5
    BY <2>1, <2>2, <2>3 DEF IInv, TypeOK, WorldTypeOK, ServerAndChain, Rung
  <2>5. \A b \in Addr \ {a} : Rung(b)' = Rung(b)
    BY <2>1, <2>2 DEF IInv, TypeOK, WorldTypeOK, Rung
  <2> QED BY <2>3, <2>4, <2>5, OneRung
<1>0. UNCHANGED <<mpc, keyFrom, pubKey, fund, allow, listed, srv>>
      => UNCHANGED Stage
  BY SameRungs DEF Rung
<1>2. CASE (ApproveOne(r) \/ ApproveSkip(r)) /\ allow' # allow
  <2>1. PICK a \in todo[r] : HasGas(a) /\ allow' = [allow EXCEPT ![a] = "sent"]
    BY <1>2 DEF ApproveOne, ApproveSkip
  <2>2. UNCHANGED <<mpc, keyFrom, pubKey, fund, listed, srv>>
    BY <1>2 DEF ApproveOne, ApproveSkip
  <2>3. a \in Addr /\ allow[a] = "none"
    BY DEF IInv, TypeOK, RunTypeOK, Untouched
  <2>4. Rung(a) = 5 /\ Rung(a)' = 6
    BY <2>1, <2>2, <2>3
    DEF IInv, TypeOK, WorldTypeOK, ServerAndChain, Rung, HasGas
  <2>5. \A b \in Addr \ {a} : Rung(b)' = Rung(b)
    BY <2>1, <2>2 DEF IInv, TypeOK, WorldTypeOK, Rung
  <2> QED BY <2>3, <2>4, <2>5, OneRung
<1> QED BY <1>0, <1>1, <1>2 DEF ApproveOne, ApproveSkip

\* The server following the chain takes the receipt one rung.
LEMMA ServerClimbs ==
  ASSUME IInv, NEW a \in Addr, ServerSees(a)
  PROVE  Lifecycle!Next
<1>1. UNCHANGED <<mpc, keyFrom, pubKey, fund, allow, listed>>
  BY DEF ServerSees
<1>2. srv \in [Addr -> 0 .. ACTIVE]
  BY DEF IInv, TypeOK, WorldTypeOK
<1>3. \A b \in Addr \ {a} : Rung(b)' = Rung(b)
  BY <1>1, <1>2 DEF ServerSees, Rung
<1>4. CASE srv[a] \in {GENERATED, APPROVE_BROADCAST} /\ allow[a] = "mined"
           /\ srv' = [srv EXCEPT ![a] = APPROVED]
  <2>1. Rung(a) = 6 /\ Rung(a)' = 7
    BY <1>1, <1>2, <1>4 DEF IInv, ServerAndChain, Rung
  <2> QED BY <1>3, <2>1, OneRung
<1>5. CASE srv[a] \in {APPROVED, ADDING} /\ a \in listed
           /\ srv' = [srv EXCEPT ![a] = ACTIVE]
  <2>1. Rung(a) = 8 /\ Rung(a)' = 9
    BY <1>1, <1>2, <1>5 DEF Rung
  <2> QED BY <1>3, <2>1, OneRung
<1> QED BY <1>4, <1>5 DEF ServerSees

\* addReceiptWallets takes its receipts that are not yet listed one rung,
\* all at once; a revert takes none.
LEMMA AddClimbs ==
  ASSUME IInv, MineAdd
  PROVE  Lifecycle!Next \/ UNCHANGED Stage
<1>1. UNCHANGED <<mpc, keyFrom, pubKey, fund, allow, srv>>
  BY DEF MineAdd
<1>2. CASE UNCHANGED listed
  BY <1>1, <1>2, SameRungs DEF Rung
<1>3. ASSUME NEW q \in Runs, listed' = listed \cup adding[q]
      PROVE  Lifecycle!Next
  <2> DEFINE group == adding[q] \ listed
  <2>1. group \in SUBSET Addr
    BY DEF IInv, TypeOK, WorldTypeOK
  <2>2. \A b \in group : Rung(b) = 7 /\ Rung(b)' = 8
    BY <1>1, <1>3, <2>1 DEF IInv, ServerAndChain, Rung
  <2>3. \A b \in Addr \ group : Rung(b)' = Rung(b)
    BY <1>1, <1>3 DEF Rung
  <2>4. Lifecycle!Climb(group, 7)
    BY <2>1, <2>2, <2>3 DEF Lifecycle!Climb, Lifecycle!Active, Stage
  <2> QED BY <2>1, <2>4 DEF Lifecycle!Next, Lifecycle!Active
<1> QED BY <1>2, <1>3 DEF MineAdd

\* The reports of transactions move no rung: the server only relies on the
\* chain.
LEMMA ReportIsSilent ==
  ASSUME IInv, NEW r \in Runs, SubmitApprove(r) \/ CommitAdd(r)
  PROVE  UNCHANGED Stage
<1>1. UNCHANGED <<keyVars, listed, mpc, fund, allow>>
  BY DEF SubmitApprove, CommitAdd
<1>2. \A a \in Addr : /\ srv'[a] >= GENERATED <=> srv[a] >= GENERATED
                      /\ srv'[a] >= APPROVED <=> srv[a] >= APPROVED
                      /\ srv'[a] = ACTIVE <=> srv[a] = ACTIVE
  BY DEF IInv, TypeOK, WorldTypeOK, SubmitApprove, CommitAdd, ServerAdvances
<1> QED BY <1>1, <1>2, Silent

\* A sweep moves no rung: the transfer it takes back has been made.
LEMMA SweepIsSilent ==
  ASSUME IInv, NEW group \in SUBSET Addr, \A a \in group : HasGas(a),
         SweepReceipts(group), UNCHANGED <<keyVars, allow, listed, serverVars>>
  PROVE  UNCHANGED Stage
BY Silent DEF IInv, TypeOK, WorldTypeOK, SweepReceipts, HasGas, serverVars

\* Every step of the batch set-up is a climb or a stutter.
LEMMA StepRefines ==
  ASSUME IInv, [Next]_vars
  PROVE  [Lifecycle!Next]_Stage
<1> DEFINE still == UNCHANGED <<keyVars, listed, serverVars, fund, allow>>
<1>0. ASSUME still PROVE UNCHANGED Stage
  BY <1>0, SameRungs DEF Rung
<1>1. ASSUME NEW r \in Runs, RunStep(r) PROVE Lifecycle!Next \/ UNCHANGED Stage
  <2>1. CASE \/ VerifyBind(r) \/ VerifyBindLost(r) \/ SetKeyFrom(r)
             \/ SetPubKey(r) \/ Register(r) \/ RegisterLost(r)
    BY <2>1, KeygenClimbs
  <2>2. CASE FundReceipt(r) \/ ApproveOne(r) \/ ApproveSkip(r)
    BY <2>2, GasClimbs
  <2>3. CASE SubmitApprove(r) \/ CommitAdd(r)
    BY <2>3, ReportIsSilent
  <2>4. CASE SweepApproved(r)
    <3>1. PICK group \in SUBSET { a \in approved[r] :
                                    HasGas(a) /\ CanSign(a) } :
            SweepReceipts(group)
      BY <2>4 DEF SweepApproved
    <3>2. group \in SUBSET Addr
      BY DEF IInv, TypeOK, RunTypeOK
    <3> QED BY <2>4, <3>1, <3>2, SweepIsSilent DEF SweepApproved
  <2>5. CASE \/ Begin(r) \/ RefreshAnswered(r) \/ StoreSplit(r) \/ Reread(r)
             \/ Reject(r) \/ OpenSession(r) \/ Precheck(r) \/ StepError(r)
             \/ KeygenError(r)
    BY <2>5, <1>0 DEF Begin, RefreshAnswered, StoreSplit, Reread, Reject,
                      OpenSession, Precheck, StepError, KeygenError
  <2>6. CASE FundManager(r) \/ FundConfirmed(r) \/ ApproveEnd(r)
             \/ PollApproved(r)
    BY <2>6, <1>0
    DEF FundManager, FundConfirmed, ApproveEnd, PollApproved
  <2>7. CASE AddReceiptWallets(r) \/ AddConfirmed(r) \/ PollActive(r)
             \/ Finish(r)
    BY <2>7, <1>0 DEF AddReceiptWallets, AddConfirmed, PollActive, Finish
  <2> QED BY <1>1, <2>1, <2>2, <2>3, <2>4, <2>5, <2>6, <2>7 DEF RunStep
<1>2. ASSUME Environment PROVE Lifecycle!Next \/ UNCHANGED Stage
  <2>1. CASE \E a \in Addr : ServerSees(a)
    BY <2>1, ServerClimbs
  <2>2. CASE \E a \in Addr : SweepGasReceipt(a)
    <3>1. PICK a \in Addr : SweepGasReceipt(a)
      BY <2>2
    <3> QED BY <3>1, SweepIsSilent DEF SweepGasReceipt
  <2>3. CASE MineAdd
    BY <2>3, AddClimbs
  <2>4. CASE MineTransfer
    BY <2>4, Silent DEF MineTransfer, IInv, TypeOK, WorldTypeOK
  <2>5. CASE MineApprove
    BY <2>5, Silent DEF MineApprove, IInv, TypeOK, WorldTypeOK
  <2>6. CASE Crash \/ ServerActivates \/ SweepGasManager
    BY <2>6, <1>0 DEF Crash, ServerActivates, SweepGasManager
  <2> QED BY <1>2, <2>1, <2>2, <2>3, <2>4, <2>5, <2>6 DEF Environment
<1>3. CASE UNCHANGED vars
  BY <1>0, <1>3 DEF vars
<1> QED BY <1>1, <1>2, <1>3 DEF Next

\* Before the first click every address stands on the lowest rung.
LEMMA InitRefines == Init => Lifecycle!Init
BY DEF Init, Lifecycle!Init, Lifecycle!Unborn, Stage, Rung

\* The batch set-up implements the ladder of ReceiptLifecycle: whatever the
\* interleaving of runs, sweeps, crashes, chain and server, no receipt address
\* ever skips a rung or takes one back.
THEOREM Refinement == Spec => ImplementsLifecycle
BY InitRefines, StepRefines, Invariance, PTL
   DEF Spec, ImplementsLifecycle, Lifecycle!Spec
=============================================================================
