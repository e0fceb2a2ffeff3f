------------------------ MODULE WalletContextProofs ------------------------
(***************************************************************************)
(* What WalletContext promises for all wallets and chains, and the         *)
(* operations of ContextReaders that work beside it.                       *)
(***************************************************************************)
EXTENDS ContextReaders, TLAPS

USE WalletAssumption DEF WalletAssumption, Wallets, Chains, TypeOf, ChainType,
  NoContext, Steps, dbVars

LEMMA InitIInv == Init => IInv
<1> SUFFICES ASSUME Init PROVE IInv
  OBVIOUS
<1> USE DEF Init
<1>1. TypeOK BY DEF TypeOK
<1>2. OneDefault /\ Started BY DEF OneDefault, Started
<1>3. ChainLoaded /\ TargetIsDefault BY DEF ChainLoaded, TargetIsDefault
<1>4. PickIsDefault /\ WalletLoaded BY DEF PickIsDefault, WalletLoaded
<1> QED BY <1>1, <1>2, <1>3, <1>4 DEF IInv

\* Every wallet looked up for a type is a saved one of the type; the default
\* wallet of the type is the one that is found.
LEMMA DefaultWalletFound ==
  ASSUME TypeOK, OneDefault, NEW type, NEW w \in DefaultWallet(type)
  PROVE  /\ w \in saved
         /\ TypeOf(w) = type
         /\ \A v \in isDefault : TypeOf(v) = type => w = v
BY DEF TypeOK, OneDefault, DefaultWallet, OfType

\* A sole default of the type is all that is found.
LEMMA SoleDefault ==
  ASSUME NEW w \in saved, isDefault = {w}
  PROVE  DefaultWallet(TypeOf(w)) = {w}
BY DEF DefaultWallet, OfType

\* Types: every action writes values of the variable's range.
LEMMA StepType == TypeOK /\ OneDefault /\ [Next]_vars => TypeOK'
<1> SUFFICES ASSUME TypeOK, OneDefault, [Next]_vars PROVE TypeOK'
  OBVIOUS
<1> USE DEF TypeOK
<1>1. CASE Login BY <1>1 DEF Login
<1>2. CASE Load BY <1>2 DEF Load
<1>3. CASE PickNone BY <1>3 DEF PickNone, Return
<1>4. CASE Pick
  <2> PICK w \in DefaultWallet(ctx.type) :
        /\ target' = w
        /\ isDefault' = isDefault \/ isDefault' = {w}
    BY <1>4 DEF Pick, SetDefaultAddr
  <2> QED BY <1>4, DefaultWalletFound DEF Pick
<1>5. CASE Assign BY <1>5 DEF Assign
<1>6. CASE LoadAssign BY <1>6 DEF LoadAssign, Return
<1>7. CASE WalletChain BY <1>7 DEF WalletChain, DefaultChain
<1>8. CASE WalletAssign BY <1>8 DEF WalletAssign
<1>9. CASE StepError \/ SwallowedError BY <1>9 DEF StepError, SwallowedError
<1>10. CASE Crash BY <1>10 DEF Crash
<1>11. ASSUME NEW c \in Chains, SetDefaultChain(c) PROVE TypeOK'
  BY <1>11 DEF SetDefaultChain
<1>12. ASSUME NEW w \in Wallets, SetDefaultWallet(w) PROVE TypeOK'
  BY <1>12 DEF SetDefaultWallet, SetDefaultAddr
<1>13. ASSUME NEW w \in Wallets, ImportWallet(w) PROVE TypeOK'
  BY <1>13 DEF ImportWallet
<1>14. CASE UNCHANGED vars BY <1>14 DEF vars
<1> QED
  BY <1>1, <1>2, <1>3, <1>4, <1>5, <1>6, <1>7, <1>8, <1>9, <1>10, <1>11,
     <1>12, <1>13, <1>14 DEF Next

\* The rest of the invariant; the wallet that Pick finds is where it all hangs.
LEMMA StepInvariant == IInv /\ [Next]_vars => IInv'
<1> SUFFICES ASSUME IInv, [Next]_vars PROVE IInv'
  OBVIOUS
<1>0. TypeOK' BY StepType DEF IInv
<1> DEFINE Rest == OneDefault /\ Started /\ ChainLoaded /\ TargetIsDefault
                   /\ PickIsDefault /\ WalletLoaded
<1> SUFFICES Rest' BY <1>0 DEF IInv
<1> USE DEF IInv, TypeOK, OneDefault, Started, ChainLoaded, TargetIsDefault,
            PickIsDefault, WalletLoaded
<1>1. CASE Login BY <1>1 DEF Login
<1>2. CASE Load BY <1>2 DEF Load
<1>3. CASE PickNone
  BY <1>3 DEF PickNone, Return, DefaultWallet, OfType
<1>4. CASE Pick
  <2>1. PICK w \in DefaultWallet(ctx.type) :
          /\ target' = w
          /\ \/ w \in isDefault /\ UNCHANGED isDefault
             \/ w \notin isDefault /\ isDefault' = {w}
    BY <1>4 DEF Pick, SetDefaultAddr
  <2>2. /\ w \in saved
        /\ TypeOf(w) = ctx.type
        /\ \A v \in isDefault : TypeOf(v) = ctx.type => w = v
    BY <2>1, DefaultWalletFound
  <2>3. isDefault' = {w} BY <2>1
  <2>4. ctx.type = ChainType(chain) BY <1>4 DEF Pick
  <2>5. picked # NoWallet => w = picked BY <2>2, <2>4
  <2> QED BY <1>4, <2>1, <2>2, <2>3, <2>4, <2>5 DEF Pick
<1>5. CASE Assign BY <1>5 DEF Assign
<1>6. CASE LoadAssign
  <2>1. target \in saved /\ isDefault = {target} BY <1>6 DEF LoadAssign
  <2>2. DefaultWallet(TypeOf(target)) = {target} BY <2>1, SoleDefault
  <2>3. (DefaultWallet(ctx.type))' = {target}
    BY <1>6, <2>2 DEF LoadAssign, DefaultWallet, OfType
  <2> QED BY <1>6, <2>3 DEF LoadAssign, Return
<1>7. CASE WalletChain BY <1>7 DEF WalletChain, DefaultChain
<1>8. CASE WalletAssign BY <1>8 DEF WalletAssign
<1>9. CASE StepError \/ SwallowedError BY <1>9 DEF StepError, SwallowedError
<1>10. CASE Crash BY <1>10 DEF Crash
<1>11. ASSUME NEW c \in Chains, SetDefaultChain(c) PROVE Rest'
  BY <1>11 DEF SetDefaultChain
<1>12. ASSUME NEW w \in Wallets, SetDefaultWallet(w) PROVE Rest'
  BY <1>12 DEF SetDefaultWallet, SetDefaultAddr
<1>13. ASSUME NEW w \in Wallets, ImportWallet(w) PROVE Rest'
  BY <1>13 DEF ImportWallet
<1>14. CASE UNCHANGED vars
  BY <1>14 DEF vars, DefaultWallet, OfType
<1> QED
  BY <1>1, <1>2, <1>3, <1>4, <1>5, <1>6, <1>7, <1>8, <1>9, <1>10, <1>11,
     <1>12, <1>13, <1>14 DEF Next

\* The inductive invariant holds in every reachable state of wallet_mgr.go,
\* whatever the wallets and chains.
THEOREM WalletInvariance == Spec => []IInv
BY InitIInv, StepInvariant, PTL DEF Spec

\* Type correctness of keys.db's defaults and of the context.
THEOREM WalletTypeCorrect == Spec => []TypeOK
<1>1. IInv => TypeOK BY DEF IInv
<1> QED BY <1>1, WalletInvariance, PTL

\* After every operation the context holds the stored chain, and after one that
\* met no error the wallet a restart would load (InitContext).
THEOREM ContextIsDurable == Spec => []MemoryIsDurable
<1>1. IInv => MemoryIsDurable
  BY DEF IInv, Started, ChainLoaded, WalletLoaded, MemoryIsDurable
<1> QED BY <1>1, WalletInvariance, PTL

\* The wallet the user has picked stays in use, across imports, chains of the
\* same type, errors and restarts (SetDefaultWallet).
THEOREM PickedWalletStays == Spec => []PickSurvives
<1>1. ASSUME IInv, at = "idle", ok, picked # NoWallet PROVE ctx.addr = picked
  <2>1. ctx.type = TypeOf(picked)
    BY <1>1 DEF IInv, Started, ChainLoaded, PickIsDefault
  <2>2. picked \in saved /\ isDefault = {picked}
    BY <1>1 DEF IInv, OneDefault, PickIsDefault
  <2>3. DefaultWallet(ctx.type) = {picked} BY <2>1, <2>2, SoleDefault
  <2> QED BY <1>1, <2>3 DEF IInv, WalletLoaded
<1>2. IInv => PickSurvives BY <1>1 DEF PickSurvives
<1> QED BY <1>2, WalletInvariance, PTL
-----------------------------------------------------------------------------
(* ContextReaders.                                                         *)

\* A wallet the context is settled on stays so while the user asks for no other
\* wallet and no chain of the other type.
LEMMA SettledStays ==
  ASSUME IInv, NEW w \in Wallets, Settled(w),
         \/ ContextMoves
         \/ \E c \in Chains : SetDefaultChain(c) /\ ChainType(c) = TypeOf(w)
         \/ SetDefaultWallet(w)
         \/ UNCHANGED vars
  PROVE  Settled(w)'
<1> USE DEF Settled, IInv, TypeOK
<1>1. DefaultWallet(ctx.type) = {w} BY SoleDefault
<1>2. CASE Login BY <1>2 DEF Login
<1>3. CASE Load BY <1>3 DEF Load
<1>4. CASE PickNone BY <1>1, <1>4 DEF PickNone
<1>5. CASE Pick
  <2>1. isDefault' = {w} BY <1>1, <1>5 DEF Pick, SetDefaultAddr
  <2> QED BY <1>5, <2>1 DEF Pick
<1>6. CASE Assign \/ WalletChain BY <1>6 DEF Assign, WalletChain
<1>7. CASE LoadAssign
  <2>1. target = w BY <1>7 DEF LoadAssign, TargetIsDefault
  <2> QED BY <1>7, <2>1 DEF LoadAssign, Return
<1>8. CASE WalletAssign
  <2>1. target = w BY <1>8 DEF WalletAssign, TargetIsDefault
  <2> QED BY <1>8, <2>1 DEF WalletAssign
<1>9. CASE StepError \/ SwallowedError BY <1>9 DEF StepError, SwallowedError
<1>10. ASSUME NEW v \in Wallets, ImportWallet(v) PROVE Settled(w)'
  BY <1>10 DEF ImportWallet
<1>11. ASSUME NEW c \in Chains, SetDefaultChain(c), ChainType(c) = TypeOf(w)
       PROVE  Settled(w)'
  BY <1>11 DEF SetDefaultChain
<1>12. CASE SetDefaultWallet(w)
  BY <1>12 DEF SetDefaultWallet, SetDefaultAddr
<1>13. CASE UNCHANGED vars BY <1>13 DEF vars
<1> QED
  BY <1>2, <1>3, <1>4, <1>5, <1>6, <1>7, <1>8, <1>9, <1>10, <1>11, <1>12,
     <1>13 DEF ContextMoves

\* The context step of every step of an operation, and of the GUI thread.
LEMMA ReadersMoveContext ==
  ReadersNext =>
    \/ ContextMoves /\ UNCHANGED readerVars
    \/ Crash /\ page' = NoPage /\ Stop
    \/ \E c \in Chains : SwitchChain(c)
    \/ \E w \in Wallets : SwitchWallet(w)
    \/ UNCHANGED vars
BY DEF ReadersNext, ContextStep, CrashAll, OpenPage, Confirm, Estimate, Begin,
       SweepOne, SkipOne, Build, Sign, NextSeries, EndJob, Press

\* Operations never write the context: what holds of WalletContext holds here.
LEMMA ReadersImplementContext == [ReadersNext]_allVars => [Next]_vars
BY ReadersMoveContext
   DEF allVars, SwitchChain, SwitchWallet, Next, ContextMoves

\* The wallet imported last is the newest of its type.
LEMMA NewestStays ==
  ASSUME TypeOK, NewestExists, [Next]_vars
  PROVE  NewestExists'
<1> USE DEF NewestExists, NewestWallet, OfType
<1>1. ASSUME NEW w \in Wallets, ImportWallet(w) PROVE NewestExists'
  <2>1. CASE w \in saved
    <3>1. saved' = saved /\ newer' = newer BY <1>1, <2>1 DEF ImportWallet
    <3> QED BY <3>1
  <2>2. CASE w \notin saved
    <3>1. saved' = saved \cup {w} /\ newer' = newer \cup ({w} \X saved)
      BY <1>1, <2>2 DEF ImportWallet
    <3> SUFFICES ASSUME NEW type \in {"evm", "tron"}, (OfType(type))' # {}
                 PROVE  (NewestWallet(type))' # {}
      OBVIOUS
    <3>2. CASE TypeOf(w) = type
      <4>1. w \in (NewestWallet(type))' BY <3>1, <3>2
      <4> QED BY <4>1
    <3>3. CASE TypeOf(w) # type
      <4>1. (OfType(type))' = OfType(type) BY <3>1, <3>3
      <4>2. PICK u : u \in NewestWallet(type) BY <4>1
      <4>3. u \in (NewestWallet(type))' BY <3>1, <4>1, <4>2
      <4> QED BY <4>3
    <3> QED BY <3>2, <3>3
  <2> QED BY <2>1, <2>2
<1>2. ASSUME UNCHANGED <<saved, newer>> PROVE NewestExists'
  BY <1>2
<1>3. UNCHANGED <<saved, newer>> \/ \E w \in Wallets : ImportWallet(w)
  BY DEF Next, vars, dbVars, Login, Load, PickNone, Pick, Assign, LoadAssign,
         WalletChain, WalletAssign, StepError, SwallowedError, Crash,
         SetDefaultChain, SetDefaultWallet, SetDefaultAddr, Return
<1> QED BY <1>1, <1>2, <1>3

LEMMA FlaggedStays ==
  ASSUME IInv, IInv', NewestExists, ContextFlagged, [Next]_vars
  PROVE  ContextFlagged'
<1> USE DEF ContextFlagged, IInv, TypeOK, OneDefault, TargetIsDefault
<1>1. CASE Login BY <1>1 DEF Login
<1>2. CASE Load BY <1>2 DEF Load
<1>3. CASE PickNone
  <2>1. at = "loadPick" => ctx.type \in {"evm", "tron"}
    BY DEF ChainLoaded
  <2>2. at = "loadPick" => OfType(ctx.type) = {}
    BY <1>3, <2>1 DEF PickNone, DefaultWallet, NewestExists, NewestWallet
  <2> QED BY <1>3, <2>2 DEF PickNone, Return, OfType
<1>4. CASE Pick
  <2>1. at' # "idle" /\ ctx' = ctx /\ saved' = saved BY <1>4 DEF Pick
  <2> QED BY <2>1
<1>5. CASE Assign \/ LoadAssign \/ WalletAssign
  BY <1>5 DEF Assign, LoadAssign, WalletAssign, Return
<1>6. CASE WalletChain BY <1>6 DEF WalletChain
<1>7. CASE StepError \/ SwallowedError BY <1>7 DEF StepError, SwallowedError
<1>8. CASE Crash BY <1>8 DEF Crash
<1>9. ASSUME NEW c \in Chains, SetDefaultChain(c) PROVE ContextFlagged'
  BY <1>9 DEF SetDefaultChain, OfType
<1>10. ASSUME NEW w \in Wallets, SetDefaultWallet(w) PROVE ContextFlagged'
  BY <1>10 DEF SetDefaultWallet
<1>11. ASSUME NEW w \in Wallets, ImportWallet(w) PROVE ContextFlagged'
  BY <1>11 DEF ImportWallet
<1>12. CASE UNCHANGED vars BY <1>12 DEF vars, OfType
<1> QED
  BY <1>1, <1>2, <1>3, <1>4, <1>5, <1>6, <1>7, <1>8, <1>9, <1>10, <1>11,
     <1>12 DEF Next

LEMMA RestIsTyped == NoPage \in Pages /\ NoJob \in Jobs /\ NoUse \in Uses
BY DEF NoPage, NoJob, NoUse, Pages, Jobs, Uses, Types, Ops, Phases, Owners

LEMMA UsingIsTyped ==
  ASSUME phase \in Phases \cup {"none"}, NEW w \in Owners, NEW v \in Owners,
         Using(Account(w), v)
  PROVE  use' \in Uses
<1>1. Account(w) \in Owners \cup {Nobody} BY DEF Account
<1> QED BY <1>1 DEF Using, Uses

\* Types of the page, the operation and its last use of the account.
LEMMA ReadersType ==
  ASSUME TypeOK, ReadersTypeOK, EstimateAsks, HeldIsOwners, ReadersNext
  PROVE  ReadersTypeOK' /\ EstimateAsks'
<1> DEFINE Good == ReadersTypeOK' /\ EstimateAsks'
<1> USE ReadersAssumption DEF ReadersTypeOK, EstimateAsks
<1>0. ctx.addr \in Owners /\ NoWallet \in Owners /\ Named \in Owners
  BY DEF TypeOK, Owners, Named
<1>1. CASE OpenPage
  <2>1. ctx.type \in Types /\ ok \in BOOLEAN BY DEF TypeOK, Types
  <2>2. page' \in Pages BY <1>0, <1>1, <2>1 DEF OpenPage, Pages
  <2> QED BY <1>1, <2>2 DEF OpenPage, progress
<1>2. ASSUME NEW op \in Ops, Press(op) PROVE Good
  <2>1. job' \in Jobs BY <1>2 DEF Press, Pages, Jobs
  <2> QED
    BY <1>0, <1>2, <2>1 DEF Press, Enter, progress, Ops, Phases, Sweeps, Jobs
<1>3. CASE Confirm
  BY <1>0, <1>3 DEF Confirm, Enter, Ops, Phases, Paid
<1>4. CASE Estimate BY <1>0, <1>4, UsingIsTyped DEF Estimate
<1>5. CASE Sign
  <2>1. use' \in Uses BY <1>0, <1>5, UsingIsTyped DEF Sign
  <2> QED BY <1>5, <2>1 DEF Sign, HeldIsOwners
<1>6. CASE Begin \/ Build BY <1>0, <1>6 DEF Begin, Build
<1>7. CASE SweepOne
  <2>1. use' \in Uses BY <1>0, <1>7, UsingIsTyped DEF SweepOne
  <2> QED BY <1>7, <2>1 DEF SweepOne
<1>8. CASE SkipOne BY <1>8 DEF SkipOne
<1>9. CASE NextSeries
  BY <1>0, <1>9 DEF NextSeries, Enter, Following, Phases, Sweeps
<1>10. CASE EndJob \/ CrashAll
  BY <1>0, <1>10, RestIsTyped DEF EndJob, CrashAll, Stop
<1>11. CASE ContextStep BY <1>11 DEF ContextStep, readerVars, progress
<1>12. ASSUME NEW S, SwitchTo(S) PROVE Good
  BY <1>12 DEF SwitchTo, progress, Pages, Jobs
<1> QED
  BY <1>1, <1>2, <1>3, <1>4, <1>5, <1>6, <1>7, <1>8, <1>9, <1>10, <1>11, <1>12
     DEF ReadersNext, SwitchChain, SwitchWallet

\* A page or an operation that nothing has been asked of since stands on a
\* settled context.
LEMMA SteadyStays ==
  ASSUME IInv, ReadersTypeOK, ContextFlagged, SteadySettled, ReadersNext
  PROVE  SteadySettled'
<1> USE DEF SteadySettled
<1>1. ASSUME UNCHANGED vars, NEW w \in Wallets, Settled(w) PROVE Settled(w)'
  BY <1>1, SettledStays
<1>2. \A w : Settled(w) => w \in Wallets BY DEF Settled, IInv, TypeOK
<1>3. CASE OpenPage
  <2>1. ok => Settled(ctx.addr)
    BY <1>3 DEF OpenPage, ContextFlagged, OfType, IInv, Started, ChainLoaded,
                Settled
  <2> QED BY <1>1, <1>2, <1>3, <2>1 DEF OpenPage
<1>4. ASSUME NEW op \in Ops, Press(op) PROVE SteadySettled'
  BY <1>1, <1>2, <1>4 DEF Press, ReadersTypeOK
<1>5. CASE Confirm \/ Estimate \/ Begin \/ SweepOne \/ SkipOne \/ Build \/ Sign
           \/ NextSeries \/ EndJob
  <2>1. /\ UNCHANGED <<vars, page>>
        /\ job' \in {NoJob, job}
    BY <1>5 DEF Confirm, Estimate, Begin, SweepOne, SkipOne, Build, Sign,
                NextSeries, EndJob, Stop
  <2> QED BY <1>1, <1>2, <2>1 DEF NoJob
<1>6. CASE CrashAll BY <1>6 DEF CrashAll, Stop, NoPage, NoJob
<1>7. CASE ContextStep
  BY <1>2, <1>7, SettledStays DEF ContextStep, readerVars
<1>8. ASSUME NEW c \in Chains, SwitchChain(c) PROVE SteadySettled'
  <2>1. ASSUME NEW w \in Wallets, Settled(w), TypeOf(w) = ChainType(c)
        PROVE  Settled(w)'
    BY <1>8, <2>1, SettledStays DEF SwitchChain
  <2> QED BY <1>2, <1>8, <2>1 DEF SwitchChain, SwitchTo, ReadersTypeOK
<1>9. ASSUME NEW w \in Wallets, SwitchWallet(w) PROVE SteadySettled'
  <2>1. Settled(w) => Settled(w)' BY <1>9, SettledStays DEF SwitchWallet
  <2> QED BY <1>2, <1>9, <2>1 DEF SwitchWallet, SwitchTo, ReadersTypeOK
<1> QED
  BY <1>3, <1>4, <1>5, <1>6, <1>7, <1>8, <1>9 DEF ReadersNext

\* What an undisturbed operation reads is its owner.
LEMMA ReadsOwner ==
  ASSUME SteadySettled, job.steady
  PROVE  ctx.addr = job.owner /\ Account(job.owner) = job.owner
BY DEF SteadySettled, Settled, Account, TypeOf

LEMMA UsesStay ==
  ASSUME ReadersTypeOK, SteadySettled, HeldIsOwners, WorksForOwner, ReadersNext
  PROVE  HeldIsOwners' /\ WorksForOwner'
<1> USE DEF HeldIsOwners, WorksForOwner, ReadersTypeOK
<1>1. CASE OpenPage BY <1>1 DEF OpenPage, progress
<1>2. ASSUME NEW op \in Ops, Press(op) PROVE HeldIsOwners' /\ WorksForOwner'
  BY <1>2 DEF Press, Enter, Ops
<1>3. CASE Confirm BY <1>3 DEF Confirm, Enter
<1>4. CASE Estimate BY <1>4, ReadsOwner DEF Estimate, Using, Working
<1>5. CASE Begin BY <1>5, ReadsOwner DEF Begin
<1>6. CASE SweepOne BY <1>6, ReadsOwner DEF SweepOne, Using, Named, Working
<1>7. CASE SkipOne BY <1>7 DEF SkipOne
<1>8. CASE Build BY <1>8, ReadsOwner DEF Build, Named
<1>9. CASE Sign BY <1>9, ReadsOwner DEF Sign, Using, Working
<1>10. CASE NextSeries BY <1>10 DEF NextSeries, Enter
<1>11. CASE EndJob \/ CrashAll BY <1>11 DEF EndJob, CrashAll, Stop, NoJob, NoUse
<1>12. CASE ContextStep BY <1>12 DEF ContextStep, readerVars, progress
<1>13. ASSUME NEW S, SwitchTo(S) PROVE HeldIsOwners' /\ WorksForOwner'
  BY <1>13 DEF SwitchTo, progress, Jobs
<1> QED
  BY <1>1, <1>2, <1>3, <1>4, <1>5, <1>6, <1>7, <1>8, <1>9, <1>10, <1>11,
     <1>12, <1>13 DEF ReadersNext, SwitchChain, SwitchWallet

\* A series of sweeps on EVM sweeps to the account it holds.
LEMMA HeldStays ==
  ASSUME ReadersTypeOK, EstimateAsks, HeldIsOwners, SweptToHeld, ReadersNext
  PROVE  SweptToHeld'
<1> USE DEF SweptToHeld, Sweeps
<1>1. CASE OpenPage BY <1>1 DEF OpenPage, progress, Account
<1>2. ASSUME NEW op \in Ops, Press(op) PROVE SweptToHeld'
  BY <1>2 DEF Press, Enter, HeldIsOwners, NoUse
<1>3. CASE Confirm
  BY <1>3 DEF Confirm, Enter, EstimateAsks, Ops
<1>4. CASE Estimate BY <1>4 DEF Estimate, Using
<1>5. CASE Begin BY <1>5 DEF Begin
<1>6. CASE SweepOne
  BY <1>6 DEF SweepOne, Using, Named, Account
<1>7. CASE SkipOne BY <1>7 DEF SkipOne, Account
<1>8. CASE Build \/ Sign BY <1>8 DEF Build, Sign, Using, Paid, HeldIsOwners
<1>9. CASE NextSeries BY <1>9 DEF NextSeries, Enter, Following
<1>10. CASE EndJob \/ CrashAll BY <1>10 DEF EndJob, CrashAll, Stop, NoUse
<1>11. CASE ContextStep
  BY <1>11 DEF ContextStep, readerVars, progress, Account
<1>12. ASSUME NEW S, SwitchTo(S) PROVE SweptToHeld'
  BY <1>12 DEF SwitchTo, progress, Jobs, ReadersTypeOK, Account
<1> QED
  BY <1>1, <1>2, <1>3, <1>4, <1>5, <1>6, <1>7, <1>8, <1>9, <1>10, <1>11, <1>12
     DEF ReadersNext, SwitchChain, SwitchWallet

LEMMA InitReaders == ReadersInit => ReadersIInv
<1> SUFFICES ASSUME ReadersInit PROVE ReadersIInv
  OBVIOUS
<1> USE DEF ReadersInit
<1>1. IInv BY InitIInv
<1>2. ReadersTypeOK
  BY RestIsTyped, ReadersAssumption
     DEF ReadersTypeOK, Owners
<1>3. NewestExists /\ ContextFlagged
  BY DEF Init, NewestExists, ContextFlagged, OfType
<1>4. SteadySettled BY DEF SteadySettled, NoPage, NoJob
<1>5. EstimateAsks /\ HeldIsOwners /\ SweptToHeld /\ WorksForOwner
  BY DEF EstimateAsks, HeldIsOwners, SweptToHeld, WorksForOwner, NoJob, NoUse
<1> QED BY <1>1, <1>2, <1>3, <1>4, <1>5 DEF ReadersIInv

LEMMA StepReaders == ReadersIInv /\ [ReadersNext]_allVars => ReadersIInv'
<1> SUFFICES ASSUME ReadersIInv, [ReadersNext]_allVars PROVE ReadersIInv'
  OBVIOUS
<1> USE DEF ReadersIInv
<1>1. [Next]_vars BY ReadersImplementContext
<1>2. IInv' BY <1>1, StepInvariant
<1>3. NewestExists' BY <1>1, NewestStays DEF IInv
<1>4. ContextFlagged' BY <1>1, <1>2, FlaggedStays
<1>5. CASE ReadersNext
  <2>1. ReadersTypeOK' /\ EstimateAsks' BY <1>5, ReadersType DEF IInv
  <2>2. SteadySettled' BY <1>5, SteadyStays
  <2>3. HeldIsOwners' /\ WorksForOwner' BY <1>5, UsesStay
  <2>4. SweptToHeld' BY <1>5, HeldStays
  <2> QED BY <1>2, <1>3, <1>4, <2>1, <2>2, <2>3, <2>4
<1>6. CASE UNCHANGED allVars
  <2>1. UNCHANGED vars /\ UNCHANGED readerVars BY <1>6 DEF allVars
  <2>2. UNCHANGED <<page, job, phase, step, held, left, use>>
    BY <2>1 DEF readerVars, progress
  <2>3. SteadySettled'
    <3>1. ASSUME NEW w, Settled(w) PROVE Settled(w)'
      BY <2>1, <3>1 DEF Settled, vars
    <3> QED BY <2>2, <3>1 DEF SteadySettled
  <2>4. (ReadersTypeOK /\ EstimateAsks /\ HeldIsOwners /\ WorksForOwner)'
    BY <2>2 DEF ReadersTypeOK, EstimateAsks, HeldIsOwners, WorksForOwner
  <2>5. SweptToHeld' BY <2>2 DEF SweptToHeld, Account
  <2> QED BY <1>2, <1>3, <1>4, <2>3, <2>4, <2>5
<1> QED BY <1>5, <1>6

\* The inductive invariant of the operations and the context together, for all
\* wallets and chains and every length of a series (gui_service.go beside
\* wallet_mgr.go).
THEOREM ReadersInvariance == ReadersSpec => []ReadersIInv
BY InitReaders, StepReaders, PTL DEF ReadersSpec

\* An operation the user has not disturbed works with its owner's account and
\* key from the estimate to the last sweep (GUIService).
THEOREM OperationWorksForOwner == ReadersSpec => []WorksForOwner
<1>1. ReadersIInv => WorksForOwner BY DEF ReadersIInv
<1> QED BY <1>1, ReadersInvariance, PTL

\* The operations leave WalletContext what it is: its theorems hold beside them.
THEOREM ReadersKeepContext == ReadersSpec => Spec
<1>1. ReadersInit => Init BY DEF ReadersInit
<1> QED BY <1>1, ReadersImplementContext, PTL DEF ReadersSpec, Spec

\* A series of sweeps on EVM goes to one account, whatever is switched while it
\* runs (batchSweepGas).
THEOREM OneSeriesOneAccount == ReadersSpec => SeriesToOneAccount
<1> DEFINE OneAccount ==
      job.type = "evm" /\ phase \in Sweeps /\ use.phase = phase
      /\ use'.phase = use.phase => use'.account = use.account
<1>1. ReadersIInv /\ ReadersNext => OneAccount
  <2> SUFFICES ASSUME ReadersIInv, ReadersNext,
                      job.type = "evm", phase \in Sweeps, use.phase = phase,
                      use'.phase = use.phase
               PROVE  use'.account = use.account
    OBVIOUS
  <2>1. step = "next" /\ use.account = Account(held)
    BY DEF ReadersIInv, SweptToHeld
  <2>2. CASE SweepOne BY <2>1, <2>2 DEF SweepOne, Using, Named
  <2>3. CASE EndJob \/ CrashAll
    BY <2>3 DEF EndJob, CrashAll, Stop, NoUse, Sweeps
  <2>4. CASE UNCHANGED use BY <2>4
  <2>5. \/ UNCHANGED use
        \/ SweepOne \/ EndJob \/ CrashAll
    BY <2>1 DEF ReadersNext, OpenPage, Confirm, ContextStep, readerVars,
                Estimate, Begin, SkipOne, Build, Sign, NextSeries, Press,
                SwitchChain, SwitchWallet, SwitchTo
  <2> QED BY <2>2, <2>3, <2>4, <2>5
<1>2. ReadersIInv /\ [ReadersNext]_allVars => [OneAccount]_allVars
  BY <1>1
<1> QED
  BY <1>2, ReadersInvariance, PTL DEF ReadersSpec, SeriesToOneAccount
=============================================================================
