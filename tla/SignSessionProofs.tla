-------------------------- MODULE SignSessionProofs --------------------------
(***************************************************************************)
(* Proofs about SignSession, for any calls and any ids: a call that meets  *)
(* no other under its id owns the context it works with from its           *)
(* preparation to its end.                                                 *)
(***************************************************************************)
EXTENDS SignSession, TLAPS

LEMMA InitIInv == Init => IInv
BY SignAssumption
DEF Init, IInv, TypeOK, OwnContext, Meeting, ServerChecked, OwnSignature,
    PanicOnlyWhenShared, SignedWasChecked, Working, Prepared

\* A new call meets those that work under its id, and they meet it.
LEMMA TakeIdKeepsIInv == ASSUME IInv, NEW c \in Calls, TakeId(c) PROVE IInv'
<1> USE SignAssumption
    DEF IInv, TakeId, Goto, memoryVars, callVars, serverVars, Working, Prepared
<1>1. TypeOK' BY DEF TypeOK
<1>2. OwnContext' BY DEF OwnContext, TypeOK
<1>3. Meeting' BY DEF Meeting, TypeOK
<1>4. ServerChecked' BY DEF ServerChecked
<1>5. OwnSignature' BY DEF OwnSignature, TypeOK
<1>6. PanicOnlyWhenShared'
  <2>1. \A q \in panicked : q # c /\ met[q] # {}
    BY DEF OwnContext, PanicOnlyWhenShared
  <2>2. PICK beside :
          met' = [q \in Calls |-> IF q = c THEN beside
                                 ELSE IF q \in beside THEN met[q] \cup {c}
                                 ELSE met[q]]
    OBVIOUS
  <2>3. \A q \in panicked : met'[q] # {} BY <2>1, <2>2 DEF TypeOK
  <2> QED BY <2>3 DEF PanicOnlyWhenShared
<1>7. SignedWasChecked' BY DEF SignedWasChecked, TypeOK
<1> QED BY <1>1, <1>2, <1>3, <1>4, <1>5, <1>6, <1>7

\* The map: a step of a call changes only the slot of its own id.
LEMMA MapStepKeepsIInv ==
  ASSUME IInv, NEW c \in Calls, Prepare(c) \/ StoreStep1(c) \/ Store(c)
  PROVE  IInv'
<1> USE SignAssumption
    DEF IInv, Goto, memoryVars, callVars, serverVars, Working, Prepared
<1>1. CASE Prepare(c)
  <2> USE <1>1 DEF Prepare
  <2>1. TypeOK' BY DEF TypeOK
  <2>2. OwnContext' BY DEF OwnContext, Meeting, TypeOK
  <2>3. Meeting' BY DEF Meeting, TypeOK
  <2>4. ServerChecked' /\ SignedWasChecked'
    BY DEF ServerChecked, SignedWasChecked, TypeOK
  <2>5. OwnSignature' /\ PanicOnlyWhenShared'
    BY DEF OwnSignature, PanicOnlyWhenShared, TypeOK
  <2> QED BY <2>1, <2>2, <2>3, <2>4, <2>5
<1>2. CASE StoreStep1(c)
  <2> USE <1>2 DEF StoreStep1
  <2>1. TypeOK' BY DEF TypeOK, OwnContext
  <2>2. OwnContext' BY DEF OwnContext, Meeting, TypeOK
  <2>3. Meeting' BY DEF Meeting, TypeOK
  <2>4. ServerChecked' /\ SignedWasChecked'
    BY DEF ServerChecked, SignedWasChecked, TypeOK
  <2>5. OwnSignature' /\ PanicOnlyWhenShared'
    BY DEF OwnSignature, PanicOnlyWhenShared, TypeOK
  <2> QED BY <2>1, <2>2, <2>3, <2>4, <2>5
<1>3. CASE Store(c)
  <2> USE <1>3 DEF Store
  <2>1. TypeOK' BY DEF TypeOK, OwnContext
  <2>2. OwnContext' BY DEF OwnContext, Meeting, TypeOK
  <2>3. Meeting' BY DEF Meeting, TypeOK
  <2>4. ServerChecked' BY DEF ServerChecked
  <2>5. SignedWasChecked'
    BY DEF ServerChecked, SignedWasChecked, OwnContext, TypeOK
  <2>6. OwnSignature' /\ PanicOnlyWhenShared'
    BY DEF OwnSignature, PanicOnlyWhenShared, TypeOK
  <2> QED BY <2>1, <2>2, <2>3, <2>4, <2>5, <2>6
<1> QED BY <1>1, <1>2, <1>3

\* The steps that leave the map alone.
LEMMA OtherStepKeepsIInv ==
  ASSUME IInv, NEW c \in Calls,
         \/ InitAccepted(c) \/ SendStep1(c) \/ ReadContext(c) \/ SendStep2(c)
         \/ AnswerStep2(c) \/ Fetch(c) \/ StepError(c)
  PROVE  IInv'
<1> USE SignAssumption
    DEF IInv, TypeOK, OwnContext, Meeting, ServerChecked, OwnSignature,
        PanicOnlyWhenShared, SignedWasChecked, Goto, Context, memoryVars,
        callVars, serverVars, Working, Prepared
<1>1. CASE InitAccepted(c) BY <1>1 DEF InitAccepted
<1>2. CASE SendStep1(c) BY <1>2 DEF SendStep1
<1>3. CASE ReadContext(c) BY <1>3 DEF ReadContext
<1>4. CASE SendStep2(c) BY <1>4 DEF SendStep2
<1>5. CASE AnswerStep2(c) BY <1>5 DEF AnswerStep2
<1>6. CASE Fetch(c) BY <1>6 DEF Fetch
<1>7. CASE StepError(c) BY <1>7 DEF StepError
<1> QED BY <1>1, <1>2, <1>3, <1>4, <1>5, <1>6, <1>7

\* The end of the process, by itself or in a call that met another one.
LEMMA EndKeepsIInv ==
  ASSUME IInv, Crash \/ \E c \in Calls : FetchNil(c)
  PROVE  IInv'
<1>1. /\ Die /\ UNCHANGED <<id, callVars, serverVars, met>>
      /\ panicked' = panicked
         \/ \E c \in Calls : /\ pc[c] = "fetch" /\ Context(c) \notin step3
                             /\ panicked' = panicked \cup {c}
  BY DEF Crash, FetchNil
<1> USE <1>1, SignAssumption
    DEF IInv, TypeOK, Die, Working, Prepared, callVars, serverVars
<1>2. TypeOK' OBVIOUS
<1>3. OwnContext' /\ Meeting' BY DEF OwnContext, Meeting
<1>4. ServerChecked' /\ SignedWasChecked'
  BY DEF ServerChecked, SignedWasChecked
<1>5. OwnSignature' BY DEF OwnSignature
<1>6. PanicOnlyWhenShared' BY DEF PanicOnlyWhenShared, OwnContext, Context
<1> QED BY <1>2, <1>3, <1>4, <1>5, <1>6

LEMMA StutterKeepsIInv == ASSUME IInv, UNCHANGED vars PROVE IInv'
BY DEF IInv, TypeOK, OwnContext, Meeting, ServerChecked, OwnSignature,
       PanicOnlyWhenShared, SignedWasChecked, vars

\* Every step of every call and every end of the process keeps the inductive
\* invariant.
THEOREM SignInductive == IInv /\ [Next]_vars => IInv'
<1> SUFFICES ASSUME IInv, [Next]_vars PROVE IInv' OBVIOUS
<1>1. ASSUME NEW c \in Calls, CallStep(c) PROVE IInv'
  BY <1>1, TakeIdKeepsIInv, MapStepKeepsIInv, OtherStepKeepsIInv, EndKeepsIInv
  DEF CallStep
<1> QED BY <1>1, EndKeepsIInv, StutterKeepsIInv DEF Next

\* The inductive invariant holds in every reachable state.
THEOREM SignInvariance == Spec => []IInv
BY InitIInv, SignInductive, PTL DEF Spec

\* Type correctness of the sessions and the calls.
THEOREM SignTypeCorrect == Spec => []TypeOK
<1>1. IInv => TypeOK BY DEF IInv
<1> QED BY SignInvariance, <1>1, PTL

\* A call that meets no other under its id signs its own message.
THEOREM SignaturesAreOwn == Spec => []OwnSignature
<1>1. IInv => OwnSignature BY DEF IInv
<1> QED BY SignInvariance, <1>1, PTL

\* Only a call that met another one under its id can panic.
THEOREM PanicsAreShared == Spec => []PanicOnlyWhenShared
<1>1. IInv => PanicOnlyWhenShared BY DEF IInv
<1> QED BY SignInvariance, <1>1, PTL

\* Only messages that the guard has seen are signed, whatever calls share.
THEOREM SignaturesAreChecked == Spec => []SignedWasChecked
<1>1. IInv => SignedWasChecked BY DEF IInv
<1> QED BY SignInvariance, <1>1, PTL
=============================================================================
