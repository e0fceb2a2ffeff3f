--------------------------- MODULE StartupProofs ---------------------------
(***************************************************************************)
(* What Startup promises for all passwords, secrets, chains and attempts.  *)
(***************************************************************************)
EXTENDS Startup, TLAPS

USE StartupAssumption DEF StartupAssumption, Secrets, Running, Steps, disk,
  config, ghosts

LEMMA InitIInv == Init => IInv
BY DEF Init, NoProcess, IInv, TypeOK, Clean, Custody, OnePassword, Stored,
  Unlocked, ViewMatches, Writing

\* Types: every action writes values of the variable's range.
LEMMA StepType == TypeOK /\ [Next]_vars => TypeOK'
<1> SUFFICES ASSUME TypeOK, [Next]_vars PROVE TypeOK'
  OBVIOUS
<1> USE DEF TypeOK
<1>1. CASE Boot BY <1>1 DEF Boot
<1>2. CASE Crash BY <1>2 DEF Crash
<1>3. ASSUME NEW a \in Attempts, Attempt(a) PROVE TypeOK'
  <2>1. CASE Save(a) BY <1>3, <2>1 DEF Save, Goto
  <2>2. CASE Check(a) BY <1>3, <2>2 DEF Check, Goto
  <2>3. CASE Remember(a) BY <1>3, <2>3 DEF Remember, Goto
  <2>4. CASE Challenge(a) BY <1>3, <2>4 DEF Challenge, Goto
  <2>5. CASE FetchChains(a) BY <1>3, <2>5 DEF FetchChains, Goto
  <2>6. CASE FetchRpc(a) BY <1>3, <2>6 DEF FetchRpc, Goto
  <2>7. CASE FetchFails(a) BY <1>3, <2>7 DEF FetchFails, Goto
  <2>8. CASE InitContext(a) BY <1>3, <2>8 DEF InitContext, Goto
  <2>9. CASE ChainUnknown(a) BY <1>3, <2>9 DEF ChainUnknown, Return
  <2>10. CASE CannotOpen(a) BY <1>3, <2>10 DEF CannotOpen, Opens, Return
  <2>11. CASE StepError(a) BY <1>3, <2>11 DEF StepError, Return
  <2>12. CASE Unlock(a) BY <1>3, <2>12 DEF Unlock, Goto
  <2>13. CASE OnLogin(a) BY <1>3, <2>13 DEF OnLogin, Goto, SelectChain
  <2> QED
    BY <1>3, <2>1, <2>2, <2>3, <2>4, <2>5, <2>6, <2>7, <2>8, <2>9, <2>10,
       <2>11, <2>12, <2>13 DEF Attempt
<1>4. ASSUME NEW a \in Attempts, NEW p \in Passwords, Submit(a, p) PROVE TypeOK'
  BY <1>4 DEF Submit, Others
<1>5. ASSUME NEW c \in Chains, SwitchChain(c) PROVE TypeOK'
  BY <1>5 DEF SwitchChain
<1>6. ASSUME NEW w \in Wallets, ImportWallet(w) PROVE TypeOK'
  BY <1>6 DEF ImportWallet, Encrypt
<1>7. ASSUME NEW s \in Shares, SaveShare(s) PROVE TypeOK'
  BY <1>7 DEF SaveShare, Encrypt
<1>8. CASE UNCHANGED vars BY <1>8 DEF vars
<1> QED BY <1>1, <1>2, <1>3, <1>4, <1>5, <1>6, <1>7, <1>8 DEF Next

\* A step of an attempt keeps the one password with whoever is to have it.
LEMMA AttemptCustody ==
  ASSUME TypeOK, TypeOK', Custody, NEW a \in Attempts, Attempt(a)
  PROVE  Custody'
<1> USE DEF TypeOK, Custody, OnePassword, Stored, Unlocked, ViewMatches, Writing
<1>1. CASE Save(a) BY <1>1 DEF Save, Goto
<1>2. CASE Check(a) BY <1>2 DEF Check, Goto
<1>3. CASE Remember(a) BY <1>3 DEF Remember, Goto
<1>4. CASE Challenge(a) BY <1>4 DEF Challenge, Goto
<1>5. CASE FetchChains(a) BY <1>5 DEF FetchChains, Goto
<1>6. CASE FetchRpc(a) BY <1>6 DEF FetchRpc, Goto
<1>7. CASE FetchFails(a) BY <1>7 DEF FetchFails, Goto
<1>8. CASE InitContext(a) BY <1>8 DEF InitContext, Goto
<1>9. CASE ChainUnknown(a) BY <1>9 DEF ChainUnknown, Return
<1>10. CASE CannotOpen(a) BY <1>10 DEF CannotOpen, Opens, Return
<1>11. CASE StepError(a) BY <1>11 DEF StepError, Return
<1>12. CASE Unlock(a) BY <1>12 DEF Unlock, Goto
<1>13. CASE OnLogin(a) BY <1>13 DEF OnLogin, Goto, SelectChain
<1> QED BY <1>1, <1>2, <1>3, <1>4, <1>5, <1>6, <1>7, <1>8, <1>9,
     <1>10, <1>11, <1>12, <1>13 DEF Attempt

\* The rest of the invariant.
LEMMA StepInvariant == IInv /\ [Next]_vars => IInv'
<1> SUFFICES ASSUME IInv, [Next]_vars PROVE IInv'
  OBVIOUS
<1>0. TypeOK' BY StepType DEF IInv
<1> SUFFICES ASSUME Clean' PROVE Custody'
  BY <1>0 DEF IInv
<1> USE DEF IInv, TypeOK, Clean
<1>1. CASE Boot
  <2>1. Custody BY <1>1 DEF Boot
  <2> QED
    BY <1>1, <2>1 DEF Boot, Custody, OnePassword, Stored, Unlocked, ViewMatches,
      Writing
<1>2. CASE Crash
  <2>1. Custody BY <1>2 DEF Crash
  <2> QED
    BY <1>2, <2>1 DEF Crash, Custody, OnePassword, Stored, Unlocked, ViewMatches,
      Writing
<1>3. ASSUME NEW a \in Attempts, Attempt(a) PROVE Custody'
  <2>1. UNCHANGED ghosts
    BY <1>3 DEF Attempt, Save, Check, Remember, Challenge, FetchChains, FetchRpc,
      FetchFails, InitContext, ChainUnknown, CannotOpen, StepError, Unlock,
      OnLogin, Return
  <2> QED BY <1>0, <1>3, <2>1, AttemptCustody
<1>4. ASSUME NEW a \in Attempts, NEW p \in Passwords, Submit(a, p)
      PROVE  Custody'
  <2>1. Custody BY <1>4 DEF Submit
  <2>2. view = "setup" => \A b \in Attempts \ {a} : pc[b] # "idle" => pwd[b] = p
    BY <1>4 DEF Submit, Others
  <2> USE DEF Custody, OnePassword, Stored, Unlocked, ViewMatches, Writing
  <2>3. CASE view = "setup"
    <3>1. unlocked => p = auth BY <1>4, <2>1, <2>2, <2>3 DEF Submit
    <3> QED BY <1>4, <2>1, <2>2, <2>3, <3>1 DEF Submit
  <2>4. CASE view = "verify" BY <1>4, <2>1, <2>4 DEF Submit
  <2> QED BY <1>4, <2>3, <2>4 DEF Submit
<1>5. ASSUME NEW c \in Chains, SwitchChain(c) PROVE Custody'
  BY <1>5 DEF SwitchChain, Custody, OnePassword, Stored, Unlocked, ViewMatches,
    Writing
<1>6. ASSUME NEW s \in Secrets, ImportWallet(s) \/ SaveShare(s) PROVE Custody'
  BY <1>6 DEF ImportWallet, SaveShare, Encrypt, Custody, OnePassword, Stored,
    Unlocked, ViewMatches, Writing
<1>7. CASE UNCHANGED vars
  BY <1>7 DEF vars, Custody, OnePassword, Stored, Unlocked, ViewMatches, Writing
<1> QED BY <1>1, <1>2, <1>3, <1>4, <1>5, <1>6, <1>7 DEF Next

\* The inductive invariant holds in every reachable state, however many attempts
\* overlap and whatever is encrypted (gui_service.go:87-137).
THEOREM StartupInvariance == Spec => []IInv
BY InitIInv, StepInvariant, PTL DEF Spec

\* Whatever keys.db has encrypted opens with the password it verifies
\* (SavePasswordAuth, Encrypt).
THEOREM EverySecretOpens == Spec => []SecretsOpen
<1>1. IInv => SecretsOpen BY DEF IInv, Custody, SecretsOpen
<1> QED BY <1>1, StartupInvariance, PTL

\* Only the verified password unlocks (VerifyPassword, SetPassword).
THEOREM OnlyVerifiedUnlocks == Spec => []UnlockedIsVerified
<1>1. IInv => UnlockedIsVerified
  BY DEF IInv, Custody, Unlocked, UnlockedIsVerified
<1> QED BY <1>1, StartupInvariance, PTL

\* The right password is never turned away by a wallet (InitContext).
THEOREM RightPasswordIsLetIn == Spec => []RightPasswordOpens
<1>1. IInv => RightPasswordOpens BY DEF IInv, Custody, RightPasswordOpens
<1> QED BY <1>1, StartupInvariance, PTL

\* No login changes a default chain that is listed and that the build of the
\* main page could read, nor puts one there that is not listed (MainPage.Build).
THEOREM ListedChainIsKept == Spec => LoginKeepsChain
<1> DEFINE Kept == \A a \in Attempts : pc'[a] # pc[a] =>
       \/ chain' = chain
       \/ chain' \in chains /\ (why'[a] = "unread" \/ chain \notin chains)
<1>1. ASSUME IInv, [Next]_vars PROVE Kept
  <2>1. CASE \E b \in Attempts : Attempt(b)
    <3>1. PICK b \in Attempts : Attempt(b) BY <2>1
    <3>2. CASE OnLogin(b)
      <4>1. /\ pc \in [Attempts -> Steps \cup {"idle"}]
            /\ why \in [Attempts -> Steps \cup {"none", "chain", "wallet",
                                                "unread"}]
        BY <1>1 DEF IInv, TypeOK
      <4>2. \A a \in Attempts : pc'[a] # pc[a] => a = b
        BY <3>2, <4>1 DEF OnLogin
      <4>3. \/ chain' = chain
            \/ chain' \in chains /\ (why'[b] = "unread" \/ chain \notin chains)
        BY <3>2, <4>1 DEF OnLogin, SelectChain
      <4> QED BY <4>2, <4>3
    <3>3. CASE ~OnLogin(b)
      <4>1. chain' = chain
        BY <3>1, <3>3 DEF Attempt, Save, Check, Remember, Challenge,
          FetchChains, FetchRpc, FetchFails, InitContext, ChainUnknown,
          CannotOpen, StepError, Unlock, Return
      <4> QED BY <4>1
    <3> QED BY <3>2, <3>3
  <2>2. CASE UNCHANGED <<pc, chain>>
    BY <2>2
  <2>3. CASE \E c \in Chains : SwitchChain(c)
    BY <2>3 DEF SwitchChain
  <2>4. CASE Boot \/ Crash \/ (\E a \in Attempts, p \in Passwords : Submit(a, p))
             \/ (\E s \in Secrets : ImportWallet(s) \/ SaveShare(s))
    <3>1. chain' = chain
      BY <2>4 DEF Boot, Crash, Submit, ImportWallet, SaveShare
    <3> QED BY <3>1
  <2>5. CASE Next
    <3>1. \A w \in Wallets : w \in Secrets
      OBVIOUS
    <3>2. \A w \in Shares : w \in Secrets
      OBVIOUS
    <3> QED BY <2>1, <2>3, <2>4, <2>5, <3>1, <3>2 DEF Next
  <2> QED BY <1>1, <2>2, <2>5 DEF vars
<1>2. IInv /\ [Next]_vars => [Kept]_vars BY <1>1
<1> QED BY <1>2, StartupInvariance, PTL DEF Spec, LoginKeepsChain
=============================================================================
