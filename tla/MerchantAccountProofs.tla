------------------------ MODULE MerchantAccountProofs ------------------------
(***************************************************************************)
(* Proofs about MerchantAccount, for any operations, any size of a funding *)
(* or a claim and any bounds. The nonces in use are always those below one *)
(* number (Prefix); the lemmas say what the node then answers, what one    *)
(* accepted transaction does to the account, and that every step keeps the *)
(* parts of IInv.                                                          *)
(***************************************************************************)
EXTENDS MerchantAccount, SequenceTheorems, TLAPS

\* Other operations are not disturbed by what one of them does.
LEMMA KindsDisjoint ==
  /\ Resets \cap (Funds \cup Singles \cup Claims) = {}
  /\ Claims \cap (Funds \cup Singles) = {}
BY AccountAssumption

\* The node answers with the end of the nonces in use.
LEMMA PendingIsEnd ==
  ASSUME TypeOK, Prefix
  PROVE  /\ Pending \in 0 .. MaxNonce + 1
         /\ latest <= Pending
         /\ \A n \in Nonce : slot[n] # NoTx <=> n < Pending
<1>1. PICK p \in 0 .. MaxNonce + 1 :
        latest <= p /\ \A n \in Nonce : slot[n] # NoTx <=> n < p
  BY DEF Prefix
<1> DEFINE Ends(q) == /\ \A n \in Nonce : n < q => slot[n] # NoTx
                      /\ q \in Nonce => slot[q] = NoTx
<1>2. Ends(p)
  BY <1>1, AccountAssumption DEF Nonce
<1>3. ASSUME NEW q \in 0 .. MaxNonce + 1, Ends(q) PROVE q = p
  <2>1. CASE q < p
    BY <1>1, <1>3, <2>1, AccountAssumption DEF Nonce
  <2>2. CASE p < q
    BY <1>1, <1>3, <2>2, AccountAssumption DEF Nonce
  <2> QED BY <2>1, <2>2, AccountAssumption
<1>4. Pending = p
  BY <1>2, <1>3 DEF Pending
<1> QED BY <1>1, <1>4

\* A transaction that the node takes at a used nonce or at the end of them
\* leaves the mined ones alone and no gap, and pays no less than what it
\* replaces.
LEMMA PutKeepsAccount ==
  ASSUME TypeOK, Prefix, NEW o \in Ops, NEW k \in Nat, NEW m \in Nat,
         UsedBelow(m), Accepts(m, fee[o]), Put(m, o, k), latest' = latest
  PROVE  /\ slot' \in [Nonce -> Tx \cup {NoTx}]
         /\ Prefix'
         /\ \A n \in Nonce : slot[n] # NoTx => slot'[n] # NoTx
         /\ slot'[m] # NoTx
         /\ \A n \in Nonce : n < latest => slot'[n] = slot[n]
         /\ \A n \in Nonce : slot[n] # NoTx => slot'[n].fee >= slot[n].fee
         /\ \A n \in Nonce : n # m => slot'[n] = slot[n]
         /\ slot'[m].by = o
         /\ slot'[m].fee = fee[o]
<1> DEFINE tx == [by |-> o, n |-> k, fee |-> fee[o]]
<1>1. m \in Nonce /\ m >= latest /\ (slot[m] # NoTx => slot[m].fee < fee[o])
  BY DEF Accepts
<1>2. tx \in Tx /\ tx # NoTx /\ fee[o] \in Nat
  BY AccountAssumption DEF Tx, TypeOK
<1>3. slot' = [slot EXCEPT ![m] = tx]
  BY DEF Put
<1>4. slot \in [Nonce -> Tx \cup {NoTx}] BY DEF TypeOK
<1>5. slot' \in [Nonce -> Tx \cup {NoTx}] BY <1>1, <1>2, <1>3, <1>4
<1>6. slot'[m] = tx /\ \A n \in Nonce : n # m => slot'[n] = slot[n]
  BY <1>1, <1>3, <1>4
<1>7. tx.by = o /\ tx.fee = fee[o] OBVIOUS
<1>8. \A n \in Nonce : slot[n] # NoTx => slot'[n].fee >= slot[n].fee
  <2> SUFFICES ASSUME NEW n \in Nonce, slot[n] # NoTx
               PROVE  slot'[n].fee >= slot[n].fee
    OBVIOUS
  <2>1. slot[n] \in Tx BY <1>4
  <2>2. slot[n].fee \in Nat BY <2>1 DEF Tx
  <2>3. CASE n = m BY <1>1, <1>2, <1>6, <1>7, <2>2, <2>3
  <2>4. CASE n # m BY <1>6, <2>2, <2>4
  <2> QED BY <2>3, <2>4
<1>9. Prefix'
  <2>1. PICK p \in 0 .. MaxNonce + 1 :
          latest <= p /\ \A n \in Nonce : slot[n] # NoTx <=> n < p
    BY DEF Prefix
  <2>2. m <= p
    BY <2>1, <1>1, AccountAssumption DEF UsedBelow, Nonce
  <2>3. latest \in Nat BY AccountAssumption DEF TypeOK
  <2>4. CASE m < p
    BY <1>1, <1>2, <1>6, <2>1, <2>4 DEF Prefix
  <2>5. CASE m = p
    <3>1. p + 1 \in 0 .. MaxNonce + 1 /\ latest' <= p + 1
      BY <1>1, <2>1, <2>3, <2>5, AccountAssumption DEF Nonce
    <3>2. ASSUME NEW n \in Nonce PROVE slot'[n] # NoTx <=> n < p + 1
      <4>1. CASE n = m BY <1>2, <1>6, <2>5, <4>1, AccountAssumption DEF Nonce
      <4>2. CASE n # m
        BY <1>6, <2>1, <2>5, <4>2, AccountAssumption DEF Nonce
      <4> QED BY <4>1, <4>2
    <3> QED BY <3>1, <3>2 DEF Prefix
  <2> QED BY <1>1, <2>1, <2>2, <2>4, <2>5, AccountAssumption DEF Nonce
<1>10. \A n \in Nonce : slot[n] # NoTx => slot'[n] # NoTx
  BY <1>2, <1>6
<1>11. \A n \in Nonce : n < latest => slot'[n] = slot[n]
  <2>1. latest \in Nat /\ m \in Nat BY AccountAssumption DEF TypeOK
  <2>2. \A n \in Nonce : n < latest => n # m
    BY <1>1, <2>1, AccountAssumption DEF Nonce
  <2> QED BY <1>6, <2>2
<1> QED BY <1>2, <1>5, <1>6, <1>7, <1>8, <1>9, <1>10, <1>11

-----------------------------------------------------------------------------
LEMMA InitIInv == Init => IInv
<1> SUFFICES ASSUME Init PROVE IInv OBVIOUS
<1> USE AccountAssumption DEF Init, Nonce
<1>1. TypeOK BY DEF TypeOK
<1>2. Prefix
  <2>1. 0 \in 0 .. MaxNonce + 1 /\ latest <= 0 OBVIOUS
  <2>2. \A n \in Nonce : slot[n] # NoTx <=> n < 0 OBVIOUS
  <2> QED BY <2>1, <2>2 DEF Prefix
<1>3. Counting BY DEF Counting, UsedBelow, Ops
<1>4. Mended BY DEF Mended, Ops
<1>5. Remembered /\ RetryIsClean /\ DoneIsMined
  BY DEF Remembered, RetryIsClean, DoneIsMined, Working, Ops
<1> QED BY <1>1, <1>2, <1>3, <1>4, <1>5 DEF IInv

\* A step in which an operation sends nothing and asks the node nothing.
LEMMA QuietStepKeepsIInv ==
  ASSUME IInv, NEW o \in Ops,
         \/ SimulateSkip(o) \/ SimulateClaimable(o) \/ ClaimEnd(o)
         \/ SendError(o) \/ Confirmed(o) \/ Unconfirmed(o)
         \/ ClaimWaited(o) \/ StepError(o)
  PROVE  IInv'
<1> USE AccountAssumption, KindsDisjoint
    DEF IInv, TypeOK, Prefix, Counting, UsedBelow, Mended, Remembered,
        RetryIsClean, DoneIsMined, Awaited, Mined, Goto, Working, Over,
        opVars, nodeVars
<1>1. CASE SimulateSkip(o) BY <1>1, SMTT(30) DEF SimulateSkip
<1>2. CASE SimulateClaimable(o) BY <1>2, SMTT(30) DEF SimulateClaimable
<1>3. CASE ClaimEnd(o) BY <1>3 DEF ClaimEnd
<1>4. CASE SendError(o) BY <1>4 DEF SendError
<1>5. CASE Confirmed(o) BY <1>5 DEF Confirmed
<1>6. CASE Unconfirmed(o) BY <1>6 DEF Unconfirmed
<1>7. CASE ClaimWaited(o) BY <1>7 DEF ClaimWaited
<1>8. CASE StepError(o) BY <1>8 DEF StepError
<1> QED BY <1>1, <1>2, <1>3, <1>4, <1>5, <1>6, <1>7, <1>8

\* A step in which an operation asks the node for its nonces.
LEMMA QueryStepKeepsIInv ==
  ASSUME IInv, NEW o \in Ops,
         CheckNonceHealth(o) \/ ReadNonce(o) \/ Diagnose(o)
  PROVE  IInv'
<1>1. /\ Pending \in 0 .. MaxNonce + 1
      /\ latest <= Pending
      /\ \A n \in Nonce : slot[n] # NoTx <=> n < Pending
  BY PendingIsEnd DEF IInv
<1> USE <1>1, AccountAssumption, KindsDisjoint
    DEF IInv, TypeOK, Prefix, Counting, UsedBelow, Mended, Remembered,
        RetryIsClean, DoneIsMined, Awaited, Mined, Goto, Working, Over,
        opVars, nodeVars
<1>2. CASE CheckNonceHealth(o)
  <2> USE <1>2 DEF CheckNonceHealth, RememberOver
  <2>1. TypeOK' BY DEF Ops
  <2>2. Prefix' /\ Mended' OBVIOUS
  <2>3. Counting' /\ Remembered' BY DEF Ops
  <2>4. RetryIsClean'
    <3>1. CASE Pending = latest
      <4>1. \A n \in Nonce : ~(n >= latest /\ slot[n] # NoTx)
        BY <1>1, <3>1 DEF Nonce
      <4> QED BY <4>1
    <3>2. CASE Pending # latest BY <3>2
    <3> QED BY <3>1, <3>2
  <2>5. DoneIsMined' BY DEF Ops
  <2> QED BY <2>1, <2>2, <2>3, <2>4, <2>5
<1>3. CASE ReadNonce(o)
  <2> USE <1>3 DEF ReadNonce
  <2>1. TypeOK' BY DEF Ops
  <2>2. Prefix' /\ Mended' OBVIOUS
  <2>3. Counting' BY DEF Ops
  <2>4. Remembered' /\ RetryIsClean' OBVIOUS
  <2>5. DoneIsMined' BY DEF Ops
  <2> QED BY <2>1, <2>2, <2>3, <2>4, <2>5
<1>4. CASE Diagnose(o)
  <2> USE <1>4 DEF Diagnose
  <2>1. TypeOK' OBVIOUS
  <2>2. Prefix' OBVIOUS
  <2>3. Counting'
    <3>1. latest \in Nat /\ Pending \in Nat OBVIOUS
    <3>2. \A n \in Nonce :
            n < next'[o] \/ n < until'[o] => slot'[n] # NoTx
      BY <3>1 DEF Nonce
    <3>3. /\ pc'[o] \in {"send", "done"}
          /\ pc'[o] = "send" => next'[o] < until'[o]
          /\ pc'[o] = "done" => next'[o] = until'[o]
      BY <3>1
    <3>4. \A q \in Ops : q # o =>
            pc'[q] = pc[q] /\ next'[q] = next[q] /\ until'[q] = until[q]
      OBVIOUS
    <3>5. o \notin Claims /\ UNCHANGED <<slot, count, empty>> BY DEF Ops
    <3>6. \A q \in Ops : pc'[q] = "send" => UsedBelow(next[q])'
      BY <3>2, <3>4, <3>5
    <3>7. \A q \in Resets :
            /\ UsedBelow(until[q])'
            /\ pc'[q] \in {"idle", "send"} \cup Over
            /\ pc'[q] = "send" => next'[q] < until'[q]
            /\ pc'[q] = "done" => next'[q] = until'[q]
      BY <3>2, <3>3, <3>4, <3>5 DEF Ops
    <3>8. /\ \A q \in Ops \ Claims : pc'[q] # "simulate"
          /\ \A q \in Claims :
               pc'[q] \in {"read", "send", "wait"} => count'[q] > 0
          /\ \A q \in Funds :
               pc'[q] \in {"idle", "read", "send"} => count'[q] < Size
          /\ \A q \in Ops : pc'[q] # "done" => empty'[q] < 2
      BY <3>3, <3>4, <3>5 DEF Ops
    <3> QED BY <3>6, <3>7, <3>8
  <2>4. Mended' OBVIOUS
  <2>5. Remembered' /\ RetryIsClean' /\ DoneIsMined' OBVIOUS
  <2> QED BY <2>1, <2>2, <2>3, <2>4, <2>5
<1> QED BY <1>2, <1>3, <1>4

\* A transaction becomes mined.
LEMMA MineKeepsIInv == ASSUME IInv, Mine PROVE IInv'
<1> USE DEF IInv, Mine, opVars
<1>1. latest \in Nonce /\ latest \in Nat BY AccountAssumption DEF Nonce
<1>2. TypeOK'
  <2>1. latest' \in 0 .. MaxNonce + 1 BY <1>1, AccountAssumption DEF Nonce
  <2>2. good' \in SUBSET Nonce BY <1>1 DEF TypeOK
  <2> QED BY <2>1, <2>2 DEF TypeOK
<1>3. Prefix'
  <2>1. PICK p \in 0 .. MaxNonce + 1 :
          latest <= p /\ \A n \in Nonce : slot[n] # NoTx <=> n < p
    BY DEF Prefix
  <2>2. latest' <= p BY <1>1, <2>1, AccountAssumption
  <2> QED BY <2>1, <2>2 DEF Prefix
<1>4. Counting' BY DEF Counting, UsedBelow
<1>5. Mended' BY <1>1, AccountAssumption DEF Mended, Nonce
<1>6. Remembered' BY DEF Remembered
<1>7. RetryIsClean' BY <1>1, AccountAssumption DEF RetryIsClean, Nonce
<1>8. DoneIsMined'
  <2>1. good \subseteq good' OBVIOUS
  <2>2. \A n \in good : n < latest => n < latest'
    BY <1>1, AccountAssumption DEF TypeOK, Nonce
  <2>3. ASSUME NEW o \in Ops, NEW k, Mined(o, k) PROVE Mined(o, k)'
    BY <2>1, <2>2, <2>3 DEF Mined
  <2>4. \A o \in Ops : Awaited(o)' = Awaited(o) BY DEF Awaited
  <2>5. UNCHANGED pc OBVIOUS
  <2> QED BY <2>3, <2>4, <2>5 DEF DoneIsMined, Ops
<1> QED BY <1>2, <1>3, <1>4, <1>5, <1>6, <1>7, <1>8

\* The process dies.
LEMMA CrashKeepsIInv == ASSUME IInv, Crash PROVE IInv'
<1> USE DEF IInv, Crash, Working, Over, opVars, nodeVars
<1>1. TypeOK' BY DEF TypeOK
<1>2. Prefix' /\ Mended' BY DEF Prefix, Mended
<1>3. Counting' BY DEF Counting, UsedBelow, TypeOK, Ops
<1>4. Remembered' BY DEF Remembered, TypeOK
<1>5. RetryIsClean' BY DEF RetryIsClean
<1>6. DoneIsMined' BY DEF DoneIsMined, Awaited, Mined, Ops
<1> QED BY <1>1, <1>2, <1>3, <1>4, <1>5, <1>6

-----------------------------------------------------------------------------
\* A transfer, a call or a replacement is accepted: what becomes of the
\* operation that sent it.
LEMMA SendStepKeepsIInv ==
  ASSUME IInv, NEW o \in Ops, SendTransfer(o) \/ SendCall(o) \/ Replace(o)
  PROVE  IInv'
<1> USE KindsDisjoint DEF IInv
<1>1. PICK m \in Nat : UsedBelow(m) /\ m = next[o]
  BY DEF TypeOK, Counting, SendTransfer, SendCall, Replace
<1>2. PICK j \in Nat : Put(m, o, j) /\ Accepts(m, fee[o])
  BY <1>1 DEF TypeOK, SendTransfer, SendCall, Replace
<1>3. latest' = latest /\ good' = good /\ pc[o] = "send"
  BY DEF SendTransfer, SendCall, Replace
<1>4. /\ slot' \in [Nonce -> Tx \cup {NoTx}]
      /\ Prefix'
      /\ \A n \in Nonce : slot[n] # NoTx => slot'[n] # NoTx
      /\ slot'[m] # NoTx
      /\ \A n \in Nonce : n < latest => slot'[n] = slot[n]
      /\ \A n \in Nonce : slot[n] # NoTx => slot'[n].fee >= slot[n].fee
      /\ \A n \in Nonce : n # m => slot'[n] = slot[n]
      /\ slot'[m].by = o
      /\ slot'[m].fee = fee[o]
  BY <1>1, <1>2, <1>3, PutKeepsAccount
<1>5. /\ fee' = fee /\ empty' = empty /\ logged' = logged /\ from' = from
      /\ until' = until /\ before' = before
      /\ \A q \in Ops : q # o => pc'[q] = pc[q] /\ next'[q] = next[q]
                                /\ count'[q] = count[q]
      /\ pc'[o] \in {"send", "wait", "done", "failed"}
      /\ pc'[o] = "done" => o \in Resets
  BY DEF TypeOK, SendTransfer, SendCall, Replace, Goto, opVars
<1>6. TypeOK'
  <2> USE <1>3, <1>4, <1>5, AccountAssumption DEF TypeOK
  <2>1. CASE SendTransfer(o)
    <3>1. count[o] + 1 \in 0 .. Size BY <2>1 DEF SendTransfer, IInv, Counting
    <3> QED BY <2>1, <3>1 DEF SendTransfer, Goto, Working, Over
  <2>2. CASE SendCall(o) BY <2>2 DEF SendCall, Goto, opVars, Working, Over
  <2>3. CASE Replace(o) BY <2>3 DEF Replace, Goto, Working, Over
  <2> QED BY <2>1, <2>2, <2>3
<1>7. Counting'
  <2>1. UsedBelow(next[o])' /\ \A i : UsedBelow(i) => UsedBelow(i)'
    <3>1. next'[o] = m + 1 \/ next'[o] = m
      BY <1>1 DEF TypeOK, SendTransfer, SendCall, Replace, opVars
    <3> QED BY <1>4, <1>1, <3>1, AccountAssumption DEF UsedBelow, Nonce
  <2>2. \A q \in Ops : pc'[q] = "send" => UsedBelow(next[q])'
    BY <1>5, <2>1 DEF Counting, UsedBelow
  <2>3. ASSUME NEW q \in Resets
        PROVE  /\ UsedBelow(until[q])'
               /\ pc'[q] \in {"idle", "send"} \cup Over
               /\ pc'[q] = "send" => next'[q] < until'[q]
               /\ pc'[q] = "done" => next'[q] = until'[q]
    <3>1. UsedBelow(until[q])' BY <1>5, <2>1 DEF Counting, UsedBelow
    <3>2. CASE q # o BY <1>5, <3>1, <3>2 DEF Counting, Ops
    <3>3. CASE q = o
      <4>1. Replace(o) BY <3>3 DEF SendTransfer, SendCall
      <4>2. next[o] < until[o] /\ next[o] \in Nat /\ until[o] \in Nat
        BY <1>3, <3>3 DEF Counting, TypeOK
      <4>3. /\ next'[o] = next[o] + 1
            /\ \/ pc'[o] = IF next'[o] = until[o] THEN "done" ELSE "send"
               \/ pc'[o] = "failed"
        BY <4>1 DEF Replace, Goto, TypeOK
      <4> QED BY <1>5, <3>1, <3>3, <4>2, <4>3 DEF Over
    <3> QED BY <3>2, <3>3
  <2>4. /\ \A q \in Ops \ Claims : pc'[q] # "simulate"
        /\ \A q \in Ops : pc'[q] # "done" => empty'[q] < 2
    BY <1>3, <1>5 DEF Counting
  <2>5. \A q \in Claims :
          pc'[q] \in {"read", "send", "wait"} => count'[q] > 0
    <3>1. o \in Claims => count'[o] = count[o]
      BY DEF SendTransfer, SendCall, Replace, opVars
    <3> QED BY <1>3, <1>5, <3>1 DEF Counting, Ops
  <2>6. \A q \in Funds :
          pc'[q] \in {"idle", "read", "send"} => count'[q] < Size
    <3>1. CASE o \in Funds
      <4>1. SendTransfer(o)
            \/ (pc'[o] \notin {"idle", "read", "send"})
        BY <3>1 DEF SendCall, Replace, Goto, TypeOK
      <4>2. CASE SendTransfer(o)
        BY <1>5, <3>1, <4>2, AccountAssumption, SMTT(30)
        DEF SendTransfer, Goto, Counting, TypeOK, Ops
      <4> QED BY <1>5, <4>1, <4>2 DEF Counting, Ops
    <3>2. CASE o \notin Funds BY <1>5, <3>2 DEF Counting, Ops
    <3> QED BY <3>1, <3>2
  <2> QED BY <2>2, <2>3, <2>4, <2>5, <2>6 DEF Counting
<1>8. Mended'
  <2> SUFFICES ASSUME NEW q \in Resets, NEW n \in Nonce,
                      from'[q] <= n, n < next'[q], ~(n < latest')
               PROVE  slot'[n] # NoTx /\ slot'[n].fee >= fee'[q]
    BY DEF Mended
  <2>1. n \in Nat /\ next[q] \in Nat /\ fee[q] \in Nat
    BY AccountAssumption DEF Nonce, TypeOK, Ops
  <2>2. CASE n < next[q]
    <3>1. slot[n] # NoTx /\ slot[n].fee >= fee[q]
      BY <1>3, <1>5, <2>2 DEF Mended
    <3>2. slot[n].fee \in Nat /\ slot'[n].fee \in Nat
      BY <1>4, <3>1 DEF TypeOK, Tx
    <3> QED BY <1>4, <1>5, <2>1, <3>1, <3>2
  <2>3. CASE ~(n < next[q])
    <3>1. q = o BY <1>5, <2>3 DEF Ops
    <3>2. next'[o] = m + 1 \/ next'[o] = m
      BY <1>1 DEF TypeOK, SendTransfer, SendCall, Replace, opVars
    <3>3. n = m BY <1>1, <2>1, <2>3, <3>1, <3>2
    <3> QED BY <1>4, <1>5, <2>1, <3>1, <3>3
  <2> QED BY <2>2, <2>3
<1>9. Remembered'
  BY <1>3, <1>5 DEF Remembered, Over, TypeOK
<1>10. RetryIsClean'
  BY <1>3, <1>4, <1>5 DEF RetryIsClean, Remembered, Working, Over
<1>11. DoneIsMined'
  <2>1. ASSUME NEW q \in Ops, NEW i, Mined(q, i) PROVE Mined(q, i)'
    BY <1>3, <1>4, <2>1 DEF Mined, TypeOK
  <2>2. \A q \in Funds \cup Singles : pc'[q] = "done" =>
          pc[q] = "done" /\ Awaited(q)' = Awaited(q)
    BY <1>5 DEF Awaited, Ops
  <2> QED BY <2>1, <2>2 DEF DoneIsMined, Ops
<1> QED BY <1>4, <1>6, <1>7, <1>8, <1>9, <1>10, <1>11

-----------------------------------------------------------------------------
LEMMA StutterKeepsIInv == ASSUME IInv, UNCHANGED vars PROVE IInv'
BY DEF IInv, TypeOK, Prefix, Counting, UsedBelow, Mended, Remembered,
       RetryIsClean, DoneIsMined, Awaited, Mined, vars

\* Every step of every operation, the node and the process keeps the inductive
\* invariant.
THEOREM AccountInductive == IInv /\ [Next]_vars => IInv'
<1> SUFFICES ASSUME IInv, [Next]_vars PROVE IInv' OBVIOUS
<1>1. ASSUME NEW o \in Ops, OpStep(o) PROVE IInv'
  BY <1>1, QuietStepKeepsIInv, QueryStepKeepsIInv, SendStepKeepsIInv
  DEF OpStep
<1> QED
  BY <1>1, MineKeepsIInv, CrashKeepsIInv, StutterKeepsIInv DEF Next

\* The inductive invariant holds in every reachable state.
THEOREM AccountInvariance == Spec => []IInv
BY InitIInv, AccountInductive, PTL DEF Spec

\* Type correctness of the account and the operations.
THEOREM AccountTypeCorrect == Spec => []TypeOK
<1>1. IInv => TypeOK BY DEF IInv
<1> QED BY AccountInvariance, <1>1, PTL

\* No operation, refusal, replacement or crash leaves a missing nonce.
THEOREM AccountHasNoGap == Spec => []NoGap
<1>1. IInv => NoGap
  <2> SUFFICES ASSUME IInv PROVE NoGap OBVIOUS
  <2>1. PICK p \in 0 .. MaxNonce + 1 :
          \A n \in Nonce : slot[n] # NoTx <=> n < p
    BY DEF IInv, Prefix
  <2> QED BY <2>1, AccountAssumption DEF NoGap, Nonce
<1> QED BY AccountInvariance, <1>1, PTL

\* An operation that returned without an error has its own transactions mined.
THEOREM DoneOperationsAreMined == Spec => []DoneIsMined
<1>1. IInv => DoneIsMined BY DEF IInv
<1> QED BY AccountInvariance, <1>1, PTL

\* An operation never works beside a pending transaction of one that was over
\* when it began.
THEOREM RetriesAreClean == Spec => []RetryIsClean
<1>1. IInv => RetryIsClean BY DEF IInv
<1> QED BY AccountInvariance, <1>1, PTL

\* A reset that ended well has mended every nonce that it found stuck.
THEOREM ResetMends == Spec => []ResetUnsticks
<1>1. IInv => ResetUnsticks
  <2> SUFFICES ASSUME IInv, NEW o \in Resets, pc[o] = "done", NEW n \in Nonce,
                      from[o] <= n, n < until[o]
               PROVE  n < latest \/ (slot[n] # NoTx /\ slot[n].fee >= fee[o])
    BY DEF ResetUnsticks
  <2>1. next[o] = until[o] BY DEF IInv, Counting
  <2> QED BY <2>1 DEF IInv, Mended
<1> QED BY AccountInvariance, <1>1, PTL

-----------------------------------------------------------------------------
(* The walk of a claim.                                                    *)

\* What a claim has counted and logged changes only by its own steps.
LEMMA WalkUntouched ==
  ASSUME IInv, WalkIInv,
         \A c \in Claims :
           /\ count'[c] = count[c] /\ empty'[c] = empty[c]
           /\ logged'[c] = logged[c]
           /\ pc'[c] \in {"read", "send", "wait"} =>
                pc[c] \in {"read", "send", "wait"} \/ empty[c] = 0
  PROVE  WalkIInv'
<1>1. WalkCounts'
  <2> SUFFICES ASSUME NEW c \in Claims
               PROVE  /\ logged'[c] \subseteq 1 .. count'[c]
                      /\ pc'[c] \in {"read", "send", "wait"} => empty'[c] = 0
    BY DEF WalkCounts
  <2> QED BY DEF WalkIInv, WalkCounts
<1>2. WalkStopsAtGap' BY DEF WalkIInv, WalkStopsAtGap
<1> QED BY <1>1, <1>2 DEF WalkIInv

\* A claim visits a batch, or logs one.
LEMMA WalkStepKeepsWalk ==
  ASSUME IInv, WalkIInv, NEW o \in Claims,
         SimulateSkip(o) \/ SimulateClaimable(o) \/ ClaimWaited(o)
  PROVE  WalkIInv'
<1> USE DEF IInv, TypeOK, WalkIInv, WalkCounts, WalkStopsAtGap, Goto
<1>0. o \in Ops /\ count[o] \in Nat /\ empty[o] \in Nat BY DEF Ops
<1>1. \A c \in Claims : c # o =>
        /\ pc'[c] = pc[c] /\ count'[c] = count[c] /\ empty'[c] = empty[c]
        /\ logged'[c] = logged[c]
  <2>1. Claims \subseteq Ops BY DEF Ops
  <2>2. CASE SimulateSkip(o) BY <1>0, <2>1, <2>2 DEF SimulateSkip
  <2>3. CASE SimulateClaimable(o) BY <1>0, <2>1, <2>3 DEF SimulateClaimable
  <2>4. CASE ClaimWaited(o) BY <1>0, <2>1, <2>4 DEF ClaimWaited
  <2> QED BY <2>2, <2>3, <2>4
<1>2. CASE SimulateSkip(o)
  <2>1. /\ count'[o] = count[o] + 1 /\ empty'[o] = empty[o] + 1
        /\ logged'[o] = logged[o] /\ pc'[o] \in {"done", "simulate"}
    BY <1>0, <1>2 DEF SimulateSkip
  <2>2. count[o] + 1 \notin logged[o] BY <1>0
  <2>3. \A j \in 1 .. count'[o] :
          j > count'[o] - empty'[o] => j \notin logged'[o]
    BY <1>0, <2>1, <2>2
  <2>4. logged'[o] \subseteq 1 .. count'[o] BY <1>0, <2>1
  <2>5. WalkCounts' BY <1>1, <2>1, <2>4
  <2>6. WalkStopsAtGap' BY <1>1, <2>3
  <2> QED BY <2>5, <2>6
<1>3. CASE SimulateClaimable(o)
  <2>1. /\ count'[o] = count[o] + 1 /\ empty'[o] = 0 /\ logged'[o] = logged[o]
    BY <1>0, <1>3 DEF SimulateClaimable
  <2> QED BY <1>0, <1>1, <2>1
<1>4. CASE ClaimWaited(o)
  <2>1. /\ count'[o] = count[o] /\ empty'[o] = empty[o]
        /\ logged'[o] = logged[o] \cup {count[o]} /\ pc'[o] = "simulate"
    BY <1>0, <1>4 DEF ClaimWaited
  <2>2. empty[o] = 0 /\ count[o] > 0
    BY <1>0, <1>4 DEF ClaimWaited, Counting
  <2> QED BY <1>0, <1>1, <2>1, <2>2
<1> QED BY <1>2, <1>3, <1>4

\* What is counted as empty is the end of what a claim has seen, for lists of
\* any length.
THEOREM WalksStopAtGaps == Spec => []WalkStopsAtGap
<1>1. Init => WalkIInv
  BY AccountAssumption DEF Init, WalkIInv, WalkCounts, WalkStopsAtGap, Ops
<1>2. IInv /\ WalkIInv /\ [Next]_vars => WalkIInv'
  <2> SUFFICES ASSUME IInv, WalkIInv, [Next]_vars PROVE WalkIInv'
    OBVIOUS
  <2> USE DEF IInv, TypeOK, Goto, opVars, nodeVars
  <2>1. CASE Mine BY <2>1, WalkUntouched DEF Mine
  <2>2. CASE Crash
    BY <2>2, WalkUntouched DEF Crash, Ops
  <2>3. CASE UNCHANGED vars BY <2>3, WalkUntouched DEF vars
  <2>4. ASSUME NEW o \in Ops, OpStep(o) PROVE WalkIInv'
    <3>1. CASE o \in Claims /\ (SimulateSkip(o) \/ SimulateClaimable(o)
                                \/ ClaimWaited(o))
      BY <3>1, WalkStepKeepsWalk
    <3>2. CASE o \notin Claims /\ (SimulateSkip(o) \/ SimulateClaimable(o)
                                   \/ ClaimWaited(o))
      BY <3>2 DEF SimulateSkip, SimulateClaimable, ClaimWaited, Counting
    <3>3. CASE CheckNonceHealth(o) \/ Diagnose(o)
      BY <3>3, WalkUntouched, KindsDisjoint DEF CheckNonceHealth, Diagnose, Ops
    <3>4. CASE ReadNonce(o) \/ SendError(o) \/ ClaimEnd(o) \/ StepError(o)
      BY <3>4, WalkUntouched
      DEF ReadNonce, SendError, ClaimEnd, StepError, Ops
    <3>5. CASE Confirmed(o) \/ Unconfirmed(o)
      BY <3>5, WalkUntouched DEF Confirmed, Unconfirmed, Ops
    <3>6. CASE SendTransfer(o) \/ SendCall(o) \/ Replace(o)
      BY <3>6, WalkUntouched, KindsDisjoint
      DEF SendTransfer, SendCall, Replace, Ops
    <3> QED BY <2>4, <3>1, <3>2, <3>3, <3>4, <3>5, <3>6 DEF OpStep
  <2> QED BY <2>1, <2>2, <2>3, <2>4 DEF Next
<1>3. WalkIInv => WalkStopsAtGap BY DEF WalkIInv
<1> QED BY <1>1, <1>2, <1>3, AccountInvariance, PTL DEF Spec
-----------------------------------------------------------------------------
(* The account is a list of payments.                                      *)

\* What an operation sends next it has not sent before, and what others send
\* is their own: the parts of SentOnce that a step leaves alone.
LEMMA SentUntouched ==
  ASSUME IInv, SentOnce, slot' = slot, NEW o \in Ops,
         \A q \in Ops : q # o => /\ pc'[q] = pc[q] /\ count'[q] = count[q]
                                 /\ next'[q] = next[q],
         pc'[o] # "idle", count'[o] \in Nat, count'[o] >= count[o],
         next'[o] \in Nat, o \in Resets => pc[o] = "idle" \/ next'[o] = next[o],
         o \in Claims /\ pc'[o] \in {"read", "send"} =>
           pc[o] \in {"read", "send"} \/ count'[o] > count[o],
         o \in Singles /\ pc'[o] \in {"read", "send"} =>
           pc[o] \in {"idle", "read", "send"}
  PROVE  SentOnce'
<1> SUFFICES ASSUME NEW n \in Nonce, slot[n] # NoTx
             PROVE  LET q == slot[n].by  j == slot[n].n
                    IN  /\ pc'[q] # "idle"
                        /\ q \in Funds => j <= count'[q]
                        /\ q \in Claims => /\ j <= count'[q]
                                           /\ pc'[q] \in {"read", "send"} => j < count'[q]
                        /\ q \in Singles => pc'[q] \notin {"read", "send"}
                        /\ q \in Resets => j = n /\ n < next'[q]
  BY DEF SentOnce
<1> DEFINE q == slot[n].by  j == slot[n].n
<1>1. q \in Ops /\ j \in Nat BY DEF IInv, TypeOK, Tx
<1>2. /\ pc[q] # "idle"
      /\ q \in Funds => j <= count[q]
      /\ q \in Claims => /\ j <= count[q]
                         /\ pc[q] \in {"read", "send"} => j < count[q]
      /\ q \in Singles => pc[q] \notin {"read", "send"}
      /\ q \in Resets => j = n /\ n < next[q]
  BY DEF SentOnce
<1>3. count[q] \in Nat BY <1>1, AccountAssumption DEF IInv, TypeOK
<1> HIDE DEF q, j
<1>4. CASE q # o BY <1>1, <1>2, <1>4 DEF q, j
<1>5. CASE q = o
  <2>1. j <= count[o] => j <= count'[o] BY <1>1, <1>3, <1>5
  <2>2. j < count[o] => j < count'[o] BY <1>1, <1>3, <1>5
  <2>3. j <= count[o] /\ count'[o] > count[o] => j < count'[o] BY <1>1, <1>3, <1>5
  <2> QED BY <1>2, <1>5, <2>1, <2>2, <2>3 DEF q, j
<1> QED BY <1>4, <1>5

\* What an operation sends is new.
LEMMA SendIsNew ==
  ASSUME IInv, SentOnce, NEW o \in Ops, NEW j \in Nat, pc[o] = "send",
         \/ o \in Funds /\ j = count[o] + 1
         \/ o \in Claims \cup Singles /\ j = count[o]
         \/ o \in Resets /\ j = next[o]
  PROVE  \A n \in Nonce : slot[n] # NoTx => slot[n].by # o \/ slot[n].n # j
<1> SUFFICES ASSUME NEW n \in Nonce, slot[n] # NoTx, slot[n].by = o, slot[n].n = j
             PROVE  FALSE
  OBVIOUS
<1>1. /\ o \in Funds => j <= count[o]
      /\ o \in Claims => j < count[o]
      /\ o \in Singles => pc[o] \notin {"read", "send"}
      /\ o \in Resets => j = n /\ n < next[o]
  BY DEF SentOnce
<1>2. count[o] \in Nat /\ next[o] \in Nat BY AccountAssumption DEF IInv, TypeOK
<1> QED BY <1>1, <1>2

\* A transaction is sent by an operation that counts it from then on.
LEMMA SendKeepsSent ==
  ASSUME IInv, SentOnce, NEW o \in Ops, SendTransfer(o) \/ SendCall(o) \/ Replace(o)
  PROVE  SentOnce'
<1> USE KindsDisjoint, AccountAssumption
<1>0. /\ count[o] \in Nat /\ next[o] \in Nat /\ pc[o] = "send"
      /\ count \in [Ops -> 0 .. Size] /\ next \in [Ops -> Nat]
      /\ pc \in [Ops -> {"idle"} \cup Working \cup Over]
      /\ slot \in [Nonce -> Tx \cup {NoTx}]
  BY DEF IInv, TypeOK, SendTransfer, SendCall, Replace
<1>1. PICK j \in Nat : /\ Put(next[o], o, j)
                       /\ next[o] \in Nonce
                       /\ \/ o \in Funds /\ SendTransfer(o) /\ j = count[o] + 1
                          \/ o \in Claims \cup Singles /\ SendCall(o) /\ j = count[o]
                          \/ o \in Resets /\ Replace(o) /\ j = next[o]
  BY <1>0 DEF SendTransfer, SendCall, Replace, Accepts
<1>2. /\ slot'[next[o]].by = o /\ slot'[next[o]].n = j
      /\ \A n \in Nonce : n # next[o] => slot'[n] = slot[n]
  BY <1>0, <1>1 DEF Put
<1>3. /\ \A q \in Ops : q # o => /\ pc'[q] = pc[q] /\ count'[q] = count[q]
                                 /\ next'[q] = next[q]
      /\ pc'[o] \in {"send", "wait", "done", "failed"}
      /\ o \in Funds => count'[o] = count[o] + 1
      /\ o \in Claims \cup Singles => count'[o] = count[o] /\ pc'[o] \in {"wait", "failed"}
      /\ o \in Resets => next'[o] = next[o] + 1
  <2>1. CASE SendTransfer(o) BY <1>0, <2>1 DEF SendTransfer, Goto
  <2>2. CASE SendCall(o) BY <1>0, <2>2 DEF SendCall, Goto, opVars
  <2>3. CASE Replace(o) BY <1>0, <2>3 DEF Replace, Goto
  <2> QED BY <2>1, <2>2, <2>3
<1> SUFFICES ASSUME NEW n \in Nonce, slot'[n] # NoTx
             PROVE  LET q == slot'[n].by  i == slot'[n].n
                    IN  /\ pc'[q] # "idle"
                        /\ q \in Funds => i <= count'[q]
                        /\ q \in Claims => /\ i <= count'[q]
                                           /\ pc'[q] \in {"read", "send"} => i < count'[q]
                        /\ q \in Singles => pc'[q] \notin {"read", "send"}
                        /\ q \in Resets => i = n /\ n < next'[q]
  BY DEF SentOnce
<1>4. CASE n = next[o]
  <2>1. o \in Claims \cup Singles => j <= count[o] BY <1>0, <1>1
  <2>2. o \in Resets => j = n /\ n < next'[o] BY <1>0, <1>1, <1>3, <1>4
  <2>3. o \in Funds => j <= count'[o] BY <1>0, <1>1, <1>3
  <2> QED BY <1>2, <1>3, <1>4, <2>1, <2>2, <2>3
<1>5. CASE n # next[o]
  <2> DEFINE q == slot[n].by  i == slot[n].n
  <2>1. slot'[n] = slot[n] /\ slot[n] # NoTx BY <1>2, <1>5
  <2>2. q \in Ops /\ i \in Nat BY <1>0, <2>1 DEF Tx
  <2>3. /\ pc[q] # "idle"
        /\ q \in Funds => i <= count[q]
        /\ q \in Claims => /\ i <= count[q]
                           /\ pc[q] \in {"read", "send"} => i < count[q]
        /\ q \in Singles => pc[q] \notin {"read", "send"}
        /\ q \in Resets => i = n /\ n < next[q]
    BY <2>1 DEF SentOnce
  <2>4. n \in Nat BY DEF Nonce
  <2> HIDE DEF q, i
  <2>5. CASE q # o BY <1>3, <2>1, <2>2, <2>3, <2>5 DEF q, i
  <2>6. CASE q = o
    <3>1. o \in Funds => i <= count'[o] BY <1>0, <1>3, <2>2, <2>3, <2>6
    <3>2. o \in Claims => i <= count'[o] /\ pc'[o] \notin {"read", "send"}
      BY <1>0, <1>3, <2>2, <2>3, <2>6
    <3>3. o \in Resets => i = n /\ n < next'[o] BY <1>0, <1>3, <2>3, <2>4, <2>6
    <3>4. o \in Singles => pc'[o] \notin {"read", "send"} BY <1>3
    <3>5. pc'[o] # "idle" BY <1>3
    <3> QED BY <2>1, <2>6, <3>1, <3>2, <3>3, <3>4, <3>5 DEF q, i
  <2> QED BY <2>5, <2>6
<1> QED BY <1>4, <1>5

\* No step makes an operation forget what it has sent.
LEMMA StepKeepsSent == IInv /\ SentOnce /\ [Next]_vars => SentOnce'
<1> SUFFICES ASSUME IInv, SentOnce, [Next]_vars PROVE SentOnce'
  OBVIOUS
<1>0. /\ pc \in [Ops -> {"idle"} \cup Working \cup Over]
      /\ count \in [Ops -> 0 .. Size] /\ next \in [Ops -> Nat]
      /\ slot \in [Nonce -> Tx \cup {NoTx}]
      /\ \A q \in Ops : count[q] \in Nat
  BY AccountAssumption DEF IInv, TypeOK
<1>1. CASE Mine BY <1>1 DEF Mine, opVars, SentOnce
<1>2. CASE Crash
  <2>1. UNCHANGED <<slot, count, next>> BY <1>2 DEF Crash, opVars, nodeVars
  <2>2. \A q \in Ops : pc'[q] = pc[q] \/ pc'[q] = "dead" BY <1>2 DEF Crash
  <2>3. \A n \in Nonce : slot[n] # NoTx => slot[n].by \in Ops BY <1>0 DEF Tx
  <2> QED BY <2>1, <2>2, <2>3 DEF SentOnce
<1>3. CASE UNCHANGED vars BY <1>3 DEF vars, opVars, nodeVars, SentOnce
<1>4. ASSUME NEW o \in Ops, OpStep(o) PROVE SentOnce'
  <2> USE <1>0, KindsDisjoint DEF Goto, opVars, nodeVars
  <2>1. CASE SendTransfer(o) \/ SendCall(o) \/ Replace(o) BY <2>1, SendKeepsSent
  <2>2. CASE CheckNonceHealth(o)
    BY <2>2, SentUntouched DEF CheckNonceHealth, RememberOver, Ops
  <2>3. CASE SimulateSkip(o) \/ SimulateClaimable(o)
    BY <2>3, AccountAssumption, SentUntouched DEF SimulateSkip, SimulateClaimable, IInv, Counting
  <2>4. CASE ReadNonce(o)
    <3>1. Pending \in Nat BY AccountAssumption, PendingIsEnd DEF IInv
    <3>2. o \notin Resets BY <2>4 DEF ReadNonce, IInv, Counting, Over
    <3> QED BY <2>4, <3>1, <3>2, SentUntouched DEF ReadNonce
  <2>5. CASE Diagnose(o)
    <3>1. latest \in Nat BY AccountAssumption DEF IInv, TypeOK
    <3> QED BY <2>5, <3>1, SentUntouched DEF Diagnose
  <2>6. CASE ClaimEnd(o) \/ SendError(o) \/ Confirmed(o) \/ Unconfirmed(o) \/ StepError(o)
    BY <2>6, SentUntouched DEF ClaimEnd, SendError, Confirmed, Unconfirmed, StepError
  <2>7. CASE ClaimWaited(o) BY <2>7, SentUntouched DEF ClaimWaited
  <2> QED BY <1>4, <2>1, <2>2, <2>3, <2>4, <2>5, <2>6, <2>7 DEF OpStep
<1> QED BY <1>1, <1>2, <1>3, <1>4 DEF Next

\* The end of the nonces in use is where the node's answer is.
LEMMA PendingUnique ==
  ASSUME NEW p \in 0 .. MaxNonce + 1, NEW s,
         \A n \in Nonce : s[n] # NoTx <=> n < p
  PROVE  (CHOOSE q \in 0 .. MaxNonce + 1 :
            /\ \A n \in Nonce : n < q => s[n] # NoTx
            /\ q \in Nonce => s[q] = NoTx) = p
<1> DEFINE Ends(q) == /\ \A n \in Nonce : n < q => s[n] # NoTx
                      /\ q \in Nonce => s[q] = NoTx
<1>1. Ends(p) BY AccountAssumption DEF Nonce
<1>2. ASSUME NEW q \in 0 .. MaxNonce + 1, Ends(q) PROVE q = p
  <2>1. CASE q < p BY <1>2, <2>1, AccountAssumption DEF Nonce
  <2>2. CASE p < q BY <1>2, <2>2, AccountAssumption DEF Nonce
  <2> QED BY <2>1, <2>2, AccountAssumption
<1> HIDE DEF Ends
<1>3. (CHOOSE q \in 0 .. MaxNonce + 1 : Ends(q)) = p BY <1>1, <1>2
<1> QED BY <1>3 DEF Ends

\* The transactions at the nonces in use, as a list.
LEMMA ListOf ==
  ASSUME NEW p \in Nat, NEW s, \A n \in 0 .. p - 1 : s[n] \in Tx
  PROVE  LET list == [i \in 1 .. p |-> s[i - 1]]
         IN  /\ Len(list) = p /\ DOMAIN list = 1 .. p
             /\ \A i \in 1 .. p : list[i] = s[i - 1]
<1> DEFINE list == [i \in 1 .. p |-> s[i - 1]]
<1>1. DOMAIN list = 1 .. p /\ \A i \in 1 .. p : list[i] = s[i - 1] OBVIOUS
<1>2. \A i \in 1 .. p : list[i] \in Tx OBVIOUS
<1>3. list \in Seq(Tx)
  <2>1. list \in [1 .. p -> Tx] BY <1>2
  <2> HIDE DEF list
  <2> QED BY <2>1, SeqDef
<1>4. Len(list) \in Nat /\ DOMAIN list = 1 .. Len(list) BY <1>3, LenProperties
<1> HIDE DEF list
<1>5. Len(list) = p BY <1>1, <1>4
<1> QED BY <1>1, <1>5 DEF list

\* The list of the account, as the node has it.
Payments == [i \in 1 .. Pending |-> slot[i - 1]]

\* An accepted transaction is a new payment at the end of the list, or outbids
\* one that is not settled; a reset does only the latter.
LEMMA SendRefines ==
  ASSUME IInv, SentOnce, NEW o \in Ops, SendTransfer(o) \/ SendCall(o) \/ Replace(o)
  PROVE  Ledger!Next
<1> USE KindsDisjoint, AccountAssumption
<1>0. /\ count[o] \in Nat /\ next[o] \in Nat /\ pc[o] = "send" /\ fee[o] \in Nat
      /\ latest \in Nat /\ MaxNonce \in Nat
      /\ slot \in [Nonce -> Tx \cup {NoTx}] /\ latest' = latest
  BY DEF IInv, TypeOK, SendTransfer, SendCall, Replace
<1> DEFINE m == next[o]  p == Pending  end == IF m = p THEN p + 1 ELSE p
           new == Payments'
<1>1. PICK j \in Nat : /\ Put(m, o, j) /\ Accepts(m, fee[o])
                       /\ \/ o \in Funds /\ j = count[o] + 1
                          \/ o \in Claims \cup Singles /\ j = count[o]
                          \/ o \in Resets /\ j = m
  BY <1>0 DEF SendTransfer, SendCall, Replace
<1> DEFINE tx == [by |-> o, n |-> j, fee |-> fee[o]]
<1>2. m \in Nonce /\ m >= latest /\ (slot[m] # NoTx => slot[m].fee < fee[o])
  BY <1>1 DEF Accepts
<1>3. /\ p \in 0 .. MaxNonce + 1 /\ latest <= p
      /\ \A n \in Nonce : slot[n] # NoTx <=> n < p
  BY PendingIsEnd DEF IInv
<1>4. tx \in Tx /\ tx # NoTx BY <1>0 DEF Tx
<1>5. slot' = [slot EXCEPT ![m] = tx] BY <1>1 DEF Put
<1>6. slot'[m] = tx /\ \A n \in Nonce : n # m => slot'[n] = slot[n]
  BY <1>0, <1>2, <1>5
<1>7. m <= p /\ m < MaxNonce + 1 /\ m \in Nat
  <2>1. UsedBelow(m) BY <1>0 DEF IInv, Counting
  <2> QED BY <1>0, <1>2, <1>3, <2>1 DEF UsedBelow, Nonce
<1>8. end \in 0 .. MaxNonce + 1 /\ \A n \in Nonce : slot'[n] # NoTx <=> n < end
  <2>1. end \in 0 .. MaxNonce + 1 BY <1>0, <1>3, <1>7
  <2>2. ASSUME NEW n \in Nonce PROVE slot'[n] # NoTx <=> n < end
    <3>1. n \in Nat BY <1>0 DEF Nonce
    <3>2. CASE n = m BY <1>0, <1>3, <1>4, <1>6, <1>7, <3>2
    <3>3. CASE n # m BY <1>0, <1>3, <1>6, <1>7, <3>1, <3>3
    <3> QED BY <3>2, <3>3
  <2> QED BY <2>1, <2>2
<1>9. Pending' = end
  <2> HIDE DEF end
  <2> QED BY <1>8, PendingUnique DEF Pending
<1>10. /\ Len(Payments) = p /\ DOMAIN Payments = 1 .. p
       /\ \A i \in 1 .. p : Payments[i] = slot[i - 1]
  <2>1. \A n \in 0 .. p - 1 : slot[n] \in Tx BY <1>0, <1>3 DEF Nonce
  <2> HIDE DEF p
  <2>2. p \in Nat BY <1>0, <1>3
  <2> QED BY <2>1, <2>2, ListOf DEF Payments, p
<1>11. /\ Len(new) = end /\ DOMAIN new = 1 .. end
       /\ \A i \in 1 .. end : new[i] = slot'[i - 1]
  <2>1. \A n \in 0 .. end - 1 : slot'[n] \in Tx
    <3>1. slot' \in [Nonce -> Tx \cup {NoTx}] BY <1>0, <1>2, <1>4, <1>5
    <3>2. end \in 0 .. MaxNonce + 1 BY <1>8
    <3> HIDE DEF end
    <3> QED BY <1>0, <1>8, <3>1, <3>2 DEF Nonce
  <2>2. end \in Nat BY <1>0, <1>8
  <2>3. new = [i \in 1 .. end |-> slot'[i - 1]] BY <1>9 DEF Payments
  <2> HIDE DEF end, new
  <2> QED BY <2>1, <2>2, <2>3, ListOf
<1>12. \A i \in DOMAIN Payments : Payments[i].by # o \/ Payments[i].n # j
  <2>1. \A n \in Nonce : slot[n] # NoTx => slot[n].by # o \/ slot[n].n # j
    BY <1>0, <1>1, SendIsNew
  <2> SUFFICES ASSUME NEW i \in 1 .. p
               PROVE  Payments[i].by # o \/ Payments[i].n # j
    BY <1>10
  <2>2. i - 1 \in Nonce /\ i - 1 < p BY <1>0, <1>3 DEF Nonce
  <2>3. slot[i - 1] # NoTx BY <1>3, <2>2
  <2> QED BY <1>10, <2>1, <2>2, <2>3
<1>13. tx.by = o /\ tx.n = j /\ tx.fee = fee[o] OBVIOUS
<1> HIDE DEF tx, new
<1>14. CASE m = p
  <2>1. Len(new) = Len(Payments) + 1 BY <1>10, <1>11, <1>14
  <2>2. \A i \in DOMAIN Payments : new[i] = Payments[i]
    <3> SUFFICES ASSUME NEW i \in 1 .. p PROVE new[i] = Payments[i] BY <1>10
    <3>1. i - 1 \in Nonce /\ i - 1 # m /\ i \in 1 .. end BY <1>0, <1>3, <1>14 DEF Nonce
    <3> QED BY <1>6, <1>10, <1>11, <3>1
  <2>3. new[Len(new)] = tx
    <3>1. p \in Nat BY <1>0, <1>3
    <3>2. end = p + 1 BY <1>14
    <3>3. Len(new) = p + 1 BY <1>11, <3>2
    <3>4. p + 1 \in 1 .. end /\ (p + 1) - 1 = p
      <4> HIDE DEF end, p
      <4> QED BY <3>1, <3>2
    <3>5. new[p + 1] = slot'[p] BY <1>11, <3>4
    <3> QED BY <1>6, <1>14, <3>3, <3>5
  <2>4. o \notin Resets
    <3>1. ASSUME o \in Resets PROVE FALSE
      <4>1. UsedBelow(until[o]) /\ m < until[o] BY <1>0, <3>1 DEF IInv, Counting
      <4>2. slot[m] # NoTx BY <1>2, <4>1 DEF UsedBelow
      <4> QED BY <1>0, <1>2, <1>3, <1>14, <4>2
    <3> QED BY <3>1
  <2>5. /\ \A i \in DOMAIN Payments : \/ Payments[i].by # new[Len(new)].by
                                       \/ Payments[i].n # new[Len(new)].n
        /\ new[Len(new)].by \notin Resets
    BY <1>12, <1>13, <2>3, <2>4
  <2>6. Ledger!Submit
    BY <1>0, <2>1, <2>2, <2>5, ZenonT(40)
    DEF Ledger!Submit, Ledger!IsNew, Payments, new
  <2> QED BY <2>6 DEF Ledger!Next
<1>15. CASE m # p
  <2>1. m < p /\ slot[m] # NoTx BY <1>0, <1>2, <1>3, <1>7, <1>15
  <2>2. Len(new) = Len(Payments) BY <1>10, <1>11, <1>15
  <2>3. m + 1 \in latest + 1 .. p /\ m + 1 \in 1 .. p /\ (m + 1) - 1 = m
    BY <1>0, <1>2, <1>3, <1>7, <2>1
  <2>4. \A i \in DOMAIN Payments : i # m + 1 => new[i] = Payments[i]
    <3> SUFFICES ASSUME NEW i \in 1 .. p, i # m + 1 PROVE new[i] = Payments[i] BY <1>10
    <3>1. i - 1 \in Nonce /\ i - 1 # m /\ i \in 1 .. end
      BY <1>0, <1>3, <1>7, <1>15 DEF Nonce
    <3> QED BY <1>6, <1>10, <1>11, <3>1
  <2>5. new[m + 1] = tx /\ Payments[m + 1] = slot[m]
    BY <1>6, <1>10, <1>11, <1>15, <2>3
  <2>6. Payments[m + 1].fee < new[m + 1].fee BY <1>2, <1>13, <2>1, <2>5
  <2>7. m + 1 \in latest + 1 .. Len(Payments) BY <1>10, <2>3
  <2>8. ASSUME NEW i \in latest + 1 .. Len(Payments), i = m + 1
        PROVE  Ledger!Outbid(i)
    <3>1. \A l \in DOMAIN Payments : l # i => new[l] = Payments[l] BY <2>4, <2>8
    <3>2. Payments[i].fee < new[i].fee BY <2>6, <2>8
    <3>3. \A l \in DOMAIN Payments : \/ Payments[l].by # new[i].by
                                    \/ Payments[l].n # new[i].n
      BY <1>12, <1>13, <2>5, <2>8
    <3> QED BY <1>0, <2>2, <3>1, <3>2, <3>3, Zenon
            DEF Ledger!Outbid, Ledger!IsNew, Payments, new
  <2>9. \E i \in latest + 1 .. Len(Payments) : Ledger!Outbid(i)
    <3>1. PICK i \in latest + 1 .. Len(Payments) : i = m + 1 BY <2>7
    <3>2. Ledger!Outbid(i) BY <2>8, <3>1
    <3> QED BY <3>2
  <2> QED BY <2>9, Zenon DEF Ledger!Next, Payments
<1> QED BY <1>14, <1>15

\* A mined transaction is the next payment that is settled.
LEMMA MineRefines == IInv /\ Mine => Ledger!Settle
<1> SUFFICES ASSUME IInv, Mine PROVE Ledger!Settle
  OBVIOUS
<1>1. /\ Pending \in 0 .. MaxNonce + 1 /\ latest <= Pending
      /\ \A n \in Nonce : slot[n] # NoTx <=> n < Pending
  BY PendingIsEnd DEF IInv
<1>2. latest < Pending /\ latest' = latest + 1 /\ slot' = slot
  BY <1>1 DEF Mine
<1>3. Payments' = Payments BY <1>2 DEF Payments, Pending
<1>4. Len(Payments) = Pending
  <2>1. \A n \in 0 .. Pending - 1 : slot[n] \in Tx
    BY <1>1, AccountAssumption DEF Nonce, IInv, TypeOK
  <2>2. Pending \in Nat BY <1>1, AccountAssumption
  <2> QED BY <2>1, <2>2, ListOf DEF Payments
<1> QED BY <1>2, <1>3, <1>4 DEF Ledger!Settle, Payments

\* Whatever the operations do concurrently, the node refuses, answers are lost
\* and processes die, the account is a list of payments made once.
THEOREM AccountIsLedger == Spec => ImplementsLedger
<1>1. Init => SentOnce /\ Ledger!Init
  <2> SUFFICES ASSUME Init PROVE SentOnce /\ Ledger!Init
    OBVIOUS
  <2>1. SentOnce BY DEF Init, SentOnce
  <2>2. Pending = 0
    <3>1. 0 \in 0 .. MaxNonce + 1 BY AccountAssumption
    <3>2. \A n \in Nonce : slot[n] # NoTx <=> n < 0
      BY AccountAssumption DEF Init, Nonce
    <3> QED BY <3>1, <3>2, PendingUnique DEF Pending
  <2>3. Payments = <<>>
    BY <2>2 DEF Payments
  <2> QED BY <2>1, <2>3 DEF Init, Ledger!Init, Payments
<1>2. IInv /\ SentOnce /\ [Next]_vars => [Ledger!Next]_(Ledger!vars)
  <2> SUFFICES ASSUME IInv, SentOnce, [Next]_vars
               PROVE  Ledger!Next \/ UNCHANGED Ledger!vars
    OBVIOUS
  <2>1. ASSUME UNCHANGED <<slot, latest>> PROVE UNCHANGED Ledger!vars
    BY <2>1 DEF Ledger!vars, Pending
  <2>2. CASE Mine BY <2>2, MineRefines DEF Ledger!Next
  <2>3. CASE Crash BY <2>1, <2>3 DEF Crash, nodeVars
  <2>4. CASE UNCHANGED vars BY <2>1, <2>4 DEF vars
  <2>5. ASSUME NEW o \in Ops, OpStep(o)
        PROVE  Ledger!Next \/ UNCHANGED Ledger!vars
    <3>1. CASE SendTransfer(o) \/ SendCall(o) \/ Replace(o) BY <3>1, SendRefines
    <3>2. CASE ~(SendTransfer(o) \/ SendCall(o) \/ Replace(o))
      BY <2>1, <2>5, <3>2
      DEF OpStep, CheckNonceHealth, SimulateSkip, SimulateClaimable, ClaimEnd,
          ReadNonce, SendError, Confirmed, Unconfirmed, ClaimWaited, Diagnose,
          StepError, nodeVars
    <3> QED BY <3>1, <3>2
  <2> QED BY <2>2, <2>3, <2>4, <2>5 DEF Next
<1> QED BY <1>1, <1>2, StepKeepsSent, AccountInvariance, PTL
        DEF Spec, ImplementsLedger, Ledger!Spec
=============================================================================
