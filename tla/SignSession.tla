---------------------------- MODULE SignSession ----------------------------
(***************************************************************************)
(* Two-party signing: mpcSign and mpcSignWithChain, called by the approve, *)
(* add, sweep and upgrade goroutines.  Each call takes the time as its     *)
(* session id, and all its contexts are in one map under that id, which is *)
(* read again at every step.  Two calls in one millisecond share a slot.   *)
(*                                                                         *)
(* A call stands for the message it has to sign, and for the SignContext   *)
(* that it makes.  That the key of its address is in keys.db is the        *)
(* concern of BatchSetup and ManagerActivation.                            *)
(***************************************************************************)
CONSTANTS
  Calls,    \* calls of mpcSign
  Ids,      \* milliseconds
  NoCall,
  NoId

ASSUME SignAssumption ==
  /\ NoCall \notin Calls
  /\ NoId \notin Ids

VARIABLES
  pc,        \* where each call is
  id,        \* its signID
  sessions,  \* SignSessions: whose context is stored under an id
  step1,     \* contexts with a Step1Msg
  step3,     \* contexts with a Step3Data
  held,      \* the context that HandleSignStep2Response works on
  answer,    \* the message that the answer to its step 2 is for
  result,    \* whose signature it returned
  server,    \* the message the MPC server has for an id
  checked,   \* calls whose transaction the guard has seen
  met,       \* calls that worked under the same id at the same time
  panicked   \* calls that read a missing Step3Data

callVars   == <<held, answer, result>>
memoryVars == <<sessions, step1, step3>>
serverVars == <<server, checked>>
vars == <<pc, id, sessions, step1, step3, held, answer, result, server, checked,
          met, panicked>>

Prepared == {"init", "step1", "step1Sent", "storeStep1", "step2", "step2Sent",
             "read", "store", "fetch"}
Working  == {"prepare"} \cup Prepared

TypeOK ==
  /\ pc \in [Calls -> {"idle", "done", "failed", "dead"} \cup Working]
  /\ id \in [Calls -> Ids \cup {NoId}]
  /\ sessions \in [Ids -> Calls \cup {NoCall}]
  /\ step1 \in SUBSET Calls
  /\ step3 \in SUBSET Calls
  /\ held \in [Calls -> Calls \cup {NoCall}]
  /\ answer \in [Calls -> Calls \cup {NoCall}]
  /\ result \in [Calls -> Calls \cup {NoCall}]
  /\ server \in [Ids -> Calls \cup {NoCall}]
  /\ checked \in SUBSET Calls
  /\ met \in [Calls -> SUBSET Calls]
  /\ panicked \in SUBSET Calls

Init ==
  /\ pc = [c \in Calls |-> "idle"]
  /\ id = [c \in Calls |-> NoId]
  /\ sessions = [i \in Ids |-> NoCall]
  /\ step1 = {}
  /\ step3 = {}
  /\ held = [c \in Calls |-> NoCall]
  /\ answer = [c \in Calls |-> NoCall]
  /\ result = [c \in Calls |-> NoCall]
  /\ server = [i \in Ids |-> NoCall]
  /\ checked = {}
  /\ met = [c \in Calls |-> {}]
  /\ panicked = {}

Goto(c, label) == pc' = [pc EXCEPT ![c] = label]

\* Without the context of its id a call cannot go on.
Context(c) == sessions[id[c]]

-----------------------------------------------------------------------------
\* time.Now().UnixMilli(): clocks stand still, are set back, and start again
\* with the next process.
TakeId(c) ==
  /\ pc[c] = "idle"
  /\ \E i \in Ids :
       LET beside == { q \in Calls : pc[q] \in Working /\ id[q] = i }
       IN  /\ id' = [id EXCEPT ![c] = i]
           /\ met' = [q \in Calls |-> IF q = c THEN beside
                                      ELSE IF q \in beside THEN met[q] \cup {c}
                                      ELSE met[q]]
  /\ Goto(c, "prepare")
  /\ UNCHANGED <<memoryVars, callVars, serverVars, panicked>>

\* Mutant: a signature that is there already under the id is used as it is.
PrepareOrReuse(c) ==
  /\ pc[c] = "prepare"
  /\ \/ /\ Context(c) \in step3
        /\ Goto(c, "fetch")
        /\ UNCHANGED sessions
     \/ /\ Context(c) \notin step3
        /\ Goto(c, "init")
        /\ sessions' = [sessions EXCEPT ![id[c]] = c]
  /\ UNCHANGED <<id, step1, step3, callVars, serverVars, met, panicked>>

\* PrepareSignInit
Prepare(c) ==
  /\ pc[c] = "prepare"
  /\ sessions' = [sessions EXCEPT ![id[c]] = c]
  /\ Goto(c, "init")
  /\ UNCHANGED <<id, step1, step3, callVars, serverVars, met, panicked>>

\* The guard checks the transaction against the message before the MPC server
\* takes it; the answer may be lost.
InitAccepted(c) ==
  /\ pc[c] = "init"
  /\ server' = [server EXCEPT ![id[c]] = c]
  /\ checked' = checked \cup {c}
  /\ Goto(c, "step1") \/ Goto(c, "failed")
  /\ UNCHANGED <<id, memoryVars, callVars, met, panicked>>

\* PrepareSignStep1
SendStep1(c) ==
  /\ pc[c] = "step1"
  /\ Goto(c, "step1Sent")
  /\ UNCHANGED <<id, memoryVars, callVars, serverVars, met, panicked>>

\* HandleSignStep1Response and HandleSignStep2Response read the context, which
\* may be another one by now, and store it again afterwards.
ReadContext(c) ==
  /\ pc[c] \in {"step1Sent", "read"}
  /\ held' = [held EXCEPT ![c] = Context(c)]
  /\ Goto(c, IF pc[c] = "read" THEN "store" ELSE "storeStep1")
  /\ UNCHANGED <<id, memoryVars, answer, result, serverVars, met, panicked>>

StoreStep1(c) ==
  /\ pc[c] = "storeStep1"
  /\ sessions' = [sessions EXCEPT ![id[c]] = held[c]]
  /\ step1' = step1 \cup {held[c]}
  /\ Goto(c, "step2")
  /\ UNCHANGED <<id, step3, callVars, serverVars, met, panicked>>

\* PrepareSignStep2
SendStep2(c) ==
  /\ pc[c] = "step2"
  /\ Context(c) \in step1
  /\ Goto(c, "step2Sent")
  /\ UNCHANGED <<id, memoryVars, callVars, serverVars, met, panicked>>

\* The MPC server answers for the message it has.
AnswerStep2(c) ==
  /\ pc[c] = "step2Sent"
  /\ answer' = [answer EXCEPT ![c] = server[id[c]]]
  /\ Goto(c, "read")
  /\ UNCHANGED <<id, memoryVars, held, result, serverVars, met, panicked>>

\* Mutants: a signature that does not fit is kept, or its error is dropped.
StoreUnverified(c) ==
  /\ pc[c] = "store"
  /\ sessions' = [sessions EXCEPT ![id[c]] = held[c]]
  /\ step3' = step3 \cup {held[c]}
  /\ Goto(c, "fetch")
  /\ UNCHANGED <<id, step1, callVars, serverVars, met, panicked>>

StoreDropped(c) ==
  /\ pc[c] = "store"
  /\ sessions' = [sessions EXCEPT ![id[c]] = held[c]]
  /\ \/ answer[c] = held[c] /\ step3' = step3 \cup {held[c]}
     \/ UNCHANGED step3
  /\ Goto(c, "fetch")
  /\ UNCHANGED <<id, step1, callVars, serverVars, met, panicked>>

\* Step3, GetSignByRS: a signature for another message is an error.
Store(c) ==
  /\ pc[c] = "store"
  /\ sessions' = [sessions EXCEPT ![id[c]] = held[c]]
  /\ \/ /\ answer[c] = held[c]
        /\ step3' = step3 \cup {held[c]}
        /\ Goto(c, "fetch")
     \/ Goto(c, "failed") /\ UNCHANGED step3
  /\ UNCHANGED <<id, step1, callVars, serverVars, met, panicked>>

Die ==
  /\ pc' = [c \in Calls |-> IF pc[c] \in Working THEN "dead" ELSE pc[c]]
  /\ sessions' = [i \in Ids |-> NoCall]
  /\ step1' = {}
  /\ step3' = {}

\* GetSignCtx: signCtx.Step3Data.Sign
Fetch(c) ==
  /\ pc[c] = "fetch"
  /\ Context(c) \in step3
  /\ result' = [result EXCEPT ![c] = Context(c)]
  /\ Goto(c, "done")
  /\ UNCHANGED <<id, memoryVars, held, answer, serverVars, met, panicked>>

\* The context is a new one without Step3Data: a nil pointer, and the end of
\* the process.
FetchNil(c) ==
  /\ pc[c] = "fetch"
  /\ Context(c) \notin step3
  /\ panicked' = panicked \cup {c}
  /\ Die
  /\ UNCHANGED <<id, callVars, serverVars, met>>

\* A request fails, the server or the protocol refuses.
StepError(c) ==
  /\ pc[c] \in {"prepare", "init", "step1", "step1Sent", "step2", "step2Sent"}
  /\ Goto(c, "failed")
  /\ UNCHANGED <<id, memoryVars, callVars, serverVars, met, panicked>>

\* The process dies; the map was in its memory.
Crash ==
  /\ \E c \in Calls : pc[c] \in Working
  /\ Die
  /\ UNCHANGED <<id, callVars, serverVars, met, panicked>>

CallStep(c) ==
  \/ TakeId(c) \/ Prepare(c) \/ InitAccepted(c) \/ SendStep1(c)
  \/ ReadContext(c) \/ StoreStep1(c) \/ SendStep2(c) \/ AnswerStep2(c)
  \/ Store(c) \/ Fetch(c) \/ FetchNil(c) \/ StepError(c)

Next == Crash \/ \E c \in Calls : CallStep(c)

Spec == Init /\ [][Next]_vars

-----------------------------------------------------------------------------
(* Properties.                                                             *)

\* A call that no other one met under its id returns the signature of its own
\* message, though ids are used again and what others left is in the map and at
\* the server (mpcSign).
OwnSignature ==
  \A c \in Calls : pc[c] = "done" /\ met[c] = {} => result[c] = c

\* The process panics in a call only if another one met it under its id.
PanicOnlyWhenShared == \A c \in panicked : met[c] # {}

\* Whatever contexts two calls exchange, a signature is made only for a message
\* whose transaction the guard has seen (txInfo of SignInit).
SignedWasChecked ==
  /\ step3 \subseteq checked
  /\ \A c \in Calls : pc[c] = "done" => result[c] \in checked

-----------------------------------------------------------------------------
(* The inductive invariant.                                                *)

\* A call past its preparation finds a context, and finds its own as long as
\* no other call has met it.
OwnContext ==
  \A c \in Calls :
    /\ pc[c] = "idle" => c \notin panicked
    /\ pc[c] \in Working => id[c] \in Ids
    /\ pc[c] \in Prepared => sessions[id[c]] # NoCall
    /\ pc[c] \in {"storeStep1", "store"} => held[c] # NoCall
    /\ pc[c] \in Prepared /\ met[c] = {} => sessions[id[c]] = c
    /\ pc[c] \in {"storeStep1", "store"} /\ met[c] = {} => held[c] = c
    /\ pc[c] = "fetch" /\ met[c] = {} => c \in step3

\* Calls that work under one id have met.
Meeting ==
  \A c, q \in Calls :
    pc[c] \in Working /\ pc[q] \in Working /\ c # q /\ id[c] = id[q] => q \in met[c]

\* The server has only messages that the guard has seen.
ServerChecked ==
  /\ \A i \in Ids : server[i] \in checked \cup {NoCall}
  /\ \A c \in Calls : answer[c] \in checked \cup {NoCall}

\* What the signing properties rest on.
IInv ==
  /\ TypeOK /\ OwnContext /\ Meeting /\ ServerChecked
  /\ OwnSignature /\ PanicOnlyWhenShared /\ SignedWasChecked
=============================================================================
