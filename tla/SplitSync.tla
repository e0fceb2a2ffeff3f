----------------------------- MODULE SplitSync -----------------------------
(***************************************************************************)
(* FetchSplitWallets: the split wallets of a merchant, read from the       *)
(* payment server and written row by row to split_wallet, from which the   *)
(* pages list them.                                                        *)
(*                                                                         *)
(* The pages synchronise on the GUI thread, which switches no wallet       *)
(* meanwhile.  An activation and a batch set-up synchronise on goroutines  *)
(* of their own: their answers may be overtaken, and the wallet may be     *)
(* switched between request and write.                                     *)
(***************************************************************************)
EXTENDS Naturals

CONSTANTS
  Splits, Merchants,
  Owner,          \* the merchant of each split wallet
  Gui, Routines,  \* the GUI thread, and bounds on the goroutines
  NoMerchant, NoSplit

ASSUME SplitAssumption ==
  /\ Owner \in [Splits -> Merchants]
  /\ NoMerchant \notin Merchants
  /\ NoSplit \notin Splits
  /\ Gui \notin Routines

Threads == Routines \cup {Gui}

VARIABLES
  server,    \* the state the server has of each split wallet, 0 not deployed
  state,     \* split_wallet.state
  manager,   \* rows with a split_wallet_manager
  merchant,  \* split_wallet.merchant, NoMerchant where there is no row
  address,   \* the wallet in the WalletContext
  pc,        \* the step of each thread
  asked,     \* the merchant of its request
  stored,    \* the merchant it stores new rows with
  answer,    \* the states in the answer of the server
  todo,      \* records it has not come to
  cur,       \* the row it has inserted and not completed
  crossed,   \* the wallet was switched between a request and its rows
  overlap    \* two synchronisations overlapped

rowVars == <<state, manager, merchant>>
ghosts  == <<crossed, overlap>>
vars == <<server, state, manager, merchant, address, pc, asked, stored, answer,
          todo, cur, crossed, overlap>>

PENDING_MANAGER == 4
MANAGER_GENERATED == 5
ACTIVE == 7
Ladder == {0} \cup PENDING_MANAGER .. ACTIVE

Asking  == {"sign", "asked"}
Syncing == Asking \cup {"answered", "rows", "fill"}

TypeOK ==
  /\ server \in [Splits -> Ladder]
  /\ state \in [Splits -> Ladder]
  /\ manager \in SUBSET Splits
  /\ merchant \in [Splits -> Merchants \cup {NoMerchant}]
  /\ address \in Merchants
  /\ pc \in [Threads -> Syncing \cup {"idle"}]
  /\ asked \in [Threads -> Merchants \cup {NoMerchant}]
  /\ stored \in [Threads -> Merchants \cup {NoMerchant}]
  /\ answer \in [Threads -> [Splits -> Ladder]]
  /\ todo \in [Threads -> SUBSET Splits]
  /\ cur \in [Threads -> Splits \cup {NoSplit}]
  /\ crossed \in BOOLEAN
  /\ overlap \in BOOLEAN

HasRow(s) == merchant[s] # NoMerchant

Idle ==
  /\ pc = [t \in Threads |-> "idle"]
  /\ asked = [t \in Threads |-> NoMerchant]
  /\ stored = [t \in Threads |-> NoMerchant]
  /\ answer = [t \in Threads |-> [s \in Splits |-> 0]]
  /\ todo = [t \in Threads |-> {}]
  /\ cur = [t \in Threads |-> NoSplit]

\* A keys.db that is new, or that an older version has made: ensureColumns has
\* given its rows the state 0 and copied their managers, or died in between and
\* never copies them again.
Init ==
  /\ \E old \in SUBSET Splits :
       /\ merchant = [s \in Splits |-> IF s \in old THEN Owner[s] ELSE NoMerchant]
       /\ manager \in {{}, old}
       /\ server = [s \in Splits |-> IF s \in old THEN MANAGER_GENERATED ELSE 0]
  /\ state = [s \in Splits |-> 0]
  /\ address \in Merchants
  /\ crossed = FALSE
  /\ overlap = FALSE
  /\ Idle

-----------------------------------------------------------------------------
(* The payment server and the user.                                        *)

Above(n) == IF n = 0 THEN PENDING_MANAGER ELSE n + 1

\* A split wallet is deployed, gets its manager, is activated.
ServerAdvances(s) ==
  /\ server[s] < ACTIVE
  /\ server' = [server EXCEPT ![s] = Above(@)]
  /\ UNCHANGED <<rowVars, address, pc, asked, stored, answer, todo, cur, ghosts>>

\* Mutant: the pages synchronise on goroutines of their own.
SwitchAnyTime(m) ==
  /\ address' = m
  /\ crossed' = (crossed \/
       (m # address /\ \E t \in Routines : pc[t] \in {"asked", "answered"}))
  /\ UNCHANGED <<server, rowVars, pc, asked, stored, answer, todo, cur, overlap>>

\* SetDefaultWallet, SetDefaultChain: on the GUI thread.
SwitchWallet(m) ==
  /\ pc[Gui] = "idle"
  /\ address' = m
  /\ crossed' = (crossed \/
       (m # address /\ \E t \in Routines : pc[t] \in {"asked", "answered"}))
  /\ UNCHANGED <<server, rowVars, pc, asked, stored, answer, todo, cur, overlap>>

-----------------------------------------------------------------------------
(* FetchSplitWallets.                                                      *)

Goto(t, step) == pc' = [pc EXCEPT ![t] = step]

\* The body of the request names the merchant of the context.
Request(t) ==
  /\ pc[t] = "idle"
  /\ asked' = [asked EXCEPT ![t] = address]
  /\ Goto(t, "sign")
  /\ overlap' = (overlap \/ \E u \in Threads : pc[u] # "idle")
  /\ UNCHANGED <<server, rowVars, address, stored, answer, todo, cur, crossed>>

\* signWithMerchantKey reads the key of the context; the server accepts it from
\* the merchant in the body alone.
Sign(t) ==
  /\ pc[t] = "sign"
  /\ address = asked[t]
  /\ Goto(t, "asked")
  /\ UNCHANGED <<server, rowVars, address, asked, stored, answer, todo, cur, ghosts>>

\* The split wallets of the merchant that are deployed.
ServerAnswers(t) ==
  /\ pc[t] = "asked"
  /\ answer' = [answer EXCEPT ![t] =
       [s \in Splits |-> IF Owner[s] = asked[t] THEN server[s] ELSE 0]]
  /\ Goto(t, "answered")
  /\ UNCHANGED <<server, rowVars, address, asked, stored, todo, cur, ghosts>>

\* The answer arrives; the context is read again for the merchant of the rows.
Take(t) ==
  /\ pc[t] = "answered"
  /\ stored' = [stored EXCEPT ![t] = address]
  /\ todo' = [todo EXCEPT ![t] = { s \in Splits : answer[t][s] # 0 }]
  /\ Goto(t, "rows")
  /\ UNCHANGED <<server, rowVars, address, asked, answer, cur, ghosts>>

\* The manager a record carries, if it has one.
ManagerOf(t, s) == IF answer[t][s] >= MANAGER_GENERATED THEN {s} ELSE {}

\* Mutant: an empty manager is written like any other.
ClearManager(t, s) == manager' = (manager \ {s}) \cup ManagerOf(t, s)

KeepManager(t, s) == manager' = manager \cup ManagerOf(t, s)

\* Mutant: a row that exists is replaced.
ReplaceRow(t, s) ==
  /\ pc[t] = "rows"
  /\ s \in todo[t]
  /\ merchant' = [merchant EXCEPT ![s] = stored[t]]
  /\ state' = [state EXCEPT ![s] = 0]
  /\ KeepManager(t, s)
  /\ todo' = [todo EXCEPT ![t] = @ \ {s}]
  /\ cur' = [cur EXCEPT ![t] = s]
  /\ Goto(t, "fill")
  /\ UNCHANGED <<server, address, asked, stored, answer, ghosts>>

\* A row that exists: state and manager in one update, an empty manager left
\* out, the merchant never.
UpdateRow(t, s) ==
  /\ pc[t] = "rows"
  /\ s \in todo[t]
  /\ HasRow(s)
  /\ state' = [state EXCEPT ![s] = answer[t][s]]
  /\ KeepManager(t, s)
  /\ todo' = [todo EXCEPT ![t] = @ \ {s}]
  /\ UNCHANGED <<server, merchant, address, pc, asked, stored, answer, cur, ghosts>>

\* A row that does not: AddSplitWithManager stores it in state 0.
InsertRow(t, s) ==
  /\ pc[t] = "rows"
  /\ s \in todo[t]
  /\ ~HasRow(s)
  /\ merchant' = [merchant EXCEPT ![s] = stored[t]]
  /\ state' = [state EXCEPT ![s] = 0]
  /\ KeepManager(t, s)
  /\ todo' = [todo EXCEPT ![t] = @ \ {s}]
  /\ cur' = [cur EXCEPT ![t] = s]
  /\ Goto(t, "fill")
  /\ UNCHANGED <<server, address, asked, stored, answer, ghosts>>

\* The second commit of a new row.
FillRow(t) ==
  /\ pc[t] = "fill"
  /\ state' = [state EXCEPT ![cur[t]] = answer[t][cur[t]]]
  /\ cur' = [cur EXCEPT ![t] = NoSplit]
  /\ Goto(t, "rows")
  /\ UNCHANGED <<server, manager, merchant, address, asked, stored, answer, todo, ghosts>>

\* All records are done, or an error ends the call between two of its steps.
Return(t) ==
  /\ pc[t] # "idle"
  /\ Goto(t, "idle")
  /\ asked' = [asked EXCEPT ![t] = NoMerchant]
  /\ stored' = [stored EXCEPT ![t] = NoMerchant]
  /\ answer' = [answer EXCEPT ![t] = [s \in Splits |-> 0]]
  /\ todo' = [todo EXCEPT ![t] = {}]
  /\ cur' = [cur EXCEPT ![t] = NoSplit]
  /\ UNCHANGED <<server, rowVars, address, ghosts>>

\* The process ends and is started again: the requests are lost, the rows that
\* were committed are not.
Crash ==
  /\ \E t \in Threads : pc[t] # "idle"
  /\ pc' = [t \in Threads |-> "idle"]
  /\ asked' = [t \in Threads |-> NoMerchant]
  /\ stored' = [t \in Threads |-> NoMerchant]
  /\ answer' = [t \in Threads |-> [s \in Splits |-> 0]]
  /\ todo' = [t \in Threads |-> {}]
  /\ cur' = [t \in Threads |-> NoSplit]
  /\ UNCHANGED <<server, rowVars, address, ghosts>>

Sync(t) ==
  \/ Sign(t) \/ ServerAnswers(t) \/ Take(t) \/ FillRow(t) \/ Return(t)
  \/ \E s \in Splits : UpdateRow(t, s) \/ InsertRow(t, s)

Next ==
  \/ Crash
  \/ \E s \in Splits : ServerAdvances(s)
  \/ \E m \in Merchants : SwitchWallet(m)
  \/ \E t \in Threads : Request(t) \/ Sync(t)

Spec == Init /\ [][Next]_vars

-----------------------------------------------------------------------------
(* ListSplitWalletsByChainAndMerchant, ListActiveSplitWallets.             *)

Listed == { s \in Splits : merchant[s] = address }
ListedActive == { s \in Listed : state[s] >= ACTIVE }

-----------------------------------------------------------------------------
(* Properties.                                                             *)

\* What the pages offer as active is active at the server, has a manager, and
\* is the current wallet's own (ListActiveSplitWallets), unless the wallet was
\* switched during a synchronisation: however late, stale, overlapped or cut
\* short the synchronisations were.
OfferedIsActive ==
  \A s \in ListedActive :
    /\ server[s] = ACTIVE
    /\ s \in manager
    /\ ~crossed => Owner[s] = address

\* A row past PENDING_MANAGER has its manager: the older of two answers does not
\* take it away, and a row half inserted or migrated without one is not past it
\* (SyncSplitWallets).
PastPendingHasManager ==
  \A s \in Splits : state[s] >= MANAGER_GENERATED => s \in manager

\* While synchronisations do not overlap, the state of a row only climbs, also
\* when one is cut short (split_mgr.go:84-116).
StateClimbs ==
  [][~overlap' => \A s \in Splits : HasRow(s) => state'[s] >= state[s]]_vars

\* gui_service.go:326: the pages list the split wallets of the current wallet.
ListedIsOwn == \A s \in Listed : Owner[s] = address

-----------------------------------------------------------------------------
(* The inductive invariant.                                                *)

\* No row is ahead of the server, nor is an answer on its way.
Behind ==
  \A s \in Splits :
    /\ state[s] <= server[s]
    /\ \A t \in Threads : answer[t][s] <= server[s]

\* The records of an answer are the split wallets of who has asked.
AnswerIsAskers ==
  \A t \in Threads, s \in Splits : answer[t][s] # 0 => Owner[s] = asked[t]

\* Without a switch in between, the rows are stored for who has asked; the GUI
\* thread needs no such luck.
StoredIsAsked ==
  /\ pc[Gui] \in Syncing => asked[Gui] = address
  /\ ~crossed => \A t \in Threads :
       /\ pc[t] \in {"asked", "answered"} => asked[t] = address
       /\ pc[t] \in {"rows", "fill"} => stored[t] = asked[t]

RowIsOwners ==
  /\ ~crossed => \A s \in Splits : HasRow(s) => merchant[s] = Owner[s]
  /\ \A s \in Splits : ~HasRow(s) => state[s] = 0

\* Where each thread is, and the row it has in hand.
InHand ==
  \A t \in Threads :
    /\ pc[t] \notin {"answered", "rows", "fill"} =>
         \A s \in Splits : answer[t][s] = 0
    /\ pc[t] \notin {"rows", "fill"} => todo[t] = {}
    /\ \A s \in todo[t] : answer[t][s] # 0
    /\ pc[t] \in {"rows", "fill"} => stored[t] # NoMerchant
    /\ pc[t] = "fill" =>
         /\ cur[t] \in Splits
         /\ HasRow(cur[t])
         /\ answer[t][cur[t]] # 0
         /\ answer[t][cur[t]] >= MANAGER_GENERATED => cur[t] \in manager

\* Without overlap one thread is at work, and no row is ahead of its answer.
Alone ==
  ~overlap =>
    /\ \A t, u \in Threads : pc[t] # "idle" /\ pc[u] # "idle" => t = u
    /\ \A t \in Threads, s \in Splits :
         answer[t][s] # 0 => state[s] <= answer[t][s]

\* What the rows owe to the server, to the request and to each other
\* (FetchSplitWallets, SyncSplitWallets).
IInv ==
  /\ TypeOK
  /\ Behind
  /\ AnswerIsAskers
  /\ StoredIsAsked
  /\ RowIsOwners
  /\ InHand
  /\ Alone
  /\ PastPendingHasManager
=============================================================================
