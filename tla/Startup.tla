------------------------------ MODULE Startup ------------------------------
(***************************************************************************)
(* From the start of the process to the main page: the login page, the     *)
(* password in keys.db and in memory, MerchantClient.Start (challenge of   *)
(* the server, remote configuration, InitContext), the build of the main   *)
(* page, and what the password then encrypts.                              *)
(*                                                                         *)
(* Every submission of the login page is a goroutine of its own.  The      *)
(* set-up view never disables its button, and Enter calls OnTapped of the  *)
(* verify view's whether it is disabled or not, so attempts overlap.       *)
(* A key is a secret of keys.db and the password it is encrypted with.     *)
(***************************************************************************)
EXTENDS Naturals

CONSTANTS
  Passwords,
  Wallets, Shares,   \* merchant keys, MPC shares: what keys.db has encrypted
  Attempts,          \* bounds the submissions running at once
  Chains, ETH,
  Answers,           \* the lists of chains the server may answer with
  LocalChains,       \* rows of chain_config that an older version has left
  None

Secrets == Wallets \cup Shares

ASSUME StartupAssumption ==
  /\ None \notin Passwords
  /\ ETH \in Chains
  /\ Answers \subseteq SUBSET Chains
  /\ LocalChains \subseteq Chains

VARIABLES
  auth,        \* the password password_auth has salt and hash of
  enc,         \* the password each secret in keys.db is encrypted with
  chain,       \* app_state.default_chain
  view,        \* what the window shows
  mem,         \* the password in WalletMgr
  unlocked,    \* GUIService.unlocked
  authed,      \* serverAuthenticated
  chains,      \* RemoteConfigMgr.chains
  rpc,         \* RemoteConfigMgr.rpcUrlMap
  pc,          \* the step of each attempt
  pwd,         \* the password it was given
  why,         \* the step it failed in; after a login, what the page lacks
  misread,     \* the set-up view was shown although a password is stored
  overlapped   \* two attempts of the set-up view overlapped, with two passwords

disk   == <<auth, enc, chain>>
config == <<chains, rpc>>
ghosts == <<misread, overlapped>>
vars == <<auth, enc, chain, view, mem, unlocked, authed, chains, rpc, pc, pwd,
          why, misread, overlapped>>

Running == {"challenge", "chains", "rpc", "init", "unlock", "onLogin"}
Steps   == {"save", "check", "remember"} \cup Running

TypeOK ==
  /\ auth \in Passwords \cup {None}
  /\ enc \in [Secrets -> Passwords \cup {None}]
  /\ chain \in Chains
  /\ view \in {"off", "setup", "verify", "main"}
  /\ mem \in Passwords \cup {None}
  /\ unlocked \in BOOLEAN
  /\ authed \in BOOLEAN
  /\ chains \in SUBSET Chains
  /\ rpc \in SUBSET Chains
  /\ pc \in [Attempts -> Steps \cup {"idle"}]
  /\ pwd \in [Attempts -> Passwords \cup {None}]
  /\ why \in [Attempts -> Steps \cup {"none", "chain", "wallet", "unread"}]
  /\ misread \in BOOLEAN
  /\ overlapped \in BOOLEAN

\* The memory of a process that has not started.
NoProcess ==
  /\ view = "off"
  /\ mem = None
  /\ unlocked = FALSE
  /\ authed = FALSE
  /\ chains = {}
  /\ rpc = {}
  /\ pc = [a \in Attempts |-> "idle"]
  /\ pwd = [a \in Attempts |-> None]
  /\ why = [a \in Attempts |-> "none"]

\* A new keys.db: insertDefaultData has stored ETH.
Init ==
  /\ auth = None
  /\ enc = [s \in Secrets |-> None]
  /\ chain = ETH
  /\ misread = FALSE
  /\ overlapped = FALSE
  /\ NoProcess

-----------------------------------------------------------------------------
(* The login page.                                                         *)

\* HasPassword is FALSE on every error of GetPasswordAuth.
Boot ==
  /\ view = "off"
  /\ \/ view' = "setup" /\ misread' = (misread \/ auth # None)
     \/ auth # None /\ view' = "verify" /\ UNCHANGED misread
  /\ UNCHANGED <<disk, mem, unlocked, authed, config, pc, pwd, why, overlapped>>

Others(a, p) ==
  \E b \in Attempts \ {a} : pc[b] # "idle" /\ pwd[b] # p

\* A submission of the view that is shown.
Submit(a, p) ==
  /\ pc[a] = "idle"
  /\ view \in {"setup", "verify"}
  /\ pc' = [pc EXCEPT ![a] = IF view = "setup" THEN "save" ELSE "check"]
  /\ pwd' = [pwd EXCEPT ![a] = p]
  /\ why' = [why EXCEPT ![a] = "none"]
  /\ overlapped' = (overlapped \/ (view = "setup" /\ Others(a, p)))
  /\ UNCHANGED <<disk, view, mem, unlocked, authed, config, misread>>

Goto(a, step) == pc' = [pc EXCEPT ![a] = step] /\ UNCHANGED <<pwd, why>>

\* The attempt returns an error, which the page shows; it may be tried again.
Return(a, reason) ==
  /\ pc' = [pc EXCEPT ![a] = "idle"]
  /\ why' = [why EXCEPT ![a] = reason]
  /\ UNCHANGED <<disk, view, mem, unlocked, authed, config, pwd, ghosts>>

\* Mutant: a row that exists is left as it is.
SaveOnce(a) ==
  /\ pc[a] = "save"
  /\ auth' = IF auth = None THEN pwd[a] ELSE auth
  /\ Goto(a, "remember")
  /\ UNCHANGED <<enc, chain, view, mem, unlocked, authed, config, ghosts>>

\* SetPassword: SavePasswordAuth replaces the row.
Save(a) ==
  /\ pc[a] = "save"
  /\ auth' = pwd[a]
  /\ Goto(a, "remember")
  /\ UNCHANGED <<enc, chain, view, mem, unlocked, authed, config, ghosts>>

\* Mutant: the hash that was read is not compared.
CheckNothing(a) ==
  /\ pc[a] = "check"
  /\ Goto(a, "remember")
  /\ UNCHANGED <<disk, view, mem, unlocked, authed, config, ghosts>>

\* VerifyPassword: the hash of the password under the salt that is stored.
Check(a) ==
  /\ pc[a] = "check"
  /\ pwd[a] = auth
  /\ Goto(a, "remember")
  /\ UNCHANGED <<disk, view, mem, unlocked, authed, config, ghosts>>

\* The password is in memory before Start, which first forgets that a server
\* was ever authenticated.
Remember(a) ==
  /\ pc[a] = "remember"
  /\ mem' = pwd[a]
  /\ authed' = FALSE
  /\ Goto(a, "challenge")
  /\ UNCHANGED <<disk, view, unlocked, config, ghosts>>

-----------------------------------------------------------------------------
(* MerchantClient.Start.                                                   *)

\* AuthenticateServer: a host without key is skipped and counts as passed.
Challenge(a) ==
  /\ pc[a] = "challenge"
  /\ authed' = TRUE
  /\ Goto(a, "chains")
  /\ UNCHANGED <<disk, view, mem, unlocked, config, ghosts>>

\* fetchChainConfigs replaces the list.
FetchChains(a) ==
  /\ pc[a] = "chains"
  /\ chains' \in Answers
  /\ Goto(a, "rpc")
  /\ UNCHANGED <<disk, view, mem, unlocked, authed, rpc, ghosts>>

\* fetchRpcConfigs adds to the addresses that are known.
FetchRpc(a) ==
  /\ pc[a] = "rpc"
  /\ \E answer \in Answers : rpc' = rpc \cup answer
  /\ Goto(a, "init")
  /\ UNCHANGED <<disk, view, mem, unlocked, authed, chains, ghosts>>

\* Mutant: a configuration that cannot be fetched is fetched again.
FetchAgain(a) ==
  /\ pc[a] \in {"chains", "rpc"}
  /\ Goto(a, "chains")
  /\ UNCHANGED <<disk, view, mem, unlocked, authed, config, ghosts>>

\* LoadFromServer fails and Start goes on; what was fetched stays.
FetchFails(a) ==
  /\ pc[a] \in {"chains", "rpc"}
  /\ Goto(a, "init")
  /\ UNCHANGED <<disk, view, mem, unlocked, authed, config, ghosts>>

\* getChainType: the remote configuration, then the table.
KnownChain == chain \in chains \cup LocalChains

\* Decrypt: the key is derived from the password in memory, and the tag tells.
Opens(s) == enc[s] = mem

\* Some wallet of the chain's type opens, or there is none: which one it is,
\* WalletContext says.
InitContext(a) ==
  /\ pc[a] = "init"
  /\ KnownChain
  /\ \E w \in Wallets : enc[w] = None \/ Opens(w)
  /\ Goto(a, "unlock")
  /\ UNCHANGED <<disk, view, mem, unlocked, authed, config, ghosts>>

ChainUnknown(a) ==
  /\ pc[a] = "init"
  /\ ~KnownChain
  /\ Return(a, "chain")

\* getMerchantPrivKey does not decrypt the wallet.
CannotOpen(a) ==
  /\ pc[a] = "init"
  /\ KnownChain
  /\ \E w \in Wallets : enc[w] # None /\ ~Opens(w)
  /\ Return(a, "wallet")

\* The password is wrong, the server does not prove itself, keys.db or its
\* random source returns an error.
StepError(a) ==
  /\ pc[a] \in {"save", "check", "challenge", "init"}
  /\ Return(a, pc[a])

\* The split wallets are synchronised, whatever comes of it; then unlocked.
Unlock(a) ==
  /\ pc[a] = "unlock"
  /\ unlocked' = TRUE
  /\ Goto(a, "onLogin")
  /\ UNCHANGED <<disk, view, mem, authed, config, ghosts>>

-----------------------------------------------------------------------------
(* The main page.                                                          *)

\* Mutant: the page selects the first chain of the list.
SelectFirst(readFailed) ==
  \/ UNCHANGED chain
  \/ chain' \in chains

\* The page selects the default chain, or the first one of the list when the
\* default is not listed or could not be read: the error of GetCurrentChain is
\* dropped, and the empty name matches no chain.  Selecting switches, and the
\* switch may fail.
SelectChain(readFailed) ==
  \/ UNCHANGED chain
  \/ /\ readFailed \/ chain \notin chains
     /\ chain' \in chains

\* The callback of the login, on the goroutine of the user interface.
OnLogin(a) ==
  /\ pc[a] = "onLogin"
  /\ view' = "main"
  /\ \E readFailed \in BOOLEAN :
       /\ SelectChain(readFailed)
       /\ why' = [why EXCEPT ![a] = IF readFailed THEN "unread" ELSE "none"]
  /\ pc' = [pc EXCEPT ![a] = "idle"]
  /\ UNCHANGED <<auth, enc, mem, unlocked, authed, config, pwd, ghosts>>

SwitchChain(c) ==
  /\ view = "main"
  /\ unlocked
  /\ c \in chains
  /\ chain' = c
  /\ UNCHANGED <<auth, enc, view, mem, unlocked, authed, config, pc, pwd, why, ghosts>>

\* What is stored is encrypted with the password in memory.
Encrypt(s) == enc' = [enc EXCEPT ![s] = mem]

ImportWallet(w) ==
  /\ view = "main"
  /\ unlocked
  /\ Encrypt(w)
  /\ UNCHANGED <<auth, chain, view, mem, unlocked, authed, config, pc, pwd, why, ghosts>>

\* A key generation of the main page.
SaveShare(s) ==
  /\ view = "main"
  /\ unlocked
  /\ Encrypt(s)
  /\ UNCHANGED <<auth, chain, view, mem, unlocked, authed, config, pc, pwd, why, ghosts>>

\* The process ends, at any step of any attempt.
Crash ==
  /\ view # "off"
  /\ view' = "off"
  /\ mem' = None
  /\ unlocked' = FALSE
  /\ authed' = FALSE
  /\ chains' = {}
  /\ rpc' = {}
  /\ pc' = [a \in Attempts |-> "idle"]
  /\ pwd' = [a \in Attempts |-> None]
  /\ why' = [a \in Attempts |-> "none"]
  /\ UNCHANGED <<disk, ghosts>>

Attempt(a) ==
  \/ Save(a) \/ Check(a) \/ Remember(a) \/ Challenge(a) \/ FetchChains(a)
  \/ FetchRpc(a) \/ FetchFails(a) \/ InitContext(a) \/ ChainUnknown(a)
  \/ CannotOpen(a) \/ StepError(a) \/ Unlock(a) \/ OnLogin(a)

Next ==
  \/ Boot \/ Crash
  \/ \E a \in Attempts : Attempt(a) \/ \E p \in Passwords : Submit(a, p)
  \/ \E c \in Chains : SwitchChain(c)
  \/ \E w \in Wallets : ImportWallet(w)
  \/ \E s \in Shares : SaveShare(s)

Spec == Init /\ [][Next]_vars

\* Every request of an attempt has the deadline of the HTTP client, a minute.
FairSpec == Spec /\ \A a \in Attempts : WF_vars(Attempt(a))

-----------------------------------------------------------------------------
(* Properties.                                                             *)

Clean == ~misread /\ ~overlapped

\* Whatever keys.db has encrypted opens with the password keys.db verifies,
\* after failed attempts, other passwords tried at the set-up and crashes
\* (SavePasswordAuth and SetPassword against Encrypt), unless the set-up view
\* was shown by an error or two set-ups overlapped.
SecretsOpen == Clean => \A s \in Secrets : enc[s] \in {None, auth}

\* GUIService is unlocked only with the password of keys.db in memory, though
\* it is put there before Start may fail (gui_service.go:106, 126).
UnlockedIsVerified == Clean /\ unlocked => mem = auth /\ mem # None

\* No login with the right password is turned away because a wallet does not
\* open: the user would be locked out for good (InitContext).
RightPasswordOpens == Clean => \A a \in Attempts : why[a] # "wallet"

\* Logging in changes the default chain of keys.db, for another that is listed,
\* only where the server does not list it or the build of the page could not
\* read it (main_page.go:26, 50); an attempt that overlaps the main page leaves
\* the user's choice alone.
LoginKeepsChain ==
  [][\A a \in Attempts : pc'[a] # pc[a] =>
       \/ chain' = chain
       \/ chain' \in chains /\ (why'[a] = "unread" \/ chain \notin chains)]_vars

\* Every submission comes to an end, in the main page or in an error the login
\* page shows; its button is enabled again by nothing else.
AttemptEnds ==
  \A a \in Attempts : pc[a] # "idle" ~> pc[a] = "idle"

\* merchant_client.go:67: without the configuration of the server the local
\* one is used; no login fails for the lack of it.
CacheServes == \A a \in Attempts : why[a] # "chain"

-----------------------------------------------------------------------------
(* The inductive invariant.                                                *)

Writing(a) == pc[a] \notin {"idle", "check"}

\* One password is under way, and once it is stored it is the one.
OnePassword ==
  \A a, b \in Attempts : Writing(a) /\ Writing(b) => pwd[a] = pwd[b]

Stored ==
  \A a \in Attempts :
    /\ pc[a] # "idle" => pwd[a] # None
    /\ pc[a] \in Running \cup {"remember"} => pwd[a] = auth
    /\ pc[a] \in Running => mem = auth

Unlocked ==
  unlocked =>
    /\ mem = auth
    /\ mem # None
    /\ \A a \in Attempts : Writing(a) => pwd[a] = auth

\* What each view has to expect of keys.db.
ViewMatches ==
  /\ view = "off" => ~unlocked /\ \A a \in Attempts : pc[a] = "idle"
  /\ view = "verify" => auth # None /\ \A a \in Attempts : pc[a] # "save"
  /\ view = "setup" =>
       /\ \A a \in Attempts : pc[a] # "check"
       /\ unlocked => \E a \in Attempts : pc[a] = "onLogin"
       /\ ~unlocked => \A s \in Secrets : enc[s] = None
  /\ view = "main" => unlocked
  /\ (\E a \in Attempts : pc[a] = "onLogin") => unlocked
  /\ auth = None => \A s \in Secrets : enc[s] = None

Custody ==
  /\ OnePassword
  /\ Stored
  /\ Unlocked
  /\ ViewMatches
  /\ \A s \in Secrets : enc[s] \in {None, auth}
  /\ \A a \in Attempts : why[a] # "wallet"

\* Who has the password at each step of each attempt, and what is encrypted
\* with it (gui_service.go:87-137).
IInv ==
  /\ TypeOK
  /\ Clean => Custody
=============================================================================
