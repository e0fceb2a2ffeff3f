--------------------------- MODULE WalletContext ---------------------------
(***************************************************************************)
(* WalletMgr: the default chain and the default merchant wallet in         *)
(* keys.db, and the WalletContext in memory that every operation of the    *)
(* program funds, signs and authenticates with.                            *)
(*                                                                         *)
(* Switching the chain, switching the wallet and importing a wallet run on *)
(* the GUI thread, so one at a time; each is several commits and ends in   *)
(* InitContext, which loads the context from keys.db.  The process may die *)
(* between two commits, and keys.db may return an error at each of them.   *)
(* Address and private key are always assigned together: addr is both.     *)
(***************************************************************************)
EXTENDS Naturals

CONSTANTS
  EvmWallets, TronWallets,   \* merchant wallets the user may import
  EvmChains, TronChains,     \* the configured chains
  ETH, TRON,                 \* the default chain of each type
  NoWallet, NoChain

ASSUME WalletAssumption ==
  /\ EvmWallets \cap TronWallets = {}
  /\ NoWallet \notin EvmWallets \cup TronWallets
  /\ EvmChains \cap TronChains = {}
  /\ NoChain \notin EvmChains \cup TronChains
  /\ ETH \in EvmChains
  /\ TRON \in TronChains

Wallets == EvmWallets \cup TronWallets
Chains  == EvmChains \cup TronChains

TypeOf(w)    == IF w \in EvmWallets THEN "evm" ELSE "tron"
ChainType(c) == IF c \in EvmChains THEN "evm" ELSE "tron"

VARIABLES
  chain,      \* app_state.default_chain
  saved,      \* merchant_wallet rows, as a set
  newer,      \* pairs of rows <<u, v>>, u created after v
  isDefault,  \* rows with is_default
  ctx,        \* the WalletContext
  at,         \* the step the GUI thread is in
  target,     \* the wallet it is about to put into the context
  running,    \* the login has succeeded in this process
  ok,         \* the last operation met no error, returned or not
  picked      \* the wallet the last successful SetDefaultWallet was asked for,
              \* until another wallet or a chain of the other type is

dbVars == <<chain, saved, newer, isDefault>>
vars == <<chain, saved, newer, isDefault, ctx, at, target, running, ok, picked>>

NoContext == [chain |-> NoChain, type |-> "none", addr |-> NoWallet]

Steps == {"pick", "assign", "walletChain", "walletAssign", "load", "loadPick",
          "loadAssign"}

TypeOK ==
  /\ chain \in Chains
  /\ saved \in SUBSET Wallets
  /\ newer \in SUBSET (Wallets \X Wallets)
  /\ isDefault \in SUBSET Wallets
  /\ ctx \in [chain : Chains \cup {NoChain}, type : {"evm", "tron", "none"},
              addr : Wallets \cup {NoWallet}]
  /\ at \in {"off", "idle"} \cup Steps
  /\ target \in Wallets \cup {NoWallet}
  /\ running \in BOOLEAN
  /\ ok \in BOOLEAN
  /\ picked \in Wallets \cup {NoWallet}

\* GetDefaultChain returns ETH when app_state has no default_chain.
Init ==
  /\ chain = ETH
  /\ saved = {}
  /\ newer = {}
  /\ isDefault = {}
  /\ ctx = NoContext
  /\ at = "off"
  /\ target = NoWallet
  /\ running = FALSE
  /\ ok = FALSE
  /\ picked = NoWallet

-----------------------------------------------------------------------------
(* GetDefaultWalletForChainType.                                           *)

OfType(type) == { w \in saved : TypeOf(w) = type }

\* Mutant: the newest wallet of the type is taken, flagged or not.
NewestWallet(type) ==
  { w \in OfType(type) : \A v \in OfType(type) \ {w} : <<w, v>> \in newer }

\* The default wallet of a type, or the newest one, as a set of at most one.
DefaultWallet(type) ==
  IF isDefault \cap OfType(type) # {}
  THEN isDefault \cap OfType(type)
  ELSE { w \in OfType(type) : \A v \in OfType(type) \ {w} : <<w, v>> \in newer }

\* Mutant: the default flag that is already set is left as it is.
AddDefault(w) == isDefault' = isDefault \cup {w}

\* setDefaultAddrInDB: one transaction, one default over all types.
SetDefaultAddr(w) == isDefault' = {w}

-----------------------------------------------------------------------------
(* The login and InitContext.                                              *)

\* VerifyPassword calls InitContext through Start.
Login ==
  /\ at = "off"
  /\ at' = "load"
  /\ UNCHANGED <<dbVars, ctx, target, running, ok, picked>>

\* InitContext: chain and type.
Load ==
  /\ at = "load"
  /\ ctx' = [ctx EXCEPT !.chain = chain, !.type = ChainType(chain)]
  /\ at' = "loadPick"
  /\ UNCHANGED <<dbVars, target, running, ok, picked>>

\* The operation ends without an error.
Return ==
  /\ at' = "idle"
  /\ running' = TRUE
  /\ ok' = TRUE

\* The wallet for the context's type.  InitContext takes its absence for no
\* error, and SetDefaultChain for one.
PickNone ==
  /\ at \in {"pick", "loadPick"}
  /\ DefaultWallet(ctx.type) = {}
  /\ IF at = "loadPick"
     THEN Return
     ELSE at' = "idle" /\ ok' = FALSE /\ UNCHANGED running
  /\ UNCHANGED <<dbVars, ctx, target, picked>>

Pick ==
  /\ at \in {"pick", "loadPick"}
  /\ \E w \in DefaultWallet(ctx.type) :
       /\ target' = w
       /\ \/ w \in isDefault /\ UNCHANGED isDefault
          \/ w \notin isDefault /\ SetDefaultAddr(w)
  /\ at' = IF at = "pick" THEN "assign" ELSE "loadAssign"
  /\ UNCHANGED <<chain, saved, newer, ctx, running, ok, picked>>

\* Address and private key of SetDefaultChain, which goes on to InitContext.
Assign ==
  /\ at = "assign"
  /\ ctx' = [ctx EXCEPT !.addr = target]
  /\ at' = "load"
  /\ UNCHANGED <<dbVars, target, running, ok, picked>>

\* Address and private key of InitContext, its last step.
LoadAssign ==
  /\ at = "loadAssign"
  /\ ctx' = [ctx EXCEPT !.addr = target]
  /\ Return
  /\ UNCHANGED <<dbVars, target, picked>>

-----------------------------------------------------------------------------
(* SetDefaultChain.                                                        *)

\* Mutant: the chain is only put into the context.
SetDefaultChainInMemory(c) ==
  /\ at = "idle"
  /\ ctx' = [ctx EXCEPT !.chain = c, !.type = ChainType(c)]
  /\ at' = IF ctx.type = ChainType(c) /\ ctx.addr # NoWallet THEN "idle"
           ELSE "pick"
  /\ picked' = IF ctx.type = ChainType(c) THEN picked ELSE NoWallet
  /\ UNCHANGED <<dbVars, target, running, ok>>

\* The chain is persisted and put into the context; the wallet follows if the
\* type has changed.
SetDefaultChain(c) ==
  /\ at = "idle"
  /\ chain' = c
  /\ ctx' = [ctx EXCEPT !.chain = c, !.type = ChainType(c)]
  /\ at' = IF ctx.type = ChainType(c) /\ ctx.addr # NoWallet THEN "load"
           ELSE "pick"
  /\ picked' = IF ctx.type = ChainType(c) THEN picked ELSE NoWallet
  /\ UNCHANGED <<saved, newer, isDefault, target, running, ok>>

-----------------------------------------------------------------------------
(* SetDefaultWallet.                                                       *)

\* The row is flagged; a wallet of the other type takes the chain along.
SetDefaultWallet(w) ==
  /\ at = "idle"
  /\ w \in saved
  /\ SetDefaultAddr(w)
  /\ target' = w
  /\ at' = IF ctx.type = TypeOf(w) THEN "walletAssign" ELSE "walletChain"
  /\ picked' = NoWallet
  /\ UNCHANGED <<chain, saved, newer, ctx, running, ok>>

\* getDefaultChainForType
DefaultChain(type) ==
  IF type = "tron" THEN TRON
  ELSE IF ctx.chain \in EvmChains THEN ctx.chain ELSE ETH

\* Mutant: the chain is put into the context and not persisted.
WalletChainInMemory ==
  /\ at = "walletChain"
  /\ ctx' = [ctx EXCEPT !.chain = DefaultChain(TypeOf(target))]
  /\ at' = "walletAssign"
  /\ UNCHANGED <<dbVars, target, running, ok, picked>>

WalletChain ==
  /\ at = "walletChain"
  /\ chain' = DefaultChain(TypeOf(target))
  /\ ctx' = [ctx EXCEPT !.chain = chain']
  /\ at' = "walletAssign"
  /\ UNCHANGED <<saved, newer, isDefault, target, running, ok, picked>>

\* The context, then InitContext.
WalletAssign ==
  /\ at = "walletAssign"
  /\ ctx' = [ctx EXCEPT !.type = TypeOf(target), !.addr = target]
  /\ picked' = target
  /\ at' = "load"
  /\ UNCHANGED <<dbVars, target, running, ok>>

-----------------------------------------------------------------------------
(* ImportWallet, errors, crashes.                                          *)

\* SaveMerchantWallet keeps the creation time of a row that exists; then
\* InitContext.
ImportWallet(w) ==
  /\ at = "idle"
  /\ saved' = saved \cup {w}
  /\ newer' = IF w \in saved THEN newer ELSE newer \cup ({w} \X saved)
  /\ at' = "load"
  /\ UNCHANGED <<chain, isDefault, ctx, target, running, ok, picked>>

\* keys.db, the chain configuration or the decryption returned an error; a
\* login that fails stays on the login page.
StepError ==
  /\ at \in Steps \ {"walletAssign", "loadPick"}
  /\ at' = IF running THEN "idle" ELSE "off"
  /\ ok' = FALSE
  /\ UNCHANGED <<dbVars, ctx, target, running, picked>>

\* InitContext takes every error of GetDefaultWalletForChainType for the
\* absence of a wallet, and returns none.
SwallowedError ==
  /\ at = "loadPick"
  /\ at' = "idle"
  /\ running' = TRUE
  /\ ok' = FALSE
  /\ UNCHANGED <<dbVars, ctx, target, picked>>

\* The process ends and is started again.
Crash ==
  /\ at # "off"
  /\ at' = "off"
  /\ ctx' = NoContext
  /\ target' = NoWallet
  /\ running' = FALSE
  /\ ok' = FALSE
  /\ UNCHANGED <<dbVars, picked>>

Next ==
  \/ Login \/ Load \/ PickNone \/ Pick \/ Assign \/ LoadAssign
  \/ WalletChain \/ WalletAssign \/ StepError \/ SwallowedError \/ Crash
  \/ \E c \in Chains : SetDefaultChain(c)
  \/ \E w \in Wallets : SetDefaultWallet(w) \/ ImportWallet(w)

Spec == Init /\ [][Next]_vars

-----------------------------------------------------------------------------
(* Properties.                                                             *)

\* The context holds the stored chain and its type whenever no operation is
\* running, and after an operation that met no error also the wallet a restart
\* would load, if it would find one (InitContext against keys.db).
MemoryIsDurable ==
  at = "idle" =>
    /\ ctx.chain = chain
    /\ ctx.type = ChainType(chain)
    /\ ok => DefaultWallet(ctx.type) \subseteq {ctx.addr}

\* The wallet the user has picked stays the one in use, across imports, chains
\* of the same type, failed operations and restarts (SetDefaultWallet).
PickSurvives ==
  at = "idle" /\ ok /\ picked # NoWallet => ctx.addr = picked

-----------------------------------------------------------------------------
(* The inductive invariant.                                                *)

OneDefault ==
  /\ isDefault \subseteq saved
  /\ \A u, v \in isDefault : u = v

\* Which steps belong to a login, and which to a client that has started.
Started ==
  /\ at = "off" => ~running
  /\ at \notin {"off", "load", "loadPick", "loadAssign"} => running

\* Only between WalletChain and WalletAssign is the type behind the chain.
ChainLoaded ==
  running \/ at \in {"loadPick", "loadAssign"} =>
    /\ ctx.chain = chain
    /\ at # "walletAssign" => ctx.type = ChainType(chain)

\* The wallet in hand is the default, and of the type it was looked up for.
TargetIsDefault ==
  /\ at \in {"assign", "loadAssign", "walletChain", "walletAssign"} =>
       isDefault = {target}
  /\ at \in {"assign", "loadAssign"} => TypeOf(target) = ctx.type
  /\ at = "walletAssign" => TypeOf(target) = ChainType(chain)

PickIsDefault ==
  picked # NoWallet =>
    isDefault = {picked} /\ TypeOf(picked) = ChainType(chain)

WalletLoaded ==
  at = "idle" /\ ok => DefaultWallet(ctx.type) \subseteq {ctx.addr}

\* What each step relies on: the defaults and the chain in keys.db, the context
\* and the wallet in hand (wallet_mgr.go).
IInv ==
  /\ TypeOK
  /\ OneDefault
  /\ Started
  /\ ChainLoaded
  /\ TargetIsDefault
  /\ PickIsDefault
  /\ WalletLoaded
=============================================================================
