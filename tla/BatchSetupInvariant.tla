------------------------ MODULE BatchSetupInvariant ------------------------
(***************************************************************************)
(* The inductive invariant of BatchSetup: what every step relies on and    *)
(* re-establishes.  TLC checks it as an invariant, BatchSetupProofs proves *)
(* it and derives the safety properties and the refinement from it.        *)
(***************************************************************************)
EXTENDS BatchSetup

\* Labels of a run before its first approve, from the approve report on, from
\* the poll for APPROVED on, and from the poll for ACTIVE on.
BeforeApprove == {"idle", "refresh", "store", "reread", "open", "precheck",
                  "keygen", "persist", "pubkey", "register", "fund",
                  "fundManager", "fundWait"}
AfterActive   == {"sweep", "sweepManager", "done"}
AfterApproved == {"add", "addWait", "commit", "pollActive"} \cup AfterActive
AfterApprove  == {"report", "pollApproved"} \cup AfterApproved

\* The share is written after the binding, the public key after the share,
\* and a keygen in progress is where its own writes have brought it.
KeyCustody ==
  /\ pubKey \subseteq keyFrom
  /\ keyFrom \subseteq mpc
  /\ \A r \in Runs :
       /\ cur[r] # NoAddr => cur[r] \in mpc
       /\ pc[r] \in {"persist", "pubkey", "register"} => cur[r] # NoAddr
       /\ pc[r] \in {"pubkey", "register"} => cur[r] \in keyFrom
       /\ pc[r] = "register" => cur[r] \in pubKey

\* An address belongs to at most one run: the MPC server hands out fresh ones.
Ownership ==
  \A r, q \in Runs :
    /\ r # q => addrs[r] \cap addrs[q] = {}
    /\ r # q /\ cur[r] = cur[q] => cur[r] = NoAddr
    /\ cur[r] \notin addrs[q]

\* What a run may still do to an address has not been done: the address of a
\* keygen has no gas, a receipt to visit has no approve transaction.
Untouched ==
  \A r \in Runs :
    /\ cur[r] # NoAddr => fund[cur[r]] = "none"
    /\ todo[r] \subseteq addrs[r]
    /\ \A a \in addrs[r] :
         /\ srv[a] >= GENERATED
         /\ a \in todo[r] \/ pc[r] \in BeforeApprove => allow[a] = "none"

\* The order of what the chain and the payment server know of an address.
ServerAndChain ==
  \A a \in Addr :
    /\ srv[a] >= GENERATED => CanSign(a)
    /\ fund[a] # "none" => srv[a] >= GENERATED
    /\ fund[a] = "swept" => a \in listed
    /\ allow[a] # "none" => fund[a] # "none"
    /\ srv[a] >= APPROVED => allow[a] = "mined"
    /\ a \in listed => srv[a] >= APPROVED
    /\ srv[a] = ACTIVE => a \in listed
    /\ \A r \in Runs : a \in adding[r] => srv[a] >= APPROVED

\* What a run has waited for stays true of the receipts it approved.
RunProgress ==
  \A r \in Runs :
    /\ pc[r] \in AfterApprove => approved[r] # {}
    /\ pc[r] \in AfterApproved => \A a \in approved[r] : srv[a] >= APPROVED
    /\ pc[r] \in AfterActive => \A a \in approved[r] : srv[a] = ACTIVE

\* A run works on a row of its own, from the moment it is created, and only its
\* failure takes the row out of INIT.
SessionRows ==
  /\ \A i \in Rows : row[i] \in {"none", "INIT", "FAILED"}
  /\ \A r, q \in Runs : sess[r] = sess[q] /\ sess[r] # 0 => r = q
  /\ \A r \in Runs :
       /\ pc[r] \in {"idle", "rejected"} \cup Checking => sess[r] = 0
       /\ pc[r] \in Started => sess[r] # 0
       /\ sess[r] # 0 => row[sess[r]] # "none"
       /\ sess[r] # 0 /\ row[sess[r]] = "FAILED" => pc[r] = "failed"

\* What the local row, an answer on its way to it and an open session say of
\* the splitter, the server has said before.
SplitterActive ==
  /\ localActive => remoteActive
  /\ \A r \in Runs : told[r] => remoteActive
  /\ \A r \in Runs : pc[r] = "open" => remoteActive
  /\ StartedOnlyActive

\* The inductive invariant: every step of every run, of the chain and of the
\* servers, and every crash, re-establishes it.
IInv ==
  /\ TypeOK
  /\ KeyCustody
  /\ Ownership
  /\ Untouched
  /\ ServerAndChain
  /\ RunProgress
  /\ SessionRows
  /\ SplitterActive
=============================================================================
