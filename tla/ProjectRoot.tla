------------------------------ MODULE ProjectRoot ------------------------------
(***************************************************************************)
(* The Project Root contract (contracts/project-root) among the contracts  *)
(* of its project: who administers which contract, the calls it forwards   *)
(* on behalf of its own administrator, and the set of handlers it tracks.  *)
(*                                                                         *)
(* Every contract has the two-step administrator of module WarpDriveAdmin, *)
(* here one per contract.  A call carries the authorizations of a set of   *)
(* accounts, auth; the Project Root itself authorizes the calls it         *)
(* makes.  What upgrade and the signer calls change inside their target is *)
(* the business of that contract's module: here only changed records it.   *)
(***************************************************************************)
EXTENDS SequencesExt

CONSTANTS
  Accounts,               \* accounts (keys or multisig accounts)
  Root,                   \* the Project Root
  SecurityContract,       \* its registered Security contract
  VerificationContract,   \* its registered Verification contract
  OtherContracts,         \* all others: handlers of this project or not
  Reporting,              \* those whose verification_contract() is ours
  Proposable,             \* bound of the model: whom a proposal may name
  None

ASSUME ReportingAssumption == Reporting \subseteq OtherContracts

Contracts == {Root, SecurityContract, VerificationContract} \cup OtherContracts
Principals == Accounts \cup Contracts

ASSUME DisjointAssumption ==
  /\ Accounts \cap Contracts = {}
  /\ None \notin Principals
  /\ Root \notin {SecurityContract, VerificationContract} \cup OtherContracts
  /\ {SecurityContract, VerificationContract} \cap OtherContracts = {}
  /\ Proposable \subseteq Principals

VARIABLES
  admin,      \* administrator of each contract
  pending,    \* its pending administrator, or None
  handlers,   \* DataKey::Handlers of the Project Root
  changed     \* history: the contract whose code or settings it changed

vars == <<admin, pending, handlers, changed>>

(* The deployer administers everything but handlers, which are created     *)
(* with the Project Root as administrator or without.                      *)
Init ==
  /\ \E deployer \in Accounts :
       admin \in {f \in [Contracts -> Principals] :
                    /\ \A c \in Contracts \ OtherContracts : f[c] = deployer
                    /\ \A c \in OtherContracts : f[c] \in Accounts \cup {Root}}
  /\ pending = [c \in Contracts |-> None]
  /\ handlers = <<>>
  /\ changed = None

-----------------------------------------------------------------------------
(* The WarpDrive interface of contract c, called by `callers`: the signing *)
(* accounts, and the Project Root when the call comes through it.          *)

(* upgrade, and the other calls only the administrator may make. *)
Change(c, callers) ==
  /\ admin[c] \in callers
  /\ changed' = c
  /\ UNCHANGED <<admin, pending>>

ProposeAdmin(c, callers, newAdmin) ==
  /\ admin[c] \in callers
  /\ pending' = [pending EXCEPT ![c] = newAdmin]
  /\ changed' = None
  /\ UNCHANGED admin

(* The administrator may make the proposed one accept, or nobody. *)
AcceptAdmin_Fault(c, callers) ==
  /\ \/ pending[c] \in callers
     \/ admin[c] \in callers
  /\ admin' = [admin EXCEPT ![c] = pending[c]]
  /\ pending' = [pending EXCEPT ![c] = None]
  /\ changed' = None

AcceptAdmin(c, callers) ==
  /\ pending[c] \in callers
  /\ admin' = [admin EXCEPT ![c] = pending[c]]
  /\ pending' = [pending EXCEPT ![c] = None]
  /\ changed' = None

(* A call by accounts to any contract, the Project Root's own WarpDrive    *)
(* interface and update_project_spec_repo among them.                      *)
Direct(c, auth) ==
  /\ \/ Change(c, auth)
     \/ \E p \in Proposable : ProposeAdmin(c, auth, p)
     \/ AcceptAdmin(c, auth)
  /\ UNCHANGED handlers

-----------------------------------------------------------------------------
(* The Project Root: forwarded calls *)

(* The administrator's authorization is not asked for. *)
Proxy_Fault(auth) == auth # {}

(* proxy: the administrator of the Project Root must authorize. *)
Proxy(auth) == admin[Root] \in auth

(* ensure_our_contract.  The Project Root cannot be called by itself: the  *)
(* host refuses re-entry.                                                  *)
ContractType(target) ==
  IF target = VerificationContract THEN "Verification"
  ELSE IF target = SecurityContract THEN "Security"
  ELSE IF target \in Reporting THEN "Handler" ELSE "NotOurContract"

Tracked == Range(handlers)

(* A handler that is tracked is added again. *)
AddHandler_Fault(h) == handlers' = Append(handlers, h)

(* storage::add_handler *)
AddHandler(h) ==
  handlers' = IF h \in Tracked THEN handlers ELSE Append(handlers, h)

(* storage::remove_handler: the first entry of h is removed. *)
RemoveHandler(h) ==
  \/ h \notin Tracked /\ UNCHANGED handlers
  \/ \E i \in DOMAIN handlers :
       /\ handlers[i] = h /\ \A j \in 1..(i - 1) : handlers[j] # h
       /\ handlers' = RemoveAt(handlers, i)

(* add_*_signer, remove_*_signer, set_threshold *)
ForwardToSecurity(auth) ==
  /\ Proxy(auth)
  /\ Change(SecurityContract, auth \cup {Root})
  /\ UNCHANGED handlers

UpgradeContract(auth, target) ==
  /\ ContractType(target) # "NotOurContract"
  /\ Proxy(auth)
  /\ Change(target, auth \cup {Root})
  /\ UNCHANGED handlers

ProposeContractAdmin(auth, target, newAdmin) ==
  /\ ContractType(target) # "NotOurContract"
  /\ Proxy(auth)
  /\ ProposeAdmin(target, auth \cup {Root}, newAdmin)
  /\ UNCHANGED handlers

(* The handler taken over is not tracked. *)
AcceptContractAdmin_Fault(auth, target) ==
  /\ ContractType(target) # "NotOurContract"
  /\ Proxy(auth)
  /\ AcceptAdmin(target, auth \cup {Root})
  /\ UNCHANGED handlers

AcceptContractAdmin(auth, target) ==
  /\ ContractType(target) # "NotOurContract"
  /\ Proxy(auth)
  /\ AcceptAdmin(target, auth \cup {Root})
  /\ IF ContractType(target) = "Handler" THEN AddHandler(target) ELSE UNCHANGED handlers

(* register_handler *)
RegisterHandler(auth, h) ==
  /\ admin[Root] \in auth
  /\ ContractType(h) = "Handler"
  /\ AddHandler(h)
  /\ changed' = None
  /\ UNCHANGED <<admin, pending>>

(* unregister_handler *)
UnregisterHandler(auth, h) ==
  /\ admin[Root] \in auth
  /\ RemoveHandler(h)
  /\ changed' = None
  /\ UNCHANGED <<admin, pending>>

ViaRoot(auth, target) ==
  \/ target = SecurityContract /\ ForwardToSecurity(auth)
  \/ UpgradeContract(auth, target)
  \/ \E p \in Proposable : ProposeContractAdmin(auth, target, p)
  \/ AcceptContractAdmin(auth, target)

Invocation(auth, c) ==
  \/ Direct(c, auth)
  \/ ViaRoot(auth, c)
  \/ RegisterHandler(auth, c)
  \/ UnregisterHandler(auth, c)

Next ==
  \E auth \in SUBSET Accounts, c \in Contracts :
    Invocation(auth, c)

Spec == Init /\ [][Next]_vars

-----------------------------------------------------------------------------
(* Properties *)

TypeOK ==
  /\ admin \in [Contracts -> Principals]
  /\ pending \in [Contracts -> Principals \cup {None}]
  /\ handlers \in Seq(Contracts)
  /\ changed \in Contracts \cup {None}

(* No contract is ever locked out: its administrator is an account, or the *)
(* Project Root, whose own administrator is always an account.  A proposal *)
(* may name anybody; accept_admin lets nobody become administrator who     *)
(* cannot authorize a call.                                                *)
NeverLockedOut ==
  /\ admin[Root] \in Accounts
  /\ \A c \in Contracts : admin[c] \in Accounts \cup {Root}

(* The account a contract answers to, directly or through the Project Root.*)
Controller(c) == IF admin[c] = Root THEN admin[Root] ELSE admin[c]

(* No accounts without `account` among them can make this step on c.       *)
Needs(c, account) == \A auth \in SUBSET (Accounts \ {account}) : ~Invocation(auth, c)

(* Only the account in control changes a contract or proposes its next     *)
(* administrator, whichever way the call takes; and administration moves   *)
(* to nobody but the pending administrator, with the authorization of that *)
(* one.                                                                    *)
OnlyInControl ==
  [][\A c \in Contracts :
       /\ changed' = c => Needs(c, Controller(c))
       /\ pending'[c] \notin {pending[c], None} => Needs(c, Controller(c))
       /\ admin'[c] # admin[c] => admin'[c] = pending[c] /\ Needs(c, Controller(c)')]_vars

(* The tracked set has no duplicates and holds only contracts that report  *)
(* this project's Verification contract, never one of the project's own.   *)
HandlerSetOK ==
  /\ \A i, j \in DOMAIN handlers : handlers[i] = handlers[j] => i = j
  /\ Tracked \subseteq Reporting

(* A contract whose administration the Project Root takes over is tracked  *)
(* from that very step on, if it is a handler.                             *)
TakenOverIsTracked ==
  [][\A h \in Reporting :
       admin[h] # Root /\ admin'[h] = Root => h \in Tracked']_vars

(* The doc comment of accept_contract_admin says that the Project Root     *)
(* "must be target's pending admin"; so administration accepted in the     *)
(* step that tracks a handler would be the Project Root's.                 *)
TrackedIsTakenOver ==
  [][\A h \in Reporting :
       handlers' # handlers /\ admin'[h] # admin[h] => admin'[h] = Root]_vars
=============================================================================
