---------------------------- MODULE WarpDriveAdmin ----------------------------
(***************************************************************************)
(* The WarpDrive interface every contract of the system implements: an     *)
(* upgradable version and an administrator handed over in two steps, with  *)
(* packages/shared/src/admin.rs.                                           *)
(*                                                                         *)
(* An invocation is an action; `caller` is the address whose authorization *)
(* it carries.  A call that fails is rolled back by the host: it is the    *)
(* absence of a step.                                                      *)
(***************************************************************************)

CONSTANTS
  Addresses,   \* accounts and contracts that may be or become administrator
  Versions,    \* version strings
  None         \* no pending administrator

ASSUME NoneAssumption == None \notin Addresses

VARIABLES
  admin,          \* the administrator in instance storage
  pendingAdmin,   \* the proposed administrator, or None
  version,        \* the version in instance storage
  proposer        \* history: who proposed pendingAdmin

adminVars == <<admin, pendingAdmin, version, proposer>>

RequireAuth(caller, address) == caller = address

(* __constructor: the deployer names the administrator. *)
AdminInit ==
  /\ admin \in Addresses
  /\ pendingAdmin = None
  /\ version \in Versions
  /\ proposer = None

(* upgrade: the new code is again that of the contract. *)
Upgrade(caller, v) ==
  /\ RequireAuth(caller, admin)
  /\ version' = v
  /\ UNCHANGED <<admin, pendingAdmin, proposer>>

(* propose_admin: replaces an earlier proposal. *)
ProposeAdmin(caller, newAdmin) ==
  /\ RequireAuth(caller, admin)
  /\ pendingAdmin' = newAdmin
  /\ proposer' = caller
  /\ UNCHANGED <<admin, version>>

(* The accepted proposal stays in storage. *)
AcceptAdmin_Fault(caller) ==
  /\ pendingAdmin # None
  /\ RequireAuth(caller, pendingAdmin)
  /\ admin' = pendingAdmin
  /\ UNCHANGED <<pendingAdmin, version, proposer>>

(* accept_admin: by the proposed administrator only, and only once. *)
AcceptAdmin(caller) ==
  /\ pendingAdmin # None
  /\ RequireAuth(caller, pendingAdmin)
  /\ admin' = pendingAdmin
  /\ pendingAdmin' = None
  /\ proposer' = None
  /\ UNCHANGED version

AdminNext ==
  \E caller \in Addresses :
    \/ \E v \in Versions : Upgrade(caller, v)
    \/ \E newAdmin \in Addresses : ProposeAdmin(caller, newAdmin)
    \/ AcceptAdmin(caller)

-----------------------------------------------------------------------------
AdminTypeOK ==
  /\ admin \in Addresses
  /\ pendingAdmin \in Addresses \cup {None}
  /\ version \in Versions
  /\ proposer \in Addresses \cup {None}

(* A proposal that can be accepted was made by the administrator of now,   *)
(* never by a former one: accepting clears the slot (admin.rs accept).     *)
ProposalIsCurrent == pendingAdmin # None => proposer = admin
=============================================================================
