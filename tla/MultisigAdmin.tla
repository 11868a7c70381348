----------------------------- MODULE MultisigAdmin -----------------------------
(***************************************************************************)
(* A Security contract whose administrator is the multisig account: the    *)
(* owners draw up calls, sign them one after the other and in any order,   *)
(* and anybody submits a call with a list of the signatures there are.     *)
(*                                                                         *)
(* A drawn-up call has a fresh nonce, so that its payload differs from     *)
(* every other; the host uses a nonce up when the call succeeds.  A call   *)
(* that is given up is forgotten: whatever its owners signed are from then *)
(* on signatures over something else.                                      *)
(***************************************************************************)
EXTENDS Security, MultisigAccount, FiniteSets

CONSTANTS
  Account,           \* the address of the multisig account
  Owners,            \* keys, whether the account knows them or not
  ConstructorArgs,   \* <<signers, threshold>> pairs a deployer may pass
  Slots,             \* bound of the model: the calls that are open at a time
  NoCall,            \* a slot with no open call
  MaxSignatures      \* bound of the model: the longest list submitted

ASSUME AccountAssumption == Account \in Addresses
ASSUME ConstructorArgsAssumption == ConstructorArgs \subseteq Seq(Owners) \X Nat
ASSUME NoCallAssumption == NoCall \notin Slots
(* A list may hold a signature of every owner the account knows. *)
ASSUME MaxSignaturesAssumption ==
  /\ MaxSignatures \in Nat
  /\ \A a \in ConstructorArgs :
       ConstructorOutcome(a[1], a[2]) = "Ok" => Len(a[1]) <= MaxSignatures

VARIABLES
  account,     \* [signers, threshold]: DataKey::Signers, DataKey::Threshold
  open,        \* the call in each slot, or NoCall
  approvals    \* the owners that have signed it

accountVars == <<account, open, approvals>>
governedVars == <<vars, accountVars>>

Calls ==
  [kind : {"add"}, key : Keys, weight : Weights]
  \cup [kind : {"remove"}, key : Keys]
  \cup [kind : {"threshold"}, args : ThresholdArgs]
  \cup [kind : {"propose"}, to : Addresses]
  \cup [kind : {"accept"}]
  \cup [kind : {"upgrade"}, version : Versions]

(* The call as made by the account. *)
Perform(call) ==
  \/ call.kind = "add" /\ AddSigner(Account, call.key, call.weight)
  \/ call.kind = "remove" /\ RemoveSigner(Account, call.key)
  \/ call.kind = "threshold" /\ SetThreshold(Account, call.args[1], call.args[2])
  \/ call.kind = "propose" /\ ProposeAdmin(Account, call.to) /\ UNCHANGED securityVars
  \/ call.kind = "accept" /\ AcceptAdmin(Account) /\ UNCHANGED securityVars
  \/ call.kind = "upgrade" /\ Upgrade(Account, call.version) /\ UNCHANGED securityVars

(* The signature of an owner that can be had: over the call, or over       *)
(* something else.                                                         *)
SignatureOf(owner, slot) ==
  OwnerSignature(owner, IF owner \in approvals[slot] THEN slot ELSE NoCall)

Signatures(owners, slot) ==
  [i \in DOMAIN owners |-> [key |-> owners[i], signature |-> SignatureOf(owners[i], slot)]]

OwnerLists == UNION {[1..n -> Owners] : n \in 0..MaxSignatures}

AccountInit ==
  /\ Init
  /\ admin = Account
  /\ \E a \in ConstructorArgs :
       /\ ConstructorOutcome(a[1], a[2]) = "Ok"
       /\ account = [signers |-> a[1], threshold |-> a[2]]
  /\ open = [s \in Slots |-> NoCall]
  /\ approvals = [s \in Slots |-> {}]

DrawUp(slot, call) ==
  /\ open[slot] = NoCall
  /\ open' = [open EXCEPT ![slot] = call]
  /\ UNCHANGED <<vars, account, approvals>>

Approve(owner, slot) ==
  /\ open[slot] # NoCall
  /\ approvals' = [approvals EXCEPT ![slot] = @ \cup {owner}]
  /\ UNCHANGED <<vars, account, open>>

(* The slot is free for another call. *)
Free(slot) ==
  /\ open' = [open EXCEPT ![slot] = NoCall]
  /\ approvals' = [approvals EXCEPT ![slot] = {}]

GiveUp(slot) ==
  /\ open[slot] # NoCall
  /\ Free(slot)
  /\ UNCHANGED <<vars, account>>

(* Anybody submits an open call; the host asks __check_auth. *)
Submit(slot, owners) ==
  /\ open[slot] # NoCall
  /\ CheckAuth(account, slot, Signatures(owners, slot)) = "Ok"
  /\ Perform(open[slot])
  /\ Free(slot)
  /\ UNCHANGED account

(* Another administrator, should the account have proposed one. *)
OtherCaller ==
  /\ \E caller \in Addresses \ {Account} :
       \/ Invocation(caller)
       \/ \E to \in Addresses : ProposeAdmin(caller, to) /\ UNCHANGED securityVars
       \/ AcceptAdmin(caller) /\ UNCHANGED securityVars
       \/ \E v \in Versions : Upgrade(caller, v) /\ UNCHANGED securityVars
  /\ UNCHANGED accountVars

AccountNext ==
  \/ \E slot \in Slots, call \in Calls : DrawUp(slot, call)
  \/ \E slot \in Slots, owner \in Owners : Approve(owner, slot)
  \/ \E slot \in Slots : GiveUp(slot)
  \/ \E slot \in Slots, owners \in OwnerLists : Submit(slot, owners)
  \/ OtherCaller

AccountSpec == AccountInit /\ [][AccountNext]_governedVars

-----------------------------------------------------------------------------
(* Properties *)

Voters == {account.signers[i] : i \in DOMAIN account.signers}

HasQuorum(slot) == Cardinality(approvals[slot] \cap Voters) >= account.threshold

(* The state the account governs. *)
governed == <<admin, pendingAdmin, version, threshold, allSigners, weightHist>>

(* While the account is the administrator nothing of the Security contract *)
(* changes but by a call that as many different owners have signed as the  *)
(* threshold says (__check_auth); the one exception is the acceptance by   *)
(* an administrator they proposed.                                         *)
ChangedByQuorum ==
  [][\/ admin # Account
     \/ UNCHANGED governed
     \/ admin' = pendingAdmin
     \/ \E slot \in Slots : HasQuorum(slot) /\ Perform(open[slot])]_governedVars

(* No owner's signature is indispensable and no set-up the constructor     *)
(* takes locks the owners out: a call that a quorum has signed, or every   *)
(* owner the account knows, can be submitted.                              *)
QuorumIsHeard ==
  \A slot \in Slots :
    open[slot] # NoCall /\ (HasQuorum(slot) \/ Voters \subseteq approvals[slot]) =>
      \E owners \in OwnerLists :
        CheckAuth(account, slot, Signatures(owners, slot)) = "Ok"
=============================================================================
