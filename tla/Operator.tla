------------------------------- MODULE Operator -------------------------------
(***************************************************************************)
(* The deployer's commands of one transaction on a deployed project, next  *)
(* to keygen: add-signer, remove-signer, set-threshold (signers.rs) and    *)
(* set-project-spec-repo (project_root.rs), with retry() around the call.  *)
(*                                                                         *)
(* What the contracts keep is a value for each item: the weight of a key,  *)
(* the threshold, the spec repository.  One operator runs one command at a *)
(* time, while contracts may be handed over to other administrators.  As   *)
(* in module Deployment an answer may be lost, and an account has at most  *)
(* one transaction under way whose fate is open.                           *)
(***************************************************************************)
EXTENDS Identity

CONSTANTS
  Byok,      \* an account of the operator's own, given by flag or environment
  Root,      \* the project root as administrator of the Security contract
  Items,     \* keys and "threshold" of the Security contract, "repo" of the root
  Values,    \* a removed key has the value Removed
  Refused,   \* the values the contract refuses: no weight, no threshold
  Removed

ASSUME OperatorAssumption ==
  Byok \notin Identities \cup {NoSecret} /\ Root \notin Identities \cup {NoSecret, Byok}

VARIABLES
  secAdmin,   \* administrator of the Security contract; NoSecret: not deployed
  rootAdmin,  \* administrator of the project root
  state,      \* the value of each item
  account,    \* who signs for the command that runs, NoSecret when none does
  call,       \* its call: an item, its new value, and through the root or not
  attempt,    \* number of the attempt of retry()
  inflight,   \* per account: a transaction that may still take effect, or NoCall
  settled     \* history: per item the value that was reported as set, or NoCall

NoCall == [item |-> "none"]

contractVars == <<secAdmin, rootAdmin, state>>
commandVars == <<account, call, attempt>>
operatorVars == <<contractVars, commandVars, inflight, settled>>
vars == <<identityVars, operatorVars>>

Signatories == Identities \cup {Byok}

Init ==
  /\ IdentityInit
  /\ secAdmin = NoSecret /\ rootAdmin = NoSecret
  /\ state = [i \in Items |-> Removed]
  /\ account = NoSecret /\ call = NoCall /\ attempt = 1
  /\ inflight = [a \in Signatories |-> NoCall]
  /\ settled = [i \in Items |-> Refused]

Idle == step = "idle" /\ account = NoSecret

(* resolve_secret: the first source that is given counts, even when it is  *)
(* no secret; an empty environment variable is not given.                  *)
ResolveSecret(flag, environment) ==
  IF flag # NoSecret THEN flag ELSE IF environment # NoSecret THEN environment ELSE keyFile

(* The operator's own account was on the network before. *)
OnNetwork(a) == a \in funded \cup {Byok}

(* deploy, whose steps module Deployment has; stopped before it adopts, it *)
(* leaves the Security contract to the account that deployed.              *)
Deploy(flag, environment) ==
  LET deployer == ResolveSecret(flag, environment) IN
  /\ Idle /\ secAdmin = NoSecret
  /\ OnNetwork(deployer)
  /\ secAdmin' \in {deployer, Root} /\ rootAdmin' = deployer
  /\ UNCHANGED <<identityVars, state, commandVars, inflight, settled>>

(* A contract that was offered to the account, or to the root that the     *)
(* account administers, is accepted; its administrator may have proposed   *)
(* that at any time before.                                                *)
AcceptAdmin(a) ==
  /\ secAdmin # NoSecret /\ OnNetwork(a)
  /\ \/ rootAdmin' = a /\ UNCHANGED secAdmin
     \/ secAdmin # Root /\ secAdmin' = a /\ UNCHANGED rootAdmin
     \/ a = rootAdmin /\ secAdmin' = Root /\ UNCHANGED rootAdmin
  /\ inflight' = [inflight EXCEPT ![a] = NoCall]
  /\ UNCHANGED <<identityVars, state, commandVars, settled>>

(* signer_target: a call goes to the Security contract or through the root *)
Calls ==
  {c \in [item: Items, value: Values \cup {Refused}, viaRoot: BOOLEAN] :
     /\ c.item = "repo" => c.viaRoot /\ c.value \notin {Refused, Removed}
     /\ c.item = "threshold" => c.value # Removed}

StartCommand(flag, environment, c) ==
  /\ Idle /\ secAdmin # NoSecret
  /\ ResolveSecret(flag, environment) # NoSecret
  /\ account' = ResolveSecret(flag, environment)
  /\ call' = c /\ attempt' = 1
  /\ settled' = [settled EXCEPT ![c.item] = Refused]
  /\ UNCHANGED <<identityVars, contractVars, inflight>>

(* Whose authorization the call asks for, the root's own apart. *)
Signers(c) ==
  IF c.item = "repo" THEN {rootAdmin}
  ELSE IF c.viaRoot THEN {rootAdmin, secAdmin} \ {Root}
  ELSE {secAdmin}

Authorized(c, by) == Signers(c) \subseteq {by}

CanApply(c, by) == Authorized(c, by) /\ c.value # Refused

Apply(c, by) ==
  /\ CanApply(c, by)
  /\ state' = [state EXCEPT ![c.item] = c.value]
  /\ inflight' = [inflight EXCEPT ![by] = NoCall]
  /\ UNCHANGED <<secAdmin, rootAdmin>>

EndCommand == account' = NoSecret /\ call' = NoCall /\ attempt' = 1

Send ==
  /\ account # NoSecret
  /\ Apply(call, account)
  /\ settled' = [settled EXCEPT ![call.item] = call.value]
  /\ EndCommand
  /\ UNCHANGED identityVars

(* The attempt that used up the budget counts as a success. *)
Failed_Fault(transient) ==
  IF transient /\ attempt < MaxRetries
  THEN attempt' = attempt + 1 /\ UNCHANGED <<account, call, settled>>
  ELSE /\ settled' = IF transient THEN [settled EXCEPT ![call.item] = call.value] ELSE settled
       /\ EndCommand

(* retry(): again while the error may be transient and attempts are left.  *)
Failed(transient) ==
  IF transient /\ attempt < MaxRetries
  THEN attempt' = attempt + 1 /\ UNCHANGED <<account, call, settled>>
  ELSE EndCommand /\ UNCHANGED settled

(* No answer; the transaction may have been sent all the same. *)
Lose ==
  /\ account # NoSecret
  /\ NoAnswer
  /\ \/ UNCHANGED inflight
     \/ CanApply(call, account) /\ inflight' = [inflight EXCEPT ![account] = call]
  /\ Failed(TRUE)
  /\ UNCHANGED <<fileVars, networkVars, keygenVars, printed, aborts, contractVars>>

(* An account that is not found and a call the contract refuses may be     *)
(* transient; only what is left, another's authorization, is permanent.    *)
Refuse ==
  /\ account # NoSecret
  /\ ~CanApply(call, account)
  /\ Failed(~OnNetwork(account) \/ call.value = Refused)
  /\ UNCHANGED <<identityVars, contractVars, inflight>>

AbortCommand ==
  /\ account # NoSecret /\ aborts < MaxAborts
  /\ aborts' = aborts + 1
  /\ EndCommand
  /\ UNCHANGED <<fileVars, networkVars, keygenVars, printed, losses, contractVars,
                 inflight, settled>>

(* A transaction nobody waits for takes effect after all. *)
Late(a) ==
  /\ inflight[a] # NoCall
  /\ Apply(inflight[a], a)
  /\ UNCHANGED <<identityVars, commandVars, settled>>

Keygen ==
  /\ account = NoSecret
  /\ StartKeygen \/ AbortKeygen
  /\ UNCHANGED operatorVars

CommandStep == Send \/ Lose \/ Refuse

Next ==
  \/ Keygen
  \/ (KeygenStep \/ LateFunding) /\ UNCHANGED operatorVars
  \/ \E flag, environment \in {NoSecret, Byok} :
       \/ Deploy(flag, environment)
       \/ \E c \in Calls : StartCommand(flag, environment, c)
  \/ CommandStep \/ AbortCommand
  \/ \E a \in Signatories : AcceptAdmin(a) \/ Late(a)

Spec == Init /\ [][Next]_vars

(* What runs takes its steps, and the operator runs keygen again and again.*)
FairSpec ==
  /\ Spec
  /\ WF_vars(KeygenStep /\ UNCHANGED operatorVars)
  /\ WF_vars(CommandStep)
  /\ SF_vars(account = NoSecret /\ StartKeygen /\ UNCHANGED operatorVars)

-----------------------------------------------------------------------------
(* Properties *)

(* A command that reports success has set the value, and nothing that was  *)
(* sent earlier and took effect late, by that command or another, by this  *)
(* administrator or one before, changes it back: the value stays until the *)
(* next command for the same item.                                         *)
SuccessSticks == \A i \in Items : settled[i] # Refused => state[i] = settled[i]
=============================================================================
