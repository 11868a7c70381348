------------------------------- MODULE Deployment -------------------------------
(***************************************************************************)
(* The deployer (packages/deployer) on the network it deploys to: the      *)
(* commands deploy, deploy-handler and handover as processes that send one *)
(* transaction after the other and record in a manifest file what they     *)
(* have deployed, and the operators' commands of a single transaction.     *)
(*                                                                         *)
(* A command may be stopped between any two steps, the answer to a         *)
(* transaction may be lost before or after it takes effect, and a command  *)
(* may be run again.  An account has at most one transaction under way     *)
(* whose fate is open: a later one carries the same sequence number until  *)
(* the first has taken effect, so that only one of them ever does.         *)
(***************************************************************************)
EXTENDS Naturals, Sequences, FiniteSets, FiniteSetsExt

CONSTANTS
  Deployer,     \* the account that deploys
  Owner,        \* the account the Project Root is handed over to
  None,
  MaxRetries,   \* RetryConfig.max_retries
  MaxLosses,    \* bound of the model: attempts without an answer
  MaxAborts     \* bound of the model: commands stopped midway

ASSUME RetriesAssumption == MaxRetries \in Nat \ {0}
ASSUME BoundsAssumption == MaxLosses \in Nat /\ MaxAborts \in Nat
(* No address of an account is the id of a contract. *)
ASSUME AccountsAssumption ==
  /\ Deployer # Owner /\ None \notin {Deployer, Owner}
  /\ \A a \in {Deployer, Owner, None} : a \notin Nat

Accounts == {Deployer, Owner}

(* The slots of a manifest, and what the constructor of each contract is   *)
(* given: the contracts it calls.                                          *)
Requires ==
  [security |-> <<>>, verification |-> <<"security">>,
   project_root |-> <<"security", "verification">>, handler |-> <<"verification">>]
Slots == DOMAIN Requires
Pipeline == <<"security", "verification", "project_root">>

VARIABLES
  chain,      \* the contracts on the network; a contract's id is its index
  disk,       \* the manifest file: the id recorded in each slot, or None
  account,    \* who runs the command
  cmd,        \* the command that runs, or "none"
  pc,         \* its next step
  target,     \* the slot that step is about
  made,       \* id of the contract just deployed and not recorded yet
  attempt,    \* number of the attempt of retry()
  inflight,   \* per account: a transaction that may still take effect
  losses,     \* number of attempts without an answer
  aborts,     \* number of commands stopped midway
  done        \* history: commands that succeeded; deploy_handler: and registered

ledger == <<chain, inflight>>
process == <<account, cmd, pc, target, made, attempt>>
vars == <<ledger, process, disk, losses, aborts, done>>

Init ==
  /\ chain = <<>>
  /\ disk = [s \in Slots |-> None]
  /\ account = None /\ cmd = "none" /\ pc = "idle" /\ target = "none"
  /\ made = None /\ attempt = 1
  /\ inflight = [a \in Accounts |-> None]
  /\ losses = 0 /\ aborts = 0 /\ done = {}

-----------------------------------------------------------------------------
(* The network: a transaction calls the contract `on`, or deploys `arg`.   *)

(* The contract deployed for a slot, with the manifest's contracts as its  *)
(* references; a handler is born with the Project Root as administrator.   *)
NewContract(slot) ==
  [kind |-> slot, admin |-> IF slot = "handler" THEN disk.project_root ELSE account,
   pending |-> None, handlers |-> {},
   refs |-> [i \in DOMAIN Requires[slot] |-> disk[Requires[slot][i]]]]

(* ensure_our_contract of the Project Root r *)
IsOurs(r, c) ==
  LET verification == chain[r].refs[2] IN
  \/ c \in {chain[r].refs[1], verification}
  \/ chain[c].kind = "handler" /\ chain[c].refs[1] = verification

(* The addresses whose authorization the call asks for, besides its own    *)
(* contract's when that is a Project Root.                                 *)
Signers(tx) ==
  CASE tx.call = "create" -> {}
    [] tx.call = "accept_admin" -> {chain[tx.on].pending} \ {None}
    [] tx.call = "accept_contract_admin" ->
         {chain[tx.on].admin} \cup ({chain[tx.arg].pending} \ {tx.on, None})
    [] OTHER -> {chain[tx.on].admin}

Authorized(tx, by) == Signers(tx) \subseteq {by}

Valid(tx) ==
  CASE tx.call = "accept_admin" -> chain[tx.on].pending # None
    [] tx.call = "accept_contract_admin" -> IsOurs(tx.on, tx.arg) /\ chain[tx.arg].pending # None
    [] tx.call = "register_handler" -> IsOurs(tx.on, tx.arg) /\ chain[tx.arg].kind = "handler"
    [] OTHER -> TRUE

CanApply(tx, by) == Authorized(tx, by) /\ Valid(tx)

Accepting(c) == [chain EXCEPT ![c].admin = chain[c].pending, ![c].pending = None]

After(tx) ==
  CASE tx.call = "create" -> Append(chain, tx.arg)
    [] tx.call = "propose_admin" -> [chain EXCEPT ![tx.on].pending = tx.arg]
    [] tx.call = "accept_admin" -> Accepting(tx.on)
    [] tx.call = "accept_contract_admin" ->
         IF chain[tx.arg].kind = "handler"
         THEN [Accepting(tx.arg) EXCEPT ![tx.on].handlers = @ \cup {tx.arg}]
         ELSE Accepting(tx.arg)
    [] tx.call = "register_handler" -> [chain EXCEPT ![tx.on].handlers = @ \cup {tx.arg}]

Apply(tx, by) ==
  /\ CanApply(tx, by)
  /\ chain' = After(tx)
  /\ inflight' = [inflight EXCEPT ![by] = None]

(* A transaction nobody waits for takes effect after all. *)
Late(a) ==
  /\ inflight[a] # None
  /\ Apply(inflight[a], a)
  /\ UNCHANGED <<process, disk, losses, aborts, done>>

(* The administrator that adopt_downstreams or handover wants the contract *)
(* of a slot to have.                                                      *)
NewAdmin(slot) == IF slot = "project_root" THEN Owner ELSE disk.project_root

-----------------------------------------------------------------------------
(* The steps of a command *)

GoTo(p, t) == pc' = p /\ target' = t /\ attempt' = 1

Exit ==
  /\ account' = None /\ cmd' = "none" /\ pc' = "idle" /\ target' = "none"
  /\ made' = None /\ attempt' = 1

Succeed == Exit /\ done' = done \cup {cmd}

(* The Project Root that is recorded is not reused. *)
Resume_Fault(m) ==
  IF m.security = None THEN GoTo("create", "security")
  ELSE IF m.verification = None THEN GoTo("create", "verification")
  ELSE IF pc = "persist" /\ target = "project_root" THEN GoTo("read_admin", "security")
  ELSE GoTo("create", "project_root")

(* A pipeline that was interrupted is begun again on top of the old slots. *)
ResumeAnew_Fault(m) ==
  LET open == {i \in DOMAIN Pipeline : m[Pipeline[i]] = None} IN
  IF open # {} THEN GoTo("create", IF pc = "idle" THEN "security" ELSE Pipeline[Min(open)])
  ELSE GoTo("read_admin", "security")

(* deploy_pipeline: the first slot the manifest leaves open, else Step 4.  *)
Resume(m) ==
  LET open == {i \in DOMAIN Pipeline : m[Pipeline[i]] = None} IN
  IF open # {} THEN GoTo("create", Pipeline[Min(open)]) ELSE GoTo("read_admin", "security")

StartDeploy ==
  /\ cmd = "none"
  /\ account' = Deployer /\ cmd' = "deploy"
  /\ Resume(disk)
  /\ UNCHANGED <<ledger, disk, made, losses, aborts, done>>

(* The handler that is recorded is not reused. *)
StartDeployHandler_Fault(a) ==
  /\ cmd = "none"
  /\ disk.project_root # None
  /\ account' = a /\ cmd' = "deploy_handler"
  /\ GoTo("create", "handler")
  /\ UNCHANGED <<ledger, disk, made, losses, aborts, done>>

StartDeployHandler(a) ==
  /\ cmd = "none"
  /\ disk.project_root # None
  /\ account' = a /\ cmd' = "deploy_handler"
  /\ IF disk.handler = None THEN GoTo("create", "handler") ELSE GoTo("read_owner", "handler")
  /\ UNCHANGED <<ledger, disk, made, losses, aborts, done>>

StartHandover ==
  /\ cmd = "none"
  /\ disk.project_root # None
  /\ account' = Deployer /\ cmd' = "handover"
  /\ GoTo("read_admin", "project_root")
  /\ UNCHANGED <<ledger, disk, made, losses, aborts, done>>

(* The manifest with the contract just deployed, written as a whole. *)
Persist ==
  /\ pc = "persist"
  /\ disk' = [disk EXCEPT ![target] = made]
  /\ IF cmd = "deploy" THEN Resume(disk') ELSE GoTo("read_owner", target)
  /\ made' = None
  /\ UNCHANGED <<ledger, account, cmd, losses, aborts, done>>

(* adopt_downstreams, then deploy itself, ends after the verification      *)
(* contract; handover has but one contract.                                *)
NextTarget ==
  IF target = "security"
  THEN GoTo("read_admin", "verification") /\ UNCHANGED <<account, cmd, made, done>>
  ELSE Succeed

(* What is owned already is proposed and accepted again. *)
ReadAdmin_Fault ==
  /\ pc = "read_admin"
  /\ GoTo("read_pending", target)
  /\ UNCHANGED <<ledger, account, cmd, made, disk, losses, aborts, done>>

(* `if current == pr_addr { continue; }` *)
ReadAdmin ==
  /\ pc = "read_admin"
  /\ IF chain[disk[target]].admin = NewAdmin(target)
     THEN NextTarget
     ELSE GoTo("read_pending", target) /\ UNCHANGED <<account, cmd, made, done>>
  /\ UNCHANGED <<ledger, disk, losses, aborts>>

(* What is proposed already counts as adopted. *)
ReadPending_Fault ==
  /\ pc = "read_pending"
  /\ IF chain[disk[target]].pending # NewAdmin(target)
     THEN GoTo("propose", target) /\ UNCHANGED <<account, cmd, made, done>>
     ELSE NextTarget
  /\ UNCHANGED <<ledger, disk, losses, aborts>>

ReadPending ==
  /\ pc = "read_pending"
  /\ IF chain[disk[target]].pending # NewAdmin(target)
     THEN GoTo("propose", target) /\ UNCHANGED <<account, cmd, made, done>>
     ELSE IF cmd = "deploy"
          THEN GoTo("accept", target) /\ UNCHANGED <<account, cmd, made, done>>
          ELSE Succeed
  /\ UNCHANGED <<ledger, disk, losses, aborts>>

(* deploy_handler: only the Project Root's administrator registers. *)
ReadOwner ==
  /\ pc = "read_owner"
  /\ IF chain[disk.project_root].admin = account
     THEN GoTo("register", target) /\ UNCHANGED <<account, cmd, made, done>>
     ELSE Exit /\ UNCHANGED done
  /\ UNCHANGED <<ledger, disk, losses, aborts>>

-----------------------------------------------------------------------------
(* The steps that send a transaction *)

Tx(call, on, arg) == [call |-> call, on |-> on, arg |-> arg]

Request ==
  CASE pc = "create" -> Tx("create", None, NewContract(target))
    [] pc = "propose" -> Tx("propose_admin", disk[target], NewAdmin(target))
    [] pc = "accept" -> Tx("accept_contract_admin", disk.project_root, disk[target])
    [] pc = "register" -> Tx("register_handler", disk.project_root, disk.handler)

Sending == pc \in {"create", "propose", "accept", "register"}

(* What the command does with a good answer *)
Answered ==
  \/ /\ pc = "create"
     /\ made' = Len(chain')
     /\ GoTo("persist", target)
     /\ UNCHANGED <<account, cmd, done>>
  \/ /\ pc = "propose" /\ cmd = "deploy"
     /\ GoTo("accept", target)
     /\ UNCHANGED <<account, cmd, made, done>>
  \/ pc = "propose" /\ cmd = "handover" /\ Succeed
  \/ pc = "accept" /\ NextTarget
  \/ pc = "register" /\ Succeed

Send ==
  /\ Sending
  /\ Apply(Request, account)
  /\ Answered
  /\ UNCHANGED <<disk, losses, aborts>>

(* One attempt too many *)
Failed_Fault(transient) ==
  IF transient /\ attempt <= MaxRetries
  THEN attempt' = attempt + 1 /\ UNCHANGED <<account, cmd, pc, target, made>>
  ELSE Exit

(* retry(): again, from scratch, while the error may be transient *)
Failed(transient) ==
  IF transient /\ attempt < MaxRetries
  THEN attempt' = attempt + 1 /\ UNCHANGED <<account, cmd, pc, target, made>>
  ELSE Exit

(* No answer, although the transaction, when it was sent, may have taken   *)
(* effect or may yet do so.                                                *)
Lose ==
  /\ Sending /\ losses < MaxLosses
  /\ losses' = losses + 1
  /\ \/ UNCHANGED inflight
     \/ /\ CanApply(Request, account)
        /\ inflight' = [inflight EXCEPT ![account] = Request]
  /\ Failed(TRUE)
  /\ UNCHANGED <<chain, disk, aborts, done>>

(* What the contract refuses in the simulation counts as transient; a call *)
(* it would take but from another account is not supported, for good.      *)
Refuse ==
  /\ Sending
  /\ ~CanApply(Request, account)
  /\ Failed(~Valid(Request))
  /\ UNCHANGED <<ledger, disk, losses, aborts, done>>

(* A query or a write of the file fails, or the process is stopped. *)
Abort ==
  /\ cmd # "none" /\ aborts < MaxAborts
  /\ aborts' = aborts + 1
  /\ Exit
  /\ UNCHANGED <<ledger, disk, losses, done>>

-----------------------------------------------------------------------------
(* The commands of one transaction, for the contracts of the manifest;     *)
(* propose-admin with the address the deployment is meant to end with.     *)

SingleCall(a, tx) ==
  /\ Apply(tx, a)
  /\ UNCHANGED <<process, disk, losses, aborts, done>>

ProposeAdmin(a, slot) ==
  /\ disk[slot] # None /\ NewAdmin(slot) # None
  /\ SingleCall(a, Tx("propose_admin", disk[slot], NewAdmin(slot)))

AcceptAdmin(a, slot) ==
  /\ disk[slot] # None
  /\ SingleCall(a, Tx("accept_admin", disk[slot], None))

AcceptContractAdmin(a, slot) ==
  /\ disk.project_root # None /\ disk[slot] # None /\ slot # "project_root"
  /\ SingleCall(a, Tx("accept_contract_admin", disk.project_root, disk[slot]))

RegisterHandler(a) ==
  /\ disk.project_root # None /\ disk.handler # None
  /\ SingleCall(a, Tx("register_handler", disk.project_root, disk.handler))

Step == Persist \/ ReadAdmin \/ ReadPending \/ ReadOwner \/ Send \/ Lose \/ Refuse

Next ==
  \/ StartDeploy \/ StartHandover
  \/ Step \/ Abort
  \/ \E a \in Accounts :
       \/ StartDeployHandler(a) \/ Late(a) \/ RegisterHandler(a)
       \/ \E slot \in Slots :
            ProposeAdmin(a, slot) \/ AcceptAdmin(a, slot) \/ AcceptContractAdmin(a, slot)

Spec == Init /\ [][Next]_vars

(* A running command takes its steps, and its operator runs deploy again   *)
(* and again, whatever else is run in between.                             *)
FairSpec == Spec /\ WF_vars(Step) /\ SF_vars(StartDeploy)

-----------------------------------------------------------------------------
(* Properties *)

Recorded == {s \in Slots : disk[s] # None}
Ids == DOMAIN chain
Addresses == Accounts \cup Ids

ContractOK(c) ==
  /\ c.kind \in Slots
  /\ c.admin \in Addresses /\ c.pending \in Addresses \cup {None}
  /\ c.refs \in [DOMAIN Requires[c.kind] -> Ids]
  /\ c.handlers \subseteq Ids

TypeOK ==
  /\ \A i \in Ids : ContractOK(chain[i])
  /\ disk \in [Slots -> Ids \cup {None}]
  /\ account \in Accounts \cup {None}
  /\ cmd \in {"none", "deploy", "deploy_handler", "handover"}
  /\ pc \in {"idle", "create", "persist", "read_admin", "read_pending", "read_owner",
             "propose", "accept", "register"}
  /\ target \in Slots \cup {"none"}
  /\ made \in Ids \cup {None}
  /\ attempt \in 1..MaxRetries
  /\ losses \in 0..MaxLosses /\ aborts \in 0..MaxAborts
  /\ done \subseteq {"deploy", "deploy_handler", "handover"}

(* However a deployment was interrupted, the manifest is closed: what a    *)
(* slot records is on the network, is of that kind, and was constructed    *)
(* with the contracts the other slots record, never with a leftover of an  *)
(* earlier attempt (deploy_pipeline passes on the recorded ids only).      *)
ManifestClosed ==
  \A s \in Recorded :
    /\ disk[s] \in Ids /\ chain[disk[s]].kind = s
    /\ \A i \in DOMAIN Requires[s] : chain[disk[s]].refs[i] = disk[Requires[s][i]]

(* No contract, leftovers included, answers to or is offered to a Project  *)
(* Root other than the recorded one: a Root lost before it was recorded    *)
(* owns nothing (deploy_pipeline persists before it adopts).               *)
NothingLostToAnotherRoot ==
  \A i \in Ids : {chain[i].admin, chain[i].pending} \subseteq
                   Accounts \cup {None, disk.project_root}

(* A command that reports success has brought about what it is for, and    *)
(* nothing that happens later undoes it: the Project Root owns the         *)
(* pipeline, tracks the handler, has been offered to the Owner.            *)
SuccessIsReal ==
  /\ "deploy" \in done =>
       \A s \in {"security", "verification"} : chain[disk[s]].admin = disk.project_root
  /\ "deploy_handler" \in done => disk.handler \in chain[disk.project_root].handlers
  /\ "handover" \in done =>
       Owner \in {chain[disk.project_root].admin, chain[disk.project_root].pending}

(* A contract is deployed anew only for want of an answer or after a       *)
(* command was stopped: every other one is recorded, or about to be.       *)
LeftoversAreAccountedFor ==
  Len(chain) <= Cardinality(Recorded) + Cardinality({made} \ {None}) + losses + aborts

(* deployer README: "re-running `deploy` is safe".  Whatever was lost or   *)
(* stopped, an operator who runs deploy again and again gets a pipeline    *)
(* that the Project Root owns, unless the Project Root itself was handed   *)
(* over before.                                                            *)
EventuallyDeployed ==
  <>(\/ "deploy" \in done
     \/ disk.project_root # None /\ chain[disk.project_root].admin = Owner)

(* governance.rs of handover: "The downstream contracts are already owned  *)
(* by project_root", when handover, all its checks made, is about to offer *)
(* the Project Root to the Owner.                                          *)
HandoverIsLast ==
  cmd = "handover" /\ pc = "propose" =>
    \A s \in {"security", "verification"} : chain[disk[s]].admin = disk.project_root
=================================================================================
