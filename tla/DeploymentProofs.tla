--------------------------- MODULE DeploymentProofs ---------------------------
(***************************************************************************)
(* Theorems about the deployer on the network it deploys to: whatever      *)
(* answers were lost, whatever took effect late and whichever commands     *)
(* were stopped, for any number of retries, losses and stopped commands.   *)
(***************************************************************************)
EXTENDS Deployment, FiniteSetTheorems, TLAPS

-----------------------------------------------------------------------------
(* The inductive invariant *)

Contracts ==
  [kind : Slots, admin : Accounts \cup Nat, pending : Accounts \cup Nat \cup {None},
   handlers : SUBSET Nat, refs : Seq(Nat)]

(* ContractOK, on a network with these ids *)
ContractIn(c, ids) ==
  /\ c.kind \in Slots
  /\ c.admin \in Accounts \cup ids /\ c.pending \in Accounts \cup ids \cup {None}
  /\ c.refs \in [DOMAIN Requires[c.kind] -> ids]
  /\ c.handlers \subseteq ids

(* Only the recorded Project Root is ever offered a contract other than a  *)
(* Project Root, and only the Owner is offered a Project Root.             *)
RoleOK(c, root) ==
  IF c.kind = "project_root"
  THEN c.admin \in Accounts /\ c.pending \in {None, Owner}
  ELSE c.admin \in Accounts \cup {root} /\ c.pending \in {None, root}

ChainInv ==
  /\ chain \in Seq(Contracts)
  /\ \A c \in Ids : ContractIn(chain[c], Ids) /\ RoleOK(chain[c], disk.project_root)

ManifestInv == disk \in [Slots -> Ids \cup {None}] /\ ManifestClosed

(* What a transaction under way may be, on the network `net`. *)
IsTx(tx, net, root) ==
  \/ /\ tx.call = "create"
     /\ tx.arg \in Contracts /\ ContractIn(tx.arg, DOMAIN net) /\ RoleOK(tx.arg, root)
  \/ /\ tx.call = "propose_admin"
     /\ tx.on \in DOMAIN net /\ tx.arg # None
     /\ tx.arg = IF net[tx.on].kind = "project_root" THEN Owner ELSE root
  \/ tx.call = "accept_admin" /\ tx.on \in DOMAIN net
  \/ /\ tx.call = "accept_contract_admin"
     /\ tx.on \in DOMAIN net /\ tx.arg \in DOMAIN net /\ net[tx.arg].kind # "project_root"
  \/ tx.call = "register_handler" /\ tx.on \in DOMAIN net /\ tx.arg \in DOMAIN net

NetworkInv ==
  /\ inflight = [a \in Accounts |-> inflight[a]]
  /\ \A a \in Accounts : inflight[a] # None => IsTx(inflight[a], chain, disk.project_root)

(* Where a command is *)
Idle == cmd = "none" /\ pc = "idle" /\ account = None /\ target = "none"

Deploying ==
  /\ pc \in {"create", "persist"}
  /\ \/ cmd = "deploy" /\ target \in {"security", "verification", "project_root"}
     \/ cmd = "deploy_handler" /\ target = "handler" /\ disk.project_root # None
  /\ disk[target] = None
  /\ \A n \in DOMAIN Requires[target] : disk[Requires[target][n]] # None

Adopting ==
  /\ pc \in {"read_admin", "read_pending", "propose", "accept"}
  /\ disk.project_root # None
  /\ \/ cmd = "deploy" /\ target \in {"security", "verification"}
     \/ cmd = "handover" /\ target = "project_root" /\ pc # "accept"
  /\ target = "verification" => chain[disk.security].admin = disk.project_root

Registering ==
  /\ pc \in {"read_owner", "register"}
  /\ cmd = "deploy_handler" /\ target = "handler"
  /\ disk.project_root # None /\ disk.handler # None

CommandInv ==
  /\ Idle \/ (account \in Accounts /\ (Deploying \/ Adopting \/ Registering))
  /\ attempt \in 1..MaxRetries

(* What was deployed last and is to be recorded next *)
MadeInv ==
  IF pc = "persist"
  THEN /\ made \in Ids /\ chain[made].kind = target
       /\ \A n \in DOMAIN Requires[target] : chain[made].refs[n] = disk[Requires[target][n]]
  ELSE made = None

(* What a command that succeeded has brought about, on the network `net`   *)
(* and with the manifest `m`.                                              *)
Achieved(c, net, m) ==
  /\ m.project_root # None
  /\ c = "deploy" =>
       /\ net[m.security].admin = m.project_root
       /\ net[m.verification].admin = m.project_root
  /\ c = "deploy_handler" => m.handler \in net[m.project_root].handlers
  /\ c = "handover" =>
       Owner \in {net[m.project_root].admin, net[m.project_root].pending}

DoneInv ==
  /\ done \subseteq {"deploy", "deploy_handler", "handover"}
  /\ \A c \in done : Achieved(c, chain, disk)

DeploymentInv ==
  ChainInv /\ ManifestInv /\ NetworkInv /\ CommandInv /\ MadeInv /\ DoneInv

Counters == losses \in 0..MaxLosses /\ aborts \in 0..MaxAborts

(* The accounts with a transaction under way that may still deploy a       *)
(* contract                                                                *)
Creating == {a \in Accounts : inflight[a] # None /\ inflight[a].call = "create"}

CountInv ==
  Len(chain) + Cardinality(Creating) <=
    Cardinality(Recorded) + Cardinality({made} \ {None}) + losses + aborts

-----------------------------------------------------------------------------
(* Slots, addresses and the contracts on the network *)
LEMMA SlotFacts ==
  /\ Slots = {"security", "verification", "project_root", "handler"}
  /\ DOMAIN Requires["security"] = {}
  /\ DOMAIN Requires["verification"] = {1} /\ Requires["verification"][1] = "security"
  /\ DOMAIN Requires["project_root"] = {1, 2} /\ Requires["project_root"][1] = "security"
  /\ Requires["project_root"][2] = "verification"
  /\ DOMAIN Requires["handler"] = {1} /\ Requires["handler"][1] = "verification"
<1>1. Requires["security"] = <<>> /\ Requires["verification"] = <<"security">>
  BY DEF Requires
<1>2. Requires["project_root"] = <<"security", "verification">> /\ Requires["handler"] = <<"verification">>
  BY DEF Requires
<1>3. Slots = {"security", "verification", "project_root", "handler"}
  BY DEF Slots, Requires
<1> QED BY <1>1, <1>2, <1>3

LEMMA AddressFacts ==
  /\ Deployer # Owner /\ None \notin Accounts /\ None \notin Nat
  /\ Accounts \cap Nat = {} /\ Accounts = {Deployer, Owner}
BY AccountsAssumption DEF Accounts

LEMMA IdFacts ==
  ASSUME chain \in Seq(Contracts)
  PROVE  /\ Len(chain) \in Nat /\ Ids = 1..Len(chain) /\ Ids \subseteq Nat
         /\ None \notin Ids
         /\ \A c \in Ids : chain[c] \in Contracts
BY AddressFacts DEF Ids

(* What a transaction may make of a contract: offer it, or hand it over to *)
(* the one it was offered to.                                              *)
Evolves(old, new, root) ==
  /\ new.kind = old.kind /\ new.refs = old.refs /\ old.handlers \subseteq new.handlers
  /\ \/ new.admin = old.admin /\ new.pending = old.pending
     \/ /\ new.admin = old.admin /\ new.pending # None
        /\ new.pending = IF old.kind = "project_root" THEN Owner ELSE root
     \/ old.pending # None /\ new.admin = old.pending /\ new.pending = None

ChainEvolves ==
  /\ chain' \in Seq(Contracts)
  /\ Len(chain') \in {Len(chain), Len(chain) + 1}
  /\ \A c \in 1..Len(chain) :
       Evolves(chain[c], chain'[c], disk.project_root) /\ chain'[c].handlers \subseteq chain[c].handlers \cup Ids

(* One contract of the network is replaced. *)
LEMMA OneEvolves ==
  ASSUME ChainInv, NEW on \in Ids, NEW new \in Contracts, Evolves(chain[on], new, disk.project_root),
         new.handlers \subseteq chain[on].handlers \cup Ids,
         chain' = [chain EXCEPT ![on] = new]
  PROVE  /\ ChainEvolves /\ Len(chain') = Len(chain)
         /\ chain'[on] = new
<1>1. chain \in Seq(Contracts) /\ Ids = 1..Len(chain) /\ Len(chain) \in Nat
  BY IdFacts DEF ChainInv
<1>2. /\ chain' \in Seq(Contracts) /\ Len(chain') = Len(chain)
      /\ \A c \in 1..Len(chain) : chain'[c] = IF c = on THEN new ELSE chain[c]
  BY <1>1
<1>3. \A c \in 1..Len(chain) :
        Evolves(chain[c], chain'[c], disk.project_root) /\ chain'[c].handlers \subseteq chain[c].handlers \cup Ids
  BY <1>1, <1>2 DEF Evolves
<1>4. chain'[on] = new
  BY <1>1, <1>2
<1> QED BY <1>2, <1>3, <1>4 DEF ChainEvolves

LEMMA CreateFacts ==
  ASSUME ChainInv, NEW c \in Contracts, chain' = Append(chain, c)
  PROVE  /\ ChainEvolves
         /\ Len(chain') = Len(chain) + 1 /\ chain'[Len(chain')] = c
<1>1. chain \in Seq(Contracts) /\ Ids = 1..Len(chain) /\ Len(chain) \in Nat
  BY IdFacts DEF ChainInv
<1>2. /\ chain' \in Seq(Contracts) /\ Len(chain') = Len(chain) + 1
      /\ chain'[Len(chain) + 1] = c
      /\ \A d \in 1..Len(chain) : chain'[d] = chain[d]
  BY <1>1
<1>3. \A d \in 1..Len(chain) :
        Evolves(chain[d], chain'[d], disk.project_root) /\ chain'[d].handlers \subseteq chain[d].handlers \cup Ids
  BY <1>2 DEF Evolves
<1> QED BY <1>2, <1>3 DEF ChainEvolves

(* Whatever transaction takes effect, the contracts only evolve. *)
LEMMA ApplyFacts ==
  ASSUME ChainInv, ManifestInv, NEW tx, IsTx(tx, chain, disk.project_root), NEW by, Apply(tx, by)
  PROVE  /\ ChainEvolves
         /\ tx.call = "create" => Len(chain') = Len(chain) + 1 /\ chain'[Len(chain')] = tx.arg
         /\ tx.call # "create" => Len(chain') = Len(chain)
         /\ tx.call = "propose_admin" => chain'[tx.on].pending = tx.arg
         /\ tx.call = "accept_contract_admin" =>
              chain[tx.arg].pending # None /\ chain'[tx.arg].admin = chain[tx.arg].pending
         /\ tx.call = "register_handler" => tx.arg \in chain'[tx.on].handlers
<1>0. /\ chain' = After(tx) /\ Valid(tx)
      /\ chain \in Seq(Contracts) /\ Ids = 1..Len(chain) /\ Len(chain) \in Nat /\ Ids \subseteq Nat
      /\ \A c \in Ids : chain[c] \in Contracts
      /\ DOMAIN chain = 1..Len(chain)
  BY IdFacts DEF Apply, CanApply, ChainInv
<1>1. CASE tx.call = "create"
  <2>1. chain' = Append(chain, tx.arg) /\ tx.arg \in Contracts
    BY <1>0, <1>1 DEF After, IsTx
  <2> QED BY <1>1, <2>1, CreateFacts
<1>2. CASE tx.call = "propose_admin"
  <2> DEFINE on == tx.on
             new == [chain[on] EXCEPT !.pending = tx.arg]
  <2>1. /\ on \in Ids /\ tx.arg # None
        /\ tx.arg = IF chain[on].kind = "project_root" THEN Owner ELSE disk.project_root
    BY <1>2 DEF IsTx, Ids
  <2>2. chain' = [chain EXCEPT ![on].pending = tx.arg]
    BY <1>0, <1>2 DEF After
  <2>3. chain' = [chain EXCEPT ![on] = new]
    BY <1>0, <2>1, <2>2
  <2>4. tx.arg \in Accounts \cup Nat
    <3>1. disk.project_root \in Ids \cup {None}
      BY SlotFacts DEF ManifestInv
    <3> QED BY <1>0, <2>1, <3>1 DEF Accounts
  <2>5. /\ new \in Contracts /\ new.pending = tx.arg /\ new.admin = chain[on].admin
        /\ new.kind = chain[on].kind /\ new.refs = chain[on].refs
        /\ new.handlers = chain[on].handlers
    BY <1>0, <2>1, <2>4 DEF Contracts
  <2> HIDE DEF new, on
  <2>6. Evolves(chain[on], new, disk.project_root) /\ new.handlers \subseteq chain[on].handlers \cup Ids
    BY <2>1, <2>5 DEF Evolves
  <2>7. ChainEvolves /\ Len(chain') = Len(chain) /\ chain'[on] = new
    BY <2>1, <2>3, <2>5, <2>6, OneEvolves
  <2> QED BY <1>2, <2>5, <2>7 DEF on
<1>3. ASSUME NEW c \in Ids, chain[c].pending # None
      PROVE  LET new == [chain[c] EXCEPT !.admin = chain[c].pending, !.pending = None]
             IN  /\ Accepting(c) = [chain EXCEPT ![c] = new]
                 /\ new \in Contracts /\ Evolves(chain[c], new, disk.project_root)
                 /\ new.admin = chain[c].pending /\ new.handlers = chain[c].handlers
  BY <1>0, <1>3 DEF Accepting, Contracts, Evolves
<1>4. CASE tx.call = "accept_admin"
  <2> DEFINE c == tx.on
             new == [chain[c] EXCEPT !.admin = chain[c].pending, !.pending = None]
  <2>1. c \in Ids /\ chain[c].pending # None /\ chain' = Accepting(c)
    BY <1>0, <1>4 DEF IsTx, Ids, Valid, After
  <2>2. /\ chain' = [chain EXCEPT ![c] = new] /\ new \in Contracts /\ Evolves(chain[c], new, disk.project_root)
        /\ new.handlers = chain[c].handlers
    BY <1>3, <2>1
  <2> HIDE DEF new, c
  <2>3. ChainEvolves /\ Len(chain') = Len(chain)
    BY <2>1, <2>2, OneEvolves
  <2> QED BY <1>4, <2>3
<1>5. CASE tx.call = "accept_contract_admin"
  <2> DEFINE c == tx.arg
             r == tx.on
             new == [chain[c] EXCEPT !.admin = chain[c].pending, !.pending = None]
             accepted == Accepting(c)
             old == accepted[r]
             tracked == [old EXCEPT !.handlers = old.handlers \cup {c}]
  <2>1. /\ c \in Ids /\ r \in Ids /\ chain[c].pending # None
        /\ chain' = IF chain[c].kind = "handler"
                    THEN [accepted EXCEPT ![r].handlers = @ \cup {c}] ELSE accepted
    BY <1>0, <1>5 DEF IsTx, Ids, Valid, After
  <2>2. /\ accepted = [chain EXCEPT ![c] = new] /\ new \in Contracts /\ Evolves(chain[c], new, disk.project_root)
        /\ new.admin = chain[c].pending /\ new.handlers = chain[c].handlers
    BY <1>3, <2>1
  <2> HIDE DEF new, accepted
  <2>4. /\ accepted \in Seq(Contracts) /\ Len(accepted) = Len(chain)
        /\ \A d \in 1..Len(chain) : accepted[d] = IF d = c THEN new ELSE chain[d]
    BY <1>0, <2>1, <2>2
  <2>5. \A d \in 1..Len(chain) :
          Evolves(chain[d], accepted[d], disk.project_root) /\ accepted[d].handlers = chain[d].handlers
    BY <1>0, <2>2, <2>4 DEF Evolves
  <2>6. CASE chain[c].kind # "handler"
    <3>1. chain' = accepted
      BY <2>1, <2>6
    <3>2. ChainEvolves
      BY <2>4, <2>5, <3>1 DEF ChainEvolves
    <3>3. chain'[c] = new
      BY <1>0, <2>1, <2>4, <3>1
    <3> QED BY <1>5, <2>1, <2>2, <2>4, <3>1, <3>2, <3>3
  <2>7. CASE chain[c].kind = "handler"
    <3>1. accepted[r] \in Contracts
      BY <1>0, <2>1, <2>4
    <3>2. /\ tracked \in Contracts /\ tracked.kind = old.kind /\ tracked.refs = old.refs
          /\ tracked.admin = old.admin /\ tracked.pending = old.pending
          /\ tracked.handlers = old.handlers \cup {c}
      BY <1>0, <2>1, <3>1 DEF Contracts
    <3>3. chain' = [accepted EXCEPT ![r] = tracked]
      BY <1>0, <2>1, <2>4, <2>7
    <3>4. Evolves(chain[r], old, disk.project_root) /\ old.handlers = chain[r].handlers
      BY <1>0, <2>1, <2>5
    <3>5. c = r => old = new
      BY <1>0, <2>1, <2>4
    <3> HIDE DEF tracked, old
    <3>6. Evolves(chain[r], tracked, disk.project_root) /\ tracked.handlers \subseteq chain[r].handlers \cup Ids
      BY <2>1, <3>2, <3>4 DEF Evolves
    <3>7. /\ chain' \in Seq(Contracts) /\ Len(chain') = Len(chain)
          /\ \A d \in 1..Len(chain) : chain'[d] = IF d = r THEN tracked ELSE accepted[d]
      <4>1. r \in 1..Len(accepted) /\ accepted \in Seq(Contracts) /\ tracked \in Contracts
        BY <1>0, <2>1, <2>4, <3>2
      <4>2. /\ [accepted EXCEPT ![r] = tracked] \in Seq(Contracts)
            /\ Len([accepted EXCEPT ![r] = tracked]) = Len(accepted)
            /\ \A d \in 1..Len(accepted) :
                 [accepted EXCEPT ![r] = tracked][d] = IF d = r THEN tracked ELSE accepted[d]
        BY <4>1
      <4> QED BY <2>4, <3>3, <4>2
    <3>8. ChainEvolves
      <4>1. ASSUME NEW d \in 1..Len(chain)
            PROVE  Evolves(chain[d], chain'[d], disk.project_root) /\ chain'[d].handlers \subseteq chain[d].handlers \cup Ids
        BY <2>5, <3>6, <3>7
      <4> QED BY <3>7, <4>1 DEF ChainEvolves
    <3>9. chain'[c].admin = chain[c].pending
      <4>1. accepted[c] = new /\ chain'[c] = IF c = r THEN tracked ELSE accepted[c]
        BY <1>0, <2>1, <2>4, <3>7
      <4> QED BY <2>2, <3>2, <3>5, <4>1
    <3> QED BY <1>5, <2>1, <3>7, <3>8, <3>9
  <2> QED BY <2>6, <2>7
<1>6. CASE tx.call = "register_handler"
  <2> DEFINE on == tx.on
             new == [chain[on] EXCEPT !.handlers = chain[on].handlers \cup {tx.arg}]
  <2>1. on \in Ids /\ tx.arg \in Ids
    BY <1>6 DEF IsTx, Ids
  <2>2. chain' = [chain EXCEPT ![on].handlers = @ \cup {tx.arg}]
    BY <1>0, <1>6 DEF After
  <2>3. chain' = [chain EXCEPT ![on] = new]
    BY <1>0, <2>1, <2>2
  <2>4. /\ new \in Contracts /\ new.pending = chain[on].pending /\ new.admin = chain[on].admin
        /\ new.kind = chain[on].kind /\ new.refs = chain[on].refs
        /\ new.handlers = chain[on].handlers \cup {tx.arg}
    BY <1>0, <2>1 DEF Contracts
  <2> HIDE DEF new, on
  <2>5. Evolves(chain[on], new, disk.project_root) /\ new.handlers \subseteq chain[on].handlers \cup Ids
    BY <2>1, <2>4 DEF Evolves
  <2>6. ChainEvolves /\ Len(chain') = Len(chain) /\ chain'[on] = new
    BY <2>1, <2>3, <2>4, <2>5, OneEvolves
  <2> QED BY <1>6, <2>4, <2>6 DEF on
<1> QED BY <1>1, <1>2, <1>4, <1>5, <1>6 DEF IsTx

(* A contract that evolves stays one that may be there, and what the       *)
(* recorded Project Root owns it keeps.                                    *)
LEMMA EvolvedOK ==
  ASSUME NEW ids, NEW more, ids \subseteq more, None \notin more, NEW root \in ids \cup {None},
         NEW old, ContractIn(old, ids), RoleOK(old, root),
         NEW new, Evolves(old, new, root), new.handlers \subseteq old.handlers \cup ids
  PROVE  /\ ContractIn(new, more) /\ RoleOK(new, root)
         /\ old.kind # "project_root" /\ old.admin = root => new.admin = root
         /\ old.kind = "project_root" /\ Owner \in {old.admin, old.pending} =>
              Owner \in {new.admin, new.pending}
<1>1. /\ new.kind = old.kind /\ new.refs = old.refs
      /\ old.kind \in Slots /\ old.handlers \subseteq ids
      /\ old.refs \in [DOMAIN Requires[old.kind] -> ids]
  BY DEF Evolves, ContractIn
<1>2. new.refs \in [DOMAIN Requires[new.kind] -> more] /\ new.handlers \subseteq more
  BY <1>1
<1>3. CASE old.kind = "project_root"
  <2>1. /\ old.admin \in Accounts /\ old.pending \in {None, Owner}
    BY <1>3 DEF RoleOK
  <2>2. /\ new.admin \in Accounts /\ new.pending \in {None, Owner}
        /\ Owner \in {old.admin, old.pending} => Owner \in {new.admin, new.pending}
    BY <1>3, <2>1, AddressFacts DEF Evolves
  <2> QED BY <1>1, <1>2, <1>3, <2>2, AddressFacts DEF ContractIn, RoleOK
<1>4. CASE old.kind # "project_root"
  <2>1. old.admin \in Accounts \cup {root} /\ old.pending \in {None, root} /\ old.admin \in Accounts \cup ids
    BY <1>4 DEF RoleOK, ContractIn
  <2>2. /\ new.admin \in Accounts \cup {root} /\ new.pending \in {None, root}
        /\ old.admin = root => new.admin = root
    BY <1>4, <2>1 DEF Evolves
  <2>3. new.admin \in Accounts \cup ids
    BY <1>4, <2>1 DEF Evolves
  <2> QED BY <1>1, <1>2, <1>4, <2>2, <2>3 DEF ContractIn, RoleOK
<1> QED BY <1>3, <1>4

(* A contract may be there on a larger network, too. *)
LEMMA ContractInMore ==
  ASSUME NEW ids, NEW more, ids \subseteq more, NEW c, ContractIn(c, ids)
  PROVE  ContractIn(c, more)
<1>1. c.refs \in [DOMAIN Requires[c.kind] -> more]
  BY DEF ContractIn
<1> QED BY <1>1 DEF ContractIn

(* A transaction under way stays one when the contracts evolve. *)
LEMMA TxKept ==
  ASSUME NEW net, NEW later, DOMAIN net \subseteq DOMAIN later,
         \A c \in DOMAIN net : later[c].kind = net[c].kind,
         NEW root, NEW tx, IsTx(tx, net, root)
  PROVE  IsTx(tx, later, root)
<1>1. CASE tx.call = "create"
  BY <1>1, ContractInMore DEF IsTx
<1>2. CASE tx.call # "create"
  BY <1>2 DEF IsTx
<1> QED BY <1>1, <1>2

(* What the chain keeps of every contract on it. *)
Keeps ==
  /\ Ids \subseteq Ids' /\ Ids' \subseteq Nat
  /\ \A c \in Ids :
       /\ chain'[c].kind = chain[c].kind /\ chain'[c].refs = chain[c].refs
       /\ chain[c].handlers \subseteq chain'[c].handlers
       /\ chain[c].kind # "project_root" /\ chain[c].admin = disk.project_root =>
            chain'[c].admin = disk.project_root
       /\ chain[c].kind = "project_root" /\ Owner \in {chain[c].admin, chain[c].pending} =>
            Owner \in {chain'[c].admin, chain'[c].pending}

LEMMA OneMore ==
  ASSUME NEW m \in Nat, NEW n \in {m, m + 1}
  PROVE  /\ 1..m \subseteq 1..n /\ 1..n \subseteq Nat
         /\ \A c \in 1..n : c \in 1..m \/ c = n
OBVIOUS

LEMMA ApplyChain ==
  ASSUME ChainInv, ManifestInv, NEW tx, IsTx(tx, chain, disk.project_root), NEW by,
         Apply(tx, by), UNCHANGED disk
  PROVE  Keeps /\ ChainInv'
<1>1. ChainEvolves
  BY ApplyFacts
<1>2. /\ Ids = 1..Len(chain) /\ Len(chain) \in Nat
      /\ chain' \in Seq(Contracts) /\ DOMAIN chain' = 1..Len(chain') /\ Len(chain') \in Nat
      /\ Ids' = 1..Len(chain')
  BY <1>1, IdFacts DEF ChainInv, ChainEvolves, Ids
<1>3. Ids \subseteq Ids' /\ Ids' \subseteq Nat /\ None \notin Ids' /\ \A c \in Ids' : c \in Ids \/ c = Len(chain')
  <2>1. Len(chain') \in {Len(chain), Len(chain) + 1}
    BY <1>1 DEF ChainEvolves
  <2>2. Len(chain) \in Nat
    BY <1>2
  <2>3. /\ 1..Len(chain) \subseteq 1..Len(chain') /\ 1..Len(chain') \subseteq Nat
        /\ \A c \in 1..Len(chain') : c \in 1..Len(chain) \/ c = Len(chain')
    BY <2>1, <2>2, OneMore
  <2> QED BY <1>2, <2>3, AddressFacts
<1>4. disk.project_root \in Ids \cup {None}
  BY SlotFacts DEF ManifestInv
<1>5. ASSUME NEW c \in Ids
      PROVE  /\ Evolves(chain[c], chain'[c], disk.project_root)
             /\ ContractIn(chain'[c], Ids') /\ RoleOK(chain'[c], disk.project_root)
             /\ chain[c].kind # "project_root" /\ chain[c].admin = disk.project_root =>
                  chain'[c].admin = disk.project_root
             /\ chain[c].kind = "project_root" /\ Owner \in {chain[c].admin, chain[c].pending} =>
                  Owner \in {chain'[c].admin, chain'[c].pending}
  <2>1. /\ Evolves(chain[c], chain'[c], disk.project_root)
        /\ chain'[c].handlers \subseteq chain[c].handlers \cup Ids
    BY <1>1, <1>2 DEF ChainEvolves
  <2>2. ContractIn(chain[c], Ids) /\ RoleOK(chain[c], disk.project_root)
    BY DEF ChainInv
  <2> DEFINE old == chain[c]
             new == chain'[c]
             root == disk.project_root
             ids == Ids
             more == Ids'
  <2>3. /\ ids \subseteq more /\ None \notin more /\ root \in ids \cup {None}
        /\ ContractIn(old, ids) /\ RoleOK(old, root)
        /\ Evolves(old, new, root) /\ new.handlers \subseteq old.handlers \cup ids
    BY <1>3, <1>4, <2>1, <2>2
  <2> HIDE DEF old, new, root, ids, more
  <2>4. /\ ContractIn(new, more) /\ RoleOK(new, root)
        /\ old.kind # "project_root" /\ old.admin = root => new.admin = root
        /\ old.kind = "project_root" /\ Owner \in {old.admin, old.pending} =>
             Owner \in {new.admin, new.pending}
    BY <2>3, EvolvedOK
  <2> QED BY <2>1, <2>4 DEF old, new, root, ids, more
<1>6. Keeps
  BY <1>3, <1>5 DEF Keeps, Evolves
<1>7. ASSUME NEW c \in Ids', c \notin Ids
      PROVE  ContractIn(chain'[c], Ids') /\ RoleOK(chain'[c], disk.project_root)
  <2>1. c = Len(chain') /\ Len(chain') # Len(chain)
    BY <1>2, <1>3, <1>7
  <2>2. tx.call = "create" /\ chain'[c] = tx.arg
    BY <2>1, ApplyFacts
  <2>3. ContractIn(tx.arg, Ids) /\ RoleOK(tx.arg, disk.project_root)
    BY <2>2 DEF IsTx, Ids
  <2> QED BY <1>3, <2>2, <2>3, ContractInMore
<1>8. \A c \in Ids' : ContractIn(chain'[c], Ids') /\ RoleOK(chain'[c], disk.project_root)
  BY <1>5, <1>7
<1> QED BY <1>2, <1>6, <1>8 DEF ChainInv

LEMMA ManifestKept ==
  ASSUME ManifestInv, Keeps, UNCHANGED disk
  PROVE  ManifestInv'
<1>1. disk' \in [Slots -> Ids' \cup {None}]
  BY DEF ManifestInv, Keeps
<1>2. Recorded' = Recorded
  BY DEF Recorded
<1>3. ASSUME NEW s \in Recorded
      PROVE  /\ disk[s] \in Ids' /\ chain'[disk[s]].kind = s
             /\ \A n \in DOMAIN Requires[s] : chain'[disk[s]].refs[n] = disk[Requires[s][n]]
  BY DEF ManifestInv, ManifestClosed, Keeps
<1> QED BY <1>1, <1>2, <1>3 DEF ManifestInv, ManifestClosed

LEMMA NetworkKept ==
  ASSUME NetworkInv, Keeps, UNCHANGED disk,
         inflight' = [a \in Accounts |-> inflight'[a]],
         \A a \in Accounts : inflight'[a] \in {inflight[a], None}
  PROVE  NetworkInv'
<1>1. ASSUME NEW a \in Accounts, inflight'[a] # None
      PROVE  IsTx(inflight'[a], chain', disk.project_root)
  <2>1. inflight'[a] = inflight[a] /\ IsTx(inflight[a], chain, disk.project_root)
    BY <1>1 DEF NetworkInv
  <2>2. DOMAIN chain \subseteq DOMAIN chain' /\ \A c \in DOMAIN chain : chain'[c].kind = chain[c].kind
    BY DEF Keeps, Ids
  <2> QED BY <2>1, <2>2, TxKept
<1> QED BY <1>1 DEF NetworkInv

-----------------------------------------------------------------------------
(* The manifest and the commands *)

(* What a slot records is there, and so is what its contract was given. *)
LEMMA RecordedFacts ==
  ASSUME ChainInv, ManifestInv, NEW s \in Slots, disk[s] # None
  PROVE  /\ disk[s] \in Ids /\ chain[disk[s]].kind = s
         /\ \A n \in DOMAIN Requires[s] :
              disk[Requires[s][n]] # None /\ chain[disk[s]].refs[n] = disk[Requires[s][n]]
<1>1. /\ disk[s] \in Ids /\ chain[disk[s]].kind = s
      /\ \A n \in DOMAIN Requires[s] : chain[disk[s]].refs[n] = disk[Requires[s][n]]
  BY DEF ManifestInv, ManifestClosed, Recorded
<1>2. chain[disk[s]].refs \in [DOMAIN Requires[s] -> Ids]
  BY <1>1 DEF ChainInv, ContractIn
<1>3. None \notin Ids
  BY IdFacts DEF ChainInv
<1>4. ASSUME NEW n \in DOMAIN Requires[s] PROVE disk[Requires[s][n]] # None
  <2>1. chain[disk[s]].refs[n] \in Ids
    BY <1>2
  <2> QED BY <1>1, <1>3, <2>1
<1> QED BY <1>1, <1>4

(* The pipeline below a recorded Project Root is recorded. *)
LEMMA PipelineFacts ==
  ASSUME ChainInv, ManifestInv, disk.project_root # None
  PROVE  \A s \in {"security", "verification", "project_root"} :
           disk[s] # None /\ disk[s] \in Ids /\ chain[disk[s]].kind = s
<1>1. disk["security"] # None /\ disk["verification"] # None
  <2>1. "project_root" \in Slots /\ 1 \in DOMAIN Requires["project_root"] /\ 2 \in DOMAIN Requires["project_root"]
    BY SlotFacts
  <2>2. \A n \in DOMAIN Requires["project_root"] : disk[Requires["project_root"][n]] # None
    BY <2>1, RecordedFacts
  <2> QED BY <2>1, <2>2, SlotFacts
<1> QED BY <1>1, RecordedFacts, SlotFacts

LEMMA AchievedKept ==
  ASSUME ChainInv, ManifestInv, Keeps, NEW c, Achieved(c, chain, disk)
  PROVE  Achieved(c, chain', disk)
<1>1. /\ disk["security"] \in Ids /\ chain[disk["security"]].kind = "security"
      /\ disk["verification"] \in Ids /\ chain[disk["verification"]].kind = "verification"
      /\ disk["project_root"] \in Ids /\ chain[disk["project_root"]].kind = "project_root"
  BY PipelineFacts DEF Achieved
<1> QED BY <1>1 DEF Achieved, Keeps

LEMMA DoneKept ==
  ASSUME ChainInv, ManifestInv, DoneInv, Keeps, UNCHANGED <<disk, done>>
  PROVE  DoneInv'
BY AchievedKept DEF DoneInv

LEMMA CommandKept ==
  ASSUME ChainInv, ManifestInv, CommandInv, MadeInv, Keeps, UNCHANGED <<process, disk>>
  PROVE  CommandInv' /\ MadeInv'
<1>1. CommandInv'
  <2>1. Idle => Idle'
    BY DEF Idle, process
  <2>2. Deploying => Deploying'
    BY DEF Deploying, process
  <2>3. Adopting => Adopting'
    <3> SUFFICES ASSUME Adopting PROVE Adopting'
      OBVIOUS
    <3>1. disk["security"] \in Ids /\ chain[disk["security"]].kind = "security"
      BY PipelineFacts DEF Adopting
    <3>2. chain[disk.security].admin = disk.project_root => chain'[disk.security].admin = disk.project_root
      BY <3>1 DEF Keeps
    <3> QED BY <3>2 DEF Adopting, process
  <2>4. Registering => Registering'
    BY DEF Registering, process
  <2> QED BY <2>1, <2>2, <2>3, <2>4 DEF CommandInv, process
<1>2. MadeInv'
  <2>1. pc' = pc /\ made' = made /\ target' = target /\ disk' = disk
    BY DEF process
  <2> QED BY <2>1 DEF MadeInv, Keeps
<1> QED BY <1>1, <1>2

LEMMA ExitFacts ==
  ASSUME Exit
  PROVE  CommandInv' /\ MadeInv'
<1>1. 1 \in 1..MaxRetries
  BY RetriesAssumption
<1> QED BY <1>1 DEF Exit, CommandInv, MadeInv, Idle

(* deploy goes on with the first slot that the manifest leaves open. *)
LEMMA ResumeFacts ==
  ASSUME NEW m, Resume(m), disk' = m, account' \in Accounts, cmd' = "deploy", made' = None
  PROVE  CommandInv' /\ MadeInv'
<1> DEFINE open == {n \in DOMAIN Pipeline : m[Pipeline[n]] = None}
           k == IF m["security"] = None THEN 1 ELSE IF m["verification"] = None THEN 2 ELSE 3
<1>1. /\ DOMAIN Pipeline = {1, 2, 3} /\ Pipeline[1] = "security" /\ Pipeline[2] = "verification"
      /\ Pipeline[3] = "project_root"
  BY DEF Pipeline
<1>2. attempt' = 1 /\ 1 \in 1..MaxRetries
  BY RetriesAssumption DEF Resume, GoTo
<1>3. CASE open = {}
  <2>1. m["project_root"] # None
    BY <1>1, <1>3
  <2>2. pc' = "read_admin" /\ target' = "security"
    BY <1>3 DEF Resume, GoTo
  <2> QED BY <1>2, <2>1, <2>2 DEF CommandInv, MadeInv, Adopting
<1>4. CASE open # {}
  <2>1. k \in open /\ \A n \in open : k <= n
    BY <1>1, <1>4
  <2>2. Min(open) = k
    <3>1. open \subseteq Nat
      BY <1>1
    <3> HIDE DEF open, k
    <3>2. \A n \in open : (\A y \in open : n <= y) => n = k
      BY <2>1, <3>1
    <3> QED BY <2>1, <3>2 DEF Min
  <2>3. pc' = "create" /\ target' = Pipeline[k]
    <3>1. pc' = "create" /\ target' = Pipeline[Min(open)]
      BY <1>4 DEF Resume, GoTo
    <3> QED BY <2>2, <3>1
  <2>4. /\ target' \in {"security", "verification", "project_root"}
        /\ m[target'] = None
        /\ \A n \in DOMAIN Requires[target'] : m[Requires[target'][n]] # None
    BY <1>1, <2>1, <2>3, SlotFacts
  <2>5. Deploying'
    BY <2>3, <2>4 DEF Deploying
  <2> QED BY <1>2, <2>3, <2>5 DEF CommandInv, MadeInv
<1> QED BY <1>3, <1>4

(* Once the contract of the slot has the administrator it should have, the *)
(* command goes on to the next or is done.                                 *)
LEMMA NextTargetFacts ==
  ASSUME ChainInv, ManifestInv, DoneInv, CommandInv, Adopting, made = None,
         Keeps, UNCHANGED disk, NextTarget,
         chain'[disk[target]].admin = NewAdmin(target)
  PROVE  CommandInv' /\ MadeInv' /\ DoneInv'
<1>1. 1 \in 1..MaxRetries
  BY RetriesAssumption
<1>2. account \in Accounts
  BY DEF CommandInv, Adopting, Idle
<1>3. CASE target = "security"
  <2>1. /\ pc' = "read_admin" /\ target' = "verification" /\ attempt' = 1
        /\ UNCHANGED <<account, cmd, made, done>>
    BY <1>3 DEF NextTarget, GoTo
  <2>2. cmd = "deploy" /\ disk.project_root # None
    BY <1>3 DEF Adopting
  <2>3. chain'[disk.security].admin = disk.project_root
    BY <1>3 DEF NewAdmin
  <2>4. Adopting'
    BY <2>1, <2>2, <2>3 DEF Adopting
  <2>5. CommandInv' /\ MadeInv'
    BY <1>1, <1>2, <2>1, <2>4 DEF CommandInv, MadeInv
  <2> QED BY <2>1, <2>5, DoneKept
<1>4. CASE target # "security"
  <2>1. Succeed
    BY <1>4 DEF NextTarget
  <2>2. Achieved(cmd, chain', disk)
    <3>1. CASE target = "verification"
      <4>1. cmd = "deploy" /\ chain[disk.security].admin = disk.project_root /\ disk.project_root # None
        BY <3>1 DEF Adopting
      <4>2. chain'[disk.verification].admin = disk.project_root
        BY <3>1 DEF NewAdmin
      <4>3. chain'[disk.security].admin = disk.project_root
        <5>1. disk["security"] \in Ids /\ chain[disk["security"]].kind = "security"
          BY <4>1, PipelineFacts
        <5> QED BY <4>1, <5>1 DEF Keeps
      <4> QED BY <4>1, <4>2, <4>3 DEF Achieved
    <3>2. CASE target = "project_root"
      <4>1. cmd = "handover" /\ disk.project_root # None
        BY <3>2 DEF Adopting
      <4>2. chain'[disk.project_root].admin = Owner
        BY <3>2 DEF NewAdmin
      <4> QED BY <4>1, <4>2 DEF Achieved
    <3> QED BY <1>4, <3>1, <3>2 DEF Adopting
  <2>3. cmd \in {"deploy", "deploy_handler", "handover"}
    BY DEF Adopting
  <2>4. DoneInv'
    BY <2>1, <2>2, <2>3, AchievedKept DEF DoneInv, Succeed
  <2> QED BY <2>1, <2>4, ExitFacts DEF Succeed
<1> QED BY <1>3, <1>4

-----------------------------------------------------------------------------
(* The steps *)
LEMMA ApplyWorld ==
  ASSUME ChainInv, ManifestInv, NetworkInv, NEW tx, IsTx(tx, chain, disk.project_root),
         NEW by \in Accounts, Apply(tx, by), UNCHANGED disk
  PROVE  Keeps /\ ChainInv' /\ ManifestInv' /\ NetworkInv'
<1>1. Keeps /\ ChainInv'
  BY ApplyChain
<1>2. inflight' = [inflight EXCEPT ![by] = None]
  BY DEF Apply
<1>3. /\ inflight' = [a \in Accounts |-> inflight'[a]]
      /\ \A a \in Accounts : inflight'[a] \in {inflight[a], None}
  BY <1>2 DEF NetworkInv
<1> QED BY <1>1, <1>3, ManifestKept, NetworkKept

(* A transaction takes effect and no command goes on. *)
LEMMA ApplyInv ==
  ASSUME DeploymentInv, NEW tx, IsTx(tx, chain, disk.project_root), NEW by \in Accounts,
         Apply(tx, by), UNCHANGED <<process, disk, done>>
  PROVE  DeploymentInv'
<1>1. /\ ChainInv /\ ManifestInv /\ NetworkInv /\ CommandInv /\ MadeInv /\ DoneInv
      /\ UNCHANGED disk /\ UNCHANGED <<process, disk>> /\ UNCHANGED <<disk, done>>
  BY DEF DeploymentInv
<1>2. Keeps /\ ChainInv' /\ ManifestInv' /\ NetworkInv'
  BY <1>1, ApplyWorld
<1> QED BY <1>1, <1>2, CommandKept, DoneKept DEF DeploymentInv

LEMMA SameWorld ==
  ASSUME ChainInv, ManifestInv, UNCHANGED <<chain, disk>>
  PROVE  Keeps /\ ChainInv' /\ ManifestInv'
<1>1. Ids' = Ids /\ Ids \subseteq Nat
  BY IdFacts DEF ChainInv, Ids
<1>2. Keeps
  BY <1>1 DEF Keeps
<1>3. ManifestInv'
  BY <1>2, ManifestKept
<1> QED BY <1>1, <1>2, <1>3 DEF ChainInv

LEMMA SameNetwork ==
  ASSUME NetworkInv, UNCHANGED <<chain, disk, inflight>>
  PROVE  NetworkInv'
BY DEF NetworkInv

(* The contract a command is about to deploy *)
LEMMA NewContractFacts ==
  ASSUME ChainInv, ManifestInv, account \in Accounts, Deploying
  PROVE  LET c == NewContract(target) IN
         /\ c \in Contracts /\ ContractIn(c, Ids) /\ RoleOK(c, disk.project_root)
         /\ c.kind = target
         /\ \A n \in DOMAIN Requires[target] : c.refs[n] = disk[Requires[target][n]]
<1> DEFINE c == NewContract(target)
           refs == [n \in DOMAIN Requires[target] |-> disk[Requires[target][n]]]
           admin == IF target = "handler" THEN disk.project_root ELSE account
<1>1. c = [kind |-> target, admin |-> admin, pending |-> None, handlers |-> {}, refs |-> refs]
  BY DEF NewContract
<1>2. target \in Slots
  BY SlotFacts DEF Deploying
<1>3. Ids \subseteq Nat
  BY IdFacts DEF ChainInv
<1>4. \A n \in DOMAIN Requires[target] : Requires[target][n] \in Slots
  BY <1>2, SlotFacts
<1>5. refs \in [DOMAIN Requires[target] -> Ids]
  BY <1>4 DEF Deploying, ManifestInv
<1>6. refs \in Seq(Nat)
  <2>1. DOMAIN Requires[target] \in {1..0, 1..1, 1..2}
    <3>1. {} = 1..0 /\ {1} = 1..1 /\ {1, 2} = 1..2
      OBVIOUS
    <3> QED BY <1>2, <3>1, SlotFacts
  <2> HIDE DEF refs
  <2>2. PICK n \in Nat : refs \in [1..n -> Nat]
    BY <1>3, <1>5, <2>1
  <2> QED BY <2>2
<1>7. /\ admin \in Accounts \cup Ids
      /\ target # "handler" => admin \in Accounts
      /\ target = "handler" => admin = disk.project_root
  <2>1. target = "handler" => disk["project_root"] # None
    BY DEF Deploying
  <2>2. disk["project_root"] \in Ids \cup {None}
    BY SlotFacts DEF ManifestInv
  <2> QED BY <2>1, <2>2
<1> HIDE DEF refs, admin
<1>8. c \in Contracts
  <2>1. admin \in Accounts \cup Nat /\ {} \in SUBSET Nat
    BY <1>3, <1>7
  <2>2. [kind |-> target, admin |-> admin, pending |-> None, handlers |-> {}, refs |-> refs]
          \in Contracts
    BY <1>2, <1>6, <2>1 DEF Contracts
  <2> QED BY <1>1, <2>2
<1>9. ContractIn(c, Ids)
  BY <1>1, <1>2, <1>5, <1>7 DEF ContractIn
<1>10. RoleOK(c, disk.project_root)
  BY <1>1, <1>7 DEF RoleOK
<1>11. c.kind = target /\ \A n \in DOMAIN Requires[target] : c.refs[n] = disk[Requires[target][n]]
  BY <1>1 DEF refs
<1> QED BY <1>8, <1>9, <1>10, <1>11

(* What a command sends is a transaction of the invariant. *)
LEMMA RequestFacts ==
  ASSUME ChainInv, ManifestInv, CommandInv, Sending
  PROVE  IsTx(Request, chain, disk.project_root) /\ account \in Accounts
<1>1. account \in Accounts /\ (Deploying \/ Adopting \/ Registering)
  BY DEF CommandInv, Idle, Sending
<1>2. CASE pc = "create"
  <2>1. Request = Tx("create", None, NewContract(target)) /\ Deploying
    BY <1>1, <1>2 DEF Request, Adopting, Registering
  <2>2. LET c == NewContract(target) IN
        c \in Contracts /\ ContractIn(c, Ids) /\ RoleOK(c, disk.project_root)
    BY <1>1, <2>1, NewContractFacts
  <2> QED BY <1>1, <2>1, <2>2 DEF Tx, IsTx, Ids
<1>3. CASE pc = "propose"
  <2>1. Request = Tx("propose_admin", disk[target], NewAdmin(target)) /\ Adopting
    BY <1>1, <1>3 DEF Request, Deploying, Registering
  <2>2. disk[target] \in Ids /\ chain[disk[target]].kind = target
    BY <2>1, PipelineFacts DEF Adopting
  <2>3. NewAdmin(target) # None
    BY <2>1, AddressFacts DEF NewAdmin, Adopting
  <2> QED BY <1>1, <2>1, <2>2, <2>3 DEF Tx, IsTx, Ids, NewAdmin
<1>4. CASE pc = "accept"
  <2>1. Request = Tx("accept_contract_admin", disk.project_root, disk[target]) /\ Adopting
    BY <1>1, <1>4 DEF Request, Deploying, Registering
  <2>2. /\ disk[target] \in Ids /\ chain[disk[target]].kind = target /\ target # "project_root"
        /\ disk["project_root"] \in Ids
    BY <1>4, <2>1, PipelineFacts DEF Adopting
  <2> QED BY <1>1, <2>1, <2>2 DEF Tx, IsTx, Ids
<1>5. CASE pc = "register"
  <2>1. Request = Tx("register_handler", disk.project_root, disk.handler) /\ Registering
    BY <1>1, <1>5 DEF Request, Deploying, Adopting
  <2>2. disk["project_root"] \in Ids /\ disk["handler"] \in Ids
    BY <2>1, RecordedFacts, SlotFacts DEF Registering
  <2> QED BY <1>1, <2>1, <2>2 DEF Tx, IsTx, Ids
<1> QED BY <1>2, <1>3, <1>4, <1>5 DEF Sending

(* An attempt that failed is made again or ends the command. *)
LEMMA FailedFacts ==
  ASSUME ChainInv, ManifestInv, CommandInv, MadeInv, NEW transient, Failed(transient),
         UNCHANGED <<chain, disk>>
  PROVE  CommandInv' /\ MadeInv'
<1>1. CASE Exit
  BY <1>1, ExitFacts
<1>2. CASE attempt < MaxRetries /\ attempt' = attempt + 1 /\ UNCHANGED <<account, cmd, pc, target, made>>
  <2>1. attempt' \in 1..MaxRetries
    BY <1>2, RetriesAssumption DEF CommandInv
  <2>2. /\ Idle' = Idle /\ Deploying' = Deploying /\ Adopting' = Adopting
        /\ Registering' = Registering /\ MadeInv' = MadeInv
    BY <1>2 DEF Idle, Deploying, Adopting, Registering, MadeInv, Ids
  <2> QED BY <1>2, <2>1, <2>2 DEF CommandInv
<1> QED BY <1>1, <1>2 DEF Failed

LEMMA StartStep ==
  ASSUME DeploymentInv,
         StartDeploy \/ (\E a \in Accounts : StartDeployHandler(a)) \/ StartHandover
  PROVE  DeploymentInv'
<1>1. ChainInv /\ ManifestInv /\ NetworkInv /\ CommandInv /\ MadeInv /\ DoneInv
  BY DEF DeploymentInv
<1>2. UNCHANGED <<chain, disk, inflight, made, done>> /\ cmd = "none"
  BY DEF StartDeploy, StartDeployHandler, StartHandover, ledger
<1>3. Keeps /\ ChainInv' /\ ManifestInv' /\ NetworkInv' /\ DoneInv'
  BY <1>1, <1>2, SameWorld, SameNetwork, DoneKept
<1>4. pc = "idle" /\ made' = None
  BY <1>1, <1>2 DEF CommandInv, Idle, Deploying, Adopting, Registering, MadeInv
<1>5. 1 \in 1..MaxRetries
  BY RetriesAssumption
<1>6. CASE StartDeploy
  <2>1. Resume(disk) /\ account' \in Accounts /\ cmd' = "deploy" /\ disk' = disk
    BY <1>6, AddressFacts DEF StartDeploy
  <2>2. CommandInv' /\ MadeInv'
    BY <1>4, <2>1, ResumeFacts
  <2> QED BY <1>3, <2>2 DEF DeploymentInv
<1>7. ASSUME NEW a \in Accounts, StartDeployHandler(a) PROVE DeploymentInv'
  <2>1. account' \in Accounts /\ cmd' = "deploy_handler" /\ disk.project_root # None /\ attempt' = 1
    BY <1>7 DEF StartDeployHandler, GoTo
  <2>2. CASE disk.handler = None
    <3>1. pc' = "create" /\ target' = "handler"
      BY <1>7, <2>2 DEF StartDeployHandler, GoTo
    <3>2. disk["verification"] # None
      BY <1>1, <2>1, PipelineFacts
    <3>3. Deploying'
      BY <1>2, <2>1, <2>2, <3>1, <3>2, SlotFacts DEF Deploying
    <3> QED BY <1>3, <1>4, <1>5, <2>1, <3>1, <3>3 DEF DeploymentInv, CommandInv, MadeInv
  <2>3. CASE disk.handler # None
    <3>1. pc' = "read_owner" /\ target' = "handler"
      BY <1>7, <2>3 DEF StartDeployHandler, GoTo
    <3>2. Registering'
      BY <1>2, <2>1, <2>3, <3>1 DEF Registering
    <3> QED BY <1>3, <1>4, <1>5, <2>1, <3>1, <3>2 DEF DeploymentInv, CommandInv, MadeInv
  <2> QED BY <2>2, <2>3
<1>8. CASE StartHandover
  <2>1. /\ account' \in Accounts /\ cmd' = "handover" /\ disk.project_root # None
        /\ attempt' = 1 /\ pc' = "read_admin" /\ target' = "project_root"
    BY <1>8, AddressFacts DEF StartHandover, GoTo
  <2>2. Adopting'
    BY <1>2, <2>1 DEF Adopting
  <2> QED BY <1>3, <1>4, <1>5, <2>1, <2>2 DEF DeploymentInv, CommandInv, MadeInv
<1> QED BY <1>6, <1>7, <1>8

(* The Project Root is recorded: no contract was offered to another. *)
LEMMA RootRecorded ==
  ASSUME NEW ids, NEW c, ContractIn(c, ids), RoleOK(c, None), None \notin ids, NEW root
  PROVE  RoleOK(c, root)
BY AddressFacts DEF ContractIn, RoleOK

LEMMA PersistWorld ==
  ASSUME ChainInv, ManifestInv, NetworkInv, DoneInv, CommandInv, MadeInv, Persist
  PROVE  /\ ChainInv' /\ ManifestInv' /\ NetworkInv' /\ DoneInv'
         /\ Deploying /\ disk' = [disk EXCEPT ![target] = made] /\ disk'[target] # None
         /\ target \in Slots /\ made # None /\ made \in Ids
<1>1. /\ disk' = [disk EXCEPT ![target] = made]
      /\ UNCHANGED <<chain, inflight, done, account, cmd>> /\ pc = "persist"
  BY DEF Persist, ledger
<1>2. account \in Accounts /\ Deploying
  BY <1>1 DEF CommandInv, Idle, Adopting, Registering
<1>3. /\ target \in Slots /\ disk[target] = None
      /\ \A n \in DOMAIN Requires[target] : disk[Requires[target][n]] # None
  BY <1>2, SlotFacts DEF Deploying
<1>4. /\ made \in Ids /\ chain[made].kind = target
      /\ \A n \in DOMAIN Requires[target] : chain[made].refs[n] = disk[Requires[target][n]]
  BY <1>1 DEF MadeInv
<1>5. Ids' = Ids /\ None \notin Ids
  BY <1>1, IdFacts DEF ChainInv, Ids
<1>6. /\ disk' \in [Slots -> Ids' \cup {None}] /\ disk'[target] = made /\ made # None
      /\ \A s \in Slots \ {target} : disk'[s] = disk[s]
  BY <1>1, <1>3, <1>4, <1>5 DEF ManifestInv
<1>7. disk'.project_root = disk.project_root \/ disk.project_root = None
  <2>1. "project_root" \in Slots
    BY SlotFacts
  <2> QED BY <1>3, <1>6, <2>1
<1>8. ChainInv'
  <2>1. ASSUME NEW c \in Ids PROVE RoleOK(chain[c], disk'.project_root)
    <3>1. ContractIn(chain[c], Ids) /\ RoleOK(chain[c], disk.project_root)
      BY DEF ChainInv
    <3> QED BY <1>5, <1>7, <3>1, RootRecorded
  <2> QED BY <1>1, <1>5, <2>1 DEF ChainInv
<1>9. ManifestInv'
  <2>1. ASSUME NEW s \in Slots, disk'[s] # None
        PROVE  /\ disk'[s] \in Ids /\ chain[disk'[s]].kind = s
               /\ \A n \in DOMAIN Requires[s] : chain[disk'[s]].refs[n] = disk'[Requires[s][n]]
    <3>1. \A n \in DOMAIN Requires[s] : Requires[s][n] \in Slots
      BY SlotFacts
    <3>2. CASE s = target
      <4>1. \A n \in DOMAIN Requires[s] : disk'[Requires[s][n]] = disk[Requires[s][n]]
        BY <1>3, <1>6, <3>1, <3>2
      <4> QED BY <1>4, <1>6, <3>2, <4>1
    <3>3. CASE s # target
      <4>1. disk'[s] = disk[s] /\ disk[s] # None
        BY <1>6, <2>1, <3>3
      <4>2. /\ disk[s] \in Ids /\ chain[disk[s]].kind = s
            /\ \A n \in DOMAIN Requires[s] :
                 disk[Requires[s][n]] # None /\ chain[disk[s]].refs[n] = disk[Requires[s][n]]
        BY <4>1, RecordedFacts
      <4>3. \A n \in DOMAIN Requires[s] : disk'[Requires[s][n]] = disk[Requires[s][n]]
        BY <1>3, <1>6, <3>1, <4>2
      <4> QED BY <4>1, <4>2, <4>3
    <3> QED BY <3>2, <3>3
  <2> QED BY <1>1, <1>5, <1>6, <2>1 DEF ManifestInv, ManifestClosed, Recorded
<1>10. NetworkInv'
  <2>1. ASSUME NEW a \in Accounts, inflight[a] # None
        PROVE  IsTx(inflight[a], chain, disk'.project_root)
    <3>1. IsTx(inflight[a], chain, disk.project_root)
      BY <2>1 DEF NetworkInv
    <3>2. DOMAIN chain = Ids
      BY DEF Ids
    <3> DEFINE tx == inflight[a]
    <3>3. CASE tx.call = "create"
      <4>1. tx.arg \in Contracts /\ ContractIn(tx.arg, Ids) /\ RoleOK(tx.arg, disk.project_root)
        BY <3>1, <3>2, <3>3 DEF IsTx
      <4>2. RoleOK(tx.arg, disk'.project_root)
        BY <1>5, <1>7, <4>1, RootRecorded
      <4> QED BY <3>2, <3>3, <4>1, <4>2 DEF IsTx
    <3>4. CASE tx.call # "create"
      <4> HIDE DEF tx
      <4>1. IsTx(tx, chain, disk.project_root)
        BY <3>1 DEF tx
      <4>2. IsTx(tx, chain, disk'.project_root)
        BY <1>7, <3>4, <4>1 DEF IsTx
      <4> QED BY <4>2 DEF tx
    <3> QED BY <3>3, <3>4
  <2> QED BY <1>1, <2>1 DEF NetworkInv
<1>11. DoneInv'
  <2>1. ASSUME NEW c \in done PROVE Achieved(c, chain, disk')
    <3>1. Achieved(c, chain, disk)
      BY DEF DoneInv
    <3>2. /\ disk["security"] # None /\ disk["verification"] # None /\ disk["project_root"] # None
          /\ disk["project_root"] \in Ids
      BY <3>1, PipelineFacts DEF Achieved
    <3>3. /\ disk'["security"] = disk["security"] /\ disk'["verification"] = disk["verification"]
          /\ disk'["project_root"] = disk["project_root"]
      BY <1>3, <1>6, <3>2, SlotFacts
    <3>4. c = "deploy_handler" => disk'["handler"] = disk["handler"]
      <4>1. chain[disk["project_root"]].handlers \subseteq Ids
        BY <3>2 DEF ChainInv, ContractIn
      <4>2. c = "deploy_handler" => disk["handler"] # None
        BY <1>5, <3>1, <4>1 DEF Achieved
      <4> QED BY <1>3, <1>6, <4>2, SlotFacts
    <3> QED BY <3>1, <3>3, <3>4 DEF Achieved
  <2> QED BY <1>1, <2>1 DEF DoneInv
<1> QED BY <1>1, <1>2, <1>3, <1>4, <1>6, <1>8, <1>9, <1>10, <1>11

LEMMA PersistStep ==
  ASSUME DeploymentInv, Persist
  PROVE  DeploymentInv'
<1>1. ChainInv /\ ManifestInv /\ NetworkInv /\ CommandInv /\ MadeInv /\ DoneInv
  BY DEF DeploymentInv
<1>2. /\ ChainInv' /\ ManifestInv' /\ NetworkInv' /\ DoneInv'
      /\ Deploying /\ disk' = [disk EXCEPT ![target] = made] /\ disk'[target] # None
      /\ target \in Slots /\ made # None
  BY <1>1, PersistWorld
<1>3. UNCHANGED <<account, cmd>> /\ made' = None
  BY DEF Persist
<1>4. account \in Accounts
  BY <1>1, <1>2 DEF CommandInv, Idle, Deploying
<1>5. CASE cmd = "deploy"
  <2>1. Resume(disk')
    BY <1>5 DEF Persist
  <2>2. CommandInv' /\ MadeInv'
    BY <1>3, <1>4, <1>5, <2>1, ResumeFacts
  <2> QED BY <1>2, <2>2 DEF DeploymentInv
<1>6. CASE cmd # "deploy"
  <2>1. pc' = "read_owner" /\ target' = target /\ attempt' = 1
    BY <1>6 DEF Persist, GoTo
  <2>2. cmd = "deploy_handler" /\ target = "handler" /\ disk["project_root"] # None
    BY <1>2, <1>6 DEF Deploying
  <2>3. disk'["project_root"] = disk["project_root"] /\ disk'["handler"] # None
    BY <1>1, <1>2, <2>2, SlotFacts DEF ManifestInv
  <2>4. Registering'
    BY <1>3, <2>1, <2>2, <2>3 DEF Registering
  <2>5. 1 \in 1..MaxRetries
    BY RetriesAssumption
  <2> QED BY <1>2, <1>3, <1>4, <2>1, <2>4, <2>5 DEF DeploymentInv, CommandInv, MadeInv
<1> QED BY <1>5, <1>6

(* The queries of a command *)
LEMMA ReadStep ==
  ASSUME DeploymentInv, ReadAdmin \/ ReadPending \/ ReadOwner
  PROVE  DeploymentInv'
<1>1. ChainInv /\ ManifestInv /\ NetworkInv /\ CommandInv /\ MadeInv /\ DoneInv
  BY DEF DeploymentInv
<1>2. UNCHANGED <<chain, disk, inflight>> /\ pc \in {"read_admin", "read_pending", "read_owner"}
  BY DEF ReadAdmin, ReadPending, ReadOwner, ledger
<1>3. /\ Keeps /\ ChainInv' /\ ManifestInv' /\ NetworkInv'
      /\ UNCHANGED done => DoneInv'
  BY <1>1, <1>2, SameWorld, SameNetwork, DoneKept
<1>4. made = None /\ account \in Accounts /\ 1 \in 1..MaxRetries
  BY <1>1, <1>2, RetriesAssumption DEF MadeInv, CommandInv, Idle
<1>5. ASSUME Adopting, NEW p \in {"read_pending", "propose", "accept"}, GoTo(p, target),
             UNCHANGED <<account, cmd, made, done>>, p = "accept" => cmd = "deploy"
      PROVE  DeploymentInv'
  <2>1. Adopting'
    BY <1>2, <1>5 DEF Adopting, GoTo
  <2>2. CommandInv' /\ MadeInv'
    BY <1>4, <1>5, <2>1 DEF CommandInv, MadeInv, GoTo
  <2> QED BY <1>3, <1>5, <2>2 DEF DeploymentInv
<1>6. CASE ReadAdmin
  <2>1. Adopting
    BY <1>1, <1>6 DEF ReadAdmin, CommandInv, Idle, Deploying, Registering
  <2>2. CASE chain[disk[target]].admin = NewAdmin(target)
    <3>1. NextTarget /\ chain'[disk[target]].admin = NewAdmin(target) /\ UNCHANGED disk
      BY <1>2, <1>6, <2>2 DEF ReadAdmin
    <3>2. CommandInv' /\ MadeInv' /\ DoneInv'
      BY <1>1, <1>3, <1>4, <2>1, <3>1, NextTargetFacts
    <3> QED BY <1>3, <3>2 DEF DeploymentInv
  <2>3. CASE chain[disk[target]].admin # NewAdmin(target)
    BY <1>5, <1>6, <2>1, <2>3 DEF ReadAdmin
  <2> QED BY <2>2, <2>3
<1>7. CASE ReadPending
  <2>1. Adopting
    BY <1>1, <1>7 DEF ReadPending, CommandInv, Idle, Deploying, Registering
  <2>2. CASE chain[disk[target]].pending # NewAdmin(target) \/ cmd = "deploy"
    BY <1>5, <1>7, <2>1, <2>2 DEF ReadPending
  <2>3. CASE chain[disk[target]].pending = NewAdmin(target) /\ cmd # "deploy"
    <3>1. Succeed /\ cmd = "handover" /\ target = "project_root" /\ disk.project_root # None
      BY <1>7, <2>1, <2>3 DEF ReadPending, Adopting
    <3>2. chain[disk["project_root"]].pending = Owner
      BY <2>3, <3>1 DEF NewAdmin
    <3>3. Achieved(cmd, chain, disk)
      BY <3>1, <3>2 DEF Achieved
    <3>4. DoneInv'
      BY <1>1, <1>2, <3>1, <3>3 DEF DoneInv, Succeed
    <3>5. CommandInv' /\ MadeInv'
      BY <3>1, ExitFacts DEF Succeed
    <3> QED BY <1>3, <3>4, <3>5 DEF DeploymentInv
  <2> QED BY <2>2, <2>3
<1>8. CASE ReadOwner
  <2>1. Registering
    BY <1>1, <1>8 DEF ReadOwner, CommandInv, Idle, Deploying, Adopting
  <2>2. CASE Exit /\ UNCHANGED done
    BY <1>3, <2>2, ExitFacts DEF DeploymentInv
  <2>3. CASE GoTo("register", target) /\ UNCHANGED <<account, cmd, made, done>>
    <3>1. Registering'
      BY <1>2, <2>1, <2>3 DEF Registering, GoTo
    <3>2. CommandInv' /\ MadeInv'
      BY <1>4, <2>3, <3>1 DEF CommandInv, MadeInv, GoTo
    <3> QED BY <1>3, <2>3, <3>2 DEF DeploymentInv
  <2> QED BY <1>8, <2>2, <2>3 DEF ReadOwner
<1> QED BY <1>6, <1>7, <1>8

(* A transaction of a command takes effect and the answer arrives. *)
LEMMA SendStep ==
  ASSUME DeploymentInv, Send
  PROVE  DeploymentInv'
<1>1. ChainInv /\ ManifestInv /\ NetworkInv /\ CommandInv /\ MadeInv /\ DoneInv
  BY DEF DeploymentInv
<1>2. /\ Sending /\ Apply(Request, account) /\ Answered /\ UNCHANGED disk
      /\ IsTx(Request, chain, disk.project_root) /\ account \in Accounts
  BY <1>1, RequestFacts DEF Send
<1>3. Keeps /\ ChainInv' /\ ManifestInv' /\ NetworkInv' /\ (UNCHANGED done => DoneInv')
  BY <1>1, <1>2, ApplyWorld, DoneKept
<1>4. made = None /\ 1 \in 1..MaxRetries
  BY <1>1, <1>2, RetriesAssumption DEF MadeInv, Sending
<1>5. Deploying \/ Adopting \/ Registering
  BY <1>1, <1>2 DEF CommandInv, Idle, Sending
<1>6. ASSUME Succeed, Achieved(cmd, chain', disk), cmd \in {"deploy", "deploy_handler", "handover"}
      PROVE  DeploymentInv'
  <2>1. DoneInv'
    BY <1>1, <1>2, <1>3, <1>6, AchievedKept DEF DoneInv, Succeed
  <2> QED BY <1>3, <1>6, <2>1, ExitFacts DEF DeploymentInv, Succeed
<1>7. CASE pc = "create"
  <2>1. Request = Tx("create", None, NewContract(target)) /\ Deploying
    BY <1>5, <1>7 DEF Request, Adopting, Registering
  <2>2. /\ made' = Len(chain') /\ pc' = "persist" /\ target' = target /\ attempt' = 1
        /\ UNCHANGED <<account, cmd, done>>
    BY <1>2, <1>7 DEF Answered, GoTo
  <2>3. Request.call = "create" /\ Request.arg = NewContract(target)
    BY <2>1 DEF Tx
  <2>4. Len(chain') = Len(chain) + 1 /\ chain'[Len(chain')] = NewContract(target)
    <3>1. Request.call = "create" => Len(chain') = Len(chain) + 1 /\ chain'[Len(chain')] = Request.arg
      BY <1>1, <1>2, ApplyFacts
    <3> QED BY <2>3, <3>1
  <2>5. made' \in Ids'
    <3>1. Len(chain) \in Nat /\ Ids' = 1..Len(chain')
      BY <1>1, <1>3, IdFacts DEF ChainInv, Ids
    <3> QED BY <2>2, <2>4, <3>1
  <2>6. /\ chain'[made'].kind = target
        /\ \A n \in DOMAIN Requires[target] : chain'[made'].refs[n] = disk[Requires[target][n]]
    <3>1. LET c == NewContract(target) IN
          c.kind = target /\ \A n \in DOMAIN Requires[target] : c.refs[n] = disk[Requires[target][n]]
      BY <1>1, <1>2, <2>1, NewContractFacts
    <3> QED BY <2>2, <2>4, <3>1
  <2>7. MadeInv'
    BY <1>2, <2>2, <2>5, <2>6 DEF MadeInv
  <2>8. Deploying'
    BY <1>2, <2>1, <2>2 DEF Deploying
  <2> QED BY <1>2, <1>3, <1>4, <2>2, <2>7, <2>8 DEF DeploymentInv, CommandInv
<1>8. CASE pc = "propose"
  <2>1. Request = Tx("propose_admin", disk[target], NewAdmin(target)) /\ Adopting
    BY <1>5, <1>8 DEF Request, Deploying, Registering
  <2>2. CASE cmd = "deploy"
    <3>1. GoTo("accept", target) /\ UNCHANGED <<account, cmd, made, done>>
      BY <1>2, <1>8, <2>2 DEF Answered
    <3>2. Adopting'
      <4>1. target = "verification" => chain'[disk.security].admin = disk.project_root
        <5>1. disk["security"] \in Ids /\ chain[disk["security"]].kind = "security"
          BY <1>1, <2>1, PipelineFacts DEF Adopting
        <5> QED BY <1>3, <2>1, <5>1 DEF Adopting, Keeps
      <4> QED BY <1>2, <2>1, <2>2, <3>1, <4>1 DEF Adopting, GoTo
    <3>3. CommandInv' /\ MadeInv'
      BY <1>2, <1>4, <3>1, <3>2 DEF CommandInv, MadeInv, GoTo
    <3> QED BY <1>3, <3>1, <3>3 DEF DeploymentInv
  <2>3. CASE cmd = "handover"
    <3>1. Succeed /\ target = "project_root" /\ disk.project_root # None
      BY <1>2, <1>8, <2>1, <2>3 DEF Answered, Adopting
    <3>2. chain'[disk["project_root"]].pending = Owner
      <4>1. Request.call = "propose_admin" => chain'[Request.on].pending = Request.arg
        BY <1>1, <1>2, ApplyFacts
      <4> QED BY <2>1, <3>1, <4>1 DEF Tx, NewAdmin
    <3>3. Achieved(cmd, chain', disk)
      BY <2>3, <3>1, <3>2 DEF Achieved
    <3> QED BY <1>6, <2>3, <3>1, <3>3
  <2> QED BY <2>1, <2>2, <2>3 DEF Adopting
<1>9. CASE pc = "accept"
  <2>1. Request = Tx("accept_contract_admin", disk.project_root, disk[target]) /\ Adopting
    BY <1>5, <1>9 DEF Request, Deploying, Registering
  <2>2. NextTarget /\ target \in {"security", "verification"}
    BY <1>2, <1>9, <2>1 DEF Answered, Adopting
  <2>3. chain[disk[target]].pending # None /\ chain'[disk[target]].admin = chain[disk[target]].pending
    <3>1. Request.call = "accept_contract_admin" =>
            chain[Request.arg].pending # None /\ chain'[Request.arg].admin = chain[Request.arg].pending
      BY <1>1, <1>2, ApplyFacts
    <3> QED BY <2>1, <3>1 DEF Tx
  <2>4. chain[disk[target]].pending \in {None, disk.project_root}
    <3>1. disk[target] \in Ids /\ chain[disk[target]].kind = target
      BY <1>1, <2>1, <2>2, PipelineFacts DEF Adopting
    <3>2. RoleOK(chain[disk[target]], disk.project_root)
      BY <1>1, <3>1 DEF ChainInv
    <3> QED BY <2>2, <3>1, <3>2 DEF RoleOK
  <2>5. chain'[disk[target]].admin = NewAdmin(target)
    BY <2>2, <2>3, <2>4 DEF NewAdmin
  <2>6. CommandInv' /\ MadeInv' /\ DoneInv'
    BY <1>1, <1>2, <1>3, <1>4, <2>1, <2>2, <2>5, NextTargetFacts
  <2> QED BY <1>3, <2>6 DEF DeploymentInv
<1>10. CASE pc = "register"
  <2>1. Request = Tx("register_handler", disk.project_root, disk.handler) /\ Registering
    BY <1>5, <1>10 DEF Request, Deploying, Adopting
  <2>2. Succeed /\ cmd = "deploy_handler" /\ disk.project_root # None
    BY <1>2, <1>10, <2>1 DEF Answered, Registering
  <2>3. disk.handler \in chain'[disk.project_root].handlers
    <3>1. Request.call = "register_handler" => Request.arg \in chain'[Request.on].handlers
      BY <1>1, <1>2, ApplyFacts
    <3> QED BY <2>1, <3>1 DEF Tx
  <2>4. Achieved(cmd, chain', disk)
    BY <2>2, <2>3 DEF Achieved
  <2> QED BY <1>6, <2>2, <2>4
<1> QED BY <1>2, <1>7, <1>8, <1>9, <1>10 DEF Sending

(* An answer is lost, a call is refused, a command is stopped. *)
LEMMA FailStep ==
  ASSUME DeploymentInv, Lose \/ Refuse \/ Abort
  PROVE  DeploymentInv'
<1>1. ChainInv /\ ManifestInv /\ NetworkInv /\ CommandInv /\ MadeInv /\ DoneInv
  BY DEF DeploymentInv
<1>2. UNCHANGED <<chain, disk, done>>
  BY DEF Lose, Refuse, Abort, ledger
<1>3. Keeps /\ ChainInv' /\ ManifestInv' /\ DoneInv'
  BY <1>1, <1>2, SameWorld, DoneKept
<1>4. CommandInv' /\ MadeInv'
  <2>1. CASE Exit
    BY <2>1, ExitFacts
  <2>2. ASSUME NEW transient, Failed(transient) PROVE CommandInv' /\ MadeInv'
    BY <1>1, <1>2, <2>2, FailedFacts
  <2> QED BY <2>1, <2>2 DEF Lose, Refuse, Abort
<1>5. NetworkInv'
  <2>1. CASE UNCHANGED inflight
    BY <1>1, <1>2, <2>1, SameNetwork
  <2>2. CASE Sending /\ inflight' = [inflight EXCEPT ![account] = Request]
    <3>1. IsTx(Request, chain, disk.project_root) /\ account \in Accounts
      BY <1>1, <2>2, RequestFacts
    <3>2. /\ inflight' = [a \in Accounts |-> inflight'[a]]
          /\ \A a \in Accounts : inflight'[a] = IF a = account THEN Request ELSE inflight[a]
      BY <1>1, <2>2 DEF NetworkInv
    <3> QED BY <1>1, <1>2, <3>1, <3>2 DEF NetworkInv
  <2> QED BY <2>1, <2>2 DEF Lose, Refuse, Abort, ledger
<1> QED BY <1>3, <1>4, <1>5 DEF DeploymentInv

(* The commands of one transaction *)
LEMMA SingleFacts ==
  ASSUME ChainInv, ManifestInv, NEW a \in Accounts, NEW slot \in Slots,
         \/ RegisterHandler(a) \/ ProposeAdmin(a, slot)
         \/ AcceptAdmin(a, slot) \/ AcceptContractAdmin(a, slot)
  PROVE  \E tx : IsTx(tx, chain, disk.project_root) /\ SingleCall(a, tx) /\ tx.call # "create"
<1>1. \A s \in Slots : disk[s] # None => disk[s] \in Ids /\ chain[disk[s]].kind = s
  BY RecordedFacts
<1>2. CASE RegisterHandler(a)
  <2> DEFINE tx == Tx("register_handler", disk.project_root, disk.handler)
  <2>1. disk["project_root"] \in Ids /\ disk["handler"] \in Ids
    BY <1>1, <1>2, SlotFacts DEF RegisterHandler
  <2>2. IsTx(tx, chain, disk.project_root) /\ tx.call # "create"
    BY <2>1 DEF IsTx, Tx, Ids
  <2> QED BY <1>2, <2>2 DEF RegisterHandler
<1>3. CASE ProposeAdmin(a, slot)
  <2> DEFINE tx == Tx("propose_admin", disk[slot], NewAdmin(slot))
  <2>1. IsTx(tx, chain, disk.project_root) /\ tx.call # "create"
    BY <1>1, <1>3 DEF ProposeAdmin, NewAdmin, IsTx, Tx, Ids
  <2> QED BY <1>3, <2>1 DEF ProposeAdmin
<1>4. CASE AcceptAdmin(a, slot)
  <2> DEFINE tx == Tx("accept_admin", disk[slot], None)
  <2>1. IsTx(tx, chain, disk.project_root) /\ tx.call # "create"
    BY <1>1, <1>4 DEF AcceptAdmin, IsTx, Tx, Ids
  <2> QED BY <1>4, <2>1 DEF AcceptAdmin
<1>5. CASE AcceptContractAdmin(a, slot)
  <2> DEFINE tx == Tx("accept_contract_admin", disk.project_root, disk[slot])
  <2>1. /\ disk["project_root"] \in Ids /\ disk[slot] \in Ids
        /\ chain[disk[slot]].kind # "project_root"
    BY <1>1, <1>5, SlotFacts DEF AcceptContractAdmin
  <2>2. IsTx(tx, chain, disk.project_root) /\ tx.call # "create"
    BY <2>1 DEF IsTx, Tx, Ids
  <2> QED BY <1>5, <2>2 DEF AcceptContractAdmin
<1> QED BY <1>2, <1>3, <1>4, <1>5

(* They, and a transaction that is late, take effect beside a command. *)
LEMMA OutsideStep ==
  ASSUME DeploymentInv, NEW a \in Accounts,
         \/ Late(a) \/ RegisterHandler(a)
         \/ \E slot \in Slots :
              ProposeAdmin(a, slot) \/ AcceptAdmin(a, slot) \/ AcceptContractAdmin(a, slot)
  PROVE  DeploymentInv'
<1>0. ChainInv /\ ManifestInv /\ NetworkInv
  BY DEF DeploymentInv
<1>1. CASE Late(a)
  <2>1. IsTx(inflight[a], chain, disk.project_root)
    BY <1>0, <1>1 DEF Late, NetworkInv
  <2> QED BY <1>1, <2>1, ApplyInv DEF Late
<1>2. ASSUME NEW slot \in Slots,
             \/ RegisterHandler(a) \/ ProposeAdmin(a, slot)
             \/ AcceptAdmin(a, slot) \/ AcceptContractAdmin(a, slot)
      PROVE  DeploymentInv'
  <2>1. PICK tx : IsTx(tx, chain, disk.project_root) /\ SingleCall(a, tx)
    BY <1>0, <1>2, SingleFacts
  <2> QED BY <2>1, ApplyInv DEF SingleCall
<1>3. \E s : s \in Slots
  BY SlotFacts
<1> QED BY <1>1, <1>2, <1>3

LEMMA DeploymentInvInit == Init => DeploymentInv
<1> SUFFICES ASSUME Init PROVE DeploymentInv
  OBVIOUS
<1>1. Ids = {}
  BY DEF Init, Ids
<1>2. ChainInv
  BY <1>1 DEF Init, ChainInv
<1>3. ManifestInv
  BY DEF Init, ManifestInv, ManifestClosed, Recorded
<1>4. NetworkInv
  BY DEF Init, NetworkInv
<1>5. CommandInv /\ MadeInv
  BY RetriesAssumption DEF Init, CommandInv, MadeInv, Idle
<1>6. DoneInv
  BY DEF Init, DoneInv
<1> QED BY <1>2, <1>3, <1>4, <1>5, <1>6 DEF DeploymentInv

LEMMA DeploymentInvNext == DeploymentInv /\ [Next]_vars => DeploymentInv'
<1> SUFFICES ASSUME DeploymentInv, [Next]_vars PROVE DeploymentInv'
  OBVIOUS
<1>1. CASE UNCHANGED vars
  <2>1. /\ ChainInv /\ ManifestInv /\ NetworkInv /\ CommandInv /\ MadeInv /\ DoneInv
        /\ UNCHANGED <<chain, disk>> /\ UNCHANGED <<process, disk>> /\ UNCHANGED <<disk, done>>
        /\ UNCHANGED <<chain, disk, inflight>>
    BY <1>1 DEF DeploymentInv, vars, ledger
  <2>2. Keeps /\ ChainInv' /\ ManifestInv'
    BY <2>1, SameWorld
  <2> QED BY <2>1, <2>2, SameNetwork, CommandKept, DoneKept DEF DeploymentInv
<1> QED
  BY <1>1, StartStep, PersistStep, ReadStep, SendStep, FailStep, OutsideStep DEF Next, Step

LEMMA DeploymentInvariant == Spec => []DeploymentInv
BY DeploymentInvInit, DeploymentInvNext, PTL DEF Spec

(* However a deployment was interrupted, the manifest is closed: what a    *)
(* slot records is on the network, of that kind, and was constructed with  *)
(* the contracts the other slots record (deploy_pipeline, manifest.rs).    *)
THEOREM ManifestIsClosed == Spec => []ManifestClosed
<1>1. DeploymentInv => ManifestClosed
  BY DEF DeploymentInv, ManifestInv
<1> QED BY <1>1, DeploymentInvariant, PTL

(* No contract, leftovers of stopped commands included, answers to or is   *)
(* offered to a Project Root other than the recorded one (deploy_pipeline  *)
(* and adopt_downstreams in deploy.rs).                                    *)
THEOREM NoOtherRoot == Spec => []NothingLostToAnotherRoot
<1>1. DeploymentInv => NothingLostToAnotherRoot
  BY AddressFacts DEF DeploymentInv, ChainInv, RoleOK, NothingLostToAnotherRoot
<1> QED BY <1>1, DeploymentInvariant, PTL

(* A command that reports success has brought about what it is for, and    *)
(* nothing that happens later undoes it (deploy.rs, governance.rs).        *)
THEOREM SuccessStaysReal == Spec => []SuccessIsReal
<1>1. DeploymentInv => SuccessIsReal
  BY DEF DeploymentInv, DoneInv, Achieved, SuccessIsReal
<1> QED BY <1>1, DeploymentInvariant, PTL

-----------------------------------------------------------------------------
(* Counting *)
LEMMA CountersStep == DeploymentInv /\ Counters /\ [Next]_vars => Counters'
<1> SUFFICES ASSUME Counters, [Next]_vars PROVE Counters'
  OBVIOUS
<1>1. CASE UNCHANGED <<losses, aborts>>
  BY <1>1 DEF Counters
<1>2. CASE Lose
  BY <1>2, BoundsAssumption DEF Counters, Lose
<1>3. CASE Abort
  BY <1>3, BoundsAssumption DEF Counters, Abort
<1>4. UNCHANGED <<losses, aborts>> \/ Lose \/ Abort
  BY DEF Next, vars, StartDeploy, StartHandover, StartDeployHandler, Step, Persist, ReadAdmin,
         ReadPending, ReadOwner, Send, Refuse, Late, RegisterHandler, ProposeAdmin, AcceptAdmin,
         AcceptContractAdmin, SingleCall
<1> QED BY <1>1, <1>2, <1>3, <1>4

(* Types: every id that is kept or sent is one of a contract on the        *)
(* network, and the attempts of retry() stay within its budget (retry.rs). *)
THEOREM DeploymentTypes == Spec => []TypeOK
<1>1. ASSUME DeploymentInv, Counters PROVE TypeOK
  <2>1. \A c \in Ids : ContractOK(chain[c])
    BY <1>1 DEF DeploymentInv, ChainInv, ContractIn, ContractOK, Addresses
  <2>2. disk \in [Slots -> Ids \cup {None}]
    BY <1>1 DEF DeploymentInv, ManifestInv
  <2>3. /\ account \in Accounts \cup {None}
        /\ cmd \in {"none", "deploy", "deploy_handler", "handover"}
        /\ pc \in {"idle", "create", "persist", "read_admin", "read_pending", "read_owner",
                   "propose", "accept", "register"}
        /\ target \in Slots \cup {"none"} /\ attempt \in 1..MaxRetries
    BY <1>1, SlotFacts DEF DeploymentInv, CommandInv, Idle, Deploying, Adopting, Registering
  <2>4. made \in Ids \cup {None}
    BY <1>1 DEF DeploymentInv, MadeInv
  <2>5. done \subseteq {"deploy", "deploy_handler", "handover"}
    BY <1>1 DEF DeploymentInv, DoneInv
  <2> QED BY <1>1, <2>1, <2>2, <2>3, <2>4, <2>5 DEF TypeOK, Counters
<1>2. Init => Counters
  BY BoundsAssumption DEF Init, Counters
<1> QED BY <1>1, <1>2, CountersStep, DeploymentInvariant, PTL DEF Spec

LEMMA SmallSets ==
  /\ \A S \in SUBSET Accounts : IsFiniteSet(S) /\ Cardinality(S) \in Nat
  /\ \A S \in SUBSET Slots : IsFiniteSet(S) /\ Cardinality(S) \in Nat
  /\ \A x : Cardinality({x} \ {None}) = IF x = None THEN 0 ELSE 1
<1>1. IsFiniteSet(Accounts)
  <2>1. Accounts = {Deployer} \cup {Owner}
    BY DEF Accounts
  <2> QED BY <2>1, FS_Singleton, FS_AddElement
<1>2. IsFiniteSet(Slots)
  <2> DEFINE S1 == {"security"}
             S2 == S1 \cup {"verification"}
             S3 == S2 \cup {"project_root"}
             S4 == S3 \cup {"handler"}
  <2>1. Slots = S4
    BY SlotFacts
  <2>2. IsFiniteSet(S1)
    BY FS_Singleton
  <2> HIDE DEF S1
  <2>3. IsFiniteSet(S2)
    BY <2>2, FS_AddElement
  <2> HIDE DEF S2
  <2>4. IsFiniteSet(S3)
    BY <2>3, FS_AddElement
  <2> HIDE DEF S3
  <2>5. IsFiniteSet(S4)
    BY <2>4, FS_AddElement
  <2> QED BY <2>1, <2>5
<1>3. ASSUME NEW x PROVE Cardinality({x} \ {None}) = IF x = None THEN 0 ELSE 1
  <2>1. CASE x = None
    <3>1. {x} \ {None} = {}
      BY <2>1
    <3> QED BY <2>1, <3>1, FS_EmptySet
  <2>2. CASE x # None
    <3>1. {x} \ {None} = {x}
      BY <2>2
    <3> QED BY <2>2, <3>1, FS_Singleton
  <2> QED BY <2>1, <2>2
<1>4. ASSUME NEW S \in SUBSET Accounts PROVE IsFiniteSet(S) /\ Cardinality(S) \in Nat
  BY <1>1, FS_Subset, FS_CardinalityType
<1>5. ASSUME NEW S \in SUBSET Slots PROVE IsFiniteSet(S) /\ Cardinality(S) \in Nat
  BY <1>2, FS_Subset, FS_CardinalityType
<1> QED BY <1>3, <1>4, <1>5

(* What a transaction that takes effect does to what may yet be deployed *)
LEMMA ApplyCount ==
  ASSUME ChainInv, ManifestInv, NetworkInv, NEW tx, IsTx(tx, chain, disk.project_root),
         NEW by \in Accounts, Apply(tx, by)
  PROVE  /\ Cardinality(Creating') <= Cardinality(Creating)
         /\ tx.call # "create" => Len(chain') = Len(chain)
         /\ tx.call = "create" => Len(chain') = Len(chain) + 1
         /\ inflight[by] = tx /\ tx # None /\ tx.call = "create" =>
              Len(chain') + Cardinality(Creating') = Len(chain) + Cardinality(Creating)
<1>1. inflight' = [inflight EXCEPT ![by] = None]
  BY DEF Apply
<1>2. Creating' = Creating \ {by}
  BY <1>1 DEF Creating, NetworkInv
<1>3. Creating \subseteq Accounts
  BY DEF Creating
<1>4. /\ IsFiniteSet(Creating) /\ Cardinality(Creating) \in Nat
      /\ Cardinality(Creating') =
           IF by \in Creating THEN Cardinality(Creating) - 1 ELSE Cardinality(Creating)
  BY <1>2, <1>3, SmallSets, FS_RemoveElement
<1>5. /\ tx.call # "create" => Len(chain') = Len(chain)
      /\ tx.call = "create" => Len(chain') = Len(chain) + 1
  BY ApplyFacts
<1>6. inflight[by] = tx /\ tx # None /\ tx.call = "create" => by \in Creating
  BY DEF Creating
<1>7. Len(chain) \in Nat
  BY IdFacts DEF ChainInv
<1> QED BY <1>4, <1>5, <1>6, <1>7

(* The shapes of a step: nothing new, a contract recorded, deployed, or     *)
(* under way without an answer, and a command stopped.                     *)
Moves(l, c, r, m, x, a, l2, c2, r2, m2, x2, a2) ==
  \/ l2 + c2 <= l + c /\ r2 = r /\ m <= m2 /\ x2 = x /\ a2 = a
  \/ l2 = l /\ c2 = c /\ r2 = r + 1 /\ m <= 1 /\ x2 = x /\ a2 = a
  \/ l2 <= l + 1 /\ c2 <= c /\ r2 = r /\ m = 0 /\ m2 = 1 /\ x2 = x /\ a2 = a
  \/ l2 = l /\ c2 <= c + 1 /\ r2 = r /\ m = 0 /\ x2 = x + 1 /\ a2 = a
  \/ l2 = l /\ c2 = c /\ r2 = r /\ m <= 1 /\ x2 = x /\ a2 = a + 1

Numbers(l, c, r, m, x, a) == l \in Nat /\ c \in Nat /\ r \in Nat /\ m \in Nat /\ x \in Nat /\ a \in Nat

LEMMA Balance ==
  ASSUME NEW l, NEW c, NEW r, NEW m, NEW x, NEW a, Numbers(l, c, r, m, x, a),
         NEW l2, NEW c2, NEW r2, NEW m2, NEW x2, NEW a2, Numbers(l2, c2, r2, m2, x2, a2),
         l + c <= r + m + x + a, Moves(l, c, r, m, x, a, l2, c2, r2, m2, x2, a2)
  PROVE  l2 + c2 <= r2 + m2 + x2 + a2
BY DEF Numbers, Moves

LEMMA SumOrder ==
  ASSUME NEW l \in Nat, NEW c \in Nat, NEW l2 \in Nat, NEW c2 \in Nat, l2 <= l, c2 <= c
  PROVE  l2 + c2 <= l + c
OBVIOUS

LEMMA CountStep == DeploymentInv /\ DeploymentInv' /\ Counters /\ CountInv /\ [Next]_vars => CountInv'
<1> SUFFICES ASSUME DeploymentInv, DeploymentInv', Counters, CountInv, [Next]_vars PROVE CountInv'
  OBVIOUS
<1> DEFINE L == Len(chain)
           C == Cardinality(Creating)
           R == Cardinality(Recorded)
           M == Cardinality({made} \ {None})
<1>1. ChainInv /\ ManifestInv /\ NetworkInv /\ CommandInv /\ MadeInv /\ ChainInv'
  BY DEF DeploymentInv
<1>2. /\ L \in Nat /\ C \in Nat /\ R \in Nat /\ M \in Nat
      /\ losses \in Nat /\ aborts \in Nat
      /\ made = None => M = 0
      /\ made # None => M = 1
      /\ L + C <= R + M + losses + aborts
  <2>1. Creating \in SUBSET Accounts /\ Recorded \in SUBSET Slots
    BY DEF Creating, Recorded
  <2>2. L \in Nat
    BY <1>1, IdFacts DEF ChainInv
  <2>3. C \in Nat /\ R \in Nat
    BY <2>1, SmallSets
  <2>4. M = IF made = None THEN 0 ELSE 1
    BY SmallSets
  <2>5. losses \in Nat /\ aborts \in Nat
    BY BoundsAssumption DEF Counters
  <2>6. L + C <= R + M + losses + aborts
    BY DEF CountInv
  <2> HIDE DEF L, C, R, M
  <2> QED BY <2>2, <2>3, <2>4, <2>5, <2>6
<1>3. /\ L' \in Nat /\ C' \in Nat /\ R' \in Nat /\ M' \in Nat
      /\ losses' \in Nat /\ aborts' \in Nat
      /\ made' = None => M' = 0
      /\ made' # None => M' = 1
  <2>1. Creating' \in SUBSET Accounts /\ Recorded' \in SUBSET Slots
    BY DEF Creating, Recorded
  <2>2. chain' \in Seq(Contracts)
    BY <1>1 DEF ChainInv
  <2>3. L' \in Nat
    BY <2>2
  <2>4. C' \in Nat /\ R' \in Nat
    BY <2>1, SmallSets
  <2>5. M' = IF made' = None THEN 0 ELSE 1
    BY SmallSets
  <2>6. losses' \in Nat /\ aborts' \in Nat
    BY CountersStep, BoundsAssumption DEF Counters
  <2> HIDE DEF L, C, R, M
  <2> QED BY <2>3, <2>4, <2>5, <2>6
<1>4. UNCHANGED disk => R' = R
  BY DEF Recorded
<1>5. UNCHANGED inflight => C' = C
  BY DEF Creating
<1> HIDE DEF L, C, R, M
<1> DEFINE Moved == Moves(L, C, R, M, losses, aborts, L', C', R', M', losses', aborts')
<1>6. SUFFICES Moved
  <2>1. Numbers(L, C, R, M, losses, aborts) /\ Numbers(L', C', R', M', losses', aborts')
    BY <1>2, <1>3 DEF Numbers
  <2>2. L' + C' <= R' + M' + losses' + aborts'
    BY <1>2, <2>1, Balance
  <2> QED BY <2>2 DEF CountInv, L, C, R, M
<1>7. CASE UNCHANGED <<chain, inflight, disk, losses, aborts>> /\ (UNCHANGED made \/ made = None)
  <2>1. L' = L
    BY <1>7 DEF L
  <2>2. M <= M'
    <3>1. CASE UNCHANGED made
      BY <1>2, <3>1 DEF M
    <3>2. CASE made = None
      BY <1>2, <1>3, <3>2
    <3> QED BY <1>7, <3>1, <3>2
  <2>3. L' + C' <= L + C
    BY <1>2, <1>5, <1>7, <2>1
  <2> QED BY <1>2, <1>3, <1>4, <1>7, <2>2, <2>3 DEF Moves
<1>8. CASE Persist
  <2>1. /\ Deploying /\ disk' = [disk EXCEPT ![target] = made] /\ target \in Slots /\ made # None
    BY <1>1, <1>8, PersistWorld DEF DeploymentInv
  <2>2. /\ UNCHANGED <<chain, inflight, losses, aborts>> /\ made' = None
    BY <1>8 DEF Persist, ledger
  <2>3. Recorded' = Recorded \cup {target} /\ target \notin Recorded
    BY <1>1, <2>1 DEF Recorded, Deploying, ManifestInv
  <2>4. R' = R + 1
    <3>1. IsFiniteSet(Recorded)
      BY SmallSets DEF Recorded
    <3> QED BY <2>3, <3>1, FS_AddElement DEF R
  <2>5. L' = L
    BY <2>2 DEF L
  <2> QED BY <1>2, <1>3, <1>5, <2>1, <2>2, <2>4, <2>5 DEF Moves
<1>9. CASE Send
  <2>1. /\ Sending /\ Apply(Request, account) /\ Answered /\ UNCHANGED <<disk, losses, aborts>>
        /\ IsTx(Request, chain, disk.project_root) /\ account \in Accounts /\ made = None
    BY <1>1, <1>9, RequestFacts DEF Send, Sending, MadeInv
  <2>2. C' <= C /\ (Request.call # "create" => L' = L) /\ (Request.call = "create" => L' = L + 1)
    BY <1>1, <2>1, ApplyCount DEF C, L
  <2>3. CASE pc = "create"
    <3>1. made' = Len(chain')
      BY <2>1, <2>3 DEF Answered
    <3>2. made' # None
      BY <1>3, <3>1, AddressFacts DEF L
    <3>3. L' <= L + 1
      BY <1>2, <1>3, <2>2
    <3> QED BY <1>2, <1>3, <1>4, <2>1, <2>2, <3>2, <3>3 DEF Moves
  <2>4. CASE pc # "create"
    <3>1. Request.call # "create"
      <4>1. CASE pc = "propose"
        BY <4>1 DEF Request, Tx
      <4>2. CASE pc = "accept"
        BY <4>2 DEF Request, Tx
      <4>3. CASE pc = "register"
        BY <4>3 DEF Request, Tx
      <4> QED BY <2>1, <2>4, <4>1, <4>2, <4>3 DEF Sending
    <3>2. L' + C' <= L + C
      <4>1. L' <= L /\ C' <= C
        BY <1>2, <2>2, <3>1
      <4> QED BY <1>2, <1>3, <4>1, SumOrder
    <3>3. M <= M'
      BY <1>2, <1>3, <2>1
    <3> QED BY <1>2, <1>3, <1>4, <2>1, <3>2, <3>3 DEF Moves
  <2> QED BY <2>3, <2>4
<1>10. CASE Lose
  <2>1. /\ losses' = losses + 1 /\ UNCHANGED <<chain, disk, aborts>> /\ made = None
        /\ UNCHANGED inflight \/ inflight' = [inflight EXCEPT ![account] = Request]
    BY <1>1, <1>10 DEF Lose, Sending, MadeInv
  <2>2. C' <= C + 1
    <3>1. Creating' \subseteq Creating \cup {account}
      BY <1>1, <2>1 DEF Creating, NetworkInv
    <3>2. /\ IsFiniteSet(Creating) /\ IsFiniteSet(Creating \cup {account})
          /\ Cardinality(Creating \cup {account}) <= C + 1
      <4>1. IsFiniteSet(Creating)
        BY SmallSets DEF Creating
      <4>2. /\ IsFiniteSet(Creating \cup {account})
            /\ \/ Cardinality(Creating \cup {account}) = Cardinality(Creating)
               \/ Cardinality(Creating \cup {account}) = Cardinality(Creating) + 1
        BY <4>1, FS_AddElement
      <4> QED BY <1>2, <4>1, <4>2 DEF C
    <3>3. Cardinality(Creating') <= Cardinality(Creating \cup {account})
      BY <3>1, <3>2, FS_Subset
    <3>4. Cardinality(Creating \cup {account}) \in Nat
      BY <3>2, FS_CardinalityType
    <3> QED BY <1>2, <1>3, <3>2, <3>3, <3>4 DEF C
  <2>3. L' = L
    BY <2>1 DEF L
  <2>4. M = 0 /\ R' = R
    BY <1>2, <1>4, <2>1
  <2> QED BY <1>2, <1>3, <2>1, <2>2, <2>3, <2>4 DEF Moves
<1>11. CASE Abort
  <2>1. aborts' = aborts + 1 /\ UNCHANGED <<chain, inflight, disk, losses>>
    BY <1>11 DEF Abort, ledger
  <2>2. L' = L
    BY <2>1 DEF L
  <2>3. M <= 1
    BY <1>2
  <2> QED BY <1>2, <1>3, <1>4, <1>5, <2>1, <2>2, <2>3 DEF Moves
<1>12. ASSUME NEW a \in Accounts, NEW tx, IsTx(tx, chain, disk.project_root), Apply(tx, a),
              tx.call # "create" \/ (inflight[a] = tx /\ tx # None),
              UNCHANGED <<process, disk, losses, aborts>>
       PROVE  Moved
  <2>1. L' + C' <= L + C
    <3>1. /\ C' <= C
          /\ tx.call # "create" => L' = L
          /\ inflight[a] = tx /\ tx # None /\ tx.call = "create" => L' + C' = L + C
      BY <1>1, <1>12, ApplyCount DEF L, C
    <3>2. CASE tx.call # "create"
      <4>1. L' <= L
        BY <1>2, <3>1, <3>2
      <4> QED BY <1>2, <1>3, <3>1, <4>1, SumOrder
    <3>3. CASE tx.call = "create"
      <4>1. L' + C' = L + C
        BY <1>12, <3>1, <3>3
      <4>2. L + C <= L + C
        BY <1>2
      <4> QED BY <4>1, <4>2
    <3> QED BY <3>2, <3>3
  <2>2. R' = R
    BY <1>4, <1>12
  <2>3. M <= M'
    BY <1>2, <1>12 DEF process, M
  <2> QED BY <1>2, <1>3, <1>12, <2>1, <2>2, <2>3 DEF Moves
<1>13. ASSUME NEW a \in Accounts, Late(a) PROVE Moved
  <2>1. IsTx(inflight[a], chain, disk.project_root)
    BY <1>1, <1>13 DEF Late, NetworkInv
  <2> QED BY <1>12, <1>13, <2>1 DEF Late
<1>14. ASSUME NEW a \in Accounts, NEW slot \in Slots,
              RegisterHandler(a) \/ ProposeAdmin(a, slot) \/ AcceptAdmin(a, slot) \/ AcceptContractAdmin(a, slot)
       PROVE  Moved
  <2>1. PICK tx : IsTx(tx, chain, disk.project_root) /\ SingleCall(a, tx) /\ tx.call # "create"
    BY <1>1, <1>14, SingleFacts
  <2> QED BY <1>12, <2>1 DEF SingleCall
<1>15. ASSUME StartDeploy \/ StartHandover \/ (\E a \in Accounts : StartDeployHandler(a))
       PROVE  Moved
  BY <1>7, <1>15 DEF StartDeploy, StartHandover, StartDeployHandler, ledger
<1>16. CASE ReadAdmin \/ ReadPending \/ ReadOwner \/ Refuse
  <2>1. made = None
    BY <1>1, <1>16 DEF ReadAdmin, ReadPending, ReadOwner, Refuse, Sending, MadeInv
  <2> QED BY <1>7, <1>16, <2>1 DEF ReadAdmin, ReadPending, ReadOwner, Refuse, ledger
<1>17. CASE UNCHANGED vars
  BY <1>7, <1>17 DEF vars, ledger, process
<1>18. \E s : s \in Slots
  BY SlotFacts
<1> QED
  BY <1>8, <1>9, <1>10, <1>11, <1>13, <1>14, <1>15, <1>16, <1>17, <1>18 DEF Next, Step

(* A contract is deployed anew only for want of an answer or after a       *)
(* command was stopped: every other one is recorded, or about to be        *)
(* (deploy_pipeline in deploy.rs, retry() in retry.rs).                    *)
THEOREM LeftoversAreFew == Spec => []LeftoversAreAccountedFor
<1>1. Init => Counters /\ CountInv
  <2> SUFFICES ASSUME Init PROVE Counters /\ CountInv
    OBVIOUS
  <2>1. Len(chain) = 0 /\ Creating = {} /\ Recorded = {} /\ {made} \ {None} = {} /\ losses = 0 /\ aborts = 0
    BY DEF Init, Creating, Recorded
  <2>2. Cardinality({}) = 0
    BY FS_EmptySet
  <2> QED BY <2>1, <2>2, BoundsAssumption DEF CountInv, Counters
<1>2. ASSUME DeploymentInv, Counters, CountInv PROVE LeftoversAreAccountedFor
  <2>1. Creating \in SUBSET Accounts /\ Recorded \in SUBSET Slots
    BY DEF Creating, Recorded
  <2>2. Cardinality(Creating) \in Nat /\ Cardinality(Recorded) \in Nat
    BY <2>1, SmallSets
  <2>4. Cardinality({made} \ {None}) = IF made = None THEN 0 ELSE 1
    BY SmallSets
  <2>3. Len(chain) \in Nat /\ losses \in Nat /\ aborts \in Nat
    BY <1>2, IdFacts, BoundsAssumption DEF DeploymentInv, ChainInv, Counters
  <2> QED BY <1>2, <2>2, <2>3, <2>4 DEF CountInv, LeftoversAreAccountedFor
<1> QED BY <1>1, <1>2, CountersStep, CountStep, DeploymentInvariant, PTL DEF Spec
=============================================================================
