------------------------------- MODULE Lifetime -------------------------------
(***************************************************************************)
(* How long the ledger keeps what the contracts store.  Every entry has a  *)
(* time to live, in ledgers; the network counts it down and archives the   *)
(* entry when it is over, and a call that needs an archived entry fails.   *)
(* The contracts extend the entries they choose to (packages/shared/src/   *)
(* ttl.rs has the amounts).                                                *)
(*                                                                         *)
(* A call is an action given by the entries it needs, extends and creates. *)
(* What a failing call extended is undone, so failing calls are no steps:  *)
(* is_event_seen extends a mark it finds, and then verify_xlm fails.       *)
(***************************************************************************)
EXTENDS Integers

CONSTANTS
  Keys, Events,
  InstanceRenewal, InstanceTarget,       \* INSTANCE_RENEWAL_THRESHOLD, ..._TARGET_TTL
  PersistentRenewal, PersistentTarget,   \* PERSISTENT_RENEWAL_THRESHOLD, ...
  InitialTTL                             \* what the network gives a new entry

ASSUME AmountsAssumption ==
  /\ InstanceRenewal \in Nat /\ PersistentRenewal \in Nat /\ InitialTTL \in Nat
  /\ InstanceTarget \in Nat /\ InstanceRenewal < InstanceTarget
  /\ PersistentTarget \in Nat /\ PersistentRenewal < PersistentTarget

Contracts == {"security", "verification", "handler", "root"}

Instance(c) == <<"instance", c>>
History(k) == <<"history", k>>
Seen(e) == <<"seen", e>>
Payload(e) == <<"payload", e>>
Total == <<"total", "weight">>
List == <<"all", "signers">>

Instances == {Instance(c) : c \in Contracts}
Histories(S) == {History(k) : k \in S}

Entries ==
  Instances \cup Histories(Keys) \cup {Total, List}
  \cup {Seen(e) : e \in Events} \cup {Payload(e) : e \in Events}

VARIABLES
  stored,       \* the entries that were created
  ttl,          \* how many more ledgers each stays; -1 when it is archived
  registered,   \* the keys with a weight
  idle          \* history: ledgers since an entry was last needed by a
                \* verification or a change of a signer

vars == <<stored, ttl, registered, idle>>

Renewal(x) == IF x \in Instances THEN InstanceRenewal ELSE PersistentRenewal
Target(x) == IF x \in Instances THEN InstanceTarget ELSE PersistentTarget

Live(x) == ttl[x] >= 0

(* extend_ttl(threshold, target) of an entry with so many ledgers left. *)
ExtendTTL(x, left) == IF left < Renewal(x) THEN Target(x) ELSE left

(* A call that succeeds. *)
Call(needs, extends, creates) ==
  /\ \A x \in needs \cap stored : Live(x)
  /\ stored' = stored \cup creates
  /\ ttl' = [x \in Entries |->
               LET left == IF x \in creates \ stored THEN InitialTTL ELSE ttl[x]
               IN  IF x \in extends \cap stored' THEN ExtendTTL(x, left) ELSE left]

(* An administrator's call, made directly or forwarded by the project root,*)
(* which extends its own instance then (proxy).                            *)
AdminCall(needs, extends, creates) ==
  \/ Call(needs, extends, creates)
  \/ Call(needs \cup {Instance("root")}, extends \cup {Instance("root")}, creates)

(* Bound of the model: beyond the renewal threshold no more is counted. *)
IdleBound(x) == Renewal(x) + 1

(* Verifications and changes of signers are what the pipeline is for. *)
Work(needs) == idle' = [x \in Entries |-> IF x \in needs THEN 0 ELSE idle[x]]

-----------------------------------------------------------------------------
(* The instances of the four contracts, extended by their constructors. *)
Init ==
  /\ stored = Instances
  /\ ttl = [x \in Entries |-> IF x \in Instances THEN ExtendTTL(x, InitialTTL) ELSE 0]
  /\ registered = {}
  /\ idle = [x \in Entries |-> 0]

(* What a signer's change loads and saves: add_signer looks for the key in *)
(* the list only when it is new, remove_signer when it is there.           *)
SignerEntries(k, listed) ==
  {Instance("security"), History(k), Total} \cup (IF listed THEN {List} ELSE {})

AddSigner(k) ==
  LET entries == SignerEntries(k, k \notin registered)
  IN  /\ AdminCall(entries, entries, entries)
      /\ registered' = registered \cup {k}
      /\ Work(entries)

RemoveSigner(k) ==
  LET entries == SignerEntries(k, TRUE)
  IN  /\ k \in registered
      /\ AdminCall(entries, entries, {})
      /\ registered' = registered \ {k}
      /\ Work(entries)

(* remove_signer of a key that is not registered: its history is loaded. *)
RemoveNobody(k) ==
  LET entries == {Instance("security"), History(k)}
  IN  /\ k \notin registered
      /\ AdminCall(entries, entries, {})
      /\ Work(entries)
      /\ UNCHANGED registered

(* set_threshold extends nothing. *)
SetThreshold ==
  /\ AdminCall({Instance("security")}, {}, {})
  /\ UNCHANGED <<registered, idle>>

Upgrade(c) ==
  /\ AdminCall({Instance(c)}, {Instance(c)}, {})
  /\ UNCHANGED <<registered, idle>>

(* propose_admin and accept_admin of any contract extend nothing, and      *)
(* neither does update_project_spec_repo of the root.                      *)
ChangeAdmin(c) ==
  /\ AdminCall({Instance(c)}, {}, {})
  /\ UNCHANGED <<registered, idle>>

(* register_handler asks the handler for its verification contract. *)
RegisterHandler ==
  /\ Call({Instance("root"), Instance("handler")}, {Instance("root")}, {})
  /\ UNCHANGED <<registered, idle>>

(* verify_xlm / verify_eth, from the handler to the histories. *)
VerifyNeeds(S) ==
  {Instance("handler"), Instance("verification"), Instance("security"), Total}
  \cup Histories(S)

(* verify leaves its own instance alone. *)
VerifyExtends_Fault(S) == {Instance("handler"), Total} \cup Histories(S)

(* The handler and verify extend their own instances, loading a history    *)
(* extends it; nothing extends the instance of the Security contract.      *)
VerifyExtends(S) ==
  {Instance("handler"), Instance("verification"), Total} \cup Histories(S)

(* A quorum of the reference block has signed a new event: keys that are   *)
(* or once were registered.                                                *)
VerifyEvent(S, e) ==
  LET marks == {Seen(e), Payload(e)}
  IN  /\ S # {} /\ Histories(S) \subseteq stored
      /\ Seen(e) \notin stored
      /\ Call(VerifyNeeds(S), VerifyExtends(S) \cup marks, marks)
      /\ Work(VerifyNeeds(S) \cup marks)
      /\ UNCHANGED registered

(* Whoever calls verify of the Verification contract itself. *)
VerifyDirectly(S) ==
  LET needs == VerifyNeeds(S) \ {Instance("handler")}
  IN  /\ S # {} /\ Histories(S) \subseteq stored
      /\ Call(needs, VerifyExtends(S) \ {Instance("handler")}, {})
      /\ Work(needs)
      /\ UNCHANGED registered

(* check_one, of now or of a reference block. *)
CheckOne(k) ==
  /\ History(k) \in stored
  /\ Call({Instance("verification"), Instance("security"), History(k)}, {History(k)}, {})
  /\ UNCHANGED <<registered, idle>>

(* payload *)
GetPayload(e) ==
  /\ Call({Instance("handler"), Payload(e)}, {Payload(e)}, {})
  /\ UNCHANGED <<registered, idle>>

(* list_signers; an empty list is read and not extended. *)
ListSigners ==
  LET entries == {List} \cup Histories(registered)
  IN  /\ Call({Instance("security")} \cup entries,
               IF registered = {} THEN {} ELSE entries, {})
      /\ UNCHANGED <<registered, idle>>

(* get_signer_weight(s), get_total_weight, required_weight, and the same   *)
(* of a past ledger.                                                       *)
GetWeights(entries) ==
  /\ Call({Instance("security")} \cup entries, entries, {})
  /\ UNCHANGED <<registered, idle>>

(* The network closes as many ledgers as are counted as one. *)
Tick ==
  /\ ttl' = [x \in Entries |-> IF x \in stored /\ ttl[x] >= 0 THEN ttl[x] - 1 ELSE ttl[x]]
  /\ idle' = [x \in Entries |-> IF x \in stored /\ idle[x] < IdleBound(x) THEN idle[x] + 1
                                ELSE idle[x]]
  /\ UNCHANGED <<stored, registered>>

Next ==
  \/ \E k \in Keys : AddSigner(k) \/ RemoveSigner(k) \/ RemoveNobody(k) \/ CheckOne(k)
  \/ SetThreshold \/ RegisterHandler \/ ListSigners
  \/ \E c \in Contracts : Upgrade(c) \/ ChangeAdmin(c)
  \/ \E S \in SUBSET Keys : VerifyDirectly(S) \/ \E e \in Events : VerifyEvent(S, e)
  \/ \E e \in Events : GetPayload(e)
  \/ \E entries \in SUBSET (Histories(Keys) \cup {Total}) : GetWeights(entries)
  \/ Tick

Spec == Init /\ [][Next]_vars

-----------------------------------------------------------------------------
(* Properties *)

KeptAlive(x) == x \in stored /\ idle[x] <= Renewal(x) => Live(x)

(* What verifications and changes of signers need, the instance of the     *)
(* Security contract apart, they keep alive themselves: an entry that was  *)
(* needed within the renewal threshold is not archived, whatever else is   *)
(* called in between and left out.                                         *)
WorkKeepsAlive == \A x \in Entries \ {Instance("security")} : KeptAlive(x)

(* ttl.rs: an instance whose lifetime falls below the renewal threshold is *)
(* refreshed; so that of the Security contract would be when every         *)
(* verification asks it.                                                   *)
SecurityKeptAlive == KeptAlive(Instance("security"))
=============================================================================
