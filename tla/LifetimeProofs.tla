---------------------------- MODULE LifetimeProofs ----------------------------
(***************************************************************************)
(* What is in use stays alive, for any amounts of ttl.rs in which a        *)
(* renewal threshold is below its target, any keys and any events.         *)
(***************************************************************************)
EXTENDS Lifetime, TLAPS

Types ==
  /\ stored \subseteq Entries
  /\ ttl \in [Entries -> Int]
  /\ idle \in [Entries -> Nat]
  /\ registered \subseteq Keys

(* WorkKeepsAlive is not inductive: an entry must have as many ledgers     *)
(* left as it may still lie idle.                                          *)
Margin ==
  \A x \in stored \ {Instance("security")} :
    idle[x] <= Renewal(x) => ttl[x] >= Renewal(x) - idle[x]

Inv == Types /\ Margin

LEMMA Amounts ==
  ASSUME NEW x
  PROVE  Renewal(x) \in Nat /\ Target(x) \in Nat /\ Renewal(x) < Target(x)
BY AmountsAssumption DEF Renewal, Target

(* extend_ttl never shortens a lifetime. *)
LEMMA ExtendFacts ==
  ASSUME NEW x, NEW left \in Int
  PROVE  /\ ExtendTTL(x, left) \in Int
         /\ ExtendTTL(x, left) >= Renewal(x)
         /\ ExtendTTL(x, left) >= left
BY Amounts DEF ExtendTTL

LEMMA EntryFacts ==
  /\ Instances \subseteq Entries /\ Histories(Keys) \subseteq Entries
  /\ Total \in Entries /\ List \in Entries
  /\ \A k \in Keys : History(k) \in Entries
  /\ \A c \in Contracts : Instance(c) \in Entries
  /\ \A e \in Events : Seen(e) \in Entries /\ Payload(e) \in Entries
  /\ \A S \in SUBSET Keys : Histories(S) \subseteq Entries
BY DEF Entries, Instances, Histories

(* A call that extends what it creates and what it counts as used. *)
LEMMA CallStep ==
  ASSUME Inv, NEW needs, NEW extends \in SUBSET Entries, NEW creates \in SUBSET extends,
         NEW used,
         Call(needs, extends, creates),
         Work(used) \/ UNCHANGED idle,
         used \subseteq extends \cup {Instance("security")} \cup (Entries \ stored'),
         registered' \subseteq Keys
  PROVE  Inv'
<1>1. /\ stored \subseteq Entries /\ ttl \in [Entries -> Int] /\ idle \in [Entries -> Nat]
      /\ InitialTTL \in Int
  BY AmountsAssumption DEF Inv, Types
<1>2. stored' = stored \cup creates /\ stored' \subseteq Entries
  BY <1>1 DEF Call
<1> DEFINE left(x) == IF x \in creates \ stored THEN InitialTTL ELSE ttl[x]
<1>3. ttl' = [x \in Entries |->
               IF x \in extends \cap stored' THEN ExtendTTL(x, left(x)) ELSE left(x)]
  BY DEF Call
<1>4. \A x \in Entries : left(x) \in Int
  BY <1>1
<1>5. \A x \in Entries : ttl'[x] \in Int
  <2> HIDE DEF left
  <2> QED BY <1>3, <1>4, ExtendFacts
<1>6. ttl' \in [Entries -> Int]
  BY <1>3, <1>5
<1>7. idle' \in [Entries -> Nat] /\ \A x \in Entries : idle'[x] = idle[x] \/ (x \in used /\ idle'[x] = 0)
  BY <1>1 DEF Work
<1>8. ASSUME NEW x \in stored' \ {Instance("security")}, idle'[x] <= Renewal(x)
      PROVE  ttl'[x] >= Renewal(x) - idle'[x]
  <2>1. /\ x \in Entries /\ Renewal(x) \in Nat /\ idle'[x] \in Nat /\ idle[x] \in Nat
        /\ left(x) \in Int /\ ttl'[x] \in Int
    BY <1>1, <1>2, <1>4, <1>5, <1>7, Amounts
  <2>2. CASE x \in extends
    <3>1. ttl'[x] = ExtendTTL(x, left(x))
      BY <1>3, <2>1, <2>2
    <3>2. ttl'[x] >= Renewal(x)
      <4> HIDE DEF left
      <4> QED BY <2>1, <3>1, ExtendFacts
    <3> QED BY <2>1, <3>2
  <2>3. CASE x \notin extends
    <3>1. x \in stored /\ ttl'[x] = ttl[x]
      BY <1>2, <1>3, <2>1, <2>3
    <3>2. idle'[x] = idle[x]
      BY <1>7, <1>8, <2>1, <2>3
    <3> QED BY <1>8, <3>1, <3>2 DEF Inv, Margin
  <2> QED BY <2>2, <2>3
<1>9. Margin'
  BY <1>8 DEF Margin, Renewal
<1> QED BY <1>2, <1>6, <1>7, <1>9 DEF Inv, Types

(* The same of a call the project root may forward. *)
LEMMA AdminCallStep ==
  ASSUME Inv, NEW needs, NEW extends \in SUBSET Entries, NEW creates \in SUBSET extends,
         NEW used,
         AdminCall(needs, extends, creates),
         Work(used) \/ UNCHANGED idle,
         used \subseteq extends \cup {Instance("security")} \cup (Entries \ stored'),
         registered' \subseteq Keys
  PROVE  Inv'
<1>1. CASE Call(needs, extends, creates)
  BY <1>1, CallStep
<1>2. CASE Call(needs \cup {Instance("root")}, extends \cup {Instance("root")}, creates)
  <2> DEFINE more == extends \cup {Instance("root")}
  <2>1. more \in SUBSET Entries /\ creates \in SUBSET more
    BY EntryFacts DEF Contracts
  <2>2. used \subseteq more \cup {Instance("security")} \cup (Entries \ stored')
    OBVIOUS
  <2> HIDE DEF more
  <2>3. Call(needs \cup {Instance("root")}, more, creates)
    BY <1>2 DEF more
  <2> QED BY <2>1, <2>2, <2>3, CallStep
<1> QED BY <1>1, <1>2 DEF AdminCall

LEMMA InvInit == Init => Inv
<1> SUFFICES ASSUME Init PROVE Inv
  OBVIOUS
<1>1. InitialTTL \in Int /\ Instances \subseteq Entries
  BY AmountsAssumption, EntryFacts
<1>2. \A x \in Entries : ttl[x] \in Int
  BY <1>1, ExtendFacts DEF Init
<1>3. Types
  BY <1>1, <1>2 DEF Init, Types
<1>4. ASSUME NEW x \in stored PROVE ttl[x] >= Renewal(x) - idle[x]
  <2>1. x \in Entries /\ ttl[x] = ExtendTTL(x, InitialTTL) /\ idle[x] = 0
    BY <1>1, <1>4 DEF Init
  <2> QED BY <1>1, <2>1, ExtendFacts, Amounts
<1> QED BY <1>3, <1>4 DEF Inv, Margin

(* Closing a ledger takes one off both sides. *)
LEMMA TickStep ==
  ASSUME Inv, Tick
  PROVE  Inv'
<1>1. /\ stored \subseteq Entries /\ ttl \in [Entries -> Int] /\ idle \in [Entries -> Nat]
      /\ stored' = stored
  BY DEF Inv, Types, Tick
<1>2. \A x : IdleBound(x) \in Nat /\ IdleBound(x) > Renewal(x)
  BY AmountsAssumption DEF IdleBound, Renewal
<1>3. /\ ttl' = [x \in Entries |-> IF x \in stored /\ ttl[x] >= 0 THEN ttl[x] - 1 ELSE ttl[x]]
      /\ idle' = [x \in Entries |-> IF x \in stored /\ idle[x] < IdleBound(x) THEN idle[x] + 1
                                    ELSE idle[x]]
  BY DEF Tick
<1> HIDE DEF IdleBound
<1>4. Types'
  BY <1>1, <1>3 DEF Tick, Inv, Types
<1>5. ASSUME NEW x \in stored \ {Instance("security")}, idle'[x] <= Renewal(x)
      PROVE  ttl'[x] >= Renewal(x) - idle'[x]
  <2>1. /\ x \in Entries /\ Renewal(x) \in Nat /\ idle[x] \in Nat /\ ttl[x] \in Int
        /\ Renewal(x) < IdleBound(x)
    BY <1>1, <1>2, Amounts
  <2>2. idle[x] < IdleBound(x) /\ idle'[x] = idle[x] + 1
    BY <1>2, <1>3, <1>5, <2>1
  <2>3. ttl[x] >= Renewal(x) - idle[x]
    BY <1>5, <2>1, <2>2 DEF Inv, Margin
  <2>4. ttl'[x] = ttl[x] - 1
    BY <1>3, <1>5, <2>1, <2>2, <2>3
  <2> QED BY <2>1, <2>2, <2>3, <2>4
<1>6. Margin'
  BY <1>1, <1>5 DEF Margin, Renewal
<1> QED BY <1>4, <1>6 DEF Inv

(* Changes of the registry count as use of what they load and save. *)
LEMMA SignerStep ==
  ASSUME Inv, NEW k \in Keys, AddSigner(k) \/ RemoveSigner(k) \/ RemoveNobody(k)
  PROVE  Inv'
<1>1. \A listed \in BOOLEAN : SignerEntries(k, listed) \in SUBSET Entries
  BY EntryFacts DEF SignerEntries, Contracts
<1>2. CASE AddSigner(k)
  <2> DEFINE entries == SignerEntries(k, k \notin registered)
  <2>1. entries \in SUBSET Entries
    BY <1>1
  <2>2. AdminCall(entries, entries, entries) /\ Work(entries) /\ registered' \subseteq Keys
    BY <1>2 DEF AddSigner, Inv, Types
  <2> HIDE DEF entries
  <2> QED BY <2>1, <2>2, AdminCallStep
<1>3. CASE RemoveSigner(k)
  <2> DEFINE entries == SignerEntries(k, TRUE)
  <2>1. entries \in SUBSET Entries
    BY <1>1
  <2>2. AdminCall(entries, entries, {}) /\ Work(entries) /\ registered' \subseteq Keys
    BY <1>3 DEF RemoveSigner, Inv, Types
  <2> HIDE DEF entries
  <2> QED BY <2>1, <2>2, AdminCallStep
<1>4. CASE RemoveNobody(k)
  <2> DEFINE entries == {Instance("security"), History(k)}
  <2>1. entries \in SUBSET Entries
    BY EntryFacts DEF Contracts
  <2>2. AdminCall(entries, entries, {}) /\ Work(entries) /\ registered' \subseteq Keys
    BY <1>4 DEF RemoveNobody, Inv, Types
  <2> HIDE DEF entries
  <2> QED BY <2>1, <2>2, AdminCallStep
<1> QED BY <1>2, <1>3, <1>4

(* A verification extends all it needs but the Security instance. *)
LEMMA VerifyStep ==
  ASSUME Inv, NEW S \in SUBSET Keys,
         VerifyDirectly(S) \/ \E e \in Events : VerifyEvent(S, e)
  PROVE  Inv'
<1>1. /\ VerifyExtends(S) \in SUBSET Entries
      /\ VerifyNeeds(S) \subseteq VerifyExtends(S) \cup {Instance("security")}
  BY EntryFacts DEF VerifyExtends, VerifyNeeds, Contracts
<1>2. CASE VerifyDirectly(S)
  <2> DEFINE needs == VerifyNeeds(S) \ {Instance("handler")}
             extends == VerifyExtends(S) \ {Instance("handler")}
  <2>1. /\ extends \in SUBSET Entries /\ {} \in SUBSET extends
        /\ needs \subseteq extends \cup {Instance("security")} \cup (Entries \ stored')
    BY <1>1
  <2>2. Call(needs, extends, {}) /\ Work(needs) /\ registered' \subseteq Keys
    BY <1>2 DEF VerifyDirectly, Inv, Types
  <2> HIDE DEF needs, extends
  <2> QED BY <2>1, <2>2, CallStep
<1>3. ASSUME NEW e \in Events, VerifyEvent(S, e) PROVE Inv'
  <2> DEFINE marks == {Seen(e), Payload(e)}
             extends == VerifyExtends(S) \cup marks
             used == VerifyNeeds(S) \cup marks
  <2>1. /\ extends \in SUBSET Entries /\ marks \in SUBSET extends
        /\ used \subseteq extends \cup {Instance("security")} \cup (Entries \ stored')
    BY <1>1, EntryFacts
  <2>2. Call(VerifyNeeds(S), extends, marks) /\ Work(used) /\ registered' \subseteq Keys
    BY <1>3 DEF VerifyEvent, Inv, Types
  <2> HIDE DEF marks, extends, used
  <2> QED BY <2>1, <2>2, CallStep
<1> QED BY <1>2, <1>3

(* Every other call uses nothing in this sense. *)
LEMMA OtherStep ==
  ASSUME Inv,
         \/ SetThreshold \/ RegisterHandler \/ ListSigners
         \/ \E k \in Keys : CheckOne(k)
         \/ \E c \in Contracts : Upgrade(c) \/ ChangeAdmin(c)
         \/ \E e \in Events : GetPayload(e)
         \/ \E entries \in SUBSET (Histories(Keys) \cup {Total}) : GetWeights(entries)
  PROVE  Inv'
<1>1. ASSUME NEW needs, NEW extends \in SUBSET Entries,
             AdminCall(needs, extends, {}), UNCHANGED <<registered, idle>>
      PROVE  Inv'
  <2>1. /\ {} \in SUBSET extends
        /\ {} \subseteq extends \cup {Instance("security")} \cup (Entries \ stored')
    OBVIOUS
  <2>2. registered' \subseteq Keys
    BY <1>1 DEF Inv, Types
  <2> QED BY <1>1, <2>1, <2>2, AdminCallStep
<1>2. ASSUME NEW needs, NEW extends \in SUBSET Entries,
             Call(needs, extends, {}), UNCHANGED <<registered, idle>>
      PROVE  Inv'
  BY <1>1, <1>2 DEF AdminCall
<1>3. CASE SetThreshold
  BY <1>1, <1>3 DEF SetThreshold
<1>4. CASE RegisterHandler
  <2>1. {Instance("root")} \in SUBSET Entries
    BY EntryFacts DEF Contracts
  <2> QED BY <1>2, <1>4, <2>1 DEF RegisterHandler
<1>5. CASE ListSigners
  <2> DEFINE entries == {List} \cup Histories(registered)
  <2>1. PICK extends \in {{}, entries} :
          Call({Instance("security")} \cup entries, extends, {}) /\ UNCHANGED <<registered, idle>>
    BY <1>5 DEF ListSigners
  <2>2. extends \in SUBSET Entries
    BY EntryFacts DEF Inv, Types
  <2> QED BY <1>2, <2>1, <2>2
<1>6. ASSUME NEW k \in Keys, CheckOne(k) PROVE Inv'
  <2>1. {History(k)} \in SUBSET Entries
    BY EntryFacts
  <2> QED BY <1>2, <1>6, <2>1 DEF CheckOne
<1>7. ASSUME NEW c \in Contracts, Upgrade(c) \/ ChangeAdmin(c) PROVE Inv'
  <2>1. {Instance(c)} \in SUBSET Entries /\ {} \in SUBSET Entries
    BY EntryFacts
  <2>2. CASE Upgrade(c)
    BY <1>1, <2>1, <2>2 DEF Upgrade
  <2>3. CASE ChangeAdmin(c)
    BY <1>1, <2>1, <2>3 DEF ChangeAdmin
  <2> QED BY <1>7, <2>2, <2>3
<1>8. ASSUME NEW e \in Events, GetPayload(e) PROVE Inv'
  <2>1. {Payload(e)} \in SUBSET Entries
    BY EntryFacts
  <2> QED BY <1>2, <1>8, <2>1 DEF GetPayload
<1>9. ASSUME NEW entries \in SUBSET (Histories(Keys) \cup {Total}), GetWeights(entries)
      PROVE  Inv'
  <2>1. entries \in SUBSET Entries
    BY EntryFacts
  <2> QED BY <1>2, <1>9, <2>1 DEF GetWeights
<1> QED BY <1>3, <1>4, <1>5, <1>6, <1>7, <1>8, <1>9

LEMMA InvNext == Inv /\ [Next]_vars => Inv'
<1> SUFFICES ASSUME Inv, [Next]_vars PROVE Inv'
  OBVIOUS
<1>1. CASE Next
  BY <1>1, SignerStep, VerifyStep, OtherStep, TickStep DEF Next
<1>2. CASE UNCHANGED vars
  BY <1>2 DEF vars, Inv, Types, Margin
<1> QED BY <1>1, <1>2

(* An entry that a verification or a change of a signer needed less than a *)
(* renewal threshold ago has not been archived, the instance of the        *)
(* Security contract apart: every such call extends what it needs (the     *)
(* extend_ttl of the storage modules).                                     *)
THEOREM UseKeepsAlive == Spec => []WorkKeepsAlive
<1>1. Inv => WorkKeepsAlive
  <2> SUFFICES ASSUME Inv, NEW x \in Entries \ {Instance("security")},
                      x \in stored, idle[x] <= Renewal(x)
               PROVE  ttl[x] >= 0
    BY DEF WorkKeepsAlive, KeptAlive, Live
  <2>1. ttl[x] \in Int /\ idle[x] \in Nat /\ Renewal(x) \in Nat
    BY Amounts DEF Inv, Types
  <2> QED BY <2>1 DEF Inv, Margin
<1> QED BY <1>1, InvInit, InvNext, PTL DEF Spec
=============================================================================
