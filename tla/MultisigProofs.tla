---------------------------- MODULE MultisigProofs ----------------------------
(***************************************************************************)
(* Theorems about a Security contract administered by the multisig         *)
(* account, for any owners, constructor arguments and number of open calls.*)
(***************************************************************************)
EXTENDS MultisigAdmin, WeightProofs, FiniteSetTheorems

AccountInv ==
  /\ account \in [signers : Seq(Owners), threshold : Nat]
  /\ ProposalIsCurrent

-----------------------------------------------------------------------------
(* __check_auth says Ok only when every iteration of its loop does and the *)
(* list is as long as the threshold.                                       *)
LEMMA CheckAuthOk ==
  ASSUME NEW acc, NEW payload, NEW sigs, NEW n \in Nat, DOMAIN sigs = 1..n,
         CheckAuth(acc, payload, sigs) = "Ok"
  PROVE  /\ \A i \in 1..n : AuthIteration(acc, payload, sigs, i) = "Ok"
         /\ ~(Len(sigs) < acc.threshold)
<1> DEFINE failing == {i \in 1..n : AuthIteration(acc, payload, sigs, i) # "Ok"}
           first == CHOOSE i \in failing : \A j \in failing : i <= j
<1>1. CheckAuth(acc, payload, sigs) =
        IF failing # {} THEN AuthIteration(acc, payload, sigs, first)
        ELSE IF Len(sigs) < acc.threshold THEN "InsufficientSignatures"
        ELSE "Ok"
  BY DEF CheckAuth
<1>2. failing = {}
  <2>1. SUFFICES ASSUME failing # {} PROVE FALSE
    OBVIOUS
  <2>2. failing \subseteq Nat
    OBVIOUS
  <2>3. \E m \in failing : \A k \in failing : m <= k
    <3> HIDE DEF failing
    <3> QED BY <2>1, <2>2, LeastNat
  <2>4. first \in failing
    <3> HIDE DEF failing
    <3> QED BY <2>3
  <2>5. AuthIteration(acc, payload, sigs, first) = "Ok"
    <3> HIDE DEF failing, first
    <3> QED BY <1>1, <2>1
  <2> QED BY <2>4, <2>5
<1>3. ~(Len(sigs) < acc.threshold)
  <2> HIDE DEF failing, first
  <2> QED BY <1>1, <1>2
<1> QED BY <1>2, <1>3

(* What is accepted for a slot was signed by as many different owners of   *)
(* the account as its threshold says.                                      *)
LEMMA AcceptedHasQuorum ==
  ASSUME AccountInv, NEW slot \in Slots, NEW owners \in OwnerLists,
         CheckAuth(account, slot, Signatures(owners, slot)) = "Ok"
  PROVE  HasQuorum(slot)
<1>1. PICK n \in Nat : owners \in [1..n -> Owners]
  BY MaxSignaturesAssumption DEF OwnerLists
<1> DEFINE sigs == Signatures(owners, slot)
<1>2. sigs = [i \in 1..n |-> [key |-> owners[i], signature |-> SignatureOf(owners[i], slot)]]
  BY <1>1 DEF Signatures
<1>3. /\ DOMAIN sigs = 1..n
      /\ \A i \in 1..n : /\ sigs[i].key = owners[i]
                         /\ sigs[i].signature = SignatureOf(owners[i], slot)
  BY <1>2
<1>4. Len(sigs) = n
  BY <1>2
<1> HIDE DEF sigs
<1>5. /\ \A i \in 1..n : AuthIteration(account, slot, sigs, i) = "Ok"
      /\ ~(Len(sigs) < account.threshold)
  BY <1>3, CheckAuthOk DEF sigs
<1>6. ASSUME NEW i \in 1..n
      PROVE  /\ HasElement(account.signers, owners[i])
             /\ \A j \in 1..(i - 1) : owners[j] # owners[i]
             /\ owners[i] \in approvals[slot]
  <2>1. /\ HasElement(account.signers, sigs[i].key)
        /\ ~ \E j \in 1..(i - 1) : sigs[j].key = sigs[i].key
        /\ sigs[i].signature = OwnerSignature(sigs[i].key, slot)
    BY <1>5 DEF AuthIteration
  <2>2. \A j \in 1..(i - 1) : j \in 1..n
    BY <1>1
  <2>3. owners[i] \in approvals[slot]
    <3>1. ASSUME owners[i] \notin approvals[slot] PROVE FALSE
      <4>1. OwnerSignature(owners[i], NoCall) = OwnerSignature(owners[i], slot)
        BY <1>3, <2>1, <3>1 DEF SignatureOf
      <4>2. OwnerSignature(owners[i], NoCall).over = OwnerSignature(owners[i], slot).over
        BY <4>1
      <4> QED BY <4>2, NoCallAssumption DEF OwnerSignature
    <3> QED BY <3>1
  <2> QED BY <1>3, <2>1, <2>2, <2>3
<1> DEFINE T == approvals[slot] \cap Voters
<1>7. owners \in Injection(1..n, T)
  <2>1. \A i \in 1..n : owners[i] \in T
    BY <1>6 DEF HasElement, Voters
  <2>2. owners \in [1..n -> T]
    BY <1>1, <2>1
  <2>3. ASSUME NEW a \in 1..n, NEW b \in 1..n, owners[a] = owners[b] PROVE a = b
    <3>1. a \in Nat /\ b \in Nat /\ a >= 1 /\ b >= 1
      OBVIOUS
    <3>2. ~(a < b)
      <4>1. a < b => a \in 1..(b - 1)
        BY <3>1
      <4> QED BY <1>6, <2>3, <4>1
    <3>3. ~(b < a)
      <4>1. b < a => b \in 1..(a - 1)
        BY <3>1
      <4> QED BY <1>6, <2>3, <4>1
    <3> QED BY <3>1, <3>2, <3>3
  <2>4. DOMAIN owners = 1..n
    BY <1>1
  <2> QED BY <2>2, <2>3, <2>4 DEF Injection, IsInjective
<1>8. IsFiniteSet(T)
  <2> DEFINE m == Len(account.signers)
  <2>1. m \in Nat /\ account.signers \in [1..m -> Owners]
    BY DEF AccountInv
  <2>2. account.signers \in [1..m -> Voters]
    BY <2>1 DEF Voters
  <2>3. account.signers \in Surjection(1..m, Voters)
    BY <2>1, <2>2 DEF Voters, Surjection
  <2>4. IsFiniteSet(1..m)
    BY <2>1, FS_Interval
  <2>5. IsFiniteSet(Voters)
    <3> HIDE DEF m
    <3> QED BY <2>3, <2>4, FS_Surjection
  <2> QED BY <2>5, FS_Subset
<1>9. Cardinality(1..n) = n
  BY <1>1, FS_Interval
<1>10. n <= Cardinality(T) /\ Cardinality(T) \in Nat
  <2> HIDE DEF T
  <2> QED BY <1>7, <1>8, <1>9, FS_Injection, FS_CardinalityType
<1>11. account.threshold \in Nat
  BY DEF AccountInv
<1> QED BY <1>1, <1>4, <1>5, <1>10, <1>11 DEF HasQuorum

-----------------------------------------------------------------------------
LEMMA AccountInvInit == AccountInit => AccountInv
<1> SUFFICES ASSUME AccountInit PROVE AccountInv
  OBVIOUS
<1>1. PICK a \in ConstructorArgs : account = [signers |-> a[1], threshold |-> a[2]]
  BY DEF AccountInit
<1>2. a[1] \in Seq(Owners) /\ a[2] \in Nat
  BY ConstructorArgsAssumption
<1>3. ProposalIsCurrent
  BY DEF AccountInit, Init, AdminInit, ProposalIsCurrent
<1> QED BY <1>1, <1>2, <1>3 DEF AccountInv

(* propose_admin, accept_admin and upgrade, whoever calls them. *)
LEMMA AdminKeeps ==
  ASSUME ProposalIsCurrent, NEW caller,
         \/ \E to : ProposeAdmin(caller, to)
         \/ AcceptAdmin(caller)
         \/ \E v : Upgrade(caller, v)
  PROVE  ProposalIsCurrent'
BY DEF ProposeAdmin, AcceptAdmin, Upgrade, RequireAuth, ProposalIsCurrent

LEMMA InvocationKeeps ==
  ASSUME NEW caller, Invocation(caller)
  PROVE  UNCHANGED adminVars /\ RequireAuth(caller, admin)
BY DEF Invocation, AddSigner, RemoveSigner, SetThreshold

LEMMA PerformKeeps ==
  ASSUME ProposalIsCurrent, NEW c, Perform(c)
  PROVE  ProposalIsCurrent'
<1>1. CASE \/ AddSigner(Account, c.key, c.weight)
           \/ RemoveSigner(Account, c.key)
           \/ SetThreshold(Account, c.args[1], c.args[2])
  BY <1>1 DEF AddSigner, RemoveSigner, SetThreshold, adminVars, ProposalIsCurrent
<1>2. CASE ProposeAdmin(Account, c.to) \/ AcceptAdmin(Account) \/ Upgrade(Account, c.version)
  BY <1>2, AdminKeeps
<1> QED BY <1>1, <1>2 DEF Perform

LEMMA AccountInvNext == AccountInv /\ [AccountNext]_governedVars => AccountInv'
<1> SUFFICES ASSUME AccountInv, [AccountNext]_governedVars PROVE AccountInv'
  OBVIOUS
<1>1. UNCHANGED account
  BY DEF AccountNext, DrawUp, Approve, GiveUp, Submit, OtherCaller, accountVars, governedVars
<1>2. CASE UNCHANGED vars
  BY <1>1, <1>2 DEF vars, adminVars, AccountInv, ProposalIsCurrent
<1>3. ASSUME NEW slot \in Slots, NEW owners \in OwnerLists, Submit(slot, owners)
      PROVE  AccountInv'
  BY <1>1, <1>3, PerformKeeps DEF Submit, AccountInv
<1>4. CASE OtherCaller
  <2>1. PICK caller \in Addresses \ {Account} :
          \/ Invocation(caller)
          \/ \E to \in Addresses : ProposeAdmin(caller, to)
          \/ AcceptAdmin(caller)
          \/ \E v \in Versions : Upgrade(caller, v)
    BY <1>4 DEF OtherCaller
  <2>2. ProposalIsCurrent'
    BY <2>1, AdminKeeps, InvocationKeeps DEF AccountInv, adminVars, ProposalIsCurrent
  <2> QED BY <1>1, <2>2 DEF AccountInv
<1> QED BY <1>2, <1>3, <1>4 DEF AccountNext, DrawUp, Approve, GiveUp, governedVars

(* A proposal that can be accepted was made by the administrator of now,   *)
(* whether that is the multisig account or another (admin.rs).             *)
THEOREM ProposalsAreCurrent == AccountSpec => []ProposalIsCurrent
<1>1. AccountInv => ProposalIsCurrent
  BY DEF AccountInv
<1> QED BY <1>1, AccountInvInit, AccountInvNext, PTL DEF AccountSpec

(* While the multisig account is the administrator, the Security contract  *)
(* changes only by calls a quorum of different owners has signed           *)
(* (multisig-account, __check_auth), for any owners and threshold.         *)
THEOREM QuorumGoverns == AccountSpec => ChangedByQuorum
<1> DEFINE Allowed ==
      \/ admin # Account
      \/ UNCHANGED governed
      \/ admin' = pendingAdmin
      \/ \E slot \in Slots : HasQuorum(slot) /\ Perform(open[slot])
<1>1. ASSUME AccountInv, [AccountNext]_governedVars PROVE Allowed
  <2>1. CASE UNCHANGED vars
    BY <2>1 DEF vars, adminVars, securityVars, registryVars, governed
  <2>2. ASSUME NEW slot \in Slots, NEW owners \in OwnerLists, Submit(slot, owners)
        PROVE  Allowed
    <3>1. HasQuorum(slot)
      BY <1>1, <2>2, AcceptedHasQuorum DEF Submit
    <3> QED BY <2>2, <3>1 DEF Submit
  <2>3. CASE OtherCaller
    <3>1. PICK caller \in Addresses \ {Account} :
            \/ Invocation(caller)
            \/ \E to \in Addresses : ProposeAdmin(caller, to)
            \/ AcceptAdmin(caller)
            \/ \E v \in Versions : Upgrade(caller, v)
      BY <2>3 DEF OtherCaller
    <3>2. CASE AcceptAdmin(caller)
      BY <3>2 DEF AcceptAdmin
    <3>3. CASE \/ Invocation(caller)
               \/ \E to \in Addresses : ProposeAdmin(caller, to)
               \/ \E v \in Versions : Upgrade(caller, v)
      BY <3>3, InvocationKeeps DEF ProposeAdmin, Upgrade, RequireAuth
    <3> QED BY <3>1, <3>2, <3>3
  <2> QED BY <1>1, <2>1, <2>2, <2>3 DEF AccountNext, DrawUp, Approve, GiveUp, governedVars
<1>2. AccountInv /\ [AccountNext]_governedVars => [Allowed]_governedVars
  BY <1>1
<1> HIDE DEF Allowed
<1>3. AccountSpec => [][Allowed]_governedVars
  BY <1>2, AccountInvInit, AccountInvNext, PTL DEF AccountSpec
<1> QED BY <1>3 DEF ChangedByQuorum, Allowed

-----------------------------------------------------------------------------
(* What the constructor took: no key twice, a threshold from one to the    *)
(* number of keys.                                                         *)
Constructed ==
  /\ account.threshold >= 1 /\ account.threshold <= Len(account.signers)
  /\ \A i, j \in 1..Len(account.signers) : account.signers[i] = account.signers[j] => i = j
  /\ Len(account.signers) <= MaxSignatures

LEMMA ConstructedInit == AccountInit => Constructed
<1> SUFFICES ASSUME AccountInit PROVE Constructed
  OBVIOUS
<1>1. PICK a \in ConstructorArgs :
        ConstructorOutcome(a[1], a[2]) = "Ok" /\ account = [signers |-> a[1], threshold |-> a[2]]
  BY DEF AccountInit
<1> DEFINE keys == a[1]
           n == Len(keys)
<1>2. keys \in Seq(Owners) /\ a[2] \in Nat
  BY ConstructorArgsAssumption
<1>3. n \in Nat /\ DOMAIN keys = 1..n
  BY <1>2
<1>4. /\ a[2] # 0 /\ ~(a[2] > n)
      /\ \A i \in DOMAIN keys : ~HasElement(SubSeq(keys, 1, i - 1), keys[i])
  BY <1>1 DEF ConstructorOutcome
<1>5. ASSUME NEW i \in 1..n, NEW j \in 1..n, i < j PROVE keys[i] # keys[j]
  <2>1. i \in DOMAIN SubSeq(keys, 1, j - 1) /\ SubSeq(keys, 1, j - 1)[i] = keys[i]
    BY <1>2, <1>3, <1>5
  <2> QED BY <1>3, <1>4, <2>1 DEF HasElement
<1>6. \A i, j \in 1..n : keys[i] = keys[j] => i = j
  <2> HIDE DEF keys
  <2>1. \A i, j \in 1..n : i < j \/ j < i \/ i = j
    BY <1>3
  <2> QED BY <1>5, <2>1
<1>7. n <= MaxSignatures
  BY <1>1, MaxSignaturesAssumption
<1>8. account.signers = keys /\ account.threshold = a[2]
  BY <1>1
<1> HIDE DEF keys
<1> QED BY <1>2, <1>3, <1>4, <1>6, <1>7, <1>8 DEF Constructed

LEMMA ConstructedNext == Constructed /\ [AccountNext]_governedVars => Constructed'
BY DEF Constructed, AccountNext, DrawUp, Approve, GiveUp, Submit, OtherCaller, accountVars, governedVars

(* The account knows as many owners as keys are listed. *)
LEMMA VotersFacts ==
  ASSUME AccountInv, Constructed
  PROVE  IsFiniteSet(Voters) /\ Cardinality(Voters) = Len(account.signers) /\ Voters \subseteq Owners
<1> DEFINE m == Len(account.signers)
<1>1. m \in Nat /\ account.signers \in [1..m -> Owners]
  BY DEF AccountInv
<1>2. account.signers \in [1..m -> Voters] /\ Voters \subseteq Owners
  BY <1>1 DEF Voters
<1>3. account.signers \in Surjection(1..m, Voters)
  BY <1>1, <1>2 DEF Voters, Surjection
<1>4. account.signers \in Injection(1..m, Voters)
  BY <1>1, <1>2 DEF Constructed, Injection, IsInjective
<1> HIDE DEF m
<1>5. IsFiniteSet(1..m) /\ Cardinality(1..m) = m
  BY <1>1, FS_Interval
<1>6. IsFiniteSet(Voters) /\ Cardinality(Voters) = Cardinality(1..m)
  BY <1>3, <1>4, <1>5, FS_Surjection
<1> QED BY <1>2, <1>5, <1>6 DEF m

(* A list in which every key is an owner of the account that has signed,   *)
(* none twice, passes when it is as long as the threshold.                 *)
LEMMA ListPasses ==
  ASSUME NEW slot \in Slots, NEW n \in Nat, NEW f \in [1..n -> Voters \cap approvals[slot]],
         \A i, j \in 1..n : f[i] = f[j] => i = j, ~(n < account.threshold)
  PROVE  CheckAuth(account, slot, Signatures(f, slot)) = "Ok"
<1> DEFINE sigs == Signatures(f, slot)
<1>1. sigs = [i \in 1..n |-> [key |-> f[i], signature |-> OwnerSignature(f[i], slot)]]
  <2>1. \A i \in 1..n : f[i] \in approvals[slot]
    OBVIOUS
  <2> QED BY <2>1 DEF Signatures, SignatureOf
<1>2. /\ DOMAIN sigs = 1..n /\ Len(sigs) = n
      /\ \A i \in 1..n : sigs[i].key = f[i] /\ sigs[i].signature = OwnerSignature(f[i], slot)
  BY <1>1
<1> HIDE DEF sigs
<1>3. ASSUME NEW i \in 1..n PROVE AuthIteration(account, slot, sigs, i) = "Ok"
  <2>1. HasElement(account.signers, sigs[i].key)
    BY <1>2 DEF HasElement, Voters
  <2>2. ASSUME NEW j \in 1..(i - 1) PROVE sigs[j].key # sigs[i].key
    BY <1>2
  <2> QED BY <1>2, <2>1, <2>2 DEF AuthIteration
<1>4. {i \in DOMAIN sigs : AuthIteration(account, slot, sigs, i) # "Ok"} = {}
  BY <1>2, <1>3
<1> QED BY <1>2, <1>4 DEF CheckAuth, sigs

(* No set-up the constructor takes locks the owners out: a call that a     *)
(* quorum has signed, or every owner the account knows, can be submitted   *)
(* (multisig-account, __constructor and __check_auth).                     *)
THEOREM AQuorumIsHeard == AccountSpec => []QuorumIsHeard
<1>1. ASSUME AccountInv, Constructed PROVE QuorumIsHeard
  <2> SUFFICES ASSUME NEW slot \in Slots, HasQuorum(slot) \/ Voters \subseteq approvals[slot]
               PROVE  \E owners \in OwnerLists :
                        CheckAuth(account, slot, Signatures(owners, slot)) = "Ok"
    BY DEF QuorumIsHeard
  <2> DEFINE T == Voters \cap approvals[slot]
             n == Cardinality(T)
  <2>1. IsFiniteSet(Voters) /\ Cardinality(Voters) = Len(account.signers) /\ Voters \subseteq Owners
    BY <1>1, VotersFacts
  <2>2. IsFiniteSet(T) /\ n \in Nat /\ n <= Len(account.signers) /\ ExistsBijection(1..n, T)
    BY <2>1, FS_Subset, FS_CardinalityType
  <2>3. account.threshold \in Nat /\ Len(account.signers) \in Nat
    BY <1>1 DEF AccountInv
  <2>4. ~(n < account.threshold)
    <3>1. CASE HasQuorum(slot)
      <4>1. T = approvals[slot] \cap Voters
        OBVIOUS
      <4>2. n >= account.threshold
        BY <3>1, <4>1 DEF HasQuorum
      <4> HIDE DEF n
      <4> QED BY <2>2, <2>3, <4>2
    <3>2. CASE Voters \subseteq approvals[slot]
      <4>1. T = Voters
        BY <3>2
      <4>2. n = Len(account.signers)
        BY <2>1, <4>1
      <4> HIDE DEF n
      <4> QED BY <1>1, <2>3, <4>2 DEF Constructed
    <3> QED BY <3>1, <3>2
  <2>5. PICK f \in [1..n -> T] : \A i, j \in 1..n : f[i] = f[j] => i = j
    <3> HIDE DEF T, n
    <3> QED BY <2>2 DEF ExistsBijection, Bijection, Injection, IsInjective
  <2>6. f \in OwnerLists
    <3>1. n \in 0..MaxSignatures
      <4> HIDE DEF n
      <4> QED BY <1>1, <2>2, <2>3, MaxSignaturesAssumption DEF Constructed
    <3>2. f \in [1..n -> Owners]
      BY <2>1
    <3> HIDE DEF n
    <3> QED BY <3>1, <3>2 DEF OwnerLists
  <2>7. CheckAuth(account, slot, Signatures(f, slot)) = "Ok"
    <3> HIDE DEF n
    <3> QED BY <2>2, <2>4, <2>5, ListPasses
  <2> QED BY <2>6, <2>7
<1> QED BY <1>1, AccountInvInit, AccountInvNext, ConstructedInit, ConstructedNext, PTL DEF AccountSpec
=============================================================================
