---------------------------- MODULE HandlerProofs ----------------------------
(***************************************************************************)
(* Theorems about the Security, Verification and Handler contracts that    *)
(* act together.                                                           *)
(*                                                                         *)
(* First those of the Security contract alone: types, the faithfulness of  *)
(* the pruned histories inside the window, the past that stays fixed, the  *)
(* registry of signers, and the total that is the sum of the weights.      *)
(*                                                                         *)
(* Then those of a Handler with its Verification and Security contracts:   *)
(* what is stored for an event, that the answer to a submission does not   *)
(* move under it, that what was accepted had a quorum, and that the three  *)
(* contracts implement AttestedEvents.                                     *)
(***************************************************************************)
EXTENDS Handler, WeightProofs

Inv == TypeOK /\ HistoriesInv

-----------------------------------------------------------------------------
(* The scan of the signer list stops at the first key not below the one    *)
(* sought, or after the last.                                              *)
LEMMA ScanStopFacts ==
  ASSUME NEW list \in Seq(Keys), NEW key \in Keys
  PROVE  /\ ScanStop(list, key) \in 1..(Len(list) + 1)
         /\ \A i \in 1..(ScanStop(list, key) - 1) : list[i] < key
         /\ ScanStop(list, key) <= Len(list) => list[ScanStop(list, key)] >= key
<1>0. /\ Len(list) \in Nat /\ key \in Nat
      /\ \A i \in 1..Len(list) : list[i] \in Nat
  <2>1. \A i \in 1..Len(list) : list[i] \in Keys
    OBVIOUS
  <2> QED BY <2>1, BoundsAssumption DEF Keys
<1> DEFINE T == {n \in Nat : n >= 1 /\ (n <= Len(list) => list[n] >= key)}
<1>1. T \subseteq Nat /\ Len(list) + 1 \in T
  BY <1>0
<1>2. PICK m \in T : \A k \in T : m <= k
  <2> HIDE DEF T
  <2> QED BY <1>1, LeastNat
<1>3. m \in 1..(Len(list) + 1) /\ (m <= Len(list) => list[m] >= key)
  BY <1>0, <1>1, <1>2
<1>4. ASSUME NEW i \in 1..(m - 1) PROVE list[i] < key
  <2>1. i \in Nat /\ i >= 1 /\ i < m /\ i \in 1..Len(list)
    BY <1>0, <1>3
  <2>2. i \notin T
    BY <1>2, <1>3, <2>1
  <2> QED BY <1>0, <2>1, <2>2
<1> HIDE DEF T
<1> DEFINE Q(n) == /\ \A i \in 1..(n - 1) : list[i] < key
                   /\ n <= Len(list) => list[n] >= key
<1>5. \E n \in 1..(Len(list) + 1) : Q(n)
  BY <1>3, <1>4
<1>6. ScanStop(list, key) = CHOOSE n \in 1..(Len(list) + 1) : Q(n)
  BY DEF ScanStop
<1>7. ScanStop(list, key) \in 1..(Len(list) + 1) /\ Q(ScanStop(list, key))
  <2> HIDE DEF Q
  <2> QED BY <1>5, <1>6
<1> QED BY <1>7

(* Inserting and removing keep a list of keys one. *)
LEMMA SignerListType ==
  ASSUME NEW list \in Seq(Keys), NEW key \in Keys
  PROVE  /\ InsertAllSigners(list, key) \in Seq(Keys)
         /\ RemoveAllSigners(list, key) \in Seq(Keys)
<1> DEFINE n == ScanStop(list, key)
<1>1. n \in 1..(Len(list) + 1) /\ Len(list) \in Nat
  BY ScanStopFacts
<1> HIDE DEF n
<1>2. SubSeq(list, 1, n - 1) \in Seq(Keys)
  BY <1>1
<1>3. SubSeq(list, n, Len(list)) \in Seq(Keys)
  BY <1>1
<1>4. SubSeq(list, n + 1, Len(list)) \in Seq(Keys)
  BY <1>1
<1>5. <<key>> \in Seq(Keys)
  OBVIOUS
<1>6. /\ SubSeq(list, 1, n - 1) \o <<key>> \o SubSeq(list, n, Len(list)) \in Seq(Keys)
      /\ SubSeq(list, 1, n - 1) \o SubSeq(list, n + 1, Len(list)) \in Seq(Keys)
  BY <1>2, <1>3, <1>4, <1>5
<1> QED BY <1>6, Zenon DEF InsertAllSigners, RemoveAllSigners, n

(* A stored history is one of entries. *)
LEMMA TimelineTypes ==
  ASSUME NEW h, NEW log, NEW l, NEW cutoff, Timeline(h, log, l, cutoff)
  PROVE  h \in Seq(Entries) /\ log \in Seq(Entries)
BY DEF Timeline

(* Weights and totals are naturals. *)
LEMMA LatestTypes ==
  ASSUME Inv
  PROVE  /\ GetTotalWeight \in Nat
         /\ \A k \in Keys : GetSignerWeight(k) \in Nat
<1>1. ledger \in Nat /\ HistoryCutoff \in Nat
  BY BoundsAssumption DEF Inv, TypeOK
<1> QED BY <1>1, TimelineLatest DEF Inv, HistoriesInv, GetTotalWeight, GetSignerWeight

(* A push of a weight and of the total keeps all histories Timelines. *)
LEMMA PushWeightsInv ==
  ASSUME Inv, NEW key \in Keys, NEW weight \in Nat, NEW total \in Nat,
         PushWeights(key, weight, total), UNCHANGED ledger
  PROVE  /\ HistoriesInv'
         /\ weightHist' \in [Keys -> Seq(Entries)] /\ totalHist' \in Seq(Entries)
         /\ weightLog' \in [Keys -> Seq(Entries)] /\ totalLog' \in Seq(Entries)
<1>1. /\ ledger \in Nat /\ HistoryCutoff \in Nat
      /\ weightHist \in [Keys -> Seq(Entries)] /\ weightLog \in [Keys -> Seq(Entries)]
      /\ \A k \in Keys : Timeline(weightHist[k], weightLog[k], ledger, HistoryCutoff)
      /\ Timeline(totalHist, totalLog, ledger, HistoryCutoff)
  BY BoundsAssumption DEF Inv, TypeOK, HistoriesInv
<1>2. /\ weightHist' = [weightHist EXCEPT ![key] = Push(@, ledger, weight, HistoryCutoff)]
      /\ totalHist' = Push(totalHist, ledger, total, HistoryCutoff)
      /\ weightLog' = [weightLog EXCEPT ![key] = Put(@, ledger, weight)]
      /\ totalLog' = Put(totalLog, ledger, total)
      /\ ledger' = ledger
  BY DEF PushWeights
<1>3. Timeline(totalHist', totalLog', ledger', HistoryCutoff)
  BY <1>1, <1>2, TimelinePush
<1>4. ASSUME NEW k \in Keys
      PROVE  Timeline(weightHist'[k], weightLog'[k], ledger', HistoryCutoff)
  <2>1. CASE k = key
    <3>1. /\ weightHist'[k] = Push(weightHist[k], ledger, weight, HistoryCutoff)
          /\ weightLog'[k] = Put(weightLog[k], ledger, weight)
      BY <1>1, <1>2, <2>1
    <3> QED BY <1>1, <1>2, <3>1, TimelinePush
  <2>2. CASE k # key
    <3>1. weightHist'[k] = weightHist[k] /\ weightLog'[k] = weightLog[k]
      BY <1>1, <1>2, <2>2
    <3> QED BY <1>1, <1>2, <3>1
  <2> QED BY <2>1, <2>2
<1>5. HistoriesInv'
  BY <1>3, <1>4 DEF HistoriesInv
<1>6. \A k \in Keys : weightHist'[k] \in Seq(Entries) /\ weightLog'[k] \in Seq(Entries)
  BY <1>4, TimelineTypes
<1>7. weightHist' = [k \in Keys |-> weightHist'[k]] /\ weightLog' = [k \in Keys |-> weightLog'[k]]
  BY <1>1, <1>2
<1>8. weightHist' \in [Keys -> Seq(Entries)] /\ weightLog' \in [Keys -> Seq(Entries)]
  BY <1>6, <1>7
<1> QED BY <1>3, <1>5, <1>8, TimelineTypes

-----------------------------------------------------------------------------
LEMMA InvInit == Init => Inv
<1> SUFFICES ASSUME Init PROVE Inv
  OBVIOUS
<1>1. HistoriesInv
  BY TimelineEmpty, BoundsAssumption DEF Init, HistoriesInv
<1>2. threshold \in [num : Nat, den : Nat] /\ IsThreshold(threshold)
  <2>1. PICK b \in ThresholdArgs : /\ ValidThreshold(b[1], b[2])
                                   /\ threshold = [num |-> b[1], den |-> b[2]]
    BY DEF Init, ThresholdsOf
  <2>2. b[1] \in Nat /\ b[2] \in Nat
    BY ThresholdArgsAssumption
  <2> QED BY <2>1, <2>2 DEF IsThreshold
<1>3. AdminTypeOK
  BY DEF Init, AdminInit, AdminTypeOK
<1> QED BY <1>1, <1>2, <1>3 DEF Inv, TypeOK, Init

(* An administrator's call leaves the registry alone. *)
LEMMA AdminStep ==
  ASSUME Inv, AdminNext, UNCHANGED securityVars
  PROVE  Inv'
<1>1. AdminTypeOK'
  <2>1. PICK caller \in Addresses :
          \/ \E v \in Versions : Upgrade(caller, v)
          \/ \E newAdmin \in Addresses : ProposeAdmin(caller, newAdmin)
          \/ AcceptAdmin(caller)
    BY DEF AdminNext
  <2> QED BY <2>1 DEF Inv, TypeOK, AdminTypeOK, Upgrade, ProposeAdmin, AcceptAdmin, RequireAuth
<1>2. UNCHANGED <<ledger, threshold, allSigners, weightHist, totalHist, weightLog, totalLog>>
  BY DEF securityVars, registryVars
<1> QED BY <1>1, <1>2 DEF Inv, TypeOK, HistoriesInv, IsThreshold

LEMMA AddSignerStep ==
  ASSUME Inv, NEW caller \in Addresses, NEW key \in Keys, NEW weight \in Weights,
         AddSigner(caller, key, weight)
  PROVE  Inv'
<1> DEFINE old == GetSignerWeight(key)
           total == GetTotalWeight - old + weight
<1>1. /\ old <= GetTotalWeight
      /\ allSigners' = IF Registered(key) THEN allSigners ELSE InsertAllSigners(allSigners, key)
      /\ PushWeights(key, weight, total)
      /\ UNCHANGED <<adminVars, ledger, threshold>>
  BY DEF AddSigner, StoreSigner
<1>2. weight \in Nat /\ total \in Nat
  BY <1>1, LatestTypes, WeightsAssumption
<1> HIDE DEF total
<1>3. /\ HistoriesInv'
      /\ weightHist' \in [Keys -> Seq(Entries)] /\ totalHist' \in Seq(Entries)
      /\ weightLog' \in [Keys -> Seq(Entries)] /\ totalLog' \in Seq(Entries)
  BY <1>1, <1>2, PushWeightsInv
<1>4. allSigners' \in Seq(Keys)
  BY <1>1, SignerListType DEF Inv, TypeOK
<1> QED BY <1>1, <1>3, <1>4 DEF Inv, TypeOK, AdminTypeOK, adminVars, IsThreshold

LEMMA RemoveSignerStep ==
  ASSUME Inv, NEW caller \in Addresses, NEW key \in Keys, RemoveSigner(caller, key)
  PROVE  Inv'
<1>1. CASE DropSigner(key)
  <2> DEFINE total == GetTotalWeight - GetSignerWeight(key)
  <2>1. /\ GetSignerWeight(key) <= GetTotalWeight
        /\ allSigners' = RemoveAllSigners(allSigners, key)
        /\ PushWeights(key, 0, total)
        /\ UNCHANGED <<adminVars, ledger, threshold>>
    BY <1>1 DEF RemoveSigner, DropSigner
  <2>2. total \in Nat
    BY <2>1, LatestTypes
  <2> HIDE DEF total
  <2>3. /\ HistoriesInv'
        /\ weightHist' \in [Keys -> Seq(Entries)] /\ totalHist' \in Seq(Entries)
        /\ weightLog' \in [Keys -> Seq(Entries)] /\ totalLog' \in Seq(Entries)
    BY <2>1, <2>2, PushWeightsInv
  <2>4. allSigners' \in Seq(Keys)
    BY <2>1, SignerListType DEF Inv, TypeOK
  <2> QED BY <2>1, <2>3, <2>4 DEF Inv, TypeOK, AdminTypeOK, adminVars, IsThreshold
<1>2. CASE UNCHANGED registryVars
  BY <1>2 DEF RemoveSigner, registryVars, adminVars, Inv, TypeOK, AdminTypeOK, HistoriesInv, IsThreshold
<1> QED BY <1>1, <1>2 DEF RemoveSigner

LEMMA SetThresholdStep ==
  ASSUME Inv, NEW caller \in Addresses, NEW a \in ThresholdArgs, SetThreshold(caller, a[1], a[2])
  PROVE  Inv'
<1>1. a[1] \in Nat /\ a[2] \in Nat
  BY ThresholdArgsAssumption
<1>2. /\ threshold' = [num |-> a[1], den |-> a[2]] /\ ValidThreshold(a[1], a[2])
      /\ UNCHANGED <<adminVars, ledger, registryVars>>
  BY DEF SetThreshold
<1>3. threshold' \in [num : Nat, den : Nat] /\ IsThreshold(threshold)'
  BY <1>1, <1>2 DEF IsThreshold
<1> QED BY <1>2, <1>3 DEF registryVars, adminVars, Inv, TypeOK, AdminTypeOK, HistoriesInv

LEMMA CloseLedgerStep ==
  ASSUME Inv, CloseLedger
  PROVE  Inv'
<1>1. /\ ledger \in Nat /\ ledger' = ledger + 1 /\ HistoryCutoff \in Nat
      /\ UNCHANGED <<adminVars, threshold, registryVars>>
  BY BoundsAssumption DEF CloseLedger, Inv, TypeOK
<1>2. ledger' \in Nat /\ ledger <= ledger'
  BY <1>1
<1>3. HistoriesInv'
  BY <1>1, <1>2, TimelineLater DEF Inv, HistoriesInv, registryVars
<1> QED BY <1>1, <1>2, <1>3 DEF Inv, TypeOK, AdminTypeOK, adminVars, registryVars, IsThreshold

LEMMA InvNext == Inv /\ [Next]_vars => Inv'
<1> SUFFICES ASSUME Inv, [Next]_vars PROVE Inv'
  OBVIOUS
<1>1. ASSUME NEW caller \in Addresses, Invocation(caller) PROVE Inv'
  BY <1>1, AddSignerStep, RemoveSignerStep, SetThresholdStep DEF Invocation
<1>2. CASE AdminNext /\ UNCHANGED securityVars
  BY <1>2, AdminStep
<1>3. CASE CloseLedger
  BY <1>3, CloseLedgerStep
<1>4. CASE UNCHANGED vars
  BY <1>4 DEF vars, securityVars, registryVars, adminVars, Inv, TypeOK, AdminTypeOK,
              HistoriesInv, IsThreshold
<1> QED BY <1>1, <1>2, <1>3, <1>4 DEF Next

-----------------------------------------------------------------------------
LEMMA InvImplies == Inv => TypeOK /\ WindowFaithful /\ NeverInvents /\ HistoryBounded
<1> SUFFICES ASSUME Inv PROVE WindowFaithful /\ NeverInvents /\ HistoryBounded
  BY DEF Inv
<1>1. /\ ledger \in Nat /\ HistoryCutoff \in Nat
      /\ \A k \in Keys : Timeline(weightHist[k], weightLog[k], ledger, HistoryCutoff)
      /\ Timeline(totalHist, totalLog, ledger, HistoryCutoff)
  BY BoundsAssumption DEF Inv, TypeOK, HistoriesInv
<1>2. WindowFaithful
  <2>1. WindowStart \in Nat
    BY <1>1 DEF WindowStart, SaturatingSub
  <2>2. ASSUME NEW r \in WindowStart..ledger
        PROVE  /\ \A k \in Keys : GetSignerWeightAt(k, r) = LookupAt(weightLog[k], r)
               /\ GetTotalWeightAt(r) = LookupAt(totalLog, r)
    <3>1. r \in Nat /\ SaturatingSub(ledger, HistoryCutoff) <= r
      BY <1>1, <2>1, <2>2 DEF WindowStart
    <3> QED BY <1>1, <3>1, TimelineLookup DEF GetSignerWeightAt, GetTotalWeightAt
  <2> QED BY <2>2 DEF WindowFaithful
<1>3. NeverInvents
  <2>1. ASSUME NEW r \in 0..ledger
        PROVE  /\ \A k \in Keys : GetSignerWeightAt(k, r) \in {0, LookupAt(weightLog[k], r)}
               /\ GetTotalWeightAt(r) \in {0, LookupAt(totalLog, r)}
    <3>1. r \in Nat
      BY <1>1
    <3> QED BY <1>1, <3>1, TimelineLookup DEF GetSignerWeightAt, GetTotalWeightAt, Default
  <2> QED BY <2>1 DEF NeverInvents
<1>4. HistoryBounded
  BY <1>1 DEF HistoryBounded, Timeline
<1> QED BY <1>2, <1>3, <1>4

(* The storage of a Security contract keeps its types: weights stay u64-   *)
(* like naturals, thresholds valid, lists lists of keys.                   *)
THEOREM TypeCorrect == Spec => []TypeOK
<1>1. Spec => []Inv
  BY InvInit, InvNext, PTL DEF Spec
<1> QED BY <1>1, InvImplies, PTL

(* Inside the window of HISTORY_CUTOFF ledgers every lookup in a pruned    *)
(* history (vec_history.rs) gives what the full history (checkpoint.rs)    *)
(* gives.                                                                  *)
THEOREM WindowIsFaithful == Spec => []WindowFaithful
<1>1. Spec => []Inv
  BY InvInit, InvNext, PTL DEF Spec
<1> QED BY <1>1, InvImplies, PTL

(* Outside the window a lookup may answer 0, never a wrong weight. *)
THEOREM LookupsNeverInvent == Spec => []NeverInvents
<1>1. Spec => []Inv
  BY InvInit, InvNext, PTL DEF Spec
<1> QED BY <1>1, InvImplies, PTL

(* No stored history outgrows HISTORY_CUTOFF + 2 entries. *)
THEOREM StorageIsBounded == Spec => []HistoryBounded
<1>1. Spec => []Inv
  BY InvInit, InvNext, PTL DEF Spec
<1> QED BY <1>1, InvImplies, PTL

-----------------------------------------------------------------------------
(* What a push of a weight and of the total leaves of the past. *)
LEMMA PushWeightsPast ==
  ASSUME Inv, NEW key \in Keys, NEW weight \in Nat, NEW total \in Nat,
         PushWeights(key, weight, total), NEW r \in Nat, r < ledger
  PROVE  /\ \A k \in Keys : LookupAt(weightLog'[k], r) = LookupAt(weightLog[k], r)
         /\ LookupAt(totalLog', r) = LookupAt(totalLog, r)
<1>1. /\ ledger \in Nat
      /\ weightLog \in [Keys -> Seq(Entries)]
      /\ \A k \in Keys : Timeline(weightHist[k], weightLog[k], ledger, HistoryCutoff)
      /\ Timeline(totalHist, totalLog, ledger, HistoryCutoff)
  BY DEF Inv, TypeOK, HistoriesInv
<1>2. /\ weightLog' = [weightLog EXCEPT ![key] = Put(@, ledger, weight)]
      /\ totalLog' = Put(totalLog, ledger, total)
  BY DEF PushWeights
<1>3. LookupAt(totalLog', r) = LookupAt(totalLog, r)
  BY <1>1, <1>2, PutPast DEF Timeline
<1>4. ASSUME NEW k \in Keys PROVE LookupAt(weightLog'[k], r) = LookupAt(weightLog[k], r)
  <2>1. CASE k = key
    <3>1. weightLog'[k] = Put(weightLog[k], ledger, weight)
      BY <1>1, <1>2, <2>1
    <3>2. /\ weightLog[k] \in Seq(Entries) /\ Ordered(weightLog[k])
          /\ weightLog[k] # <<>> => weightLog[k][Len(weightLog[k])].ledger <= ledger
      BY <1>1 DEF Timeline
    <3>3. LookupAt(Put(weightLog[k], ledger, weight), r) = LookupAt(weightLog[k], r)
      BY <1>1, <3>2, PutPast
    <3> QED BY <3>1, <3>3
  <2>2. CASE k # key
    <3>1. weightLog'[k] = weightLog[k]
      BY <1>1, <1>2, <2>2
    <3> QED BY <3>1
  <2> QED BY <2>1, <2>2
<1> QED BY <1>3, <1>4

(* No step changes the full histories at a ledger that is over. *)
LEMMA LogsPast ==
  ASSUME Inv, [Next]_vars, NEW r \in Nat, r < ledger
  PROVE  /\ \A k \in Keys : LookupAt(weightLog'[k], r) = LookupAt(weightLog[k], r)
         /\ LookupAt(totalLog', r) = LookupAt(totalLog, r)
<1> DEFINE Same == /\ \A k \in Keys : LookupAt(weightLog'[k], r) = LookupAt(weightLog[k], r)
                   /\ LookupAt(totalLog', r) = LookupAt(totalLog, r)
<1>1. ASSUME NEW caller \in Addresses, NEW key \in Keys, NEW weight \in Weights,
             AddSigner(caller, key, weight)
      PROVE  Same
  <2> DEFINE total == GetTotalWeight - GetSignerWeight(key) + weight
  <2>1. GetSignerWeight(key) <= GetTotalWeight /\ PushWeights(key, weight, total)
    BY <1>1 DEF AddSigner, StoreSigner
  <2>2. weight \in Nat /\ total \in Nat
    BY <2>1, LatestTypes, WeightsAssumption
  <2> HIDE DEF total
  <2> QED BY <2>1, <2>2, PushWeightsPast
<1>2. ASSUME NEW caller \in Addresses, NEW key \in Keys, RemoveSigner(caller, key)
      PROVE  Same
  <2>1. CASE DropSigner(key)
    <3> DEFINE total == GetTotalWeight - GetSignerWeight(key)
    <3>1. GetSignerWeight(key) <= GetTotalWeight /\ PushWeights(key, 0, total)
      BY <2>1 DEF DropSigner
    <3>2. total \in Nat
      BY <3>1, LatestTypes
    <3> HIDE DEF total
    <3> QED BY <3>1, <3>2, PushWeightsPast
  <2>2. CASE UNCHANGED registryVars
    BY <2>2 DEF registryVars
  <2> QED BY <1>2, <2>1, <2>2 DEF RemoveSigner
<1>4. ASSUME NEW caller \in Addresses, Invocation(caller) PROVE Same
  <2>1. ASSUME NEW a \in ThresholdArgs, SetThreshold(caller, a[1], a[2]) PROVE Same
    BY <2>1 DEF SetThreshold, registryVars
  <2> QED BY <1>1, <1>2, <1>4, <2>1 DEF Invocation
<1>5. CASE AdminNext /\ UNCHANGED securityVars
  BY <1>5 DEF securityVars, registryVars
<1>6. CASE CloseLedger
  BY <1>6 DEF CloseLedger, registryVars
<1>7. CASE UNCHANGED vars
  BY <1>7 DEF vars, securityVars, registryVars
<1> QED BY <1>4, <1>5, <1>6, <1>7 DEF Next

(* Time does not run backwards. *)
LEMMA LedgerGrows ==
  ASSUME Inv, [Next]_vars
  PROVE  /\ ledger \in Nat /\ ledger' \in Nat /\ ledger <= ledger'
         /\ WindowStart \in Nat /\ WindowStart' \in Nat /\ WindowStart <= WindowStart'
<1>1. ledger \in Nat /\ HistoryCutoff \in Nat
  BY BoundsAssumption DEF Inv, TypeOK
<1>2. ledger' = ledger \/ ledger' = ledger + 1
  BY DEF Next, Invocation, AddSigner, RemoveSigner, SetThreshold, CloseLedger,
         vars, securityVars
<1> QED BY <1>1, <1>2 DEF WindowStart, SaturatingSub

(* A ledger of the window has the same weights after a step as before. *)
LEMMA PastStep ==
  ASSUME Inv, [Next]_vars, NEW r \in 0..(ledger - 1), r >= WindowStart'
  PROVE  /\ \A k \in Keys : GetSignerWeightAt(k, r)' = GetSignerWeightAt(k, r)
         /\ GetTotalWeightAt(r)' = GetTotalWeightAt(r)
<1>1. /\ r \in Nat /\ r < ledger
      /\ r \in WindowStart..ledger /\ r \in WindowStart'..ledger'
  BY LedgerGrows
<1>2. Inv'
  BY InvNext
<1>3. WindowFaithful /\ WindowFaithful'
  BY <1>2, InvImplies, PTL
<1>4. /\ \A k \in Keys : GetSignerWeightAt(k, r) = LookupAt(weightLog[k], r)
      /\ GetTotalWeightAt(r) = LookupAt(totalLog, r)
  BY <1>1, <1>3 DEF WindowFaithful
<1>5. /\ \A k \in Keys : GetSignerWeightAt(k, r)' = LookupAt(weightLog'[k], r)
      /\ GetTotalWeightAt(r)' = LookupAt(totalLog', r)
  BY <1>1, <1>3 DEF WindowFaithful
<1> QED BY <1>1, <1>4, <1>5, LogsPast

(* Once a ledger is over, what the Security contract answers about it stays*)
(* the same for as long as it is in the window, whatever the administrator *)
(* calls (add_signer, remove_signer and their same-ledger coalescing).     *)
THEOREM PastIsFixed == Spec => PastWeightsFixed
<1>1. Spec => []Inv
  BY InvInit, InvNext, PTL DEF Spec
<1>2. Inv /\ [Next]_vars =>
        [\A r \in 0..(ledger - 1) : r >= WindowStart' =>
           /\ \A k \in Keys : GetSignerWeightAt(k, r)' = GetSignerWeightAt(k, r)
           /\ GetTotalWeightAt(r)' = GetTotalWeightAt(r)]_vars
  BY PastStep
<1> QED BY <1>1, <1>2, PTL DEF Spec, PastWeightsFixed

-----------------------------------------------------------------------------
(* The list of signers. *)

Ascending(list) == \A i, j \in 1..Len(list) : i < j => list[i] < list[j]

Listed(list, k) == \E i \in 1..Len(list) : list[i] = k

LEMMA ConcatFacts ==
  ASSUME NEW s \in Seq(Keys), NEW t \in Seq(Keys)
  PROVE  /\ s \o t \in Seq(Keys)
         /\ Len(s \o t) = Len(s) + Len(t)
         /\ \A i \in 1..Len(s) : (s \o t)[i] = s[i]
         /\ \A i \in 1..Len(t) : (s \o t)[Len(s) + i] = t[i]
OBVIOUS

(* A key put before position n. *)
LEMMA InsertedAt ==
  ASSUME NEW list \in Seq(Keys), NEW key \in Keys, NEW n \in 1..(Len(list) + 1)
  PROVE  LET s == SubSeq(list, 1, n - 1) \o <<key>> \o SubSeq(list, n, Len(list))
         IN  /\ s \in Seq(Keys) /\ Len(s) = Len(list) + 1
             /\ \A i \in 1..(n - 1) : s[i] = list[i]
             /\ s[n] = key
             /\ \A i \in (n + 1)..Len(s) : s[i] = list[i - 1]
<1> DEFINE a == SubSeq(list, 1, n - 1)
           b == SubSeq(list, n, Len(list))
           k == <<key>>
<1>1. n \in Nat /\ n >= 1 /\ Len(list) \in Nat /\ n <= Len(list) + 1
  OBVIOUS
<1>2. a \in Seq(Keys) /\ Len(a) = n - 1 /\ \A i \in 1..(n - 1) : a[i] = list[i]
  BY <1>1
<1>3. /\ b \in Seq(Keys) /\ Len(b) = Len(list) - n + 1
      /\ \A i \in 1..(Len(list) - n + 1) : b[i] = list[n + i - 1]
  BY <1>1
<1>4. k \in Seq(Keys) /\ Len(k) = 1 /\ k[1] = key
  OBVIOUS
<1> HIDE DEF a, b, k
<1> DEFINE ak == a \o k
<1>5. /\ ak \in Seq(Keys) /\ Len(ak) = Len(a) + Len(k)
      /\ \A i \in 1..Len(a) : ak[i] = a[i]
      /\ \A i \in 1..Len(k) : ak[Len(a) + i] = k[i]
  BY <1>2, <1>4, ConcatFacts, Zenon
<1> HIDE DEF ak
<1> DEFINE s == ak \o b
<1>6. /\ s \in Seq(Keys) /\ Len(s) = Len(ak) + Len(b)
      /\ \A i \in 1..Len(ak) : s[i] = ak[i]
      /\ \A i \in 1..Len(b) : s[Len(ak) + i] = b[i]
  BY <1>3, <1>5, ConcatFacts, Zenon
<1> HIDE DEF s
<1>7. Len(ak) = n /\ Len(s) = Len(list) + 1
  <2>1. /\ Len(a) = n - 1 /\ Len(k) = 1 /\ Len(b) = Len(list) - n + 1
        /\ Len(ak) = Len(a) + Len(k) /\ Len(s) = Len(ak) + Len(b)
    BY <1>2, <1>3, <1>4, <1>5, <1>6, Zenon
  <2> QED BY <1>1, <2>1
<1>8. \A i \in 1..(n - 1) : s[i] = list[i]
  BY <1>1, <1>2, <1>5, <1>6, <1>7
<1>9. s[n] = key
  <2>1. 1 \in 1..Len(k) /\ Len(a) + 1 = n /\ n \in 1..Len(ak)
    BY <1>1, <1>2, <1>4, <1>7
  <2> QED BY <1>4, <1>5, <1>6, <2>1
<1>10. ASSUME NEW i \in (n + 1)..Len(s) PROVE s[i] = list[i - 1]
  <2>1. i - n \in 1..Len(b) /\ n + (i - n) = i /\ n + (i - n) - 1 = i - 1
    BY <1>1, <1>3, <1>7
  <2> QED BY <1>3, <1>6, <1>7, <2>1
<1> QED BY <1>6, <1>7, <1>8, <1>9, <1>10, Zenon DEF s, ak, a, b, k

(* The key at position n taken out. *)
LEMMA RemovedAt ==
  ASSUME NEW list \in Seq(Keys), NEW n \in 1..Len(list)
  PROVE  LET s == SubSeq(list, 1, n - 1) \o SubSeq(list, n + 1, Len(list))
         IN  /\ s \in Seq(Keys) /\ Len(s) = Len(list) - 1
             /\ \A i \in 1..(n - 1) : s[i] = list[i]
             /\ \A i \in n..Len(s) : s[i] = list[i + 1]
<1> DEFINE a == SubSeq(list, 1, n - 1)
           b == SubSeq(list, n + 1, Len(list))
<1>1. n \in Nat /\ n >= 1 /\ Len(list) \in Nat /\ n <= Len(list)
  OBVIOUS
<1>2. a \in Seq(Keys) /\ Len(a) = n - 1 /\ \A i \in 1..(n - 1) : a[i] = list[i]
  BY <1>1
<1>3. /\ b \in Seq(Keys) /\ Len(b) = Len(list) - n
      /\ \A i \in 1..(Len(list) - n) : b[i] = list[n + i]
  BY <1>1
<1> HIDE DEF a, b
<1> DEFINE s == a \o b
<1>4. /\ s \in Seq(Keys) /\ Len(s) = Len(a) + Len(b)
      /\ \A i \in 1..Len(a) : s[i] = a[i]
      /\ \A i \in 1..Len(b) : s[Len(a) + i] = b[i]
  BY <1>2, <1>3, ConcatFacts, Zenon
<1> HIDE DEF s
<1>5. Len(s) = Len(list) - 1
  <2>1. Len(a) = n - 1 /\ Len(b) = Len(list) - n /\ Len(s) = Len(a) + Len(b)
    BY <1>2, <1>3, <1>4, Zenon
  <2> QED BY <1>1, <2>1
<1>6. \A i \in 1..(n - 1) : s[i] = list[i]
  BY <1>1, <1>2, <1>4
<1>7. ASSUME NEW i \in n..Len(s) PROVE s[i] = list[i + 1]
  <2>1. i - n + 1 \in 1..Len(b) /\ Len(a) + (i - n + 1) = i /\ n + (i - n + 1) = i + 1
    BY <1>1, <1>2, <1>3, <1>5
  <2>2. s[i] = b[i - n + 1]
    BY <1>4, <2>1
  <2>3. b[i - n + 1] = list[n + (i - n + 1)]
    BY <1>1, <1>3, <2>1
  <2> QED BY <2>1, <2>2, <2>3
<1> QED BY <1>4, <1>5, <1>6, <1>7, Zenon DEF s, a, b

(* In an ascending list the scan finds every key that is there. *)
LEMMA ScanFinds ==
  ASSUME NEW list \in Seq(Keys), Ascending(list), NEW key \in Keys
  PROVE  FoundAt(list, ScanStop(list, key), key) <=> Listed(list, key)
<1> DEFINE n == ScanStop(list, key)
<1>1. /\ n \in 1..(Len(list) + 1) /\ \A i \in 1..(n - 1) : list[i] < key
      /\ n <= Len(list) => list[n] >= key
      /\ Len(list) \in Nat /\ key \in Nat /\ \A i \in 1..Len(list) : list[i] \in Keys
  BY ScanStopFacts, BoundsAssumption DEF Keys
<1>2. \A i \in 1..Len(list) : list[i] \in Nat
  BY <1>1, BoundsAssumption DEF Keys
<1> HIDE DEF n
<1>3. ASSUME NEW i \in 1..Len(list), list[i] = key
      PROVE  n <= Len(list) /\ list[n] = key
  <2>1. n <= i
    BY <1>1, <1>2, <1>3
  <2>2. n \in 1..Len(list) /\ (n < i => list[n] < list[i])
    BY <1>1, <1>3, <2>1 DEF Ascending
  <2> QED BY <1>1, <1>2, <1>3, <2>1, <2>2
<1>4. n <= Len(list) => n \in 1..Len(list)
  BY <1>1
<1> QED BY <1>3, <1>4 DEF FoundAt, Listed, n

LEMMA InsertSorted ==
  ASSUME NEW list \in Seq(Keys), Ascending(list), NEW key \in Keys
  PROVE  /\ InsertAllSigners(list, key) \in Seq(Keys)
         /\ Ascending(InsertAllSigners(list, key))
         /\ \A k \in Keys : Listed(InsertAllSigners(list, key), k) <=> Listed(list, k) \/ k = key
<1> DEFINE n == ScanStop(list, key)
           s == InsertAllSigners(list, key)
<1>1. /\ n \in 1..(Len(list) + 1) /\ \A i \in 1..(n - 1) : list[i] < key
      /\ n <= Len(list) => list[n] >= key
  BY ScanStopFacts
<1>2. CASE FoundAt(list, n, key)
  <2>1. s = list /\ Listed(list, key)
    BY <1>2, ScanFinds DEF InsertAllSigners
  <2> QED BY <2>1
<1>3. CASE ~FoundAt(list, n, key)
  <2>1. s = SubSeq(list, 1, n - 1) \o <<key>> \o SubSeq(list, n, Len(list))
    BY <1>3 DEF InsertAllSigners
  <2>2. n <= Len(list) => list[n] # key
    BY <1>3 DEF FoundAt
  <2> HIDE DEF n
  <2> DEFINE t == SubSeq(list, 1, n - 1) \o <<key>> \o SubSeq(list, n, Len(list))
  <2>10. /\ t \in Seq(Keys) /\ Len(t) = Len(list) + 1
         /\ \A i \in 1..(n - 1) : t[i] = list[i]
         /\ t[n] = key
         /\ \A i \in (n + 1)..Len(t) : t[i] = list[i - 1]
    BY <1>1, InsertedAt, Zenon
  <2> HIDE DEF t, s
  <2>11. s = t
    BY <2>1, Zenon DEF t
  <2>3. /\ s \in Seq(Keys) /\ Len(s) = Len(list) + 1
        /\ \A i \in 1..(n - 1) : s[i] = list[i]
        /\ s[n] = key
        /\ \A i \in (n + 1)..Len(s) : s[i] = list[i - 1]
    BY <2>10, <2>11
  <2>4. /\ key \in Nat /\ Len(list) \in Nat /\ n \in Nat /\ n >= 1 /\ n <= Len(list) + 1
        /\ \A i \in 1..Len(list) : list[i] \in Nat
    <3>1. \A i \in 1..Len(list) : list[i] \in Keys
      OBVIOUS
    <3> QED BY <1>1, <3>1, BoundsAssumption DEF Keys
  <2>5. \A i \in n..Len(list) : list[i] > key
    <3>1. ASSUME NEW i \in n..Len(list) PROVE list[i] > key
      <4>1. /\ n \in 1..Len(list) /\ i \in 1..Len(list) /\ list[n] > key
        BY <1>1, <2>2, <2>4, <3>1
      <4>2. n < i => list[n] < list[i]
        BY <4>1 DEF Ascending
      <4> QED BY <2>4, <3>1, <4>1, <4>2
    <3> QED BY <3>1
  <2>6. Ascending(s)
    <3>1. ASSUME NEW i \in 1..Len(s), NEW j \in 1..Len(s), i < j PROVE s[i] < s[j]
      <4>1. CASE j < n
        <5>1. s[i] = list[i] /\ s[j] = list[j] /\ i \in 1..Len(list) /\ j \in 1..Len(list)
          BY <2>3, <2>4, <3>1, <4>1
        <5> QED BY <3>1, <5>1 DEF Ascending
      <4>2. CASE j = n
        <5>1. i \in 1..(n - 1)
          BY <2>3, <2>4, <3>1, <4>2
        <5>2. s[i] = list[i] /\ s[j] = key
          BY <2>3, <4>2, <5>1
        <5> QED BY <1>1, <5>1, <5>2
      <4>3. CASE j > n
        <5>1. s[j] = list[j - 1] /\ j - 1 \in n..Len(list) /\ j - 1 \in 1..Len(list)
          BY <2>3, <2>4, <3>1, <4>3
        <5>2. CASE i < n
          <6>1. s[i] = list[i] /\ i \in 1..Len(list) /\ i < j - 1
            BY <2>3, <2>4, <3>1, <4>3, <5>2
          <6> QED BY <5>1, <6>1 DEF Ascending
        <5>3. CASE i = n
          BY <2>3, <2>4, <2>5, <5>1, <5>3
        <5>4. CASE i > n
          <6>1. s[i] = list[i - 1] /\ i - 1 \in 1..Len(list) /\ i - 1 < j - 1
            BY <2>3, <2>4, <3>1, <5>4
          <6> QED BY <5>1, <6>1 DEF Ascending
        <5> QED BY <2>4, <3>1, <5>2, <5>3, <5>4
      <4> QED BY <2>4, <3>1, <4>1, <4>2, <4>3
    <3> QED BY <3>1 DEF Ascending
  <2>7. ASSUME NEW k \in Keys, Listed(s, k) PROVE Listed(list, k) \/ k = key
    <3>1. PICK i \in 1..Len(s) : s[i] = k
      BY <2>7 DEF Listed
    <3>2. CASE i < n
      <4>1. i \in 1..Len(list) /\ list[i] = k
        BY <2>3, <2>4, <3>1, <3>2
      <4> QED BY <4>1 DEF Listed
    <3>3. CASE i > n
      <4>1. i - 1 \in 1..Len(list) /\ list[i - 1] = k
        BY <2>3, <2>4, <3>1, <3>3
      <4> QED BY <4>1 DEF Listed
    <3> QED BY <2>3, <2>4, <3>1, <3>2, <3>3
  <2>8. ASSUME NEW k \in Keys, Listed(list, k) \/ k = key PROVE Listed(s, k)
    <3>1. CASE k = key
      <4>1. n \in 1..Len(s) /\ s[n] = k
        BY <2>3, <2>4, <3>1
      <4> QED BY <4>1 DEF Listed
    <3>2. CASE Listed(list, k)
      <4>1. PICK i \in 1..Len(list) : list[i] = k
        BY <3>2 DEF Listed
      <4>2. CASE i < n
        <5>1. i \in 1..Len(s) /\ s[i] = k
          BY <2>3, <2>4, <4>1, <4>2
        <5> QED BY <5>1 DEF Listed
      <4>3. CASE i >= n
        <5>1. i + 1 \in (n + 1)..Len(s) /\ i + 1 \in 1..Len(s) /\ (i + 1) - 1 = i
          BY <2>3, <2>4, <4>3
        <5>2. s[i + 1] = k
          BY <2>3, <4>1, <5>1
        <5> QED BY <5>1, <5>2 DEF Listed
      <4> QED BY <2>4, <4>2, <4>3
    <3> QED BY <2>8, <3>1, <3>2
  <2>9. s \in Seq(Keys) /\ \A k \in Keys : Listed(s, k) <=> Listed(list, k) \/ k = key
    BY <2>3, <2>7, <2>8
  <2> QED BY <2>6, <2>9 DEF s
<1> QED BY <1>2, <1>3

LEMMA RemoveSorted ==
  ASSUME NEW list \in Seq(Keys), Ascending(list), NEW key \in Keys
  PROVE  /\ Ascending(RemoveAllSigners(list, key))
         /\ \A k \in Keys : Listed(RemoveAllSigners(list, key), k) <=> Listed(list, k) /\ k # key
<1> DEFINE n == ScanStop(list, key)
           s == RemoveAllSigners(list, key)
<1>1. n \in 1..(Len(list) + 1)
  BY ScanStopFacts
<1>2. CASE ~FoundAt(list, n, key)
  <2>1. s = list /\ ~Listed(list, key)
    BY <1>2, ScanFinds DEF RemoveAllSigners
  <2> HIDE DEF s
  <2>2. Ascending(s) /\ \A k \in Keys : Listed(s, k) <=> Listed(list, k) /\ k # key
    BY <2>1
  <2> QED BY <2>2 DEF s
<1>3. CASE FoundAt(list, n, key)
  <2>1. s = SubSeq(list, 1, n - 1) \o SubSeq(list, n + 1, Len(list))
    BY <1>3, Zenon DEF RemoveAllSigners
  <2>2. n \in 1..Len(list) /\ list[n] = key
    BY <1>1, <1>3 DEF FoundAt
  <2> HIDE DEF n
  <2> DEFINE t == SubSeq(list, 1, n - 1) \o SubSeq(list, n + 1, Len(list))
  <2>3. /\ t \in Seq(Keys) /\ Len(t) = Len(list) - 1
        /\ \A i \in 1..(n - 1) : t[i] = list[i]
        /\ \A i \in n..Len(t) : t[i] = list[i + 1]
    BY <2>2, RemovedAt, Zenon
  <2> HIDE DEF t, s
  <2>4. s = t
    BY <2>1, Zenon DEF t
  <2>5. /\ s \in Seq(Keys) /\ Len(s) = Len(list) - 1
        /\ \A i \in 1..(n - 1) : s[i] = list[i]
        /\ \A i \in n..Len(s) : s[i] = list[i + 1]
    BY <2>3, <2>4
  <2>6. /\ key \in Nat /\ Len(list) \in Nat /\ n \in Nat /\ n >= 1 /\ n <= Len(list)
        /\ \A i \in 1..Len(list) : list[i] \in Nat
    <3>1. \A i \in 1..Len(list) : list[i] \in Keys
      OBVIOUS
    <3> QED BY <2>2, <3>1, BoundsAssumption DEF Keys
  <2> DEFINE old(i) == IF i < n THEN i ELSE i + 1
  <2>7. ASSUME NEW i \in 1..Len(s)
        PROVE  old(i) \in 1..Len(list) /\ old(i) # n /\ s[i] = list[old(i)]
    BY <2>5, <2>6
  <2>8. Ascending(s)
    <3>1. ASSUME NEW i \in 1..Len(s), NEW j \in 1..Len(s), i < j PROVE s[i] < s[j]
      <4>1. old(i) < old(j)
        BY <2>6, <3>1
      <4> QED BY <2>7, <4>1 DEF Ascending
    <3> QED BY <3>1 DEF Ascending
  <2>9. ASSUME NEW k \in Keys, Listed(s, k) PROVE Listed(list, k) /\ k # key
    <3>1. PICK i \in 1..Len(s) : s[i] = k
      BY <2>9 DEF Listed
    <3>2. old(i) \in 1..Len(list) /\ old(i) # n /\ list[old(i)] = k
      BY <2>7, <3>1
    <3> HIDE DEF old
    <3>3. list[old(i)] # list[n]
      <4>1. old(i) \in Nat /\ (old(i) < n \/ n < old(i))
        BY <2>6, <3>2
      <4>2. list[old(i)] < list[n] \/ list[n] < list[old(i)]
        BY <2>2, <3>2, <4>1 DEF Ascending
      <4> QED BY <2>2, <2>6, <3>2, <4>2
    <3> QED BY <2>2, <3>2, <3>3 DEF Listed
  <2>10. ASSUME NEW k \in Keys, Listed(list, k), k # key PROVE Listed(s, k)
    <3>1. PICK i \in 1..Len(list) : list[i] = k
      BY <2>10 DEF Listed
    <3>2. i # n
      BY <2>2, <2>10, <3>1
    <3>3. CASE i < n
      <4>1. i \in 1..Len(s) /\ s[i] = k
        BY <2>5, <2>6, <3>1, <3>3
      <4> QED BY <4>1 DEF Listed
    <3>4. CASE i > n
      <4>1. i - 1 \in n..Len(s) /\ i - 1 \in 1..Len(s) /\ (i - 1) + 1 = i
        BY <2>5, <2>6, <3>4
      <4>2. s[i - 1] = k
        BY <2>5, <3>1, <4>1
      <4> QED BY <4>1, <4>2 DEF Listed
    <3> QED BY <2>6, <3>2, <3>3, <3>4
  <2> QED BY <2>8, <2>9, <2>10 DEF s
<1> QED BY <1>2, <1>3

-----------------------------------------------------------------------------
(* RegistryConsistent over positions, as the lemmas above speak. *)
RegistryInv ==
  /\ Ascending(allSigners)
  /\ \A k \in Keys : Registered(k) <=> Listed(allSigners, k)

LEMMA RegistryForms ==
  ASSUME allSigners \in Seq(Keys)
  PROVE  RegistryInv <=> RegistryConsistent
<1>1. DOMAIN allSigners = 1..Len(allSigners)
  OBVIOUS
<1> QED BY <1>1, Zenon DEF RegistryInv, RegistryConsistent, Ascending, Listed

(* A pushed value is the latest. *)
LEMMA LatestPushed ==
  ASSUME NEW h, NEW log, NEW l \in Nat, NEW v \in Nat, NEW cutoff \in Nat,
         Timeline(h, log, l, cutoff)
  PROVE  Latest(Push(h, l, v, cutoff)) = v
<1>1. Timeline(Push(h, l, v, cutoff), Put(log, l, v), l, cutoff)
  BY TimelinePush
<1>2. Latest(Push(h, l, v, cutoff)) = Latest(Put(log, l, v))
  BY <1>1, TimelineLatest
<1>3. /\ Put(log, l, v) # <<>>
      /\ Put(log, l, v)[Len(Put(log, l, v))] = Entry(l, v)
  BY PutFacts DEF Timeline
<1> QED BY <1>2, <1>3, EntryType DEF Latest

(* After a push the key is registered if its weight is not 0, and the      *)
(* other keys are as before.                                               *)
LEMMA PushRegisters ==
  ASSUME Inv, NEW key \in Keys, NEW weight \in Nat, NEW total,
         PushWeights(key, weight, total)
  PROVE  /\ Registered(key)' <=> weight # 0
         /\ \A k \in Keys \ {key} : Registered(k)' <=> Registered(k)
<1>1. /\ ledger \in Nat /\ HistoryCutoff \in Nat
      /\ weightHist \in [Keys -> Seq(Entries)]
      /\ Timeline(weightHist[key], weightLog[key], ledger, HistoryCutoff)
  BY BoundsAssumption DEF Inv, TypeOK, HistoriesInv
<1>2. weightHist' = [weightHist EXCEPT ![key] = Push(@, ledger, weight, HistoryCutoff)]
  BY DEF PushWeights
<1>3. weightHist'[key] = Push(weightHist[key], ledger, weight, HistoryCutoff)
  BY <1>1, <1>2
<1>4. Latest(weightHist'[key]) = weight
  BY <1>1, <1>3, LatestPushed
<1>5. \A k \in Keys \ {key} : weightHist'[k] = weightHist[k]
  BY <1>1, <1>2
<1> QED BY <1>4, <1>5 DEF Registered, GetSignerWeight

LEMMA RegistryAdd ==
  ASSUME Inv, RegistryInv, NEW caller, NEW key \in Keys, NEW weight \in Weights,
         AddSigner(caller, key, weight)
  PROVE  RegistryInv'
<1> DEFINE total == GetTotalWeight - GetSignerWeight(key) + weight
<1>1. /\ weight \in Nat /\ weight # 0 /\ allSigners \in Seq(Keys)
      /\ allSigners' = IF Registered(key) THEN allSigners ELSE InsertAllSigners(allSigners, key)
      /\ PushWeights(key, weight, total)
  BY WeightsAssumption DEF AddSigner, StoreSigner, Inv, TypeOK
<1> HIDE DEF total
<1>2. /\ Registered(key)' /\ \A k \in Keys \ {key} : Registered(k)' <=> Registered(k)
  BY <1>1, PushRegisters
<1>3. Ascending(allSigners')
  BY <1>1, InsertSorted DEF RegistryInv
<1>4. \A k \in Keys : Listed(allSigners', k) <=> Listed(allSigners, k) \/ k = key
  BY <1>1, InsertSorted DEF RegistryInv
<1>5. \A k \in Keys : Registered(k)' <=> Listed(allSigners', k)
  BY <1>2, <1>4 DEF RegistryInv
<1> QED BY <1>3, <1>5 DEF RegistryInv, Ascending, Listed

LEMMA RegistryRemove ==
  ASSUME Inv, RegistryInv, NEW caller, NEW key \in Keys, RemoveSigner(caller, key)
  PROVE  RegistryInv'
<1>1. CASE DropSigner(key)
  <2> DEFINE total == GetTotalWeight - GetSignerWeight(key)
  <2>1. /\ allSigners \in Seq(Keys) /\ allSigners' = RemoveAllSigners(allSigners, key)
        /\ PushWeights(key, 0, total)
    BY <1>1 DEF DropSigner, Inv, TypeOK
  <2> HIDE DEF total
  <2>2. /\ ~Registered(key)' /\ \A k \in Keys \ {key} : Registered(k)' <=> Registered(k)
    BY <2>1, PushRegisters
  <2>3. /\ Ascending(allSigners')
        /\ \A k \in Keys : Listed(allSigners', k) <=> Listed(allSigners, k) /\ k # key
    BY <2>1, RemoveSorted DEF RegistryInv
  <2>4. \A k \in Keys : Registered(k)' <=> Listed(allSigners', k)
    BY <2>2, <2>3 DEF RegistryInv
  <2> QED BY <2>3, <2>4 DEF RegistryInv, Ascending, Listed
<1>2. CASE UNCHANGED registryVars
  BY <1>2 DEF registryVars, RegistryInv, Registered, GetSignerWeight
<1> QED BY <1>1, <1>2 DEF RemoveSigner

LEMMA RegistryStep == Inv /\ RegistryInv /\ [Next]_vars => RegistryInv'
<1> SUFFICES ASSUME Inv, RegistryInv, [Next]_vars PROVE RegistryInv'
  OBVIOUS
<1>0. ASSUME UNCHANGED registryVars PROVE RegistryInv'
  BY <1>0 DEF registryVars, RegistryInv, Registered, GetSignerWeight
<1>1. ASSUME NEW caller \in Addresses, Invocation(caller) PROVE RegistryInv'
  <2>1. ASSUME NEW a \in ThresholdArgs, SetThreshold(caller, a[1], a[2]) PROVE RegistryInv'
    BY <1>0, <2>1 DEF SetThreshold
  <2> QED BY <1>1, <2>1, RegistryAdd, RegistryRemove DEF Invocation
<1>2. CASE UNCHANGED securityVars
  BY <1>0, <1>2 DEF securityVars
<1>3. CASE CloseLedger
  BY <1>0, <1>3 DEF CloseLedger
<1>4. CASE UNCHANGED vars
  BY <1>0, <1>4 DEF vars, securityVars
<1> QED BY <1>1, <1>2, <1>3, <1>4 DEF Next

LEMMA RegistryInit == Init => RegistryInv
<1> SUFFICES ASSUME Init PROVE RegistryInv
  OBVIOUS
<1>1. allSigners = <<>> /\ \A k \in Keys : Latest(weightHist[k]) = 0
  BY DEF Init, Latest, Default
<1> QED BY <1>1 DEF RegistryInv, Ascending, Listed, Registered, GetSignerWeight

(* The sorted list of signers (insert_all_signers, remove_all_signers) has *)
(* no duplicates and holds exactly the keys with a weight, for any keys.   *)
THEOREM RegistryIsConsistent == Spec => []RegistryConsistent
<1>1. Inv /\ RegistryInv => RegistryConsistent
  BY RegistryForms DEF Inv, TypeOK
<1> QED BY <1>1, InvInit, InvNext, RegistryInit, RegistryStep, PTL DEF Spec

-----------------------------------------------------------------------------
(* Totals.  The full timelines add up at every ledger, those to come       *)
(* included: there each timeline still says what it ends with.             *)
WeightsIn(logs, r) == [k \in Keys |-> LookupAt(logs[k], r)]

LogsAddUp ==
  \A r \in Nat : LookupAt(totalLog, r) = SumTo(WeightsIn(weightLog, r), NumKeys)

(* What the full timelines say from the open ledger on is what a query of  *)
(* the current weights answers.                                            *)
LEMMA LogsFromNow ==
  ASSUME Inv, NEW r \in Nat, ledger <= r
  PROVE  /\ \A k \in Keys : LookupAt(weightLog[k], r) = GetSignerWeight(k)
         /\ LookupAt(totalLog, r) = GetTotalWeight
<1>1. /\ ledger \in Nat /\ HistoryCutoff \in Nat
      /\ \A k \in Keys : Timeline(weightHist[k], weightLog[k], ledger, HistoryCutoff)
      /\ Timeline(totalHist, totalLog, ledger, HistoryCutoff)
  BY BoundsAssumption DEF Inv, TypeOK, HistoriesInv
<1>2. ASSUME NEW h, NEW log, Timeline(h, log, ledger, HistoryCutoff)
      PROVE  LookupAt(log, r) = Latest(h)
  <2>1. log \in Seq(Entries) /\ (log # <<>> => log[Len(log)].ledger <= ledger)
    BY <1>2 DEF Timeline
  <2>2. log # <<>> => log[Len(log)].ledger <= r
    <3> SUFFICES ASSUME log # <<>> PROVE log[Len(log)].ledger <= r
      OBVIOUS
    <3>1. Len(log) \in 1..Len(log)
      BY <2>1
    <3>2. log[Len(log)].ledger \in Nat
      BY <2>1, <3>1, EntryFacts
    <3> QED BY <1>1, <2>1, <3>2
  <2>3. LookupAt(log, r) = Latest(log)
    BY <2>1, <2>2, LookupIsLatest
  <2> QED BY <1>1, <1>2, <2>3, TimelineLatest
<1> QED BY <1>1, <1>2 DEF GetSignerWeight, GetTotalWeight

(* Every weight a full timeline gives is a natural. *)
LEMMA LogTypes ==
  ASSUME Inv, NEW r \in Nat
  PROVE  /\ \A k \in Keys : LookupAt(weightLog[k], r) \in Nat
         /\ LookupAt(totalLog, r) \in Nat
<1>1. /\ \A k \in Keys : weightLog[k] \in Seq(Entries) /\ Ordered(weightLog[k])
      /\ totalLog \in Seq(Entries) /\ Ordered(totalLog)
  BY DEF Inv, HistoriesInv, Timeline
<1> QED BY <1>1, LookupType

(* A push of a weight of `key`, with the total changed by as much. *)
LEMMA PushAddsUp ==
  ASSUME Inv, LogsAddUp, NEW key \in Keys, NEW weight \in Nat, NEW total \in Nat,
         PushWeights(key, weight, total), UNCHANGED ledger,
         total + GetSignerWeight(key) = GetTotalWeight + weight
  PROVE  LogsAddUp'
<1>1. /\ ledger \in Nat /\ weightLog \in [Keys -> Seq(Entries)] /\ NumKeys \in Nat
      /\ \A k \in Keys : Timeline(weightHist[k], weightLog[k], ledger, HistoryCutoff)
      /\ Timeline(totalHist, totalLog, ledger, HistoryCutoff)
  BY BoundsAssumption DEF Inv, TypeOK, HistoriesInv
<1>2. /\ weightLog' = [weightLog EXCEPT ![key] = Put(@, ledger, weight)]
      /\ totalLog' = Put(totalLog, ledger, total)
  BY DEF PushWeights
<1> SUFFICES ASSUME NEW r \in Nat
             PROVE  LookupAt(totalLog', r) = SumTo(WeightsIn(weightLog', r), NumKeys)
  BY DEF LogsAddUp
<1>3. LookupAt(totalLog, r) = SumTo(WeightsIn(weightLog, r), NumKeys)
  BY DEF LogsAddUp
<1>4. CASE r < ledger
  <2>1. /\ \A k \in Keys : LookupAt(weightLog'[k], r) = LookupAt(weightLog[k], r)
        /\ LookupAt(totalLog', r) = LookupAt(totalLog, r)
    BY <1>4, PushWeightsPast
  <2>2. WeightsIn(weightLog', r) = WeightsIn(weightLog, r)
    BY <2>1 DEF WeightsIn
  <2> QED BY <1>3, <2>1, <2>2
<1>5. CASE ledger <= r
  <2> DEFINE f == WeightsIn(weightLog, r)
             g == WeightsIn(weightLog', r)
  <2>1. LookupAt(totalLog', r) = total
    BY <1>1, <1>2, <1>5, PutNow DEF Timeline
  <2>2. g[key] = weight
    <3>1. weightLog'[key] = Put(weightLog[key], ledger, weight)
      BY <1>1, <1>2
    <3>2. LookupAt(weightLog'[key], r) = weight
      BY <1>1, <1>5, <3>1, PutNow DEF Timeline
    <3> QED BY <3>2 DEF WeightsIn
  <2>3. f[key] = GetSignerWeight(key) /\ SumTo(f, NumKeys) = GetTotalWeight
    BY <1>3, <1>5, LogsFromNow DEF WeightsIn
  <2>4. ASSUME NEW k \in 1..NumKeys
        PROVE  f[k] \in Nat /\ g[k] \in Nat /\ (k # key => f[k] = g[k])
    <3>1. k \in Keys /\ f[k] = LookupAt(weightLog[k], r) /\ g[k] = LookupAt(weightLog'[k], r)
      BY DEF Keys, WeightsIn
    <3>2. f[k] \in Nat
      BY <3>1, LogTypes
    <3>3. k # key => f[k] = g[k]
      BY <1>1, <1>2, <3>1
    <3>4. k = key => g[k] \in Nat
      BY <2>2
    <3> QED BY <3>2, <3>3, <3>4
  <2> HIDE DEF f, g
  <2>5. key \in 1..NumKeys
    BY DEF Keys
  <2>6. SumTo(g, NumKeys) + f[key] = SumTo(f, NumKeys) + g[key]
    BY <1>1, <2>4, <2>5, SumChange
  <2>7. SumTo(g, NumKeys) \in Nat
    BY <1>1, <2>4, SumNat
  <2>8. SumTo(g, NumKeys) = total
    BY <2>2, <2>3, <2>6, <2>7, LatestTypes
  <2> QED BY <2>1, <2>8 DEF g
<1> QED BY <1>1, <1>4, <1>5

LEMMA AddUpInit == Init => LogsAddUp
<1> SUFFICES ASSUME Init, NEW r \in Nat
             PROVE  LookupAt(totalLog, r) = SumTo(WeightsIn(weightLog, r), NumKeys)
  BY DEF LogsAddUp
<1>1. LookupAt(<<>>, r) = 0
  <2>1. <<>> \in Seq(Entries) /\ \A j \in 1..Len(<<>>) : <<>>[j].ledger > r
    OBVIOUS
  <2> QED BY <2>1, LookupIsDefault DEF Default
<1>2. \A k \in 1..NumKeys : WeightsIn(weightLog, r)[k] = 0
  BY <1>1 DEF Init, WeightsIn, Keys
<1>3. SumTo(WeightsIn(weightLog, r), NumKeys) = 0
  BY <1>2, SumZero, BoundsAssumption
<1> QED BY <1>1, <1>3 DEF Init

LEMMA AddUpStep == Inv /\ LogsAddUp /\ [Next]_vars => LogsAddUp'
<1> SUFFICES ASSUME Inv, LogsAddUp, [Next]_vars PROVE LogsAddUp'
  OBVIOUS
<1>1. ASSUME UNCHANGED <<weightLog, totalLog>> PROVE LogsAddUp'
  BY <1>1 DEF LogsAddUp
<1>2. ASSUME NEW caller, NEW key \in Keys, NEW weight \in Weights,
             AddSigner(caller, key, weight)
      PROVE  LogsAddUp'
  <2> DEFINE total == GetTotalWeight - GetSignerWeight(key) + weight
  <2>1. GetSignerWeight(key) <= GetTotalWeight /\ PushWeights(key, weight, total) /\ UNCHANGED ledger
    BY <1>2 DEF AddSigner, StoreSigner
  <2>2. /\ weight \in Nat /\ total \in Nat
        /\ total + GetSignerWeight(key) = GetTotalWeight + weight
    BY <2>1, LatestTypes, WeightsAssumption
  <2> HIDE DEF total
  <2> QED BY <2>1, <2>2, PushAddsUp
<1>3. ASSUME NEW caller, NEW key \in Keys, RemoveSigner(caller, key)
      PROVE  LogsAddUp'
  <2>1. CASE DropSigner(key)
    <3> DEFINE total == GetTotalWeight - GetSignerWeight(key)
    <3>1. GetSignerWeight(key) <= GetTotalWeight /\ PushWeights(key, 0, total) /\ UNCHANGED ledger
      BY <1>3, <2>1 DEF RemoveSigner, DropSigner
    <3>2. total \in Nat /\ total + GetSignerWeight(key) = GetTotalWeight + 0
      BY <3>1, LatestTypes
    <3> HIDE DEF total
    <3> QED BY <3>1, <3>2, PushAddsUp
  <2>2. CASE UNCHANGED registryVars
    BY <1>1, <2>2 DEF registryVars
  <2> QED BY <1>3, <2>1, <2>2 DEF RemoveSigner
<1>4. ASSUME NEW caller, NEW a, SetThreshold(caller, a[1], a[2]) PROVE LogsAddUp'
  BY <1>1, <1>4 DEF SetThreshold, registryVars
<1>5. CASE AdminNext /\ UNCHANGED securityVars
  BY <1>1, <1>5 DEF securityVars, registryVars
<1>6. CASE CloseLedger
  BY <1>1, <1>6 DEF CloseLedger, registryVars
<1>7. CASE UNCHANGED vars
  BY <1>1, <1>7 DEF vars, securityVars, registryVars
<1> QED BY <1>2, <1>3, <1>4, <1>5, <1>6, <1>7 DEF Next, Invocation

(* Inside the window the stored timelines say what the full ones say. *)
LEMMA AddUpImplies == Inv /\ LogsAddUp => TotalIsSum
<1> SUFFICES ASSUME Inv, LogsAddUp, NEW r \in WindowStart..ledger
             PROVE  GetTotalWeightAt(r) = SumTo([k \in Keys |-> GetSignerWeightAt(k, r)], NumKeys)
  BY DEF TotalIsSum
<1>1. r \in Nat
  BY BoundsAssumption DEF Inv, TypeOK, WindowStart, SaturatingSub
<1>2. /\ \A k \in Keys : GetSignerWeightAt(k, r) = LookupAt(weightLog[k], r)
      /\ GetTotalWeightAt(r) = LookupAt(totalLog, r)
  BY InvImplies DEF WindowFaithful
<1>3. [k \in Keys |-> GetSignerWeightAt(k, r)] = WeightsIn(weightLog, r)
  BY <1>2 DEF WeightsIn
<1> QED BY <1>1, <1>2, <1>3 DEF LogsAddUp

(* The total weight add_signer and remove_signer keep beside the signers'  *)
(* weights is their sum at every ledger of the window.                     *)
THEOREM TotalsAddUp == Spec => []TotalIsSum
<1>1. Spec => [](Inv /\ LogsAddUp)
  BY InvInit, InvNext, AddUpInit, AddUpStep, PTL DEF Spec
<1> QED BY <1>1, AddUpImplies, PTL

-----------------------------------------------------------------------------
(* The Handler *)
Records ==
  [event : Events, payload : Payloads, by : SUBSET Keys, ref : Nat, at : Nat,
   threshold : [num : Nat, den : Nat]]

(* Marks, payloads and the history of what was accepted agree. *)
Marks ==
  /\ \A n \in 1..Len(accepted) : /\ accepted[n].event \in seen
                                 /\ accepted[n].payload = payloads[accepted[n].event]
  /\ \A m, n \in 1..Len(accepted) : accepted[m].event = accepted[n].event => m = n
  /\ \A e \in seen : \E n \in 1..Len(accepted) : accepted[n].event = e
  /\ \A e \in Events \ seen : payloads[e] = NoPayload

HandlerInv ==
  /\ seen \subseteq Events
  /\ payloads \in [Events -> Payloads \cup {NoPayload}]
  /\ accepted \in Seq(Records)
  /\ Marks

LEMMA SubmissionFacts ==
  ASSUME NEW s \in Submissions
  PROVE  /\ s.envelope.event \in Events /\ s.envelope.payload \in Payloads
         /\ s.signers \in Seq(Keys) /\ s.ref \in Nat
BY SubmissionsAssumption DEF IsSubmission, EnvelopeType

LEMMA RecordType ==
  ASSUME Inv, NEW s \in Submissions
  PROVE  Record(s) \in Records
<1>1. ledger \in Nat /\ threshold \in [num : Nat, den : Nat]
  BY DEF Inv, TypeOK
<1>2. \A j \in DOMAIN s.signers : s.signers[j] \in Keys
  BY SubmissionFacts
<1>3. SignedBy(s) \subseteq Keys
  BY <1>2 DEF SignedBy
<1> QED BY <1>1, <1>3, SubmissionFacts DEF Record, Records

LEMMA Appended ==
  ASSUME NEW S, NEW q \in Seq(S), NEW x \in S
  PROVE  /\ Append(q, x) \in Seq(S) /\ Len(Append(q, x)) = Len(q) + 1
         /\ \A n \in 1..Len(q) : Append(q, x)[n] = q[n]
         /\ Append(q, x)[Len(q) + 1] = x
OBVIOUS

(* An accepted submission is of an event that was not seen. *)
LEMMA AcceptedIsNew ==
  ASSUME NEW s, Outcome(s) = "Ok"
  PROVE  s.envelope.event \notin seen
BY DEF Outcome

LEMMA VerifyEnvelopeStep ==
  ASSUME Inv, HandlerInv, NEW s \in Submissions, VerifyEnvelope(s)
  PROVE  HandlerInv'
<1> DEFINE e == s.envelope.event
           p == s.envelope.payload
           r == Record(s)
           l == Len(accepted)
<1>1. /\ e \in Events /\ p \in Payloads /\ r \in Records /\ l \in Nat
      /\ r.event = e /\ r.payload = p
  BY SubmissionFacts, RecordType DEF Record, HandlerInv
<1>2. e \notin seen
  BY AcceptedIsNew DEF VerifyEnvelope
<1>3. /\ seen' = seen \cup {e}
      /\ payloads' = [payloads EXCEPT ![e] = p]
      /\ accepted' = Append(accepted, r)
  BY DEF VerifyEnvelope, MarkEventSeen, SavePayload
<1> HIDE DEF e, p, r
<1>4. accepted \in Seq(Records)
  BY DEF HandlerInv
<1>5. /\ accepted' \in Seq(Records) /\ Len(accepted') = l + 1
      /\ \A n \in 1..l : accepted'[n] = accepted[n]
      /\ accepted'[l + 1] = r
  BY <1>1, <1>3, <1>4, Appended
<1>6. /\ seen' \subseteq Events /\ payloads' \in [Events -> Payloads \cup {NoPayload}]
      /\ payloads'[e] = p
      /\ \A f \in Events : f # e => payloads'[f] = payloads[f]
  BY <1>1, <1>3 DEF HandlerInv
<1>7. \A n \in 1..l : /\ accepted[n].event \in seen /\ accepted[n].event # e
                      /\ accepted[n].event \in Events
                      /\ accepted[n].payload = payloads[accepted[n].event]
  BY <1>2 DEF HandlerInv, Marks
<1>8. \A n \in 1..(l + 1) : n \in 1..l \/ n = l + 1
  BY <1>1
<1> HIDE DEF l
<1>9. ASSUME NEW n \in 1..(l + 1)
      PROVE  /\ accepted'[n].event \in seen'
             /\ accepted'[n].payload = payloads'[accepted'[n].event]
  <2>1. CASE n \in 1..l
    BY <1>3, <1>5, <1>6, <1>7, <2>1
  <2>2. CASE n = l + 1
    BY <1>1, <1>3, <1>5, <1>6, <2>2
  <2> QED BY <1>8, <2>1, <2>2
<1>10. ASSUME NEW m \in 1..(l + 1), NEW n \in 1..(l + 1),
              accepted'[m].event = accepted'[n].event
       PROVE  m = n
  <2>1. CASE m \in 1..l /\ n \in 1..l
    BY <1>5, <1>10, <2>1 DEF HandlerInv, Marks, l
  <2>2. CASE m = l + 1 /\ n \in 1..l
    BY <1>1, <1>5, <1>7, <1>10, <2>2
  <2>3. CASE m \in 1..l /\ n = l + 1
    BY <1>1, <1>5, <1>7, <1>10, <2>3
  <2> QED BY <1>8, <2>1, <2>2, <2>3
<1>11. ASSUME NEW f \in seen' PROVE \E n \in 1..(l + 1) : accepted'[n].event = f
  <2>1. CASE f = e
    <3>1. l + 1 \in 1..(l + 1)
      BY <1>1
    <3> QED BY <1>1, <1>5, <2>1, <3>1
  <2>2. CASE f \in seen
    <3>1. PICK n \in 1..l : accepted[n].event = f
      BY <2>2 DEF HandlerInv, Marks, l
    <3>2. n \in 1..(l + 1)
      BY <1>1
    <3> QED BY <1>5, <3>1, <3>2
  <2> QED BY <1>3, <2>1, <2>2
<1>12. \A f \in Events \ seen' : payloads'[f] = NoPayload
  BY <1>3, <1>6 DEF HandlerInv, Marks
<1>13. Marks'
  BY <1>5, <1>9, <1>10, <1>11, <1>12 DEF Marks
<1> QED BY <1>5, <1>6, <1>13 DEF HandlerInv

-----------------------------------------------------------------------------
LEMMA HandlerInvInit == HandlerInit => Inv /\ HandlerInv
<1> SUFFICES ASSUME HandlerInit PROVE Inv /\ HandlerInv
  OBVIOUS
<1>1. seen = {} /\ payloads = [e \in Events |-> NoPayload] /\ accepted = <<>>
  BY DEF HandlerInit
<1>2. HandlerInv
  BY <1>1 DEF HandlerInv, Marks
<1> QED BY <1>2, InvInit DEF HandlerInit

LEMMA HandlerInvNext == Inv /\ HandlerInv /\ [HandlerNext]_allVars => (Inv /\ HandlerInv)'
<1> SUFFICES ASSUME Inv, HandlerInv, [HandlerNext]_allVars PROVE Inv' /\ HandlerInv'
  OBVIOUS
<1>1. [Next]_vars
  BY DEF HandlerNext, VerifyEnvelope, allVars
<1>2. ASSUME UNCHANGED handlerVars PROVE HandlerInv'
  BY <1>2 DEF handlerVars, HandlerInv, Marks
<1>3. ASSUME NEW s \in Submissions, VerifyEnvelope(s) PROVE HandlerInv'
  BY <1>3, VerifyEnvelopeStep
<1>4. Inv'
  BY <1>1, InvNext
<1>5. UNCHANGED handlerVars \/ \E s \in Submissions : VerifyEnvelope(s)
  BY Zenon DEF HandlerNext, allVars
<1>6. HandlerInv'
  BY <1>2, <1>3, <1>5
<1> QED BY <1>4, <1>6

LEMMA HandlerInvImplies == HandlerInv => AtMostOnce /\ SeenIffStored
<1> SUFFICES ASSUME HandlerInv PROVE AtMostOnce /\ SeenIffStored
  OBVIOUS
<1>1. DOMAIN accepted = 1..Len(accepted)
  BY DEF HandlerInv
<1>2. \A n \in 1..Len(accepted) : accepted[n].event \in Events /\ accepted[n].payload \in Payloads
  <2>1. \A n \in 1..Len(accepted) : accepted[n] \in Records
    BY DEF HandlerInv
  <2> QED BY <2>1 DEF Records
<1>3. AtMostOnce
  BY <1>1, Zenon DEF AtMostOnce, HandlerInv, Marks
<1>4. ASSUME NEW e \in Events
      PROVE  /\ e \in seen <=> payloads[e] # NoPayload
             /\ e \in seen <=> \E n \in 1..Len(accepted) :
                                 accepted[n].event = e /\ accepted[n].payload = payloads[e]
  <2>1. CASE e \in seen
    <3>1. PICK n \in 1..Len(accepted) : accepted[n].event = e
      BY <2>1 DEF HandlerInv, Marks
    <3>2. accepted[n].payload = payloads[e] /\ accepted[n].payload \in Payloads
      BY <1>2, <3>1 DEF HandlerInv, Marks
    <3>3. payloads[e] # NoPayload
      BY <3>2, NoPayloadAssumption
    <3> QED BY <2>1, <3>1, <3>2, <3>3
  <2>2. CASE e \notin seen
    BY <2>2 DEF HandlerInv, Marks
  <2> QED BY <2>1, <2>2
<1>5. SeenIffStored
  BY <1>1, <1>4, Zenon DEF SeenIffStored
<1> QED BY <1>3, <1>5

(* verify_xlm / verify_eth accepts an event at most once, for any          *)
(* submissions, contracts and window (is_event_seen, mark_event_seen).     *)
THEOREM EventsAreAcceptedOnce == HandlerSpec => []AtMostOnce
BY HandlerInvInit, HandlerInvNext, HandlerInvImplies, PTL DEF HandlerSpec

(* The mark and the payload of an event are stored together, and are those *)
(* of what was accepted: the two writes of verify_xlm never come apart.    *)
THEOREM MarkAndPayloadAgree == HandlerSpec => []SeenIffStored
BY HandlerInvInit, HandlerInvNext, HandlerInvImplies, PTL DEF HandlerSpec

-----------------------------------------------------------------------------
(* A reference block the handler takes is in the window of the histories.  *)
LEMMA ValidIsInWindow ==
  ASSUME Inv, NEW r \in Nat, ValidReferenceBlock(r)
  PROVE  r < ledger /\ r \in WindowStart..ledger
<1>1. /\ ledger \in Nat /\ HistoryCutoff \in Nat /\ MaxReferenceBlockAge \in Nat
      /\ MaxReferenceBlockAge <= HistoryCutoff
  BY BoundsAssumption, WindowAssumption DEF Inv, TypeOK
<1> QED BY <1>1 DEF ValidReferenceBlock, WindowStart, SaturatingSub

(* There the answers of the Security contract are the true ones. *)
LEMMA WindowAnswers ==
  ASSUME Inv, NEW s \in Submissions, s.ref \in WindowStart..ledger
  PROVE  /\ GetSignerWeightsAt(s.signers, s.ref) = TrueWeightsAt(s.signers, s.ref)
         /\ RequiredWeightAt(s.ref) = RequiredOf(TrueTotalAt(s.ref), threshold)
<1>1. WindowFaithful
  BY InvImplies
<1>2. \A j \in DOMAIN s.signers : s.signers[j] \in Keys
  BY SubmissionFacts
<1>3. \A j \in DOMAIN s.signers :
        GetSignerWeightAt(s.signers[j], s.ref) = LookupAt(weightLog[s.signers[j]], s.ref)
  BY <1>1, <1>2 DEF WindowFaithful
<1>4. GetSignerWeightsAt(s.signers, s.ref) = TrueWeightsAt(s.signers, s.ref)
  BY <1>3 DEF GetSignerWeightsAt, TrueWeightsAt
<1>5. GetTotalWeightAt(s.ref) = TrueTotalAt(s.ref)
  BY <1>1 DEF WindowFaithful, TrueTotalAt
<1> QED BY <1>4, <1>5 DEF RequiredWeightAt

LEMMA InvExact == Inv => WindowDecisionExact
<1> SUFFICES ASSUME Inv, NEW s \in Submissions, ValidReferenceBlock(s.ref)
             PROVE  Verify(s) = TrueVerify(s)
  BY DEF WindowDecisionExact
<1>1. s.ref \in WindowStart..ledger
  BY ValidIsInWindow, SubmissionFacts
<1> QED BY <1>1, WindowAnswers DEF Verify, TrueVerify

(* What the handler decides about a reference block it takes is what full  *)
(* histories would decide: the 200 ledgers of its window are within the    *)
(* HISTORY_CUTOFF of the Security contract.                                *)
THEOREM DecisionsAreExact == HandlerSpec => []WindowDecisionExact
BY HandlerInvInit, HandlerInvNext, InvExact, PTL DEF HandlerSpec

-----------------------------------------------------------------------------
(* verify says Ok only when something is required, there is a key for each *)
(* signature and every key has a weight.                                   *)
LEMMA VerifyOk ==
  ASSUME NEW scheme, NEW message, NEW sigs, NEW signers \in Seq(Keys), NEW weights,
         NEW required, DOMAIN sigs = 1..Len(sigs),
         VerifyOutcome(scheme, message, sigs, signers, weights, required) = "Ok"
  PROVE  required # 0 /\ \A i \in DOMAIN signers : weights[i] # 0
<1>1. /\ required # 0 /\ Len(sigs) = Len(signers)
      /\ GoesOn(Len(sigs), scheme, message, sigs, signers, weights)
  <2>1. Len(signers) \in Nat
    OBVIOUS
  <2> QED BY <2>1, OutcomeOk
<1>2. ASSUME NEW i \in DOMAIN signers PROVE weights[i] # 0
  <2>1. Iteration(scheme, i, SumTo(weights, i - 1), message, sigs, signers, weights) = "Ok"
    BY <1>1 DEF GoesOn
  <2> QED BY <2>1 DEF Iteration
<1> QED BY <1>1, <1>2

(* A pruned entry reads as 0, and with a 0 among the answers of the        *)
(* Security contract verify never says Ok: when it does, they are true.    *)
LEMMA InvSound == Inv => VerifySoundAnywhere
<1> SUFFICES ASSUME Inv, NEW s \in Submissions, s.ref < ledger, Verify(s) = "Ok"
             PROVE  TrueVerify(s) = "Ok"
  BY DEF VerifySoundAnywhere
<1>1. /\ s.ref \in 0..ledger /\ s.signers \in Seq(Keys)
      /\ \A j \in DOMAIN s.signers : s.signers[j] \in Keys
      /\ DOMAIN s.sigs = 1..Len(s.sigs)
  BY SubmissionFacts, SubmissionsAssumption DEF IsSubmission, Inv, TypeOK
<1>2. /\ RequiredWeightAt(s.ref) # 0
      /\ \A j \in DOMAIN s.signers : GetSignerWeightsAt(s.signers, s.ref)[j] # 0
  BY <1>1, VerifyOk DEF Verify
<1>3. /\ \A k \in Keys : GetSignerWeightAt(k, s.ref) \in {0, LookupAt(weightLog[k], s.ref)}
      /\ GetTotalWeightAt(s.ref) \in {0, LookupAt(totalLog, s.ref)}
  BY <1>1, InvImplies DEF NeverInvents
<1>4. GetSignerWeightsAt(s.signers, s.ref) = TrueWeightsAt(s.signers, s.ref)
  BY <1>1, <1>2, <1>3 DEF GetSignerWeightsAt, TrueWeightsAt
<1>5. GetTotalWeightAt(s.ref) = TrueTotalAt(s.ref)
  <2>1. RequiredOf(0, threshold) = 0
    <3>1. threshold.num \in Nat /\ threshold.den \in Nat \ {0}
      BY DEF Inv, TypeOK, IsThreshold, ValidThreshold
    <3>2. 0 * threshold.num = 0 /\ 0 \div threshold.den = 0
      BY <3>1
    <3> QED BY <3>2 DEF RequiredOf
  <2> QED BY <1>2, <1>3, <2>1 DEF RequiredWeightAt, TrueTotalAt
<1> QED BY <1>4, <1>5 DEF Verify, TrueVerify, RequiredWeightAt

(* verify, called by anybody for any past ledger (is it older than the     *)
(* histories reach, too), never accepts what full histories would refuse.  *)
THEOREM VerifyIsSound == HandlerSpec => []VerifySoundAnywhere
BY HandlerInvInit, HandlerInvNext, InvSound, PTL DEF HandlerSpec

-----------------------------------------------------------------------------
(* Of a ledger that is over no step changes what full histories say. *)
LEMMA TruePastStable ==
  ASSUME Inv, [Next]_vars, NEW s \in Submissions, s.ref < ledger
  PROVE  /\ TrueWeightsAt(s.signers, s.ref)' = TrueWeightsAt(s.signers, s.ref)
         /\ TrueTotalAt(s.ref)' = TrueTotalAt(s.ref)
<1>1. s.ref \in Nat /\ \A j \in DOMAIN s.signers : s.signers[j] \in Keys
  BY SubmissionFacts
<1>2. /\ \A k \in Keys : LookupAt(weightLog'[k], s.ref) = LookupAt(weightLog[k], s.ref)
      /\ LookupAt(totalLog', s.ref) = LookupAt(totalLog, s.ref)
  BY <1>1, LogsPast
<1>3. TrueWeightsAt(s.signers, s.ref)' = TrueWeightsAt(s.signers, s.ref)
  <2>1. \A j \in DOMAIN s.signers :
          LookupAt(weightLog'[s.signers[j]], s.ref) = LookupAt(weightLog[s.signers[j]], s.ref)
    BY <1>1, <1>2
  <2> QED BY <2>1 DEF TrueWeightsAt
<1> QED BY <1>2, <1>3 DEF TrueTotalAt

-----------------------------------------------------------------------------
(* The required weight follows the threshold. *)
LEMMA TimesMonotone ==
  ASSUME NEW a \in Nat, NEW b \in Nat, NEW c \in Nat
  PROVE  /\ a <= b => a * c <= b * c
         /\ c # 0 /\ a * c <= b * c => a <= b
OBVIOUS

LEMMA TimesCommute ==
  ASSUME NEW a \in Nat, NEW b \in Nat, NEW c \in Nat
  PROVE  /\ (a * b) * c = (a * c) * b
         /\ (a * b) * c = (b * c) * a
OBVIOUS

LEMMA DivFacts ==
  ASSUME NEW a \in Nat, NEW b \in Nat, b # 0
  PROVE  /\ a \div b \in Nat
         /\ (a \div b) * b <= a
         /\ \A q \in Nat : q * b <= a => q <= a \div b
<1> DEFINE d == a \div b
<1>1. d \in Nat /\ d * b <= a /\ a < d * b + b
  OBVIOUS
<1> HIDE DEF d
<1>2. ASSUME NEW q \in Nat, q * b <= a, ~(q <= d) PROVE FALSE
  <2>1. d + 1 \in Nat /\ d + 1 <= q
    BY <1>1, <1>2
  <2>2. (d + 1) * b <= q * b
    BY <2>1, TimesMonotone
  <2>3. (d + 1) * b = d * b + b /\ d * b \in Nat /\ q * b \in Nat
    BY <1>1
  <2> QED BY <1>1, <1>2, <2>2, <2>3
<1> QED BY <1>1, <1>2 DEF d

LEMMA RequiredMonotone ==
  ASSUME NEW total \in Nat, NEW t, NEW u, IsThreshold(t), IsThreshold(u),
         RequiredOf(total, t) > RequiredOf(total, u)
  PROVE  Exceeds(t, u)
<1>1. /\ t.num \in Nat /\ t.den \in Nat /\ t.den # 0
      /\ u.num \in Nat /\ u.den \in Nat /\ u.den # 0
  BY DEF IsThreshold, ValidThreshold
<1> DEFINE a == total * t.num
           q == a \div t.den
           b == total * u.num
<1>2. a \in Nat /\ b \in Nat
  BY <1>1
<1>3. q \in Nat /\ q * t.den <= a /\ ~(q <= b \div u.den)
  <2>1. q = RequiredOf(total, t) /\ b \div u.den = RequiredOf(total, u)
    BY DEF RequiredOf
  <2>2. q \in Nat /\ q * t.den <= a /\ b \div u.den \in Nat
    <3> HIDE DEF a, b
    <3> QED BY <1>1, <1>2, DivFacts
  <2> HIDE DEF q, b
  <2> QED BY <2>1, <2>2
<1>4. ~(q * u.den <= b)
  <2> HIDE DEF q, a, b
  <2> QED BY <1>1, <1>2, <1>3, DivFacts
<1>5. SUFFICES ASSUME t.num * u.den <= u.num * t.den PROVE FALSE
  <2>1. t.num * u.den \in Nat /\ u.num * t.den \in Nat
    BY <1>1
  <2> QED BY <2>1 DEF Exceeds
(* q * u.den * t.den <= total * t.num * u.den <= b * t.den *)
<1>6. (q * u.den) * t.den <= a * u.den
  <2>1. (q * t.den) * u.den <= a * u.den
    <3>1. q * t.den \in Nat
      BY <1>1, <1>3
    <3> HIDE DEF q, a
    <3> QED BY <1>1, <1>2, <1>3, <3>1, TimesMonotone
  <2>2. (q * t.den) * u.den = (q * u.den) * t.den
    <3> HIDE DEF q
    <3> QED BY <1>1, <1>3, TimesCommute
  <2> QED BY <2>1, <2>2
<1>7. a * u.den <= b * t.den
  <2>1. (t.num * u.den) * total <= (u.num * t.den) * total
    <3>1. t.num * u.den \in Nat /\ u.num * t.den \in Nat
      BY <1>1
    <3> QED BY <1>5, <3>1, TimesMonotone
  <2>2. /\ a * u.den = (t.num * u.den) * total
        /\ b * t.den = (u.num * t.den) * total
    BY <1>1, TimesCommute
  <2> QED BY <2>1, <2>2
<1>8. (q * u.den) * t.den <= b * t.den
  <2>1. (q * u.den) * t.den \in Nat /\ a * u.den \in Nat /\ b * t.den \in Nat
    <3> HIDE DEF q, a, b
    <3> QED BY <1>1, <1>2, <1>3
  <2> HIDE DEF q, a, b
  <2> QED BY <1>6, <1>7, <2>1
<1>9. q * u.den <= b
  <2>1. q * u.den \in Nat
    <3> HIDE DEF q
    <3> QED BY <1>1, <1>3
  <2> HIDE DEF q, b
  <2> QED BY <1>1, <1>2, <1>8, <2>1, TimesMonotone
<1> QED BY <1>4, <1>9

LEMMA RequiredType ==
  ASSUME NEW total \in Nat, NEW t, t.num \in Nat, t.den \in Nat, t.den # 0
  PROVE  RequiredOf(total, t) \in Nat
<1>1. total * t.num \in Nat /\ t.den \in Nat
  OBVIOUS
<1>2. ASSUME NEW a \in Nat, NEW b \in Nat, b # 0 PROVE a \div b \in Nat
  BY <1>2
<1> QED BY <1>1, <1>2 DEF RequiredOf

(* What may become of an answer when more, or less, is required. *)
FollowsHigher(old, new) ==
  \/ old = "ZeroRequiredWeight"
  \/ old = "Ok" /\ new = "InsufficientWeight"

FollowsLower(old, new) ==
  \/ new = "ZeroRequiredWeight"
  \/ old = "InsufficientWeight" /\ new = "Ok"

(* Of the answers of verify only the verdict on the weight and the refusal *)
(* to require nothing depend on what is required.                          *)
LEMMA OutcomeByRequired ==
  ASSUME NEW scheme, NEW message, NEW sigs, NEW signers, NEW weights,
         NEW r \in Nat, NEW t \in Nat,
         Len(sigs) = Len(signers) => SumTo(weights, Len(sigs)) \in Nat
  PROVE  LET old == VerifyOutcome(scheme, message, sigs, signers, weights, r)
             new == VerifyOutcome(scheme, message, sigs, signers, weights, t)
         IN  \/ new = old
             \/ t > r /\ FollowsHigher(old, new)
             \/ t < r /\ FollowsLower(old, new)
<1> DEFINE step(i) ==
             Iteration(scheme, i, SumTo(weights, i - 1), message, sigs, signers, weights)
           failing == {i \in DOMAIN sigs : step(i) # "Ok"}
           first == CHOOSE i \in failing : \A j \in failing : i <= j
           fails == step(first)
           sum == SumTo(weights, Len(sigs))
           of(x) == VerifyOutcome(scheme, message, sigs, signers, weights, x)
           last(x) == IF sum < x THEN "InsufficientWeight" ELSE "Ok"
<1>1. \A x : of(x) = IF Precheck(sigs, signers, x) # "Ok" THEN Precheck(sigs, signers, x)
                     ELSE IF failing # {} THEN fails ELSE last(x)
  BY DEF VerifyOutcome
<1>2. \A x : Precheck(sigs, signers, x) =
               IF sigs = <<>> THEN "EmptySignatures"
               ELSE IF Len(sigs) # Len(signers) THEN "LengthMismatch"
               ELSE IF x = 0 THEN "ZeroRequiredWeight" ELSE "Ok"
  BY DEF Precheck
<1>3. Len(sigs) = Len(signers) => sum \in Nat
  OBVIOUS
<1> HIDE DEF step, failing, first, fails, sum, of
<1>4. \/ of(t) = of(r)
      \/ t > r /\ FollowsHigher(of(r), of(t))
      \/ t < r /\ FollowsLower(of(r), of(t))
  <2>1. CASE sigs = <<>> \/ Len(sigs) # Len(signers)
    BY <1>1, <1>2, <2>1
  <2>2. CASE sigs # <<>> /\ Len(sigs) = Len(signers) /\ (r = 0 \/ t = 0)
    <3>1. \A x : x = 0 => of(x) = "ZeroRequiredWeight"
      BY <1>1, <1>2, <2>2
    <3> QED BY <2>2, <3>1 DEF FollowsHigher, FollowsLower
  <2>3. CASE sigs # <<>> /\ Len(sigs) = Len(signers) /\ r # 0 /\ t # 0
    <3>1. /\ of(r) = IF failing # {} THEN fails ELSE last(r)
          /\ of(t) = IF failing # {} THEN fails ELSE last(t)
      BY <1>1, <1>2, <2>3
    <3>2. CASE failing # {}
      BY <3>1, <3>2
    <3>3. CASE failing = {}
      <4>1. of(r) = last(r) /\ of(t) = last(t)
        BY <3>1, <3>3
      <4> QED BY <1>3, <2>3, <4>1 DEF FollowsHigher, FollowsLower
    <3> QED BY <3>2, <3>3
  <2> QED BY <2>1, <2>2, <2>3
<1> QED BY <1>4 DEF of

-----------------------------------------------------------------------------
(* What a step changes about the answer to a submission: nothing but the   *)
(* verdict on the weight, and that only as the threshold moves.            *)
AnswerFollows(old, new) ==
  \/ new = old
  \/ Exceeds(threshold', threshold) /\ FollowsHigher(old, new)
  \/ Exceeds(threshold, threshold') /\ FollowsLower(old, new)

LEMMA TrueVerifyFollows ==
  ASSUME Inv, Inv', [Next]_vars, NEW s \in Submissions, s.ref < ledger
  PROVE  AnswerFollows(TrueVerify(s), TrueVerify(s)')
<1> DEFINE weights == TrueWeightsAt(s.signers, s.ref)
           total == TrueTotalAt(s.ref)
           r == RequiredOf(total, threshold)
           t == RequiredOf(total, threshold')
           of(x) == VerifyOutcome(Scheme, s.envelope, s.sigs, s.signers, weights, x)
<1>1. weights' = weights /\ total' = total
  BY TruePastStable
<1>2. total \in Nat /\ (Len(s.sigs) = Len(s.signers) => SumTo(weights, Len(s.sigs)) \in Nat)
  <2>1. s.ref \in Nat /\ s.signers \in Seq(Keys)
    BY SubmissionFacts, SubmissionsAssumption DEF IsSubmission
  <2>2. total \in Nat /\ \A i \in 1..Len(s.signers) : weights[i] \in Nat
    <3>1. total \in Nat
      BY <2>1, LogTypes DEF TrueTotalAt
    <3>2. ASSUME NEW i \in 1..Len(s.signers) PROVE weights[i] \in Nat
      <4>1. s.signers[i] \in Keys /\ i \in DOMAIN s.signers
        BY <2>1
      <4>2. weights[i] = LookupAt(weightLog[s.signers[i]], s.ref)
        BY <4>1 DEF TrueWeightsAt
      <4> QED BY <2>1, <4>1, <4>2, LogTypes
    <3> QED BY <3>1, <3>2
  <2> DEFINE n == Len(s.signers)
  <2>3. n \in Nat
    BY <2>1
  <2> HIDE DEF n, weights, total
  <2>4. SumTo(weights, n) \in Nat
    BY <2>2, <2>3, SumNat DEF n
  <2> QED BY <2>2, <2>4 DEF n
<1>3. IsThreshold(threshold) /\ IsThreshold(threshold)'
  BY DEF Inv, TypeOK
<1>4. r \in Nat /\ t \in Nat
  <2>1. \A u : IsThreshold(u) => u.num \in Nat /\ u.den \in Nat /\ u.den # 0
    BY DEF IsThreshold, ValidThreshold
  <2>2. \A u : IsThreshold(u) => RequiredOf(total, u) \in Nat
    <3> HIDE DEF total
    <3> QED BY <1>2, <2>1, RequiredType
  <2> QED BY <1>3, <2>2 DEF IsThreshold
<1>5. TrueVerify(s) = of(r) /\ TrueVerify(s)' = of(t)
  BY <1>1 DEF TrueVerify
<1> HIDE DEF weights, total
<1>6. \/ of(t) = of(r)
      \/ t > r /\ FollowsHigher(of(r), of(t))
      \/ t < r /\ FollowsLower(of(r), of(t))
  <2> HIDE DEF r, t
  <2> QED BY <1>2, <1>4, OutcomeByRequired
<1>7. /\ t > r => Exceeds(threshold', threshold)
      /\ t < r => Exceeds(threshold, threshold')
  <2>1. t < r => r > t
    <3> HIDE DEF r, t
    <3> QED BY <1>4
  <2> QED BY <1>2, <1>3, <2>1, RequiredMonotone
<1> HIDE DEF r, t, of
<1> QED BY <1>5, <1>6, <1>7 DEF AnswerFollows

LEMMA StableStep ==
  ASSUME Inv, [HandlerNext]_allVars, NEW s \in Submissions,
         Outcome(s) # "InvalidReferenceBlock"
  PROVE  \/ Outcome(s)' \in {"InvalidReferenceBlock", "EventAlreadySeen"}
         \/ AnswerFollows(Outcome(s), Outcome(s)')
<1>1. [Next]_vars /\ Inv'
  <2>1. [Next]_vars
    BY DEF HandlerNext, VerifyEnvelope, allVars
  <2> QED BY <2>1, InvNext
<1>2. seen \subseteq seen'
  <2>1. CASE UNCHANGED handlerVars
    BY <2>1 DEF handlerVars
  <2>2. ASSUME NEW t \in Submissions, VerifyEnvelope(t) PROVE seen \subseteq seen'
    BY <2>2 DEF VerifyEnvelope, MarkEventSeen
  <2>3. UNCHANGED handlerVars \/ \E t \in Submissions : VerifyEnvelope(t)
    BY Zenon DEF HandlerNext, allVars
  <2> QED BY <2>1, <2>2, <2>3
<1>3. ValidReferenceBlock(s.ref) /\ s.ref \in Nat
  BY SubmissionFacts DEF Outcome
<1>4. CASE ~ValidReferenceBlock(s.ref)'
  BY <1>4 DEF Outcome
<1>5. CASE ValidReferenceBlock(s.ref)' /\ ~s.envelope.decodes
  <2>1. Outcome(s) = "InvalidEnvelope" /\ Outcome(s)' = "InvalidEnvelope"
    BY <1>3, <1>5 DEF Outcome
  <2> QED BY <2>1 DEF AnswerFollows
<1>6. CASE ValidReferenceBlock(s.ref)' /\ s.envelope.decodes /\ s.envelope.event \in seen'
  BY <1>6 DEF Outcome
<1>7. CASE ValidReferenceBlock(s.ref)' /\ s.envelope.decodes /\ s.envelope.event \notin seen'
  <2>1. /\ Outcome(s) = MapVerifyResult(Verify(s))
        /\ Outcome(s)' = MapVerifyResult(Verify(s)')
    BY <1>2, <1>3, <1>7 DEF Outcome, MapVerifyResult
  <2>2. Verify(s) = TrueVerify(s)
    BY <1>3, InvExact DEF WindowDecisionExact
  <2>3. WindowDecisionExact'
    BY <1>1, InvExact, PTL
  <2>4. Verify(s)' = TrueVerify(s)'
    BY <1>7, <2>3 DEF WindowDecisionExact
  <2>5. AnswerFollows(Verify(s), Verify(s)')
    BY <1>1, <1>3, <2>2, <2>4, ValidIsInWindow, TrueVerifyFollows
  <2>6. AnswerFollows(MapVerifyResult(Verify(s)), MapVerifyResult(Verify(s)'))
    BY <2>5 DEF AnswerFollows, FollowsHigher, FollowsLower, MapVerifyResult
  <2> QED BY <2>1, <2>6
<1> QED BY <1>4, <1>5, <1>6, <1>7

(* Between the signing of an envelope and its submission nothing but a new *)
(* threshold, the acceptance of its event or the window can change what    *)
(* the handler answers: changes of weights after the reference block       *)
(* (add_signer, remove_signer, pruning) do not matter, and set_threshold   *)
(* changes the verdict on the weight only, in the direction in which the   *)
(* threshold moved.                                                        *)
THEOREM DecisionsAreStable == HandlerSpec => DecisionStable
<1> DEFINE Stable ==
      \A s \in Submissions :
        \/ Outcome(s) = "InvalidReferenceBlock"
        \/ Outcome(s)' \in {Outcome(s), "InvalidReferenceBlock", "EventAlreadySeen"}
        \/ /\ Exceeds(threshold', threshold)
           /\ \/ Outcome(s) = "ZeroRequiredWeight"
              \/ Outcome(s) = "Ok" /\ Outcome(s)' = "InsufficientWeight"
        \/ /\ Exceeds(threshold, threshold')
           /\ \/ Outcome(s)' = "ZeroRequiredWeight"
              \/ Outcome(s) = "InsufficientWeight" /\ Outcome(s)' = "Ok"
<1>1. Inv /\ HandlerInv /\ [HandlerNext]_allVars => [Stable]_allVars
  BY StableStep DEF AnswerFollows, FollowsHigher, FollowsLower
<1> HIDE DEF Stable
<1>2. HandlerSpec => [][Stable]_allVars
  BY <1>1, HandlerInvInit, HandlerInvNext, PTL DEF HandlerSpec
<1> QED BY <1>2 DEF DecisionStable, Stable

-----------------------------------------------------------------------------
(* Quorums. *)
(* Signatures the handler takes were made by a quorum: verify has seen     *)
(* each key once (ascending order) and found that it signed this envelope. *)
LEMMA SubmissionQuorum ==
  ASSUME Inv, NEW s \in Submissions, ValidReferenceBlock(s.ref), Verify(s) = "Ok"
  PROVE  /\ RequiredOf(TrueTotalAt(s.ref), threshold) > 0
         /\ TrueWeightOf(SignedBy(s), s.ref) >= RequiredOf(TrueTotalAt(s.ref), threshold)
<1> DEFINE w == TrueWeightsOf(s.ref)
           weights == TrueWeightsAt(s.signers, s.ref)
           required == RequiredOf(TrueTotalAt(s.ref), threshold)
           m == Len(s.sigs)
<1>1. /\ s.ref \in Nat /\ s.signers \in Seq(Keys) /\ DOMAIN s.sigs = 1..Len(s.sigs)
      /\ NumKeys \in Nat /\ DOMAIN s.signers = 1..Len(s.signers) /\ Len(s.signers) \in Nat
  BY SubmissionFacts, SubmissionsAssumption, BoundsAssumption DEF IsSubmission
<1>2. VerifyOutcome(Scheme, s.envelope, s.sigs, s.signers, weights, required) = "Ok"
  BY InvExact DEF WindowDecisionExact, TrueVerify
<1> HIDE DEF weights, required
<1>3. /\ required # 0 /\ m = Len(s.signers)
      /\ GoesOn(m, Scheme, s.envelope, s.sigs, s.signers, weights)
      /\ ~(SumTo(weights, m) < required)
  BY <1>1, <1>2, OutcomeOk
<1>4. ASSUME NEW k \in 1..NumKeys PROVE w[k] = LookupAt(weightLog[k], s.ref) /\ w[k] \in Nat
  BY <1>1, LogTypes DEF TrueWeightsOf, Keys
<1>5. ASSUME NEW j \in 1..m
      PROVE  s.signers[j] \in 1..NumKeys /\ weights[j] = w[s.signers[j]]
  <2>1. j \in DOMAIN s.signers /\ s.signers[j] \in Keys
    BY <1>1, <1>3
  <2> QED BY <2>1 DEF weights, TrueWeightsAt, TrueWeightsOf, Keys
<1>6. m \in Nat
  BY <1>1, <1>3
<1> HIDE DEF w, m
<1>7. /\ \A j \in 1..m : s.sigs[j] = Signed(s.signers[j], s.envelope)
      /\ SumTo(weights, m) = WeightOfListed(NumKeys, w, m, s.signers)
  <2>1. WeightsFrom(m, NumKeys, w, s.signers, weights)
    BY <1>1, <1>4, <1>5 DEF WeightsFrom
  <2> QED BY <1>3, <1>6, <2>1, SchemeAssumption, GoneOn
<1>8. \A k \in Keys : k \in SignedBy(s) <=> \E j \in 1..m : s.signers[j] = k
  BY <1>1, <1>3, <1>7 DEF SignedBy, m
<1>9. WeightOfListed(NumKeys, w, m, s.signers) = TrueWeightOf(SignedBy(s), s.ref)
  <2>1. [k \in 1..NumKeys |-> IF \E j \in 1..m : s.signers[j] = k THEN w[k] ELSE 0]
          = [k \in Keys |-> IF k \in SignedBy(s) THEN LookupAt(weightLog[k], s.ref) ELSE 0]
    BY <1>4, <1>8 DEF Keys
  <2> QED BY <2>1 DEF WeightOfListed, TrueWeightOf
<1>10. required \in Nat
  <2>1. TrueTotalAt(s.ref) \in Nat
    BY <1>1, LogTypes DEF TrueTotalAt
  <2>2. threshold \in [num : Nat, den : Nat] /\ threshold.den # 0
    BY DEF Inv, TypeOK, IsThreshold, ValidThreshold
  <2> QED BY <2>1, <2>2, RequiredType DEF required
<1>11. SumTo(weights, m) \in Nat
  <2>1. \A j \in 1..m : weights[j] \in Nat
    BY <1>4, <1>5
  <2> QED BY <1>6, <2>1, SumNat
<1>12. required > 0 /\ TrueWeightOf(SignedBy(s), s.ref) >= required
  BY <1>3, <1>7, <1>9, <1>10, <1>11
<1> QED BY <1>12 DEF required

(* What the handler accepted had a quorum, by the full timelines. *)
HadQuorum(a, logs, total) ==
  LET required == RequiredOf(LookupAt(total, a.ref), a.threshold)
  IN  /\ a.ref < a.at /\ a.at <= a.ref + MaxReferenceBlockAge
      /\ required > 0
      /\ SumTo([k \in Keys |-> IF k \in a.by THEN LookupAt(logs[k], a.ref) ELSE 0], NumKeys)
           >= required

QuorumInv ==
  \A n \in 1..Len(accepted) :
    accepted[n].at <= ledger /\ HadQuorum(accepted[n], weightLog, totalLog)

(* No step changes the weights of a ledger that is over: a quorum of that  *)
(* ledger stays one.                                                       *)
LEMMA HadQuorumStable ==
  ASSUME Inv, [Next]_vars, NEW a \in Records, a.at <= ledger,
         HadQuorum(a, weightLog, totalLog)
  PROVE  a.at <= ledger' /\ HadQuorum(a, weightLog', totalLog')
<1>1. a.ref \in Nat /\ a.at \in Nat /\ ledger \in Nat /\ ledger' \in Nat /\ ledger <= ledger'
  BY LedgerGrows DEF Records
<1>2. a.ref < ledger
  BY <1>1 DEF HadQuorum
<1>3. /\ \A k \in Keys : LookupAt(weightLog'[k], a.ref) = LookupAt(weightLog[k], a.ref)
      /\ LookupAt(totalLog', a.ref) = LookupAt(totalLog, a.ref)
  BY <1>1, <1>2, LogsPast
<1>4. [k \in Keys |-> IF k \in a.by THEN LookupAt(weightLog'[k], a.ref) ELSE 0]
        = [k \in Keys |-> IF k \in a.by THEN LookupAt(weightLog[k], a.ref) ELSE 0]
  BY <1>3
<1> QED BY <1>1, <1>3, <1>4 DEF HadQuorum

LEMMA RecordHadQuorum ==
  ASSUME Inv, NEW s \in Submissions, Outcome(s) = "Ok"
  PROVE  Record(s).at = ledger /\ HadQuorum(Record(s), weightLog, totalLog)
<1>1. ValidReferenceBlock(s.ref) /\ Verify(s) = "Ok"
  BY DEF Outcome, MapVerifyResult
<1>2. /\ Record(s).at = ledger /\ Record(s).ref = s.ref /\ Record(s).by = SignedBy(s)
      /\ Record(s).threshold = threshold
  BY DEF Record
<1>3. s.ref < ledger /\ ledger <= s.ref + MaxReferenceBlockAge
  BY <1>1, SubmissionFacts, WindowAssumption DEF ValidReferenceBlock, Inv, TypeOK
<1>4. /\ RequiredOf(LookupAt(totalLog, s.ref), threshold) > 0
      /\ SumTo([k \in Keys |-> IF k \in SignedBy(s) THEN LookupAt(weightLog[k], s.ref) ELSE 0],
               NumKeys)
           >= RequiredOf(LookupAt(totalLog, s.ref), threshold)
  BY <1>1, SubmissionQuorum DEF TrueTotalAt, TrueWeightOf
<1> HIDE DEF Record
<1> QED BY <1>2, <1>3, <1>4 DEF HadQuorum

LEMMA QuorumInvStep ==
  ASSUME Inv, HandlerInv, QuorumInv, [HandlerNext]_allVars
  PROVE  QuorumInv'
<1>1. [Next]_vars
  BY DEF HandlerNext, VerifyEnvelope, allVars
<1>2. /\ accepted \in Seq(Records) /\ Len(accepted) \in Nat
      /\ \A n \in 1..Len(accepted) : accepted[n] \in Records
  BY DEF HandlerInv
<1>3. \A n \in 1..Len(accepted) :
        accepted[n].at <= ledger' /\ HadQuorum(accepted[n], weightLog', totalLog')
  BY <1>1, <1>2, HadQuorumStable DEF QuorumInv
<1>4. CASE UNCHANGED handlerVars
  BY <1>3, <1>4 DEF QuorumInv, handlerVars
<1>5. ASSUME NEW s \in Submissions, VerifyEnvelope(s) PROVE QuorumInv'
  <2>1. /\ accepted' = Append(accepted, Record(s)) /\ Outcome(s) = "Ok"
        /\ ledger' = ledger /\ weightLog' = weightLog /\ totalLog' = totalLog
    BY <1>5 DEF VerifyEnvelope, vars, securityVars, registryVars
  <2>2. /\ Len(accepted') = Len(accepted) + 1
        /\ \A n \in 1..Len(accepted) : accepted'[n] = accepted[n]
        /\ accepted'[Len(accepted) + 1] = Record(s)
    BY <1>2, <2>1, RecordType, Appended
  <2>3. Record(s).at <= ledger' /\ HadQuorum(Record(s), weightLog', totalLog')
    <3>1. Record(s).at = ledger /\ HadQuorum(Record(s), weightLog, totalLog)
      BY <2>1, RecordHadQuorum
    <3> QED BY <2>1, <3>1 DEF Inv, TypeOK
  <2>4. \A n \in 1..(Len(accepted) + 1) : n \in 1..Len(accepted) \/ n = Len(accepted) + 1
    BY <1>2
  <2>5. ASSUME NEW n \in 1..Len(accepted')
        PROVE  accepted'[n].at <= ledger' /\ HadQuorum(accepted'[n], weightLog', totalLog')
    BY <1>3, <2>2, <2>3, <2>4
  <2> QED BY <2>5 DEF QuorumInv
<1>6. UNCHANGED handlerVars \/ \E s \in Submissions : VerifyEnvelope(s)
  BY Zenon DEF HandlerNext, allVars
<1> QED BY <1>4, <1>5, <1>6

LEMMA QuorumInvInit == HandlerInit => QuorumInv
BY DEF HandlerInit, QuorumInv

LEMMA QuorumInvImplies == HandlerInv /\ QuorumInv => AcceptedHadQuorum
<1> SUFFICES ASSUME HandlerInv, QuorumInv PROVE AcceptedHadQuorum
  OBVIOUS
<1>1. DOMAIN accepted = 1..Len(accepted)
  BY DEF HandlerInv
<1> QED BY <1>1 DEF QuorumInv, HadQuorum, AcceptedHadQuorum, TrueTotalAt, TrueWeightOf

(* What verify_xlm / verify_eth accepted was signed by keys that were a    *)
(* quorum at a recent ledger that was over, each counted once, and remains *)
(* so: no later call of the administrator rewrites that ledger.            *)
THEOREM AcceptedBySigners == HandlerSpec => []AcceptedHadQuorum
<1>1. HandlerSpec => [](Inv /\ HandlerInv /\ QuorumInv)
  BY HandlerInvInit, HandlerInvNext, QuorumInvInit, QuorumInvStep, PTL DEF HandlerSpec
<1> QED BY <1>1, QuorumInvImplies, PTL

-----------------------------------------------------------------------------
(* The handler implements AttestedEvents.  What the abstract module says   *)
(* of sums and quorums, under the refinement mapping.                      *)
LEMMA SameSums ==
  ASSUME NEW f, NEW n
  PROVE  Attested!SumTo(f, n) = SumTo(f, n)
BY DEF Attested!SumTo, SumTo

LEMMA SameWeights ==
  ASSUME NEW S, NEW r \in 0..ledger
  PROVE  Attested!WeightOf(S, r) = TrueWeightOf(S, r)
<1>1. [k \in 1..NumKeys |-> IF k \in S THEN [q \in 0..ledger |-> TrueWeightsOf(q)][r][k] ELSE 0]
       = [k \in Keys |-> IF k \in S THEN LookupAt(weightLog[k], r) ELSE 0]
  BY DEF Keys, TrueWeightsOf
<1> QED BY <1>1, SameSums DEF Attested!WeightOf, TrueWeightOf

(* The recorded total is the weight of all keys. *)
LEMMA SameQuorum ==
  ASSUME Inv, LogsAddUp, NEW r \in 0..ledger
  PROVE  Attested!QuorumWeight(r) = RequiredOf(TrueTotalAt(r), threshold)
<1>1. r \in Nat
  BY DEF Inv, TypeOK
<1>2. Attested!WeightOf(1..NumKeys, r) = TrueWeightOf(1..NumKeys, r)
  BY SameWeights
<1>3. TrueTotalAt(r) = SumTo(WeightsIn(weightLog, r), NumKeys)
  BY <1>1 DEF LogsAddUp, TrueTotalAt
<1>4. [k \in Keys |-> IF k \in 1..NumKeys THEN LookupAt(weightLog[k], r) ELSE 0]
        = WeightsIn(weightLog, r)
  BY DEF Keys, WeightsIn
<1>5. TrueWeightOf(1..NumKeys, r) = TrueTotalAt(r)
  BY <1>3, <1>4 DEF TrueWeightOf
<1> QED BY <1>2, <1>5 DEF Attested!QuorumWeight, RequiredOf

(* The attestation of an accepted event is the record of it. *)
AttestedAs ==
  /\ \A n \in 1..Len(accepted) : \A e \in Events : accepted[n].event = e =>
       Attestation(e) = [payload |-> accepted[n].payload, by |-> accepted[n].by,
                         ref |-> accepted[n].ref]
  /\ \A e \in Events \ seen : Attestation(e) = NoPayload

LEMMA AttestationForm == HandlerInv => AttestedAs
<1> SUFFICES ASSUME HandlerInv PROVE AttestedAs
  OBVIOUS
<1>1. DOMAIN accepted = 1..Len(accepted) /\ 1..Len(accepted) \subseteq Nat
  BY DEF HandlerInv
<1>2. ASSUME NEW n \in 1..Len(accepted), NEW e \in Events, accepted[n].event = e
      PROVE  Attestation(e) = [payload |-> accepted[n].payload, by |-> accepted[n].by,
                               ref |-> accepted[n].ref]
  <2> DEFINE of == {m \in DOMAIN accepted : accepted[m].event = e}
             last == CHOOSE m \in of : \A k \in of : k <= m
  <2>1. of = {n}
    BY <1>1, <1>2 DEF HandlerInv, Marks
  <2>2. n <= n
    BY <1>1
  <2>3. last = n
    BY <2>1, <2>2
  <2>4. e \in seen /\ accepted[n].payload = payloads[e]
    BY <1>2 DEF HandlerInv, Marks
  <2>5. payloads[e] # NoPayload
    BY <2>4, HandlerInvImplies DEF SeenIffStored
  <2> HIDE DEF last
  <2>6. Attestation(e) = [payload |-> payloads[e], by |-> accepted[last].by,
                          ref |-> accepted[last].ref]
    BY <2>5 DEF Attestation, last
  <2> QED BY <2>3, <2>4, <2>6
<1>3. ASSUME NEW e \in Events \ seen PROVE Attestation(e) = NoPayload
  BY DEF HandlerInv, Marks, Attestation
<1> QED BY <1>2, <1>3 DEF AttestedAs

LEMMA MapInit == HandlerInit => Attested!AbstractInit
<1> SUFFICES ASSUME HandlerInit PROVE Attested!AbstractInit
  OBVIOUS
<1>1. Inv /\ ledger = 0
  BY HandlerInvInit DEF HandlerInit, Init
<1>2. threshold.num <= threshold.den
  BY <1>1 DEF Inv, TypeOK, IsThreshold, ValidThreshold
<1>3. \A k \in Keys : LookupAt(weightLog[k], 0) = 0
  <2>1. <<>> \in Seq(Entries) /\ \A j \in 1..Len(<<>>) : <<>>[j].ledger > 0
    OBVIOUS
  <2>2. LookupAt(<<>>, 0) = 0
    BY <2>1, LookupIsDefault DEF Default
  <2> QED BY <2>2 DEF HandlerInit, Init
<1>4. [r \in 0..ledger |-> TrueWeightsOf(r)] = [r \in {0} |-> [k \in 1..NumKeys |-> 0]]
  <2>1. 0..ledger = {0}
    BY <1>1
  <2>2. TrueWeightsOf(0) = [k \in 1..NumKeys |-> 0]
    BY <1>3 DEF TrueWeightsOf, Keys
  <2> QED BY <2>1, <2>2
<1>5. [e \in Events |-> Attestation(e)] = [e \in Events |-> NoPayload]
  BY DEF HandlerInit, Attestation
<1> QED BY <1>1, <1>2, <1>4, <1>5 DEF Attested!AbstractInit

(* add_signer and remove_signer change the weights from the open ledger on.*)
LEMMA MapWeights ==
  ASSUME Inv, [Next]_vars, UNCHANGED <<ledger, threshold, handlerVars>>
  PROVE  Attested!ChangeWeights
<1>1. ledger \in Nat /\ ledger' = ledger
  BY DEF Inv, TypeOK
<1>2. ASSUME NEW r \in 0..(ledger - 1)
      PROVE  /\ r \in 0..ledger
             /\ [k \in Keys |-> LookupAt(weightLog'[k], r)] = [k \in Keys |-> LookupAt(weightLog[k], r)]
  BY <1>1, LogsPast
<1>3. [e \in Events |-> Attestation(e)]' = [e \in Events |-> Attestation(e)]
  BY DEF Attestation, handlerVars
<1> QED BY <1>1, <1>2, <1>3 DEF Attested!ChangeWeights, TrueWeightsOf

LEMMA MapThreshold ==
  ASSUME Inv, NEW caller \in Addresses, NEW a \in ThresholdArgs,
         SetThreshold(caller, a[1], a[2]), UNCHANGED handlerVars
  PROVE  Attested!ChangeFraction
<1>1. a[1] \in Nat /\ a[2] \in Nat
  BY ThresholdArgsAssumption
<1>2. threshold'.num > 0 /\ threshold'.num <= threshold'.den
  BY <1>1 DEF SetThreshold, ValidThreshold
<1>3. [e \in Events |-> Attestation(e)]' = [e \in Events |-> Attestation(e)]
  BY DEF Attestation, handlerVars
<1>4. ledger' = ledger /\ weightLog' = weightLog
  BY DEF SetThreshold, registryVars
<1>5. [r \in 0..ledger |-> TrueWeightsOf(r)]' = [r \in 0..ledger |-> TrueWeightsOf(r)]
  BY <1>4 DEF TrueWeightsOf
<1> QED BY <1>2, <1>3, <1>4, <1>5 DEF Attested!ChangeFraction

(* Until somebody changes them a ledger opens with the weights of the last.*)
LEMMA MapClose ==
  ASSUME Inv, CloseLedger, UNCHANGED handlerVars
  PROVE  Attested!Close
<1>1. ledger \in Nat /\ ledger' = ledger + 1 /\ weightLog' = weightLog /\ threshold' = threshold
  BY DEF Inv, TypeOK, CloseLedger, registryVars
<1>2. [e \in Events |-> Attestation(e)]' = [e \in Events |-> Attestation(e)]
  BY DEF Attestation, handlerVars
<1>3. TrueWeightsOf(ledger + 1) = TrueWeightsOf(ledger)
  <2>1. ledger + 1 \in Nat /\ ledger <= ledger + 1 /\ ledger <= ledger
    BY <1>1
  <2>2. \A k \in Keys : LookupAt(weightLog[k], ledger + 1) = LookupAt(weightLog[k], ledger)
    BY <1>1, <2>1, LogsFromNow
  <2> QED BY <2>2 DEF TrueWeightsOf
<1> DEFINE W == [r \in 0..ledger |-> TrueWeightsOf(r)]
<1>4. W' = [r \in 0..(ledger + 1) |-> TrueWeightsOf(r)]
  BY <1>1 DEF TrueWeightsOf
<1>5. ASSUME NEW r \in 0..(ledger + 1)
      PROVE  TrueWeightsOf(r) = IF r <= ledger THEN W[r] ELSE W[ledger]
  <2>1. ledger \in 0..ledger /\ (r <= ledger => r \in 0..ledger)
        /\ (~(r <= ledger) => r = ledger + 1)
    BY <1>1
  <2> QED BY <1>3, <2>1
<1> HIDE DEF W
<1>6. W' = [r \in 0..(ledger + 1) |-> IF r <= ledger THEN W[r] ELSE W[ledger]]
  BY <1>4, <1>5
<1> QED BY <1>1, <1>2, <1>6 DEF Attested!Close, W

(* An accepted submission attests its event. *)
LEMMA MapVerify ==
  ASSUME Inv, LogsAddUp, HandlerInv, HandlerInv', NEW s \in Submissions, VerifyEnvelope(s)
  PROVE  Attested!Attest(s.envelope.event)
<1> DEFINE e == s.envelope.event
           a == [payload |-> s.envelope.payload, by |-> SignedBy(s), ref |-> s.ref]
           A == [f \in Events |-> Attestation(f)]
<1>1. /\ Outcome(s) = "Ok" /\ accepted' = Append(accepted, Record(s))
      /\ seen' = seen \cup {e}
      /\ ledger' = ledger /\ weightLog' = weightLog /\ threshold' = threshold
  BY DEF VerifyEnvelope, MarkEventSeen, vars, securityVars, registryVars
<1>2. /\ e \in Events /\ s.envelope.payload \in Payloads /\ s.ref \in Nat
      /\ e \notin seen /\ Record(s) \in Records
  BY <1>1, SubmissionFacts, AcceptedIsNew, RecordType
<1>3. /\ Len(accepted') = Len(accepted) + 1 /\ Len(accepted) \in Nat
      /\ \A n \in 1..Len(accepted) : accepted'[n] = accepted[n]
      /\ accepted'[Len(accepted) + 1] = Record(s)
  BY <1>1, <1>2, Appended DEF HandlerInv
<1>4. AttestedAs /\ AttestedAs'
  BY AttestationForm, PTL
<1>5. Attestation(e) = NoPayload /\ Attestation(e)' = a
  <2>1. Attestation(e) = NoPayload
    BY <1>2, <1>4 DEF AttestedAs
  <2>2. Len(accepted) + 1 \in 1..Len(accepted')
    BY <1>3
  <2>3. /\ Record(s).event = e /\ Record(s).payload = s.envelope.payload
        /\ Record(s).by = SignedBy(s) /\ Record(s).ref = s.ref
    BY DEF Record
  <2>4. Attestation(e)' = [payload |-> Record(s).payload, by |-> Record(s).by,
                           ref |-> Record(s).ref]
    BY <1>2, <1>3, <1>4, <2>2, <2>3 DEF AttestedAs
  <2> QED BY <2>1, <2>3, <2>4
<1>6. ASSUME NEW f \in Events, f # e PROVE Attestation(f)' = Attestation(f)
  <2>1. CASE f \in seen
    <3>1. PICK n \in 1..Len(accepted) : accepted[n].event = f
      BY <2>1 DEF HandlerInv, Marks
    <3>2. n \in 1..Len(accepted') /\ accepted'[n] = accepted[n]
      BY <1>3
    <3> QED BY <1>4, <3>1, <3>2 DEF AttestedAs
  <2>2. CASE f \notin seen
    BY <1>1, <1>4, <1>6, <2>2 DEF AttestedAs
  <2> QED BY <2>1, <2>2
<1>7. a # NoPayload
  <2>1. a \in [payload : Payloads, by : SUBSET Keys, ref : Nat]
    BY <1>2 DEF Record, Records
  <2> QED BY <2>1, NoPayloadAssumption
<1>8. A[e] = NoPayload /\ A'[e] = a /\ A' = [A EXCEPT ![e] = a]
  BY <1>2, <1>5, <1>6
<1>9. /\ s.ref < ledger /\ ledger <= s.ref + MaxReferenceBlockAge
      /\ Attested!IsQuorum(SignedBy(s), s.ref)
  <2>1. ValidReferenceBlock(s.ref) /\ Verify(s) = "Ok"
    BY <1>1 DEF Outcome, MapVerifyResult
  <2>2. s.ref < ledger /\ ledger <= s.ref + MaxReferenceBlockAge /\ s.ref \in 0..ledger
    BY <1>2, <2>1, WindowAssumption DEF ValidReferenceBlock, Inv, TypeOK
  <2>3. /\ RequiredOf(TrueTotalAt(s.ref), threshold) > 0
        /\ TrueWeightOf(SignedBy(s), s.ref) >= RequiredOf(TrueTotalAt(s.ref), threshold)
    BY <2>1, SubmissionQuorum
  <2> QED BY <2>2, <2>3, SameWeights, SameQuorum DEF Attested!IsQuorum
<1>10. [r \in 0..ledger |-> TrueWeightsOf(r)]' = [r \in 0..ledger |-> TrueWeightsOf(r)]
  BY <1>1 DEF TrueWeightsOf
<1>11. a.by = SignedBy(s) /\ a.ref = s.ref
  OBVIOUS
<1> HIDE DEF a
<1>12. A'[e].by = SignedBy(s) /\ A'[e].ref = s.ref /\ A'[e] # NoPayload
  BY <1>7, <1>8, <1>11
<1> QED BY <1>1, <1>8, <1>9, <1>10, <1>12 DEF Attested!Attest

LEMMA MapStep ==
  ASSUME Inv, LogsAddUp, HandlerInv, HandlerInv', [HandlerNext]_allVars
  PROVE  [Attested!AbstractNext]_(Attested!abstractVars)
<1>1. ASSUME NEW s \in Submissions, VerifyEnvelope(s) PROVE Attested!AbstractNext
  BY <1>1, MapVerify, SubmissionFacts DEF Attested!AbstractNext
<1>2. ASSUME UNCHANGED <<ledger, threshold, weightLog, handlerVars>>
      PROVE  UNCHANGED Attested!abstractVars
  BY <1>2 DEF Attested!abstractVars, Attestation, TrueWeightsOf, handlerVars
<1>3. ASSUME NEW caller \in Addresses, Invocation(caller), [Next]_vars, UNCHANGED handlerVars
      PROVE  Attested!AbstractNext
  <2>1. CASE UNCHANGED <<ledger, threshold>>
    BY <1>3, <2>1, MapWeights DEF Attested!AbstractNext
  <2>2. ASSUME NEW a \in ThresholdArgs, SetThreshold(caller, a[1], a[2])
        PROVE  Attested!AbstractNext
    BY <1>3, <2>2, MapThreshold DEF Attested!AbstractNext
  <2> QED BY <1>3, <2>1, <2>2 DEF Invocation, AddSigner, RemoveSigner
<1>4. CASE Next /\ UNCHANGED handlerVars
  <2>1. CASE AdminNext /\ UNCHANGED securityVars
    BY <1>2, <1>4, <2>1 DEF securityVars, registryVars
  <2>2. CASE CloseLedger
    BY <1>4, <2>2, MapClose DEF Attested!AbstractNext
  <2> QED BY <1>3, <1>4, <2>1, <2>2 DEF Next
<1>5. CASE UNCHANGED allVars
  BY <1>2, <1>5 DEF allVars, vars, securityVars, registryVars
<1> QED BY <1>1, <1>4, <1>5 DEF HandlerNext

(* A Handler with its Verification and Security contracts implements the   *)
(* promise of AttestedEvents: an event is attested once, with one payload, *)
(* by keys that were a quorum at a recent past ledger, and the weights of  *)
(* ledgers that are over are never rewritten.                              *)
THEOREM HandlerRefines == HandlerSpec => ImplementsAttestedEvents
<1>1. HandlerSpec => [](Inv /\ LogsAddUp /\ HandlerInv)
  <2>1. HandlerInit => Inv /\ LogsAddUp /\ HandlerInv
    BY HandlerInvInit, AddUpInit DEF HandlerInit
  <2>2. Inv /\ LogsAddUp /\ HandlerInv /\ [HandlerNext]_allVars
          => (Inv /\ LogsAddUp /\ HandlerInv)'
    <3>1. [HandlerNext]_allVars => [Next]_vars
      BY DEF HandlerNext, VerifyEnvelope, allVars
    <3> QED BY <3>1, HandlerInvNext, AddUpStep
  <2> QED BY <2>1, <2>2, PTL DEF HandlerSpec
<1>2. /\ Inv /\ LogsAddUp /\ HandlerInv /\ HandlerInv' /\ [HandlerNext]_allVars
        => [Attested!AbstractNext]_(Attested!abstractVars)
  BY MapStep
<1> QED BY <1>1, <1>2, MapInit, PTL
        DEF HandlerSpec, ImplementsAttestedEvents, Attested!AbstractSpec
=============================================================================
