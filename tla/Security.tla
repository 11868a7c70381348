------------------------------- MODULE Security -------------------------------
(***************************************************************************)
(* The Security contracts (contracts/ed25519-security and its twin         *)
(* secp256k1-security, which differs in the key type only): the registry   *)
(* of weighted signers, the threshold, and the pruned histories that       *)
(* answer questions about a past ledger.                                   *)
(*                                                                         *)
(* Keys are naturals: the byte order of the real keys is their order.      *)
(* weightLog and totalLog are history variables: the same timelines kept   *)
(* without pruning, as packages/shared/src/checkpoint.rs keeps them.       *)
(***************************************************************************)
EXTENDS VecHistory, WarpDriveAdmin, Words

CONSTANTS
  NumKeys,         \* public keys are 1..NumKeys, registered or not
  Weights,         \* weights passed to add_signer
  ThresholdArgs,   \* <<numerator, denominator>> pairs passed to set_threshold
  HistoryCutoff,   \* HISTORY_CUTOFF, in ledgers
  MaxLedger        \* bound of the model: the last ledger sequence reached

ASSUME WeightsAssumption == Weights \subseteq Nat
ASSUME ThresholdArgsAssumption == ThresholdArgs \subseteq Nat \X Nat
ASSUME BoundsAssumption == NumKeys \in Nat /\ HistoryCutoff \in Nat /\ MaxLedger \in Nat

Keys == 1..NumKeys

VARIABLES
  ledger,       \* sequence number of the open ledger
  threshold,    \* [num, den]
  allSigners,   \* DataKey::AllSigners
  weightHist,   \* DataKey::SignerWeightHist, for each key
  totalHist,    \* DataKey::TotalWeightHist
  weightLog,    \* weightHist, never pruned
  totalLog      \* totalHist, never pruned

registryVars == <<allSigners, weightHist, totalHist, weightLog, totalLog>>
securityVars == <<ledger, threshold, registryVars>>
vars == <<adminVars, securityVars>>

-----------------------------------------------------------------------------
(* Storage: queries *)

GetTotalWeight == Latest(totalHist)

(* Some weight, or 0 for None: a stored 0 is a removed signer. *)
GetSignerWeight(key) == Latest(weightHist[key])

Registered(key) == GetSignerWeight(key) # 0

GetSignerWeightAt(key, r) == LookupAt(weightHist[key], r)

GetSignerWeightsAt(keys, r) == [i \in DOMAIN keys |-> GetSignerWeightAt(keys[i], r)]

GetTotalWeightAt(r) == LookupAt(totalHist, r)

(* The product is taken in u128. *)
RequiredOf(total, t) == (total * t.num) \div t.den

RequiredWeight == RequiredOf(GetTotalWeight, threshold)

(* The total of ledger r, and the threshold of now. *)
RequiredWeightAt(r) == RequiredOf(GetTotalWeightAt(r), threshold)

ListSigners ==
  LET live == SelectSeq(allSigners, Registered)
  IN  [i \in DOMAIN live |-> [key |-> live[i], weight |-> GetSignerWeight(live[i])]]

-----------------------------------------------------------------------------
(* Storage: the sorted list of registered keys *)

(* Where the scan of the list stops: the first key not below `key`. *)
ScanStop(list, key) ==
  CHOOSE n \in 1..(Len(list) + 1) :
    /\ \A i \in 1..(n - 1) : list[i] < key
    /\ n <= Len(list) => list[n] >= key

FoundAt(list, n, key) == n <= Len(list) /\ list[n] = key

(* The key is put at the end of the list. *)
InsertAllSigners_Fault(list, key) == Append(list, key)

InsertAllSigners(list, key) ==
  LET n == ScanStop(list, key)
  IN  IF FoundAt(list, n, key) THEN list
      ELSE SubSeq(list, 1, n - 1) \o <<key>> \o SubSeq(list, n, Len(list))

RemoveAllSigners(list, key) ==
  LET n == ScanStop(list, key)
  IN  IF FoundAt(list, n, key)
      THEN SubSeq(list, 1, n - 1) \o SubSeq(list, n + 1, Len(list))
      ELSE list

-----------------------------------------------------------------------------
(* Storage: changes *)

(* vec_history::push of a weight of `key` and of the total. *)
PushWeights(key, weight, total) ==
  /\ weightHist' = [weightHist EXCEPT ![key] = Push(@, ledger, weight, HistoryCutoff)]
  /\ totalHist' = Push(totalHist, ledger, total, HistoryCutoff)
  /\ weightLog' = [weightLog EXCEPT ![key] = Put(@, ledger, weight)]
  /\ totalLog' = Put(totalLog, ledger, total)

(* The old weight of a signer that is updated stays in the total. *)
StoreSigner_Fault(key, weight) ==
  /\ FitsU64(GetTotalWeight + weight)
  /\ allSigners' = IF Registered(key) THEN allSigners ELSE InsertAllSigners(allSigners, key)
  /\ PushWeights(key, weight, GetTotalWeight + weight)

(* storage::add_signer.  Both u64 operations are checked: when one would   *)
(* leave 0..U64Max the call traps.                                         *)
StoreSigner(key, weight) ==
  LET old == GetSignerWeight(key)
      total == GetTotalWeight - old + weight
  IN  /\ old <= GetTotalWeight
      /\ FitsU64(total)
      /\ allSigners' = IF Registered(key) THEN allSigners ELSE InsertAllSigners(allSigners, key)
      /\ PushWeights(key, weight, total)

(* storage::remove_signer, of a registered key. *)
DropSigner(key) ==
  /\ Registered(key)
  /\ GetSignerWeight(key) <= GetTotalWeight
  /\ allSigners' = RemoveAllSigners(allSigners, key)
  /\ PushWeights(key, 0, GetTotalWeight - GetSignerWeight(key))

-----------------------------------------------------------------------------
(* Contract *)

ValidThreshold(num, den) == den # 0 /\ num # 0 /\ num <= den

ThresholdsOf(args) ==
  {[num |-> a[1], den |-> a[2]] : a \in {b \in args : ValidThreshold(b[1], b[2])}}

(* __constructor *)
Init ==
  /\ AdminInit
  /\ ledger = 0
  /\ threshold \in ThresholdsOf(ThresholdArgs)
  /\ allSigners = <<>>
  /\ weightHist = [k \in Keys |-> <<>>]
  /\ totalHist = <<>>
  /\ weightLog = [k \in Keys |-> <<>>]
  /\ totalLog = <<>>

(* add_signer *)
AddSigner(caller, key, weight) ==
  /\ RequireAuth(caller, admin)
  /\ weight # 0
  /\ StoreSigner(key, weight)
  /\ UNCHANGED <<adminVars, ledger, threshold>>

(* remove_signer; of an unregistered key it changes nothing. *)
RemoveSigner(caller, key) ==
  /\ RequireAuth(caller, admin)
  /\ \/ DropSigner(key)
     \/ ~Registered(key) /\ UNCHANGED registryVars
  /\ UNCHANGED <<adminVars, ledger, threshold>>

(* The check for a zero denominator is dropped. *)
SetThreshold_Fault(caller, num, den) ==
  /\ RequireAuth(caller, admin)
  /\ num # 0
  /\ threshold' = [num |-> num, den |-> den]
  /\ UNCHANGED <<adminVars, ledger, registryVars>>

(* set_threshold *)
SetThreshold(caller, num, den) ==
  /\ RequireAuth(caller, admin)
  /\ ValidThreshold(num, den)
  /\ threshold' = [num |-> num, den |-> den]
  /\ UNCHANGED <<adminVars, ledger, registryVars>>

(* The network closes a ledger. *)
CloseLedger ==
  /\ ledger < MaxLedger
  /\ ledger' = ledger + 1
  /\ UNCHANGED <<adminVars, threshold, registryVars>>

Invocation(caller) ==
  \/ \E key \in Keys, weight \in Weights : AddSigner(caller, key, weight)
  \/ \E key \in Keys : RemoveSigner(caller, key)
  \/ \E a \in ThresholdArgs : SetThreshold(caller, a[1], a[2])

Next ==
  \/ \E caller \in Addresses : Invocation(caller)
  \/ AdminNext /\ UNCHANGED securityVars
  \/ CloseLedger

Spec == Init /\ [][Next]_vars

-----------------------------------------------------------------------------
(* Properties *)

IsThreshold(t) ==
  /\ t.num \in Nat /\ t.den \in Nat
  /\ ValidThreshold(t.num, t.den)

TypeOK ==
  /\ AdminTypeOK
  /\ ledger \in Nat
  /\ threshold \in [num : Nat, den : Nat] /\ IsThreshold(threshold)
  /\ allSigners \in Seq(Keys)
  /\ weightHist \in [Keys -> Seq(Entries)]
  /\ totalHist \in Seq(Entries)
  /\ weightLog \in [Keys -> Seq(Entries)]
  /\ totalLog \in Seq(Entries)

(* The oldest ledger all stored histories still answer for. *)
WindowStart == SaturatingSub(ledger, HistoryCutoff)

(* The inductive invariant behind the properties of the histories: every   *)
(* stored history is what pruning leaves of an ordered full one.           *)
HistoriesInv ==
  /\ \A k \in Keys : Timeline(weightHist[k], weightLog[k], ledger, HistoryCutoff)
  /\ Timeline(totalHist, totalLog, ledger, HistoryCutoff)

(* Pruning to HISTORY_CUTOFF is invisible inside the window: every lookup  *)
(* there gives what the full, never pruned timeline gives.                 *)
WindowFaithful ==
  \A r \in WindowStart..ledger :
    /\ \A k \in Keys : GetSignerWeightAt(k, r) = LookupAt(weightLog[k], r)
    /\ GetTotalWeightAt(r) = LookupAt(totalLog, r)

(* Before the window a lookup may miss a pruned value, and then says 0; it *)
(* never gives a weight that was not the weight of that ledger.            *)
NeverInvents ==
  \A r \in 0..ledger :
    /\ \A k \in Keys : GetSignerWeightAt(k, r) \in {0, LookupAt(weightLog[k], r)}
    /\ GetTotalWeightAt(r) \in {0, LookupAt(totalLog, r)}

(* A history never holds more than a window of entries and one older one,  *)
(* however many changes are made: storage does not grow without bound.     *)
HistoryBounded ==
  /\ \A k \in Keys : Len(weightHist[k]) <= HistoryCutoff + 2
  /\ Len(totalHist) <= HistoryCutoff + 2

(* The list of signers is strictly ascending and holds exactly the keys    *)
(* with a weight.                                                          *)
RegistryConsistent ==
  /\ \A i, j \in DOMAIN allSigners : i < j => allSigners[i] < allSigners[j]
  /\ \A k \in Keys : Registered(k) <=> \E i \in DOMAIN allSigners : allSigners[i] = k

(* At every ledger of the window the recorded total is the sum of the      *)
(* recorded weights; so neither u64 subtraction of add_signer and          *)
(* remove_signer ever underflows, and the sum verify makes never overflows.*)
TotalIsSum ==
  \A r \in WindowStart..ledger :
    GetTotalWeightAt(r) = SumTo([k \in Keys |-> GetSignerWeightAt(k, r)], NumKeys)

(* What a query answers about a ledger that is over never changes while    *)
(* that ledger is in the window, whatever the administrator does.          *)
PastWeightsFixed ==
  [][\A r \in 0..(ledger - 1) : r >= WindowStart' =>
       /\ \A k \in Keys : GetSignerWeightAt(k, r)' = GetSignerWeightAt(k, r)
       /\ GetTotalWeightAt(r)' = GetTotalWeightAt(r)]_vars
=============================================================================
