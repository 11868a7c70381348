------------------------------ MODULE LoopProofs ------------------------------
(***************************************************************************)
(* Theorems about the two loops of the contracts, step by step: the binary *)
(* search of lookup_at and the signatures of verify, for timelines and     *)
(* lists of signatures of any length.                                      *)
(***************************************************************************)
EXTENDS HistoryLookup, VerifyLoop, WeightProofs, SequenceTheorems

-----------------------------------------------------------------------------
(* lookup_at *)
LookupInv == TypeOK /\ SearchInv /\ ResultCorrect

(* The entries of a timeline, and that later ones have later ledgers. *)
LEMMA HistoryFacts ==
  ASSUME NEW s \in Histories
  PROVE  /\ s \in Seq(Entries)
         /\ Len(s) \in Nat
         /\ DOMAIN s = 1..Len(s)
         /\ \A n \in 1..Len(s) : s[n].ledger \in Nat /\ s[n].value \in Nat
         /\ \A m, n \in 1..Len(s) : m < n => s[m].ledger < s[n].ledger
<1>1. s \in Seq(Entries) /\ Ordered(s)
  BY HistoriesAssumption
<1>2. \A n \in 1..Len(s) : s[n].ledger \in Nat /\ s[n].value \in Nat
  BY <1>1, EntryFacts
<1>3. \A m, n \in 1..Len(s) : m < n => s[m].ledger < s[n].ledger
  BY <1>1, <1>2 DEF Ordered
<1> QED BY <1>1, <1>2, <1>3

LEMMA LookupInvInit == LookupInit => LookupInv
BY DEF LookupInit, LookupInv, TypeOK, SearchInv, ResultCorrect, Default

LEMMA LookupInvNext == LookupInv /\ [LookupNext]_lookupVars => LookupInv'
<1> SUFFICES ASSUME LookupInv, [LookupNext]_lookupVars PROVE LookupInv'
  OBVIOUS
<1> USE DEF LookupInv
<1>0. /\ h \in Histories /\ target \in Nat
      /\ h \in Seq(Entries) /\ Len(h) \in Nat /\ DOMAIN h = 1..Len(h)
      /\ \A n \in 1..Len(h) : h[n].ledger \in Nat /\ h[n].value \in Nat
      /\ \A m, n \in 1..Len(h) : m < n => h[m].ledger < h[n].ledger
  BY HistoryFacts, TargetsAssumption DEF TypeOK
<1>1. CASE ReturnEmpty
  <2>0. \A j \in 1..Len(h) : h[j].ledger > target
    BY <1>1 DEF ReturnEmpty
  <2>1. LookupAt(h, target) = Default
    BY <1>0, <2>0, LookupIsDefault
  <2> QED BY <1>1, <2>1 DEF ReturnEmpty, ReturnValue, TypeOK, SearchInv, ResultCorrect, Default
<1>2. CASE ReturnLatest
  <2>1. Len(h) \in 1..Len(h)
    BY <1>0, <1>2 DEF ReturnLatest
  <2>2. LookupAt(h, target) = h[Len(h)].value
    <3>1. h[Len(h)].ledger <= target
      BY <1>2 DEF ReturnLatest
    <3>2. \A j \in 1..Len(h) : j > Len(h) => h[j].ledger > target
      BY <1>0
    <3> QED BY <1>0, <2>1, <3>1, <3>2, LookupIsEntry
  <2>3. /\ phase' = "done" /\ found' = LookupAt(h, target) /\ found' \in Nat
        /\ UNCHANGED <<h, target, lo, hi>>
    BY <1>0, <1>2, <2>1, <2>2 DEF ReturnLatest, ReturnValue
  <2> QED BY <2>3 DEF TypeOK, SearchInv, ResultCorrect
<1>3. CASE ReturnBeforeFirst
  <2>1. \A j \in 1..Len(h) : h[j].ledger > target
    BY <1>0, <1>3 DEF ReturnBeforeFirst
  <2>2. LookupAt(h, target) = Default
    BY <1>0, <2>1, LookupIsDefault
  <2> QED BY <1>3, <2>2 DEF ReturnBeforeFirst, ReturnValue, TypeOK, SearchInv, ResultCorrect, Default
<1>4. CASE StartSearch
  <2>1. Len(h) >= 1
    BY <1>0, <1>4 DEF StartSearch
  <2> QED BY <1>0, <1>4, <2>1 DEF StartSearch, TypeOK, SearchInv, ResultCorrect
<1>5. CASE Narrow
  <2> DEFINE mid == Mid(lo, hi)
  <2>1. /\ lo \in 1..Len(h) /\ hi \in 1..Len(h) /\ lo < hi
        /\ h[lo].ledger <= target
        /\ \A j \in DOMAIN h : j > hi => h[j].ledger > target
    BY <1>5 DEF Narrow, TypeOK, SearchInv
  <2>2. mid \in 1..Len(h) /\ lo < mid /\ mid <= hi
    BY <1>0, <2>1 DEF Mid
  <2>3. CASE h[mid].ledger <= target
    <3>1. lo' = mid /\ hi' = hi /\ UNCHANGED <<h, target, phase, found>>
      BY <1>5, <2>3 DEF Narrow
    <3> QED BY <1>0, <1>5, <2>1, <2>2, <2>3, <3>1 DEF TypeOK, SearchInv, ResultCorrect, Narrow
  <2>4. CASE ~(h[mid].ledger <= target)
    <3>1. lo' = lo /\ hi' = mid - 1 /\ UNCHANGED <<h, target, phase, found>>
      BY <1>5, <2>4 DEF Narrow
    <3>2. h[mid].ledger > target
      BY <1>0, <2>2, <2>4
    <3>3. \A j \in DOMAIN h : j > mid - 1 => h[j].ledger > target
      BY <1>0, <2>2, <3>2
    <3> QED BY <1>0, <1>5, <2>1, <2>2, <3>1, <3>3 DEF TypeOK, SearchInv, ResultCorrect, Narrow
  <2> QED BY <2>3, <2>4
<1>6. CASE ReturnFound
  <2>1. /\ lo \in 1..Len(h) /\ hi \in 1..Len(h) /\ lo = hi
        /\ h[lo].ledger <= target
        /\ \A j \in 1..Len(h) : j > lo => h[j].ledger > target
    BY <1>0, <1>6 DEF ReturnFound, TypeOK, SearchInv
  <2>2. LookupAt(h, target) = h[lo].value
    BY <1>0, <2>1, LookupIsEntry
  <2>3. /\ phase' = "done" /\ found' = LookupAt(h, target) /\ found' \in Nat
        /\ UNCHANGED <<h, target, lo, hi>>
    BY <1>0, <1>6, <2>1, <2>2 DEF ReturnFound, ReturnValue
  <2> QED BY <2>3 DEF TypeOK, SearchInv, ResultCorrect
<1>7. CASE LookupReturned
  BY <1>7 DEF LookupReturned, lookupVars, TypeOK, SearchInv, ResultCorrect
<1>8. CASE UNCHANGED lookupVars
  BY <1>8 DEF lookupVars, TypeOK, SearchInv, ResultCorrect
<1> QED
  BY <1>1, <1>2, <1>3, <1>4, <1>5, <1>6, <1>7, <1>8 DEF LookupNext

(* The search never leaves the loaded entries (vec_history.rs, lookup_at): *)
(* every index it reads is one of the timeline's, whatever its length.     *)
THEOREM LookupStaysInBounds == LookupSpec => []TypeOK
<1>1. LookupInv => TypeOK
  BY DEF LookupInv
<1> QED BY LookupInvInit, LookupInvNext, <1>1, PTL DEF LookupSpec

(* lookup_at (vec_history.rs, checkpoint.rs) returns the value of the last *)
(* entry at or before the target, or the default, whatever the timeline.   *)
THEOREM LookupCorrect == LookupSpec => []ResultCorrect
<1>1. LookupInv => ResultCorrect
  BY DEF LookupInv
<1> QED BY LookupInvInit, LookupInvNext, <1>1, PTL DEF LookupSpec

-----------------------------------------------------------------------------
(* The loop of verify. *)
LoopTypeOK ==
  /\ scheme \in Schemes
  /\ sigs \in Seq(Signatures) /\ signers \in Seq(Keys)
  /\ registered \in [Keys -> 0..MaxWeight]
  /\ required \in Nat
  /\ i \in Nat /\ total \in Nat
  /\ pc \in {"start", "loop", "done"}

(* Before the call returns, the first i - 1 signatures have passed and     *)
(* total is the weight of their signers; then the answer is VerifyOutcome. *)
LoopInv ==
  /\ LoopTypeOK
  /\ pc = "start" => i = 1 /\ total = 0 /\ result = "none"
  /\ pc = "loop" =>
       /\ Precheck(sigs, signers, required) = "Ok"
       /\ i \in 1..(Len(sigs) + 1)
       /\ GoesOn(i - 1, scheme, Message, sigs, signers, weights)
       /\ total = SumTo(weights, i - 1)
       /\ result = "none"
  /\ pc = "done" =>
       result = VerifyOutcome(scheme, Message, sigs, signers, weights, required)

LEMMA CallFacts ==
  ASSUME LoopTypeOK
  PROVE  /\ Len(sigs) \in Nat /\ DOMAIN sigs = 1..Len(sigs)
         /\ Len(signers) \in Nat /\ DOMAIN signers = 1..Len(signers)
         /\ DOMAIN weights = 1..Len(signers)
         /\ \A j \in 1..Len(signers) :
              signers[j] \in Keys /\ weights[j] = registered[signers[j]] /\ weights[j] \in 0..MaxWeight
         /\ \A k \in Keys : registered[k] \in Nat
         /\ NumKeys \in Nat
<1>1. Len(sigs) \in Nat /\ DOMAIN sigs = 1..Len(sigs)
  BY DEF LoopTypeOK
<1>2. Len(signers) \in Nat /\ DOMAIN signers = 1..Len(signers)
  BY DEF LoopTypeOK
<1>3. \A j \in 1..Len(signers) : signers[j] \in Keys
  BY DEF LoopTypeOK
<1>4. \A k \in Keys : registered[k] \in 0..MaxWeight
  BY DEF LoopTypeOK
<1>5. NumKeys \in Nat /\ MaxWeight \in Nat
  BY BoundsAssumption
<1> QED BY <1>1, <1>2, <1>3, <1>4, <1>5 DEF weights

(* A list of a bounded length is a sequence. *)
LEMMA UpToIsSeq ==
  ASSUME NEW n \in Nat, NEW S, NEW s \in UpTo(n, S)
  PROVE  s \in Seq(S)
<1>1. PICK m \in 0..n : s \in [1..m -> S]
  BY DEF UpTo
<1> QED BY <1>1, SeqDef

LEMMA LoopInvInit == Init => LoopInv
<1> SUFFICES ASSUME Init PROVE LoopInv
  OBVIOUS
<1>1. sigs \in Seq(Signatures) /\ signers \in Seq(Keys)
  BY BoundsAssumption, UpToIsSeq DEF Init
<1>2. required \in Nat
  BY BoundsAssumption DEF Init
<1> QED BY <1>1, <1>2 DEF Init, LoopInv, LoopTypeOK

LEMMA LoopInvNext == LoopInv /\ [Next]_vars => LoopInv'
<1> SUFFICES ASSUME LoopInv, [Next]_vars PROVE LoopInv'
  OBVIOUS
<1>0. LoopTypeOK
  BY DEF LoopInv
<1>1. CASE Start
  <2> DEFINE precheck == Precheck(sigs, signers, required)
  <2>1. i = 1 /\ total = 0 /\ result = "none" /\ UNCHANGED <<call, i, total>> /\ weights' = weights
    BY <1>1 DEF Start, LoopInv, call, weights
  <2>2. CASE precheck # "Ok" /\ Return(precheck)
    <3>1. VerifyOutcome(scheme, Message, sigs, signers, weights, required) = precheck
      BY <2>2 DEF VerifyOutcome
    <3> HIDE DEF precheck
    <3> QED BY <1>0, <2>1, <2>2, <3>1 DEF Return, LoopInv, LoopTypeOK, call
  <2>3. CASE precheck = "Ok" /\ pc' = "loop" /\ UNCHANGED result
    <3>1. GoesOn(0, scheme, Message, sigs, signers, weights)
      BY DEF GoesOn
    <3>2. SumTo(weights, 0) = 0
      BY SumSteps
    <3>3. 1 \in 1..(Len(sigs) + 1) /\ 1 - 1 = 0
      BY <1>0, CallFacts
    <3> HIDE DEF precheck
    <3>4. Precheck(sigs, signers, required) = "Ok"
      BY <2>3 DEF precheck
    <3> QED BY <1>0, <2>1, <2>3, <3>1, <3>2, <3>3, <3>4 DEF LoopInv, LoopTypeOK, call
  <2> QED BY <1>1, <2>2, <2>3 DEF Start
<1>2. CASE Iterate
  <2> DEFINE step == Iteration(scheme, i, total, Message, sigs, signers, weights)
  <2>1. /\ Precheck(sigs, signers, required) = "Ok"
        /\ i \in 1..Len(sigs) /\ i \in Nat /\ total = SumTo(weights, i - 1) /\ result = "none"
        /\ GoesOn(i - 1, scheme, Message, sigs, signers, weights)
        /\ UNCHANGED call /\ weights' = weights
    BY <1>0, <1>2, CallFacts DEF Iterate, LoopInv, call, weights
  <2>2. CASE step # "Ok" /\ Return(step) /\ UNCHANGED <<i, total>>
    <3>1. VerifyOutcome(scheme, Message, sigs, signers, weights, required) = step
      BY <1>0, <2>1, <2>2, CallFacts, OutcomeFails
    <3> HIDE DEF step
    <3> QED BY <1>0, <2>1, <2>2, <3>1 DEF Return, LoopInv, LoopTypeOK, call
  <2>3. CASE step = "Ok" /\ i' = i + 1 /\ total' = total + weights[i] /\ UNCHANGED <<pc, result>>
    <3>1. GoesOn(i, scheme, Message, sigs, signers, weights)
      <4>1. \A j \in 1..i : j = i \/ j \in 1..(i - 1)
        BY <2>1
      <4> QED BY <2>1, <2>3, <4>1 DEF GoesOn
    <3>2. SumTo(weights, i) = total + weights[i]
      <4>1. i - 1 \in Nat /\ (i - 1) + 1 = i
        BY <2>1
      <4> QED BY <2>1, <4>1, SumSteps
    <3>3. i + 1 \in 1..(Len(sigs) + 1) /\ (i + 1) - 1 = i
      BY <1>0, <2>1, CallFacts
    <3>4. total + weights[i] \in Nat
      <4>1. Len(sigs) = Len(signers)
        BY <2>1 DEF Precheck
      <4>2. weights[i] \in Nat
        BY <1>0, <2>1, <4>1, CallFacts, BoundsAssumption
      <4> QED BY <1>0, <4>2 DEF LoopTypeOK
    <3>5. pc = "loop"
      BY <1>2 DEF Iterate
    <3> HIDE DEF step
    <3> QED BY <1>0, <2>1, <2>3, <3>1, <3>2, <3>3, <3>4, <3>5 DEF LoopInv, LoopTypeOK, call
  <2> QED BY <1>2, <2>2, <2>3 DEF Iterate
<1>3. CASE Finish
  <2>1. /\ Precheck(sigs, signers, required) = "Ok"
        /\ i - 1 = Len(sigs) /\ total = SumTo(weights, i - 1)
        /\ GoesOn(i - 1, scheme, Message, sigs, signers, weights)
        /\ UNCHANGED <<call, i, total>> /\ weights' = weights
    BY <1>0, <1>3, CallFacts DEF Finish, LoopInv, call, weights
  <2>2. VerifyOutcome(scheme, Message, sigs, signers, weights, required) =
          IF total < required THEN "InsufficientWeight" ELSE "Ok"
    BY <1>0, <2>1, CallFacts, OutcomeWeighs
  <2> QED BY <1>0, <1>3, <2>1, <2>2 DEF Finish, Return, LoopInv, LoopTypeOK, call
<1>4. CASE UNCHANGED vars
  <2>1. weights' = weights
    BY <1>4 DEF vars, call, weights
  <2> QED BY <1>4, <2>1 DEF vars, call, LoopInv, LoopTypeOK
<1> QED BY <1>1, <1>2, <1>3, <1>4 DEF Next, Returned

LEMMA LoopInvariant == Spec => []LoopInv
BY LoopInvInit, LoopInvNext, PTL DEF Spec

(* The loop of verify ends with what VerifyOutcome says, error by error,   *)
(* for lists of any length: the handlers of module Handler call the latter.*)
THEOREM LoopComputesOutcome == Spec => []LoopIsOutcome
<1>1. LoopInv => LoopIsOutcome
  BY DEF LoopInv, LoopIsOutcome
<1> QED BY <1>1, LoopInvariant, PTL

(* The weights verify reads are those of the registry. *)
LEMMA WeightsAreRegistered ==
  ASSUME LoopTypeOK, NEW m \in Nat, m <= Len(signers)
  PROVE  WeightsFrom(m, NumKeys, registered, signers, weights)
<1>1. \A j \in 1..m : j \in 1..Len(signers)
  BY CallFacts
<1> QED BY <1>1, CallFacts DEF WeightsFrom, Keys

(* The weight of a set that holds the first m signers, against theirs. *)
LEMMA ListedWeight ==
  ASSUME LoopTypeOK, NEW m \in Nat, m <= Len(signers), NEW S,
         \A j \in 1..m : signers[j] \in S
  PROVE  /\ WeightOf(S) \in Nat
         /\ WeightOfListed(NumKeys, registered, m, signers) \in Nat
         /\ WeightOfListed(NumKeys, registered, m, signers) <= WeightOf(S)
         /\ (\A k \in S : \E j \in 1..m : signers[j] = k) =>
              WeightOfListed(NumKeys, registered, m, signers) = WeightOf(S)
<1>1. NumKeys \in Nat /\ \A k \in 1..NumKeys : registered[k] \in Nat
  BY CallFacts DEF Keys
<1>2. WeightOf(S) = WeightOfSet(NumKeys, registered, S)
  BY DEF WeightOf, WeightOfSet, Keys
<1> QED BY <1>1, <1>2, ListedInSet

(* What a call that ended with Ok has established. *)
LEMMA AcceptedFacts ==
  ASSUME LoopInv, result = "Ok"
  PROVE  /\ required > 0 /\ Len(sigs) = Len(signers)
         /\ \A j \in 1..Len(sigs) : sigs[j] = Signed(signers[j], Message) /\ weights[j] # 0
         /\ WeightOf(SignedBy) >= required
<1>1. pc = "done" /\ LoopTypeOK
  BY DEF LoopInv, LoopTypeOK
<1>2. VerifyOutcome(scheme, Message, sigs, signers, weights, required) = "Ok"
  BY <1>1 DEF LoopInv
<1>3. /\ required # 0 /\ Len(sigs) = Len(signers)
      /\ GoesOn(Len(sigs), scheme, Message, sigs, signers, weights)
      /\ ~(SumTo(weights, Len(sigs)) < required)
  <2>1. Len(signers) \in Nat /\ DOMAIN sigs = 1..Len(sigs)
    BY <1>1, CallFacts
  <2> QED BY <1>2, <2>1, OutcomeOk
<1>4. WeightsFrom(Len(sigs), NumKeys, registered, signers, weights)
  BY <1>1, <1>3, CallFacts, WeightsAreRegistered
<1>5. /\ \A j \in 1..Len(sigs) : sigs[j] = Signed(signers[j], Message) /\ weights[j] # 0
      /\ SumTo(weights, Len(sigs)) = WeightOfListed(NumKeys, registered, Len(sigs), signers)
  <2>1. scheme \in Schemes /\ Len(sigs) \in Nat
    BY <1>1, CallFacts DEF LoopTypeOK
  <2> QED BY <1>3, <1>4, <2>1, GoneOn
<1>6. /\ \A j \in 1..Len(sigs) : signers[j] \in SignedBy
      /\ \A k \in SignedBy : \E j \in 1..Len(sigs) : signers[j] = k
  BY <1>1, <1>3, <1>5, CallFacts DEF SignedBy
<1>7. /\ WeightOf(SignedBy) \in Nat
      /\ WeightOfListed(NumKeys, registered, Len(sigs), signers) = WeightOf(SignedBy)
  <2>1. Len(sigs) \in Nat /\ Len(sigs) <= Len(signers)
    BY <1>1, <1>3, CallFacts
  <2> QED BY <1>1, <1>6, <2>1, ListedWeight
<1>8. required \in Nat
  BY <1>1 DEF LoopTypeOK
<1> QED BY <1>3, <1>5, <1>7, <1>8

(* verify accepts only when the set of keys that signed this envelope,     *)
(* each counted once however often it is listed, weighs what is required.  *)
THEOREM AcceptedWeighEnough == Spec => []AcceptedIsQuorum
<1>1. LoopInv => AcceptedIsQuorum
  BY AcceptedFacts DEF AcceptedIsQuorum
<1> QED BY <1>1, LoopInvariant, PTL

(* What its key signed passes the signature check of either contract. *)
LEMMA GoodSignature ==
  ASSUME NEW s \in Schemes, NEW k, NEW m
  PROVE  SignatureCheck(s, Signed(k, m), k, m) = "Ok"
BY DEF Schemes, SignatureCheck, Ed25519Check, Secp256k1Check, Signed

(* The weights of signers in order add up to the weight of the set of them,*)
(* and fit a u64 when those of a larger set do.                            *)
LEMMA SumInSet ==
  ASSUME LoopTypeOK, NEW m \in Nat, m <= Len(signers), NEW S,
         \A j \in 1..m : signers[j] \in S,
         \A j \in 2..m : signers[j - 1] < signers[j],
         FitsU64(WeightOf(S))
  PROVE  /\ SumTo(weights, m) = WeightOfListed(NumKeys, registered, m, signers)
         /\ FitsU64(SumTo(weights, m))
<1>1. WeightsFrom(m, NumKeys, registered, signers, weights)
  BY WeightsAreRegistered
<1>2. \A j \in 1..m : signers[j] \in Nat
  BY <1>1 DEF WeightsFrom
<1>3. \A j, k \in 1..m : j < k => signers[j] < signers[k]
  BY <1>2, AscendingSteps
<1>4. SumTo(weights, m) = WeightOfListed(NumKeys, registered, m, signers)
  BY <1>1, <1>3, SumOfListed DEF WeightsFrom
<1>5. /\ WeightOf(S) \in Nat
      /\ WeightOfListed(NumKeys, registered, m, signers) \in Nat
      /\ WeightOfListed(NumKeys, registered, m, signers) <= WeightOf(S)
  BY ListedWeight
<1> QED BY <1>4, <1>5, U64MaxAssumption DEF FitsU64

LEMMA GoodCallFacts ==
  ASSUME LoopTypeOK, GoodCall
  PROVE  /\ Precheck(sigs, signers, required) = "Ok"
         /\ GoesOn(Len(sigs), scheme, Message, sigs, signers, weights)
         /\ SumTo(weights, Len(sigs)) = WeightOf(SignedBy)
<1>1. /\ Len(sigs) \in Nat /\ Len(sigs) = Len(signers)
      /\ DOMAIN sigs = 1..Len(sigs) /\ DOMAIN signers = 1..Len(sigs)
      /\ \A j \in 1..Len(sigs) : signers[j] \in Keys /\ weights[j] \in 0..MaxWeight
  BY CallFacts DEF GoodCall
<1>2. /\ \A j \in 1..Len(sigs) : sigs[j] = Signed(signers[j], Message) /\ weights[j] > 0
      /\ \A j, k \in 1..Len(sigs) : j < k => signers[j] < signers[k]
  BY <1>1 DEF GoodCall
<1>3. /\ \A j \in 1..Len(sigs) : signers[j] \in SignedBy
      /\ \A k \in SignedBy : \E j \in 1..Len(sigs) : signers[j] = k
  BY <1>1, <1>2 DEF SignedBy
<1>4. ASSUME NEW m \in 0..Len(sigs)
      PROVE  /\ SumTo(weights, m) = WeightOfListed(NumKeys, registered, m, signers)
             /\ FitsU64(SumTo(weights, m))
  <2>1. m \in Nat /\ m <= Len(signers) /\ FitsU64(WeightOf(SignedBy))
    BY <1>1 DEF GoodCall
  <2>2. \A j \in 1..m : j \in 1..Len(sigs)
    BY <1>1
  <2>3. \A j \in 2..m : j \in 1..Len(sigs) /\ j - 1 \in 1..Len(sigs) /\ j - 1 < j
    BY <1>1
  <2>4. \A j \in 1..m : signers[j] \in SignedBy
    BY <1>3, <2>2
  <2>5. \A j \in 2..m : signers[j - 1] < signers[j]
    BY <1>2, <2>3
  <2> QED BY <2>1, <2>4, <2>5, SumInSet
<1>5. SumTo(weights, Len(sigs)) = WeightOf(SignedBy)
  <2>1. SumTo(weights, Len(sigs)) = WeightOfListed(NumKeys, registered, Len(sigs), signers)
    BY <1>1, <1>4
  <2> QED BY <1>1, <1>3, <2>1, ListedWeight
<1>6. Precheck(sigs, signers, required) = "Ok"
  <2>1. required # 0 /\ required \in Nat /\ WeightOf(SignedBy) >= required
    BY DEF GoodCall, LoopTypeOK
  <2>2. Len(sigs) # 0
    BY <1>5, <2>1, SumSteps
  <2>3. sigs # <<>>
    BY <2>2
  <2> QED BY <1>1, <2>1, <2>3 DEF Precheck
<1>7. ASSUME NEW j \in 1..Len(sigs)
      PROVE  Iteration(scheme, j, SumTo(weights, j - 1), Message, sigs, signers, weights) = "Ok"
  <2>1. ~Unordered(j, signers)
    <3>1. CASE j > 1
      <4>1. j - 1 \in 1..Len(sigs) /\ j - 1 < j
        BY <1>1, <3>1
      <4>2. signers[j - 1] < signers[j] /\ signers[j - 1] \in Keys /\ signers[j] \in Keys
        BY <1>1, <1>2, <4>1
      <4> QED BY <4>2, BoundsAssumption DEF Unordered, Keys
    <3> QED BY <3>1 DEF Unordered
  <2>2. SignatureCheck(scheme, sigs[j], signers[j], Message) = "Ok"
    BY <1>2, GoodSignature DEF LoopTypeOK
  <2>3. weights[j] # 0
    BY <1>1, <1>2
  <2>4. FitsU64(SumTo(weights, j - 1) + weights[j])
    <3>1. j - 1 \in Nat /\ (j - 1) + 1 = j /\ j \in 0..Len(sigs)
      BY <1>1
    <3>2. SumTo(weights, j) = SumTo(weights, j - 1) + weights[j]
      BY <3>1, SumSteps
    <3> QED BY <1>4, <3>1, <3>2
  <2> QED BY <2>1, <2>2, <2>3, <2>4 DEF Iteration
<1> QED BY <1>5, <1>6, <1>7 DEF GoesOn

(* verify rejects no list of registered keys in ascending order with good  *)
(* signatures and enough weight (the loop of verify, both contracts).      *)
THEOREM GoodCallAccepted == Spec => []QuorumAccepted
<1>1. ASSUME LoopInv, pc = "done", GoodCall PROVE result = "Ok"
  <2>1. LoopTypeOK /\ result = VerifyOutcome(scheme, Message, sigs, signers, weights, required)
    BY <1>1 DEF LoopInv
  <2>2. /\ Precheck(sigs, signers, required) = "Ok"
        /\ GoesOn(Len(sigs), scheme, Message, sigs, signers, weights)
        /\ SumTo(weights, Len(sigs)) = WeightOf(SignedBy)
    BY <1>1, <2>1, GoodCallFacts
  <2>3. result = IF SumTo(weights, Len(sigs)) < required THEN "InsufficientWeight" ELSE "Ok"
    BY <2>1, <2>2, CallFacts, OutcomeWeighs
  <2>4. WeightOf(SignedBy) \in Nat /\ required \in Nat /\ WeightOf(SignedBy) >= required
    <3>1. \A j \in 1..0 : signers[j] \in SignedBy
      OBVIOUS
    <3>2. 0 \in Nat /\ 0 <= Len(signers)
      BY <2>1, CallFacts
    <3> QED BY <1>1, <2>1, <3>1, <3>2, ListedWeight DEF GoodCall, LoopTypeOK
  <2> QED BY <2>2, <2>3, <2>4
<1>2. LoopInv => QuorumAccepted
  BY <1>1 DEF QuorumAccepted
<1> QED BY <1>2, LoopInvariant, PTL

(* check_one and verify agree: every signature of an accepted call passes  *)
(* check_one, and a call with one signature ends as check_one does.        *)
THEOREM CheckOneIsVerify == Spec => []CheckOneAgrees
<1>1. ASSUME LoopInv, result = "Ok", NEW j \in DOMAIN sigs
      PROVE  CheckOne(scheme, sigs[j], signers[j], Message, weights[j]) = "Ok"
  <2>1. LoopTypeOK
    BY <1>1 DEF LoopInv
  <2>2. j \in 1..Len(sigs)
    BY <1>1, <2>1, CallFacts
  <2>3. sigs[j] = Signed(signers[j], Message) /\ weights[j] # 0
    BY <1>1, <2>2, AcceptedFacts
  <2>4. SignatureCheck(scheme, sigs[j], signers[j], Message) = "Ok"
    BY <2>1, <2>3, GoodSignature DEF LoopTypeOK
  <2> QED BY <2>3, <2>4 DEF CheckOne
<1>2. ASSUME LoopInv, pc = "done", Len(sigs) = 1, Len(signers) = 1, required > 0
      PROVE  LET one == CheckOne(scheme, sigs[1], signers[1], Message, weights[1])
             IN  result = one \/ (one = "Ok" /\ result = "InsufficientWeight")
  <2> DEFINE check == SignatureCheck(scheme, sigs[1], signers[1], Message)
             one == CheckOne(scheme, sigs[1], signers[1], Message, weights[1])
             step == Iteration(scheme, 1, SumTo(weights, 0), Message, sigs, signers, weights)
  <2>1. LoopTypeOK /\ result = VerifyOutcome(scheme, Message, sigs, signers, weights, required)
    BY <1>2 DEF LoopInv
  <2>2. Precheck(sigs, signers, required) = "Ok"
    <3>1. sigs # <<>> /\ Len(sigs) = Len(signers)
      BY <1>2
    <3>2. required # 0
      BY <1>2, <2>1 DEF LoopTypeOK
    <3> QED BY <3>1, <3>2 DEF Precheck
  <2>3. weights[1] \in 0..MaxWeight
    BY <1>2, <2>1, CallFacts
  <2>4. one = IF check = "Ok" /\ weights[1] = 0 THEN "SignerNotRegistered" ELSE check
    BY DEF CheckOne
  <2>5. step = IF check # "Ok" THEN check ELSE IF weights[1] = 0 THEN "SignerNotRegistered" ELSE "Ok"
    <3>1. ~Unordered(1, signers)
      BY DEF Unordered
    <3>2. FitsU64(SumTo(weights, 0) + weights[1])
      <4>1. SumTo(weights, 0) = 0
        BY SumSteps
      <4> QED BY <2>3, <4>1, BoundsAssumption, U64MaxAssumption DEF FitsU64
    <3> QED BY <3>1, <3>2 DEF Iteration
  <2> HIDE DEF check
  <2>6. step = one
    BY <2>4, <2>5
  <2>7. Len(sigs) \in Nat /\ DOMAIN sigs = 1..Len(sigs)
    BY <2>1, CallFacts
  <2>8. CASE one # "Ok"
    <3>1. GoesOn(1 - 1, scheme, Message, sigs, signers, weights)
      BY DEF GoesOn
    <3>2. 1 - 1 = 0 /\ 1 \in 1..Len(sigs)
      BY <1>2
    <3> HIDE DEF one
    <3> QED BY <2>1, <2>2, <2>6, <2>7, <2>8, <3>1, <3>2, OutcomeFails DEF one
  <2>9. CASE one = "Ok"
    <3>1. GoesOn(Len(sigs), scheme, Message, sigs, signers, weights)
      <4>1. \A j \in 1..Len(sigs) : j = 1 /\ j - 1 = 0
        BY <1>2
      <4> QED BY <2>6, <2>9, <4>1 DEF GoesOn
    <3>2. result = IF SumTo(weights, Len(sigs)) < required THEN "InsufficientWeight" ELSE "Ok"
      BY <2>1, <2>2, <2>7, <3>1, OutcomeWeighs
    <3> QED BY <2>9, <3>2
  <2> QED BY <2>8, <2>9
<1>3. LoopInv => CheckOneAgrees
  BY <1>1, <1>2 DEF CheckOneAgrees
<1> QED BY <1>3, LoopInvariant, PTL

(* The sum of the weights cannot trap verify as long as those of all keys  *)
(* fit a u64 together: when a call traps, one of its signatures is bad.    *)
THEOREM TrapMeansBadSignature == Spec => []TrapIsBadSignature
<1>1. ASSUME LoopInv, result = "Trap", FitsU64(WeightOf(Keys)),
             \A j \in DOMAIN sigs : sigs[j] = Signed(signers[j], Message)
      PROVE  FALSE
  <2>1. LoopTypeOK /\ result = VerifyOutcome(scheme, Message, sigs, signers, weights, required)
    BY <1>1 DEF LoopInv, LoopTypeOK
  <2>2. Len(sigs) \in Nat /\ DOMAIN sigs = 1..Len(sigs)
    BY <2>1, CallFacts
  <2>3. Precheck(sigs, signers, required) = "Ok"
    <3> DEFINE precheck == Precheck(sigs, signers, required)
    <3>1. precheck # "Ok" => result = precheck
      BY <2>1 DEF VerifyOutcome
    <3>2. precheck # "Trap"
      BY DEF Precheck
    <3> HIDE DEF precheck
    <3>3. precheck = "Ok"
      BY <1>1, <3>1, <3>2
    <3> QED BY <3>3 DEF precheck
  <2>4. Len(sigs) = Len(signers)
    BY <2>3 DEF Precheck
  <2>5. ~GoesOn(Len(sigs), scheme, Message, sigs, signers, weights)
    <3>1. GoesOn(Len(sigs), scheme, Message, sigs, signers, weights) =>
            result = IF SumTo(weights, Len(sigs)) < required THEN "InsufficientWeight" ELSE "Ok"
      BY <2>1, <2>2, <2>3, OutcomeWeighs
    <3> QED BY <1>1, <3>1
  <2>6. PICK n \in 1..Len(sigs) :
          /\ GoesOn(n - 1, scheme, Message, sigs, signers, weights)
          /\ Iteration(scheme, n, SumTo(weights, n - 1), Message, sigs, signers, weights) = "Trap"
    BY <1>1, <2>1, <2>2, <2>3, <2>5, FirstFailure
  <2>7. /\ n \in Nat /\ n <= Len(signers) /\ n - 1 \in Nat /\ n - 1 <= Len(signers)
        /\ (n - 1) + 1 = n
    BY <2>2, <2>4
  <2>8. ~Unordered(n, signers) /\ ~FitsU64(SumTo(weights, n - 1) + weights[n])
    <3>1. SignatureCheck(scheme, sigs[n], signers[n], Message) = "Ok"
      BY <1>1, <2>1, <2>2, GoodSignature DEF LoopTypeOK
    <3> QED BY <2>6, <3>1 DEF Iteration
  <2>9. \A j \in 1..n : signers[j] \in Keys
    <3>1. \A j \in 1..n : j \in 1..Len(signers)
      BY <2>4
    <3> QED BY <2>1, <3>1, CallFacts
  <2>10. ASSUME NEW j \in 2..n PROVE signers[j - 1] < signers[j]
    <3>1. CASE j = n
      <4>1. n > 1 /\ n - 1 \in 1..n /\ n \in 1..n
        BY <3>1
      <4>2. ~(signers[n] <= signers[n - 1])
        BY <2>8, <4>1 DEF Unordered
      <4>3. signers[n] \in Nat /\ signers[n - 1] \in Nat
        BY <2>9, <4>1, BoundsAssumption DEF Keys
      <4> QED BY <3>1, <4>2, <4>3
    <3>2. CASE j # n
      <4>1. WeightsFrom(n - 1, NumKeys, registered, signers, weights)
        BY <2>1, <2>7, WeightsAreRegistered
      <4>2. scheme \in Schemes
        BY <2>1 DEF LoopTypeOK
      <4>3. \A k, m \in 1..(n - 1) : k < m => signers[k] < signers[m]
        BY <2>6, <2>7, <4>1, <4>2, GoneOn
      <4>4. j \in 1..(n - 1) /\ j - 1 \in 1..(n - 1) /\ j - 1 < j
        BY <3>2
      <4> QED BY <4>3, <4>4
    <3> QED BY <3>1, <3>2
  <2>11. FitsU64(SumTo(weights, n))
    BY <1>1, <2>1, <2>7, <2>9, <2>10, SumInSet
  <2>12. SumTo(weights, n) = SumTo(weights, n - 1) + weights[n]
    BY <2>7, SumSteps
  <2> QED BY <2>8, <2>11, <2>12
<1>2. LoopInv => TrapIsBadSignature
  BY <1>1 DEF TrapIsBadSignature
<1> QED BY <1>2, LoopInvariant, PTL
=============================================================================
