------------------------------ MODULE VerifyLoop ------------------------------
(***************************************************************************)
(* One call of verify, step by step: the checks before the loop, then one  *)
(* step per signature.  registered is what the Security contract would     *)
(* answer for each key at the reference block.                             *)
(***************************************************************************)
EXTENDS Verification

CONSTANTS
  NumKeys,       \* public keys are 1..NumKeys, in byte order
  Message,       \* the envelope of this call
  Signatures,    \* the signatures a call may carry
  MaxLen,        \* bound of the model: the longest list of signatures
  MaxWeight      \* bound of the model: the largest weight of a signer

(* Weights are u64. *)
ASSUME BoundsAssumption ==
  NumKeys \in Nat /\ MaxLen \in Nat /\ MaxWeight \in Nat /\ FitsU64(MaxWeight)

Keys == 1..NumKeys

VARIABLES
  scheme,          \* which of the twin contracts runs
  sigs, signers,   \* the arguments
  registered,      \* weight of each key at the reference block
  required,        \* required_weight_at the reference block
  i,               \* the iteration of the loop
  total,           \* total_weight
  pc,              \* "start", "loop" or "done"
  result           \* the answer, once pc = "done"

call == <<scheme, sigs, signers, registered, required>>
vars == <<call, i, total, pc, result>>

UpTo(n, S) == UNION {[1..m -> S] : m \in 0..n}

Init ==
  /\ scheme \in Schemes
  /\ sigs \in UpTo(MaxLen, Signatures)
  /\ signers \in UpTo(MaxLen, Keys)
  /\ registered \in [Keys -> 0..MaxWeight]
  /\ required \in 0..(MaxWeight * NumKeys)
  /\ i = 1
  /\ total = 0
  /\ pc = "start"
  /\ result = "none"

(* get_signer_weights_at *)
weights == [j \in DOMAIN signers |-> registered[signers[j]]]

Return(r) == pc' = "done" /\ result' = r

(* The checks before the loop. *)
Start ==
  /\ pc = "start"
  /\ LET precheck == Precheck(sigs, signers, required)
     IN  \/ precheck # "Ok" /\ Return(precheck)
         \/ precheck = "Ok" /\ pc' = "loop" /\ UNCHANGED result
  /\ UNCHANGED <<call, i, total>>

Iterate ==
  /\ pc = "loop"
  /\ i <= Len(sigs)
  /\ LET step == Iteration(scheme, i, total, Message, sigs, signers, weights)
     IN  \/ step # "Ok" /\ Return(step) /\ UNCHANGED <<i, total>>
         \/ /\ step = "Ok"
            /\ i' = i + 1
            /\ total' = total + weights[i]
            /\ UNCHANGED <<pc, result>>
  /\ UNCHANGED call

(* The threshold must be exceeded, not met. *)
Finish_Fault ==
  /\ pc = "loop"
  /\ i > Len(sigs)
  /\ Return(IF total <= required THEN "InsufficientWeight" ELSE "Ok")
  /\ UNCHANGED <<call, i, total>>

Finish ==
  /\ pc = "loop"
  /\ i > Len(sigs)
  /\ Return(IF total < required THEN "InsufficientWeight" ELSE "Ok")
  /\ UNCHANGED <<call, i, total>>

Returned == pc = "done" /\ UNCHANGED vars

Next == Start \/ Iterate \/ Finish \/ Returned

Spec == Init /\ [][Next]_vars

-----------------------------------------------------------------------------
(* The loop ends with what VerifyOutcome says, error by error. *)
LoopIsOutcome ==
  pc = "done" => result = VerifyOutcome(scheme, Message, sigs, signers, weights, required)

SignedBy == {k \in Keys : \E j \in DOMAIN sigs :
               j \in DOMAIN signers /\ signers[j] = k /\ sigs[j] = Signed(k, Message)}

WeightOf(S) == SumTo([k \in Keys |-> IF k \in S THEN registered[k] ELSE 0], NumKeys)

(* verify accepts only when the set of keys that signed this very envelope,*)
(* each counted once however often it is listed, weighs what is required.  *)
AcceptedIsQuorum ==
  result = "Ok" => required > 0 /\ WeightOf(SignedBy) >= required

(* A list verify has to accept: registered keys in ascending order, all    *)
(* signatures good, enough weight (README "Verification Flow").            *)
GoodCall ==
  /\ Len(sigs) = Len(signers)
  /\ \A j, k \in DOMAIN signers : j < k => signers[j] < signers[k]
  /\ \A j \in DOMAIN sigs : sigs[j] = Signed(signers[j], Message) /\ weights[j] > 0
  /\ required > 0 /\ WeightOf(SignedBy) >= required
  /\ FitsU64(WeightOf(SignedBy))

(* verify rejects no such list. *)
QuorumAccepted == pc = "done" /\ GoodCall => result = "Ok"

(* check_one and verify agree: every signature of an accepted call passes  *)
(* check_one, and a call with one signature fails with check_one's error.  *)
CheckOneAgrees ==
  LET one(j) == CheckOne(scheme, sigs[j], signers[j], Message, weights[j])
  IN  /\ result = "Ok" => \A j \in DOMAIN sigs : one(j) = "Ok"
      /\ pc = "done" /\ Len(sigs) = 1 /\ Len(signers) = 1 /\ required > 0 =>
           \/ result = one(1)
           \/ one(1) = "Ok" /\ result = "InsufficientWeight"

(* The addition of weights cannot trap when the registered weights fit a   *)
(* u64 together (Security's TotalIsSum): a trap is always a bad signature. *)
TrapIsBadSignature ==
  result = "Trap" /\ FitsU64(WeightOf(Keys)) =>
    \E j \in DOMAIN sigs : sigs[j] # Signed(signers[j], Message)
=============================================================================
