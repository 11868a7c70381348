---------------------------- MODULE AttestedEvents ----------------------------
(***************************************************************************)
(* What a Handler promises to whoever reads its events, without the        *)
(* contracts that keep the promise: no signatures, no pruned histories, no *)
(* order of checks.  There is a weight of every key at every ledger; the   *)
(* weights of a ledger that is over are facts.  An event is attested once, *)
(* with one payload, by keys that were a quorum at a recent past ledger.   *)
(*                                                                         *)
(* Module Handler implements it: Handler!Attested.                         *)
(***************************************************************************)
EXTENDS Words

CONSTANTS
  NumKeys,      \* keys are 1..NumKeys
  Events,
  Unattested,   \* the attestation of an event that has none
  Window        \* how many ledgers a quorum counts for after its ledger

VARIABLES
  now,         \* the open ledger
  fraction,    \* [num, den]: the share of the total a quorum needs
  weights,     \* the weight of each key, for each ledger up to now
  attested     \* for each event [payload, by, ref], or Unattested

abstractVars == <<now, fraction, weights, attested>>

WeightOf(S, r) ==
  SumTo([k \in 1..NumKeys |-> IF k \in S THEN weights[r][k] ELSE 0], NumKeys)

(* The share of the total weight of ledger r, rounded down. *)
QuorumWeight(r) == (WeightOf(1..NumKeys, r) * fraction.num) \div fraction.den

IsQuorum(S, r) == QuorumWeight(r) > 0 /\ WeightOf(S, r) >= QuorumWeight(r)

AbstractInit ==
  /\ now = 0
  /\ fraction.num <= fraction.den
  /\ weights = [r \in {0} |-> [k \in 1..NumKeys |-> 0]]
  /\ attested = [e \in Events |-> Unattested]

(* The administrator gives the keys other weights, from the open ledger on.*)
ChangeWeights ==
  /\ DOMAIN weights' = 0..now
  /\ \A r \in 0..(now - 1) : weights'[r] = weights[r]
  /\ UNCHANGED <<now, fraction, attested>>

ChangeFraction ==
  /\ fraction'.num > 0 /\ fraction'.num <= fraction'.den
  /\ UNCHANGED <<now, weights, attested>>

(* The weights of the ledger that closes are those the next one opens with.*)
Close ==
  /\ now' = now + 1
  /\ weights' = [r \in 0..(now + 1) |-> IF r <= now THEN weights[r] ELSE weights[now]]
  /\ UNCHANGED <<fraction, attested>>

Attest(e) ==
  /\ attested[e] = Unattested
  /\ attested'[e] # Unattested
  /\ LET a == attested'[e]
     IN  /\ a.ref < now /\ now <= a.ref + Window
         /\ IsQuorum(a.by, a.ref)
         /\ attested' = [attested EXCEPT ![e] = a]
  /\ UNCHANGED <<now, fraction, weights>>

AbstractNext ==
  \/ ChangeWeights
  \/ ChangeFraction
  \/ Close
  \/ \E e \in Events : Attest(e)

AbstractSpec == AbstractInit /\ [][AbstractNext]_abstractVars
=============================================================================
