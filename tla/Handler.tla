-------------------------------- MODULE Handler --------------------------------
(***************************************************************************)
(* A Handler (contracts/stellar-handler; contracts/ethereum-handler is its *)
(* twin for the other scheme and envelope encoding) composed with the      *)
(* Verification contract it calls and the Security contract that one asks. *)
(*                                                                         *)
(* verify_xlm / verify_eth is one atomic invocation: the contracts run one *)
(* after the other, nothing re-enters, and the host undoes everything a    *)
(* failing call did.  The administrator's calls to the Security contract   *)
(* and the closing of ledgers happen between invocations.                  *)
(***************************************************************************)
EXTENDS Security, Verification

CONSTANTS
  Scheme,                 \* "ed25519" or "secp256k1"
  Events,                 \* event ids (bytes20)
  Payloads,               \* payloads that decode to a MessageWithId
  NoPayload,              \* a payload that was never saved
  Submissions,            \* what anybody may pass to verify_xlm / verify_eth
  MaxReferenceBlockAge    \* MAX_REFERENCE_BLOCK_AGE, in ledgers

(* Envelopes are records: `decodes` says whether the bytes, and the        *)
(* payload in them, decode.  The signatures are made over the envelope.    *)
EnvelopeType == [event : Events, payload : Payloads, decodes : BOOLEAN]

IsSubmission(s) ==
  /\ s.envelope \in EnvelopeType
  /\ s.signers \in Seq(Keys)
  /\ DOMAIN s.sigs = 1..Len(s.sigs)
  /\ s.ref \in Nat

ASSUME SubmissionsAssumption == \A s \in Submissions : IsSubmission(s)
ASSUME SchemeAssumption == Scheme \in Schemes

(* Nor is it what is known of an accepted event (Attestation below). *)
ASSUME NoPayloadAssumption ==
  NoPayload \notin Payloads \cup [payload : Payloads, by : SUBSET Keys, ref : Nat]

(* Both are 200 ledgers in the code. *)
ASSUME WindowAssumption ==
  MaxReferenceBlockAge \in Nat /\ MaxReferenceBlockAge <= HistoryCutoff

VARIABLES
  seen,       \* DataKey::EventSeen
  payloads,   \* DataKey::Payload, for each event
  accepted    \* history: what was accepted, in order

handlerVars == <<seen, payloads, accepted>>
allVars == <<vars, handlerVars>>

-----------------------------------------------------------------------------
(* The block of the open ledger is accepted too. *)
ValidReferenceBlock_Fault(r) == r <= ledger /\ ledger - r <= MaxReferenceBlockAge

(* validate_reference_block *)
ValidReferenceBlock(r) == r < ledger /\ ledger - r <= MaxReferenceBlockAge

(* verify, with the answers of the Security contract. *)
Verify(s) ==
  VerifyOutcome(Scheme, s.envelope, s.sigs, s.signers,
                GetSignerWeightsAt(s.signers, s.ref), RequiredWeightAt(s.ref))

(* map_verify_result: a trap of the callee is an invocation error. *)
MapVerifyResult(outcome) == IF outcome = "Trap" THEN "OtherInvocationError" ELSE outcome

(* The answer of verify_xlm / verify_eth. *)
Outcome(s) ==
  IF ~ValidReferenceBlock(s.ref) THEN "InvalidReferenceBlock"
  ELSE IF ~s.envelope.decodes THEN "InvalidEnvelope"
  ELSE IF s.envelope.event \in seen THEN "EventAlreadySeen"
  ELSE MapVerifyResult(Verify(s))

(* The keys that really signed the envelope. *)
SignedBy(s) ==
  {s.signers[i] : i \in {j \in DOMAIN s.signers \cap DOMAIN s.sigs :
                           s.sigs[j] = Signed(s.signers[j], s.envelope)}}

Record(s) ==
  [event |-> s.envelope.event, payload |-> s.envelope.payload,
   by |-> SignedBy(s), ref |-> s.ref, at |-> ledger, threshold |-> threshold]

(* The event is not marked as seen. *)
VerifyEnvelopeUnmarked_Fault(s) ==
  /\ Outcome(s) = "Ok"
  /\ UNCHANGED seen
  /\ payloads' = [payloads EXCEPT ![s.envelope.event] = s.envelope.payload]
  /\ accepted' = Append(accepted, Record(s))
  /\ UNCHANGED vars

(* The event is marked before its signatures are verified, and stays so. *)
VerifyEnvelopeEarlyMark_Fault(s) ==
  /\ Outcome(s) \in {"Ok", "InsufficientWeight"}
  /\ seen' = seen \cup {s.envelope.event}
  /\ payloads' = IF Outcome(s) # "Ok" THEN payloads
                 ELSE [payloads EXCEPT ![s.envelope.event] = s.envelope.payload]
  /\ accepted' = IF Outcome(s) # "Ok" THEN accepted ELSE Append(accepted, Record(s))
  /\ UNCHANGED vars

MarkEventSeen(event) == seen' = seen \cup {event}
SavePayload(event, payload) == payloads' = [payloads EXCEPT ![event] = payload]

(* verify_xlm / verify_eth.  No authorization is asked for. *)
VerifyEnvelope(s) ==
  /\ Outcome(s) = "Ok"
  /\ MarkEventSeen(s.envelope.event)
  /\ SavePayload(s.envelope.event, s.envelope.payload)
  /\ accepted' = Append(accepted, Record(s))
  /\ UNCHANGED vars

HandlerInit ==
  /\ Init
  /\ seen = {}
  /\ payloads = [e \in Events |-> NoPayload]
  /\ accepted = <<>>

HandlerNext ==
  \/ Next /\ UNCHANGED handlerVars
  \/ \E s \in Submissions : VerifyEnvelope(s)

HandlerSpec == HandlerInit /\ [][HandlerNext]_allVars

-----------------------------------------------------------------------------
(* Properties *)

(* The weights and the total of ledger r as they really were. *)
TrueWeightsAt(keys, r) == [i \in DOMAIN keys |-> LookupAt(weightLog[keys[i]], r)]
TrueTotalAt(r) == LookupAt(totalLog, r)

(* The decision the handler would take with histories that are never       *)
(* pruned.                                                                 *)
TrueVerify(s) ==
  VerifyOutcome(Scheme, s.envelope, s.sigs, s.signers,
                TrueWeightsAt(s.signers, s.ref), RequiredOf(TrueTotalAt(s.ref), threshold))

(* Pruning is invisible to the pipeline: for a reference block the handler *)
(* lets through, verify answers, accepts and rejects, error for error, as  *)
(* on the full history.                                                    *)
WindowDecisionExact ==
  \A s \in Submissions : ValidReferenceBlock(s.ref) => Verify(s) = TrueVerify(s)

(* Whoever calls verify directly, without the handler's window check, is   *)
(* never told Ok for signatures that were not a quorum at that ledger.     *)
VerifySoundAnywhere ==
  \A s \in Submissions :
    s.ref < ledger /\ Verify(s) = "Ok" => TrueVerify(s) = "Ok"

(* The weight at ledger r of a set of keys, each counted once. *)
TrueWeightOf(S, r) ==
  SumTo([k \in Keys |-> IF k \in S THEN LookupAt(weightLog[k], r) ELSE 0], NumKeys)

(* Every accepted envelope was signed by keys that had, at a ledger that   *)
(* was over and at most MAX_REFERENCE_BLOCK_AGE old, the weight the        *)
(* threshold asked for; no later change of the registry makes that untrue. *)
AcceptedHadQuorum ==
  \A n \in DOMAIN accepted :
    LET a == accepted[n]
        required == RequiredOf(TrueTotalAt(a.ref), a.threshold)
    IN  /\ a.ref < a.at /\ a.at <= a.ref + MaxReferenceBlockAge
        /\ required > 0
        /\ TrueWeightOf(a.by, a.ref) >= required

(* An event is accepted at most once, whatever payloads, signers and       *)
(* reference blocks it is submitted with again.                            *)
AtMostOnce ==
  \A m, n \in DOMAIN accepted : accepted[m].event = accepted[n].event => m = n

(* Exactly the accepted events are marked as seen and have a payload, the  *)
(* one that was signed: a failing call leaves neither mark nor payload.    *)
SeenIffStored ==
  \A e \in Events :
    /\ e \in seen <=> payloads[e] # NoPayload
    /\ e \in seen <=> \E n \in DOMAIN accepted :
                        accepted[n].event = e /\ accepted[n].payload = payloads[e]

(* The handler implements module AttestedEvents: what is stored for an     *)
(* event, with the keys that signed it and the ledger their weight was     *)
(* taken from, and the weights as they were before any pruning.            *)
TrueWeightsOf(r) == [k \in Keys |-> LookupAt(weightLog[k], r)]

Attestation(e) ==
  LET of == {n \in DOMAIN accepted : accepted[n].event = e}
      last == accepted[CHOOSE n \in of : \A m \in of : m <= n]
  IN  IF payloads[e] = NoPayload THEN NoPayload
      ELSE [payload |-> payloads[e], by |-> last.by, ref |-> last.ref]

Attested == INSTANCE AttestedEvents WITH
  Unattested <- NoPayload,
  Window <- MaxReferenceBlockAge,
  now <- ledger,
  fraction <- threshold,
  weights <- [r \in 0..ledger |-> TrueWeightsOf(r)],
  attested <- [e \in Events |-> Attestation(e)]

ImplementsAttestedEvents == Attested!AbstractSpec

(* The fraction t is larger than u. *)
Exceeds(t, u) == t.num * u.den > u.num * t.den

(* What the handler answers to a submission does not depend on changes of  *)
(* the registry made after its reference block: but for the acceptance of  *)
(* its event and the window moving on or reaching it, only a new threshold *)
(* changes the answer (required_weight_at puts the threshold of now to the *)
(* total of then), and it changes nothing but the verdict on the weight: a *)
(* higher one may refuse what was enough, a lower one accept what was not, *)
(* and one so low that nothing is required lets verify refuse everything.  *)
DecisionStable ==
  [][\A s \in Submissions :
       \/ Outcome(s) = "InvalidReferenceBlock"
       \/ Outcome(s)' \in {Outcome(s), "InvalidReferenceBlock", "EventAlreadySeen"}
       \/ /\ Exceeds(threshold', threshold)
          /\ \/ Outcome(s) = "ZeroRequiredWeight"
             \/ Outcome(s) = "Ok" /\ Outcome(s)' = "InsufficientWeight"
       \/ /\ Exceeds(threshold, threshold')
          /\ \/ Outcome(s)' = "ZeroRequiredWeight"
             \/ Outcome(s) = "InsufficientWeight" /\ Outcome(s)' = "Ok"]_allVars
=============================================================================
