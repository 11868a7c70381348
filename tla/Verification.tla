----------------------------- MODULE Verification -----------------------------
(***************************************************************************)
(* The Verification contracts: verify and check_one of                     *)
(* ed25519-verification and secp256k1-verification, as functions of what   *)
(* the caller passes and of what the Security contract answers.  They keep *)
(* no state beyond the address of that contract.                           *)
(*                                                                         *)
(* A signature is what verifying it can tell: "signed" by a key over a     *)
(* message; "zero", all zero bytes; "badRecoveryId" (secp256k1: v is none  *)
(* of 0, 1, 27, 28); "garbage", from which no key can be recovered.        *)
(***************************************************************************)
EXTENDS Words, Sequences

(* The two schemes, one for each pair of twin contracts. *)
Schemes == {"ed25519", "secp256k1"}

Signed(k, m) == [kind |-> "signed", by |-> k, over |-> m]

(* verify_ed25519 and verify_ed25519_prehashed: the host function traps on *)
(* a signature that does not verify; only the all-zero one is an error.    *)
Ed25519Check(sig, key, message) ==
  IF sig.kind = "zero" THEN "InvalidSignature"
  ELSE IF sig = Signed(key, message) THEN "Ok" ELSE "Trap"

(* is_valid_signature: the key recovered from the signature is compared    *)
(* with the given one; a signature over another message yields another key.*)
Secp256k1Check(sig, key, message) ==
  IF sig.kind = "garbage" THEN "Trap"
  ELSE IF sig = Signed(key, message) THEN "Ok" ELSE "InvalidSignature"

SignatureCheck(scheme, sig, key, message) ==
  IF scheme = "ed25519" THEN Ed25519Check(sig, key, message)
  ELSE Secp256k1Check(sig, key, message)

(* The weight is not looked at. *)
CheckOne_Fault(scheme, sig, key, message, weight) == SignatureCheck(scheme, sig, key, message)

(* check_one; `weight` is the weight of the key at the reference block, or *)
(* the current one when no block is given.                                 *)
CheckOne(scheme, sig, key, message, weight) ==
  LET check == SignatureCheck(scheme, sig, key, message)
  IN  IF check = "Ok" /\ weight = 0 THEN "SignerNotRegistered" ELSE check

(* A key that repeats the one before it passes for ordered. *)
Unordered_Fault(i, signers) == i > 1 /\ signers[i] < signers[i - 1]

(* pubkey.to_array() <= prev.to_array() *)
Unordered(i, signers) == i > 1 /\ signers[i] <= signers[i - 1]

(* What iteration i of the loop of verify ends the call with; "Ok" when it *)
(* goes on.  `total` is the weight added up so far.                        *)
Iteration(scheme, i, total, message, sigs, signers, weights) ==
  LET check == SignatureCheck(scheme, sigs[i], signers[i], message)
  IN  IF Unordered(i, signers) THEN "SignersNotOrdered"
      ELSE IF check # "Ok" THEN check
      ELSE IF weights[i] = 0 THEN "SignerNotRegistered"
      ELSE IF ~FitsU64(total + weights[i]) THEN "Trap"
      ELSE "Ok"

(* What verify answers before it looks at any signature. *)
Precheck(sigs, signers, required) ==
  IF sigs = <<>> THEN "EmptySignatures"
  ELSE IF Len(sigs) # Len(signers) THEN "LengthMismatch"
  ELSE IF required = 0 THEN "ZeroRequiredWeight"
  ELSE "Ok"

(* verify, by its result; module VerifyLoop has the loop that computes it. *)
VerifyOutcome(scheme, message, sigs, signers, weights, required) ==
  LET iteration(i) == Iteration(scheme, i, SumTo(weights, i - 1), message, sigs, signers, weights)
      failing == {i \in DOMAIN sigs : iteration(i) # "Ok"}
      first == CHOOSE i \in failing : \A j \in failing : i <= j
      precheck == Precheck(sigs, signers, required)
  IN  IF precheck # "Ok" THEN precheck
      ELSE IF failing # {} THEN iteration(first)
      ELSE IF SumTo(weights, Len(sigs)) < required THEN "InsufficientWeight"
      ELSE "Ok"
=============================================================================
