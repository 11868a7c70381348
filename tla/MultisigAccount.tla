---------------------------- MODULE MultisigAccount ----------------------------
(***************************************************************************)
(* contracts/multisig-account: a contract account that speaks when enough  *)
(* of its owners have signed.  It is written once, by its constructor; the *)
(* host asks __check_auth whether a list of signatures authorizes the      *)
(* payload of a call.  A deployed account has been constructed, so that    *)
(* NotInitialized is never answered.                                       *)
(***************************************************************************)
EXTENDS Naturals, Sequences

OwnerSignature(k, m) == [by |-> k, over |-> m]

HasElement(list, key) == \E i \in DOMAIN list : list[i] = key

(* A key that is listed twice may have two votes. *)
ConstructorDuplicates_Fault(signers, threshold) ==
  IF threshold = 0 THEN "ThresholdZero"
  ELSE IF threshold > Len(signers) THEN "ThresholdExceedsSigners"
  ELSE "Ok"

(* __constructor *)
ConstructorOutcome(signers, threshold) ==
  IF threshold = 0 THEN "ThresholdZero"
  ELSE IF threshold > Len(signers) THEN "ThresholdExceedsSigners"
  ELSE IF \E i \in DOMAIN signers : HasElement(SubSeq(signers, 1, i - 1), signers[i])
       THEN "DuplicateSignerInSet"
  ELSE "Ok"

(* A key may sign twice. *)
AuthIteration_Fault(account, payload, sigs, i) ==
  IF ~HasElement(account.signers, sigs[i].key) THEN "UnknownSigner"
  ELSE IF sigs[i].signature # OwnerSignature(sigs[i].key, payload) THEN "Trap"
  ELSE "Ok"

(* What iteration i of the loop of __check_auth ends the call with; "Ok"   *)
(* when it goes on.  The host function traps on a bad signature.           *)
AuthIteration(account, payload, sigs, i) ==
  IF ~HasElement(account.signers, sigs[i].key) THEN "UnknownSigner"
  ELSE IF \E j \in 1..(i - 1) : sigs[j].key = sigs[i].key THEN "DuplicateSigner"
  ELSE IF sigs[i].signature # OwnerSignature(sigs[i].key, payload) THEN "Trap"
  ELSE "Ok"

(* __check_auth *)
CheckAuth(account, payload, sigs) ==
  LET iteration(i) == AuthIteration(account, payload, sigs, i)
      failing == {i \in DOMAIN sigs : iteration(i) # "Ok"}
      first == CHOOSE i \in failing : \A j \in failing : i <= j
  IN  IF failing # {} THEN iteration(first)
      ELSE IF Len(sigs) < account.threshold THEN "InsufficientSignatures"
      ELSE "Ok"
=============================================================================
