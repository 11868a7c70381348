----------------------------- MODULE MCVerifyLoop -----------------------------
EXTENDS VerifyLoop
(* Good signatures of the call's envelope "m", one over another envelope,  *)
(* and one of each kind no key made.                                       *)
MCSignatures ==
  {Signed(k, "m") : k \in Keys} \cup {Signed(1, "other")} \cup
  {[kind |-> x, by |-> 0, over |-> "m"] : x \in {"zero", "badRecoveryId", "garbage"}}
=============================================================================
