------------------------------- MODULE MCHandler -------------------------------
EXTENDS Handler

CONSTANTS e1, p1, p2

(* The last pair is refused by set_threshold. *)
MCThresholdArgs == {<<1, 2>>, <<1, 1>>, <<1, 0>>}

Envelope(e, p, d) == [event |-> e, payload |-> p, decodes |-> d]

Submission(env, signers, sigs, r) ==
  [envelope |-> env, signers |-> signers, sigs |-> sigs, ref |-> r]

Honest(env, signers, r) ==
  Submission(env, signers, [i \in DOMAIN signers |-> Signed(signers[i], env)], r)

Blocks == 0..(MaxLedger - 1)

SubmissionsOf(envs, lists) == {Honest(e, l, r) : e \in envs, l \in lists, r \in Blocks}

(* A signer listed twice, and a signature over another envelope; module   *)
(* VerifyLoop has all the other ways not to be a quorum.                   *)
Dishonest(env, other, r) ==
  {Honest(env, <<1, 1>>, r),
   Submission(env, <<1>>, <<Signed(1, other)>>, r)}

(* One signer and two, at every block; what must be refused; an envelope   *)
(* that does not decode; and a second payload of the same event, signed by *)
(* one of the keys.                                                        *)
MCSubmissions ==
  SubmissionsOf({Envelope(e1, p1, TRUE)}, {<<1>>, <<1, 2>>})
  \cup Dishonest(Envelope(e1, p1, TRUE), Envelope(e1, p2, TRUE), 1)
  \cup {Honest(Envelope(e1, p1, FALSE), <<1, 2>>, 1),
         Honest(Envelope(e1, p2, TRUE), <<2>>, 2)}

(* The only address hands the contract over to itself, if at all: a        *)
(* proposal that is open makes no difference to the handler.  And changes  *)
(* in three of the four ledgers are as many as pruning needs.              *)
Small == pendingAdmin = None /\ Len(totalLog) <= 3
=============================================================================
