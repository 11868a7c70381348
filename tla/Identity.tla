------------------------------- MODULE Identity -------------------------------
(***************************************************************************)
(* The deployer's identity (packages/deployer/src/identity.rs): keygen     *)
(* mints a secret, writes it to the key file and has friendbot fund its    *)
(* account, and the other commands sign with what the file holds.          *)
(*                                                                         *)
(* The network may leave any question without an answer, a request to      *)
(* friendbot may take effect late, and keygen may be stopped between any   *)
(* two steps and be run again.                                             *)
(***************************************************************************)
EXTENDS Naturals

CONSTANTS
  Identities,   \* secrets that keygen may mint
  NoSecret,     \* a key file that is missing, empty or no secret
  MaxRetries,   \* RetryConfig.max_retries
  MaxPolls,     \* polls of wait_for_account
  MaxLosses,    \* bound of the model: questions without an answer
  MaxAborts     \* bound of the model: commands stopped midway

ASSUME NoSecretAssumption == NoSecret \notin Identities
ASSUME CountsAssumption ==
  /\ MaxRetries \in Nat \ {0} /\ MaxPolls \in Nat \ {0}
  /\ MaxLosses \in Nat /\ MaxAborts \in Nat

VARIABLES
  keyFile,    \* the secret in the key file, or NoSecret
  minted,     \* the identities minted so far
  funded,     \* the accounts that exist on the network
  asked,      \* requests to friendbot that may still take effect
  step,       \* the next step of keygen, "idle" when it does not run
  secret,     \* the secret keygen works with
  tries,      \* attempts of retry(), then polls
  printed,    \* history: the identities whose addresses were printed
  losses, aborts

fileVars == <<keyFile, minted>>
networkVars == <<funded, asked>>
keygenVars == <<step, secret, tries>>
boundVars == <<losses, aborts>>
identityVars == <<fileVars, networkVars, keygenVars, printed, boundVars>>

IdentityInit ==
  /\ keyFile = NoSecret /\ minted = {}
  /\ funded = {} /\ asked = {}
  /\ step = "idle" /\ secret = NoSecret /\ tries = 0
  /\ printed = {}
  /\ losses = 0 /\ aborts = 0

GoOn(next) == step' = next /\ tries' = 0

Stop == step' = "idle" /\ tries' = 0 /\ secret' = NoSecret

Report ==
  /\ printed' = printed \cup {secret}
  /\ Stop

NoAnswer == losses < MaxLosses /\ losses' = losses + 1

StartKeygen ==
  /\ step = "idle"
  /\ GoOn("read")
  /\ UNCHANGED <<fileVars, networkVars, secret, printed, boundVars>>

(* Every run mints a new secret. *)
ReadKeyFile_Fault ==
  /\ step = "read"
  /\ \E fresh \in Identities \ minted :
       secret' = fresh /\ minted' = minted \cup {fresh} /\ GoOn("open")
  /\ UNCHANGED <<keyFile, networkVars, printed, boundVars>>

(* An existing secret is used again; otherwise a fresh one is minted. *)
ReadKeyFile ==
  /\ step = "read"
  /\ IF keyFile # NoSecret
     THEN secret' = keyFile /\ GoOn("look") /\ UNCHANGED minted
     ELSE \E fresh \in Identities \ minted :
            secret' = fresh /\ minted' = minted \cup {fresh} /\ GoOn("open")
  /\ UNCHANGED <<keyFile, networkVars, printed, boundVars>>

(* write_key_file: opening truncates the file, then the secret is written. *)
OpenKeyFile ==
  /\ step = "open"
  /\ keyFile' = NoSecret
  /\ GoOn("write")
  /\ UNCHANGED <<minted, networkVars, secret, printed, boundVars>>

WriteKeyFile ==
  /\ step = "write"
  /\ keyFile' = secret
  /\ GoOn("look")
  /\ UNCHANGED <<minted, networkVars, secret, printed, boundVars>>

(* Friendbot is asked whether or not the account exists. *)
Look_Fault ==
  /\ step = "look"
  /\ GoOn("fund")
  /\ UNCHANGED <<fileVars, networkVars, secret, printed, boundVars>>

(* account_visible: any failure of the query counts as not funded. *)
Look ==
  /\ step = "look"
  /\ \/ secret \in funded /\ Report /\ UNCHANGED losses
     \/ secret \notin funded /\ GoOn("fund") /\ UNCHANGED <<secret, printed, losses>>
     \/ secret \in funded /\ NoAnswer /\ GoOn("fund") /\ UNCHANGED <<secret, printed>>
  /\ UNCHANGED <<fileVars, networkVars, aborts>>

(* retry() in fund_via_friendbot: every error counts as transient. *)
Again ==
  IF tries + 1 < MaxRetries THEN tries' = tries + 1 /\ UNCHANGED <<step, secret>> ELSE Stop

(* Friendbot funds the account, now or when nobody waits any more, or the  *)
(* request does not get there; an account that exists it refuses (400).    *)
Fund ==
  /\ step = "fund"
  /\ \/ /\ secret \notin funded
        /\ funded' = funded \cup {secret}
        /\ GoOn("wait")
        /\ UNCHANGED <<asked, secret, losses>>
     \/ /\ secret \notin funded /\ NoAnswer
        /\ asked' \in {asked, asked \cup {secret}}
        /\ Again
        /\ UNCHANGED funded
     \/ secret \in funded /\ Again /\ UNCHANGED <<networkVars, losses>>
  /\ UNCHANGED <<fileVars, printed, aborts>>

(* wait_for_account *)
Poll ==
  /\ step = "wait"
  /\ \/ secret \in funded /\ Report /\ UNCHANGED losses
     \/ /\ NoAnswer
        /\ IF tries + 1 < MaxPolls THEN tries' = tries + 1 /\ UNCHANGED <<step, secret>>
           ELSE Stop
        /\ UNCHANGED printed
  /\ UNCHANGED <<fileVars, networkVars, aborts>>

LateFunding ==
  /\ \E i \in asked : funded' = funded \cup {i} /\ asked' = asked \ {i}
  /\ UNCHANGED <<fileVars, keygenVars, printed, boundVars>>

(* The process is stopped, or an input or output fails. *)
AbortKeygen ==
  /\ step # "idle" /\ aborts < MaxAborts
  /\ aborts' = aborts + 1
  /\ Stop
  /\ UNCHANGED <<fileVars, networkVars, printed, losses>>

KeygenStep == ReadKeyFile \/ OpenKeyFile \/ WriteKeyFile \/ Look \/ Fund \/ Poll

-----------------------------------------------------------------------------
(* Properties *)

(* No money goes to an identity whose secret is lost: only the account of  *)
(* the secret in the key file is ever funded, that secret stays there, and *)
(* an address is printed for a funded account only, whatever runs of       *)
(* keygen were stopped and whatever request took effect late.              *)
FundedIsKept == funded \subseteq {keyFile} /\ printed \subseteq funded

(* keygen, "ensure `key_file` holds a funded identity": an operator who    *)
(* runs it again and again has one in the end.                             *)
EventuallyFunded == <>(printed # {})
=============================================================================
