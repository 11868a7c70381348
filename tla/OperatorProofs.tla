---------------------------- MODULE OperatorProofs ----------------------------
(***************************************************************************)
(* Theorems about the deployer's identity and its commands of one          *)
(* transaction, for any number of identities, retries, lost answers and    *)
(* stopped commands.                                                       *)
(***************************************************************************)
EXTENDS Operator, TLAPS

-----------------------------------------------------------------------------
(* keygen (identity.rs).  Nothing is funded, or may yet be, but the account*)
(* of the key file; keygen writes the file only while nothing is, and from *)
(* then on works with what the file holds.                                 *)
IdentityTypes ==
  /\ keyFile \in Identities \cup {NoSecret}
  /\ secret \in Identities \cup {NoSecret}
  /\ funded \cup asked \subseteq Identities
  /\ step \in {"idle", "read", "open", "write", "look", "fund", "wait"}

IdentityInv ==
  /\ IdentityTypes
  /\ funded \cup asked \subseteq {keyFile}
  /\ printed \subseteq funded
  /\ step \in {"open", "write"} => keyFile = NoSecret /\ secret \in Identities
  /\ step \in {"look", "fund", "wait"} => secret = keyFile /\ secret \in Identities

LEMMA IdentityInvInit == Init => IdentityInv
BY DEF Init, IdentityInit, IdentityInv, IdentityTypes

LEMMA IdentityInvSame == IdentityInv /\ UNCHANGED identityVars => IdentityInv'
BY DEF identityVars, fileVars, networkVars, keygenVars, boundVars, IdentityInv, IdentityTypes

LEMMA IdentityInvKeygen ==
  ASSUME IdentityInv, KeygenStep \/ LateFunding \/ StartKeygen \/ AbortKeygen
  PROVE  IdentityInv'
<1> USE DEF IdentityInv, IdentityTypes, fileVars, networkVars, keygenVars, boundVars, GoOn, Stop, Report
<1>1. CASE ReadKeyFile
  BY <1>1, NoSecretAssumption DEF ReadKeyFile
<1>2. CASE OpenKeyFile
  BY <1>2 DEF OpenKeyFile
<1>3. CASE WriteKeyFile
  BY <1>3, NoSecretAssumption DEF WriteKeyFile
<1>4. CASE Look
  BY <1>4 DEF Look
<1>5. CASE Fund
  <2>1. /\ step = "fund" /\ secret = keyFile /\ UNCHANGED <<fileVars, printed>>
        /\ secret \in Identities
    BY <1>5 DEF Fund
  <2>2. CASE funded' = funded \cup {secret} /\ GoOn("wait") /\ UNCHANGED <<asked, secret>>
    BY <2>1, <2>2
  <2>3. CASE asked' \in {asked, asked \cup {secret}} /\ Again /\ UNCHANGED funded
    BY <2>1, <2>3 DEF Again
  <2>4. CASE Again /\ UNCHANGED networkVars
    BY <2>1, <2>4 DEF Again
  <2> QED BY <1>5, <2>2, <2>3, <2>4 DEF Fund
<1>6. CASE Poll
  BY <1>6 DEF Poll
<1>7. CASE LateFunding
  BY <1>7 DEF LateFunding
<1>8. CASE StartKeygen
  BY <1>8 DEF StartKeygen
<1>9. CASE AbortKeygen
  BY <1>9 DEF AbortKeygen
<1> QED BY <1>1, <1>2, <1>3, <1>4, <1>5, <1>6, <1>7, <1>8, <1>9 DEF KeygenStep

LEMMA IdentityInvNext == IdentityInv /\ [Next]_vars => IdentityInv'
<1> SUFFICES ASSUME IdentityInv, [Next]_vars PROVE IdentityInv'
  OBVIOUS
<1>1. CASE Keygen
  BY <1>1, IdentityInvKeygen DEF Keygen
<1>2. CASE KeygenStep \/ LateFunding
  BY <1>2, IdentityInvKeygen
<1>3. ASSUME NEW flag, NEW environment, Deploy(flag, environment) PROVE IdentityInv'
  BY <1>3, IdentityInvSame DEF Deploy
<1>4. ASSUME NEW flag, NEW environment, NEW c, StartCommand(flag, environment, c)
      PROVE  IdentityInv'
  BY <1>4, IdentityInvSame DEF StartCommand
<1>5. CASE CommandStep \/ AbortCommand
  <2>1. UNCHANGED <<fileVars, networkVars, keygenVars, printed>>
    BY <1>5 DEF CommandStep, Send, Lose, Refuse, AbortCommand, identityVars
  <2> QED BY <2>1 DEF IdentityInv, IdentityTypes, fileVars, networkVars, keygenVars
<1>6. ASSUME NEW a, AcceptAdmin(a) \/ Late(a) PROVE IdentityInv'
  BY <1>6, IdentityInvSame DEF AcceptAdmin, Late
<1>7. CASE UNCHANGED vars
  BY <1>7, IdentityInvSame DEF vars
<1> QED BY <1>1, <1>2, <1>3, <1>4, <1>5, <1>6, <1>7 DEF Next

LEMMA IdentityInvariant == Spec => []IdentityInv
BY IdentityInvInit, IdentityInvNext, PTL DEF Spec

(* No money goes to an identity whose secret is lost: whatever runs of     *)
(* keygen were stopped and whatever request to friendbot took effect late, *)
(* only the account of the secret in the key file is funded, that secret   *)
(* stays there, and an address is printed for a funded account only.       *)
THEOREM FundedSecretIsKept == Spec => []FundedIsKept
<1>1. IdentityInv => FundedIsKept
  BY DEF IdentityInv, FundedIsKept
<1> QED BY <1>1, IdentityInvariant, PTL

-----------------------------------------------------------------------------
(* The commands (signers.rs, project_root.rs).  At any time one account may*)
(* change an item, so that the answer to a transaction of its settles what *)
(* became of its earlier one; and an account that comes to control an item *)
(* does so by a transaction of its own, which settles its earlier one too. *)
Controller(i) == IF i = "repo" \/ secAdmin = Root THEN rootAdmin ELSE secAdmin

OperatorTypes ==
  /\ secAdmin \in Signatories \cup {Root, NoSecret}
  /\ secAdmin # NoSecret => rootAdmin \in Signatories
  /\ state \in [Items -> Values \cup {Refused, Removed}]
  /\ settled \in [Items -> Values \cup {Refused, Removed}]
  /\ account \in Signatories \cup {NoSecret}
  /\ account # NoSecret => secAdmin # NoSecret /\ call \in Calls
  /\ inflight \in [Signatories -> Calls \cup {NoCall}]

(* What may still take effect is about an item nothing was reported about  *)
(* since.                                                                  *)
OperatorInv ==
  /\ OperatorTypes
  /\ SuccessSticks
  /\ account # NoSecret => settled[call.item] = Refused
  /\ \A a \in Signatories : inflight[a] # NoCall =>
       /\ secAdmin # NoSecret
       /\ a = Controller(inflight[a].item) => settled[inflight[a].item] = Refused

LEMMA SignatoriesFacts == Root \notin Signatories /\ NoSecret \notin Signatories
BY OperatorAssumption, NoSecretAssumption DEF Signatories

LEMMA OperatorInvInit == Init => OperatorInv
BY DEF Init, OperatorInv, OperatorTypes, SuccessSticks

LEMMA CallFacts ==
  ASSUME NEW c \in Calls
  PROVE  c.item \in Items /\ c.value \in Values \cup {Refused}
BY DEF Calls

(* The only account whose transactions about the item take effect. *)
LEMMA OnlyController ==
  ASSUME OperatorTypes, secAdmin # NoSecret, NEW c, NEW a \in Signatories, CanApply(c, a)
  PROVE  a = Controller(c.item)
<1>1. rootAdmin # Root /\ a # Root /\ Signers(c) \subseteq {a}
  BY SignatoriesFacts DEF CanApply, Authorized, OperatorTypes
<1>2. CASE c.item = "repo"
  BY <1>1, <1>2 DEF Signers, Controller
<1>3. CASE c.item # "repo" /\ secAdmin = Root
  <2>1. rootAdmin \in Signers(c) \/ Signers(c) = {Root}
    BY <1>1, <1>3 DEF Signers
  <2> QED BY <1>1, <1>3, <2>1 DEF Controller
<1>4. CASE c.item # "repo" /\ secAdmin # Root
  <2>1. secAdmin \in Signers(c)
    BY <1>4 DEF Signers
  <2> QED BY <1>1, <1>4, <2>1 DEF Controller
<1> QED BY <1>2, <1>3, <1>4

LEMMA OperatorInvSame ==
  ASSUME OperatorInv, UNCHANGED operatorVars
  PROVE  OperatorInv'
BY DEF operatorVars, contractVars, commandVars, OperatorInv, OperatorTypes, SuccessSticks, Controller

LEMMA OperatorInvNext == IdentityInv /\ OperatorInv /\ [Next]_vars => OperatorInv'
<1> SUFFICES ASSUME IdentityInv, OperatorInv, [Next]_vars PROVE OperatorInv'
  OBVIOUS
<1>0. OperatorTypes /\ SuccessSticks
  BY DEF OperatorInv
<1>1. CASE UNCHANGED operatorVars
  BY <1>1, OperatorInvSame
<1>2. ASSUME NEW flag \in {NoSecret, Byok}, NEW environment \in {NoSecret, Byok},
             Deploy(flag, environment)
      PROVE  OperatorInv'
  <2> DEFINE deployer == ResolveSecret(flag, environment)
  <2>1. /\ secAdmin = NoSecret /\ account = NoSecret
        /\ deployer \in funded \cup {Byok}
        /\ secAdmin' \in {deployer, Root} /\ rootAdmin' = deployer
        /\ UNCHANGED <<state, account, call, inflight, settled>>
    BY <1>2 DEF Deploy, Idle, OnNetwork, commandVars
  <2>2. deployer \in Signatories
    BY <2>1 DEF IdentityInv, IdentityTypes, Signatories
  <2> HIDE DEF deployer
  <2>3. \A a \in Signatories : inflight'[a] = NoCall
    BY <2>1 DEF OperatorInv
  <2> QED BY <1>0, <2>1, <2>2, <2>3 DEF OperatorInv, OperatorTypes, SuccessSticks
<1>3. ASSUME NEW flag \in {NoSecret, Byok}, NEW environment \in {NoSecret, Byok},
             NEW c \in Calls, StartCommand(flag, environment, c)
      PROVE  OperatorInv'
  <2>1. /\ account' \in Signatories /\ call' = c /\ secAdmin # NoSecret
        /\ settled' = [settled EXCEPT ![c.item] = Refused]
        /\ UNCHANGED <<contractVars, inflight>>
    BY <1>3 DEF StartCommand, ResolveSecret, Signatories, IdentityInv, IdentityTypes
  <2>2. c.item \in Items
    BY CallFacts
  <2>3. settled'[c.item] = Refused /\ \A i \in Items : settled'[i] \in {settled[i], Refused}
    BY <1>0, <2>1, <2>2 DEF OperatorTypes
  <2>4. OperatorTypes'
    BY <1>0, <2>1 DEF OperatorTypes, contractVars
  <2>5. SuccessSticks'
    BY <1>0, <2>1, <2>3 DEF SuccessSticks, contractVars
  <2>6. ASSUME NEW a \in Signatories, inflight'[a] # NoCall
        PROVE  /\ secAdmin' # NoSecret
               /\ (a = Controller(inflight[a].item) => settled[inflight[a].item] = Refused)'
    <3>1. inflight[a] # NoCall /\ inflight' = inflight
      BY <2>1, <2>6
    <3>2. inflight[a] \in Calls
      BY <1>0, <3>1 DEF OperatorTypes
    <3>3. inflight[a].item \in Items
      BY <3>2, CallFacts
    <3>4. a = Controller(inflight[a].item) => settled[inflight[a].item] = Refused
      BY <3>1 DEF OperatorInv
    <3> QED BY <2>1, <2>3, <3>1, <3>3, <3>4 DEF contractVars, Controller
  <2> QED BY <2>1, <2>3, <2>4, <2>5, <2>6 DEF OperatorInv
<1>4. CASE Send
  <2>1. /\ account \in Signatories /\ call \in Calls /\ secAdmin # NoSecret
        /\ CanApply(call, account)
        /\ state' = [state EXCEPT ![call.item] = call.value]
        /\ settled' = [settled EXCEPT ![call.item] = call.value]
        /\ inflight' = [inflight EXCEPT ![account] = NoCall]
        /\ UNCHANGED <<secAdmin, rootAdmin>>
        /\ account' = NoSecret
    BY <1>0, <1>4 DEF Send, Apply, EndCommand, OperatorTypes
  <2>2. account = Controller(call.item)
    BY <1>0, <2>1, OnlyController
  <2>3. call.item \in Items /\ call.value \in Values \cup {Refused}
    BY <2>1, CallFacts
  <2>4. ASSUME NEW a \in Signatories, inflight'[a] # NoCall
        PROVE  (a = Controller(inflight[a].item) => settled[inflight[a].item] = Refused)'
    <3>1. a # account /\ inflight'[a] = inflight[a] /\ inflight[a] \in Calls
      BY <1>0, <2>1, <2>4 DEF OperatorTypes
    <3>2. CASE inflight[a].item = call.item
      BY <2>1, <2>2, <3>1, <3>2 DEF Controller
    <3>3. CASE inflight[a].item # call.item
      <4>1. inflight[a].item \in Items
        BY <3>1, CallFacts
      <4>2. settled'[inflight[a].item] = settled[inflight[a].item]
        BY <1>0, <2>1, <3>3, <4>1 DEF OperatorTypes
      <4>3. a = Controller(inflight[a].item) => settled[inflight[a].item] = Refused
        BY <2>4, <3>1 DEF OperatorInv
      <4> QED BY <2>1, <3>1, <4>2, <4>3 DEF Controller
    <3> QED BY <3>2, <3>3
  <2>5. OperatorTypes'
    BY <1>0, <2>1, <2>3 DEF OperatorTypes
  <2>6. SuccessSticks'
    BY <1>0, <2>1, <2>3 DEF SuccessSticks, OperatorTypes
  <2> QED BY <2>1, <2>4, <2>5, <2>6 DEF OperatorInv
<1>5. CASE Lose \/ Refuse \/ AbortCommand
  <2>1. /\ account \in Signatories /\ call \in Calls /\ secAdmin # NoSecret
        /\ settled[call.item] = Refused
        /\ UNCHANGED <<secAdmin, rootAdmin, state, settled>>
        /\ (UNCHANGED <<account, call>>) \/ account' = NoSecret
    BY <1>0, <1>5 DEF Lose, Refuse, AbortCommand, Failed, EndCommand, contractVars, OperatorInv, OperatorTypes
  <2>2. \/ UNCHANGED inflight
        \/ CanApply(call, account) /\ inflight' = [inflight EXCEPT ![account] = call]
    BY <1>5 DEF Lose, Refuse, AbortCommand
  <2>3. ASSUME NEW a \in Signatories, inflight'[a] # NoCall
        PROVE  a = Controller(inflight'[a].item) => settled[inflight'[a].item] = Refused
    <3>1. CASE inflight'[a] = inflight[a]
      BY <2>3, <3>1 DEF OperatorInv
    <3>2. CASE inflight'[a] # inflight[a]
      <4>1. inflight'[a] = call
        BY <1>0, <2>2, <3>2 DEF OperatorTypes
      <4> QED BY <2>1, <4>1
    <3> QED BY <3>1, <3>2
  <2>4. OperatorTypes'
    BY <1>0, <2>1, <2>2 DEF OperatorTypes
  <2>5. SuccessSticks'
    BY <1>0, <2>1 DEF SuccessSticks
  <2> QED BY <2>1, <2>3, <2>4, <2>5 DEF OperatorInv, Controller
<1>6. ASSUME NEW a \in Signatories, Late(a) PROVE OperatorInv'
  <2> DEFINE c == inflight[a]
  <2>1. /\ c # NoCall /\ c \in Calls /\ CanApply(c, a) /\ secAdmin # NoSecret
        /\ a = Controller(c.item) => settled[c.item] = Refused
        /\ state' = [state EXCEPT ![c.item] = c.value]
        /\ inflight' = [inflight EXCEPT ![a] = NoCall]
        /\ UNCHANGED <<secAdmin, rootAdmin, commandVars, settled>>
    BY <1>0, <1>6 DEF Late, Apply, OperatorInv, OperatorTypes
  <2>2. /\ c.item \in Items /\ c.value \in Values \cup {Refused}
        /\ settled[c.item] = Refused
    BY <1>0, <2>1, CallFacts, OnlyController
  <2> HIDE DEF c
  <2>3. OperatorTypes'
    BY <1>0, <2>1, <2>2 DEF OperatorTypes, commandVars
  <2>4. SuccessSticks'
    BY <1>0, <2>1, <2>2 DEF SuccessSticks, OperatorTypes
  <2>5. \A b \in Signatories : inflight'[b] # NoCall => inflight'[b] = inflight[b]
    BY <1>0, <2>1 DEF OperatorTypes
  <2> QED BY <2>1, <2>3, <2>4, <2>5 DEF OperatorInv, commandVars, Controller
<1>7. ASSUME NEW a \in Signatories, AcceptAdmin(a) PROVE OperatorInv'
  <2>1. /\ secAdmin # NoSecret
        /\ inflight' = [inflight EXCEPT ![a] = NoCall]
        /\ UNCHANGED <<state, account, call, settled>>
    BY <1>7 DEF AcceptAdmin, commandVars
  <2>2. /\ rootAdmin \in Signatories /\ rootAdmin' \in Signatories
        /\ secAdmin' \in Signatories \cup {Root} /\ secAdmin' # NoSecret
    BY <1>0, <1>7, <2>1, SignatoriesFacts, OperatorAssumption DEF AcceptAdmin, OperatorTypes
  <2>3. \A i : Controller(i)' \in {Controller(i), a}
    BY <1>7, SignatoriesFacts DEF AcceptAdmin, Controller
  <2>4. \A b \in Signatories : inflight'[b] # NoCall => b # a /\ inflight'[b] = inflight[b]
    BY <1>0, <2>1 DEF OperatorTypes
  <2>5. OperatorTypes'
    BY <1>0, <2>1, <2>2 DEF OperatorTypes
  <2>6. SuccessSticks'
    BY <1>0, <2>1 DEF SuccessSticks
  <2>7. ASSUME NEW b \in Signatories, inflight'[b] # NoCall
        PROVE  (b = Controller(inflight[b].item) => settled[inflight[b].item] = Refused)'
    <3>1. b # a /\ inflight'[b] = inflight[b]
      BY <2>4, <2>7
    <3>2. b = Controller(inflight[b].item) => settled[inflight[b].item] = Refused
      BY <2>7, <3>1 DEF OperatorInv
    <3>3. Controller(inflight[b].item)' \in {Controller(inflight[b].item), a}
      BY <2>3, <3>1 DEF Controller
    <3> QED BY <2>1, <3>1, <3>2, <3>3 DEF Controller
  <2> QED BY <2>1, <2>2, <2>5, <2>6, <2>7 DEF OperatorInv
<1> QED BY <1>1, <1>2, <1>3, <1>4, <1>5, <1>6, <1>7 DEF Next, Keygen, CommandStep, vars

(* A command that reports success has set the value, and nothing that was  *)
(* sent earlier and took effect late, by that command or another, by this  *)
(* administrator or one before, changes it back (signers.rs,               *)
(* project_root.rs and retry() in retry.rs).                               *)
THEOREM SettledStays == Spec => []SuccessSticks
<1>1. OperatorInv => SuccessSticks
  BY DEF OperatorInv
<1> QED BY <1>1, IdentityInvariant, OperatorInvInit, OperatorInvNext, PTL DEF Spec
=============================================================================
