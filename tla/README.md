# Verification of the WarpDrive contracts

TLA+ models of the Soroban contracts in `contracts/`, of the shared crate they are built on
(`packages/shared`) and of the tool that deploys and operates them (`packages/deployer`), TLC runs
over small instances of them, and TLAPS proofs of the main theorems for all instances. Everything
is translated from the Rust source; `PROJECT.json` maps each definition to the lines it stands for.

## The system

WarpDrive lets a set of weighted signers attest, off chain, that an event happened, and lets a
contract on chain accept that event once a quorum has signed it.

```
   anybody                 account (governance)
      | verify_xlm / verify_eth       |
      v                               v
   Handler ---- verify ---> Verification          Project Root
      |                        |                   |  forwards add_signer, set_threshold,
      | own storage:           | weights_at,       |  upgrade, propose_admin, accept_admin
      | seen, payloads         | required_weight_at|
      v                        v                   v
                            Security <-------------+        (also Verification and Handlers)
```

| Component | State | Operations | Modelled by |
|---|---|---|---|
| Weight timelines (`shared/src/vec_history.rs`, `checkpoint.rs`) | a vector of (ledger, value) entries per signer and one for the total | `push` (append or replace, then prune), `latest`, `lookup_at` (binary search) | `VecHistory`, `HistoryLookup` |
| Administration (`shared/src/admin.rs`, `interfaces/warpdrive.rs`) | admin, pending admin, version | `upgrade`, `propose_admin`, `accept_admin` | `WarpDriveAdmin` |
| Security, ed25519 and secp256k1 | timelines, sorted list of signers, threshold | `add_signer`, `remove_signer`, `set_threshold`, queries now and at a ledger | `Security` (with `Words`) |
| Verification, ed25519 and secp256k1 | the address of Security | `verify`, `check_one` | `Verification`, `VerifyLoop` |
| Handlers, Stellar and Ethereum | seen events, payloads | `verify_xlm` / `verify_eth` | `Handler`, which implements `AttestedEvents` |
| Project Root | admin, registered contracts, tracked handlers | forwarded calls, `register_handler`, `unregister_handler` | `ProjectRoot` |
| Multisig account | owners, threshold | constructor, `__check_auth` | `MultisigAccount`, `MultisigAdmin` |
| Storage lifetime (`shared/src/ttl.rs` and its uses) | ledgers left, for each entry | what each call needs, extends and creates | `Lifetime` |
| Deployer: deployment (`packages/deployer`) | manifest file, retry state | `deploy`, adoption, `deploy-handler`, `handover`, the single calls | `Deployment` |
| Deployer: operation | key file, retry state | `keygen`; `add-signer`, `remove-signer`, `set-threshold`, `set-project-spec-repo` | `Identity`, `Operator` |
| Deployer: command line (`main.rs`, `cli.rs`) | none | one command per process | the start actions of `Deployment` and `Operator` |
| Client (`packages/client`) | none | argument encoding, `execute`, `query` | the network step of `Deployment` and `Operator` |
| Envelope codecs, test vectors, docker image | none | | not modelled (below) |

How they interact. A call from outside is one *invocation*: it may go through several contracts
(Handler, Verification, Security), nothing re-enters, and the host either applies all writes or,
when a call fails or traps, none that the failed call made. Between two invocations anything can
happen: other invocations, and the closing of a ledger, which is the contracts' clock. So an
action of these models is an invocation, a failing call is the absence of a step, and the
interleavings are those of invocations of different callers and of ledger closings. The handlers
call Verification with `try_verify`, so a trap below becomes an error of the handler, which undoes
the handler's own call as well.

What is hard:

* **Pruned history.** Signatures are made over a *reference block* that is already over when the
  envelope arrives. Security answers for past ledgers from timelines that every later change
  prunes. Pruning one entry too many, or rewriting an old one, silently changes the verdict on
  signatures under way. No single call shows it: it takes changes in several ledgers followed by
  a query of an old one.
* **Two windows.** The Handler accepts reference blocks at most 200 ledgers old
  (`MAX_REFERENCE_BLOCK_AGE`); Security keeps 200 ledgers (`HISTORY_CUTOFF`). Nothing in the code
  ties the two constants together.
* **Open ledger.** Several transactions run in one ledger; were the open ledger itself accepted as
  a reference block, the verdict would depend on their order.
* **Derived state.** The total and the list of signers are kept beside the weights; checked u64
  arithmetic turns any disagreement into a contract that traps for good.
* **Replay.** The same event can be submitted by anybody, with other payloads and other signers.
* **Indirect control.** Administration moves in two steps, of six kinds of contracts, directly or
  through the Project Root, with calls that carry several accounts' authorizations.
* **Many owners.** The multisig account is handed lists of signatures by anybody, in any order,
  repeated, by strangers, or over another call that is open at the same time.
* **Lifetimes.** The network archives an entry that nobody extended for long enough. Each call
  extends some of the entries it needs and not the others.
* **Deployer.** A process that can be stopped between any two steps, whose transactions may take
  effect without an answer, or late, or be repeated, and which resumes from a file. Its new owner
  may act while it runs. `keygen` writes a file and asks a service for money in between such
  failures; a transaction of one command may take effect during the next.

What makes each part correct:

* timelines: a lookup inside the window equals the lookup on a timeline that was never pruned;
  the binary search finds the last entry at or before its target and ends; length is bounded;
* Security: totals are sums, the list holds the keys with a weight in order, the past is fixed;
* Verification: accepts exactly when distinct registered keys of sufficient weight signed this
  envelope; `check_one` agrees with `verify`;
* Handler: every accepted event had its quorum at a ledger that was over; at most once; mark and
  payload together or not at all; the verdict does not depend on later changes. To whoever reads
  its events it is the much simpler `AttestedEvents`;
* Deployer: the manifest only names contracts that belong together; nothing is administered by a
  Project Root that was lost; success means what it says; re-running gets there in the end;
* Project Root: only the account in control changes a contract; no contract is locked out; the
  tracked handlers are a duplicate-free set of handlers of this project;
* Multisig account: as many different owners as the threshold says signed *this* call; a quorum
  can always act;
* Lifetime: what is in use is not archived;
* Operator: money only goes to an identity whose secret is kept; what a command reported stays
  true until the next command.

## Modules

Read them in this order.

* **`VecHistory`** - timelines as sequences of entries, `Put`, `Prune`, `Push`, `LookupAt`,
  `Latest` as operators; `Timeline(h, log, l, cutoff)` relates a stored timeline to the full one.
  `Put` alone is `checkpoint::push`: the never pruned timeline of `checkpoint.rs` is the
  abstract specification, `vec_history.rs` its implementation.
* **`HistoryLookup`** - the binary search of `lookup_at` one step at a time (`lo`, `hi`, `phase`),
  over given ordered timelines. Its result is `LookupAt`, which all other modules use.
* **`WarpDriveAdmin`** - the two-step administrator and `upgrade` of one contract; `proposer`
  is a history variable.
* **`Words`** - u64 range and sums. Weights are small naturals, `U64Max` the largest u64 scaled
  down; checked additions that leave the range trap.
* **`Security`** - one Security contract. Keys are `1..NumKeys`, so that their order is the byte
  order the list is sorted by. `weightLog` and `totalLog` are history variables: the same
  pushes without pruning. `ledger` is the open ledger, `CloseLedger` closes it.
* **`Verification`** - `verify` and `check_one` as functions of the arguments and of Security's
  answers, for both schemes. A signature is who made it over what, or one of the malformed kinds
  that the code treats differently (all zero; bad recovery id; unrecoverable).
  **`VerifyLoop`** - `verify` one iteration at a time, shown to end with `VerifyOutcome`.
* **`Handler`** - EXTENDS `Security` and `Verification`: the whole pipeline of an envelope, with
  the administrator's calls and ledger closings in between. `accepted` is a history variable.
* **`AttestedEvents`** - the abstract specification of the Handler: at every ledger each key has a
  weight, the weights of ledgers that are over are facts, and an event is attested once, by a
  quorum of a recent past ledger. `Handler!Attested` is the refinement mapping: the weights of
  ledger `r` are looked up in the unpruned logs, the attestation of an event is its stored payload
  with the signers and the reference block that were accepted for it. So it ties the stored
  payloads, the marks, the pruned histories and both windows together.
* **`MultisigAccount`** - the constructor and `__check_auth` as decisions. **`MultisigAdmin`** -
  EXTENDS `Security`: a Security contract whose administrator the account is. Owners draw up
  calls, sign them one by one, and anybody submits one with a list of signatures. A *slot* is a
  call that is open; its nonce makes its payload differ from every other, and once it is used or
  given up its signatures are good for nothing, so the slot may be used again. The calls are all
  that change a Security contract: its signers, its threshold, its administrator and its code.
* **`ProjectRoot`** - one administrator and pending administrator per contract of a project.
  A call carries a set `auth` of accounts; calls the Project Root makes carry its own
  authorization as well (the host grants it to a direct caller). What a call changes inside its
  target is another module's subject: the history variable `changed` names the target.
* **`Deployment`** - the deployer and the network. `chain` is the list of contracts on the network
  (an id is an index), `disk` the manifest file. A command is `cmd`, `pc`, `target`, run by
  `account`; each query, each attempt of a transaction and each write of the file is a step, so an
  `Abort`, a `Late` transaction or another operator's call can come between any two. An attempt is
  `Send` (applied and answered), `Lose` (no answer; it was never sent, or stays `inflight` and may
  take effect later) or `Refuse`: what the contract refuses fails in the simulation, which `retry`
  takes for transient; a call it would take, but from another account, ends as `NotSupported`, for
  good. Only one transaction per account is ever
  open, because a new one is built with the sequence number the account has on chain: until the
  open one takes effect the new one carries the same number, and at most one of them is applied.
  This covers the three sends of the same signed transaction in `execute`. Each attempt of
  `deploy_one` creates another contract: the client library, which is not part of the
  repository, draws the salt anew. `done` is a history variable.
* **`Identity`** - `keygen_and_fund` step by step: read the key file, mint, truncate, write, look
  at the account, ask friendbot, poll. A `Late` funding is one whose answer was lost.
  **`Operator`** - EXTENDS `Identity`: next to `keygen`, the commands of one transaction on a
  deployed project, signed with what `resolve_secret` finds (flag, environment, key file), under
  `retry()`, with the same network as `Deployment`. A call sets the value of an *item*: the weight
  of a key, the threshold, the spec repository. `Deploy` is `deploy` as one step, by whatever
  account `resolve_secret` finds, the identity of `keygen` or the operator's own (`Byok`), finished
  or stopped before it adopts. `AcceptAdmin` is the end of a handover (`accept-admin`,
  `accept-contract-admin`), at any time, also while a command runs; it is a transaction of the
  account that accepts, so what that account had under way before is applied or void.
* **`Lifetime`** - `ttl` of every entry of four contracts; a call is given by the entries it
  *needs* (all must be live), *extends* and *creates*. A call that fails is no step: the host
  undoes its extensions too. `idle` is a history variable, the time since a verification or a
  change of a signer last needed an entry. Time is counted in ticks of many ledgers.
* **`*Proofs`** - theorems: `HandlerProofs` about `Security`, `Handler` and the refinement,
  `LoopProofs` about the two loops (`HistoryLookup`, `VerifyLoop`), `OperatorProofs` about
  `Identity` and `Operator`, `MultisigProofs` about `MultisigAdmin`, `ProjectRootProofs`,
  `LifetimeProofs` and `DeploymentProofs` about the modules they are named for. `WeightProofs`
  holds the lemmas about sums, timelines and `verify` that these share.
* **`MC*`** - values for the constants (where model values suffice there is none).

Twin contracts (ed25519 and secp256k1 Security and Verification, Stellar and Ethereum Handler)
are line by line the same apart from key types, checks of signatures and envelope decoding. They
share a module; where the twins differ (signature checks) both variants are modelled, and the
map names the lines of one twin for each definition.

A definition named `..._Fault` is a plausible mistake in the definition it stands next to. No
specification uses it. The mutants of `PROJECT.json` substitute it to show that the property
listed with it can fail.

## Runs

Bounds are constants of the `.cfg` files; no definition is replaced.

| Run | Shows | Instance |
|---|---|---|
| `history_lookup` | the search stays in bounds (`TypeOK`), is right (`ResultCorrect`), ends (`Terminates`) | all 128 timelines over 7 ledgers, targets 0..8 |
| `security` | `WindowFaithful`, `NeverInvents`, `HistoryBounded`, `TotalIsSum`, `PastWeightsFixed`, `RegistryConsistent` | 2 keys, weights 0..2, U64Max 3, window 1, ledgers 0..3, every kind of valid and refused threshold |
| `multisig_admin` | `ChangedByQuorum`, `QuorumIsHeard`, `ProposalIsCurrent` | owners 1..3, 2 of 2 and 2 of 3 (and constructor arguments that are refused), 2 open calls, lists of up to 3 signatures, a second administrator, two versions of the code |
| `verify_loop` | the loop computes `VerifyOutcome`; `AcceptedIsQuorum`, `QuorumAccepted`, `CheckOneAgrees`, `TrapIsBadSignature` | both schemes, up to 3 signatures and 3 signers of 2 keys, every kind of signature, weights 0..2 |
| `handler` | `WindowDecisionExact`, `VerifySoundAnywhere`, `AcceptedHadQuorum`, `AtMostOnce`, `SeenIffStored`, `DecisionStable`, and the refinement `ImplementsAttestedEvents` | 2 keys, ledgers 0..3, window 1, one event with two payloads, honest and dishonest submissions |
| `project_root` | `OnlyInControl`, `NeverLockedOut`, `HandlerSetOK`, `TakenOverIsTracked` | 2 accounts, the three contracts of a project, one handler |
| `deployment` | `ManifestClosed`, `NothingLostToAnotherRoot`, `SuccessIsReal`, `LeftoversAreAccountedFor`, `EventuallyDeployed` | all commands, two attempts each, two lost answers, one abort |
| `operator` | `FundedIsKept`, `SuccessSticks`, `EventuallyFunded` | a key and the spec repository, identities of `keygen` and an account of the operator's own, any handovers, two attempts and polls, three lost answers, one abort |
| `lifetime` | `WorkKeepsAlive` | a key, an event, four contracts; instances renewed below 1 tick to 2, persistent entries below 2 to 3 |
| `project_root_accepts` | finding 1 | |
| `deployment_handover` | finding 2 | |
| `lifetime_security` | finding 3 | as `lifetime` |

Why the bounds are enough. Pruning does something once a timeline has two entries older than the
window. With a window of 1 that takes changes in ledgers 0 and 1 and a third at 3, so ledgers
0..3 let a timeline be pruned, keep an old entry, and be asked inside and before its window; the
proofs cover every window. For the same reason `handler` looks at three changes of the total
(the constraint `Small`, which also leaves out an open proposal of the only address to itself:
the handler does not read it). Quorum arithmetic needs two keys that do or do not suffice alone, a
threshold with and without rounding, and a sum that overflows, which weights up to 2 and a
`U64Max` of 3 give (2 and weights of 1 in `handler`). Order and duplicates need lists of three
(`<<1, 2, 1>>`). With two keys `RegistryConsistent` inserts and removes at either end of the list
only; the theorem covers any number. `multisig_admin` needs two open calls for a signature of one
to be used for the other; the slots are alike (`SYMMETRY`). In `project_root` a proposal may name
either account or the Project Root; the Project Root itself and the two other contracts of the
project are the targets that are no handlers, and the theorems cover any number of handlers and
foreign contracts. In `deployment` two lost answers are as many as one command has attempts, so a
command can also give up; one abort suffices to lose an id, or to stop anywhere for the next run to
resume. In `operator` three lost answers are one more than a command has attempts, so that one
transaction may still be under way when the next command loses its own answer; there are more
identities than aborts, because each abort may cost a minted one. Its items are one that the
Security contract keeps and one that the Project Root keeps; the threshold would be a second of the
former kind, with calls that are a subset of a key's, and the theorem covers any number of both. Lifetimes keep the order of the
real amounts (6 and 7, 29 and 30 days): a new entry starts at or below its renewal threshold. The
theorem covers any amounts.
`CHECK_DEADLOCK` is on everywhere: the finished loops stutter explicitly (`Returned`, `LookupReturned`).

Window constants. `WindowAssumption` (the Handler's window is not larger than Security's cutoff)
is what the two constants 200 and 200 satisfy. It is tight in the runs (equal values).

Fairness. `HistoryLookup`: weak fairness of the search's next step, since the host runs an
invocation to its end. `Deployment` and `Operator`: weak fairness of the running command's steps,
since the process runs unless it is stopped (and aborts and losses are finitely many); strong
fairness of `StartDeploy` and of `StartKeygen`, an operator who runs `deploy` or `keygen` again until
it succeeds, though other commands may always be running when it is tried. Nothing is assumed of
the new owner, of other commands, of late transactions or of late funding. No other liveness is
claimed: nobody is obliged to call a contract.

## Findings

1. `accept_contract_admin` forwards `accept_admin` and then tracks the handler. The interface
   (`shared/src/interfaces/project_root.rs:183`) says the Project Root "must be `target`'s pending
   admin". Nothing checks it: if the pending administrator is an account whose authorization the
   call carries, the call succeeds, that account becomes administrator, and the handler is tracked
   as taken over. Run `project_root_accepts`.
2. `governance.rs:250` says of `handover` that "the downstream contracts are already owned by
   project_root", and `packages/deployer/README.md:129` says the same. It does not check. The run
   `deployment_handover` is about `handover` itself, when its checks are made and it is about to
   propose (`pc = "propose"`): `deploy` deploys and records the three contracts and is stopped before
   its Step 4; `handover` reads the administrator and the pending administrator of the Project Root
   and goes on to offer it to the owner, while the deployer keeps Security and Verification. Once
   the owner accepts, re-running `deploy` cannot adopt them without the owner's
   `accept-contract-admin`; hence the alternative in `EventuallyDeployed`.
3. `shared/src/ttl.rs:7` says that an instance whose lifetime falls below the threshold is
   refreshed by the extension mechanism. The instance of the Security contract holds the threshold
   (and the code), so each verification needs it, but none extends it: `required_weight_at`
   (`ed25519-security/src/contract.rs:137`) does not, and neither does any query. In a project that
   is verified on but not administered it is archived `INSTANCE_TARGET_TTL` after the last
   `add_signer`, `remove_signer` or `upgrade`, and verifications fail until it is restored, while
   everything else they need stays alive (`WorkKeepsAlive`). Run `lifetime_security`.

Observations that are no findings, because no text of the repository is contradicted outright or
nothing depends on it:

* `required_weight_at` combines the total of the reference block with the threshold of *now*, so a
  new threshold changes the verdict on signatures under way, unlike changes of weights.
  `DecisionStable` says how far: a higher one can only turn an acceptance into
  `InsufficientWeight`, a lower one only the reverse, and no other answer changes, with one
  exception. A lower fraction of a small total may round down to nothing, and then everything about
  that ledger is refused (`ZeroRequiredWeight`), until the threshold is raised again.
* The required weight is rounded down, so a quorum may be smaller than the stated fraction, but is
  never empty (`ZeroRequiredWeight`).
* `verify` of a reference block before the window answers with zeros for pruned weights, which
  rejects but never accepts wrongly (`VerifySoundAnywhere`); because pruning keeps the newest of the
  older entries, a reference block one ledger older than the window is still answered correctly.
* `deploy.rs:3` says that a re-run "resumes exactly where it stopped". The manifest is written
  after the deployment (`deploy.rs:227`), so an abort in between makes the next run deploy that
  contract a second time. The leftover is harmless: nothing refers to it, it owns nothing, and there
  is at most one per lost answer or abort (`ManifestClosed`, `NothingLostToAnotherRoot`,
  `LeftoversAreAccountedFor`).
* `keygen` of a funded identity asks friendbot again when its look at the account gets no answer
  (`identity.rs:109`); friendbot refuses, and the poll then finds the account.
* Any failure to read the key file counts as no key (`identity.rs:121`), and a new identity is
  written over it; so would a second `keygen` at the same time. The model's file is read without
  errors, by one `keygen` at a time.
* `contracts/project-root/README.md` says "The Project Root does not call other contracts
  directly", which `proxy` (`contract.rs:78`) does; `OnlyInControl` is about these calls.

## Proofs

Every safety property of the runs that pass, invariant or action property, and the refinement of
`AttestedEvents` is a theorem, checked by TLAPS for every value of the constants: any number of
keys, any weights, any window, any length of a timeline or of a list of signatures, any number of
ledgers, of owners, of retries, of lost answers and of stopped commands. Few of the properties
are inductive; each section names the invariant that is.

Assumptions are the `ASSUME`s of the modules; TLC evaluates them on each run. Most say what kind of
value a constant is. The others:

* `WindowAssumption` (`Handler`): the handler's window is not larger than Security's cutoff (200
  and 200 in the code);
* `NoPayloadAssumption` (`Handler`): the mark for "nothing stored" is no payload;
* `BoundsAssumption` of `VerifyLoop`: weights are u64;
* `AccountsAssumption` (`Deployment`): deployer and owner are two accounts, and the address of an
  account is not the id of a contract;
* `MaxSignaturesAssumption` (`MultisigAdmin`): the bound on the lists submitted leaves room for a
  signature of every owner the account knows. The code has no such bound.

**`WeightProofs`** - induction first. The library's induction theorems take an operator as a
parameter and cannot be used with these provers; `LeastNat` and `Induction` state it for a *set* of
naturals instead, from the well-foundedness of `<` (`WellFoundedInduction`). With it the recursive
function under `SumTo` is shown to exist and to have its recursion equations (`PartialSums`,
`SumSteps`); the rest is arithmetic of sums: `SumChange` (one value changes), `SumMonotone`,
`SumHasParts`.

About timelines, `LookupCases` characterises `LookupAt`; `PutPast` and `PutNow` say what a push
changes (nothing before its ledger); `PushPruned` that pruning after a push keeps `PrunedFrom`;
`PrunedLookup` that a pruned timeline answers inside the window like the full one;
`PrunedNeverInvents` that elsewhere it answers like it or 0; `PushBounded` the length.
`TimelinePush`, `TimelineLater`, `TimelineLookup` package them for the `Timeline` predicate.

About `verify`, `GoneOn` says what the first `m` iterations have established (good signatures, of
registered keys, in strictly ascending order); `ListedInSet` that the weights of a list without
repetitions are at most those of a set that holds it. Counting a key once is where the ascending
order matters.

**`LoopProofs`** - `LookupStaysInBounds` and `LookupCorrect` from the inductive `SearchInv`
(the entry at `lo` is at or before the target, those beyond `hi` are after it).
`LoopComputesOutcome` from `LoopInv`: while the loop of `verify` runs, the iterations before `i`
went on and `total` is the sum of their weights. The outcome being a function of the arguments,
the other properties are about that function: `AcceptedWeighEnough`, `GoodCallAccepted`,
`CheckOneIsVerify`, `TrapMeansBadSignature`. The last needs that the running total never exceeds
the weight of all keys, which is the sum Security keeps within a u64.

**`HandlerProofs`** - for Security alone the inductive invariant is `Inv`, `TypeOK /\
HistoriesInv`. `WindowFaithful` is not inductive: that lookups agree now says nothing about the
entries a later push will uncover. `HistoriesInv` says more, that each stored timeline is a suffix
of an ordered full one whose first entry is older than the window if anything was cut. One lemma
per action; `PushWeightsInv` carries the two that push. From it: `TypeCorrect`,
`WindowIsFaithful`, `LookupsNeverInvent`, `StorageIsBounded`. `PastIsFixed` (an action property)
goes through the logs: inside the window stored timelines equal the logs before and after a step,
and a step leaves the logs' past alone.

`RegistryIsConsistent` adds (`RegistryInv`) that the list ascends strictly and holds exactly the
keys with a weight. The scan of `insert_all_signers` stops where it must in an ascending list, so
inserting there keeps it ascending, and removal, which gives up early, finds every key there is.

`TotalsAddUp` adds `LogsAddUp`: in the unpruned logs the total is the sum of the weights at *every*
ledger, the open one included. `TotalIsSum` alone is not inductive, because it only speaks of
stored timelines inside the window. A change of one signer changes the sum by the difference the
code adds to and subtracts from the total (`SumChange`).

For the handler the invariant is `Inv` and `Marks` (marks, payloads and what was accepted agree).
`EventsAreAcceptedOnce` and `MarkAndPayloadAgree` follow from `Marks`. `DecisionsAreExact`: a
reference block the handler takes lies in the window, where `WindowFaithful` holds.
`DecisionsAreStable`: decisions are exact before and after a step, no step changes what the logs say
of a ledger that is over, and the required weight is the only answer of Security that depends on
the present. `OutcomeByRequired` says how an answer depends on it, `RequiredMonotone` that it
follows the fraction (`Exceeds`). `VerifyIsSound`: with a zero among the weights, or a total of
zero, `verify` never says Ok, so when it does `NeverInvents` makes all it was told true.

`AcceptedBySigners` strings these together: an accepted submission passed `verify` on weights that
are those of the logs, so the set of its signers weighs enough there (`SubmissionQuorum`), and the
logs' past is fixed, so it still does at any later time (`HadQuorumStable`). `HandlerRefines` is the
refinement: the initial states map to `AbstractInit`, an acceptance to `Attest` (`MapVerify`), the
closing of a ledger to the abstract one, and a change of the registry to the abstract change of
the open ledger's weights or to a stutter (`MapWeights`, `MapThreshold`, `MapClose`).

**`ProjectRootProofs`** - the inductive invariant is `TypeOK /\ NeverLockedOut /\ HandlerSetOK`. An
invocation is first reduced (`InvocationCases`) to a change, a proposal or an acceptance made by
`Callers`: the accounts that sign, plus the Project Root only when its administrator signs and the
target is another contract. From there `NobodyIsLockedOut` (whoever accepts is among the callers,
and callers are accounts or the Project Root, which never calls itself), `HandlersAreASet`,
`ControlIsRespected` (if the contract's administrator is the Project Root, its own administrator
signed; otherwise the contract's did) and `TakeOverIsRecorded`.

**`MultisigProofs`** - `ProposalsAreCurrent`, `QuorumGoverns`, `AQuorumIsHeard`. A list of
signatures that `__check_auth` accepts is an injection of `1..n` into the owners that signed the
call, because it refuses repetitions; so at least `n` owners signed, and `n` reaches the threshold.
Conversely any enumeration of the known owners that signed is a list it accepts, if they are as
many as the threshold; when all signed they are, because the constructor took no key twice and no
threshold above their number (`Constructed`).

**`DeploymentProofs`** - the inductive invariant `DeploymentInv` has six parts, none of which is
kept alone. `ChainInv`: the references of every contract are ids, and no contract has a role that
is not meant for it. `ManifestInv`: the manifest is closed. `NetworkInv`: what is true of any
transaction under way, which may take effect late, after the command that sent it is gone.
`CommandInv`: where the command is and what it has found out. `MadeInv`: the contract that is about
to be recorded fits the manifest. `DoneInv`: what a finished command achieved. `NetworkInv` is what
the others turn on: a proposal under way names the recorded Project Root, because the root is
recorded before anything is offered to it and the slot is never overwritten; and a late acceptance
therefore hands a contract to nobody else, nor takes one from where a success left it. From it
`ManifestIsClosed`, `NoOtherRoot`, `SuccessStaysReal`, `DeploymentTypes`. `LeftoversAreFew` counts:
`CountInv` adds the deployments under way on the left, so that an answer that is lost is paid for
when it is lost, not when the contract turns up.

**`OperatorProofs`** - `FundedSecretIsKept` from `IdentityInv`: what is funded, or asked to be, is
the account of the key file, and the file is only written while there is none. `SettledStays` from
`OperatorInv`: every item has one account that controls it (`Controller`: the administrator of the
contract that keeps it, or the Project Root's when that is the Project Root); only that account's
transactions can change it (`OnlyController`), at most one of the account is under way, and that
one is not of a settled item. A handover keeps this, because an account gains control by a
transaction of its own.

**`LifetimeProofs`** - `UseKeepsAlive`. `WorkKeepsAlive` is not inductive; `Margin` is: an entry has
as many ledgers left as it may still lie idle. One lemma about calls (`CallStep`) serves all
actions: what a call creates or uses it must extend.

Model-checked only: `Terminates`, `EventuallyDeployed` and `EventuallyFunded`. They are liveness
under fairness, which is out of the prover's reach, as are the runs of the findings, which are
counterexamples.

## Not modelled, and why

* Cryptography and encodings: hashing, ABI/XDR decoding and curve arithmetic are data; a signature
  is modelled by what a check of it can tell, an envelope by whether it decodes.
* Events emitted, and gas: no property is about them. (`remove_signer` emits its event also for a
  key that is not registered.)
* The read-only commands of the deployer, the parsing of arguments and of the manifest's text: no
  state; two operators writing the same manifest or key file at the same time (`loader.rs` excludes
  it: "writes one manifest at a time").
* The client's contract bindings beyond the calls the deployer makes: encoding of arguments and
  answers, fees.
* Restoring archived entries: outside the repository. `Lifetime` says when it becomes necessary.
* Test vectors, docker image, CI: no logic of the system.

## Plan

1. *Done*: timelines, administration, Security, Verification, Handler and the specification it
   implements, Project Root, multisig account, lifetimes, deployment, operation.
2. *Done*: proofs of all safety properties, and of the refinement of `AttestedEvents`.
3. An abstract specification of `Deployment` (each slot is filled once, then adopted) that it
   implements under a refinement mapping, from `DeploymentInv`.
4. The same for Security: that pruned timelines implement unpruned ones, as a refinement of
   a specification without a window in place of an invariant over history variables.
