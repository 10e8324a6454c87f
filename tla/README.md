# Verification of the jetton distribution engine

TLA+ models, model-checking configurations and machine-checked proofs of the
engine in this repository: the Stage A dispatcher that mints jettons to a list of
recipients in batches, the stores around it, the offline stages before it, the watcher after it and
the contracts. Paths below are relative to the
repository root; `dispatcher.ts` and its neighbours are in `lib/dispatcher/`.

## 1. Inventory

### The dispatch path

| Component | Code | State it keeps | Operations |
|---|---|---|---|
| Launcher | `scripts/launchStageA.ts` | none of its own | resolves the recipients and the batch size, builds the collaborators, calls `dispatch()` once, exits |
| Dispatcher | `dispatcher.ts` | locals of one call; everything durable is in the run state | `dispatch()`: reconcile, preflight, mark running, plan, walk the batches, finalise; `processBatch()`: submit, broadcast, record, settle, per recipient |
| Reconciler | `reconciler.ts` | none | `reconcileCampaign()`: for each submitted entry, recover it from evidence, leave it, or block the campaign |
| Run state | `stateStore.ts` | `<campaign>.state.json`: `meta`, `entries`, `operators`, `lock` | `read`, `update` (a transaction behind a `.lock` file), `setEntryGuarded`, `acquireRunLockGuarded`, `releaseRunLockGuarded` |
| Wallet pool | `walletPool.ts` | `operators` of the run state: failure and cooldown windows | `getNextAvailableProvider`, `markSuccess`, `markFailure` |
| Retry policy | `retryPolicy.ts` | none | error message and attempt number to a disposition |
| Batch planner | `batchPlanner.ts` | none | recipients to batches |
| Matching engine | `lib/matchingEngine.ts` | none | order and pacing of a batch |
| Audit writer | `auditWriter.ts`, recorder in `launchStageA.ts` | the audit CSV | append a row |
| Executor, chain | injected | transactions in flight and executed | `broadcast` |

`dispatch()` calls the reconciler once, then for each batch: reads the state and
lists the eligible recipients, asks the pool for an operator, plans the order,
takes the run lock, and serves one recipient at a time: a transaction persists
the entry as `submitted` ("Hook & Lock"), the executor broadcasts, the audit row
is appended, a guarded transaction settles the entry. A `finally` block releases
the run lock. Everything durable goes through `store.update()`; between two
updates any other launcher on the same state file may run, and any await may
throw or be the last thing the process does.

What makes it correct: a recipient is minted to at most once; the run state never
loses sight of a message that may still mint; terminal entries are final and true;
the audit log holds the evidence before the state claims the outcome; one process
runs a batch at a time; "completed" means all entries are terminal; attempts are
bounded; a call ends.

What is hard: a crash between any two updates; a broadcast whose outcome is not
known; an old reconciler snapshot; eligibility read before the lock is taken;
rotations that do not count against the retry budget; two launchers.

### The watcher path (offline, feeds no dispatch decision)

| Component | Code | State | Operations |
|---|---|---|---|
| Candidate ingestion | `lib/watcher/offlineCandidateIngestionOrchestrator.ts`, `candidateStore.ts`, `eventFilter.ts`, `candidateRecordBuilder.ts`, `commanderState.ts` | candidates and events (JSONL), dedup map, rate-cap window, cursor file | ingest a page of provider events |
| Decision store | `decisionStore.ts`, `candidateDecision.ts` | decisions (JSONL) | plan, append, recover |
| Decision-store lock | `decisionStoreLock*.ts`, `decisionStoreAtomicAcquire*.ts`, `decisionStoreOwnership.ts`, `decisionStoreWriter.ts` | the lock file and its temp file | acquire (two shells), ownership check, owned append |
| TonAPI client | `tonapiClient.ts`, `tonapiExtractor.ts` | profile cache, reads in flight, rate window | read a profile, profiles in bulk, a page of transfers |
| Blacklist preflight | `blacklist*.ts` | nonce registry (in memory) | fail-closed pipeline |
| Heartbeat, gas snapshot | `passiveHeartbeat*.ts`, `gasSnapshot.ts` | observation only | check, append |

What is hard here: files that are appended to and renamed by several processes without
a lock or with one that expires; partial writes; readers of one client that miss the
cache together; what was read before an await and used after it.

### Around the engine

| Component | Code | State | Operations |
|---|---|---|---|
| Intent pipeline and policies | `runStatePlanApply.ts`, `runStateApplyShell.ts`, `decisionStoreRunStateAdapter.ts`, `dispatcherDryRun*.ts`, `crossStoreConsistency.ts`, `operationalHealthProbeLane.ts`, `heartbeatAppendPolicy.ts`, `amountAllocator.ts`, `assetFeePolicyResolver.ts`, `gasSafetyMarginPolicy.ts`, `administrativeHaltInterception.ts` | planned entries in a run state | turn an accepted decision into a planned entry, take it in, plan its submission |
| Stage B watcher | `scripts/watchStageB0.ts` | none | reads targets, report and run state, and reports findings |
| Gate contracts | `scripts/g-4-*` to `i-2-4-*-smoke.ts` (eleven scripts) | none | decide whether a submission may be resumed, an audit agrees, metadata may change, a recipient may be paid, a network reached |
| Tools | `scripts/generate-targets.ts`, `updateMetadata.ts`, `gasEstimator.ts`, `lib/gas-oracle.ts` | none | make targets, refresh metadata, estimate values |
| Contracts | `contracts/*.tact` | supply, balances, policy of each wallet | mint, transfer, burn, policy broadcasts |
| Quarantined scripts | `scripts/bulkMint.ts` and others, `legacy/` | | refuse to run |

Smoke tests are the only callers of the intent pipeline, the policies and the watcher
path; where `lib/` has no caller, the order of calls is taken from them. Correct means
here: an entry is never replaced by another's plan; what is exposed for dispatch was
decided, for that amount and address; what one part accepts, the part it hands it to
accepts too; the supply covers every balance and every amount on its way.

`PROJECT.json` lists every component with its status, and every hazard with its
line and the properties that cover it.

## 2. Modules

`CampaignDispatch` assumes the atomic update that `AtomicState` states and
`StateStoreLock` is shown to implement; `StageBWatch` looks at the states of
`CampaignDispatch`. `DecisionStore` is composed of the lock protocol and the store it
protects. `OfflineStages` composes the intent pipeline, the file shells and the
evaluators and gates. `CandidateIngestion`, `TonapiClient` and `JettonLedger` are programs of their
own; they share no variables with the others.

| Module | What it is |
|---|---|
| `RetryPolicy` | the classifier: keyword groups in order, dispositions, the attempt bound |
| `CampaignDispatch` | the state machine: dispatcher, reconciler, pool, planner, run state, audit log, chain |
| `CampaignInvariant` | the inductive invariants of the dispatch path and the hypotheses of its proofs |
| `Payout` | the abstract specification: what a campaign promises a recipient |
| `CampaignPayout` | the refinement mapping from `CampaignDispatch` to `Payout` |
| `StageBWatch` | the watcher's findings as operators on the states of `CampaignDispatch` |
| `MCCampaignDispatch` | values of the constants for TLC |
| `CampaignSafetyProofs` | typing, the inductive invariant of a batch run, exclusion, attempts, "paid at most once", "completed" |
| `CampaignPayoutProofs` | what entries and audit rows say is true; the refinement of `Payout`; what the watcher finds |
| `AtomicState` | the abstract specification of `store.update()` |
| `StateStoreLock` | the write chain, the lock file, the deadline, the temp file and rename of `stateStore.ts`, with the mapping to `AtomicState` |
| `MCStateStoreLock` | values of the constants for TLC |
| `StateStoreProofs` | typing, exclusion, and the refinement of `AtomicState` |
| `CommanderState` | the Commander's safety gate: reading its file and deciding on a write |
| `CandidateIngestion` | one process that ingests pages of events: filter, dedup, gate, rate cap, append, cursor |
| `MCCandidateIngestion` | values of the constants for TLC |
| `CandidateIngestionProofs` | typing, deduplication, obedience to a stop, no silent loss |
| `DecisionStoreLock` | the lock file: exclusive creation, takeover of an expired lock through a temp file |
| `DecisionStore` | extends it: duplicates, index, append plan, ownership check, append, recovery |
| `MCDecisionStore` | values of the constants for TLC |
| `DecisionStoreProofs` | the lock: typing, exclusion, cleanup; the store: typing, what recovery accepts, one verdict per run |
| `TonapiClient`, `MCTonapiClient` | the provider client: cache, collapsing of reads, rate window, attempts |
| `TonapiClientProofs` | typing, one fetch per account, bounded bursts |
| `JettonLedger`, `MCJettonLedger` | master and wallets as actors that exchange messages |
| `JettonLedgerProofs` | sums over finite sets, and the supply invariant |
| `IntentPipeline` | workers that turn decisions into exposed transitions, beside the dispatcher |
| `FileShells` | the shells that write without an exclusive create: older lock acquire, audit append |
| `Refusals` | a list of checks whose first failure is the answer; the part of a list at some of its places |
| `FeePolicies`, `HealthRecords`, `BlacklistPreflight`, `ProviderEvents`, `LaunchChecks` | pure evaluators: fees and amounts; heartbeats, gas snapshots, probes, consistency; the blacklist pipeline; extraction, filter and identity of events; the launcher's checks, plan, audit recorder, evidence and metadata |
| `RunRecords`, `DecisionRecords`, `DispatchRecords`, `ToolScripts` | records and their readers: state file, operators, audit rows, locks, recovery; decisions; dispatcher configuration, report and retry decisions; the tools |
| `RecordEvaluators` | the functions of the record modules by name with their promises |
| `GateContracts` | the gates of stages G to I as the reason they refuse with, and what each promises |
| `RecordInputs` | inputs of the record functions and of the gates for TLC |
| `OfflineEvaluators` | one call of any evaluator, and what its answer promises |
| `OfflineStages`, `MCOfflineStages` | composition, and values of the constants for TLC |
| `OfflineStagesProofs` | what is exposed was decided, entries keep their provenance, lone shell calls keep their word, every evaluator and gate keeps its promises |

### How CampaignDispatch corresponds to the code

A process is one launcher. `pc` is where its `dispatch()` is suspended, one label
per await; each action is the code from one await to the next. The persisted
variables are the fields of the run state that guard something: `status`
(`meta.status`), `entries`, `runLock` (`lock`), `batchAttempts`, and `benched`, the
operators with an open failure or cooldown window. `walk`, `lease`, `work` and `recon`
are the locals of the call: they vanish when it settles or the process dies.

Phase 1 is `ReconcileLoad`, `ReconcileEvidence`, `ReconcileUnproven`,
`ReconcileProven`, `ReconcileDone`. Phases 3 to 5 are `MarkRunning`, `PlanBatches`,
and for each batch `SelectBatch`, `ChooseProvider` or `DeferBatch`, `PlanningFails`,
`AcquireRunLock`. `processBatch` is `HookAndLock`, `Broadcast`,
`BroadcastReturns` or `BroadcastFails`, `Record`, `BenchOperator`, `Settle`,
`NoteRotation`, `CreditOperator`, `BatchDrained`. Then `ReleaseRunLock`, and in
the end `ReadFinal` and `CommitFinal`, which are two transactions in the code and
two steps here. `AwaitThrows` is any store, audit, pool, preflight or reader call
that rejects without having written; inside the batch run it unwinds through the
`finally` block. `Crash` ends the process anywhere.

Abstractions, and why they are sound for the properties:

- A batch id is its index (`<campaign>-batch-<n>`), a state key a pair. The seeded
  shuffle is a fixed permutation for a campaign id, so `recipients` is the order
  after it.
- Time is kept as the facts the code tests: `aged` (submitted longer ago than the
  zombie timeout), `cooling`, `benched`. Each may become true or false at any
  moment the code allows, so every timing is covered.
- An error message is the set of keyword groups it hits, because that is all the
  classifier looks at; several groups in one message are allowed.
- The executor is not in the repository's dispatch path (it is injected). It is
  modelled from how the dispatcher uses it: a broadcast sends a message that mints
  or is dropped later; the call returns a hash only once the mint is on chain;
  it throws one of `Failures`, and `Ambiguous` are those it may throw although the
  message can still mint.
- The evidence reader may lag and may leave rows out, and only reports what is
  true: a mint, or an attempt that failed and cannot mint. Stage A's reader
  returns nothing (`EvidenceOutcomes = {}`); both are checked.
- `store.update()` is atomic. `StateStoreLock` justifies it.
- The branch for an unknown disposition has the effect of `fail_batch`. The
  metadata preflight writes nothing and is covered by `AwaitThrows`.

### How StateStoreLock corresponds to the code

An `Update` is one call of `update()` on a store instance; a launcher has several
instances on one state file, and two launchers have more. `chain` is the promise
chain of an instance: `Call` appends to it, `Begin` is its turn. `AcquireLock` is the
exclusive open of the lock file, `DeadlinePasses` and `LockTimeout` are the ten
seconds of polling, `OpenFails` any other error of that open. `LoadAndMutate` or
`MutatorThrows`, then `SaveState` (temp file, then rename: one step, because only the
rename is visible) or `SaveFails`, are the transaction; `ReleaseLock` is the `finally`
block, `UnlinkFails` the unlink error it ignores. `Crash` takes a process with its
chains and leaves the lock file. The data of the state is the set of updates it
reflects, which is what tells a lost update from a kept one.

The mapping to `AtomicState` is the identity on the state and "what the caller was
told" on the phases: an update takes effect at the rename.

### How CandidateIngestion corresponds to the code

One process at a time, which is how the orchestrator is meant to be used: its dedup
map and rate cap live in memory. `StartProcess` is `loadDedupStore` and `createRateCap`,
`Ingest` a call with a page. For each event: `RejectEvent` (the filter) or
`ObserveEvent` (the cursor local moves, the dedup map is consulted), then
`NoteDuplicate`, or `BlockedByCommander` or `CheckRateCap`, then `NoteLoss` or
`WriteCandidate` (append and mark). `FinishPage` saves the cursor. `AppendFails` and
`SaveCursorFails` reject the call; `Crash` ends the process. `CommanderChanges`,
`MinutePasses` and `Expire` are the Commander's file, the rate window and the dedup
TTL.

- A JSONL file is its lines and whether the last one still lacks its newline. A
  failed append is taken to leave a proper prefix of the line: nothing, a part, or
  all but the newline. The next append continues the open line, and the merged line
  does not parse.
- An event is what the code tells apart: rejected by the filter or not, its candidate
  (`KeyOf`), and whether `receivedAt` is a date. The filter's single rules and the
  identity string of `candidateRecordBuilder.ts` are constants.
- The Commander's file is read within the step that acts on it: the read and the rate
  cap have no await between them, so the only gap is the one before the append, and it
  is in the model.
- `prune()` and `loadCursor()` are left out: nothing in `lib/` calls them.

### How DecisionStoreLock and DecisionStore correspond to the code

A `Writer` is an owner id, with one call in flight. `Acquire` is a call of
`acquireDecisionStoreLockFileCompareAndWrite`; `PlanRejects`, `PlanCreates` and
`PlanReplaces` are the first read and `planDecisionStoreAtomicAcquire`. Creation is
`CreateLock` (open with `wx`) and `FillCreated`; takeover is `Reread`, `OpenTemp`,
`FillTemp`, `RenameTemp`, and `Cleanup` in the catch block. `WriteFails`, `UnlinkFails` and
`Die` are the faults, at any of these.

- `writeFile` is two steps, and between them others see an empty file. An open file
  follows its inode: `at` is the name it has at the moment, so a write may land in the
  lock file after somebody else's rename, or nowhere. Two writes to one inode may
  overlay each other, which leaves `Garbled`.
- The clock is one clock; a call works with the time it was given.
- Nothing deletes the lock file: the release shell decides and does not write.
- The older acquire shell of `decisionStoreLockFile.ts` is in `FileShells`.

`Recover`, `PlanAppend`, `CheckOwnership`, `AppendLine` and `AppendFails` are the calls on
the store. `lib/` holds no caller that makes them in a row; the order, and that a
writer recovers again after each append, are taken from the smoke tests. A record is
its id, its candidate and run, and its content; validation is a set of refused
records. The recovery scan is a fold over the lines, as in the code.

### How TonapiClient corresponds to the code

A reader is one caller that awaits. `ReadProfile`, `ReadBulk` and `ReadHistory` are the
code up to the first await: cache, then a read in flight, then credentials, rate limiter
and the request. `Responds`, `Refuses`, `Fails` and `TimesOut` settle an attempt, `Retries` ends
the wait before the next; the readers that joined are answered in the step that settles
the read, because their continuations run before any other event. Bulk reads do not
collapse, and their response puts every account it holds into the cache. `requests` is the
log of the provider: the times at which `Attempt` asked it, which nothing in the code
reads. Time is in ticks and does not step back; durations of back-off are left out.

### How JettonLedger corresponds to the code

A wallet is named by its owner. Each receiver of `JettonMaster.tact` and
`JettonWallet.tact` that changes supply, balance or policy is an action; `Sends` is the
sending of its messages, of which a prefix may be paid for; `Credit`, `BurnNotified`,
`SyncPolicy` and `UpdateVault` are the deliveries, `Bounce`, `Lose` and `MintReturned` what
fails. One sender's messages to one receiver arrive in order, others in any order.

### How StageBWatch corresponds to the code

Each code (`W0xx`) is a formula on the state, the targets and the rows of one report;
`Findings` is `detectFindings`, `ExitCode` the end of `main`. Codes about ids, headers, amounts,
hashes, error texts and the operators file (W002, W014, W015, W018, W020, W021, W023,
W027) read what `CampaignDispatch` leaves out, and are left out.

### How the offline stages correspond to the code

`IntentPipeline`: a worker is a caller of the planners in the order of the smoke tests.
`Build` is `buildDispatchIntentFromDecision`, `PlanFromRead` the read and first plan of
`applyDispatchIntentToRunState`, `Insert` and `WriteFails` its update, `TakeIn` the dry-run
intake, `Transit` the transition plan, `Expose` the exposure; the halt is asked at the four
boundaries of `administrativeHaltInterception.ts`. `EngineMoves` is the dispatcher on the
same run state.

`FileShells`: an acquire is `ReadLock`, `OpenTemp`, `FillTemp`, `Acquires` or `RenameFails`; the
temporary name is one for all callers, opening it empties it, and a rename takes an open
file along. An append is `LookForFile` and `AppendRow`. A fill and an append are one write.
`ShellStops` is a crash at any point.

The evaluators are operators: one per function, with the checks in the order of the
code (`FirstRefusal`), on records whose fields have the values the checks tell apart.
`OfflineEvaluators` calls one on an input of `Calls` and states what the answer promises of
other functions: that what a launcher accepts the dispatcher accepts, that what the
store loads it can save, that a replayed envelope is caught under any spelling, that
both readers of a page make the same event of it, that the two lock planners agree.
`CallsAssumption` says what the inputs are: `Typed` asks of each function's input what the
types of its parameters say or what the code checks before the call (the operators' file
was checked before the state is loaded, the containers of a state file exist, the counts
of a batch summary add up to no more than the batch). TLC evaluates it on every input of
`offline_stages`; wrong values of the right type, which the functions are there to refuse,
satisfy it.

The forms are chosen so that the same definitions can be reasoned about: a filtered list is
`Selected` at a set of places, a power of two a function on the attempts (`Power`), and a
changed record or map a function constructor.

The gates of stages G to I exist as deciding functions in their smoke scripts, which also
hold the cases they must decide; nothing in `lib/` calls them. `GateContracts` has each
function with its checks in order. What a gate promises relates its answer to its answers
on other inputs (rows in another order, a later time, a budget at its cap, another policy)
or to the dispatcher: the final recheck and `buildEligibleList` agree on when a cooldown
is over, and what the state file holds as submitted lacks nothing to the resumption of G-4
but a key of its own, which the entries of the script have and those of the file do not.

## 3. Runs

Deadlock checking is off in all runs because the calls are bounded: when they are
spent and have settled the system stops, as launchers do. The runs named `dispatch_*`
use `MCCampaignDispatch`, the others the MC module of their component.

| Run | Question | Bounds |
|---|---|---|
| `dispatch_calls` | do entries, chain and audit log agree through repeated calls, and does the watcher pass what settled? `TypeOK`, `LiveIsPending`, `TerminalIsRecorded`, `OneSuccessRow`, `AttemptsBounded`, `SettledPassesWatch`, `BenchedNeverSends` | 1 process, 2 recipients in 2 batches, 2 operators, 4 calls, 1 fault, 2 attempts, four kinds of failure, rotations with cooldowns, no evidence |
| `dispatch_two_processes` | do two launchers and the reconciler stay out of each other's way? `CampaignInv`, `RunLockOwned`, `SuccessMeansMinted`, `CompletedMeansSettled`, `PaidAtMostOnce`, `HookAndLockRule`, `TerminalIsFinal`, and the promise to each recipient: `ImplementsPayout` | 2 processes (symmetric), 2 recipients in 1 batch, 1 operator, 3 calls, 1 fault, evidence of success and failure |
| `dispatch_liveness` | do calls settle and is the lock given back? `CallsEnd`, `RunLockFreed` | 2 processes, live, dry-run and refused calls, every failure, no fault |
| `dispatch_stuck_lock` | expected violation of `NoStuckLock` | 1 process, 1 crash |
| `dispatch_replacement` | expected violation of `NoReplacementAttempt` | 1 recipient, one ambiguous timeout |
| `dispatch_rebatched` | expected violation of `PaidAtMostOnce` | two calls with different batch sizes |
| `state_store` | is `store.update()` atomic, and is every call answered? `TypeOK`, `StoreInv`, `ImplementsAtomicState`, `UpdatesAnswered`, `LockFileRemoved` | 2 processes, 3 store instances (two of them in one process), 4 updates (two of them chained on one instance), 1 fault |
| `ingestion` | is a candidate recorded once, is a stop obeyed, is every event accounted for? `TypeOK`, `DedupInv`, `AtMostOneAfterStop`, `NoSilentLoss` | 5 events of 2 candidates, one rejected, one undated; 3 overlapping pages; 3 calls, 2 faults, 1 candidate a minute, 4 contents of the Commander's file, all tears |
| `decision_store` | does the lock exclude, and what does it keep of the store? `TypeOK`, `CreatedExcludes`, `NoTempLeftBehind`, `OneVerdictPerRun`, `RecoveryFailsClosed` | 2 writers (symmetric), 3 acquire calls, clock to 2, locks of length 0 and 1, begun now or in the future, 1 fault; 4 records of one run: two under one id, one under another, one invalid; 2 lines, any tear |
| `tonapi_client` | is an account fetched once, are bursts of requests bounded, is every read answered? `TypeOK`, `OneFetchPerAccount`, `BurstsAreBounded`, `EveryReadAnswered` | 2 readers, 2 accounts, cache of 1 profile for 1 tick, 1 request per window of 2 ticks, 2 attempts, 3 reads, clock to 5 (three windows, at any offset to one another), bulk reads of a batch and of more |
| `jetton_ledger` | does the supply cover what is held and on its way? `LedgerInv` | 2 owners and an address of another workchain, 4 orders of amount 1, 1 fault, one broadcast list |
| `offline_stages` | does the pipeline keep to what was decided, and do the parts fit each other? `PipelineInv`, `NeverReplaces`, `LoneCallsHold`, `PromisesKept` | 2 workers (symmetric), 3 pipelines, 2 faults or moves of the dispatcher, 2 spellings of an address; 2 callers, 4 shell calls, clock to 2; about 56,000 evaluator inputs |

Why the bounds are enough: the races are between two actors, so two processes
show them; a second batch and a second operator are what rotation and deferral
need; two attempts put a retry before the last one, and a rotation at the last
puts the entry past the maximum; the third and fourth calls let a call begin on
what a held, a crashed and a rotated call left. The proofs below do not depend
on any of them.

For the store: two chained updates show the order within an instance, two instances in
one process and one in another show every kind of rival for the lock file, and one
fault is enough to leave a lock file behind for all others. For ingestion: two
observations of one candidate in different pages, with a failure and a restart
between them, are what deduplication must survive; a torn line needs one fault and
the crash after it a second. For the decision store: a creation, its expiry and two
takeovers that cross take three calls and two ticks; two lines are a record and what
conflicts with it. One lock id is used, so the comparison of lock ids in the ownership
check is not exercised apart from that of owners.

For the client: two readers of one account and a full cache show collapsing and
eviction, a window that ends while an attempt waits needs the third tick. For the
ledger: a mint, a transfer, a burn and a policy order are four orders, and one fault
bounces, loses or leaves unpaid any of their messages. For the pipeline: two workers
with two spellings of an address write one key, and one move of the dispatcher between
their reads and writes is what the second plan is for. For the shells: two calls each
let a caller meet what it and the other left. The evaluators are called on an input that
is accepted and on inputs one field away from it, at each boundary the code compares.

Fairness (`dispatch_liveness`): weak fairness of each process's own steps, because
a launcher that is not killed keeps running its event loop; weak fairness of the
chain, because a message either executes or expires. Nothing is assumed of the
clock, of crashes or of new calls.

Fairness (`state_store`): weak fairness of each update's own steps, because a process
that lives runs its event loop, and of its deadline, because ten seconds pass. Weak
fairness of acquiring is enough: an update that loses the race for the lock file over
and over is answered by the timeout, as in the code.

Fairness (`tonapi_client`): the request timer and the wait of a retry fire. The provider
need not answer.

Each property has a mutant in `PROJECT.json`: a plausible bug in one definition
under which the run must fail. They stand before the definition they replace.

### Disagreements between code and documents

- **A stopped run leaves a stuck lock** (`dispatch_stuck_lock`). The fault procedure
  in `docs/CURRENT_PROJECT_STATE.md` expects of Ctrl+C and a rerun "no stuck lock" and
  "clean completion". The lock is cleared only by a `finally` block, it has no expiry,
  and no code clears a lock found held: every later call rejects.
- **A broadcast may be replaced** (`dispatch_replacement`). The comment above the
  uncertain-submission branch says that the dispatcher must not expose a
  replacement attempt after a possibly successful broadcast. Keyword groups are
  tested in order and "timeout" comes before "broadcast", "submitted" and "could not
  confirm": a message that says both is a timeout and is retried.
- **A new batch size mints again** (`dispatch_rebatched`). State keys hold the batch
  number, and the batch size defaults to the first enabled operator's
  `maxBatchSize`. `docs/STAGE_G_FREEZE_REVIEW.md` says that provider selection must not
  affect the state key and that the key prevents duplicate intent.

Others were met while modelling and have no run of their own:

- **The dedup map and the candidate file may differ.** The comment on `loadDedupStore`
  says that the dedup state is consistent with the candidates file at all times. An
  append that fails half-way leaves an open line; the next candidate is appended to it
  and marked as seen, but its record does not parse. A restart forgets it again.
  `DedupInv` is what does hold: never two current records of one candidate.
- **A takeover may replace an active lock.** `docs/STAGE_E_FREEZE_REVIEW.md` says that a
  stale lock is replaced only after re-read and exact comparison. The comparison comes
  before the temp file is written (`decisionStoreAtomicAcquireFile.ts`): of two writers
  that compared the same expired lock, the second renames over the lock of the first,
  and both are told they acquired. The same review lists this race as untested.
  `CreatedExcludes` is what does hold.
- **The watcher's severities.** `docs/STAGE_B_WATCHER_DESIGN.md` makes W005 a warning, and
  W004 one while the campaign runs; in the code both are critical. W011 also fires
  between the lock and the first submission. A campaign completed by several launches
  fails W017, because each launch writes a report of its own. A launch that dies between
  its last settlement and its release leaves a completed campaign that W010 reports.
- **Campaign ids with "::".** The audit recorder splits the state key at "::" and then
  looks up the wrong recipient: the amount is not found, the write throws after the
  broadcast, and the entry stays submitted. The launcher does not refuse such an id.
- **Duplicate targets** are refused by the batch planner only, after the campaign was
  marked running. The metadata tool hands the planner amounts that are no bigints, so
  each of its runs that gets that far throws there and leaves the status "running".
- **The state store's comments** say that missing containers are normalised and malformed
  entries replaced with defaults (`stateStore.ts`, `loadState` and `validateEntries`); the code
  throws. A run lock for an attempt below 1 passes its guard and is refused at the save
  (`OnlyAttemptZeroIsLate`). An audit row whose hash or detail is no text passes
  `buildTerminalEntryMap` and makes the recovery fail at the save (`RecoveryIsSaved`).
- **Preflight.** `appendVersionParam` says that it keeps the scheme of the image; of
  `ipfs://cid/x.png` it makes `ipfs:///ipfs://cid/x.png?v=...`.
- **Provider pages.** One timestamp out of the range of dates makes the client reject the
  whole page (`unixSecondsToIso`). The logical time is trimmed and not made canonical in
  a candidate's identity, so "07" and "7" are two candidates.
- **Gas.** `computeBitFee` says it uses bigints throughout and uses floats, rounding down;
  the depth price of the chain may be negative. The gas oracle cuts the gas price before
  it multiplies, short by less than one nanoTON per unit of gas, which its fixed buffer
  covers (`AttachedCoversPrice`).
- **Gates.** `docs/STAGE_I2_3_BOUNDARY_VALIDATION_LOGIC.md` (BV6) lets a boundary progress
  only through allowed forward transitions; `validateBoundary` checks that a transition is
  one of them, and never reads `boundaryState`, the state it would leave. The resumption
  contract of G-4 lets an uncertain submission resume once its window is over, while
  `reconciler.ts` says that elapsed time never authorizes a replan. G-4 also asks a run state
  entry for a `stateKey` (`isValidRecoveryEntry`), as its own cases have it; a `StateEntry`
  (`stateStore.ts`) has none, so every submission as the state file holds it would be
  `malformed_run_state`, and with the key added none would (`ResumeIsCurrent`). The final recheck of
  G-7 refuses attempt numbers below 1, and `decisionStoreRunStateAdapter.ts` plans every
  entry with attempt 0: put in front of the dispatcher it would refuse each of them. In
  H-4.2 the first valid target of an address decides, so the order of targets matters
  (`FirstTargetDecides`).
- **The request limit.** `TonapiClientConfig` speaks of the maximum of adapter calls per
  60-second window. The window opens with a request and is not a sliding one: twice the
  maximum may fall within 60 seconds where two windows meet, and no more
  (`BurstsAreBounded`, which is exact). The credentials are to be checked before every adapter
  call and are checked once for all attempts of a read. A bulk read answers with the hits
  it took before its request, which may have expired when the answer comes.
- **Shells.** With two callers at once the older acquire may tell both that they have the
  lock, or leave a blank lock file after which every call fails to parse it; two first
  appends write two headers. `LoneCallsHold` is what does hold.

## 4. Proofs

The theorems are about `Spec` for every value of the constants that satisfies the named
assumptions of the module, which only give the constants their types and ranges
(sequences and sets, batches that fit `BatchCount`, at least one attempt). What a theorem needs beyond them is a hypothesis in its statement.

### The dispatch path

| Theorem | Statement | Hypothesis |
|---|---|---|
| `Typing` | `[]TypeOK` | |
| `MutualExclusion` | `[]RunLockOwned` | |
| `HookAndLockHolds` | `HookAndLockRule` | |
| `TerminalFinality` | `TerminalIsFinal` | |
| `BoundedAttempts` | `[]AttemptsBounded` | |
| `CompletionIsEarned` | `[]CompletedMeansSettled` | |
| `CampaignSafety` | `[]CampaignInv` | `TruthfulExecutor` |
| `NothingIsLost` | `[]LiveIsPending` | `TruthfulExecutor` |
| `NobodyPaidTwice` | `[]PaidAtMostOnce` | `TruthfulExecutor`, `FixedBatches` |
| `SuccessIsMint` | `[]SuccessMeansMinted` | `LiveOnly` |
| `RecordsPrecede` | `[]TerminalIsRecorded` | `NoSuccessEvidence` |
| `OneRowEach` | `[]OneSuccessRow` | `FixedBatches` |
| `BenchedIsSpared` | `BenchedNeverSends` | `OneProcess` |
| `CampaignKeepsPromise` | `ImplementsPayout` | `TruthfulExecutor`, `LiveOnly`, `FixedBatches` |
| `SettledPasses` | `[]SettledPassesWatch` | `OnePlan` |

The hypotheses are in `CampaignInvariant`. None is there for convenience: without it the
conclusion is false of the code.

- `TruthfulExecutor`: whatever the executor throws although the message can still mint is
  classified as an uncertain submission. `dispatch_replacement` shows what happens
  otherwise.
- `FixedBatches`: all calls of the campaign agree on recipients and batch size, so that a
  recipient has one state key; `dispatch_rebatched` shows what happens otherwise. `OnePlan`
  is stronger by a step: all calls have the same keys. The launcher derives both from one
  targets file and one operators file.
- `LiveOnly`: no call is a dry run. A dry run writes the same success entries as a live one,
  for messages that were never sent.
- `NoSuccessEvidence`: the evidence reader reports no success. Stage A's returns nothing at
  all (`launchStageA.ts`). A reader that found a mint on chain would let the recovery settle an
  entry for which no audit row was written.
- `OneProcess`: one launcher, which is how Stage A is started. Two launchers may each
  clear or set the failure window of an operator the other is sending through (`walletPool.ts`).

**A batch run.** None of these properties is inductive by itself. `CampaignInv` is
(TLC checks it in `dispatch_two_processes`). Its parts:

- `RunLockInv`: a process in its batch run holds the persisted lock, under a ticket
  no older lease can have. The ticket is what makes a late release harmless.
- `AttemptInv`: an entry's attempt number bounds every attempt number seen anywhere
  (messages, audit rows, snapshots, locals). It makes an attempt a fresh name.
- `HistoryInv`, `EvidenceInv`: recorded rows, evidence read and snapshots agree with
  the entry whenever they name its current attempt, so a stale recovery is caught
  by the guard of `SubmittedAs`.
- `FreshInv`: before the broadcast nothing of the current attempt is on chain.
- `DeadInv`: an attempt whose verdict replans or fails the entry cannot mint. It is
  the part that needs `TruthfulExecutor`.
- `PlannedInv`, `FinalInv`, `CompletedInv`: entries belong to the plan being walked, and a
  process that has decided "completed" has seen only terminal entries, which
  terminal finality keeps so until it writes. This is why reading in one transaction
  and writing in another is sound for "completed".

`BatchInv` is the part that holds whatever the executor says. `CampaignSafetyProofs`
proves each part from typing and the parts before it, then the theorems.

**Entries, rows and mints** (`CampaignPayoutProofs`). An outcome passes through four
places: the chain, the verdict in hand, the audit row, the entry. Each invariant follows
it through all of them, because a crash may end the passage anywhere and the recovery
takes it up from the evidence.

- `MintedInv`: a success in hand, in a row, in evidence or in an entry is of a message that
  minted.
- `RecordedInv`: from the row to the settlement the row of the very attempt in hand is on
  file; `RowOfEntry` turns it into the row of the entry at the moment it is settled.
- `RowsInv`: until its row is written an attempt has none; a success row is of the attempt its
  entry still stands at (`StandsAt`), so no later attempt can succeed as well. That is what
  makes a second success row of a recipient impossible; fixed batches make a key of it.
- `SparedInv`: from the choice of an operator to the broadcast its failure window is not
  open. With one process the only step that opens it is the rotation that ends the run.

**The refinement of `Payout`.** The abstract state of a recipient is computed from its
entries and messages. `CampaignKeepsPromise` shows for each step that it is a step of `Payout` or a
stutter: the mint is the one that pays, a success of an entry declares, a failure for
good refuses; it uses `CampaignInv`, `MintedInv` and terminal finality, and `FixedBatches` to
speak of a recipient where the code speaks of a key.

**The watcher.** `SettledPasses` is about a campaign that completed and is at rest: every
check of `StageBWatch` on the state passes, and after one launch those on its report do,
but for the one that finds a run lock left behind. It needs that an attempt number never
runs ahead of its batch's counter (`TicketInv`: what a batch run still has to serve is
behind its ticket), that a lock names a batch of the plan (`LockedInv`), and that the keys
the planner computes are those the watcher computes from the targets, one for each.
`FirstCallInv` follows the first call batch by batch: each key in the queue has no row
yet, each one served has exactly one, and nothing is left for the recovery to do.
The counts of the report are then equal because entries and rows correspond one to one.

### The stores, ingestion and the client

| Theorem | Statement |
|---|---|
| `StoreTyping` | `Spec => []TypeOK` of `StateStoreLock` |
| `TransactionsExclude` | `[]StoreInv` |
| `StoreIsAtomic` | `ImplementsAtomicState` |
| `IngestionTyping` | `Spec => []TypeOK` of `CandidateIngestion` |
| `DedupHolds` | `[]DedupInv` |
| `StopObeyed` | `[]AtMostOneAfterStop` |
| `LossIsNoticed` | `NoSilentLoss` |
| `LockTyping` | `LockSpec => []LockTypeOK` of `DecisionStoreLock` |
| `CreationExcludes` | `[]CreatedExcludes` |
| `TempIsCleanedUp` | `[]NoTempLeftBehind` |
| `StoreRunsLock` | `Spec` of `DecisionStore` implies `LockSpec` and the two above |
| `StoreTyping` | `Spec => []TypeOK` of `DecisionStore` |
| `RecoveryIsClosed` | `[]RecoveryFailsClosed` |
| `OneVerdict` | `[]OneVerdictPerRun` |
| `ClientTyping` | `Spec => []TypeOK` of `TonapiClient` |
| `FetchedOnce` | `[]OneFetchPerAccount` |
| `BurstsStayBounded` | `[]BurstsAreBounded` |

They hold for all processes, stores, events, pages, writers, records, readers, accounts and
bounds of the right types, and need nothing else.

`StoreInv` is inductive with typing: whoever is inside the transaction holds the lock
file, so there is one such update, so no one writes the state between its load and its
rename and its draft is the present state with itself added. That last fact maps
`SaveState` to a single `TakesEffect`; `SavedInv` says that resolved updates are in the
state and rejected ones are not, which makes each answer true. An update that timed
out never held the lock file and does not touch it: with the mutant that unlinks it
the invariant fails.

`DedupInv` is `OneCurrentRecord` with what makes it inductive: `MapCovers`, the map
knows every current record except the one in a line a failed append left open (the
next append destroys that record, and a restart loads it), and `NotSeenYet`, the
candidate about to be written is not in the map. `StopObeyed` rests on `StopInv`:
once a candidate has been written since the stop, no other is past the gate, and the
gate lets none through (`GateFailsClosed`). `LossIsNoticed` rests on `LossInv`: while no line
is torn (`Whole`), what the map knows is on file, and each event of the page before the
present one is rejected or has its trace. A line once torn stays torn, so the condition
may be taken after each step.

`LockInv` follows the one creation a lock file can have: before it nobody takes over and
nobody holds (`MissingInv`), while the creator writes the same is true of everyone else
(`CreatingInv`), and it stays true until the written lock expires (`CreatedInv`),
because a takeover is only planned of a lock that is over at a time no later than now.
It says nothing of locks that were taken over: for them exclusion fails.
`VerdictInv` carries it over to the store: until a lock is replaced one writer has a
lock (`OneHolder`), that writer's index has every line (`SessionInv`), and what it plans is new
to its index, so no second verdict on a run is appended.

`RecoveryIsClosed` is about the recovery scan, a fold over the lines. Its result is
characterised for files of any length (the scan fails exactly when a line is refused
or two lines give different verdicts on one run) with the argument below.

The client needs three invariants. `ReadersInv` is about readers only: an account in flight has
exactly one reader that fetches it, and who joined has one to wait for (`Collapsed`).
`LogInv` is about the limiter and the log only: the last `count` requests are those of the
open window, all others were made before it opened, and those a full window further back
before the window that came before it (`WindowsOK`). So the request that is twice the maximum
back is more than a window old when the limiter lets the next one through. `ClientInv` types the cache: `get` and `set` keep an account once and the cache within its
size (`CacheOK`), and so do the folds of them over the lists of a bulk read; an
attempt that waits for a retry has one left.

### The ledger and the offline stages

| Theorem | Statement |
|---|---|
| `SupplyHolds` | `[]LedgerInv` of `JettonLedger` |
| `OnlyDecidedIsExposed` | `[]PipelineInv` of `OfflineStages` |
| `EntriesKeepProvenance` | `NeverReplaces` |
| `LoneCallsKeepWord` | `LoneCallsHold` |
| `EveryPromiseIsKept` | `[]PromisesKept` |

`LedgerInv` compares the supply with the sum of all balances and of the amounts of all
messages on their way. The lemmas before it say how such a sum changes when a function
changes at one or two points and when a message enters or leaves; each delivery and each
bounce then moves an amount from one side to the other.

`StageInv` makes `PipelineInv` inductive: not only what is exposed but whatever the run
state or a worker holds was decided, for that key and amount (`CarriedInv`), and has no
attempt yet. It passes through the planners because a list of checks answers "none" only if
each check passed (`NothingRefused`), which is what `IntentAccepted`, `BatchTaken` and
`TransitionAccepted` take from them. `NeverReplaces` rests on `InsertsIntoVoid`: the second plan,
made on the state under the update, inserts only where there is nothing.

`ShellInv` says of a call that no other has overlapped that all others are idle, that it
looks at the files as they are, and that what it opened, filled and renamed is its own
(`LoneInv`), with files that a finished or stopped call may have left in any shape.

`EveryPromiseIsKept` is about all inputs that satisfy `CallsAssumption`: lists, trees and files of
any length, any clock and any amounts. Its inductive invariant is small: a call under way
is a typed input of its function (`CallInv`) and its answer is that function's answer to it
(`AnswerInv`). The work is in one lemma per promise (`TiersKept`, `ReplayKept`, ..., `RecordKept` and
`GateKept`, which split by function), in three layers:

- *A list of checks passes when each of them does.* For each function one lemma
  (`BoundaryPasses`, `RecheckPasses`, ...) turns the literal list of its checks into a conjunction,
  with `FirstRefusalIs` for the reason given. After that a promise about another input is a
  comparison of two conjunctions: which of the checks the changed field can touch.
- *Lists.* What `Selected` returns, in which order, and how two selections of one list
  compare; the plan of the batches (`RecipientsPlanned`: every recipient in one batch, only
  the last one not full) by the division that makes it; the sums of a report and of a payload by
  the argument on least sets below; a list of pairs as the function it stands for.
- *Saved states.* What `loadState` lets through and what a guarded update makes is what
  `saveState` asks for (`LoadedSaves` and its neighbours), field by field; the exceptions are in the
  promise itself, and are those reported above (`OnlyAttemptZeroIsLate`, `RecoveryIsSaved`).

Three promises had to be put right for this: `MetadataIsPinned`, `RollbackNeedsPolicy` and
`BoundaryNeedsAll` spoke of a changed field also where the change leaves the input as it is.

### Folds and sums

The library's induction theorems take an operator as a parameter, which the provers
cannot instantiate. Where a theorem is about a sum or a fold (`RecoveryIsClosed`, `ClientTyping`,
`SupplyHolds`, `EveryPromiseIsKept`), the induction is over sets instead: if a fact failed for a subset of a
finite set, it would fail for one of least cardinality (`MinimalSubset`, `MinimalPart`, from the
library's theorem that the order of the naturals is well founded), and removing one
element from that one gives the contradiction. `SummingExists` and `FoldingExists` show in this way
that the functions by which the community modules define their sums and folds exist.

### What is only model-checked

- Liveness under fairness (`CallsEnd`, `RunLockFreed`, `UpdatesAnswered`, `LockFileRemoved`,
  `EveryReadAnswered`): fairness is about `ENABLED`, which is out of the prover's reach.
- The expected violations, which are single behaviours.

Every safety invariant and every action property that a run checks is stated by one of the theorems.

## 5. Plan

1. Done: the dispatch path, `StateStoreLock` with its refinement of `AtomicState`,
   `CandidateIngestion`, `DecisionStoreLock` and `DecisionStore`.
2. Done: `JettonLedger`, `TonapiClient`, `StageBWatch`.
3. Done: the intent pipeline, the file shells, and the evaluators and gates with their
   promises.
4. Done, proofs: every safety invariant and action property of the dispatch path, with the
   refinement of `Payout`; of the store, with the refinement of `AtomicState`; of ingestion,
   the decision store, the client, the ledger, the pipeline and the shells; and the promises
   of the evaluators and gates.
5. Open: `NobodyPaidTwice` from the refinement of `Payout` instead of beside it; liveness, which
   stays with TLC; the hazards that no property covers, each with its reason in `PROJECT.json`.

### Not modelled

- Quarantined scripts (`bulkMint.ts`, `batchStatusUpdate.ts`, `vaultDistribution.ts`,
  `vaultDistribution_linkTest.ts`, `deployJettonMaster.ts`): each throws at
  `assertLegacyScriptBlocked` before it does anything. `legacy/`, the message registries,
  `staggered-broadcaster.js` and the other loose `.js` files of `lib/` have no caller in the
  active path.
- Smoke tests (apart from the gates eleven of them define), the state-integrity regression
  and the documents: read as the reference. Among them are scripts that only scan files for
  secrets, imports or wording, and the mock evaluator of I-3.
- Formats: CSV quoting, JSON text, logging, console output; paths and their checks.
- The chain itself beyond what the executor's caller sees, and hashes and signatures
  beyond being equal or verified.
- In modelled components, what `PROJECT.json` notes: counters nobody reads, `prune()` and
  `loadCursor()`, contract payloads and getters.
