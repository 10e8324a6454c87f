-------------------------- MODULE OfflineEvaluators --------------------------
(***************************************************************************)
(* One call of one of the pure functions of FeePolicies, HealthRecords,    *)
(* BlacklistPreflight, ProviderEvents, LaunchChecks, RecordEvaluators or   *)
(* GateContracts, and what its answer promises of later calls.             *)
(***************************************************************************)
EXTENDS BlacklistPreflight, ProviderEvents, RecordEvaluators, GateContracts

CONSTANT
  Calls   \* by function, the inputs it is called with

VARIABLES
  call,   \* the function and its input
  answer  \* <<>>, then its answer

-----------------------------------------------------------------------------
(* The inputs: what the types of the parameters say, or the check before the call *)

IsList(s) == s \in Seq(ToSet(s))

StateFields == {"schema", "meta", "entries", "operators", "lock"}
EntryFields ==
  {"batch", "recipient", "index", "amount", "status", "attempt", "operator", "label", "txHash",
   "networkRef", "lastErrorCode", "lastError", "created", "updated", "submitted", "finalized",
   "cooldown", "lastDecision", "metadata"}

\* The operators' file was checked, and isStateRunV1 asks for the containers.
LoadTyped(x) ==
  /\ FullText(x.campaign) /\ x.now \in Nat
  /\ \A i \in DOMAIN x.pool.list : x.pool.list[i].id # ""
  /\ DOMAIN x.file.state = StateFields
  /\ \A k \in DOMAIN x.file.state.entries : x.file.state.entries[k].attempt \in Int

\* The owner of a lock has names.
UpdateTyped(x) ==
  /\ DOMAIN x.state = StateFields /\ x.mutation.op \in {"set", "acquire", "release"}
  /\ x.mutation.op = "acquire" =>
       /\ {x.mutation.id.batch, x.mutation.id.operator} \cap {NullText, BadText} = {}
       /\ x.mutation.id.attempt \in Int /\ x.mutation.at \in Int

RecoveryTyped(x) ==
  /\ DOMAIN x.entry = EntryFields /\ x.entry.attempt \in Int /\ x.now \in Nat
  /\ x.row # NoRow => x.row.outcome \in Outcomes

\* The input of a decision, as far as its name is concerned.
NamedInput(x) ==
  /\ {"candidate", "run", "ruleset", "blacklist", "reason", "budget"} \subseteq DOMAIN x
  /\ \A field \in {"candidate", "run", "ruleset", "blacklist"} : x[field] \in Seq(STRING)
  /\ x.budget.policy \in Seq(STRING) /\ x.reason \in STRING

\* A cell of a payload has so many bits, and a path leads to it.
TreeTyped(tree) ==
  /\ IsFiniteSet(DOMAIN tree)
  /\ \A p \in DOMAIN tree : tree[p] \in Nat /\ Len(p) \in Nat

RecordTyped(f, x) ==
  CASE f = "loadState" -> LoadTyped(x)
    [] f = "update" -> UpdateTyped(x)
    [] f = "reconcileCampaign" -> RecoveryTyped(x)
    [] f = "planDecisionStoreAtomicAcquire" ->
         /\ x.now \in Int /\ (x.existing = <<>> \/ x.existing = <<x.existing[1]>>)
         /\ x.existing # <<>> => x.existing[1].expiresAtMs \in Int
    [] f = "tryBuildCandidateDecisionRecord" -> NamedInput(x)
    [] f = "generate-targets" ->
         /\ IsList(x.draws) /\ \A i \in DOMAIN x.draws : x.draws[i][1] # ""
         /\ {x.args.count, x.args.amount} \subseteq Int
    [] f = "estimateAdaptiveForwardTonAmount" ->
         TreeTyped(x.tree) /\ {x.chain.perBit, x.chain.perCell, x.chain.perDepth} \subseteq Int
    [] f = "calcJettonTransferValue" ->
         {x.prices.flat, x.forward} \subseteq Int /\ x.prices.gas \in Nat
    [] f = "prepareExecutionPlan" -> {x.count, x.perHour} \subseteq Int
    [] f = "buildDispatcherAuditRecorder" ->
         /\ {x.campaign, x.batch} \cap {NullText, BadText} = {}
         /\ Len(x.key) >= 2 => x.key[2] \notin {NullText, BadText}
         /\ x.attempt \in Int /\ x.optional # BadText
    [] f = "classify" -> x.attempt \in Int
    [] f = "buildDispatchReport" ->
         /\ IsList(x.summaries) /\ x.total \in Int
         /\ \A i \in DOMAIN x.summaries :
              LET s == x.summaries[i]
              IN {s.succeeded, s.failed, s.cooldown, s.size} \subseteq Nat
                   /\ s.succeeded + s.failed + s.cooldown <= s.size
    [] OTHER -> TRUE

GateTyped(f, x) ==
  CASE f = "evaluateSimulatedRecovery" ->
         /\ {x.now, x.local, x.latest, x.expires} \subseteq Int
         /\ {"now", "latest", "reported"} \subseteq DOMAIN x
         /\ x.entry # NotPersisted => x.entry.submitted \in Nat \cup {NullInstant, BadInstant}
    [] f = "reconcileTerminalAudit" ->
         /\ {"formed", "heartbeat", "entries", "rows", "summary"} \subseteq DOMAIN x
         /\ IsList(x.entries) /\ IsList(x.rows)
    [] f = "validateMetadataIntent" ->
         /\ {"now", "intent", "approvals", "lineage", "gateway"} \subseteq DOMAIN x
         /\ {"effective", "approved", "delay", "approval", "rollback", "uri", "hash"}
              \subseteq DOMAIN x.intent
         /\ {x.now, x.intent.approved, x.intent.delay, x.intent.effective} \subseteq Int
    [] f = "validate metadata" ->
         /\ {"metadata", "identity", "pinned", "pinnedIdentity"} \subseteq DOMAIN x
         /\ {"texts", "decimals"} \subseteq DOMAIN x.metadata
    [] f = "validateRollback" ->
         /\ {"intent", "policy"} \subseteq DOMAIN x
         /\ x.policy = [original |-> x.policy.original, lineages |-> x.policy.lineages,
                        approvals |-> x.policy.approvals]
    [] f = "evaluateFinalEligibility" -> {x.now, x.entry.cooldown} \subseteq Int
    [] f = "evaluateTarget" -> IsList(x.targets)
    [] f = "evaluateBudget" ->
         /\ {"spent", "cap", "balance", "reserve", "feePolicy", "unknown", "pause"}
              \subseteq DOMAIN x
         /\ x.reserve \in Int /\ x.cap \in [BudgetLines -> Int]
    [] f = "evaluateNetworkBoundary" ->
         /\ DOMAIN x =
              {"halt", "enabled", "dryRun", "expectedChain", "observedChain", "campaign",
               "confirmed", "proof", "expectedCommit", "workflow", "ciStatus",
               "ciConclusion", "ciCommit", "approval", "now", "expires"}
         /\ x.expires \in Int
    [] f = "validateBoundary" ->
         {"raised", "identity", "expected", "transition"} \subseteq DOMAIN x
    [] OTHER -> TRUE

Typed(f, x) ==
  CASE f = "resolveAssetFeePolicy" ->
         \A i \in DOMAIN x.policies :
           LET p == x.policies[i] IN {p.base, p.max, p.step, p.tiers} \subseteq Int
    [] f = "resolveGasSafetyMarginPolicy" -> x.estimate \in Int
    [] f = "allocateAmount" ->
         x.config.mode = "randomRange" => {x.config.min, x.config.max, x.config.step} \subseteq Int
    [] f = "planHeartbeatAppend" ->
         {x.now, x.last, x.interval} \subseteq Int /\ x.last >= Never
    [] f = "runBlacklistPreflight" ->
         /\ {"config", "registry"} \subseteq DOMAIN x /\ "used" \in DOMAIN x.registry
         /\ x.config # NoConfig => "key" \in DOMAIN x.config /\ "upper" \in DOMAIN x.config.key
    [] f \in {"normalizeTransferHistory", "extractTonapiRawProviderEvents"} -> IsList(x.actions)
    [] f = "filterAndNormalize" -> {"amount", "destination"} \subseteq DOMAIN x.payload
    [] f = "planBatches" ->
         /\ IsList(x.recipients) /\ x.size \in Int
         /\ \A i \in DOMAIN x.recipients : x.picks[i] \in 1 .. i
    [] f = "audit write" -> IsList(x.campaign) /\ IsList(x.recipients)
    [] f \in Gates -> GateTyped(f, x)
    [] OTHER -> RecordTyped(f, x)

\* Every call is given what its function's signature asks for.
ASSUME CallsAssumption == \A f \in DOMAIN Calls : \A x \in Calls[f] : Typed(f, x)

-----------------------------------------------------------------------------
(* A call and its answer *)

NoCall == [f |-> "no call"]

Called ==
  /\ answer = <<>>
  /\ \E f \in DOMAIN Calls : \E x \in Calls[f] : call = [f |-> f, in |-> x]

Answer(f, x) ==
  CASE f = "resolveAssetFeePolicy" -> ResolveRefusal(x.campaign, x.master, x.policies)
    [] f = "resolveGasSafetyMarginPolicy" -> MarginRefusal(x.estimate, x.policy)
    [] f = "allocateAmount" -> Allocations(x.amount, x.config, x.index)
    [] f = "planHeartbeatAppend" -> AppendPlan(x.trigger, x.now, x.last, x.interval)
    [] f = "appendPassiveHeartbeatRecord" -> HeartbeatFile(<<>>, x.path, x.record)
    [] f = "validateGasEstimateSnapshot" -> SnapshotRefusal(x.snapshot, x.decisionAt)
    [] f = "planOperationalHealthProbeLane" -> ProbePlan(x.request, x.allowlist)
    [] f = "checkCrossStoreConsistency" ->
         ConsistencyIssues(x.state, x.key, x.expected, x.audit, x.log, x.heartbeat)
    [] f = "runBlacklistPreflight" -> PreflightRefusal(x)
    [] f = "loadBlacklistSignatureConfigFromEnv" -> ConfigFromEnv(x)
    [] f = "normalizeTransferHistory" -> History(x)
    [] f = "extractTonapiRawProviderEvents" -> Extracted(x)
    [] f = "extractNextCursor" -> Cursor(x)
    [] f = "normalizeBulkProfiles" -> FailedAddresses(x.asked, x.accounts)
    [] f = "filterAndNormalize" -> FilterRefusal(x.payload, x.master)
    [] f = "buildCandidateRecord" -> ProfileStatus(x)
    [] f = "run" -> LaunchRefusal(x.env, x.targets, x.operators)
    [] f = "planBatches" ->
         IF PlanRefusal(x.recipients, x.size) # None THEN <<>>
         ELSE Planned(x.recipients, x.size, x.picks)
    [] f = "audit write" -> AuditAmount(x.campaign, x.recipients, x.address)
    [] f = "broadcast" -> Injected(x.fault, x.recipients, x.address, x.attempt)
    [] f = "buildTerminalEntryMap" -> EvidenceRefusal(x)
    [] f = "verifyMetadataPreflight" -> PreflightOf(x.metadata, x.refresh)
    [] f \in Gates -> GateAnswer(f, x)
    [] OTHER -> RecordAnswer(f, x)

Evaluate ==
  /\ call # NoCall /\ answer = <<>>
  /\ answer' = <<Answer(call.f, call.in)>>
  /\ UNCHANGED call

-----------------------------------------------------------------------------
(* Properties *)

Answered(f) == answer # <<>> /\ call.f = f

\* A policy that was resolved has no tier above its cap, whatever the seed.
EveryTierFits ==
  Answered("resolveAssetFeePolicy") /\ answer[1] = None =>
    LET p == Resolved(call.in.master, call.in.policies)
    IN \A offset \in 0 .. p.tiers - 1 : TierFee(p, offset) \in p.base .. p.max

\* A margin in basis points is rounded up, by less than one.
MarginRoundsUp ==
  Answered("resolveGasSafetyMarginPolicy") /\ answer[1] = None
    /\ call.in.policy.mode = "basis_points" =>
      LET exact == call.in.estimate * call.in.policy.bps
          margin == Margin(call.in.estimate, call.in.policy)
      IN margin * Whole >= exact /\ (margin - 1) * Whole < exact

\* An amount drawn from a range is in it, and both of its ends can be drawn.
RangeIsDrawn ==
  Answered("allocateAmount") /\ call.in.config.mode = "randomRange" /\ answer[1] # {} =>
    /\ {call.in.config.min, call.in.config.max} \subseteq answer[1]
    /\ answer[1] \subseteq call.in.config.min .. call.in.config.max

\* A throttled heartbeat is due at the time it was told, and not before.
ThrottleEnds ==
  Answered("planHeartbeatAppend") /\ answer[1].reason = "skipped_throttled" =>
    \A now \in call.in.last .. answer[1].next :
      (AppendPlan("periodic", now, call.in.last, call.in.interval).action = "append_allowed")
        <=> now = answer[1].next

\* Once its replay key is recorded an envelope is not accepted again, however the
\* signer's key is spelled.
ReplayIsCaught ==
  Answered("runBlacklistPreflight") /\ answer[1] = None =>
    \A upper \in BOOLEAN :
      ~Accepted([call.in EXCEPT !.registry = Recorded(call.in), !.config.key.upper = upper])

\* Every item of a page is handed on, counted as skipped, or of another type.
EveryItemAccounted ==
  Answered("normalizeTransferHistory") /\ call.in.list =>
    Len(answer[1].events) + answer[1].skipped
      + Cardinality({i \in DOMAIN call.in.actions :
                       call.in.actions[i].object /\ ~IsTransfer(call.in.actions[i])})
      = Len(call.in.actions)

\* What the client hands on, the offline extractor reads as the same event.
ReadersAgree ==
  Answered("extractTonapiRawProviderEvents") =>
    ToSet(History(call.in).events) \subseteq ToSet(answer[1].events)

\* Two spellings of a transfer are one candidate, and two amounts are two.
IdentityIsOfTheTransfer ==
  Answered("filterAndNormalize") /\ answer[1] = None =>
    \A amount \in DOMAIN Trim, destination \in DOMAIN RawAddress :
      LET other == [call.in.payload EXCEPT !.amount = amount, !.destination = destination]
      IN FilterRefusal(other, call.in.master) = None =>
           (Identity(other) = Identity(call.in.payload) <=>
              /\ Decimal[Trim[amount]] = Decimal[Trim[call.in.payload.amount]]
              /\ CanonicalKey(destination) = CanonicalKey(call.in.payload.destination))

\* However the seed shuffles, each recipient is in one batch, and only the last batch
\* is not full.
EveryRecipientPlanned ==
  Answered("planBatches") /\ PlanRefusal(call.in.recipients, call.in.size) = None =>
    LET all == FlattenSeq(answer[1])
    IN /\ Len(all) = Len(call.in.recipients) /\ ToSet(all) = ToSet(call.in.recipients)
       /\ \A b \in 1 .. Len(answer[1]) - 1 : Len(answer[1][b]) = call.in.size

\* The recorder gives a recipient's row the recipient's amount, provided that the
\* campaign's id has no "::" in it.
AmountIsRecorded ==
  Answered("audit write") /\ Len(call.in.campaign) = 1
    /\ PlanRefusal(call.in.recipients, 1) = None =>
      \A i \in DOMAIN call.in.recipients :
        call.in.recipients[i].address = call.in.address =>
          answer[1] = call.in.recipients[i].amount

\* What the answers of the offline evaluators promise.
PromisesKept ==
  /\ EveryTierFits /\ MarginRoundsUp /\ RangeIsDrawn /\ ThrottleEnds /\ ReplayIsCaught
  /\ EveryItemAccounted /\ ReadersAgree /\ IdentityIsOfTheTransfer
  /\ EveryRecipientPlanned /\ AmountIsRecorded
  /\ answer # <<>> => /\ RecordPromise(call.f, call.in, answer[1])
                    /\ GatePromise(call.f, call.in, answer[1])
=============================================================================
