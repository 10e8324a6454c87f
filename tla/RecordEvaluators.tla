-------------------------- MODULE RecordEvaluators --------------------------
(***************************************************************************)
(* The functions of RunRecords, DecisionRecords, DispatchRecords and       *)
(* ToolScripts by name, and what their answers promise of later calls.     *)
(***************************************************************************)
EXTENDS RunRecords, DecisionRecords, DispatchRecords, ToolScripts

RecordAnswer(f, x) ==
  CASE f = "loadState" -> LoadRefusal(x.file, x.campaign)
    [] f = "update" -> UpdateRefusal(x.state, x.campaign, x.mutation)
    [] f = "reconcileCampaign" -> RecoveryRefusal(x.entry, x.row, x.now, x.timeout)
    [] f = "createReconciler" -> ReconcilerRefusal(x)
    [] f = "createWalletPool" -> PoolRefusal(x.file, x.set)
    [] f = "markFailure" -> Window(x.cooldown, x.failed, x.now)
    [] f = "appendAuditRows" -> AppendRowsRefusal(x.path, x.rows)
    [] f = "planDecisionStoreAtomicAcquire" -> AtomicPlan(x.existing, x.requested, x.now)
    [] f = "decideDecisionStoreLockRelease" -> ReleaseDecision(x.existing, x.owner)
    [] f = "tryBuildCandidateDecisionRecord" -> TryBuild(x)
    [] f = "parseDecisionRecordJsonlLine" -> LineRefusal(x)
    [] f = "generate-targets" -> GeneratedFile(x.args, x.draws)
    [] f = "updateMetadata" -> MetadataRunRefusal(x.env, x.targets, x.operators)
    [] f = "estimateAdaptiveForwardTonAmount" -> ForwardRefusal(x.tree, x.master, x.chain)
    [] f = "calcJettonTransferValue" -> AttachValue(x.prices, x.payload, x.forward)
    [] f = "prepareExecutionPlan" -> ExecutionRefusal(x.count, x.maxBatch, x.perHour)
    [] f = "buildDispatcherAuditRecorder" -> UpdateAuditRow(x)
    [] f = "createDispatcher" -> ConfigRefusal(x)
    [] f = "buildDispatchReport" -> Report(x.summaries, x.total)
    [] f = "classify" ->
         IF ClassifyRefusal(x) # None THEN <<>>
         ELSE <<RetryDecision(classifyMessage(x.message), x.attempt)>>

-----------------------------------------------------------------------------
(* Promises *)

\* What loadState accepts, a save accepts: a process that loaded the file can write it
\* back, and a pool can add the operators it does not know.  The comparison of the
\* stores raises nothing about such a state or the shape of its entries.
LoadedCanBeSaved(x, a) ==
  a = None =>
    LET s == Loaded(x.file, x.campaign, x.now)
    IN /\ ValidRunState(s, x.campaign) /\ ValidRunState(Seeded(s, x.pool), x.campaign)
       /\ RunStateIssues(s) = {}
       /\ \A k \in DOMAIN s.entries : WellShapedEntry(s.entries[k])

\* A recovery the reconciler decides on is saved, unless the row carries a hash or a
\* detail that is no text, which buildTerminalEntryMap does not look at; it ends the
\* entry, and cannot be made twice or from a snapshot of another attempt.
RecoveryIsSaved(x, a) ==
  LET key   == RunStateKey(x.entry.batch, x.entry.recipient)
      state == [EmptyRunState("c", 0) EXCEPT !.entries = [k \in {key} |-> x.entry]]
      once  == Recovery(key, x.entry, x.row, x.now)
      saved == UpdateRefusal(state, "c", once)
  IN ValidStateEntry(key, x.entry) /\ x.entry.status = "submitted" /\ a = None =>
       /\ saved = (IF BadText \in {x.row.txHash, IF x.row.outcome = "success"
                                                  THEN NullText ELSE x.row.detail}
                   THEN "next entry" ELSE None)
       /\ saved = None =>
            /\ UpdateRefusal(Mutated(state, once), "c", once) # None
            /\ LET later == [x.entry EXCEPT !.attempt = @ + 1]
                   moved == [state EXCEPT !.entries[key] = later]
               IN UpdateRefusal(moved, "c", once) # None

\* A guarded update that passes its guard is saved, unless it takes the run lock for
\* an attempt below 1: that alone is found out only at the save.
OnlyAttemptZeroIsLate(x, a) ==
  LET m == x.mutation
  IN ValidRunState(x.state, x.campaign) /\ MutationRefusal(x.state, m) = None =>
       (a = "save" <=> m.op = "acquire" /\ m.id.attempt < 1)

\* Every operator the pool may hand out has its mnemonic, and there is one.
EveryOperatorSigns(x, a) ==
  a = None =>
    /\ EligibleOperators(x.file) # {}
    /\ \A o \in EligibleOperators(x.file) : o.key \in x.set

\* The two planners of the decision store's lock agree: the older lets a caller have
\* it exactly when the newer creates or replaces it for a request that stands.
PlannersAgree(x, a) ==
  LET stands == ~(\E e \in ToSet(x.existing) : LockRecordRefusal(e) # None)
                  /\ a \notin {"invalid_now_ms", "invalid_requested_lock",
                               "requested_lock_acquired_in_future",
                               "requested_lock_already_expired"}
  IN stands =>
       (AcquireDecision(x.existing, x.requested.ownerId, x.now)
          \in {"acquire_allowed", "stale_lock_recoverable"}
        <=> a \in {"create_if_missing", "replace_if_matches_existing_stale_lock"})

\* A record that was built is read back as valid; with another run, candidate or
\* ruleset in place of its own it is not, since its name no longer fits.
RecordIsItsOwn(x, a) ==
  a # <<>> =>
    /\ RecordRefusal(a[1]) = None
    /\ \A field \in {"candidate", "run", "ruleset", "blacklist"} :
         x[field] # <<"other">> =>
           RecordRefusal([a[1] EXCEPT !.input[field] = <<"other">>]) # None

\* A generated list launches: the launcher takes it, and its plan, unless its amount
\* was spelled with several zeros.
GeneratedLaunches(x, a) ==
  a # <<>> /\ x.args.amount # 0 =>
    TargetsRefusal([readable |-> TRUE, list |-> a[1]]) = None /\ PlanRefusal(a[1], 1) = None

\* A row the metadata tool's recorder makes, the audit writer takes.
RowIsWritten(x, a) == x.campaign # "" => AppendRowsRefusal("file", a) = None

\* A transfer's value keeps its floor and its buffer, unless the chain's depth penalty
\* is negative, which nothing refuses; what it adds for the bits is less than one
\* nanoTON short of their price.
ValueKeepsFloor(x, a) ==
  LET model == FeeModelOf(x.chain)
      bits == TotalBits(x.tree)
  IN /\ model.perDepth >= 0 => Forward(x.tree, x.master, x.chain) >= Floor + Buffer
     /\ model.perDepth >= 0 => CellFee(x.tree, model) >= CellCount(x.tree) * model.perCell
     /\ (BitFee(bits, model) + 1) * 1000 > bits * model.perBit
     /\ a = None => Forward(x.tree, x.master, x.chain) <= Guardrail

\* The value attached to a transfer is short of the exact price by less than one
\* nanoTON for each unit of gas, and the fixed buffer covers that.
AttachedCoversPrice(x, a) ==
  LET gas == TransferGas + NotifyGas + IF x.payload THEN PayloadGas ELSE 0
      calls == IF x.payload THEN 3 ELSE 2
      whole == x.prices.gas \div Fixed
      part  == x.prices.gas % Fixed
  IN a - calls * x.prices.flat - x.forward - whole * gas >= (part * gas) \div Fixed + 1

\* At the delay it plans, no more than the operator's transfers of an hour fit in one.
PaceKeepsLimit(x, a) ==
  a = None =>
    /\ PacingDelay(x.perHour) * x.perHour >= Hour
    /\ ToSet(ExecutionOrder(x.count)) = 0 .. x.count - 1

\* What the launcher hands on, the dispatcher takes.
LaunchIsDispatched(x, a) ==
  a = None =>
    /\ ConfigRefusal(ConfigOfLaunch(x.env)) = None
    /\ ReconcilerRefusal(ReconcilerOfLaunch(ConfigOfLaunch(x.env).stateDir)) = None
    /\ CampaignRefusal(CampaignOfLaunch(x.env, x.targets, x.operators)) = None

\* An entry that may be tried again by its operator waits, for no longer than an
\* operator out of funds does, and no less at a later attempt; the operator's window
\* is set exactly when another one takes over.
WindowsFit(x, a) ==
  a # <<>> =>
    LET d == a[1]
    IN /\ (d.disposition = "retry_same_identity") <=> (d.cooldown \in 1 .. FailedWindow)
       /\ (d.disposition = "rotate_identity") <=> (d.failed # NoWindow)
       /\ x.attempt > 1 /\ d.retry =>
            d.delay >= RetryDecision(d.code, x.attempt - 1).delay

\* The report accounts for every recipient, as long as no batch counts one twice.
ReportAddsUp(x, a) ==
  Column(x.summaries, "size") <= x.total =>
    a.succeeded + a.failed + a.cooldown + a.skipped = x.total

RecordPromise(f, x, a) ==
  CASE f = "loadState" -> LoadedCanBeSaved(x, a)
    [] f = "update" -> OnlyAttemptZeroIsLate(x, a)
    [] f = "reconcileCampaign" -> RecoveryIsSaved(x, a)
    [] f = "createWalletPool" -> EveryOperatorSigns(x, a)
    [] f = "planDecisionStoreAtomicAcquire" -> PlannersAgree(x, a)
    [] f = "tryBuildCandidateDecisionRecord" -> RecordIsItsOwn(x, a)
    [] f = "generate-targets" -> GeneratedLaunches(x, a)
    [] f = "estimateAdaptiveForwardTonAmount" -> ValueKeepsFloor(x, a)
    [] f = "calcJettonTransferValue" -> AttachedCoversPrice(x, a)
    [] f = "prepareExecutionPlan" -> PaceKeepsLimit(x, a)
    [] f = "buildDispatcherAuditRecorder" -> RowIsWritten(x, a)
    [] f = "run" -> LaunchIsDispatched(x, a)
    [] f = "classify" -> WindowsFit(x, a)
    [] f = "buildDispatchReport" -> ReportAddsUp(x, a)
    [] OTHER -> TRUE
=============================================================================
