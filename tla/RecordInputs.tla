---------------------------- MODULE RecordInputs ----------------------------
(***************************************************************************)
(* The inputs TLC calls the functions of RecordEvaluators and the gates of *)
(* GateContracts with: one that is accepted or let through, and others a   *)
(* field or two away from it.                                              *)
(***************************************************************************)
EXTENDS RecordEvaluators, GateContracts

\* A record with one of its fields given other values.
Varied(base, field, values) == {[base EXCEPT ![field] = v] : v \in values}

-----------------------------------------------------------------------------
(* The state file *)

Now == 5
FreshRun == EmptyRunState("c", Now)
EntryPlanned ==
  [batch |-> "b", recipient |-> "r", index |-> 0, amount |-> 1, status |-> "planned",
   attempt |-> 0, operator |-> NullText, label |-> NullText, txHash |-> NullText,
   networkRef |-> NullText, lastErrorCode |-> NullText, lastError |-> NullText,
   created |-> Now, updated |-> Now, submitted |-> NullInstant, finalized |-> NullInstant,
   cooldown |-> NullInstant, lastDecision |-> NullText, metadata |-> "absent"]
EntrySubmitted ==
  [EntryPlanned EXCEPT !.status = "submitted", !.attempt = 1, !.operator = "o",
                       !.label = "l", !.submitted = Now]
EntriesToSet ==
  {EntryPlanned, EntrySubmitted}
    \cup Varied(EntryPlanned, "status", StateStatuses \cup {"other"})
    \cup Varied(EntryPlanned, "amount", {0}) \cup Varied(EntryPlanned, "recipient", {"", "q"})
    \cup Varied(EntrySubmitted, "operator", {NullText, BadText})
    \cup Varied(EntrySubmitted, "submitted", {NullInstant, BadInstant})
    \cup Varied(EntrySubmitted, "attempt", {0, 2})
    \cup Varied([EntrySubmitted EXCEPT !.status = "cooldown"], "cooldown", {NullInstant, Now + 1})
    \cup Varied(EntrySubmitted, "lastDecision", {"none", "other"})
    \cup Varied(EntrySubmitted, "metadata", {"other"})

K == RunStateKey("b", "r")
WithEntry(e) == [FreshRun EXCEPT !.entries = K :> e]
HeldBy(batch, operator, attempt, at) ==
  [batch |-> batch, operator |-> operator, attempt |-> attempt, at |-> at]
Locks ==
  {ClearLock, HeldBy("b", "o", 1, Now), HeldBy("b", NullText, 1, Now), HeldBy("b", "o", 0, Now),
   HeldBy("b", "o", 1, NullInstant), HeldBy("b", BadText, 1, Now)}
Metas ==
  {FreshRun.meta} \cup Varied(FreshRun.meta, "campaign", {"", "d"})
    \cup Varied(FreshRun.meta, "status", {"running", "other"})
    \cup Varied(FreshRun.meta, "updated", {NullInstant})
    \cup Varied(FreshRun.meta, "started", {Now, BadInstant})
    \cup Varied(FreshRun.meta, "stopReason", {BadText})
    \cup Varied(FreshRun.meta, "batchAttempts", {[b \in {"b"} |-> 1], [b \in {"b"} |-> -1]})
Runtimes ==
  {EmptyRuntime} \cup Varied(EmptyRuntime, "failures", {-1})
    \cup Varied(EmptyRuntime, "status", {"other"}) \cup Varied(EmptyRuntime, "paused", {"odd"})
    \cup Varied(EmptyRuntime, "instants", {{NullInstant, BadInstant}})
States ==
  {FreshRun, WithEntry(EntryPlanned), [WithEntry(EntrySubmitted) EXCEPT !.lock = HeldBy("b", "o", 1, Now)]}
    \cup {WithEntry(e) : e \in EntriesToSet} \cup Varied(FreshRun, "meta", Metas)
    \cup Varied(FreshRun, "lock", Locks) \cup Varied(FreshRun, "schema", {"old"})
    \cup {[FreshRun EXCEPT !.operators = "o" :> r] : r \in Runtimes}

Operator ==
  [object |-> TRUE, id |-> "o", label |-> "l", key |-> "K1", version |-> "v4", reserve |-> "1",
   enabled |-> "true", maxBatchSize |-> 1, maxTxPerHour |-> 1, subwallet |-> 0]
OperatorConfigs ==
  {Operator} \cup Varied(Operator, "object", {FALSE}) \cup Varied(Operator, "id", {"", "p"})
    \cup Varied(Operator, "enabled", {"false", "odd"}) \cup Varied(Operator, "key", {"K2"})
    \cup Varied(Operator, "maxBatchSize", {0}) \cup Varied(Operator, "subwallet", {-1})
OperatorFile(list) == [kind |-> "array", list |-> list]
OperatorFiles ==
  {[kind |-> k, list |-> <<>>] : k \in {"unreadable", "text", "object"}}
    \cup {OperatorFile(<<>>)} \cup {OperatorFile(<<o, p>>) : o, p \in OperatorConfigs}

StateFile(kind, state, broken) == [kind |-> kind, state |-> state, broken |-> broken]
StateFiles ==
  {StateFile(k, FreshRun, {}) : k \in {"missing", "unreadable", "text", "array", "object"}}
    \cup {StateFile("object", FreshRun, {"entries"})}
    \cup {StateFile("object", s, {}) : s \in States}
LoadCalls ==
  [file : StateFiles, campaign : {"c"}, now : {Now},
   pool : {OperatorFile(<<>>), OperatorFile(<<Operator>>)}]

Guards ==
  [statuses : {{"absent", "planned"}, {"submitted"}}, attempt : {NullNumber, 1},
   operator : {"unset", "o"}]
Ids == [batch : {"b"}, operator : {"o"}, attempt : 0 .. 2]
Mutations ==
  [op : {"set"}, key : {K}, guard : Guards, entry : EntriesToSet]
    \cup [op : {"acquire"}, id : Ids, at : {Now, BadInstant}] \cup [op : {"release"}, id : Ids]
UpdateCalls == [state : States, campaign : {"c"}, mutation : Mutations]

PoolCalls == [file : OperatorFiles, set : {{}, {"K1"}, {"K1", "K2"}}]
WindowCalls == [cooldown : {NullInstant, 1, 9}, failed : {NullInstant, 1, 9}, now : {5}]

LogRow ==
  [batch |-> "b", recipient |-> "r", attempt |-> 1, operator |-> "o", at |-> Now,
   outcome |-> "success", txHash |-> NullText, detail |-> NullText]
LogRows ==
  {NoRow, LogRow} \cup Varied(LogRow, "attempt", {2}) \cup Varied(LogRow, "operator", {"p"})
    \cup Varied(LogRow, "at", {Now - 1, Now + 1})
    \cup {[LogRow EXCEPT !.outcome = s, !.txHash = t, !.detail = d] :
             s \in {"success", "hard_failure", "cooldown", "skipped", "cancelled"},
             t \in {NullText, "x", BadText}, d \in {NullText, "x", BadText}}
RecoveryCalls ==
  [entry : {e \in EntriesToSet : e.status = "submitted"}, row : LogRows,
   now : {Now, Now + 1, Now + 2}, timeout : {1}]
ReconcilerConfigs ==
  [stateDir : {"", "dir"}, methods : {{}, {"readTerminalEntries"}},
   timeout : {NoNumber, OddNumber, 0, 1}]

CsvRow ==
  [object |-> TRUE, timestamp |-> "t", campaign |-> "c", batch |-> "b", recipient |-> "r",
   status |-> "success", amount |-> 1, attempts |-> 1, optional |-> NullText]
CsvRows ==
  {CsvRow} \cup Varied(CsvRow, "object", {FALSE}) \cup Varied(CsvRow, "amount", {-1})
    \cup Varied(CsvRow, "status", {""}) \cup Varied(CsvRow, "optional", {BadText})
RowCalls == [path : {"", "f"}, rows : {<<>>} \cup {<<r, s>> : r, s \in CsvRows}]

-----------------------------------------------------------------------------
(* The decision store: its lock and its records *)

LockRecords ==
  [lockId : {"", "l"}, ownerId : {"", "o", "p"}, acquiredAtMs : -1 .. 2, expiresAtMs : 0 .. 3]
SomeLocks == {r \in LockRecords : r.lockId = "l" \/ r.ownerId = "o"}
PlanLockCalls ==
  [existing : {<<>>} \cup {<<r>> : r \in SomeLocks}, requested : SomeLocks, now : -1 .. 2]
ReleaseCalls == [existing : LockRecords, owner : {"", "o"}]

Seen == [txHash |-> "x", traceId |-> "x", lt |-> 1, actionIndex |-> 0, provider |-> "p",
         endpoint |-> "e", observed |-> 1, received |-> 1]
Budget == [policy |-> <<"b1">>, limit |-> 3, used |-> 1, available |-> 2, amount |-> 1, at |-> 1]
GasOf ==
  [source |-> "rpc_config", freshness |-> "fresh", feeDecision |-> "within_fee_allowance",
   method |-> TRUE, estimator |-> TRUE, policy |-> TRUE,
   fees |-> [storage |-> 1, compute |-> 0, forward |-> 1, action |-> 0],
   total |-> 2, allowance |-> 2, observedAt |-> 1, maxFreshness |-> 1,
   chain |-> [name |-> TRUE, workchain |-> TRUE, seqno |-> TRUE, configHash |-> TRUE,
              configVersion |-> TRUE]]
DecisionInput ==
  [candidate |-> <<"c1">>, run |-> <<"r1">>, reason |-> "policy_accept", decisionAt |-> 1,
   observed |-> 1, age |-> 0, trace |-> Seen, budget |-> Budget,
   finality |-> [depth |-> NoDepth, decision |-> "confirmed"], ruleset |-> <<"v1">>,
   blacklist |-> <<"l1">>, gas |-> GasOf, decidedBy |-> "me", schema |-> "s1"]
DecisionCalls ==
  {DecisionInput} \cup Varied(DecisionInput, "candidate", {<<>>, <<"c1", "r1">>, <<"other">>})
    \cup Varied(DecisionInput, "run", {<<>>, <<"r1", "policy_accept">>})
    \cup Varied(DecisionInput, "decisionAt", {Undated, 3}) \cup Varied(DecisionInput, "age", {-1})
    \cup Varied(DecisionInput, "trace", Varied(Seen, "txHash", {"", OddText})
                                          \cup Varied(Seen, "lt", {-1}))
    \cup Varied(DecisionInput, "budget", Varied(Budget, "limit", {-1, 2})
                                           \cup Varied(Budget, "policy", {<<>>, <<"b2">>}))
    \cup Varied(DecisionInput, "finality", {[depth |-> BadDepth, decision |-> "confirmed"]})
    \cup Varied(DecisionInput, "decidedBy", {""}) \cup Varied(DecisionInput, "ruleset", {<<>>})
LineCalls ==
  [newline : BOOLEAN, kind : {"text", "array", "object"}, named : BOOLEAN]

-----------------------------------------------------------------------------
(* The tools *)

Arguments ==
  [count : 0 .. 3, amount : {OddNumber, 0, 1}, single : BOOLEAN, output : {"o", Odd},
   campaign : {"c"}, tag : {Unset, Odd}, memo : {Unset}]
Draws == {<<<<"a", "A">>, <<"a", "a">>, <<"b", "B">>, <<"c", "C">>>>, <<<<"a", "A">>>>}
GenerateCalls == [args : Arguments, draws : Draws]

ToolEnv == [campaign |-> "c", dry |-> TRUE, realEnabled |-> FALSE, confirmed |-> Unset,
            fullCheck |-> FALSE, batchSize |-> 1]
ToolEnvs ==
  {ToolEnv} \cup Varied(ToolEnv, "campaign", {""}) \cup Varied(ToolEnv, "batchSize", {OddNumber})
    \cup Varied(ToolEnv, "dry", {FALSE})
    \cup {[ToolEnv EXCEPT !.dry = FALSE, !.realEnabled = TRUE, !.confirmed = "c", !.fullCheck = TRUE]}
RawTarget == [object |-> TRUE, address |-> "a", amount |-> 1]
RawTargets ==
  [readable : BOOLEAN,
   list : {<<>>} \cup {<<t>> : t \in {RawTarget} \cup Varied(RawTarget, "address", {""})
                                      \cup Varied(RawTarget, "amount", {NoNumber, 0})}]
MetadataRunCalls ==
  [env : ToolEnvs, targets : RawTargets, operators : {<<>>, <<[enabled |-> TRUE, maxBatchSize |-> 1]>>}]

AuditEvents ==
  [type : {"batch_success", "batch_failure", "other"}, campaign : {"", "c"},
   batch : {Unset, "", "b"}, key : {<<>>, <<"b">>, <<"b", "">>, <<"b", "r">>},
   attempt : {NoNumber, 1}, optional : {NullText, "x"}]

\* A root; a root with two references to one cell; a chain; many cells.
Trees ==
  {(<<>> :> 0), (<<>> :> 7), (<<>> :> 1) @@ (<<1>> :> 8) @@ (<<2>> :> 8),
   (<<>> :> 1) @@ (<<1>> :> 1) @@ (<<1, 1>> :> 1023),
   [p \in {<<>>} \cup {<<n>> : n \in 1 .. 4} \cup {<<n, k>> : n, k \in 1 .. 4} |-> 1023]}
Chains == [read : BOOLEAN, perBit : 0 .. 2, perCell : {0, 1, 20000000}, perDepth : {-2, 0, 5}]
ForwardCalls == [tree : Trees, master : BOOLEAN, chain : Chains]
AttachCalls ==
  [prices : [flat : {0, 40000}, gas : {0, 1, 65535, 65536, 65537, 26214400, 26214401}],
   payload : BOOLEAN, forward : {0, 1}]
PaceCalls == [count : 0 .. 3, maxBatch : 0 .. 3, perHour : {0, 1, 7, 3600000, 3600001}]

Collaborators ==
  {Interfaces, [Interfaces EXCEPT !.executor = {}], [Interfaces EXCEPT !.walletPool = {"markSuccess"}]}
DispatcherCalls ==
  [stateDir : {"", "dir"}, methods : Collaborators, dry : {Unset, "true", "false"},
   force : {Unset, Odd, "true"}, entryDelay : {NoNumber, OddNumber, 0}, batchDelay : {NoNumber, 5}]
Summaries ==
  {s \in [succeeded : 0 .. 2, failed : 0 .. 2, cooldown : 0 .. 2, size : {2}] :
     s.succeeded + s.failed + s.cooldown <= s.size}
ReportCalls == [summaries : {<<>>} \cup {<<s, t>> : s, t \in Summaries}, total : {0, 4, 5}]
ClassifyCalls ==
  [message : {m \in SUBSET Keyword : Cardinality(m) <= 2}, attempt : 0 .. MaxAttempts + 1,
   texts : BOOLEAN]

RecordCalls ==
  "loadState" :> LoadCalls @@ "update" :> UpdateCalls @@ "reconcileCampaign" :> RecoveryCalls
    @@ "createReconciler" :> ReconcilerConfigs @@ "createWalletPool" :> PoolCalls
    @@ "markFailure" :> WindowCalls @@ "appendAuditRows" :> RowCalls
    @@ "planDecisionStoreAtomicAcquire" :> PlanLockCalls
    @@ "decideDecisionStoreLockRelease" :> ReleaseCalls
    @@ "tryBuildCandidateDecisionRecord" :> DecisionCalls
    @@ "parseDecisionRecordJsonlLine" :> LineCalls @@ "generate-targets" :> GenerateCalls
    @@ "updateMetadata" :> MetadataRunCalls
    @@ "estimateAdaptiveForwardTonAmount" :> ForwardCalls
    @@ "calcJettonTransferValue" :> AttachCalls @@ "prepareExecutionPlan" :> PaceCalls
    @@ "buildDispatcherAuditRecorder" :> AuditEvents @@ "createDispatcher" :> DispatcherCalls @@ "buildDispatchReport" :> ReportCalls
    @@ "classify" :> ClassifyCalls

-----------------------------------------------------------------------------
(* The gates *)

\* An entry as the script of G-4 has it, with its own key; NoKey: as the store has it.
NoKey == <<>>
Keyed(e, key) == [f \in DOMAIN e \cup {"key"} |-> IF f = "key" THEN key ELSE e[f]]
Resumable ==
  [key |-> K, entry |-> Keyed(EntrySubmitted, K), replacement |-> FALSE, local |-> 1, reported |-> 1,
   latest |-> 1, pending |-> TRUE, expires |-> 3, now |-> 3]
ResumeCalls ==
  {[Resumable EXCEPT !.local = l, !.reported = r, !.latest = s, !.pending = p, !.expires = t,
                     !.replacement = again] :
     l, r, s \in 0 .. 2, p, again \in BOOLEAN, t \in {NullInstant, 2, 3, 4}}
    \cup Varied(Resumable, "entry",
           {NotPersisted}
             \cup {Keyed(e, key) : key \in {K, NoKey, RunStateKey("b", "q")},
                     e \in EntriesToSet \cup Varied(EntrySubmitted, "txHash", {"h"})
                             \cup Varied(EntrySubmitted, "updated", {NullInstant})})

Settled(recipient, status, reason) ==
  [key |-> RunStateKey("b", recipient), batch |-> "b", recipient |-> recipient, amount |-> 1,
   status |-> status, schema |-> SchemaVersion, reason |-> reason]
Ended == Settled("r", "success", NullText)
EndedBadly == Settled("q", "hard_failure", "why")
EntryLists ==
  {<<>>, <<Ended>>, <<Ended, EndedBadly>>, <<Ended, Ended>>}
    \cup {<<Ended, e>> : e \in Varied(EndedBadly, "reason", {NullText, ""})
                                 \cup Varied(EndedBadly, "schema", {"old"})
                                 \cup Varied(EndedBadly, "recipient", {"", "p"})
                                 \cup Varied(EndedBadly, "status", {"cancelled", "skipped"})
                                 \cup {[Settled("q", "success", NullText) EXCEPT
                                          !.batch = "c", !.key = RunStateKey("c", "q")]}}
RowLists(entries) ==
  LET rows == [i \in DOMAIN entries |-> RowOfEntry(entries[i])]
  IN {rows, <<>>, Append(rows, RowOfEntry(Settled("z", "success", NullText)))}
       \cup (IF rows = <<>> THEN {}
             ELSE {Tail(rows), Append(rows, rows[1]), Reverse(rows)}
                    \cup {[rows EXCEPT ![1] = r] :
                            r \in Varied(rows[1], "amount", {2})
                                    \cup Varied(rows[1], "status", {"retried"})
                                    \cup Varied(rows[1], "fingerprint", {EndedBadly})})
BatchSummaries(entries) ==
  LET own == [batch |-> "b", count |-> Len(entries), aggregate |-> Aggregate(entries)]
  IN {own} \cup Varied(own, "batch", {"c"}) \cup Varied(own, "count", {1})
       \cup Varied(own, "aggregate", {{}})
AuditCalls ==
  UNION {[formed : BOOLEAN, heartbeat : {"healthy", "unavailable"}, entries : {list},
          rows : RowLists(list), summary : BatchSummaries(list)] : list \in EntryLists}

MetadataIntent ==
  [approval |-> "a", rollback |-> "base", approved |-> 1, delay |-> 2, effective |-> 3,
   uri |-> "u", hash |-> "content"]
IntentCalls ==
  [intent : {MetadataIntent} \cup Varied(MetadataIntent, "approval", {"", "other"})
              \cup Varied(MetadataIntent, "rollback", {NullText, "other"})
              \cup Varied(MetadataIntent, "effective", 1 .. 5)
              \cup Varied(MetadataIntent, "delay", {0, 3})
              \cup Varied(MetadataIntent, "hash", {"other"}),
   now : 0 .. 6, approvals : {{"a"}}, lineage : {{"base"}, {}},
   gateway : {"u" :> "content", "v" :> "content"}]

MetadataTexts ==
  [f \in {"name", "symbol", "description", "image", "render_type", "amount_style"} |-> "x"]
GovernedMetadata == [texts |-> MetadataTexts, decimals |-> 9]
Branding == [f \in {"token", "issuer", "display", "branding"} |-> "x"]
Governed(metadata) ==
  [metadata |-> metadata, observed |-> metadata, pinned |-> metadata, identity |-> Branding,
   pinnedIdentity |-> Branding, uri |-> "u", approvedUri |-> "u", fallback |-> NullText]
GovernanceCalls ==
  {Governed(m) : m \in {GovernedMetadata} \cup Varied(GovernedMetadata, "decimals", -2 .. 256)}
    \cup Varied(Governed(GovernedMetadata), "fallback", {"", "v"})
    \cup Varied(Governed(GovernedMetadata), "uri", {"v"})
    \cup Varied(Governed(GovernedMetadata), "pinned", {[GovernedMetadata EXCEPT !.decimals = 6]})

RollbackIntent ==
  [id |-> "i", target |-> "h", original |-> "h", lineage |-> "base", approval |-> "a",
   fallback |-> NullText]
RollbackCalls ==
  [intent : {RollbackIntent} \cup Varied(RollbackIntent, "id", {"", NullText})
              \cup Varied(RollbackIntent, "target", {"other"})
              \cup Varied(RollbackIntent, "original", {"other"})
              \cup Varied(RollbackIntent, "lineage", {"other"})
              \cup Varied(RollbackIntent, "approval", {"", "other"})
              \cup Varied(RollbackIntent, "fallback", {"", "v"}),
   policy : {[original |-> "h", lineages |-> {"base"}, approvals |-> {"a"}]}]

Waiting ==
  [key |-> K, recipient |-> "r", schema |-> SchemaVersion, attempt |-> 1, cooldown |-> NullInstant]
RecheckCalls ==
  [entry : {Waiting} \cup Varied(Waiting, "cooldown", 0 .. 2) \cup Varied(Waiting, "attempt", {0})
             \cup Varied(Waiting, "recipient", {""}) \cup Varied(Waiting, "schema", {"old"}),
   now : 0 .. 2, delta : [key : {K, RunStateKey("b", "q")}, status : {"active", "inactive", "drained"}],
   locks : {{}} \cup {{[key |-> k, exists |-> e, owned |-> o]} :
                        k \in {K, RunStateKey("b", "q")}, e, o \in BOOLEAN},
   evaluated : {<<>>, <<K>>, <<K, K>>}]

GateTarget(address) ==
  [address |-> address, valid |-> TRUE, status |-> "known", unsafe |-> FALSE, risk |-> FALSE,
   kind |-> "W5", source |-> "declared", capability |-> "none"]
GateTargets ==
  {GateTarget(d) : d \in {"a", "b", "c"}} \cup Varied(GateTarget("a"), "valid", {FALSE})
    \cup Varied(GateTarget("a"), "status", {"unknown", "ambiguous"})
    \cup Varied(GateTarget("a"), "unsafe", {TRUE}) \cup Varied(GateTarget("a"), "risk", {TRUE})
    \cup Varied(GateTarget("a"), "source", {"unauthorized"})
    \cup Varied(GateTarget("a"), "capability", {"unsupported"})
TargetCalls ==
  [targets : {<<x, y, z>> : x, y, z \in GateTargets},
   policy : [allowlistMode : BOOLEAN, allow : {{"a", "b"}}, block : {{}, {"b"}}]]

AllAt(amount) == [f \in BudgetLines |-> amount]
BudgetCalls ==
  [feePolicy : {"v1", NullText}, unknown : BOOLEAN, pause : BOOLEAN, cap : {AllAt(1)},
   spent : [BudgetLines -> 0 .. 2], balance : 0 .. 2, reserve : {1}]

LiveEnv ==
  [halt |-> NullText, enabled |-> "true", dryRun |-> "true", expectedChain |-> "net",
   observedChain |-> "net", campaign |-> "c", confirmed |-> "c", proof |-> "stage-g-h1-locked",
   expectedCommit |-> "sha", workflow |-> "Stage B Full Check", ciStatus |-> "completed",
   ciConclusion |-> "success", ciCommit |-> "sha", approval |-> "a", now |-> 1, expires |-> 2]
EnvTexts == DOMAIN LiveEnv \ {"now", "expires"}
LiveEnvs ==
  {[LiveEnv EXCEPT ![f] = u, ![g] = v] : f, g \in EnvTexts, u, v \in {"true", "", NullText, "c"}}
    \cup {[LiveEnv EXCEPT !.now = t, !.expires = u] : t, u \in BadInstant .. 3}

Testnet ==
  [name |-> "testnet", endpoint |-> "testnet tonapi", dryRun |-> TRUE, broadcast |-> FALSE,
   signer |-> FALSE, wallet |-> FALSE, extra |-> {}]
Profiles ==
  [name : {"testnet", "mainnet"}, endpoint : TestnetEndpoints \cup ForbiddenEndpoints \cup {"", "x"},
   dryRun : BOOLEAN, broadcast : BOOLEAN, signer : BOOLEAN, wallet : BOOLEAN, extra : {{}, {"amount"}}]

BaseIdentity ==
  [version |-> "v1", decision |-> "d", candidate |-> "c", key |-> K, recipient |-> "r",
   amount |-> 1, batch |-> "b", operator |-> "o",
   boundaryDecision |-> <<"v1", "d", "c", K>>]
Identities ==
  {BaseIdentity} \cup Varied(BaseIdentity, "operator", {"p"}) \cup Varied(BaseIdentity, "version", {"v2"})
Valid == [identity |-> BaseIdentity, expected |-> BaseIdentity, transition |-> <<>>, raised |-> {}]
BoundaryCalls ==
  {[Valid EXCEPT !.identity = i, !.expected = j] : i, j \in Identities}
    \cup Varied(Valid, "transition", ToSet(BoundaryStates) \X (ToSet(BoundaryStates) \cup {"MUTATED"}))
    \cup Varied(Valid, "raised", {{f, g} : f, g \in BoundaryFlags})

GateCalls ==
  "evaluateSimulatedRecovery" :> ResumeCalls @@ "reconcileTerminalAudit" :> AuditCalls
    @@ "validateMetadataIntent" :> IntentCalls @@ "validate metadata" :> GovernanceCalls
    @@ "validateRollback" :> RollbackCalls @@ "evaluateFinalEligibility" :> RecheckCalls
    @@ "evaluateTarget" :> TargetCalls @@ "evaluateBudget" :> BudgetCalls
    @@ "evaluateNetworkBoundary" :> LiveEnvs @@ "validateProfile" :> Profiles
    @@ "validateBoundary" :> BoundaryCalls
=============================================================================
