-------------------------- MODULE MCOfflineStages --------------------------
(***************************************************************************)
(* Values of OfflineStages' constants for TLC.                             *)
(***************************************************************************)
EXTENDS OfflineStages, RecordInputs, TLC

CONSTANTS w1, w2

-----------------------------------------------------------------------------
(* The pipeline: two spellings of one address, two decisions that meet there *)

Spellings == {"EQa", "eqa", "EQb"}
Lowered == [s \in Spellings |-> IF s = "EQb" THEN "eqb" ELSE "eqa"]

Cand(id, address, amount) == [id |-> id, address |-> address, amount |-> amount, formed |-> TRUE]
SomeCandidates ==
  {Cand("c1", "EQa", 1), Cand("c2", "eqa", 2), Cand("c3", "EQb", 0), Cand("c4", NoText, 1)}

Dec(candidate, decision, reason, amount) ==
  [candidate |-> candidate, decision |-> decision, reason |-> reason, amount |-> amount,
   formed |-> TRUE]
SomeDecisions ==
  {Dec("c1", "accepted", "policy_accept", 1), Dec("c2", "accepted", "manual_override_accept", 2),
   Dec("c1", "rejected", "policy_reject", 1), Dec("c1", "accepted", "policy_accept", 2)}

Batch(recipients, total, size) ==
  [id |-> "b1", index |-> 0, recipients |-> recipients, total |-> total, size |-> size]
To(address, amount) == [address |-> address, amount |-> amount]
SomeBatches ==
  {Batch(<<To("EQa", 1)>>, 1, 1), Batch(<<To("eqa", 2)>>, 2, 1),
   Batch(<<To("EQa", 1), To("EQb", 1)>>, 2, 2), Batch(<<To("EQa", 1)>>, 2, 1),
   Batch(<<To(NoText, 1)>>, 1, 1)}

Picking(status, previous) == [status |-> status, seeded |-> TRUE, previous |-> previous]
SomeOperators ==
  {Picking([o1 |-> "active", o2 |-> "cooldown"], NoText),
   Picking([o1 |-> "active", o2 |-> "active"], "o1"), Picking(NoPolicy, NoText)}
SomeProviders == {NoPolicy, Picking([p1 |-> "active", p2 |-> "disabled"], NoText)}

Fee(base, max, step, tiers) ==
  [master |-> "m", base |-> base, max |-> max, step |-> step, tiers |-> tiers, enabled |-> TRUE]
SomeFees == {NoPolicy, Fee(1, 3, 1, 3), Fee(1, 2, 1, 3), Fee(1, 1, 1, 0)}

Workers == Permutations(Worker)

-----------------------------------------------------------------------------
(* The file shells: locks that expire during the run, at once, or after it *)

Spans == {<<0, 1>>, <<1, 2>>, <<0, 3>>, <<2, 1>>}

-----------------------------------------------------------------------------
(* The evaluators: a call that is accepted, and others a field away from it *)

Policies ==
  {[f EXCEPT !.master = m, !.enabled = e] :
     f \in {Fee(b, x, s, t) : b \in 0 .. 3, x \in 1 .. 3, s \in -1 .. 1, t \in 0 .. 3},
     m \in {"m", "n"}, e \in BOOLEAN}
FeeCalls ==
  [campaign : {"", "c"}, master : {"", "m"},
   policies : {<<>>} \cup {<<p>> : p \in Policies}
     \cup {<<p, Fee(1, 2, 1, 2)>> : p \in Varied(Fee(1, 2, 1, 1), "master", {"m", "n"})}]

MarginPolicy ==
  [forbidden |-> FALSE, named |-> TRUE, enabled |-> TRUE, mode |-> "basis_points",
   nano |-> Malformed, bps |-> 0, ceiling |-> 6]
MarginPolicies ==
  Varied(MarginPolicy, "bps", {Malformed, 0, 1, 2500, 5000, 10000, 10001})
    \cup {[MarginPolicy EXCEPT !.mode = "fixed_nano", !.nano = n, !.bps = b] :
            n \in {Malformed, 0, 2}, b \in {Malformed, 1}}
    \cup Varied(MarginPolicy, "mode", {"percent"}) \cup Varied(MarginPolicy, "ceiling", {0, 2})
    \cup Varied(MarginPolicy, "enabled", {FALSE}) \cup Varied(MarginPolicy, "named", {FALSE})
    \cup Varied(MarginPolicy, "forbidden", {TRUE})
MarginCalls == [estimate : 0 .. 7, policy : MarginPolicies]

Ranges == [mode : {"randomRange"}, min : 0 .. 2, max : 0 .. 6, step : 0 .. 3]
Lists == [mode : {"predefined"}, values : {<<>>, <<1, 3>>, <<2, 0>>, <<2>>},
          cycle : BOOLEAN, shuffle : BOOLEAN]
AllocateCalls ==
  [amount : 0 .. 1, config : Ranges \cup {[mode |-> "fixed"]}, index : -1 .. 0]
    \cup [amount : {1}, config : Lists, index : 0 .. 3]

AppendCalls ==
  [trigger : {"periodic", "batch_started", "fatal_error", "recipient_success", "other"},
   now : -1 .. 4, last : -2 .. 4, interval : -1 .. 3]

Statuses == [status |-> "ok", texts |-> TRUE]
Failure == [kind |-> "error", code |-> TRUE, message |-> TRUE, subsystem |-> "rpc", at |-> 1]
Heartbeat ==
  [schemaVersion |-> TRUE, heartbeatId |-> TRUE, heartbeatRunId |-> TRUE, emittedAt |-> 1,
   campaignId |-> "c", source |-> "dispatcher", severity |-> "info", systemStatus |-> "alive",
   decisionStoreStatus |-> Statuses, heartbeatStoreStatus |-> Statuses,
   lockStatus |-> [Statuses EXCEPT !.status = "owned"],
   gasStatus |-> Statuses, blacklistStatus |-> Statuses, rpcStatus |-> Statuses,
   operatorStatus |-> Statuses, counters |-> [seen |-> 0, failures |-> 0],
   lastKnownError |-> Absent]
Heartbeats ==
  {Heartbeat} \cup Varied(Heartbeat, "emittedAt", {Undated})
    \cup Varied(Heartbeat, "severity", {"loud"}) \cup Varied(Heartbeat, "heartbeatId", {FALSE})
    \cup Varied(Heartbeat, "gasStatus", {Absent, [Statuses EXCEPT !.texts = FALSE]})
    \cup Varied(Heartbeat, "lockStatus", {Statuses, [status |-> "owned", texts |-> FALSE]})
    \cup Varied(Heartbeat, "counters", {[seen |-> -1, failures |-> 0]})
    \cup Varied(Heartbeat, "lastKnownError", {Failure, [Failure EXCEPT !.at = Undated]})
    \cup Varied(Heartbeat, "campaignId", {"", "other"})
Paths ==
  [absolute : BOOLEAN, meta : BOOLEAN,
   parts : {<<>>, <<"data", "heartbeat", "f">>, <<"data", "heartbeat">>,
            <<"data", "heartbeat", "..", "f">>, <<"data", "heartbeat", "">>}]
FileCalls == [path : Paths, record : Heartbeats]

Snapshot ==
  [source |-> "rpc_config", freshness |-> "fresh", feeDecision |-> "within_fee_allowance",
   method |-> TRUE, estimator |-> TRUE, policy |-> TRUE,
   fees |-> [storage |-> 1, compute |-> 0, forward |-> 1, action |-> 0],
   total |-> 2, allowance |-> 2, observedAt |-> 1, maxFreshness |-> 1,
   chain |-> [name |-> TRUE, workchain |-> TRUE, seqno |-> TRUE, configHash |-> TRUE,
              configVersion |-> TRUE]]
Snapshots ==
  {Snapshot} \cup Varied(Snapshot, "source", {"offline_fixed", "guess"})
    \cup Varied(Snapshot, "freshness", {"stale", "not_applicable_offline_fixed"})
    \cup Varied(Snapshot, "feeDecision", FeeDecisions)
    \cup Varied(Snapshot, "total", {-1, 1}) \cup Varied(Snapshot, "allowance", {1})
    \cup Varied(Snapshot, "observedAt", {Undated, 3}) \cup Varied(Snapshot, "method", {FALSE})
    \cup Varied(Snapshot, "chain", Varied(Snapshot.chain, "seqno", {FALSE}))
SnapshotCalls == [snapshot : Snapshots, decisionAt : -1 .. 3]

Request ==
  [business |-> FALSE, lane |-> "operational_health_probe", endpoint |-> "e",
   type |-> "provider_status", isolated |-> TRUE, fault |-> "none", seeded |-> TRUE, now |-> 1,
   halt |-> "inactive"]
Requests ==
  {Request} \cup Varied(Request, "fault", DOMAIN FaultOutcome \cup {"other"})
    \cup Varied(Request, "halt", {"active", "odd"}) \cup Varied(Request, "business", {TRUE})
    \cup Varied(Request, "type", {"provider_latency", "other"})
    \cup Varied(Request, "endpoint", {"", "elsewhere"})
Allowed ==
  [business |-> FALSE, lane |-> "operational_health_probe", endpoint |-> "e",
   types |-> {"provider_status"}, timeout |-> 1, samples |-> 1, isolated |-> TRUE,
   enabled |-> TRUE]
Allowlists ==
  {<<>>, <<Allowed, Allowed>>}
    \cup {<<a>> : a \in {Allowed} \cup Varied(Allowed, "timeout", {0, MaxTimeoutMs + 1})
                          \cup Varied(Allowed, "enabled", {FALSE})
                          \cup Varied(Allowed, "types", {{}, {"other"}})}
ProbeCalls == [request : Requests, allowlist : Allowlists]

Known == [kind |-> "entry", formed |-> TRUE, batch |-> "b", key |-> "k", operator |-> "o",
          attempt |-> "1", status |-> "submitted", derived |-> "k"]
Evidence == [formed |-> TRUE, campaign |-> "c", batch |-> "b", key |-> "k", operator |-> "o",
             attempt |-> "1", status |-> "submitted"]
Evidences ==
  {Absent, Evidence} \cup Varied(Evidence, "formed", {FALSE})
    \cup Varied(Evidence, "operator", {"", "other"}) \cup Varied(Evidence, "campaign", {"other"})
Entries == {Absent, Known} \cup Varied(Known, "formed", {FALSE}) \cup Varied(Known, "derived", {"j"})
ConsistencyCalls ==
  [state : [campaign : {"c"}, entry : Entries], key : {"k"}, expected : {"submitted", "success"},
   audit : Evidences, log : {Absent, Evidence}, heartbeat : {Absent} \cup Heartbeats]

Key == [of |-> "s", hex |-> TRUE, upper |-> FALSE]
Nonce == [text |-> "n", sane |-> TRUE, strict |-> TRUE]
Envelope ==
  [object |-> TRUE, version |-> "blacklist-envelope-v1", kind |-> "blacklist-integrity",
   sha |-> "list", validUntil |-> 2, nonce |-> Nonce]
Config ==
  [algorithm |-> "ed25519", key |-> Key,
   signature |-> [key |-> "s", payload |-> Canonical(Envelope)]]
Preflight ==
  [halt |-> "off", traceable |-> TRUE, envelope |-> Envelope, content |-> "list", now |-> 1,
   maxFuture |-> 2, config |-> Config, registry |-> [broken |-> FALSE, used |-> {}]]
Envelopes ==
  {Envelope} \cup Varied(Envelope, "object", {FALSE}) \cup Varied(Envelope, "sha", {Nothing})
    \cup Varied(Envelope, "validUntil", {NotADate, 0})
    \cup Varied(Envelope, "nonce", Varied(Nonce, "strict", {FALSE}))
Configs ==
  {Config, NoConfig} \cup Varied(Config, "key", Varied(Key, "upper", {TRUE}))
    \cup Varied(Config, "signature", {NoSignature}) \cup Varied(Config, "algorithm", {"rsa"})
PreflightCalls ==
  {[Preflight EXCEPT !.halt = h, !.envelope = e, !.content = t, !.now = n, !.maxFuture = m,
                     !.config = g, !.registry.used = u] :
     h \in {"off", "on", "odd"}, e \in Envelopes, t \in {"list", "other", Nothing},
     n \in {0, 1}, m \in {-1, 1, 2}, g \in Configs, u \in {{}, {<<Key, "n">>}}}
EnvCalls ==
  [algorithm : {Nothing, "ed25519", "rsa"}, key : {Nothing, "odd", "hex"},
   signature : {Nothing, "odd", "hex"}]

-----------------------------------------------------------------------------
(* Pages, events and launches *)

\* Two numbers and two addresses in several spellings.
SomeTexts == {"", " ", "0", "1", " 1", "01", "2", "x", " x"}
TrimOf == [t \in SomeTexts |-> CASE t = " " -> "" [] t = " 1" -> "1" [] t = " x" -> "x" [] OTHER -> t]
DecimalOf ==
  [t \in {"", "0", "1", "01", "2", "x"} |->
     CASE t \in {"", "x"} -> NotDecimal [] t = "0" -> 0 [] t \in {"1", "01"} -> 1 [] t = "2" -> 2]
AddressOf ==
  [t \in {"0:a", "EQa", "EQb", "bad"} |->
     CASE t = "bad" -> NotAddress [] t = "EQb" -> "b" [] OTHER -> "a"]
TrimAll == [t \in SomeTexts \cup DOMAIN AddressOf |-> IF t \in SomeTexts THEN TrimOf[t] ELSE t]
DecimalAll ==
  [t \in DOMAIN DecimalOf \cup DOMAIN AddressOf |->
     IF t \in DOMAIN DecimalOf THEN DecimalOf[t] ELSE NotDecimal]

Action ==
  [object |-> TRUE, type |-> "JettonTransfer", transfer |-> TRUE, hash |-> "x", lt |-> "1",
   amount |-> "1", trace |-> "x", index |-> 0, destination |-> "EQa", master |-> "EQb",
   source |-> NotText, message |-> "x", utime |-> NoTime]
Actions ==
  {Action} \cup Varied(Action, "object", {FALSE}) \cup Varied(Action, "type", {"TonTransfer"})
    \cup Varied(Action, "transfer", {FALSE}) \cup Varied(Action, "hash", {NotText, ""})
    \cup Varied(Action, "index", {NoIndex}) \cup Varied(Action, "utime", {1, 3})
    \cup Varied(Action, "source", {"EQb"})
Pages ==
  [list : BOOLEAN, timestamp : {NoTime, 1, 3}, finality : {"confirmed"},
   actions : {<<>>} \cup {<<x, y>> : x, y \in Actions}]
Cursors == [kind : {"integer"}, value : 0 .. 1] \cup [kind : {"text"}, value : {"", "1"}]
             \cup [kind : {"other"}, value : {NotText}]
BulkCalls ==
  [asked : {<<"a">>, <<"a", "b">>},
   accounts : {<<>>, <<[object |-> TRUE, address |-> "b"]>>, <<[object |-> FALSE, address |-> "b"]>>}]
Event == Payload(Action, [timestamp |-> NoTime, finality |-> "confirmed"])
Events ==
  {Event} \cup Varied(Event, "amount", SomeTexts) \cup Varied(Event, "lt", SomeTexts)
    \cup Varied(Event, "hash", SomeTexts) \cup Varied(Event, "trace", SomeTexts)
    \cup Varied(Event, "destination", DOMAIN AddressOf \cup {" "})
    \cup Varied(Event, "source", DOMAIN AddressOf \cup {" "})
    \cup Varied(Event, "master", DOMAIN AddressOf \cup {""})
    \cup Varied(Event, "finality", {"pending", "finalized"})
FilterCalls == [payload : Events, master : {"a", "b"}]
Advice == [walletTypeHint : {NotText}, codeHash : {NotText, "x"}, accountStatus : {NotText, "x"}]

NoInjection == [enabled |-> FALSE, campaign |-> Unset, index |-> 0, kind |-> Unset, once |-> TRUE]
Faulty ==
  [enabled |-> TRUE, campaign |-> "c", index |-> 0, kind |-> "hard_failure", once |-> TRUE]
Env ==
  [campaign |-> "c", dry |-> TRUE, realEnabled |-> FALSE, confirmed |-> Unset,
   fullCheck |-> FALSE, fault |-> NoInjection, batchSize |-> 1, delay |-> NoNumber]
Envs ==
  {Env} \cup Varied(Env, "campaign", {""}) \cup Varied(Env, "batchSize", {NoNumber, OddNumber})
    \cup Varied(Env, "delay", {OddNumber})
    \cup {[Env EXCEPT !.dry = FALSE, !.realEnabled = e, !.confirmed = c, !.fullCheck = f] :
             e, f \in BOOLEAN, c \in {Unset, "c"}}
    \cup Varied(Env, "fault", {Faulty} \cup Varied(Faulty, "index", {-1, 1})
                               \cup Varied(Faulty, "kind", {"other"})
                               \cup Varied(Faulty, "campaign", {"d"}))
Target == [object |-> TRUE, address |-> "a", amount |-> 1, parses |-> TRUE]
TargetLists ==
  [readable : BOOLEAN,
   list : {<<>>} \cup {<<t>> : t \in {Target} \cup Varied(Target, "object", {FALSE})
                                      \cup Varied(Target, "amount", {NoNumber, OddNumber, 0})
                                      \cup Varied(Target, "parses", {FALSE})}]
OperatorLists ==
  {<<>>} \cup {<<[enabled |-> e, maxBatchSize |-> s]>> : e \in BOOLEAN, s \in 0 .. 1}
LaunchCalls == [env : Envs, targets : TargetLists, operators : OperatorLists]

Paid(address, amount) == [address |-> address, amount |-> amount]
FourPaid == <<Paid("a", 1), Paid("b", 2), Paid("c", 1), Paid("d", 3)>>
Recipients4 == {SubSeq(FourPaid, 1, n) : n \in 1 .. 4}
                 \cup {<<Paid("a", 1), Paid("a", 2)>>, <<Paid("", 1)>>, <<Paid("a", 0)>>}
PlanCalls ==
  UNION {[recipients : {list}, size : 0 .. 3, picks : Picks(Len(list))] : list \in Recipients4}
WriteCalls ==
  [campaign : {<<"c-batch-1">>, <<"c", "d-batch-1">>}, recipients : Recipients4,
   address : {"a", "b", "z"}]
BroadcastCalls ==
  [fault : {NoInjection, Faulty, [Faulty EXCEPT !.once = FALSE]},
   recipients : {SubSeq(FourPaid, 1, 2)}, address : {"a", "b"}, attempt : 1 .. 2]

AuditRow == [key |-> "k", texts |-> TRUE, attempt |-> 1, outcome |-> "success", dated |-> TRUE]
AuditRows ==
  {AuditRow} \cup Varied(AuditRow, "texts", {FALSE}) \cup Varied(AuditRow, "attempt", {0, 2})
    \cup Varied(AuditRow, "outcome", {"cooldown", "other"}) \cup Varied(AuditRow, "dated", {FALSE})
    \cup Varied(AuditRow, "key", {"j"})
EvidenceCalls == {<<>>} \cup {<<x, y>> : x, y \in AuditRows}

Image == [scheme |-> "http", path |-> <<"x">>, parses |-> TRUE, versions |-> <<"old">>]
Metadata ==
  [readable |-> TRUE, name |-> "x", symbol |-> "x", description |-> "x", image |-> "x",
   decimals |-> "9", contentVersion |-> "v1", refreshToken |-> Unset, url |-> Image]
MetadataCalls ==
  [refresh : BOOLEAN,
   metadata : {Metadata} \cup Varied(Metadata, "readable", {FALSE})
     \cup Varied(Metadata, "name", {Unset, "", Odd}) \cup Varied(Metadata, "decimals", {Unset, Odd})
     \cup Varied(Metadata, "contentVersion", {Unset, ""})
     \cup Varied(Metadata, "refreshToken", {"", "v2"})
     \cup Varied(Metadata, "url", Varied(Image, "scheme", {"", "ipfs"})
                                    \cup Varied(Image, "parses", {FALSE}))]

LaterCalls ==
  "normalizeTransferHistory" :> Pages @@ "extractTonapiRawProviderEvents" :> Pages
    @@ "extractNextCursor" :> Cursors @@ "normalizeBulkProfiles" :> BulkCalls
    @@ "filterAndNormalize" :> FilterCalls @@ "buildCandidateRecord" :> Advice
    @@ "run" :> LaunchCalls @@ "planBatches" :> PlanCalls @@ "audit write" :> WriteCalls
    @@ "broadcast" :> BroadcastCalls @@ "buildTerminalEntryMap" :> EvidenceCalls
    @@ "verifyMetadataPreflight" :> MetadataCalls

SomeCalls == [
  resolveAssetFeePolicy |-> FeeCalls,
  resolveGasSafetyMarginPolicy |-> MarginCalls,
  allocateAmount |-> AllocateCalls,
  planHeartbeatAppend |-> AppendCalls,
  appendPassiveHeartbeatRecord |-> FileCalls,
  validateGasEstimateSnapshot |-> SnapshotCalls,
  planOperationalHealthProbeLane |-> ProbeCalls,
  checkCrossStoreConsistency |-> ConsistencyCalls,
  runBlacklistPreflight |-> PreflightCalls,
  loadBlacklistSignatureConfigFromEnv |-> EnvCalls] @@ LaterCalls @@ RecordCalls
  @@ GateCalls
=============================================================================
