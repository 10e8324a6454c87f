--------------------------- MODULE HealthRecords ---------------------------
(***************************************************************************)
(* What the offline stages write and check about their own health: the     *)
(* heartbeat record and its file (watcher/passiveHeartbeat.ts and its      *)
(* writer), when a heartbeat is due (dispatcher/heartbeatAppendPolicy.ts), *)
(* the snapshot of a gas estimate (watcher/gasSnapshot.ts), the lane of    *)
(* health probes (dispatcher/operationalHealthProbeLane.ts) and the        *)
(* comparison of the stores' evidence (dispatcher/crossStoreConsistency.ts)*)
(*                                                                         *)
(* Pure functions.  A time is a number, Undated a text that is no date.    *)
(* A text that only has to be there is a BOOLEAN.                          *)
(***************************************************************************)
EXTENDS Refusals

Undated == -1
Never == -2      \* null for a time
Dated(t) == t >= 0

Absent == [kind |-> "absent"]  \* null for an object

-----------------------------------------------------------------------------
(* The heartbeat record.  Every check runs; the answer is the set of paths  *)
(* that are wrong.                                                         *)

HeartbeatEnums == [
  source       |-> {"orchestrator", "watcher", "dispatcher", "recovery", "manual_smoke"},
  severity     |-> {"info", "warn", "error", "fatal"},
  systemStatus |-> {"starting", "alive", "degraded", "blocked", "recovering", "stopping",
                    "stopped"}]

SubsystemStatuses == {"unknown", "ok", "degraded", "blocked", "failed"}
LockStatuses == {"unknown", "not_required", "acquired", "owned", "ownership_lost", "stale",
                 "blocked"}

HeartbeatStatuses == [
  decisionStoreStatus  |-> SubsystemStatuses,
  heartbeatStoreStatus |-> SubsystemStatuses,
  lockStatus           |-> LockStatuses,
  gasStatus       |-> {"unknown", "ok", "stale", "over_limit", "unavailable"},
  blacklistStatus |-> {"unknown", "ok", "missing", "checksum_mismatch", "signature_invalid"},
  rpcStatus       |-> {"unknown", "ok", "degraded", "unavailable"},
  operatorStatus  |-> {"unknown", "ok", "degraded", "blocked"}]

ErrorSubsystems == {"decision_store", "heartbeat_store", "lock", "gas", "blacklist", "rpc",
                    "operator", "orchestrator", "unknown"}

\* The other fields of the stores' and the lock's status are texts or null; those
\* of the four others are not looked at.
Detailed == {"decisionStoreStatus", "heartbeatStoreStatus", "lockStatus"}

BadStatus(path, v) ==
  \/ v = Absent
  \/ v.status \notin HeartbeatStatuses[path]
  \/ path \in Detailed /\ ~v.texts

\* Any counter that is no natural number is an issue of its own.
BadCounters(counters) == {c \in DOMAIN counters : counters[c] < 0}

BadError(e) ==
  /\ e # Absent
  /\ ~e.code \/ ~e.message \/ e.subsystem \notin ErrorSubsystems \/ ~Dated(e.at)

HeartbeatIssues(r) ==
  {p \in {"schemaVersion", "heartbeatId", "heartbeatRunId"} : ~r[p]}
    \cup (IF Dated(r.emittedAt) THEN {} ELSE {"emittedAt"})
    \cup {p \in DOMAIN HeartbeatEnums : r[p] \notin HeartbeatEnums[p]}
    \cup {p \in DOMAIN HeartbeatStatuses : BadStatus(p, r[p])}
    \cup BadCounters(r.counters)
    \cup (IF BadError(r.lastKnownError) THEN {"lastKnownError"} ELSE {})

\* preflightPassiveHeartbeatPath.  parts: the path split at its slashes.
HeartbeatPathRefusal(p) ==
  FirstRefusal(<<
    <<p.parts = <<>>, "empty_path">>,
    <<p.absolute, "absolute_path_not_allowed">>,
    <<~(Len(p.parts) >= 3 /\ SubSeq(p.parts, 1, 2) = <<"data", "heartbeat">>),
      "path_outside_heartbeat_dir">>,
    <<\E i \in DOMAIN p.parts : p.parts[i] = "", "empty_path_segment">>,
    <<\E i \in DOMAIN p.parts : p.parts[i] = "..", "path_traversal_not_allowed">>,
    <<p.meta, "shell_metacharacter_not_allowed">> >>)

\* appendPassiveHeartbeatRecord: the lines of the file after the call.
HeartbeatFile(lines, path, record) ==
  IF HeartbeatPathRefusal(path) # None \/ HeartbeatIssues(record) # {} THEN lines
  ELSE Append(lines, record)

-----------------------------------------------------------------------------
(* When a heartbeat is appended *)

HotPath == {"recipient_planned", "recipient_submitted", "recipient_success",
            "recipient_retry_scheduled"}
ForcedBoundary == {"administrative_halt", "fatal_error", "recovery_event",
                   "cross_store_divergence", "heartbeat_write_failure"}
BatchBoundary == {"batch_started", "batch_completed"}
Triggers == HotPath \cup ForcedBoundary \cup BatchBoundary \cup {"periodic"}

AppendRefusal(trigger, now, last, interval) ==
  FirstRefusal(<<
    <<trigger \notin Triggers, "invalid_input">>,
    <<~Dated(now), "invalid_now_iso">>,
    <<last = Undated, "invalid_last_heartbeat_at">>,
    <<interval < 0, "invalid_min_interval_ms">>,
    <<last > now, "invalid_last_heartbeat_at">> >>)

\* A periodic heartbeat is due, the first at once.
Due(now, last, interval) == last = Never \/ now - last >= interval

\* next: nextEligibleAt, when throttled.
AppendPlan(trigger, now, last, interval) ==
  LET refusal == AppendRefusal(trigger, now, last, interval)
      Answers(action, reason) == [action |-> action, reason |-> reason]
  IN IF refusal # None THEN Answers("rejected", refusal)
     ELSE CASE trigger \in HotPath -> Answers("append_skipped", "skipped_hot_path_trigger")
            [] trigger \in ForcedBoundary -> Answers("append_allowed", "forced_boundary_event")
            [] trigger \in BatchBoundary -> Answers("append_allowed", "append_allowed")
            [] trigger = "periodic" ->
                 IF Due(now, last, interval)
                 THEN Answers("append_allowed", "periodic_interval_elapsed")
                 ELSE [action |-> "append_skipped", reason |-> "skipped_throttled",
                       next |-> last + interval]

-----------------------------------------------------------------------------
(* The snapshot of a gas estimate *)

GasSources == {"offline_fixed", "sandbox", "rpc_config", "external_provider"}
GasFreshness == {"fresh", "stale", "not_applicable_offline_fixed"}
FeeDecisions == {"within_fee_allowance", "exceeds_fee_allowance", "fee_context_unavailable"}

\* fees: storage, compute, forward and action; -1 for a text that is no decimal.
FeeSum(s) == s.fees.storage + s.fees.compute + s.fees.forward + s.fees.action

FeesRefusal(s) ==
  FirstRefusal(<<
    <<(\E f \in DOMAIN s.fees : s.fees[f] < 0) \/ s.total < 0 \/ s.allowance < 0,
      "invalid_decimal_string">>,
    <<FeeSum(s) # s.total, "fee_arithmetic_mismatch">>,
    <<s.feeDecision = "within_fee_allowance" /\ s.total > s.allowance, "fee_decision_mismatch">>,
    <<s.feeDecision = "exceeds_fee_allowance" /\ s.total <= s.allowance, "fee_decision_mismatch">>,
    <<s.feeDecision = "fee_context_unavailable", "fee_context_unavailable">> >>)

FreshnessRefusal(s, decisionAt) ==
  FirstRefusal(<<
    <<~Dated(s.observedAt), "invalid_gas_observed_at">>,
    <<~Dated(decisionAt), "invalid_decision_at">>,
    <<s.maxFreshness < 0, "invalid_gas_max_freshness_ms">>,
    <<s.observedAt > decisionAt, "gas_observed_after_decision">>,
    <<s.source = "offline_fixed" /\ s.freshness # "not_applicable_offline_fixed",
      "invalid_offline_fixed_freshness_decision">>,
    <<s.source # "offline_fixed" /\ s.freshness # "fresh", "gas_estimate_not_fresh">>,
    <<s.source # "offline_fixed" /\ decisionAt - s.observedAt > s.maxFreshness,
      "gas_estimate_stale">> >>)

\* chain: whether each field of the chain context is there.
ChainRefusal(s) ==
  IF s.source = "offline_fixed" THEN None
  ELSE FirstRefusal(<<
         <<~s.chain.name, "missing_gas_chain">>,
         <<~s.chain.workchain, "invalid_gas_workchain">>,
         <<~s.chain.seqno, "missing_gas_chain_seqno">>,
         <<~s.chain.configHash, "missing_gas_chain_config_hash">>,
         <<~s.chain.configVersion, "missing_gas_chain_config_param_version">> >>)

SnapshotRefusal(s, decisionAt) ==
  FirstRefusal(<<
    <<s.source \notin GasSources, "unsupported_gas_estimate_source">>,
    <<s.freshness \notin GasFreshness, "unsupported_gas_freshness_decision">>,
    <<s.feeDecision \notin FeeDecisions, "unsupported_fee_decision">>,
    <<~s.method, "empty_gas_estimate_method">>,
    <<~s.estimator, "empty_gas_estimator_version">>,
    <<~s.policy, "empty_fee_policy_version">>,
    Refused(FeesRefusal(s)),
    Refused(FreshnessRefusal(s, decisionAt)),
    Refused(ChainRefusal(s)) >>)

-----------------------------------------------------------------------------
(* The lane of health probes.  business: a field of the business lane is    *)
(* in the object.                                                          *)

ProbeTypes == {"provider_latency", "provider_status", "read_only_chain_tip",
               "read_only_config_probe"}
FaultOutcome == [
  none |-> "success", rpc_timeout |-> "timeout", provider_unavailable |-> "provider_error",
  latency_spike |-> "latency_spike", malformed_response |-> "malformed_response",
  race_condition_simulated |-> "race_condition_detected"]
MaxTimeoutMs == 120000
MaxSamples == 10000

ProbeRequestRefusal(r) ==
  FirstRefusal(<<
    <<r.business, "forbidden_business_field">>,
    <<r.lane # "operational_health_probe", "wrong_lane">>,
    <<r.endpoint = "" \/ r.type \notin ProbeTypes, "invalid_request">>,
    <<~r.isolated, "worker_isolation_required">>,
    <<r.fault \notin DOMAIN FaultOutcome, "fault_scenario_invalid">>,
    <<~r.seeded, "simulation_seed_invalid">>,
    <<~Dated(r.now), "invalid_now_iso">>,
    <<r.halt \notin {"active", "inactive"}, "invalid_request">>,
    <<r.halt = "active", "administrative_halt_active">> >>)

AllowlistRefusal(a) ==
  FirstRefusal(<<
    <<a.business, "forbidden_business_field">>,
    <<a.lane # "operational_health_probe", "wrong_lane">>,
    <<a.endpoint = "" \/ a.types = {} \/ ~a.types \subseteq ProbeTypes, "invalid_allowlist">>,
    <<a.timeout \notin 1 .. MaxTimeoutMs, "timeout_policy_invalid">>,
    <<a.samples \notin 1 .. MaxSamples, "sample_policy_invalid">>,
    <<~a.isolated, "worker_isolation_required">> >>)

\* endpoint: the trimmed provider and endpoint.
ProbeRefusal(r, list) ==
  LET hit == {i \in DOMAIN list : list[i].endpoint = r.endpoint}
  IN FirstRefusal(<<
       Refused(ProbeRequestRefusal(r)),
       <<list = <<>>, "invalid_allowlist">>,
       Refused(FirstRefusal([i \in DOMAIN list |-> Refused(AllowlistRefusal(list[i]))])),
       <<\E i, j \in DOMAIN list : i # j /\ list[i].endpoint = list[j].endpoint,
         "duplicate_allowlist_entry">>,
       <<hit = {}, "provider_endpoint_not_allowed">>,
       <<\E i \in hit : ~list[i].enabled, "allowlist_entry_disabled">>,
       <<\E i \in hit : r.type \notin list[i].types, "probe_type_not_allowed">> >>)

ProbePlan(r, list) ==
  IF ProbeRefusal(r, list) # None THEN [action |-> "rejected", reason |-> ProbeRefusal(r, list)]
  ELSE [action |-> "probe_plan_allowed", outcome |-> FaultOutcome[r.fault],
        timeout |-> (CHOOSE a \in {list[i] : i \in DOMAIN list} :
                       a.endpoint = r.endpoint).timeout]

-----------------------------------------------------------------------------
(* Do the stores tell the same of an entry?  Every check runs.             *)

Compared == {"batch", "key", "operator", "attempt", "status"}

\* An audit event or a structured log line; a field that is null ("") says nothing.
EvidenceIssues(kind, evidence, campaign, known) ==
  IF evidence = Absent THEN {}
  ELSE IF ~evidence.formed THEN {<<kind, "invalid">>}
  ELSE {<<kind, f>> : f \in
         {g \in {"campaign"} : evidence.campaign # campaign}
           \cup {g \in Compared : /\ known # Absent
                                  /\ evidence[g] # ""
                                  /\ evidence[g] # known[g]}}

HeartbeatEvidenceIssues(hb, campaign) ==
  IF hb = Absent THEN {}
  ELSE IF HeartbeatIssues(hb) # {} THEN {<<"heartbeat", "invalid">>}
  ELSE {<<"heartbeat", f>> : f \in
         {g \in {"campaign"} : hb.campaignId \notin {"", campaign}}
           \cup {g \in {"error"} : hb.lastKnownError # Absent}}

\* state: [campaign, entry]; the entry is Absent, badly formed, or has the fields
\* Compared and the key its batch and recipient give (derived).
ConsistencyIssues(state, key, expected, audit, log, heartbeat) ==
  LET e == state.entry
      known == IF e # Absent /\ e.formed THEN e ELSE Absent
  IN (IF e = Absent THEN {<<"state", "missing_state_entry">>}
      ELSE IF ~e.formed THEN {<<"state", "invalid_state_entry">>}
      ELSE {<<"state", f>> : f \in
             {g \in {"state_key_mismatch"} : e.derived # key}
               \cup {g \in {"status_mismatch"} : e.status # expected}})
     \cup EvidenceIssues("audit", audit, state.campaign, known)
     \cup EvidenceIssues("structured_log", log, state.campaign, known)
     \cup HeartbeatEvidenceIssues(heartbeat, state.campaign)
=============================================================================
