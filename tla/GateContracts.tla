--------------------------- MODULE GateContracts ---------------------------
(***************************************************************************)
(* The gates that stages G to I put before a live run.  The repository     *)
(* holds them as executable contracts in scripts/*-smoke.ts: a function    *)
(* that decides, and the cases it must decide; nothing in lib/ calls one.  *)
(* Each is here as the reason it refuses with (None: it lets through), and *)
(* what its answer promises of other calls.                                *)
(*                                                                         *)
(* A text is "" when it is blank and NullText when it is missing.  An      *)
(* address is its lower-case form.  A hash is what was hashed.             *)
(***************************************************************************)
EXTENDS RunRecords, SequencesExt, Functions

-----------------------------------------------------------------------------
(* G-4: may an uncertain submission be resumed?  g-4-...-smoke.ts *)

NotPersisted == [status |-> "missing"]

\* isValidRecoveryEntry.  An entry has to carry the key of its own state, a field that
\* the script's entries have and those of the state file do not.
Recoverable(key, e) ==
  /\ e.key = key
  /\ e.status = "submitted"
  /\ Instant(e.updated) /\ Instant(e.submitted)
  /\ e.txHash = NullText /\ e.networkRef = NullText

ResumeRefusal(x) ==
  FirstRefusal(<<
    <<x.entry = NotPersisted, "missing_run_state_entry">>,
    <<x.entry # NotPersisted /\ ~Recoverable(x.key, x.entry), "malformed_run_state">>,
    <<x.replacement, "duplicate_dispatch_intent">>,
    <<x.local < x.latest, "stale_local_seqno">>,
    <<x.reported # x.latest, "simulated_seqno_mismatch">>,
    <<x.pending /\ (x.expires = NullInstant \/ x.now < x.expires),
      "uncertain_submission_active">> >>)

ResumeAction(reason) ==
  CASE reason = None -> "resume_allowed"
    [] reason = "uncertain_submission_active" -> "recovery_quarantined"
    [] OTHER -> "rejected_fail_closed"

\* What the store takes for a submission without a hash lacks nothing here but its key:
\* it is malformed as it stands in the state file, and no more once it carries the key.
\* A submission that may be resumed may be so later too, but no more once the account
\* has been seen to go past what is known of it here, or is reported apart from it.
ResumeIsCurrent(x, a) ==
  /\ x.entry # NotPersisted /\ ValidStateEntry(x.key, x.entry)
       /\ x.entry.status = "submitted" /\ {x.entry.txHash, x.entry.networkRef} = {NullText} =>
         (a = "malformed_run_state" <=> x.entry.key # x.key)
  /\ a = None =>
       /\ ResumeRefusal([x EXCEPT !.now = @ + 1]) = None
       /\ \A latest, reported \in 0 .. x.local + 1 :
            latest > x.local \/ latest # reported =>
              ResumeRefusal([x EXCEPT !.latest = latest, !.reported = reported]) # None

-----------------------------------------------------------------------------
(* G-5: do the audit rows and the terminal entries say the same?  g-5-...-smoke.ts *)

\* fingerprintEntry, of the fields of an entry but updatedAt
Fingerprint(e) == e

\* The aggregate of a batch does not depend on the order of its entries.
Aggregate(entries) == {Fingerprint(e) : e \in ToSet(entries)}

NeedsReason(status) == status \in {"hard_failure", "failed", "skipped", "retried"}

TerminalIssue(e) ==
  FirstRefusal(<<
    <<e.schema # SchemaVersion, "invalid_schema_version">>,
    <<e.recipient = "", "missing_recipient_address">>,
    <<e.key # RunStateKey(e.batch, e.recipient), "state_key_mismatch">>,
    <<NeedsReason(e.status) /\ ~FullText(e.reason), "missing_terminal_reason">> >>)

\* The row an entry should have.
RowOfEntry(e) ==
  [key |-> e.key, batch |-> e.batch, recipient |-> e.recipient, amount |-> e.amount,
   status |-> e.status, reason |-> e.reason, fingerprint |-> Fingerprint(e)]

EntryVerdict(e, rows) ==
  LET own == {r \in ToSet(rows) : r.key = e.key}
  IN FirstRefusal(<<
       Refused(TerminalIssue(e)),
       <<own = {}, "missing_audit_evidence">>,
       <<own # {RowOfEntry(e)}, "fingerprint_mismatch">> >>)

KeysOf(list) == [i \in DOMAIN list |-> list[i].key]

AuditRefusal(x) ==
  LET verdicts == [i \in DOMAIN x.entries |-> Refused(EntryVerdict(x.entries[i], x.rows))]
  IN FirstRefusal(<<
       <<~x.formed, "malformed_artifact">>,
       <<x.heartbeat = "unavailable", "heartbeat_unavailable">>,
       <<~IsInjective(KeysOf(x.entries)) \/ ~IsInjective(KeysOf(x.rows)),
         "duplicate_state_key">>,
       Refused(FirstRefusal(verdicts)),
       <<~(Range(KeysOf(x.rows)) \subseteq Range(KeysOf(x.entries))), "orphan_audit_evidence">>,
       <<{e.batch : e \in ToSet(x.entries)} # {x.summary.batch}
           \/ Len(x.entries) # x.summary.count
           \/ Aggregate(x.entries) # x.summary.aggregate,
         "batch_fingerprint_mismatch">> >>)

\* Evidence is aligned exactly when each entry has one row, its own, and there is no
\* other; in whatever order they come.  Without one of its rows it no longer is.
AlignedIsMutual(x, a) ==
  a = None =>
    /\ {RowOfEntry(e) : e \in ToSet(x.entries)} = ToSet(x.rows)
    /\ Len(x.entries) = Len(x.rows) /\ x.entries # <<>>
    /\ AuditRefusal([x EXCEPT !.entries = Reverse(@)]) = None
    /\ AuditRefusal([x EXCEPT !.rows = Reverse(@)]) = None
    /\ \A i \in DOMAIN x.rows :
         AuditRefusal([x EXCEPT !.rows = RemoveAt(@, i)]) = "missing_audit_evidence"

-----------------------------------------------------------------------------
(* G-6, H-5.2, H-6.2: new metadata, its governance, and taking it back *)

\* gateway: by URI, the payloads that are available
MetadataIntentRefusal(x) ==
  LET i == x.intent
      content == IF i.uri \in DOMAIN x.gateway THEN x.gateway[i.uri] ELSE NullText
  IN FirstRefusal(<<
       <<i.approval = "" \/ i.approval \notin x.approvals, "missing_approval_evidence">>,
       <<i.rollback # NullText /\ i.rollback \notin x.lineage, "broken_rollback_lineage">>,
       <<i.effective < i.approved + i.delay \/ x.now < i.effective,
         "premature_effective_time">>,
       <<content = NullText, "mock_content_unavailable">>,
       <<content # i.hash, "hash_drift">> >>)

\* Metadata takes effect no earlier than its delay after the approval, whatever time
\* it names, and from then on as long as the content is what was approved.
IntentWaits(x, a) ==
  LET effective == x.intent.approved + x.intent.delay
      due == [x EXCEPT !.intent.effective = effective]
  IN a = None =>
       /\ \A now, named \in x.intent.approved .. effective - 1 :
            {MetadataIntentRefusal([x EXCEPT !.now = now]),
             MetadataIntentRefusal([x EXCEPT !.intent.effective = named])}
               = {"premature_effective_time"}
       /\ \A now \in effective .. x.now + 1 :
            MetadataIntentRefusal([due EXCEPT !.now = now]) = None

\* metadata: its texts by field, and its decimals; NullNumber: missing
GovernanceRefusal(x) ==
  FirstRefusal(<<
    <<\E f \in DOMAIN x.metadata.texts : ~FullText(x.metadata.texts[f]), "missing_metadata_field">>,
    <<x.metadata.decimals = NullNumber, "missing_metadata_field">>,
    <<x.metadata.decimals \notin 0 .. 255, "invalid_decimals">>,
    <<x.observed # x.pinned, "hash_drift">>,
    <<x.metadata # x.pinned, "metadata_mutation">>,
    <<x.identity # x.pinnedIdentity, "identity_mutation">>,
    <<x.uri # x.approvedUri, "uri_replacement">>,
    <<FullText(x.fallback), "hidden_fallback_uri">> >>)

\* Approved metadata is approved as it stands: with any one of its fields changed or
\* taken away, or another identity, it is refused.
MetadataIsPinned(x, a) ==
  a = None =>
    /\ \A f \in DOMAIN x.metadata.texts : \A v \in {"", "other"} \ {x.metadata.texts[f]} :
         GovernanceRefusal([x EXCEPT !.metadata.texts[f] = v]) # None
    /\ \A d \in (NullNumber .. 256) \ {x.metadata.decimals} :
         GovernanceRefusal([x EXCEPT !.metadata.decimals = d]) # None
    /\ \A f \in {g \in DOMAIN x.identity : x.identity[g] # "other"} :
         GovernanceRefusal([x EXCEPT !.identity[f] = "other"]) # None

RollbackRefusal(x) ==
  LET i == x.intent
  IN FirstRefusal(<<
       <<~FullText(i.id), "rollback_intent_missing">>,
       <<i.target # x.policy.original, "rollback_hash_mismatch">>,
       <<i.original # x.policy.original, "rollback_original_hash_mismatch">>,
       <<i.lineage \notin x.policy.lineages, "rollback_lineage_mismatch">>,
       <<~FullText(i.approval) \/ i.approval \notin x.policy.approvals, "admin_approval_missing">>,
       <<FullText(i.fallback), "hidden_fallback_rollback">> >>)

\* A rollback restores what one policy approved: with another policy's original, its
\* lineage or its approvals withdrawn, it is refused.
RollbackNeedsPolicy(x, a) ==
  a = None =>
    \A policy \in {[x.policy EXCEPT !.original = "other"], [x.policy EXCEPT !.lineages = {}],
                   [x.policy EXCEPT !.approvals = {}]} \ {x.policy} :
      RollbackRefusal([x EXCEPT !.policy = policy]) # None

-----------------------------------------------------------------------------
(* G-7, H-4.2, H-4B.2: may this recipient be paid this amount? *)

RecheckRefusal(x) ==
  LET e == x.entry
      orphans == {l \in x.locks : l.key = e.key /\ l.exists /\ ~l.owned}
  IN FirstRefusal(<<
       <<e.schema # SchemaVersion, "schema_version_mismatch">>,
       <<e.recipient = "", "missing_recipient_address">>,
       <<e.attempt < 1, "invalid_attempt_number">>,
       <<orphans # {}, "orphan_lock_detected">>,
       <<Len(SelectSeq(x.evaluated, LAMBDA k : k = e.key)) > 1, "duplicate_evaluation_key">>,
       <<e.cooldown # NullInstant /\ x.now < e.cooldown, "cooldown_active">>,
       <<x.delta.key # e.key, "duplicate_evaluation_key">>,
       <<x.delta.status = "inactive", "target_inactive">>,
       <<x.delta.status = "drained", "target_drained">> >>)

RecheckAction(reason) ==
  CASE reason = None -> "dispatch_intent_allowed"
    [] reason = "target_inactive" -> "planned_skipped"
    [] reason = "target_drained" -> "planned_hard_failure"
    [] OTHER -> "rejected_fail_closed"

\* buildEligibleList of the dispatcher, of an entry in cooldown
CooledDown(until, now) == until = NullInstant \/ until <= now

\* The recheck and the dispatcher agree on when a cooldown is over: what the one lets
\* through the other lists, and what waits for the one waits for the other.
RecheckAgrees(x, a) ==
  /\ RecheckAction(a) # "rejected_fail_closed" => CooledDown(x.entry.cooldown, x.now)
  /\ a = "cooldown_active" => ~CooledDown(x.entry.cooldown, x.now)

\* classifyCapability; isBlockingCapability
Capability(t) ==
  CASE t.capability # "none" -> t.capability
    [] t.source \in {"declared", "fixture"} /\ t.kind \in {"W5", "V4R2"} -> t.source
    [] t.source = "unauthorized" -> "unknown"
    [] OTHER -> "none"
BlockingCapability(label) == label \in {"unknown", "ambiguous", "unsupported", "blocked_before_testnet"}

TargetRefusal(t, policy, seen) ==
  FirstRefusal(<<
    <<~t.valid, "invalid_address">>,
    <<t.address \in seen, "duplicate_target">>,
    <<t.status = "unknown", "unknown_eligibility">>,
    <<t.status = "ambiguous", "ambiguous_eligibility">>,
    <<t.address \in policy.block, "blocklisted_target">>,
    <<t.unsafe, "known_unsafe_target">>,
    <<policy.allowlistMode /\ t.address \notin policy.allow, "allowlist_miss">>,
    <<BlockingCapability(Capability(t)), "account_capability_blocked">>,
    <<t.risk, "blocking_risk_label">> >>)

\* Targets evaluated one after the other, with the set of addresses seen.
Screened(targets, policy) ==
  LET Screen(s, t) ==
        [seen |-> s.seen \cup IF t.valid THEN {t.address} ELSE {},
         verdicts |-> Append(s.verdicts, TargetRefusal(t, policy, s.seen))]
  IN FoldLeft(Screen, [seen |-> {}, verdicts |-> <<>>], targets).verdicts

\* An address is paid once at most, and its first valid target decides whether it is.
FirstTargetDecides(x, a) ==
  \A i \in DOMAIN a :
    LET before == {j \in 1 .. i - 1 : x.targets[j].valid /\ x.targets[j].address = x.targets[i].address}
    IN a[i] = None <=> before = {} /\ TargetRefusal(x.targets[i], x.policy, {}) = None

BudgetLines == {"global", "batch", "recipient", "gas"}
BudgetRefusal(x) ==
  FirstRefusal(<<
    <<~FullText(x.feePolicy), "fee_policy_version_missing">>,
    <<x.unknown, "budget_unknown">>,
    <<x.pause, "planned_paused">>,
    <<x.spent.global > x.cap.global, "global_cap_breach">>,
    <<x.spent.batch > x.cap.batch, "batch_cap_breach">>,
    <<x.spent.recipient > x.cap.recipient, "recipient_cap_breach">>,
    <<x.spent.gas > x.cap.gas, "gas_ceiling_breach">>,
    <<x.balance < x.reserve, "operator_reserve_breach">> >>)

\* A budget that is kept is kept up to each cap and down to the reserve, and not past
\* any of them.
BudgetEndsAtCaps(x, a) ==
  a = None =>
    LET full == [x EXCEPT !.spent = x.cap, !.balance = x.reserve]
    IN /\ BudgetRefusal(full) = None
       /\ \A f \in BudgetLines : BudgetRefusal([full EXCEPT !.spent[f] = @ + 1]) # None
       /\ BudgetRefusal([full EXCEPT !.balance = @ - 1]) # None

-----------------------------------------------------------------------------
(* H-2, I-1, I-2.4: may a network, a signer, be reached? *)

\* now, expires: NullNumber is missing, BadInstant no safe integer
BoundaryRefusal(env) ==
  FirstRefusal(<<
    <<env.halt = "true", "administrative_halt">>,
    <<env.enabled # "true", "boundary_disabled">>,
    <<env.dryRun # "true", "dry_run_required">>,
    <<~FullText(env.expectedChain), "missing_expected_chain_id">>,
    <<~FullText(env.observedChain), "missing_observed_chain_id">>,
    <<env.observedChain # env.expectedChain, "chain_id_mismatch">>,
    <<~FullText(env.campaign), "missing_campaign_id">>,
    <<~FullText(env.confirmed), "missing_confirm_campaign_id">>,
    <<env.confirmed # env.campaign, "campaign_confirmation_mismatch">>,
    <<env.proof # "stage-g-h1-locked", "dry_run_proof_invalid">>,
    <<~FullText(env.expectedCommit), "missing_expected_commit">>,
    <<env.workflow # "Stage B Full Check", "ci_workflow_invalid">>,
    <<env.ciStatus # "completed", "ci_status_invalid">>,
    <<env.ciConclusion # "success", "ci_conclusion_invalid">>,
    <<env.ciCommit # env.expectedCommit, "ci_commit_mismatch">>,
    <<~FullText(env.approval), "missing_approval_id">>,
    <<env.now = NullNumber, "missing_approval_now">>,
    <<env.expires = NullNumber, "missing_approval_expiry">>,
    <<env.now = BadInstant, "approval_now_invalid">>,
    <<env.expires = BadInstant, "approval_expiry_invalid">>,
    <<env.expires <= env.now, "approval_expired">> >>)

\* Every variable but the halt must be there, and an approval that is good was good
\* before and ends at its expiry.
BoundaryNeedsAll(env, a) ==
  a = None =>
    /\ \A f \in DOMAIN env \ {"halt", "now", "expires"} : \A v \in {"", "other"} \ {env[f]} :
         <<f, v>> # <<"approval", "other">> => BoundaryRefusal([env EXCEPT ![f] = v]) # None
    /\ \A f \in {"now", "expires"} : BoundaryRefusal([env EXCEPT ![f] = NullNumber]) # None
    /\ \A now \in 0 .. env.expires + 1 :
         BoundaryRefusal([env EXCEPT !.now = now]) = None <=> now < env.expires

TestnetEndpoints == {"testnet toncenter", "testnet tonapi"}
ForbiddenEndpoints == {"toncenter", "tonapi"}

\* extra: the fields of identity or key material the profile has
ProfileRefusal(p) ==
  FirstRefusal(<<
    <<p.name # "testnet", "unknown network profile">>,
    <<p.endpoint = "", "empty endpoint">>,
    <<p.endpoint \in ForbiddenEndpoints, "mainnet endpoint">>,
    <<p.endpoint \notin TestnetEndpoints, "endpoint not allowlisted">>,
    <<~p.dryRun, "dryRun">>,
    <<p.broadcast, "broadcast">>, <<p.signer, "signer">>, <<p.wallet, "wallet opening">>,
    <<p.extra # {}, "forbidden field">> >>)

BoundaryStates == <<"CREATED", "VALIDATED", "APPROVED", "READY_FOR_SIGNER">>
Escapes == {"retry", "reassignment", "signerReentry", "newIntent", "regeneration", "fallback",
            "recoveryMutation", "alternateDispatch"}
DerivedDecision(id) == <<id.version, id.decision, id.candidate, id.key>>

\* validateBoundary.  raised: the flags of the input that are set; transition: <<>> or
\* the states it goes between.
BoundaryFailure(x) ==
  LET Raised(flags) == x.raised \cap flags # {}
  IN FirstRefusal(<<
       <<Raised({"capability"}), "RUNTIME_CAPABILITY_CREEP">>,
       <<Raised({"nonPrimitive"}), "NON_PRIMITIVE_BOUNDARY_INGRESS">>,
       <<x.identity # x.expected, "IDENTITY_MUTATION_DETECTED">>,
       <<Raised({"decisionStore", "runState", "fingerprint"}), "DECISION_DRIFT_DETECTED">>,
       <<x.identity.boundaryDecision # DerivedDecision(x.expected) \/ Raised({"derivation"}),
         "BOUNDARY_DECISION_DERIVATION_DRIFT">>,
       <<\/ x.transition # <<>> /\ ~\E i \in 1 .. 3 : x.transition = SubSeq(BoundaryStates, i, i + 1)
         \/ Raised({"exposesMaterial", "skipsEvidence"}),
         "BOUNDARY_STATE_TRANSITION_VIOLATION">>,
       <<Raised({"rejected"}) /\ Raised(Escapes), "BOUNDARY_REJECTION_SECURITY_TERMINAL">>,
       <<Raised({"chainMismatch", "chainMutates", "chainTriggersSigner"}),
         "CHAIN_STATE_BOUNDARY_MISMATCH">>,
       <<Raised({"leak"}), "BOUNDARY_REDACTION_FAILURE">>,
       <<Raised({"metadataMutation"}), "METADATA_IDENTITY_COUPLING">>,
       <<Raised({"evidence", "runtimeEvidence", "authorizingEvidence"}),
         "BOUNDARY_EVIDENCE_MISMATCH">>,
       <<Raised({"nonDeterministic"}), "BOUNDARY_NON_DETERMINISM">> >>)

BoundaryFlags ==
  Escapes \cup {"capability", "nonPrimitive", "decisionStore", "runState", "fingerprint", "derivation",
    "exposesMaterial", "skipsEvidence", "rejected", "chainMismatch", "chainMutates",
    "chainTriggersSigner", "leak", "metadataMutation", "evidence", "runtimeEvidence",
    "authorizingEvidence", "nonDeterministic"}

\* A failure stands whatever else is found, and nothing that is found is let through,
\* but an escape that is asked for when nothing was rejected.
FailureStands(x, a) ==
  \A f \in BoundaryFlags :
    LET more == BoundaryFailure([x EXCEPT !.raised = @ \cup {f}])
    IN /\ a # None => more # None
       /\ a = None =>
            (more = None <=> \/ f \in x.raised
                             \/ f \in Escapes /\ "rejected" \notin x.raised
                             \/ f = "rejected" /\ x.raised \cap Escapes = {})

-----------------------------------------------------------------------------
(* The gates by name *)

Gates ==
  {"evaluateSimulatedRecovery", "reconcileTerminalAudit", "validateMetadataIntent",
   "validate metadata", "validateRollback", "evaluateFinalEligibility", "evaluateTarget",
   "evaluateBudget", "evaluateNetworkBoundary", "validateProfile", "validateBoundary"}

GateAnswer(f, x) ==
  CASE f = "evaluateSimulatedRecovery" -> ResumeRefusal(x)
    [] f = "reconcileTerminalAudit" -> AuditRefusal(x)
    [] f = "validateMetadataIntent" -> MetadataIntentRefusal(x)
    [] f = "validate metadata" -> GovernanceRefusal(x)
    [] f = "validateRollback" -> RollbackRefusal(x)
    [] f = "evaluateFinalEligibility" -> RecheckRefusal(x)
    [] f = "evaluateTarget" -> Screened(x.targets, x.policy)
    [] f = "evaluateBudget" -> BudgetRefusal(x)
    [] f = "evaluateNetworkBoundary" -> BoundaryRefusal(x)
    [] f = "validateProfile" -> ProfileRefusal(x)
    [] f = "validateBoundary" -> BoundaryFailure(x)

GatePromise(f, x, a) ==
  CASE f = "evaluateSimulatedRecovery" -> ResumeIsCurrent(x, a)
    [] f = "reconcileTerminalAudit" -> AlignedIsMutual(x, a)
    [] f = "validateMetadataIntent" -> IntentWaits(x, a)
    [] f = "validate metadata" -> MetadataIsPinned(x, a)
    [] f = "validateRollback" -> RollbackNeedsPolicy(x, a)
    [] f = "evaluateFinalEligibility" -> RecheckAgrees(x, a)
    [] f = "evaluateTarget" -> FirstTargetDecides(x, a)
    [] f = "evaluateBudget" -> BudgetEndsAtCaps(x, a)
    [] f = "evaluateNetworkBoundary" -> BoundaryNeedsAll(x, a)
    [] f = "validateBoundary" -> FailureStands(x, a)
    [] OTHER -> TRUE
=============================================================================
