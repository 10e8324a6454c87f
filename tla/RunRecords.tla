----------------------------- MODULE RunRecords -----------------------------
(***************************************************************************)
(* The records a launch reads and writes, as their readers check them: the *)
(* state file with its guarded updates (dispatcher/stateStore.ts), the     *)
(* operators file (walletPool.ts), a row of the audit file (auditWriter.ts)*)
(* and the lock of the decision store (watcher/decisionStoreLock.ts).      *)
(*                                                                         *)
(* A field is the value it has, or says what is wrong with it: a text is   *)
(* "", NullText or BadText (not a text), an instant is NullInstant or      *)
(* BadInstant (no date), a number NullNumber.  Addresses are in the form   *)
(* makeStateKey gives them.                                                *)
(***************************************************************************)
EXTENDS Refusals

NullText == "null"
BadText == "bad"
NullInstant == -1
BadInstant == -2
NullNumber == -1

NullableText(t) == t # BadText
FullText(t) == t \notin {"", NullText, BadText}
Instant(t) == t >= 0
NullableInstant(t) == t # BadInstant

-----------------------------------------------------------------------------
(* stateStore.ts: what a run state must be *)

SchemaVersion == "stage-a-entry-centric-v1"
CampaignStatuses == {"idle", "running", "completed", "stopped"}
StateStatuses == {"planned", "submitted", "success", "hard_failure", "cooldown", "skipped",
                  "cancelled"}
RetryDispositions == {"none", "retry_same_identity", "rotate_identity", "fail_batch",
                      "stop_campaign"}
OperatorStatuses == {"active", "cooldown", "failed", "paused"}

\* makeStateKey
RunStateKey(batch, address) == <<batch, address>>

\* A RunState without entries, created at time now; no operator is in it.
EmptyMeta(campaign, now) ==
  [campaign |-> campaign, status |-> "idle", created |-> now, updated |-> now,
   started |-> NullInstant, finished |-> NullInstant, reconciled |-> NullInstant,
   stopReason |-> NullText, lastError |-> NullText, batchAttempts |-> <<>>]
ClearLock ==
  [batch |-> NullText, operator |-> NullText, attempt |-> NullNumber, at |-> NullInstant]
EmptyRunState(campaign, now) ==
  [schema |-> SchemaVersion, meta |-> EmptyMeta(campaign, now), entries |-> <<>>,
   operators |-> <<>>, lock |-> ClearLock]

ValidMeta(m, campaign) ==
  /\ FullText(m.campaign) /\ m.campaign = campaign
  /\ m.status \in CampaignStatuses
  /\ Instant(m.created) /\ Instant(m.updated)
  /\ \A t \in {m.started, m.finished, m.reconciled} : NullableInstant(t)
  /\ NullableText(m.stopReason) /\ NullableText(m.lastError)
  /\ \A b \in DOMAIN m.batchAttempts : b # "" /\ m.batchAttempts[b] >= 0

\* assertValidStateEntry
ValidStateEntry(key, e) ==
  /\ FullText(e.batch) /\ FullText(e.recipient)
  /\ key = RunStateKey(e.batch, e.recipient)
  /\ e.index >= 0 /\ e.amount > 0
  /\ e.status \in StateStatuses
  /\ e.attempt >= IF e.status = "planned" THEN 0 ELSE 1
  /\ \A t \in {e.operator, e.label, e.txHash, e.networkRef, e.lastErrorCode, e.lastError} :
       NullableText(t)
  /\ Instant(e.created) /\ Instant(e.updated)
  /\ \A t \in {e.submitted, e.finalized, e.cooldown} : NullableInstant(t)
  /\ e.lastDecision \in RetryDispositions \cup {NullText}
  /\ e.metadata \in {"absent", "object"}
  /\ e.status = "submitted" =>
       e.submitted # NullInstant /\ NullText \notin {e.operator, e.label}
  /\ e.status = "cooldown" => e.cooldown # NullInstant

ValidOperator(id, o) ==
  /\ id # ""
  /\ o.status \in OperatorStatuses /\ o.paused \in {"true", "false"} /\ o.failures >= 0
  /\ \A t \in o.instants : NullableInstant(t)
  /\ NullableText(o.lastError)

\* The lock is all null or all set.
ValidLock(lock) ==
  /\ NullableText(lock.batch) /\ NullableText(lock.operator) /\ NullableInstant(lock.at)
  /\ lock.attempt = NullNumber \/ lock.attempt >= 1
  /\ \/ lock = ClearLock
     \/ /\ NullText \notin {lock.batch, lock.operator}
        /\ lock.attempt # NullNumber /\ lock.at # NullInstant

\* validateEntries
ValidEntries(entries) == \A k \in DOMAIN entries : ValidStateEntry(k, entries[k])

\* assertValidRunState
ValidRunState(s, campaign) ==
  /\ s.schema = SchemaVersion
  /\ ValidMeta(s.meta, campaign)
  /\ ValidEntries(s.entries)
  /\ \A id \in DOMAIN s.operators : ValidOperator(id, s.operators[id])
  /\ ValidLock(s.lock)

\* loadState.  kind: what the bytes are; broken: the containers that are no objects.
LoadRefusal(file, campaign) ==
  IF file.kind = "missing" THEN None
  ELSE FirstRefusal(<<
    <<file.kind = "unreadable", "cannot read">>,
    <<file.kind = "text", "invalid JSON">>,
    <<file.kind = "array", "no object at root">>,
    <<file.state.schema # SchemaVersion, "schema version">>,
    <<file.broken # {}, "container">>,
    <<~ValidRunState(file.state, campaign), "invalid">> >>)

Loaded(file, campaign, now) ==
  IF file.kind = "missing" THEN EmptyRunState(campaign, now) ELSE file.state

-----------------------------------------------------------------------------
(* The guarded updates *)

StatusIn(s, key) == IF key \in DOMAIN s.entries THEN s.entries[key].status ELSE "absent"

\* setEntryGuarded.  An attempt or an operator of the guard may be left unset.
GuardRefusal(s, key, guard, next) ==
  FirstRefusal(<<
    <<StatusIn(s, key) \notin guard.statuses, "status">>,
    <<guard.attempt # NullNumber
        /\ (StatusIn(s, key) = "absent" \/ s.entries[key].attempt # guard.attempt), "attempt">>,
    <<guard.operator # "unset"
        /\ (StatusIn(s, key) = "absent" \/ s.entries[key].operator # guard.operator), "operator">>,
    <<~ValidStateEntry(key, next), "next entry">> >>)

AcquireRefusal(s, at) ==
  FirstRefusal(<<<<s.lock.batch # NullText, "held">>, <<~Instant(at), "lockedAt">>>>)

Owns(lock, id) ==
  lock.batch = id.batch /\ lock.operator = id.operator /\ lock.attempt = id.attempt

\* One mutation of a draft: the refusal of its guard, and the state it leaves.
MutationRefusal(s, m) ==
  CASE m.op = "set" -> GuardRefusal(s, m.key, m.guard, m.entry)
    [] m.op = "acquire" -> AcquireRefusal(s, m.at)
    [] m.op = "release" -> IF Owns(s.lock, m.id) THEN None ELSE "not owned"

Mutated(s, m) ==
  CASE m.op = "set" ->
         [s EXCEPT !.entries = [k \in DOMAIN @ \cup {m.key} |->
                                  IF k = m.key THEN m.entry ELSE @[k]]]
    [] m.op = "acquire" ->
         [s EXCEPT !.lock = [batch |-> m.id.batch, operator |-> m.id.operator,
                             attempt |-> m.id.attempt, at |-> m.at]]
    [] m.op = "release" -> [s EXCEPT !.lock = ClearLock]

\* update: load, mutate, check and save.
UpdateRefusal(s, campaign, m) ==
  FirstRefusal(<<
    <<~ValidRunState(s, campaign), "load">>,
    Refused(MutationRefusal(s, m)),
    <<~ValidRunState(Mutated(s, m), s.meta.campaign), "save">> >>)

\* isValidStateEntryShape of crossStoreConsistency.ts, for an amount without leading
\* zeros: what the comparison of the stores asks of an entry.
WellShapedEntry(e) ==
  /\ FullText(e.batch) /\ FullText(e.recipient)
  /\ e.index >= 0 /\ e.amount > 0 /\ e.attempt >= 0
  /\ e.status \in StateStatuses
  /\ NullableText(e.operator) /\ NullableText(e.label)
  /\ Instant(e.created) /\ Instant(e.updated)

\* checkCrossStoreConsistency, of the run state itself.
RunStateIssues(s) ==
  {i \in {"schemaVersion", "campaignId"} :
     \/ i = "schemaVersion" /\ s.schema # SchemaVersion
     \/ i = "campaignId" /\ ~FullText(s.meta.campaign)}

-----------------------------------------------------------------------------
(* reconciler.ts: the recovery of one submitted entry *)

NoRow == <<>>

\* row: what the audit log holds for the entry, as buildTerminalEntryMap accepts it,
\* or NoRow.  An attempt without a row is left alone until it is too old.
RecoveryRefusal(e, row, now, timeout) ==
  FirstRefusal(<<
    <<e.submitted = NullInstant \/ e.operator = NullText, "no identity">>,
    <<row = NoRow /\ now - e.submitted > timeout, "exceeded the recovery timeout">>,
    <<row = NoRow, "left alone">>,
    <<row # NoRow /\ \E f \in {"batch", "recipient", "attempt", "operator"} : row[f] # e[f],
      "other attempt">>,
    <<row # NoRow /\ row.at < e.submitted, "recorded before">>,
    <<row # NoRow /\ row.outcome = "cooldown", "no cooldownUntil">> >>)

\* auditOutcomeToStateStatus keeps the name of the outcome.
Recovered(e, row, now) ==
  LET won == row.outcome = "success"
  IN [e EXCEPT !.status = row.outcome, !.updated = now, !.finalized = now,
        !.txHash = IF row.txHash = NullText THEN @ ELSE row.txHash,
        !.lastErrorCode = IF won THEN NullText ELSE "recovered_from_terminal_audit",
        !.lastError = IF won THEN NullText ELSE row.detail,
        !.lastDecision = IF won THEN "none" ELSE "fail_batch"]

\* The update of a recovery is guarded by the attempt and operator of the snapshot.
Recovery(key, e, row, now) ==
  [op |-> "set", key |-> key, entry |-> Recovered(e, row, now),
   guard |-> [statuses |-> {"submitted"}, attempt |-> e.attempt, operator |-> e.operator]]

-----------------------------------------------------------------------------
(* walletPool.ts: the operators file *)

BadOperatorConfig(o) ==
  \/ ~o.object
  \/ \E t \in {o.id, o.label, o.key, o.version, o.reserve} : ~FullText(t)
  \/ o.enabled \notin {"true", "false"}
  \/ o.maxBatchSize <= 0 \/ o.maxTxPerHour <= 0 \/ o.subwallet < 0

\* createWalletPool.  A mnemonic is set when the environment has it under the key.
IsOn(o) == o.enabled = "true"
PoolRefusal(file, set) ==
  FirstRefusal(<<
    <<file.kind \in {"unreadable", "text"}, "JSON_INVALID">>,
    <<file.kind # "array", "JSON_NOT_ARRAY">>,
    <<\E i \in DOMAIN file.list : BadOperatorConfig(file.list[i]), "OPERATOR_INVALID">>,
    <<\E i \in DOMAIN file.list : IsOn(file.list[i]) /\ file.list[i].key \notin set,
      "MNEMONIC_MISSING">>,
    <<\A i \in DOMAIN file.list : ~IsOn(file.list[i]), "NO_ELIGIBLE_OPERATORS">> >>)

EligibleOperators(file) == {file.list[i] : i \in {j \in DOMAIN file.list : IsOn(file.list[j])}}

\* emptyRuntime, for an operator the state does not know yet.
EmptyRuntime ==
  [status |-> "active", paused |-> "false", failures |-> 0, instants |-> {NullInstant},
   lastError |-> NullText]
Seeded(s, file) ==
  LET ids == {o.id : o \in EligibleOperators(file)}
  IN [s EXCEPT !.operators = [id \in DOMAIN @ \cup ids |->
                                IF id \in DOMAIN @ THEN @[id] ELSE EmptyRuntime]]

\* markFailure: which window the operator is given, of a failure's two.
Window(cooldown, failed, now) ==
  IF failed > now THEN [status |-> "failed", cooldown |-> NullInstant, failed |-> failed]
  ELSE IF cooldown > now
  THEN [status |-> "cooldown", cooldown |-> cooldown, failed |-> NullInstant]
  ELSE [status |-> "failed", cooldown |-> NullInstant, failed |-> NullInstant]

-----------------------------------------------------------------------------
(* auditWriter.ts: rows of the audit file *)

BadAuditRow(r) ==
  \/ ~r.object
  \/ \E t \in {r.timestamp, r.campaign, r.batch, r.recipient, r.status} : ~FullText(t)
  \/ r.amount < 0 \/ r.attempts < 0
  \/ r.optional = BadText

\* appendAuditRows: all of the rows or none.
AppendRowsRefusal(path, rows) ==
  FirstRefusal(<<
    <<~FullText(path), "filePath">>,
    <<\E i \in DOMAIN rows : BadAuditRow(rows[i]), "row">> >>)

-----------------------------------------------------------------------------
(* decisionStoreLock.ts and the shape checks of decisionStoreAtomicAcquire.ts *)

LockRecordRefusal(lock) ==
  FirstRefusal(<<
    <<lock.lockId = "", "empty_lock_id">>,
    <<lock.ownerId = "", "empty_owner_id">>,
    <<lock.acquiredAtMs < 0, "invalid_acquired_at_ms">>,
    <<lock.expiresAtMs < 0, "invalid_expires_at_ms">>,
    <<lock.expiresAtMs <= lock.acquiredAtMs, "invalid_lock_time_range">> >>)

\* decideDecisionStoreLockAcquire; existing is a sequence of at most one lock.
AcquireDecision(existing, owner, now) ==
  FirstRefusal(<<
    <<owner = "", "empty_owner_id">>,
    <<now < 0, "invalid_now_ms">>,
    <<existing = <<>>, "acquire_allowed">>,
    IF existing = <<>> THEN <<FALSE, None>> ELSE Refused(LockRecordRefusal(existing[1])),
    <<existing # <<>> /\ existing[1].expiresAtMs <= now, "stale_lock_recoverable">>,
    <<TRUE, "active_lock">> >>)

\* decideDecisionStoreLockRelease
ReleaseDecision(existing, owner) ==
  FirstRefusal(<<
    <<owner = "", "empty_owner_id">>,
    Refused(LockRecordRefusal(existing)),
    <<existing.ownerId # owner, "release_owner_mismatch">>,
    <<TRUE, "release_allowed">> >>)

\* planDecisionStoreAtomicAcquire
AtomicPlan(existing, requested, now) ==
  FirstRefusal(<<
    <<now < 0, "invalid_now_ms">>,
    <<LockRecordRefusal(requested) # None, "invalid_requested_lock">>,
    <<requested.acquiredAtMs > now, "requested_lock_acquired_in_future">>,
    <<requested.expiresAtMs <= now, "requested_lock_already_expired">>,
    <<existing = <<>>, "create_if_missing">>,
    IF existing = <<>> THEN <<FALSE, None>>
    ELSE <<LockRecordRefusal(existing[1]) # None, "invalid_existing_lock">>,
    <<existing # <<>> /\ existing[1].expiresAtMs > now, "active_lock">>,
    <<TRUE, "replace_if_matches_existing_stale_lock">> >>)
=============================================================================
