---------------------------- MODULE LaunchChecks ----------------------------
(***************************************************************************)
(* What scripts/launchStageA.ts checks before it hands a campaign to the   *)
(* dispatcher, and the pure functions the call then rests on: the batch    *)
(* plan with its shuffle (batchPlanner.ts), the amount an audit row is     *)
(* given, the injected fault, the evidence rows and the metadata preflight *)
(* of reconciler.ts.                                                       *)
(*                                                                         *)
(* A text is what the code makes of it: Unset, Odd (not acceptable) or its *)
(* value; one that should spell a number NoNumber, OddNumber or the number.*)
(* A recipient's address is its trimmed, lower-case form, which is what    *)
(* all of this compares.                                                   *)
(***************************************************************************)
EXTENDS Refusals, SequencesExt

Unset == "unset"
Odd == "odd"
NoNumber == -2
OddNumber == -1

-----------------------------------------------------------------------------
(* The environment and the files *)

\* validateRealExecutionGate, and the block behind it.
GateRefusal(env) ==
  IF env.dry THEN None
  ELSE FirstRefusal(<<
    <<~env.realEnabled, "REAL_EXECUTION_ENABLED">>,
    <<env.confirmed # env.campaign, "CONFIRM_REAL_CHAIN_EXECUTION">>,
    <<~env.fullCheck, "STAGE_B_FULL_CHECK_REQUIRED">>,
    <<TRUE, "no live executor">> >>)

FaultKinds == {"rpc_transient", "operator_failover", "hard_failure"}

\* parseFaultConfig
FaultRefusal(env) ==
  LET f == env.fault
  IN IF ~f.enabled THEN None
     ELSE FirstRefusal(<<
       <<f.campaign # env.campaign, "FAULT_INJECT_CAMPAIGN_ID">>,
       <<f.index < 0, "FAULT_INJECT_RECIPIENT_INDEX">>,
       <<f.kind \notin FaultKinds, "FAULT_INJECT_KIND">> >>)

Enabled(operators) == SelectSeq(operators, LAMBDA o : o.enabled)

\* loadFirstEnabledMaxBatchSize
FallbackRefusal(operators) ==
  FirstRefusal(<<
    <<operators = <<>>, "operators.json">>,
    <<Enabled(operators) = <<>>, "no enabled operator">>,
    <<Enabled(operators) # <<>> /\ Enabled(operators)[1].maxBatchSize < 1, "maxBatchSize">> >>)

\* The batch size, 0 when it is refused.
BatchSize(env, operators) ==
  IF env.batchSize = OddNumber THEN 0
  ELSE IF env.batchSize # NoNumber THEN env.batchSize
  ELSE IF FallbackRefusal(operators) = None THEN Enabled(operators)[1].maxBatchSize ELSE 0

\* loadRecipients and convertAmountToBigInt: the first malformed entry is named.
BadEntry(r) == ~r.object \/ r.address = "" \/ r.amount = NoNumber

\* validateRecipientAddressesForLaunch
BadTarget(r) == ~r.parses

TargetsRefusal(targets) ==
  FirstRefusal(<<
    <<~targets.readable, "targets.json">>,
    <<targets.list = <<>>, "zero recipients">>,
    <<\E i \in DOMAIN targets.list : BadEntry(targets.list[i]), "entry">>,
    <<\E i \in DOMAIN targets.list : targets.list[i].amount < 1, "amount">>,
    <<\E i \in DOMAIN targets.list : BadTarget(targets.list[i]), "invalid address">> >>)

\* run, as far as the call of dispatch().
LaunchRefusal(env, targets, operators) ==
  FirstRefusal(<<
    <<env.campaign = "", "CAMPAIGN_ID">>,
    Refused(GateRefusal(env)),
    Refused(FaultRefusal(env)),
    <<BatchSize(env, operators) < 1, "BATCH_SIZE">>,
    <<env.delay = OddNumber, "ENTRY_DELAY_MS">>,
    Refused(TargetsRefusal(targets)),
    <<env.fault.enabled /\ env.fault.index >= Len(targets.list), "out of bounds">> >>)

-----------------------------------------------------------------------------
(* The batch plan *)

Swapped(s, i, j) == [s EXCEPT ![i] = s[j], ![j] = s[i]]

\* seededShuffle: a swap for each place from the last to the second; picks[i] is what
\* the generator, a function of the seed, gives for place i.
Shuffled(s, picks) ==
  FoldLeft(LAMBDA acc, k : Swapped(acc, Len(s) + 1 - k, picks[Len(s) + 1 - k]),
           s, [k \in 1 .. Len(s) - 1 |-> k])

\* The places a generator can pick: Math.floor(rand() * (i + 1)) counts from 0.
Picks(n) == {f \in [1 .. n -> 1 .. n] : \A i \in 1 .. n : f[i] <= i}

PlanRefusal(recipients, size) ==
  FirstRefusal(<<
    <<size < 1, "batchSize">>,
    <<\E i \in DOMAIN recipients : recipients[i].address = "", "address">>,
    <<\E i \in DOMAIN recipients : recipients[i].amount < 1, "amount">>,
    <<\E i, j \in DOMAIN recipients :
        i # j /\ recipients[i].address = recipients[j].address, "duplicate">> >>)

\* The batches, in order.
Planned(recipients, size, picks) ==
  LET ordered == Shuffled(recipients, picks)
      count   == (Len(ordered) + size - 1) \div size
  IN [b \in 1 .. count |->
        SubSeq(ordered, (b - 1) * size + 1, Min({b * size, Len(ordered)}))]

-----------------------------------------------------------------------------
(* The audit row's amount, and the injected fault *)

\* A state key is "<campaign>-batch-<n>::<address>"; campaign holds the parts of the
\* campaign's id between "::".
StateKeyParts(campaign, address) == campaign \o <<address>>

\* The recorder takes the second part for the address.
RecordedAddress(campaign, address) == StateKeyParts(campaign, address)[2]

\* buildAmountLookup: the last recipient of an address gives its amount.
AmountOf(recipients, address) ==
  LET at == {i \in DOMAIN recipients : recipients[i].address = address}
  IN IF at = {} THEN NoNumber ELSE recipients[Max(at)].amount

\* buildDispatcherAuditRecorder throws when there is none.
AuditAmount(campaign, recipients, address) ==
  AmountOf(recipients, RecordedAddress(campaign, address))

\* buildMintExecutor: whether a broadcast is answered with the fault.
Injected(fault, recipients, address, attempt) ==
  /\ fault.enabled
  /\ address = recipients[fault.index + 1].address
  /\ ~fault.once \/ attempt = 1

-----------------------------------------------------------------------------
(* Evidence rows *)

Outcomes == {"success", "hard_failure", "cooldown", "skipped", "cancelled"}

\* assertValidAuditLogEntry
ValidRow(row) ==
  row.texts /\ row.attempt >= 1 /\ row.outcome \in Outcomes /\ row.dated

\* buildTerminalEntryMap: a row may be repeated, but not contradicted.
EvidenceRefusal(rows) ==
  FirstRefusal(<<
    <<\E i \in DOMAIN rows : ~ValidRow(rows[i]), "AUDIT_READ_FAILURE">>,
    <<\E i, j \in DOMAIN rows : rows[i].key = rows[j].key /\ rows[i] # rows[j],
      "AUDIT_READ_FAILURE">> >>)

-----------------------------------------------------------------------------
(* The metadata preflight *)

RequiredFields == <<"name", "symbol", "description", "image", "decimals", "contentVersion">>

FieldFault(value) ==
  IF value = Unset THEN "METADATA_FIELD_MISSING"
  ELSE IF value \in {"", Odd} THEN "METADATA_FIELD_TYPE_INVALID" ELSE None

\* validateMetadataFields: the first field that is at fault.
FieldRefusal(m) ==
  FirstRefusal([i \in DOMAIN RequiredFields |-> Refused(FieldFault(m[RequiredFields[i]]))])

\* applyForceRefresh
VersionToken(m) == IF m.refreshToken \in {Unset, ""} THEN m.contentVersion ELSE m.refreshToken

\* appendVersionParam.  An image is its scheme, its path and the versions in its query.
\* Any scheme but http is parsed below a placeholder host, so it comes back as a part of
\* the path, behind itself; a text without one, or that is no URL, is appended to.
Versioned(image, version) ==
  CASE ~image.parses \/ image.scheme = "" -> [image EXCEPT !.versions = Append(@, version)]
    [] image.parses /\ image.scheme = "http" -> [image EXCEPT !.versions = <<version>>]
    [] OTHER -> [image EXCEPT !.path = <<"", image.scheme>> \o image.path,
                              !.versions = <<version>>]

\* verifyMetadataPreflight
PreflightOf(m, refresh) ==
  LET refusal == IF m.readable THEN FieldRefusal(m) ELSE "METADATA_FILE_READ_FAILURE"
  IN [refusal |-> refusal,
      image |-> IF refusal = None /\ refresh THEN Versioned(m.url, VersionToken(m)) ELSE m.url]
=============================================================================
