-------------------------- MODULE DecisionRecords --------------------------
(***************************************************************************)
(* The record of one decision about a candidate: how it is built and named *)
(* (watcher/candidateDecision.ts), and how a line of the decision store is *)
(* read back (decisionStore.ts).                                           *)
(*                                                                         *)
(* A text the decision's id is made of is the sequence of its parts between*)
(* ":::", <<>> when it is blank.  Any other text is "" (blank), "odd" (not *)
(* the format asked for) or what it says.  A decimal is its value, or -1.  *)
(***************************************************************************)
EXTENDS HealthRecords

OddText == "odd"
NoDepth == -1
BadDepth == -2

Blank(t) == t = ""

\* buildDecisionKeyString; the hash of the joined texts names the decision.
DecisionKey(i) ==
  i.candidate \o i.run \o <<i.reason>> \o i.ruleset \o i.blacklist \o i.budget.policy

\* Mutant: the run is left out of the name.
DecisionKeyOfAnyRun(i) ==
  i.candidate \o <<i.reason>> \o i.ruleset \o i.blacklist \o i.budget.policy

-----------------------------------------------------------------------------
(* validateBuildCandidateDecisionRecordInput: every check runs *)

BudgetParts == {"limit", "used", "available", "amount"}

BudgetIssues(b) ==
  {<<"invalid_budget_amount", p>> : p \in {q \in BudgetParts : b[q] < 0}}
    \cup (IF b.limit >= 0 /\ b.used >= 0 /\ b.available >= 0 /\ b.used + b.available # b.limit
          THEN {<<"invalid_budget_consistency", "budgetSnapshot">>} ELSE {})

\* The issue of each other field that is not as it should be.
FieldIssues(i) ==
  LET wrong == [
        missing_candidate_id          |-> i.candidate = <<>>,
        missing_decision_run_id       |-> i.run = <<>>,
        invalid_decision_at           |-> ~Dated(i.decisionAt),
        invalid_candidate_observed_at |-> ~Dated(i.observed),
        invalid_candidate_age_ms      |-> i.age < 0,
        missing_trace_tx_hash         |-> Blank(i.trace.txHash),
        invalid_trace_tx_hash         |-> i.trace.txHash = OddText,
        invalid_trace_id              |-> i.trace.traceId \in {"", OddText},
        invalid_trace_lt              |-> i.trace.lt < 0,
        invalid_trace_action_index    |-> i.trace.actionIndex < 0,
        missing_trace_source          |-> Blank(i.trace.provider) \/ Blank(i.trace.endpoint),
        invalid_trace_observed_at     |-> ~Dated(i.trace.observed),
        invalid_trace_received_at     |-> ~Dated(i.trace.received),
        invalid_budget_policy_version |-> i.budget.policy = <<>>,
        invalid_budget_snapshot_at    |-> ~Dated(i.budget.at),
        invalid_finality_depth        |-> i.finality.depth = BadDepth,
        missing_finality_decision     |-> Blank(i.finality.decision),
        missing_ruleset_version       |-> i.ruleset = <<>>,
        missing_blacklist_version     |-> i.blacklist = <<>>,
        invalid_gas_estimate_snapshot |-> SnapshotRefusal(i.gas, i.decisionAt) # None,
        missing_decided_by            |-> Blank(i.decidedBy),
        missing_schema_version        |-> Blank(i.schema)]
  IN {<<r, "field">> : r \in {q \in DOMAIN wrong : wrong[q]}}

DecisionIssues(i) == FieldIssues(i) \cup BudgetIssues(i.budget)

\* buildCandidateDecisionRecord: the input under its name.
DecisionRecord(i) == [id |-> DecisionKey(i), input |-> i]

\* tryBuildCandidateDecisionRecord: at most one record.
TryBuild(i) == IF DecisionIssues(i) = {} THEN <<DecisionRecord(i)>> ELSE <<>>

-----------------------------------------------------------------------------
(* decisionStore.ts: a line read back *)

\* parseDecisionRecordJsonlLine.  kind: what the line's bytes are.
LineRefusal(line) ==
  FirstRefusal(<<
    <<line.newline, "line_contains_newline">>,
    <<line.kind = "text", "parse_failed">>,
    <<line.kind # "object", "parsed_record_not_object">>,
    <<~line.named, "parsed_record_missing_required_fields">> >>)

\* validateDecisionStoreRecord: the input is rebuilt from the record, and the name made
\* again.
RecordRefusal(r) ==
  FirstRefusal(<<
    <<DecisionIssues(r.input) # {}, "record_validation_failed">>,
    <<r.id # DecisionKey(r.input), "decision_id_mismatch">> >>)
=============================================================================
