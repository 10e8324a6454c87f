--------------------------- MODULE IntentPipeline ---------------------------
(***************************************************************************)
(* From an accepted decision to a dispatch transition, offline: the chain  *)
(* of pure planners in src/lib/dispatcher that turns a decision and its    *)
(* candidate into a planned entry of the run state, takes a batch of such  *)
(* entries in, plans the submission of one and exposes it.  Workers do     *)
(* this side by side, on snapshots of a run state that the dispatcher      *)
(* moves on meanwhile; only the insertion writes.                          *)
(*                                                                         *)
(* The callers in the repository are its smoke tests, whose order is kept; *)
(* the halt is asked at the four boundaries named by                       *)
(* administrativeHaltInterception.ts.  Evidence and labels are left out.   *)
(***************************************************************************)
EXTENDS FeePolicies

CONSTANTS
  Worker,
  Spelling,    \* recipient addresses as written
  Lower,       \* Lower[s]: the trimmed, lower-case form a state key is made of
  Decisions,   \* candidate decision records
  Candidates,  \* candidate records
  Batches,     \* planned batches
  OperatorPolicies, ProviderPolicies, Fees, \* policies given to the planner
  Dispositions,\* retry dispositions asked for
  Time,        \* times of a call, 0 for a text that is no date
  MaxCalls,    \* bound: pipelines started
  MaxFaults    \* bound: reads and writes that fail, moves of the dispatcher

NoText == ""   \* an empty address, batch id or operator id

\* The addresses of candidates and batches are among those written.
ASSUME PipelineAssumption ==
  /\ \A c \in Candidates : c.address \in Spelling \cup {NoText}
  /\ \A b \in Batches :
       /\ DOMAIN b.recipients = 1 .. Len(b.recipients)
       /\ \A i \in DOMAIN b.recipients : b.recipients[i].address \in Spelling \cup {NoText}
  /\ MaxCalls \in Nat /\ MaxFaults \in Nat

NoEntry == [status |-> "none"]
NoPolicy == <<>>

Status == {"planned", "submitted", "success", "hard_failure", "cooldown", "skipped", "cancelled"}
Terminal == {"success", "hard_failure", "skipped", "cancelled"}
Active == {"submitted", "cooldown"}

VARIABLES
  entries,   \* entries of the run state, by state key
  halt,      \* the administrative halt of the orchestrator
  worker,    \* step and data of each worker
  exposed,   \* transitions exposed
  calls, faults

vars == <<entries, halt, worker, exposed, calls, faults>>

\* makeStateKey
KeyOf(batch, address) == <<batch, Lower[address]>>
Keys == {KeyOf(b.id, r) : b \in Batches, r \in Spelling}

Idle == [step |-> "idle"]

Init ==
  /\ entries = [k \in Keys |-> NoEntry]
  /\ halt = FALSE
  /\ worker = [w \in Worker |-> Idle]
  /\ exposed = {}
  /\ calls = 0 /\ faults = 0

-----------------------------------------------------------------------------
(* decisionStoreRunStateAdapter.ts *)

AcceptReasons == {"policy_accept", "manual_override_accept"}

\* Mutant: the amount decided on is not compared.
IntentRefusalAnyAmount(d, c, batch, index, now) ==
  FirstRefusal(<<
    <<~d.formed, "invalid_decision_record">>,
    <<~c.formed, "invalid_candidate_record">>,
    <<d.candidate # c.id, "candidate_id_mismatch">>,
    <<d.decision # "accepted", "decision_not_accepted">>,
    <<d.reason \notin AcceptReasons, "unsupported_accept_reason">>,
    <<batch = NoText, "invalid_batch_id">>,
    <<index < 0, "invalid_recipient_index">>,
    <<now = 0, "invalid_now_iso">>,
    <<c.address = NoText, "invalid_recipient_address">>,
    <<c.amount <= 0, "invalid_amount">> >>)

IntentRefusal(d, c, batch, index, now) ==
  FirstRefusal(<<
    <<~d.formed, "invalid_decision_record">>,
    <<~c.formed, "invalid_candidate_record">>,
    <<d.candidate # c.id, "candidate_id_mismatch">>,
    <<d.decision # "accepted", "decision_not_accepted">>,
    <<d.reason \notin AcceptReasons, "unsupported_accept_reason">>,
    <<c.amount # d.amount, "amount_mismatch">>,
    <<batch = NoText, "invalid_batch_id">>,
    <<index < 0, "invalid_recipient_index">>,
    <<now = 0, "invalid_now_iso">>,
    <<c.address = NoText, "invalid_recipient_address">>,
    <<c.amount <= 0, "invalid_amount">> >>)

\* A planned entry; its metadata names the decision.
PlannedEntry(d, c, batch, index, now) ==
  [batch |-> batch, recipient |-> c.address, index |-> index, amount |-> c.amount,
   status |-> "planned", attempts |-> 0, operator |-> NoText, last |-> NoText,
   created |-> now, decision |-> d]

Intent(d, c, batch, index, now) ==
  [key |-> KeyOf(batch, c.address), entry |-> PlannedEntry(d, c, batch, index, now)]

-----------------------------------------------------------------------------
(* runStatePlanApply.ts *)

\* Nothing happened to it yet.
Fresh(e) == e.status = "planned" /\ e.operator = NoText /\ e.last = NoText

\* validateIntentEntry
IntentMisfit(intent) ==
  FirstRefusal(<<
    <<intent.key # KeyOf(intent.entry.batch, intent.entry.recipient), "state_key_mismatch">>,
    <<~Fresh(intent.entry) \/ intent.entry.attempts # 0, "intent_entry_mismatch">> >>)

\* canonicalEntry compares every field; an equal entry is left as it is.
PlanApply(state, intent) ==
  LET old == state[intent.key]
      misfit == IntentMisfit(intent)
  IN IF misfit # None THEN misfit
     ELSE IF old = NoEntry THEN "insert_entry"
     ELSE IF old = intent.entry THEN "skip_identical_existing"
     ELSE FirstRefusal(<<
            <<old.status \in Terminal, "terminal_existing_entry">>,
            <<old.status \in Active, "active_existing_entry">>,
            <<TRUE, "existing_entry_conflict">> >>)

-----------------------------------------------------------------------------
(* dispatcherDryRunIntake.ts *)

Total(recipients) ==
  MapThenSumSet(LAMBDA i : recipients[i].amount, DOMAIN recipients)

BatchRefusal(b) ==
  FirstRefusal(<<
    <<b.id = NoText \/ b.index < 0 \/ b.recipients = <<>> \/ b.total <= 0, "invalid_batch">>,
    <<b.size # Len(b.recipients), "invalid_batch">>,
    <<Total(b.recipients) # b.total, "invalid_batch">>,
    <<\E i \in DOMAIN b.recipients :
        b.recipients[i].address = NoText \/ b.recipients[i].amount <= 0,
      "invalid_recipient">> >>)

RecipientRefusal(state, b, r) ==
  LET key == KeyOf(b.id, r.address)
      e   == state[key]
  IN IF e = NoEntry THEN "missing_planned_entry"
     ELSE FirstRefusal(<<
            <<e.status # "planned", "entry_not_planned">>,
            <<e.batch # b.id, "batch_id_mismatch">>,
            <<KeyOf(e.batch, e.recipient) # key, "state_key_mismatch">>,
            <<Lower[e.recipient] # Lower[r.address], "recipient_mismatch">>,
            <<e.amount # r.amount, "amount_mismatch">> >>)

\* One recipient that does not fit refuses the batch.
IntakeRefusal(state, b) ==
  IF BatchRefusal(b) # None THEN BatchRefusal(b)
  ELSE FirstRefusal([i \in DOMAIN b.recipients |->
                       Refused(RecipientRefusal(state, b, b.recipients[i]))])

-----------------------------------------------------------------------------
(* dispatcherDryRunTransitionPlan.ts *)

ActiveIn(status) == {o \in DOMAIN status : status[o] = "active"}

OperatorRefusal(policy, disposition) ==
  LET active == ActiveIn(policy.status)
  IN FirstRefusal(<<
       <<policy.status = NoPolicy \/ ~policy.seeded, "operator_policy_invalid">>,
       <<active = {}, "no_eligible_operator">>,
       <<disposition # "none" /\ policy.previous = NoText, "previous_operator_required">>,
       <<disposition = "retry_same_identity" /\ policy.previous \notin active,
         "previous_operator_not_eligible">>,
       <<disposition = "rotate_identity" /\ active \subseteq {policy.previous},
         "no_eligible_operator">> >>)

\* The operators stableHashToNumber may point at, by key, attempt and seed.
Selectable(policy, disposition) ==
  LET active == ActiveIn(policy.status)
  IN CASE disposition = "none"                -> active
       [] disposition = "retry_same_identity" -> active \cap {policy.previous}
       [] disposition = "rotate_identity"     -> active \ {policy.previous}

\* A provider policy and a fee policy may be absent.
ProviderRefusal(policy) ==
  IF policy = NoPolicy THEN None
  ELSE FirstRefusal(<<
         <<policy.status = NoPolicy \/ ~policy.seeded, "provider_policy_invalid">>,
         <<ActiveIn(policy.status) = {}, "no_eligible_provider">> >>)

Providers(policy) == IF policy = NoPolicy THEN {NoText} ELSE ActiveIn(policy.status)

FeeRefusal(policy, offset) ==
  IF policy = NoPolicy THEN None
  ELSE FirstRefusal(<<
         <<~ValidPolicyRecord(policy), "fee_policy_invalid">>,
         <<TierFee(policy, offset) > policy.max, "fee_cap_exceeded">> >>)

\* The tiers the hash may point at; any number when the policy is refused.
TierOffsets(policy) == IF policy = NoPolicy \/ policy.tiers < 1 THEN {0} ELSE 0 .. policy.tiers - 1

Supported == {"none", "retry_same_identity", "rotate_identity"}

\* entry: as taken in, under its key.
TransitionRefusal(key, e, now, halted, disposition, operators, providers, fees, offset) ==
  FirstRefusal(<<
    <<~Fresh(e) \/ KeyOf(e.batch, e.recipient) # key \/ e.amount <= 0, "invalid_planned_entry">>,
    <<now = 0, "invalid_now_iso">>,
    <<halted, "administrative_halt_active">>,
    <<disposition \notin Supported, "unsupported_retry_disposition">>,
    Refused(OperatorRefusal(operators, disposition)),
    Refused(ProviderRefusal(providers)),
    Refused(FeeRefusal(fees, offset)) >>)

SubmittedEntry(e, operator, disposition) ==
  [e EXCEPT !.status = "submitted", !.attempts = @ + 1,
            !.operator = operator, !.last = disposition]

-----------------------------------------------------------------------------
(* The workers *)

Fault == faults < MaxFaults /\ faults' = faults + 1

\* evaluateAdministrativeHaltInterception at a boundary: no step while halted.
BoundaryAllowed == ~halt

Goes(w, next) == worker' = [worker EXCEPT ![w] = next]

\* A refusal sends the worker back; nothing else is left of it.
Refuse(w) == Goes(w, Idle) /\ UNCHANGED <<entries, halt, exposed, calls, faults>>

\* before_intake: a decision and its candidate become an intent.
Build(w, d, c, batch, index, now) ==
  /\ worker[w] = Idle /\ calls < MaxCalls
  /\ BoundaryAllowed
  /\ IntentRefusal(d, c, batch, index, now) = None
  /\ Goes(w, [step |-> "built", intent |-> Intent(d, c, batch, index, now)])
  /\ calls' = calls + 1
  /\ UNCHANGED <<entries, halt, exposed, faults>>

\* applyDispatchIntentToRunState, its read and first plan.
PlanFromRead(w) ==
  /\ worker[w].step = "built"
  /\ LET intent == worker[w].intent
         plan   == PlanApply(entries, intent)
     IN Goes(w, CASE plan = "insert_entry" -> [step |-> "planned", intent |-> intent]
                  [] plan = "skip_identical_existing" -> [step |-> "applied", intent |-> intent]
                  [] OTHER -> Idle)
  /\ UNCHANGED <<entries, halt, exposed, calls, faults>>

ReadFails(w) ==
  /\ worker[w].step = "built" /\ Fault
  /\ Goes(w, Idle)
  /\ UNCHANGED <<entries, halt, exposed, calls>>

\* Mutant: inserts what was planned from the earlier read.
InsertAsPlanned(w) ==
  LET intent == worker[w].intent
  IN /\ worker[w].step = "planned" /\ BoundaryAllowed
     /\ entries' = [entries EXCEPT ![intent.key] = intent.entry]
     /\ Goes(w, [step |-> "applied", intent |-> intent])
     /\ UNCHANGED <<halt, exposed, calls, faults>>

\* after_runstate_plan, then its update: planned again on the draft.  A skip
\* there is refused too (plan_changed_during_update).
Insert(w) ==
  LET intent == worker[w].intent
  IN /\ worker[w].step = "planned" /\ BoundaryAllowed
     /\ IF PlanApply(entries, intent) = "insert_entry"
        THEN /\ entries' = [entries EXCEPT ![intent.key] = intent.entry]
             /\ Goes(w, [step |-> "applied", intent |-> intent])
        ELSE Goes(w, Idle) /\ UNCHANGED entries
     /\ UNCHANGED <<halt, exposed, calls, faults>>

\* write_failed: the update threw, before its rename or after it.
WriteFails(w) ==
  LET intent == worker[w].intent
  IN /\ worker[w].step = "planned" /\ BoundaryAllowed /\ Fault
     /\ \/ UNCHANGED entries
        \/ /\ PlanApply(entries, intent) = "insert_entry"
           /\ entries' = [entries EXCEPT ![intent.key] = intent.entry]
     /\ Goes(w, Idle)
     /\ UNCHANGED <<halt, exposed, calls>>

\* A batch is taken in from a read of the run state.
TakeIn(w, b) ==
  /\ worker[w].step = "applied"
  /\ IntakeRefusal(entries, b) = None
  /\ \E i \in DOMAIN b.recipients :
       LET key == KeyOf(b.id, b.recipients[i].address)
       IN Goes(w, [step |-> "taken", intent |-> [key |-> key, entry |-> entries[key]]])
  /\ UNCHANGED <<entries, halt, exposed, calls, faults>>

\* before_dry_run_transition, on the entry as it was taken in.
Transit(w, now, disposition, operators, providers, fees) ==
  LET key == worker[w].intent.key
      e   == worker[w].intent.entry
  IN /\ worker[w].step = "taken" /\ BoundaryAllowed
     /\ \E offset \in TierOffsets(fees) :
          /\ TransitionRefusal(key, e, now, halt, disposition,
                               operators, providers, fees, offset) = None
          /\ \E o \in Selectable(operators, disposition), p \in Providers(providers) :
               Goes(w, [step |-> "ready", intent |->
                          [key |-> key, entry |-> SubmittedEntry(e, o, disposition)]])
     /\ UNCHANGED <<entries, halt, exposed, calls, faults>>

\* before_dispatch_intent_exposure
Expose(w) ==
  /\ worker[w].step = "ready" /\ BoundaryAllowed
  /\ exposed' = exposed \cup {worker[w].intent}
  /\ Goes(w, Idle)
  /\ UNCHANGED <<entries, halt, calls, faults>>

\* Any of these refuses the worker, at a boundary or by a check.
Turned(w) == worker[w].step \in {"planned", "applied", "taken", "ready"} /\ Refuse(w)

-----------------------------------------------------------------------------
(* Around them *)

SetHalt(on) ==
  /\ halt # on /\ Fault /\ halt' = on
  /\ UNCHANGED <<entries, worker, exposed, calls>>

\* The dispatcher submits an entry, settles it, or plans it again, when it
\* keeps the operator and the decision of the attempt before.
EngineEntry(e, s) ==
  [e EXCEPT !.status = s, !.operator = "engine",
            !.attempts = IF s = "submitted" THEN @ + 1 ELSE @,
            !.last = IF s = "planned" THEN "retry_same_identity" ELSE @]

EngineMoves(k, s) ==
  /\ entries[k] # NoEntry
  /\ \/ entries[k].status = "planned" /\ s = "submitted"
     \/ entries[k].status = "submitted" /\ s \in {"planned", "cooldown", "success", "hard_failure"}
  /\ Fault
  /\ entries' = [entries EXCEPT ![k] = EngineEntry(entries[k], s)]
  /\ UNCHANGED <<halt, worker, exposed, calls>>

Works(w) ==
  \/ \E d \in Decisions, c \in Candidates, b \in Batches, index \in {-1, 0}, now \in Time :
       Build(w, d, c, b.id, index, now)
  \/ PlanFromRead(w)
  \/ ReadFails(w)
  \/ Insert(w)
  \/ WriteFails(w)
  \/ \E b \in Batches : TakeIn(w, b)
  \/ \E now \in Time, disposition \in Dispositions, operators \in OperatorPolicies,
        providers \in ProviderPolicies, fees \in Fees :
       Transit(w, now, disposition, operators, providers, fees)
  \/ Expose(w)
  \/ Turned(w)

Next ==
  \/ \E w \in Worker : Works(w)
  \/ \E on \in BOOLEAN : SetHalt(on)
  \/ \E k \in Keys, s \in Status : EngineMoves(k, s)

Spec == Init /\ [][Next]_vars

-----------------------------------------------------------------------------
(* Properties *)

Amounts == {c.amount : c \in Candidates}
Operators == UNION {DOMAIN p.status : p \in OperatorPolicies}

Entry ==
  [batch : {b.id : b \in Batches}, recipient : Spelling, index : Nat, amount : Amounts,
   status : Status, attempts : Nat, operator : Operators \cup {NoText, "engine"},
   last : Supported \cup {NoText}, created : Time, decision : Decisions]

Held == [key : Keys, entry : Entry]

PipelineTypeOK ==
  /\ entries \in [Keys -> Entry \cup {NoEntry}]
  /\ halt \in BOOLEAN
  /\ worker \in [Worker -> {Idle} \cup [step : {"built", "planned", "applied", "taken", "ready"},
                                       intent : Held]]
  /\ exposed \subseteq Held
  /\ calls \in 0 .. MaxCalls /\ faults \in 0 .. MaxFaults

\* What an entry was planned as: two spellings of an address share a key, and
\* two workers may insert under it.
Provenance(e) == <<e.batch, e.recipient, e.amount, e.created, e.decision>>

\* A planned entry is never replaced by another worker's, whatever the two read
\* before (runStateApplyShell.ts plans again inside the update).
NeverReplaces ==
  [][\A k \in Keys : entries[k] # NoEntry =>
       entries'[k] # NoEntry /\ Provenance(entries'[k]) = Provenance(entries[k])]_vars

\* What is exposed was accepted: for the same amount, for a candidate of the same
\* amount and address, under the key of that address, and at its first attempt.
ExposedAsDecided ==
  \A x \in exposed :
    /\ x.entry.decision.decision = "accepted" /\ x.entry.decision.amount = x.entry.amount
    /\ x.entry.attempts = 1
    /\ \E c \in Candidates :
         /\ c.id = x.entry.decision.candidate /\ c.amount = x.entry.amount
         /\ KeyOf(x.entry.batch, c.address) = x.key

\* Every pipeline stays well typed and exposes only what was decided, whatever the
\* other workers and the dispatcher do to the entries between its steps.
PipelineInv == PipelineTypeOK /\ ExposedAsDecided
=============================================================================
