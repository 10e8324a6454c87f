------------------------- MODULE OfflineStagesProofs -------------------------
(***************************************************************************)
(* Proofs about the offline stages: what the pipeline of IntentPipeline    *)
(* exposes was decided, what it plans is never replaced, a call of the     *)
(* shells of FileShells that no other overlaps keeps its word, and every   *)
(* answer of an evaluator or a gate keeps the promises made of it, for     *)
(* any workers, addresses, decisions, policies, callers, clocks and inputs.*)
(***************************************************************************)
EXTENDS OfflineStages, FiniteSetTheorems, SequenceTheorems, WellFoundedInduction, TLAPS

-----------------------------------------------------------------------------
(* A list of checks *)

LEMMA MinOfNats ==
  ASSUME NEW S, S \subseteq Nat, S # {}
  PROVE  Min(S) \in S /\ \A n \in S : Min(S) <= n
<1>1. PICK m \in S : \A n \in S : ~(<<n, m>> \in OpToRel(<, Nat))
  BY NatLessThanWellFounded, WFMin
<1>2. ASSUME NEW n \in S, n < m PROVE FALSE
  <2>1. <<n, m>> \in Nat \X Nat
    OBVIOUS
  <2>2. <<n, m>> \in OpToRel(<, Nat)
    BY <1>2, <2>1 DEF OpToRel
  <2> QED
    BY <1>1, <2>2
<1>3. \A n \in S : m <= n
  BY <1>2
<1> QED
  BY <1>3 DEF Min

\* The answer is the reason of a check that fails, the first one.
LEMMA FirstRefusalIs ==
  ASSUME NEW checks, DOMAIN checks \subseteq Nat
  PROVE  \/ /\ FirstRefusal(checks) = None
            /\ \A i \in DOMAIN checks : ~checks[i][1]
         \/ \E i \in DOMAIN checks : checks[i][1] /\ FirstRefusal(checks) = checks[i][2]
<1> DEFINE failed == {i \in DOMAIN checks : checks[i][1]}
<1>1. CASE failed = {}
  BY <1>1 DEF FirstRefusal
<1>2. CASE failed # {}
  <2>1. Min(failed) \in failed
    BY <1>2, MinOfNats
  <2> QED
    BY <1>2, <2>1 DEF FirstRefusal
<1> QED
  BY <1>1, <1>2

\* When every reason says something, an answer of None means that no check fails.
LEMMA NothingRefused ==
  ASSUME NEW checks, DOMAIN checks \subseteq Nat,
         \A i \in DOMAIN checks : checks[i][1] => checks[i][2] # None,
         FirstRefusal(checks) = None
  PROVE  \A i \in DOMAIN checks : ~checks[i][1]
BY FirstRefusalIs

\* A check that fails after none that does gives the answer.
LEMMA FirstFailing ==
  ASSUME NEW checks, DOMAIN checks \subseteq Nat, NEW i \in DOMAIN checks, checks[i][1],
         \A j \in DOMAIN checks : j < i => ~checks[j][1]
  PROVE  FirstRefusal(checks) = checks[i][2]
<1> DEFINE failed == {j \in DOMAIN checks : checks[j][1]}
<1>1. failed # {} /\ failed \subseteq Nat /\ i \in failed
  OBVIOUS
<1>2. Min(failed) \in failed /\ \A j \in failed : Min(failed) <= j
  <2> HIDE DEF failed
  <2> QED
    BY <1>1, MinOfNats
<1>3. Min(failed) = i
  <2>1. PICK m \in failed : m = Min(failed) /\ m <= i
    BY <1>1, <1>2
  <2>2. ~(m < i) /\ m \in Nat /\ i \in Nat
    OBVIOUS
  <2> QED
    BY <2>1, <2>2
<1> QED
  BY <1>1, <1>3 DEF FirstRefusal

-----------------------------------------------------------------------------
(* What the planners of the pipeline accept *)

LEMMA IntentAccepted ==
  ASSUME NEW d, NEW c, NEW batch, NEW index, NEW at,
         IntentRefusal(d, c, batch, index, at) = None
  PROVE  /\ d.candidate = c.id /\ d.decision = "accepted" /\ c.amount = d.amount
         /\ ~(index < 0) /\ c.address # NoText
<1> DEFINE checks == <<
    <<~d.formed, "invalid_decision_record">>,
    <<~c.formed, "invalid_candidate_record">>,
    <<d.candidate # c.id, "candidate_id_mismatch">>,
    <<d.decision # "accepted", "decision_not_accepted">>,
    <<d.reason \notin AcceptReasons, "unsupported_accept_reason">>,
    <<c.amount # d.amount, "amount_mismatch">>,
    <<batch = NoText, "invalid_batch_id">>,
    <<index < 0, "invalid_recipient_index">>,
    <<at = 0, "invalid_now_iso">>,
    <<c.address = NoText, "invalid_recipient_address">>,
    <<c.amount <= 0, "invalid_amount">> >>
<1>1. DOMAIN checks = 1 .. 11 /\ FirstRefusal(checks) = None
  BY DEF IntentRefusal
<1>2. \A i \in DOMAIN checks : checks[i][2] # None
  BY <1>1 DEF None
<1>3. \A i \in 1 .. 11 : ~checks[i][1]
  <2> HIDE DEF checks
  <2> QED
    BY <1>1, <1>2, NothingRefused
<1>4. ~checks[3][1] /\ ~checks[4][1] /\ ~checks[6][1] /\ ~checks[8][1] /\ ~checks[10][1]
  <2> HIDE DEF checks
  <2> QED
    BY <1>3
<1> QED
  BY <1>4

LEMMA BatchTaken ==
  ASSUME NEW state, NEW b, DOMAIN b.recipients \subseteq Nat, IntakeRefusal(state, b) = None,
         NEW i \in DOMAIN b.recipients
  PROVE  /\ b.recipients[i].address # NoText
         /\ state[KeyOf(b.id, b.recipients[i].address)] # NoEntry
<1>1. BatchRefusal(b) = None
  BY DEF IntakeRefusal
<1>2. b.recipients[i].address # NoText
  <2> DEFINE checks == <<
      <<b.id = NoText \/ b.index < 0 \/ b.recipients = <<>> \/ b.total <= 0, "invalid_batch">>,
      <<b.size # Len(b.recipients), "invalid_batch">>,
      <<Total(b.recipients) # b.total, "invalid_batch">>,
      <<\E j \in DOMAIN b.recipients :
          b.recipients[j].address = NoText \/ b.recipients[j].amount <= 0,
        "invalid_recipient">> >>
  <2>1. DOMAIN checks = 1 .. 4 /\ FirstRefusal(checks) = None
    BY <1>1 DEF BatchRefusal
  <2>2. \A j \in DOMAIN checks : checks[j][2] # None
    BY <2>1 DEF None
  <2>3. ~checks[4][1]
    <3> HIDE DEF checks
    <3> QED
      BY <2>1, <2>2, NothingRefused
  <2> QED
    BY <2>3
<1>3. RecipientRefusal(state, b, b.recipients[i]) = None
  <2> DEFINE checks == [j \in DOMAIN b.recipients |->
                          Refused(RecipientRefusal(state, b, b.recipients[j]))]
  <2>1. FirstRefusal(checks) = None /\ DOMAIN checks = DOMAIN b.recipients
    BY <1>1 DEF IntakeRefusal
  <2>2. \A j \in DOMAIN checks : checks[j][1] => checks[j][2] # None
    BY DEF Refused
  <2>3. ~checks[i][1]
    <3> HIDE DEF checks
    <3> QED
      BY <2>1, <2>2, NothingRefused
  <2> QED
    BY <2>3 DEF Refused
<1> QED
  BY <1>2, <1>3 DEF RecipientRefusal, None

LEMMA TransitionAccepted ==
  ASSUME NEW key, NEW e, NEW at, NEW halted, NEW outcome, NEW operators, NEW providers,
         NEW fees, NEW offset,
         TransitionRefusal(key, e, at, halted, outcome, operators, providers, fees, offset)
           = None
  PROVE  Fresh(e) /\ outcome \in Supported
<1> DEFINE checks == <<
      <<~Fresh(e) \/ KeyOf(e.batch, e.recipient) # key \/ e.amount <= 0, "invalid_planned_entry">>,
      <<at = 0, "invalid_now_iso">>,
      <<halted, "administrative_halt_active">>,
      <<outcome \notin Supported, "unsupported_retry_disposition">>,
      Refused(OperatorRefusal(operators, outcome)),
      Refused(ProviderRefusal(providers)),
      Refused(FeeRefusal(fees, offset)) >>
<1>1. DOMAIN checks = 1 .. 7 /\ FirstRefusal(checks) = None
  BY DEF TransitionRefusal
<1>2. \A i \in DOMAIN checks : checks[i][1] => checks[i][2] # None
  <2>1. \A i \in 1 .. 4 : checks[i][2] # None
    BY DEF None
  <2>2. \A i \in 5 .. 7 : \E r : checks[i] = Refused(r)
    OBVIOUS
  <2>3. \A r : Refused(r)[1] => Refused(r)[2] # None
    BY DEF Refused
  <2> HIDE DEF checks
  <2> QED
    BY <1>1, <2>1, <2>2, <2>3
<1>3. ~checks[1][1] /\ ~checks[4][1]
  <2> HIDE DEF checks
  <2> QED
    BY <1>1, <1>2, NothingRefused
<1> QED
  BY <1>3

\* Only a key without an entry is planned to be inserted under.
LEMMA InsertsIntoVoid ==
  ASSUME NEW state, NEW intent, PlanApply(state, intent) = "insert_entry"
  PROVE  state[intent.key] = NoEntry
<1> DEFINE old == state[intent.key]
           misfits == <<
      <<intent.key # KeyOf(intent.entry.batch, intent.entry.recipient), "state_key_mismatch">>,
      <<~Fresh(intent.entry) \/ intent.entry.attempts # 0, "intent_entry_mismatch">> >>
           conflicts == <<
      <<old.status \in Terminal, "terminal_existing_entry">>,
      <<old.status \in Active, "active_existing_entry">>,
      <<TRUE, "existing_entry_conflict">> >>
<1>1. FirstRefusal(misfits) # "insert_entry"
  <2>1. DOMAIN misfits = 1 .. 2 /\ \A i \in DOMAIN misfits : misfits[i][2] # "insert_entry"
    OBVIOUS
  <2> HIDE DEF misfits
  <2> QED
    BY <2>1, FirstRefusalIs DEF None
<1>2. FirstRefusal(conflicts) # "insert_entry"
  <2>1. DOMAIN conflicts = 1 .. 3 /\ \A i \in DOMAIN conflicts : conflicts[i][2] # "insert_entry"
    OBVIOUS
  <2> HIDE DEF conflicts
  <2> QED
    BY <2>1, FirstRefusalIs DEF None
<1>3. IntentMisfit(intent) = FirstRefusal(misfits)
  BY DEF IntentMisfit
<1>4. \/ PlanApply(state, intent) = FirstRefusal(misfits)
      \/ old = NoEntry
      \/ PlanApply(state, intent) = "skip_identical_existing"
      \/ PlanApply(state, intent) = FirstRefusal(conflicts)
  BY <1>3 DEF PlanApply
<1> QED
  <2> HIDE DEF misfits, conflicts
  <2> QED
    BY <1>1, <1>2, <1>4

-----------------------------------------------------------------------------
(* The pipeline *)

\* An entry under key k is for an accepted decision and its candidate.
DecidedAs(k, e) ==
  /\ e.decision.decision = "accepted" /\ e.decision.amount = e.amount
  /\ \E c \in Candidates :
       /\ c.id = e.decision.candidate /\ c.amount = e.amount
       /\ KeyOf(e.batch, c.address) = k

\* The dispatcher names an operator with the first attempt.
Unattempted(e) == e.operator = NoText => e.attempts = 0

\* What the workers pass on and the run state holds was decided as well.
CarriedInv ==
  /\ \A k \in Keys : entries[k] # NoEntry => DecidedAs(k, entries[k]) /\ Unattempted(entries[k])
  /\ \A w \in Worker : worker[w].step # "idle" =>
       LET intent == worker[w].intent
       IN /\ DecidedAs(intent.key, intent.entry)
          /\ worker[w].step # "ready" => Unattempted(intent.entry)
          /\ worker[w].step = "ready" => intent.entry.attempts = 1

ExposedInv == \A x \in exposed : DecidedAs(x.key, x.entry) /\ x.entry.attempts = 1

StageInv == PipelineTypeOK /\ CarriedInv /\ ExposedInv

Steps == {"built", "planned", "applied", "taken", "ready"}

LEMMA EntryIsSome == NoEntry \notin Entry
BY DEF NoEntry, Entry, Status

\* A worker takes up an intent, or goes back to the start.
LEMMA WorkerGoes ==
  ASSUME StageInv, NEW w \in Worker, NEW step \in Steps, NEW intent \in Held,
         Goes(w, [step |-> step, intent |-> intent]),
         DecidedAs(intent.key, intent.entry),
         step # "ready" => Unattempted(intent.entry),
         step = "ready" => intent.entry.attempts = 1,
         UNCHANGED <<halt, exposed>>,
         entries' \in [Keys -> Entry \cup {NoEntry}],
         \A k \in Keys : entries'[k] # NoEntry =>
           DecidedAs(k, entries'[k]) /\ Unattempted(entries'[k]),
         calls' \in 0 .. MaxCalls, faults' \in 0 .. MaxFaults
  PROVE  StageInv'
<1> USE DEF StageInv
<1>1. PipelineTypeOK'
  <2> DEFINE doing == [step |-> step, intent |-> intent]
  <2>1. worker' = [worker EXCEPT ![w] = doing]
    BY DEF Goes
  <2>2. doing \in [step : Steps, intent : Held]
    OBVIOUS
  <2> HIDE DEF doing
  <2> QED
    BY <2>1, <2>2 DEF PipelineTypeOK, Steps
<1>2. /\ worker'[w] = [step |-> step, intent |-> intent]
      /\ \A v \in Worker : v # w => worker'[v] = worker[v]
  BY DEF PipelineTypeOK, Goes
<1>3. CarriedInv'
  <2>1. ASSUME NEW v \in Worker, v # w PROVE worker'[v] = worker[v]
    BY <1>2, <2>1
  <2>2. worker'[w].step = step /\ worker'[w].intent = intent
    BY <1>2
  <2> HIDE DEF PipelineTypeOK, ExposedInv
  <2>3. ASSUME NEW v \in Worker, worker'[v].step # "idle"
        PROVE  LET i == worker'[v].intent
               IN /\ DecidedAs(i.key, i.entry)
                  /\ worker'[v].step # "ready" => Unattempted(i.entry)
                  /\ worker'[v].step = "ready" => i.entry.attempts = 1
    <3>1. CASE v = w
      BY <2>2, <2>3, <3>1
    <3>2. CASE v # w
      BY <2>1, <2>3, <3>2 DEF CarriedInv
    <3> QED
      BY <3>1, <3>2
  <2> QED
    BY <2>3 DEF CarriedInv, DecidedAs, KeyOf, Unattempted
<1>4. ExposedInv'
  BY DEF ExposedInv, DecidedAs, KeyOf
<1> QED
  BY <1>1, <1>3, <1>4

LEMMA WorkerStops ==
  ASSUME StageInv, NEW w \in Worker, Goes(w, Idle), UNCHANGED halt,
         exposed' \subseteq Held, ExposedInv',
         entries' \in [Keys -> Entry \cup {NoEntry}],
         \A k \in Keys : entries'[k] # NoEntry =>
           DecidedAs(k, entries'[k]) /\ Unattempted(entries'[k]),
         calls' \in 0 .. MaxCalls, faults' \in 0 .. MaxFaults
  PROVE  StageInv'
<1> USE DEF StageInv
<1>1. PipelineTypeOK'
  BY DEF PipelineTypeOK, Goes
<1>2. /\ worker'[w].step = "idle"
      /\ \A v \in Worker : v # w => worker'[v] = worker[v]
  BY DEF PipelineTypeOK, Goes, Idle
<1>3. CarriedInv'
  BY <1>2 DEF CarriedInv, Unattempted, DecidedAs, KeyOf
<1> QED
  BY <1>1, <1>3

\* An intent that is inserted leaves every key that had an entry alone.
LEMMA InsertionOnly ==
  ASSUME StageInv, NEW intent \in Held, DecidedAs(intent.key, intent.entry),
         Unattempted(intent.entry),
         \/ entries' = entries
         \/ /\ PlanApply(entries, intent) = "insert_entry"
            /\ entries' = [entries EXCEPT ![intent.key] = intent.entry]
  PROVE  /\ entries' \in [Keys -> Entry \cup {NoEntry}]
         /\ \A k \in Keys : entries'[k] # NoEntry =>
              DecidedAs(k, entries'[k]) /\ Unattempted(entries'[k])
         /\ \A k \in Keys : entries[k] # NoEntry => entries'[k] = entries[k]
<1> USE DEF StageInv
<1>1. intent.key \in Keys /\ intent.entry \in Entry
  BY DEF Held
<1>2. CASE entries' = entries
  BY <1>2 DEF PipelineTypeOK, CarriedInv
<1>3. CASE /\ PlanApply(entries, intent) = "insert_entry"
           /\ entries' = [entries EXCEPT ![intent.key] = intent.entry]
  <2>1. entries[intent.key] = NoEntry
    BY <1>3, InsertsIntoVoid
  <2>2. /\ entries'[intent.key] = intent.entry
        /\ \A k \in Keys : k # intent.key => entries'[k] = entries[k]
    BY <1>1, <1>3 DEF PipelineTypeOK
  <2> QED
    BY <1>1, <1>3, <2>1, <2>2 DEF PipelineTypeOK, CarriedInv
<1> QED
  BY <1>2, <1>3

\* What a worker holds after its first step.
LEMMA IntentHeld ==
  ASSUME StageInv, NEW w \in Worker, worker[w].step \in Steps
  PROVE  /\ worker[w].intent \in Held
         /\ DecidedAs(worker[w].intent.key, worker[w].intent.entry)
         /\ worker[w].step # "ready" => Unattempted(worker[w].intent.entry)
         /\ worker[w].step = "ready" => worker[w].intent.entry.attempts = 1
<1>1. worker[w].step # "idle"
  BY DEF Steps
<1>2. worker[w].intent \in Held
  BY <1>1 DEF StageInv, PipelineTypeOK, Idle
<1> QED
  BY <1>1, <1>2 DEF StageInv, CarriedInv

\* The entries as they are, when they are not written.
LEMMA EntriesStay ==
  ASSUME StageInv
  PROVE  /\ entries \in [Keys -> Entry \cup {NoEntry}]
         /\ \A k \in Keys : entries[k] # NoEntry =>
              DecidedAs(k, entries[k]) /\ Unattempted(entries[k])
         /\ calls \in 0 .. MaxCalls /\ faults \in 0 .. MaxFaults
         /\ exposed \subseteq Held /\ ExposedInv
BY DEF StageInv, PipelineTypeOK, CarriedInv

LEMMA BuildStep ==
  ASSUME StageInv, NEW w \in Worker, NEW d \in Decisions, NEW c \in Candidates, NEW b \in Batches,
         NEW index \in {-1, 0}, NEW at \in Time, Build(w, d, c, b.id, index, at)
  PROVE  StageInv'
<1> DEFINE intent == Intent(d, c, b.id, index, at)
<1>1. IntentRefusal(d, c, b.id, index, at) = None
  BY DEF Build
<1>2. /\ d.candidate = c.id /\ d.decision = "accepted" /\ c.amount = d.amount
      /\ index = 0 /\ c.address # NoText
  BY <1>1, IntentAccepted
<1>3. c.address \in Spelling
  BY <1>2, PipelineAssumption
<1>4. /\ intent.key = KeyOf(b.id, c.address) /\ intent.entry = PlannedEntry(d, c, b.id, index, at)
      /\ intent \in Held
  BY <1>2, <1>3 DEF Intent, PlannedEntry, Held, Keys, Entry, Amounts, Status
<1>5. DecidedAs(intent.key, intent.entry) /\ Unattempted(intent.entry)
  BY <1>2, <1>4 DEF DecidedAs, Unattempted, PlannedEntry
<1>6. calls' \in 0 .. MaxCalls
  BY PipelineAssumption, EntriesStay DEF Build
<1> HIDE DEF intent
<1> QED
  BY <1>4, <1>5, <1>6, WorkerGoes, EntriesStay DEF Build, Steps, intent

LEMMA PlanStep ==
  ASSUME StageInv, NEW w \in Worker, PlanFromRead(w)
  PROVE  StageInv'
<1> DEFINE intent == worker[w].intent
<1>1. /\ worker[w].step = "built" /\ UNCHANGED <<entries, halt, exposed, calls, faults>>
      /\ \/ Goes(w, [step |-> "planned", intent |-> intent])
         \/ Goes(w, [step |-> "applied", intent |-> intent])
         \/ Goes(w, Idle)
  BY DEF PlanFromRead
<1>2. /\ intent \in Held /\ DecidedAs(intent.key, intent.entry) /\ Unattempted(intent.entry)
  BY <1>1, IntentHeld DEF Steps
<1>3. ExposedInv'
  BY <1>1, EntriesStay DEF ExposedInv, DecidedAs, KeyOf
<1> HIDE DEF intent
<1> QED
  BY <1>1, <1>2, <1>3, WorkerGoes, WorkerStops, EntriesStay DEF Steps

LEMMA InsertStep ==
  ASSUME StageInv, NEW w \in Worker, Insert(w) \/ WriteFails(w)
  PROVE  StageInv' /\ \A k \in Keys : entries[k] # NoEntry => entries'[k] = entries[k]
<1> DEFINE intent == worker[w].intent
<1>1. /\ worker[w].step = "planned" /\ UNCHANGED <<halt, exposed, calls>>
      /\ Goes(w, [step |-> "applied", intent |-> intent]) \/ Goes(w, Idle)
      /\ \/ entries' = entries
         \/ /\ PlanApply(entries, intent) = "insert_entry"
            /\ entries' = [entries EXCEPT ![intent.key] = intent.entry]
  BY DEF Insert, WriteFails
<1>2. /\ intent \in Held /\ DecidedAs(intent.key, intent.entry) /\ Unattempted(intent.entry)
  BY <1>1, IntentHeld DEF Steps
<1>3. ExposedInv' /\ faults' \in 0 .. MaxFaults
  <2>1. ExposedInv'
    BY <1>1, EntriesStay DEF ExposedInv, DecidedAs, KeyOf
  <2>2. faults' \in 0 .. MaxFaults
    BY PipelineAssumption, EntriesStay DEF Insert, WriteFails, Fault
  <2> QED
    BY <2>1, <2>2
<1> HIDE DEF intent
<1>4. /\ entries' \in [Keys -> Entry \cup {NoEntry}]
      /\ \A k \in Keys : entries'[k] # NoEntry =>
           DecidedAs(k, entries'[k]) /\ Unattempted(entries'[k])
      /\ \A k \in Keys : entries[k] # NoEntry => entries'[k] = entries[k]
  BY <1>1, <1>2, InsertionOnly
<1> QED
  BY <1>1, <1>2, <1>3, <1>4, WorkerGoes, WorkerStops, EntriesStay DEF Steps

LEMMA TakeInStep ==
  ASSUME StageInv, NEW w \in Worker, NEW b \in Batches, TakeIn(w, b)
  PROVE  StageInv'
<1>1. PICK i \in DOMAIN b.recipients :
        Goes(w, [step |-> "taken",
                 intent |-> [key |-> KeyOf(b.id, b.recipients[i].address),
                             entry |-> entries[KeyOf(b.id, b.recipients[i].address)]]])
  BY DEF TakeIn
<1> DEFINE key == KeyOf(b.id, b.recipients[i].address)
           intent == [key |-> key, entry |-> entries[key]]
<1>2. b.recipients[i].address # NoText /\ entries[key] # NoEntry
  BY PipelineAssumption, BatchTaken DEF TakeIn
<1>3. key \in Keys
  BY <1>2, PipelineAssumption DEF Keys
<1> HIDE DEF key
<1>4. entries[key] \in Entry /\ DecidedAs(key, entries[key]) /\ Unattempted(entries[key])
  BY <1>2, <1>3, EntriesStay
<1>5. /\ intent \in Held /\ intent.key = key /\ intent.entry = entries[key]
  BY <1>3, <1>4 DEF Held
<1>6. Goes(w, [step |-> "taken", intent |-> intent])
  BY <1>1 DEF key
<1> HIDE DEF intent
<1> QED
  BY <1>4, <1>5, <1>6, WorkerGoes, EntriesStay DEF Steps, TakeIn

LEMMA TransitStep ==
  ASSUME StageInv, NEW w \in Worker, NEW at \in Time, NEW outcome \in Dispositions,
         NEW operators \in OperatorPolicies, NEW providers \in ProviderPolicies,
         NEW fees \in Fees, Transit(w, at, outcome, operators, providers, fees)
  PROVE  StageInv'
<1> DEFINE key == worker[w].intent.key
           e   == worker[w].intent.entry
<1>1. PICK offset \in TierOffsets(fees) :
        /\ TransitionRefusal(key, e, at, halt, outcome, operators, providers, fees, offset)
             = None
        /\ \E o \in Selectable(operators, outcome) :
             Goes(w, [step |-> "ready", intent |->
                        [key |-> key, entry |-> SubmittedEntry(e, o, outcome)]])
  BY DEF Transit
<1>2. PICK o \in Selectable(operators, outcome) :
        Goes(w, [step |-> "ready", intent |->
                   [key |-> key, entry |-> SubmittedEntry(e, o, outcome)]])
  BY <1>1
<1>3. Fresh(e) /\ outcome \in Supported
  BY <1>1, TransitionAccepted
<1>4. /\ worker[w].intent \in Held /\ DecidedAs(key, e) /\ Unattempted(e)
  BY IntentHeld DEF Transit, Steps
<1>5. key \in Keys /\ e \in Entry /\ e.attempts = 0
  BY <1>3, <1>4 DEF Held, Fresh, Unattempted
<1>6. o \in Operators
  <2>1. o \in DOMAIN operators.status
    BY <1>3 DEF Selectable, ActiveIn, Supported
  <2> QED
    BY <2>1 DEF Operators
<1> DEFINE submitted == SubmittedEntry(e, o, outcome)
<1>7. /\ submitted \in Entry /\ submitted.attempts = 1 /\ submitted.decision = e.decision
      /\ submitted.amount = e.amount /\ submitted.batch = e.batch
  <2> DEFINE n == e.attempts + 1
  <2>1. submitted = [e EXCEPT !.status = "submitted", !.attempts = n,
                              !.operator = o, !.last = outcome]
    BY DEF SubmittedEntry
  <2>2. "submitted" \in Status /\ n \in Nat /\ n = 1
    BY <1>5 DEF Status
  <2> HIDE DEF submitted, e, n
  <2> QED
    BY <1>3, <1>5, <1>6, <2>1, <2>2 DEF Entry
<1> HIDE DEF submitted
<1> DEFINE intent == [key |-> key, entry |-> submitted]
<1>8. intent \in Held /\ intent.key = key /\ intent.entry = submitted
  BY <1>5, <1>7 DEF Held
<1>9. DecidedAs(key, submitted)
  BY <1>4, <1>7 DEF DecidedAs
<1>10. Goes(w, [step |-> "ready", intent |-> intent])
  BY <1>2 DEF submitted
<1> HIDE DEF intent, key
<1> QED
  BY <1>7, <1>8, <1>9, <1>10, WorkerGoes, EntriesStay DEF Steps, Transit

LEMMA ExposeStep ==
  ASSUME StageInv, NEW w \in Worker, Expose(w)
  PROVE  StageInv'
<1> DEFINE intent == worker[w].intent
<1>1. /\ worker[w].step = "ready" /\ exposed' = exposed \cup {intent} /\ Goes(w, Idle)
      /\ UNCHANGED <<entries, halt, calls, faults>>
  BY DEF Expose
<1>2. intent \in Held /\ DecidedAs(intent.key, intent.entry) /\ intent.entry.attempts = 1
  BY <1>1, IntentHeld DEF Steps
<1>3. exposed' \subseteq Held /\ ExposedInv'
  BY <1>1, <1>2, EntriesStay DEF ExposedInv, DecidedAs, KeyOf
<1> QED
  BY <1>1, <1>3, WorkerStops, EntriesStay

\* A worker that gives up writes nothing.
LEMMA StopStep ==
  ASSUME StageInv, NEW w \in Worker, Turned(w) \/ ReadFails(w)
  PROVE  StageInv'
<1>1. Goes(w, Idle) /\ UNCHANGED <<entries, halt, exposed, calls>>
  BY DEF Turned, Refuse, ReadFails
<1>2. faults' \in 0 .. MaxFaults
  BY PipelineAssumption, EntriesStay DEF Turned, Refuse, ReadFails, Fault
<1>3. ExposedInv'
  BY <1>1, EntriesStay DEF ExposedInv, DecidedAs, KeyOf
<1> QED
  BY <1>1, <1>2, <1>3, WorkerStops, EntriesStay

\* The dispatcher keeps what an entry was planned as.
LEMMA EngineStep ==
  ASSUME StageInv, NEW k \in Keys, NEW s \in Status, EngineMoves(k, s)
  PROVE  /\ StageInv'
         /\ \A j \in Keys : entries[j] # NoEntry =>
              entries'[j] # NoEntry /\ Provenance(entries'[j]) = Provenance(entries[j])
<1> DEFINE e == entries[k]
           moved == EngineEntry(e, s)
<1>1. e \in Entry /\ DecidedAs(k, e)
  BY EntriesStay DEF EngineMoves
<1>2. entries' = [entries EXCEPT ![k] = moved]
  BY DEF EngineMoves
<1>3. /\ moved \in Entry /\ moved.decision = e.decision /\ moved.amount = e.amount
      /\ moved.batch = e.batch /\ moved.recipient = e.recipient /\ moved.created = e.created
      /\ moved.operator = "engine"
  <2>1. e.attempts \in Nat /\ e.last \in Supported \cup {NoText}
    BY <1>1 DEF Entry
  <2> DEFINE n == IF s = "submitted" THEN e.attempts + 1 ELSE e.attempts
             l == IF s = "planned" THEN "retry_same_identity" ELSE e.last
  <2>2. n \in Nat /\ l \in Supported \cup {NoText}
    BY <2>1 DEF Supported
  <2>3. moved = [e EXCEPT !.status = s, !.operator = "engine", !.attempts = n, !.last = l]
    BY DEF EngineEntry
  <2> HIDE DEF n, l, e, moved
  <2> QED
    BY <1>1, <2>2, <2>3 DEF Entry
<1>4. DecidedAs(k, moved) /\ Unattempted(moved)
  BY <1>1, <1>3 DEF DecidedAs, Unattempted, NoText
<1>5. moved # NoEntry /\ Provenance(moved) = Provenance(e)
  BY <1>3, EntryIsSome DEF Provenance
<1> HIDE DEF e, moved
<1>6. /\ entries'[k] = moved /\ \A j \in Keys : j # k => entries'[j] = entries[j]
      /\ entries' \in [Keys -> Entry \cup {NoEntry}]
  BY <1>2, <1>3 DEF StageInv, PipelineTypeOK
<1>7. \A j \in Keys : entries[j] # NoEntry =>
        entries'[j] # NoEntry /\ Provenance(entries'[j]) = Provenance(entries[j])
  BY <1>5, <1>6 DEF e
<1>8. \A j \in Keys : entries'[j] # NoEntry =>
        DecidedAs(j, entries'[j]) /\ Unattempted(entries'[j])
  BY <1>4, <1>6, EntriesStay
<1>9. UNCHANGED <<halt, worker, exposed, calls>> /\ faults' \in 0 .. MaxFaults
  BY PipelineAssumption, EntriesStay DEF EngineMoves, Fault
<1>10. PipelineTypeOK'
  BY <1>6, <1>9 DEF StageInv, PipelineTypeOK
<1>11. CarriedInv' /\ ExposedInv'
  BY <1>8, <1>9 DEF StageInv, CarriedInv, ExposedInv, DecidedAs, Unattempted, KeyOf
<1> QED
  BY <1>7, <1>10, <1>11 DEF StageInv

LEMMA HaltStep ==
  ASSUME StageInv, NEW on \in BOOLEAN, SetHalt(on)
  PROVE  StageInv'
<1>1. /\ UNCHANGED <<entries, worker, exposed, calls>>
      /\ halt' \in BOOLEAN /\ faults' \in 0 .. MaxFaults
  BY PipelineAssumption, EntriesStay DEF SetHalt, Fault
<1> QED
  BY <1>1 DEF StageInv, PipelineTypeOK, CarriedInv, ExposedInv, DecidedAs, Unattempted, KeyOf

LEMMA StageStep ==
  ASSUME StageInv, [Next]_vars
  PROVE  /\ StageInv'
         /\ \A k \in Keys : entries[k] # NoEntry =>
              entries'[k] # NoEntry /\ Provenance(entries'[k]) = Provenance(entries[k])
<1> DEFINE Kept == \A k \in Keys : entries[k] # NoEntry =>
                     entries'[k] # NoEntry /\ Provenance(entries'[k]) = Provenance(entries[k])
<1>1. ASSUME NEW w \in Worker, Works(w) PROVE StageInv' /\ Kept
  <2>1. ASSUME NEW d \in Decisions, NEW c \in Candidates, NEW b \in Batches,
               NEW index \in {-1, 0}, NEW at \in Time, Build(w, d, c, b.id, index, at)
        PROVE  StageInv' /\ Kept
    BY <2>1, BuildStep DEF Build
  <2>2. CASE PlanFromRead(w)
    BY <2>2, PlanStep DEF PlanFromRead
  <2>3. CASE Insert(w) \/ WriteFails(w)
    BY <2>3, InsertStep
  <2>4. CASE Turned(w) \/ ReadFails(w)
    BY <2>4, StopStep DEF Turned, Refuse, ReadFails
  <2>5. ASSUME NEW b \in Batches, TakeIn(w, b) PROVE StageInv' /\ Kept
    BY <2>5, TakeInStep DEF TakeIn
  <2>6. ASSUME NEW at \in Time, NEW outcome \in Dispositions,
               NEW operators \in OperatorPolicies, NEW providers \in ProviderPolicies,
               NEW fees \in Fees, Transit(w, at, outcome, operators, providers, fees)
        PROVE  StageInv' /\ Kept
    BY <2>6, TransitStep DEF Transit
  <2>7. CASE Expose(w)
    BY <2>7, ExposeStep DEF Expose
  <2> QED
    BY <1>1, <2>1, <2>2, <2>3, <2>4, <2>5, <2>6, <2>7 DEF Works
<1>2. ASSUME NEW on \in BOOLEAN, SetHalt(on) PROVE StageInv' /\ Kept
  BY <1>2, HaltStep DEF SetHalt
<1>3. ASSUME NEW k \in Keys, NEW s \in Status, EngineMoves(k, s) PROVE StageInv' /\ Kept
  BY <1>3, EngineStep
<1>4. CASE UNCHANGED vars
  BY <1>4 DEF vars, StageInv, PipelineTypeOK, CarriedInv, ExposedInv, DecidedAs, Unattempted,
    KeyOf
<1> QED
  BY <1>1, <1>2, <1>3, <1>4 DEF Next

LEMMA StageStart == Init => StageInv
<1> SUFFICES ASSUME Init PROVE StageInv
  OBVIOUS
<1>1. PipelineTypeOK
  <2>1. entries \in [Keys -> Entry \cup {NoEntry}]
    BY DEF Init
  <2>2. worker \in [Worker -> {Idle}] /\ halt \in BOOLEAN /\ exposed = {}
    BY DEF Init
  <2>3. calls \in 0 .. MaxCalls /\ faults \in 0 .. MaxFaults
    BY PipelineAssumption DEF Init
  <2> QED
    BY <2>1, <2>2, <2>3 DEF PipelineTypeOK
<1>2. CarriedInv /\ ExposedInv
  BY DEF Init, Idle, CarriedInv, ExposedInv
<1> QED
  BY <1>1, <1>2 DEF StageInv

\* The other stages leave the pipeline alone.
LEMMA StagesRunPipeline == StagesInit => Init
BY DEF StagesInit

LEMMA StagesStep == [StagesNext]_<<vars, shellVars, call, answer>> => [Next]_vars
BY DEF StagesNext

-----------------------------------------------------------------------------
(* The properties *)

\* Whatever workers, addresses, decisions and policies there are, and whatever the
\* dispatcher does between the steps, only what was decided is exposed, as its first attempt.
THEOREM OnlyDecidedIsExposed == StagesSpec => []PipelineInv
<1>1. StageInv => PipelineInv
  BY DEF StageInv, PipelineInv, ExposedAsDecided, ExposedInv, DecidedAs
<1>2. StagesInit => StageInv
  BY StageStart, StagesRunPipeline
<1>3. StageInv /\ [StagesNext]_<<vars, shellVars, call, answer>> => StageInv'
  BY StagesStep, StageStep
<1> QED
  BY <1>1, <1>2, <1>3, PTL DEF StagesSpec

\* Two workers that planned under one key do not overwrite each other, and the dispatcher
\* keeps what an entry was planned as.
THEOREM EntriesKeepProvenance == StagesSpec => NeverReplaces
<1>1. StagesInit => StageInv
  BY StageStart, StagesRunPipeline
<1>2. StageInv /\ [StagesNext]_<<vars, shellVars, call, answer>> => StageInv'
  BY StagesStep, StageStep
<1>3. StageInv /\ [StagesNext]_<<vars, shellVars, call, answer>> =>
        [\A k \in Keys : entries[k] # NoEntry =>
           entries'[k] # NoEntry /\ Provenance(entries'[k]) = Provenance(entries[k])]_vars
  BY StagesStep, StageStep
<1> QED
  BY <1>1, <1>2, <1>3, PTL DEF StagesSpec, NeverReplaces

-----------------------------------------------------------------------------
(* The locks of the file shells *)

LEMMA LockRecordReasons ==
  ASSUME NEW lock
  PROVE  LockRecordRefusal(lock) \in
           {None, "empty_lock_id", "empty_owner_id", "invalid_acquired_at_ms",
            "invalid_expires_at_ms", "invalid_lock_time_range"}
<1> DEFINE checks == <<
      <<lock.lockId = NoText, "empty_lock_id">>,
      <<lock.ownerId = NoText, "empty_owner_id">>,
      <<lock.acquiredAtMs < 0, "invalid_acquired_at_ms">>,
      <<lock.expiresAtMs < 0, "invalid_expires_at_ms">>,
      <<lock.expiresAtMs <= lock.acquiredAtMs, "invalid_lock_time_range">> >>
           reasons == {"empty_lock_id", "empty_owner_id", "invalid_acquired_at_ms",
                       "invalid_expires_at_ms", "invalid_lock_time_range"}
<1>1. DOMAIN checks = 1 .. 5
  OBVIOUS
<1>3. \A i \in 1 .. 5 : checks[i][2] \in reasons
  OBVIOUS
<1>2. LockRecordRefusal(lock) = FirstRefusal(checks)
  BY DEF LockRecordRefusal, NoText
<1> HIDE DEF checks
<1> QED
  BY <1>1, <1>2, <1>3, FirstRefusalIs

\* An acquire is allowed without a lock, or over one that has expired.
LEMMA AcquireAllowed ==
  ASSUME NEW existing, NEW owner, NEW at,
         AcquireDecision(existing, owner, at) \in {"acquire_allowed", "stale_lock_recoverable"}
  PROVE  existing = <<>> \/ existing[1].expiresAtMs <= at
<1> DEFINE record == LockRecordRefusal(existing[1])
           checks == <<
      <<owner = NoText, "empty_owner_id">>,
      <<at < 0, "invalid_now_ms">>,
      <<existing = <<>>, "acquire_allowed">>,
      IF existing = <<>> THEN <<FALSE, None>> ELSE Refused(record),
      <<existing # <<>> /\ existing[1].expiresAtMs <= at, "stale_lock_recoverable">>,
      <<TRUE, "active_lock">> >>
           allowed == {"acquire_allowed", "stale_lock_recoverable"}
<1>1. AcquireDecision(existing, owner, at) = FirstRefusal(checks) /\ None \notin allowed
  BY DEF AcquireDecision, None, NoText
<1>2. DOMAIN checks = 1 .. 6
  OBVIOUS
<1>3. PICK i \in 1 .. 6 : checks[i][1] /\ checks[i][2] \in allowed
  <2> HIDE DEF checks
  <2> QED
    BY <1>1, <1>2, FirstRefusalIs
<1>4. checks[1][2] \notin allowed /\ checks[2][2] \notin allowed /\ checks[6][2] \notin allowed
  OBVIOUS
<1>5. checks[4][2] \notin allowed
  BY LockRecordReasons DEF Refused, None
<1>6. i = 3 \/ i = 5
  <2> HIDE DEF checks
  <2> QED
    BY <1>3, <1>4, <1>5
<1>7. checks[3][1] => existing = <<>>
  OBVIOUS
<1>8. checks[5][1] => existing[1].expiresAtMs <= at
  OBVIOUS
<1> QED
  <2> HIDE DEF checks
  <2> QED
    BY <1>3, <1>6, <1>7, <1>8

\* The owner of a lock may release it.
LEMMA OwnerReleases ==
  ASSUME NEW lock, LockRecordRefusal(lock) = None, lock.ownerId # NoText
  PROVE  ReleaseDecision(lock, lock.ownerId) = "release_allowed"
<1> DEFINE checks == <<
      <<lock.ownerId = NoText, "empty_owner_id">>,
      Refused(LockRecordRefusal(lock)),
      <<lock.ownerId # lock.ownerId, "release_owner_mismatch">>,
      <<TRUE, "release_allowed">> >>
<1>1. ReleaseDecision(lock, lock.ownerId) = FirstRefusal(checks)
  BY DEF ReleaseDecision, NoText
<1>2. DOMAIN checks = 1 .. 4
  OBVIOUS
<1>4. checks[4] = <<TRUE, "release_allowed">>
  OBVIOUS
<1>3. ~checks[1][1] /\ ~checks[2][1] /\ ~checks[3][1]
  BY DEF Refused
<1> HIDE DEF checks
<1>5. PICK i \in 1 .. 4 : checks[i][1] /\ FirstRefusal(checks) = checks[i][2]
  <2>1. checks[4][1] /\ 4 \in DOMAIN checks /\ DOMAIN checks \subseteq Nat
    BY <1>2, <1>4
  <2> QED
    BY <1>2, <2>1, FirstRefusalIs
<1>6. i = 4
  BY <1>3, <1>5
<1> QED
  BY <1>1, <1>4, <1>5, <1>6

\* A record that is accepted names its owner.
LEMMA OwnerNamed ==
  ASSUME NEW lock, LockRecordRefusal(lock) = None
  PROVE  lock.ownerId # NoText
<1> DEFINE checks == <<
      <<lock.lockId = NoText, "empty_lock_id">>,
      <<lock.ownerId = NoText, "empty_owner_id">>,
      <<lock.acquiredAtMs < 0, "invalid_acquired_at_ms">>,
      <<lock.expiresAtMs < 0, "invalid_expires_at_ms">>,
      <<lock.expiresAtMs <= lock.acquiredAtMs, "invalid_lock_time_range">> >>
<1>1. FirstRefusal(checks) = None
  BY DEF LockRecordRefusal, NoText
<1>4. DOMAIN checks = 1 .. 5
  OBVIOUS
<1>2. \A i \in DOMAIN checks : checks[i][2] # None
  BY <1>4 DEF None
<1>3. ~checks[2][1]
  <2> HIDE DEF checks
  <2> QED
    BY <1>1, <1>2, <1>4, NothingRefused
<1> QED
  BY <1>3

-----------------------------------------------------------------------------
(* The calls of the file shells *)

Shaped(s) ==
  \/ s = NoShell
  \/ /\ s.alone \in BOOLEAN /\ s.step \in {"open", "fill", "rename"}
     /\ s = [alone |-> s.alone, step |-> s.step, at |-> s.at, lock |-> s.lock, now |-> s.now]
  \/ /\ s.alone \in BOOLEAN /\ s.exists \in BOOLEAN
     /\ s = [alone |-> s.alone, step |-> "append", exists |-> s.exists]

FileOK(file) == file = NoFile \/ file = BlankFile \/ file = Holding(file.lock)

ShellTypeOK ==
  /\ shell = [c \in Caller |-> shell[c]] /\ \A c \in Caller : Shaped(shell[c])
  /\ FileOK(lockFile) /\ FileOK(tempFile)
  /\ csv \in Seq(Caller \cup {Header})

\* What is written begins with a header, also for a call that looked long ago.
RowsBegin ==
  /\ csv # <<>> => csv[1] = Header
  /\ \A c \in Caller : shell[c].step = "append" /\ shell[c].exists => csv # <<>>

\* What a call that is alone has seen is still so.
LoneAppend(c) ==
  shell[c].step = "append" => (shell[c].exists <=> csv # <<>>)

LoneAcquire(c) ==
  shell[c].step \in {"open", "fill", "rename"} =>
    /\ LockRecordRefusal(shell[c].lock) = None /\ shell[c].lock.ownerId = c
    /\ lockFile = NoFile \/ lockFile.lock.expiresAtMs <= shell[c].now
    /\ shell[c].step # "open" => shell[c].at = "temp"
    /\ shell[c].step = "rename" => tempFile = Holding(shell[c].lock)

LoneInv ==
  \A c \in Caller : shell[c].step # "idle" /\ shell[c].alone =>
    /\ \A d \in Caller : d # c => shell[d].step = "idle"
    /\ LoneAppend(c) /\ LoneAcquire(c)

ShellInv == ShellTypeOK /\ RowsBegin /\ LoneInv

\* A caller's call goes on or ends, on files that another that is alone does not see.
LEMMA CallMoves ==
  ASSUME ShellInv, NEW c \in Caller, shell[c].step # "idle", NEW record, Shaped(record),
         shell' = [shell EXCEPT ![c] = record],
         record.step = "idle" \/ record.alone = shell[c].alone,
         FileOK(lockFile'), FileOK(tempFile'), csv' \in Seq(Caller \cup {Header}),
         csv' # <<>> => csv'[1] = Header, csv # <<>> => csv' # <<>>,
         record.step = "append" /\ record.exists => csv' # <<>>,
         record.step # "idle" /\ record.alone => LoneAppend(c)' /\ LoneAcquire(c)'
  PROVE  ShellInv'
<1>1. /\ shell'[c] = record /\ \A d \in Caller : d # c => shell'[d] = shell[d]
      /\ shell' = [d \in Caller |-> shell'[d]]
  BY DEF ShellInv, ShellTypeOK
<1>2. ShellTypeOK'
  BY <1>1 DEF ShellInv, ShellTypeOK
<1>3. RowsBegin'
  BY <1>1 DEF ShellInv, RowsBegin
<1>4. LoneInv'
  <2> SUFFICES ASSUME NEW d \in Caller, shell'[d].step # "idle", shell'[d].alone
               PROVE  /\ \A e \in Caller : e # d => shell'[e].step = "idle"
                      /\ LoneAppend(d)' /\ LoneAcquire(d)'
    BY DEF LoneInv
  <2>1. d = c
    BY <1>1 DEF ShellInv, LoneInv
  <2>2. record.step # "idle" /\ record.alone /\ shell[c].alone
    BY <1>1, <2>1
  <2> QED
    BY <1>1, <2>1, <2>2 DEF ShellInv, LoneInv
<1> QED
  BY <1>2, <1>3, <1>4 DEF ShellInv

\* A call begins: when nobody else is in a call it is alone.
LEMMA CallBegins ==
  ASSUME ShellInv, NEW c \in Caller, NEW record, Shaped(record), Begins(c, record),
         record.step # "idle", record.alone = ~Overlaps(c),
         UNCHANGED <<lockFile, tempFile, csv>>,
         record.step = "append" /\ record.exists => csv # <<>>,
         LoneAppend(c)', LoneAcquire(c)'
  PROVE  ShellInv'
<1>1. /\ shell'[c] = record
      /\ \A d \in Caller : d # c =>
           shell'[d] = IF shell[d].step = "idle" THEN shell[d]
                       ELSE [shell[d] EXCEPT !.alone = FALSE]
      /\ shell' = [d \in Caller |-> shell'[d]]
  BY DEF Begins
<1>2. ASSUME NEW d \in Caller, d # c
      PROVE  /\ Shaped(shell'[d]) /\ shell'[d].step = shell[d].step
             /\ shell[d].step = "append" => shell'[d].exists = shell[d].exists
             /\ shell[d].step # "idle" => ~shell'[d].alone
  <2>1. Shaped(shell[d]) /\ shell'[d] = IF shell[d].step = "idle" THEN shell[d]
                                        ELSE [shell[d] EXCEPT !.alone = FALSE]
    BY <1>1, <1>2 DEF ShellInv, ShellTypeOK
  <2>2. CASE shell[d] = NoShell
    BY <2>1, <2>2 DEF NoShell
  <2>3. CASE /\ shell[d].step \in {"open", "fill", "rename"}
             /\ shell[d] = [alone |-> shell[d].alone, step |-> shell[d].step,
                            at |-> shell[d].at, lock |-> shell[d].lock, now |-> shell[d].now]
    <3>1. shell'[d] = [alone |-> FALSE, step |-> shell[d].step,
                       at |-> shell[d].at, lock |-> shell[d].lock, now |-> shell[d].now]
      BY <2>1, <2>3
    <3> QED
      BY <2>3, <3>1 DEF Shaped
  <2>4. CASE /\ shell[d].exists \in BOOLEAN
             /\ shell[d] = [alone |-> shell[d].alone, step |-> "append",
                            exists |-> shell[d].exists]
    <3>1. shell[d].step = "append"
      BY <2>4
    <3>2. shell'[d] = [alone |-> FALSE, step |-> "append", exists |-> shell[d].exists]
      BY <2>1, <2>4, <3>1
    <3> QED
      BY <2>4, <3>1, <3>2 DEF Shaped
  <2> QED
    BY <2>1, <2>2, <2>3, <2>4 DEF Shaped
<1>3. ShellTypeOK'
  BY <1>1, <1>2 DEF ShellInv, ShellTypeOK, FileOK
<1>4. RowsBegin'
  BY <1>1, <1>2 DEF ShellInv, RowsBegin
<1>5. LoneInv'
  BY <1>1, <1>2 DEF LoneInv, Overlaps
<1> QED
  BY <1>3, <1>4, <1>5 DEF ShellInv

LEMMA ReadLockStep ==
  ASSUME ShellInv, NEW c \in Caller, NEW span \in Span, ReadLock(c, span)
  PROVE  ShellInv'
<1> DEFINE request == RequestOf(c, span)
           record == [alone |-> ~Overlaps(c), step |-> "open", at |-> "none", lock |-> request,
                      now |-> clock]
<1>1. /\ MayWrite(request) /\ Begins(c, record) /\ UNCHANGED <<lockFile, tempFile, csv, clock>>
  BY DEF ReadLock
<1>2. shell'[c] = record
  BY <1>1 DEF Begins
<1>3. /\ record.alone = ~Overlaps(c) /\ record.step = "open" /\ record.lock = request
      /\ record.now = clock /\ Shaped(record)
  BY DEF Shaped
<1>4. lockFile = NoFile \/ lockFile.lock.expiresAtMs <= clock
  <2>1. lockFile.is # "blank" /\ FileOK(lockFile)
    BY <1>1 DEF MayWrite, ShellInv, ShellTypeOK
  <2>2. lockFile = NoFile \/ lockFile.is = "lock"
    BY <2>1 DEF FileOK, NoFile, BlankFile, Holding
  <2>3. Existing = <<>> \/ Existing[1].expiresAtMs <= clock
    BY <1>1, AcquireAllowed DEF MayWrite, Allows
  <2>4. lockFile.is = "lock" => Existing # <<>> /\ Existing[1] = lockFile.lock
    BY DEF Existing
  <2> QED
    BY <2>2, <2>3, <2>4
<1>5. request.ownerId = c /\ LockRecordRefusal(request) = None
  BY <1>1 DEF MayWrite, RequestOf
<1> HIDE DEF record, request
<1>6. LoneAppend(c)' /\ LoneAcquire(c)'
  BY <1>1, <1>2, <1>3, <1>4, <1>5 DEF LoneAppend, LoneAcquire
<1> QED
  BY <1>1, <1>3, <1>6, CallBegins

LEMMA LookStep ==
  ASSUME ShellInv, NEW c \in Caller, LookForFile(c)
  PROVE  ShellInv'
<1> DEFINE record == [alone |-> ~Overlaps(c), step |-> "append", exists |-> csv # <<>>]
<1>1. Begins(c, record) /\ UNCHANGED <<lockFile, tempFile, csv>>
  BY DEF LookForFile
<1>2. shell'[c] = record
  BY <1>1 DEF Begins
<1>3. /\ record.alone = ~Overlaps(c) /\ record.step = "append"
      /\ record.exists = (csv # <<>>) /\ Shaped(record)
  BY DEF Shaped
<1> HIDE DEF record
<1>4. LoneAppend(c)' /\ LoneAcquire(c)'
  BY <1>1, <1>2, <1>3 DEF LoneAppend, LoneAcquire
<1> QED
  BY <1>1, <1>3, <1>4, CallBegins

\* What a call holds before it renames.
LEMMA AcquiringShape ==
  ASSUME ShellInv, NEW c \in Caller, shell[c].step \in {"open", "fill", "rename"}
  PROVE  /\ shell[c].alone \in BOOLEAN
         /\ shell[c] = [alone |-> shell[c].alone, step |-> shell[c].step, at |-> shell[c].at,
                        lock |-> shell[c].lock, now |-> shell[c].now]
         /\ shell[c].alone => LoneAcquire(c)
BY DEF ShellInv, ShellTypeOK, Shaped, NoShell, LoneInv

LEMMA OpenStep ==
  ASSUME ShellInv, NEW c \in Caller, OpenTemp(c)
  PROVE  ShellInv'
<1> DEFINE s == shell[c]
           record == [alone |-> s.alone, step |-> "fill", at |-> "temp", lock |-> s.lock,
                      now |-> s.now]
<1>1. /\ s.step = "open" /\ tempFile' = BlankFile /\ UNCHANGED <<lockFile, csv>>
      /\ shell' = [shell EXCEPT ![c].step = "fill", ![c].at = "temp"]
  BY DEF OpenTemp
<1>2. /\ s.alone \in BOOLEAN
      /\ s = [alone |-> s.alone, step |-> s.step, at |-> s.at, lock |-> s.lock, now |-> s.now]
      /\ s.alone => LoneAcquire(c)
  BY <1>1, AcquiringShape
<1>3. shell' = [shell EXCEPT ![c] = record]
  <2>1. [s EXCEPT !.step = "fill", !.at = "temp"] = record
    <3> DEFINE once == [alone |-> s.alone, step |-> "fill", at |-> s.at, lock |-> s.lock,
                        now |-> s.now]
    <3>1. [s EXCEPT !.step = "fill"] = once
      BY <1>2
    <3>2. [once EXCEPT !.at = "temp"] = record
      OBVIOUS
    <3>3. [s EXCEPT !.step = "fill", !.at = "temp"]
            = [[s EXCEPT !.step = "fill"] EXCEPT !.at = "temp"]
      OBVIOUS
    <3> HIDE DEF once, s, record
    <3> QED
      BY <3>1, <3>2, <3>3
  <2> QED
    BY <1>1, <2>1 DEF ShellInv, ShellTypeOK
<1>4. /\ Shaped(record) /\ record.step = "fill" /\ record.alone = s.alone
      /\ record.lock = s.lock /\ record.now = s.now /\ record.at = "temp"
  BY <1>2 DEF Shaped
<1> HIDE DEF record
<1>5. shell'[c] = record
  BY <1>3 DEF ShellInv, ShellTypeOK
<1>6. record.alone => LoneAppend(c)' /\ LoneAcquire(c)'
  BY <1>1, <1>2, <1>4, <1>5 DEF LoneAppend, LoneAcquire
<1> QED
  BY <1>1, <1>3, <1>4, <1>6, CallMoves DEF FileOK, ShellInv, ShellTypeOK, RowsBegin

LEMMA FillStep ==
  ASSUME ShellInv, NEW c \in Caller, FillTemp(c)
  PROVE  ShellInv'
<1> DEFINE s == shell[c]
           record == [alone |-> s.alone, step |-> "rename", at |-> s.at, lock |-> s.lock,
                      now |-> s.now]
<1>1. /\ s.step = "fill" /\ UNCHANGED csv
      /\ tempFile' = (IF s.at = "temp" THEN Holding(s.lock) ELSE tempFile)
      /\ lockFile' = (IF s.at = "lock" THEN Holding(s.lock) ELSE lockFile)
      /\ shell' = [shell EXCEPT ![c].step = "rename"]
  BY DEF FillTemp
<1>2. /\ s.alone \in BOOLEAN
      /\ s = [alone |-> s.alone, step |-> s.step, at |-> s.at, lock |-> s.lock, now |-> s.now]
      /\ s.alone => LoneAcquire(c)
  BY <1>1, AcquiringShape
<1>3. shell' = [shell EXCEPT ![c] = record]
  <2>1. [s EXCEPT !.step = "rename"] = record
    BY <1>2
  <2> QED
    BY <1>1, <2>1 DEF ShellInv, ShellTypeOK
<1>4. /\ Shaped(record) /\ record.step = "rename" /\ record.alone = s.alone
      /\ record.lock = s.lock /\ record.now = s.now /\ record.at = s.at
  BY <1>2 DEF Shaped
<1>5. FileOK(lockFile') /\ FileOK(tempFile')
  BY <1>1 DEF ShellInv, ShellTypeOK, FileOK, Holding
<1> HIDE DEF record
<1>6. shell'[c] = record
  BY <1>3 DEF ShellInv, ShellTypeOK
<1>7. record.alone => LoneAppend(c)' /\ LoneAcquire(c)'
  BY <1>1, <1>2, <1>4, <1>6 DEF LoneAppend, LoneAcquire
<1> QED
  BY <1>1, <1>3, <1>4, <1>5, <1>7, CallMoves DEF ShellInv, ShellTypeOK, RowsBegin

\* A call that ends without a rename.
LEMMA EndStep ==
  ASSUME ShellInv, NEW c \in Caller, shell[c].step # "idle", Ends(c),
         UNCHANGED <<lockFile, tempFile>>, csv' \in Seq(Caller \cup {Header}),
         csv' # <<>> => csv'[1] = Header, csv # <<>> => csv' # <<>>
  PROVE  ShellInv'
<1>1. Shaped(NoShell) /\ NoShell.step = "idle"
  BY DEF Shaped, NoShell
<1> QED
  BY <1>1, CallMoves DEF Ends, ShellInv, ShellTypeOK

LEMMA AcquiresStep ==
  ASSUME ShellInv, NEW c \in Caller, Acquires(c)
  PROVE  ShellInv'
<1>1. /\ shell[c].step = "rename" /\ lockFile' = tempFile /\ tempFile' = NoFile /\ UNCHANGED csv
      /\ shell' = [d \in Caller |-> IF d = c THEN NoShell ELSE Moved(shell[d])]
  BY DEF Acquires
<1>2. ASSUME NEW d \in Caller, d # c
      PROVE  /\ Shaped(shell'[d]) /\ shell'[d].step = shell[d].step
             /\ shell[d].step = "append" => shell'[d] = shell[d]
             /\ shell[d].step # "idle" => shell'[d].alone = shell[d].alone
  <2>1. Shaped(shell[d]) /\ shell'[d] = Moved(shell[d])
    BY <1>1, <1>2 DEF ShellInv, ShellTypeOK
  <2>2. CASE shell[d].step = "fill"
    <3> DEFINE s == shell[d]
               to == IF s.at = "temp" THEN "lock" ELSE "gone"
    <3>1. /\ s.alone \in BOOLEAN
          /\ s = [alone |-> s.alone, step |-> s.step, at |-> s.at, lock |-> s.lock, now |-> s.now]
      BY <2>2, AcquiringShape
    <3>2. shell'[d] = [s EXCEPT !.at = to]
      BY <2>1, <2>2 DEF Moved
    <3>3. shell'[d] = [alone |-> s.alone, step |-> s.step, at |-> to, lock |-> s.lock,
                       now |-> s.now]
      <4> HIDE DEF to, s
      <4> QED
        BY <3>1, <3>2
    <3> QED
      BY <2>2, <3>1, <3>3 DEF Shaped
  <2>3. CASE shell[d].step # "fill"
    BY <2>1, <2>3 DEF Moved
  <2> QED
    BY <2>2, <2>3
<1>3. shell'[c] = NoShell /\ Shaped(NoShell) /\ NoShell.step = "idle"
  BY <1>1 DEF Shaped, NoShell
<1>4. ShellTypeOK'
  BY <1>1, <1>2, <1>3 DEF ShellInv, ShellTypeOK, FileOK
<1>5. RowsBegin'
  BY <1>1, <1>2, <1>3 DEF ShellInv, RowsBegin
<1>6. LoneInv'
  BY <1>1, <1>2, <1>3 DEF ShellInv, LoneInv
<1> QED
  BY <1>4, <1>5, <1>6 DEF ShellInv

\* An append leaves a file that begins with a header.
LEMMA RowAppended ==
  ASSUME ShellInv, NEW c \in Caller, AppendRow(c)
  PROVE  /\ csv' \in Seq(Caller \cup {Header})
         /\ csv' # <<>> /\ csv'[1] = Header /\ csv'[Len(csv')] = c
         /\ shell[c].exists /\ csv # <<>> =>
              /\ Len(csv') = Len(csv) + 1
              /\ \A i \in 1 .. Len(csv) : csv'[i] = csv[i]
         /\ csv = <<>> => Len(csv') = 2 /\ csv'[2] = c
<1>1. csv \in Seq(Caller \cup {Header}) /\ (csv # <<>> => csv[1] = Header)
  BY DEF ShellInv, ShellTypeOK, RowsBegin
<1>2. shell[c].exists => csv # <<>>
  BY DEF AppendRow, ShellInv, RowsBegin
<1>3. csv' = csv \o (IF shell[c].exists THEN <<>> ELSE <<Header>>) \o <<c>>
  BY DEF AppendRow
<1>4. CASE shell[c].exists
  <2>1. csv' = Append(csv, c)
    BY <1>1, <1>3, <1>4
  <2> QED
    BY <1>1, <1>2, <1>4, <2>1
<1>5. CASE ~shell[c].exists
  <2>1. csv' = Append(Append(csv, Header), c)
    BY <1>1, <1>3, <1>5
  <2> DEFINE headed == Append(csv, Header)
  <2>2. /\ headed \in Seq(Caller \cup {Header}) /\ Len(headed) = Len(csv) + 1
        /\ headed[1] = Header
    BY <1>1
  <2> HIDE DEF headed
  <2>4. /\ csv' \in Seq(Caller \cup {Header}) /\ Len(csv') = Len(headed) + 1
        /\ csv'[1] = Header /\ csv'[Len(csv')] = c
    BY <1>1, <2>1, <2>2 DEF headed
  <2>5. csv' # <<>>
    BY <1>1, <2>2, <2>4
  <2>6. csv = <<>> => Len(csv') = 2
    BY <1>1, <2>2, <2>4
  <2> QED
    BY <1>5, <2>4, <2>5, <2>6
<1> QED
  BY <1>4, <1>5

LEMMA ShellStep ==
  ASSUME ShellInv, [ShellsNext]_shellVars
  PROVE  ShellInv'
<1>1. ASSUME NEW c \in Caller, AppendRow(c) PROVE ShellInv'
  <2>1. csv' \in Seq(Caller \cup {Header}) /\ csv' # <<>> /\ csv'[1] = Header
    BY <1>1, RowAppended
  <2>2. shell[c].step # "idle" /\ Ends(c) /\ UNCHANGED <<lockFile, tempFile>>
    BY <1>1 DEF AppendRow
  <2> QED
    BY <2>1, <2>2, EndStep
<1>2. ASSUME NEW c \in Caller, RenameFails(c) \/ ShellStops(c) PROVE ShellInv'
  <2>1. shell[c].step # "idle" /\ Ends(c) /\ UNCHANGED <<lockFile, tempFile, csv>>
    BY <1>2 DEF RenameFails, ShellStops
  <2> QED
    BY <2>1, EndStep DEF ShellInv, ShellTypeOK, RowsBegin
<1>3. CASE ClockAdvances \/ UNCHANGED shellVars
  <2>1. UNCHANGED <<lockFile, tempFile, csv, shell>>
    BY <1>3 DEF ClockAdvances, shellVars
  <2> QED
    BY <2>1 DEF ShellInv, ShellTypeOK, FileOK, RowsBegin, LoneInv, LoneAppend, LoneAcquire
<1> QED
  BY <1>1, <1>2, <1>3, ReadLockStep, LookStep, OpenStep, FillStep, AcquiresStep DEF ShellsNext

LEMMA ShellStart == ShellsInit => ShellInv
<1> SUFFICES ASSUME ShellsInit PROVE ShellInv
  OBVIOUS
<1>1. ShellTypeOK
  BY DEF ShellsInit, ShellTypeOK, Shaped, FileOK
<1>2. RowsBegin /\ LoneInv
  BY DEF ShellsInit, NoShell, RowsBegin, LoneInv
<1> QED
  BY <1>1, <1>2 DEF ShellInv

-----------------------------------------------------------------------------
(* What a lone call promises *)

\* A lone acquire writes its lock over none or an expired one, and may release it.
LEMMA LoneAcquireHolds ==
  ASSUME ShellInv, NEW c \in Caller, Acquires(c), shell[c].alone
  PROVE  /\ lockFile' = Holding(shell[c].lock) /\ MayRelease(c)'
         /\ lockFile = NoFile \/ lockFile.lock.expiresAtMs <= shell[c].now
<1>1. shell[c].step = "rename" /\ lockFile' = tempFile
  BY DEF Acquires
<1>2. LoneAcquire(c)
  BY <1>1, AcquiringShape
<1>3. /\ lockFile' = Holding(shell[c].lock)
      /\ LockRecordRefusal(shell[c].lock) = None /\ shell[c].lock.ownerId = c
      /\ lockFile = NoFile \/ lockFile.lock.expiresAtMs <= shell[c].now
  BY <1>1, <1>2 DEF LoneAcquire
<1>4. ReleaseDecision(shell[c].lock, c) = "release_allowed"
  BY <1>3, OwnerNamed, OwnerReleases
<1>5. lockFile'.is = "lock" /\ lockFile'.lock = shell[c].lock
  BY <1>3 DEF Holding
<1> QED
  BY <1>3, <1>4, <1>5 DEF MayRelease

\* A lone append adds its row, and a header only to a file that has none.
LEMMA LoneAppendHolds ==
  ASSUME ShellInv, NEW c \in Caller, AppendRow(c), shell[c].alone
  PROVE  /\ Head(csv') = Header /\ Last(csv') = c
         /\ Headers(csv') = Max({1, Headers(csv)})
<1> DEFINE before == {i \in DOMAIN csv : csv[i] = Header}
           after  == {i \in DOMAIN csv' : csv'[i] = Header}
<1>1. /\ csv' \in Seq(Caller \cup {Header}) /\ csv' # <<>> /\ csv'[1] = Header
      /\ csv'[Len(csv')] = c
  BY RowAppended
<1>2. Head(csv') = Header /\ Last(csv') = c
  BY <1>1 DEF Last
<1>3. shell[c].exists <=> csv # <<>>
  BY DEF AppendRow, ShellInv, LoneInv, LoneAppend
<1>4. c # Header /\ csv \in Seq(Caller \cup {Header})
  BY RowAssumption DEF ShellInv, ShellTypeOK
<1>5. CASE csv # <<>>
  <2>1. /\ Len(csv') = Len(csv) + 1 /\ \A i \in 1 .. Len(csv) : csv'[i] = csv[i]
        /\ csv[1] = Header /\ Len(csv) >= 1
    BY <1>3, <1>4, <1>5, RowAppended DEF ShellInv, RowsBegin
  <2>2. after = before
    BY <1>1, <1>4, <2>1
  <2>3. IsFiniteSet(before) /\ 1 \in before
    <3>1. DOMAIN csv = 1 .. Len(csv) /\ Len(csv) \in Nat
      BY <1>4
    <3>2. IsFiniteSet(1 .. Len(csv)) /\ before \subseteq 1 .. Len(csv)
      BY <3>1, FS_Interval
    <3> QED
      BY <2>1, <3>1, <3>2, FS_Subset
  <2>4. Cardinality(before) \in Nat /\ Cardinality(before) # 0
    BY <2>3, FS_CardinalityType, FS_EmptySet
  <2>5. Max({1, Cardinality(before)}) = Cardinality(before)
    <3> HIDE DEF before
    <3> QED
      BY <2>4 DEF Max
  <2> QED
    BY <1>2, <2>2, <2>5 DEF Headers
<1>6. CASE csv = <<>>
  <2>1. DOMAIN csv' = 1 .. 2 /\ csv'[2] = c
    BY <1>1, <1>6, RowAppended
  <2>2. before = {} /\ after = {1}
    BY <1>1, <1>4, <1>6, <2>1
  <2>3. Cardinality(before) = 0 /\ Cardinality(after) = 1
    BY <2>2, FS_EmptySet, FS_Singleton
  <2>4. Max({1, 0}) = 1
    BY DEF Max
  <2> QED
    BY <1>2, <2>3, <2>4 DEF Headers
<1> QED
  BY <1>5, <1>6

LEMMA StagesRunShells ==
  [StagesNext]_<<vars, shellVars, call, answer>> => [ShellsNext]_shellVars
BY DEF StagesNext

\* A call that no other overlaps keeps its word, for any callers, locks and clocks, also
\* when others have left a blank or a foreign file behind.
THEOREM LoneCallsKeepWord == StagesSpec => LoneCallsHold
<1>1. StagesInit => ShellInv
  BY ShellStart DEF StagesInit
<1>2. ShellInv /\ [StagesNext]_<<vars, shellVars, call, answer>> => ShellInv'
  BY StagesRunShells, ShellStep
<1>3. ShellInv =>
        [\A c \in Caller :
           /\ Acquires(c) /\ shell[c].alone =>
                /\ lockFile' = Holding(shell[c].lock) /\ MayRelease(c)'
                /\ lockFile = NoFile \/ lockFile.lock.expiresAtMs <= shell[c].now
           /\ AppendRow(c) /\ shell[c].alone =>
                /\ Head(csv') = Header /\ Last(csv') = c
                /\ Headers(csv') = Max({1, Headers(csv)})]_shellVars
  BY LoneAcquireHolds, LoneAppendHolds
<1> QED
  BY <1>1, <1>2, <1>3, PTL DEF StagesSpec, LoneCallsHold

-----------------------------------------------------------------------------
(* Each of the functions lets through what none of its checks refuses *)

LEMMA PassesWhen ==
  ASSUME NEW checks, DOMAIN checks \subseteq Nat,
         \A i \in DOMAIN checks : checks[i][1] => checks[i][2] # None
  PROVE  FirstRefusal(checks) = None <=> \A i \in DOMAIN checks : ~checks[i][1]
BY FirstRefusalIs, NothingRefused

LEMMA ResolvePasses ==
  ASSUME NEW campaign, NEW master, NEW policies
  PROVE  ResolveRefusal(campaign, master, policies) = None <=>
           /\ campaign # "" /\ master # "" /\ policies # <<>>
           /\ (\A i \in DOMAIN policies : ValidPolicyRecord(policies[i]))
           /\ (\A i, j \in DOMAIN policies : (i # j => policies[i].master # policies[j].master))
           /\ Matching(master, policies) # {}
           /\ (\A i \in Matching(master, policies) : policies[i].enabled)
           /\ (\A i \in Matching(master, policies) : ~(policies[i].base > policies[i].max))
           /\ (\A i \in Matching(master, policies) : ~(DearestFee(policies[i]) > policies[i].max))
<1> DEFINE checks == <<
    <<campaign = "", "invalid_campaign_id">>,
    <<master = "", "invalid_jetton_master_canonical_key">>,
    <<policies = <<>>, "invalid_policy_registry">>,
    <<\E i \in DOMAIN policies : ~ValidPolicyRecord(policies[i]), "fee_policy_invalid">>,
    <<\E i, j \in DOMAIN policies : i # j /\ policies[i].master = policies[j].master,
       "duplicate_policy_for_jetton_master">>,
    <<Matching(master, policies) = {}, "policy_not_found">>,
    <<\E i \in Matching(master, policies) : ~policies[i].enabled, "policy_disabled">>,
    <<\E i \in Matching(master, policies) : policies[i].base > policies[i].max,
       "fee_cap_invalid">>,
    <<\E i \in Matching(master, policies) : DearestFee(policies[i]) > policies[i].max,
       "fee_cap_invalid">> >>
<1>1. ResolveRefusal(campaign, master, policies) = FirstRefusal(checks) /\ DOMAIN checks = 1 .. 9
  BY DEF ResolveRefusal
<1>2. /\ checks[1][2] # None /\ checks[2][2] # None /\ checks[3][2] # None
      /\ checks[4][2] # None /\ checks[5][2] # None /\ checks[6][2] # None
      /\ checks[7][2] # None /\ checks[8][2] # None /\ checks[9][2] # None
  BY DEF None
<1>4. ResolveRefusal(campaign, master, policies) = None <=> \A i \in 1 .. 9 : ~checks[i][1]
  <2> HIDE DEF checks
  <2>1. \A i \in DOMAIN checks : checks[i][1] => checks[i][2] # None
    BY <1>1, <1>2
  <2>2. DOMAIN checks \subseteq Nat
    BY <1>1
  <2> QED
    BY <1>1, <2>1, <2>2, PassesWhen
<1>5. (\A i \in 1 .. 9 : ~checks[i][1]) <=>
        /\ ~checks[1][1] /\ ~checks[2][1] /\ ~checks[3][1] /\ ~checks[4][1] /\ ~checks[5][1]
        /\ ~checks[6][1] /\ ~checks[7][1] /\ ~checks[8][1] /\ ~checks[9][1]
  <2> HIDE DEF checks
  <2> QED
    OBVIOUS
<1> QED
  BY <1>4, <1>5

LEMMA MarginPasses ==
  ASSUME NEW estimate, NEW policy
  PROVE  MarginRefusal(estimate, policy) = None <=>
           /\ ~(estimate <= 0) /\ ~policy.forbidden /\ policy.named /\ policy.enabled
           /\ policy.mode \in {"fixed_nano", "basis_points"} /\ ~(policy.ceiling <= 0)
           /\ ~(estimate > policy.ceiling) /\ ~BadMargin(policy)
           /\ ~(estimate + Margin(estimate, policy) > policy.ceiling)
<1> DEFINE checks == <<
    <<estimate <= 0, "invalid_gas_estimate">>,
    <<policy.forbidden, "forbidden_execution_context">>,
    <<~policy.named, "invalid_policy">>,
    <<~policy.enabled, "policy_disabled">>,
    <<policy.mode \notin {"fixed_nano", "basis_points"}, "invalid_policy">>,
    <<policy.ceiling <= 0, "invalid_gas_ceiling">>,
    <<estimate > policy.ceiling, "gas_cap_exceeded">>,
    <<BadMargin(policy), "invalid_margin">>,
    <<estimate + Margin(estimate, policy) > policy.ceiling, "gas_cap_exceeded">> >>
<1>1. MarginRefusal(estimate, policy) = FirstRefusal(checks) /\ DOMAIN checks = 1 .. 9
  BY DEF MarginRefusal
<1>2. /\ checks[1][2] # None /\ checks[2][2] # None /\ checks[3][2] # None
      /\ checks[4][2] # None /\ checks[5][2] # None /\ checks[6][2] # None
      /\ checks[7][2] # None /\ checks[8][2] # None /\ checks[9][2] # None
  BY DEF None
<1>4. MarginRefusal(estimate, policy) = None <=> \A i \in 1 .. 9 : ~checks[i][1]
  <2> HIDE DEF checks
  <2>1. \A i \in DOMAIN checks : checks[i][1] => checks[i][2] # None
    BY <1>1, <1>2
  <2>2. DOMAIN checks \subseteq Nat
    BY <1>1
  <2> QED
    BY <1>1, <2>1, <2>2, PassesWhen
<1>5. (\A i \in 1 .. 9 : ~checks[i][1]) <=>
        /\ ~checks[1][1] /\ ~checks[2][1] /\ ~checks[3][1] /\ ~checks[4][1] /\ ~checks[5][1]
        /\ ~checks[6][1] /\ ~checks[7][1] /\ ~checks[8][1] /\ ~checks[9][1]
  <2> HIDE DEF checks
  <2> QED
    OBVIOUS
<1> QED
  BY <1>4, <1>5

LEMMA AppendPasses ==
  ASSUME NEW trigger, NEW now, NEW last, NEW interval
  PROVE  AppendRefusal(trigger, now, last, interval) = None <=>
           /\ trigger \in Triggers /\ Dated(now) /\ last # Undated /\ ~(interval < 0)
           /\ ~(last > now)
<1> DEFINE checks == <<
    <<trigger \notin Triggers, "invalid_input">>,
    <<~Dated(now), "invalid_now_iso">>,
    <<last = Undated, "invalid_last_heartbeat_at">>,
    <<interval < 0, "invalid_min_interval_ms">>,
    <<last > now, "invalid_last_heartbeat_at">> >>
<1>1. AppendRefusal(trigger, now, last, interval) = FirstRefusal(checks) /\ DOMAIN checks = 1 .. 5
  BY DEF AppendRefusal
<1>2. /\ checks[1][2] # None /\ checks[2][2] # None /\ checks[3][2] # None
      /\ checks[4][2] # None /\ checks[5][2] # None
  BY DEF None
<1>4. AppendRefusal(trigger, now, last, interval) = None <=> \A i \in 1 .. 5 : ~checks[i][1]
  <2> HIDE DEF checks
  <2>1. \A i \in DOMAIN checks : checks[i][1] => checks[i][2] # None
    BY <1>1, <1>2
  <2>2. DOMAIN checks \subseteq Nat
    BY <1>1
  <2> QED
    BY <1>1, <2>1, <2>2, PassesWhen
<1>5. (\A i \in 1 .. 5 : ~checks[i][1]) <=>
        /\ ~checks[1][1] /\ ~checks[2][1] /\ ~checks[3][1] /\ ~checks[4][1] /\ ~checks[5][1]
  <2> HIDE DEF checks
  <2> QED
    OBVIOUS
<1> QED
  BY <1>4, <1>5

LEMMA NoncePasses ==
  ASSUME NEW key, NEW nonce, NEW registry
  PROVE  NonceRefusal(key, nonce, registry) = None <=>
           /\ key.hex /\ nonce.text # Nothing /\ nonce.strict /\ ~registry.broken
           /\ ReplayKey(key, nonce) \notin registry.used
<1> DEFINE checks == <<
    <<~key.hex, "replay_nonce_invalid_signer">>,
    <<nonce.text = Nothing, "replay_nonce_missing_nonce">>,
    <<~nonce.strict, "replay_nonce_invalid_nonce">>,
    <<registry.broken, "replay_nonce_invalid_registry">>,
    <<ReplayKey(key, nonce) \in registry.used, "replay_nonce_duplicate_nonce">> >>
<1>1. NonceRefusal(key, nonce, registry) = FirstRefusal(checks) /\ DOMAIN checks = 1 .. 5
  BY DEF NonceRefusal
<1>2. /\ checks[1][2] # None /\ checks[2][2] # None /\ checks[3][2] # None
      /\ checks[4][2] # None /\ checks[5][2] # None
  BY DEF None
<1>4. NonceRefusal(key, nonce, registry) = None <=> \A i \in 1 .. 5 : ~checks[i][1]
  <2> HIDE DEF checks
  <2>1. \A i \in DOMAIN checks : checks[i][1] => checks[i][2] # None
    BY <1>1, <1>2
  <2>2. DOMAIN checks \subseteq Nat
    BY <1>1
  <2> QED
    BY <1>1, <2>1, <2>2, PassesWhen
<1>5. (\A i \in 1 .. 5 : ~checks[i][1]) <=>
        /\ ~checks[1][1] /\ ~checks[2][1] /\ ~checks[3][1] /\ ~checks[4][1] /\ ~checks[5][1]
  <2> HIDE DEF checks
  <2> QED
    OBVIOUS
<1> QED
  BY <1>4, <1>5

LEMMA FilterPasses ==
  ASSUME NEW p, NEW configuredMaster
  PROVE  FilterRefusal(p, configuredMaster) = None <=>
           /\ CanonicalKey(p.master) # NotAddress /\ CanonicalKey(p.master) = configuredMaster
           /\ ~IsBlank(p.destination) /\ CanonicalKey(p.destination) # NotAddress
           /\ ~BadSource(p.source) /\ ~IsBlank(p.hash)
           /\ ~IsBlank(p.lt) /\ Decimal[Trim[p.lt]] # NotDecimal
           /\ Decimal[Trim[p.amount]] # NotDecimal /\ Decimal[Trim[p.amount]] # 0
           /\ p.finality \in {"confirmed", "finalized"}
<1> DEFINE checks == <<
    <<CanonicalKey(p.master) = NotAddress, "INVALID_ADDRESS">>,
    <<CanonicalKey(p.master) # configuredMaster, "MASTER_MISMATCH">>,
    <<IsBlank(p.destination), "MISSING_DESTINATION">>,
    <<CanonicalKey(p.destination) = NotAddress, "INVALID_ADDRESS">>,
    <<BadSource(p.source), "INVALID_ADDRESS">>,
    <<IsBlank(p.hash), "MISSING_TX_HASH">>,
    <<IsBlank(p.lt) \/ Decimal[Trim[p.lt]] = NotDecimal, "MISSING_LT">>,
    <<Decimal[Trim[p.amount]] = NotDecimal, "AMOUNT_NON_INTEGER">>,
    <<Decimal[Trim[p.amount]] = 0, "AMOUNT_NON_POSITIVE">>,
    <<p.finality \notin {"confirmed", "finalized"}, "FINALITY_INVALID">> >>
<1>1. FilterRefusal(p, configuredMaster) = FirstRefusal(checks) /\ DOMAIN checks = 1 .. 10
  BY DEF FilterRefusal
<1>2. /\ checks[1][2] # None /\ checks[2][2] # None /\ checks[3][2] # None
      /\ checks[4][2] # None /\ checks[5][2] # None /\ checks[6][2] # None
      /\ checks[7][2] # None /\ checks[8][2] # None /\ checks[9][2] # None
      /\ checks[10][2] # None
  BY DEF None
<1>4. FilterRefusal(p, configuredMaster) = None <=> \A i \in 1 .. 10 : ~checks[i][1]
  <2> HIDE DEF checks
  <2>1. \A i \in DOMAIN checks : checks[i][1] => checks[i][2] # None
    BY <1>1, <1>2
  <2>2. DOMAIN checks \subseteq Nat
    BY <1>1
  <2> QED
    BY <1>1, <2>1, <2>2, PassesWhen
<1>5. (\A i \in 1 .. 10 : ~checks[i][1]) <=>
        /\ ~checks[1][1] /\ ~checks[2][1] /\ ~checks[3][1] /\ ~checks[4][1] /\ ~checks[5][1]
        /\ ~checks[6][1] /\ ~checks[7][1] /\ ~checks[8][1] /\ ~checks[9][1] /\ ~checks[10][1]
  <2> HIDE DEF checks
  <2> QED
    OBVIOUS
<1> QED
  BY <1>4, <1>5

LEMMA PlanPasses ==
  ASSUME NEW recipients, NEW size
  PROVE  PlanRefusal(recipients, size) = None <=>
           /\ ~(size < 1) /\ (\A i \in DOMAIN recipients : recipients[i].address # "")
           /\ (\A i \in DOMAIN recipients : ~(recipients[i].amount < 1))
           /\ (\A i, j \in DOMAIN recipients :
                 (i # j => recipients[i].address # recipients[j].address))
<1> DEFINE checks == <<
    <<size < 1, "batchSize">>,
    <<\E i \in DOMAIN recipients : recipients[i].address = "", "address">>,
    <<\E i \in DOMAIN recipients : recipients[i].amount < 1, "amount">>,
    <<\E i, j \in DOMAIN recipients : i # j /\ recipients[i].address = recipients[j].address,
       "duplicate">> >>
<1>1. PlanRefusal(recipients, size) = FirstRefusal(checks) /\ DOMAIN checks = 1 .. 4
  BY DEF PlanRefusal
<1>2. /\ checks[1][2] # None /\ checks[2][2] # None /\ checks[3][2] # None
      /\ checks[4][2] # None
  BY DEF None
<1>4. PlanRefusal(recipients, size) = None <=> \A i \in 1 .. 4 : ~checks[i][1]
  <2> HIDE DEF checks
  <2>1. \A i \in DOMAIN checks : checks[i][1] => checks[i][2] # None
    BY <1>1, <1>2
  <2>2. DOMAIN checks \subseteq Nat
    BY <1>1
  <2> QED
    BY <1>1, <2>1, <2>2, PassesWhen
<1>5. (\A i \in 1 .. 4 : ~checks[i][1]) <=>
        /\ ~checks[1][1] /\ ~checks[2][1] /\ ~checks[3][1] /\ ~checks[4][1]
  <2> HIDE DEF checks
  <2> QED
    OBVIOUS
<1> QED
  BY <1>4, <1>5

LEMMA UpdatePasses ==
  ASSUME NEW s, NEW campaign, NEW m
  PROVE  UpdateRefusal(s, campaign, m) = None <=>
           /\ ValidRunState(s, campaign) /\ MutationRefusal(s, m) = None
           /\ ValidRunState(Mutated(s, m), s.meta.campaign)
<1> DEFINE checks == <<
    <<~ValidRunState(s, campaign), "load">>,
    Refused(MutationRefusal(s, m)),
    <<~ValidRunState(Mutated(s, m), s.meta.campaign), "save">> >>
<1>1. UpdateRefusal(s, campaign, m) = FirstRefusal(checks) /\ DOMAIN checks = 1 .. 3
  BY DEF UpdateRefusal
<1>2. /\ checks[1][2] # None /\ checks[3][2] # None
  BY DEF None
<1>3. /\ (checks[2][1] => checks[2][2] # None)
  BY DEF Refused
<1>4. UpdateRefusal(s, campaign, m) = None <=> \A i \in 1 .. 3 : ~checks[i][1]
  <2> HIDE DEF checks
  <2>1. \A i \in DOMAIN checks : checks[i][1] => checks[i][2] # None
    BY <1>1, <1>2, <1>3
  <2>2. DOMAIN checks \subseteq Nat
    BY <1>1
  <2> QED
    BY <1>1, <2>1, <2>2, PassesWhen
<1>5. (\A i \in 1 .. 3 : ~checks[i][1]) <=>
        /\ ~checks[1][1] /\ ~checks[2][1] /\ ~checks[3][1]
  <2> HIDE DEF checks
  <2> QED
    OBVIOUS
<1> QED
  BY <1>4, <1>5 DEF Refused

LEMMA GuardPasses ==
  ASSUME NEW s, NEW key, NEW guard, NEW next
  PROVE  GuardRefusal(s, key, guard, next) = None <=>
           /\ StatusIn(s, key) \in guard.statuses
           /\ (guard.attempt # NullNumber =>
                 StatusIn(s, key) # "absent" /\ s.entries[key].attempt = guard.attempt)
           /\ (guard.operator # "unset" =>
                 StatusIn(s, key) # "absent" /\ s.entries[key].operator = guard.operator)
           /\ ValidStateEntry(key, next)
<1> DEFINE checks == <<
    <<StatusIn(s, key) \notin guard.statuses, "status">>,
    <<guard.attempt # NullNumber /\ (StatusIn(s, key) = "absent" \/ s.entries[key].attempt #
       guard.attempt), "attempt">>,
    <<guard.operator # "unset" /\ (StatusIn(s, key) = "absent" \/ s.entries[key].operator #
       guard.operator), "operator">>,
    <<~ValidStateEntry(key, next), "next entry">> >>
<1>1. GuardRefusal(s, key, guard, next) = FirstRefusal(checks) /\ DOMAIN checks = 1 .. 4
  BY DEF GuardRefusal
<1>2. /\ checks[1][2] # None /\ checks[2][2] # None /\ checks[3][2] # None
      /\ checks[4][2] # None
  BY DEF None
<1>4. GuardRefusal(s, key, guard, next) = None <=> \A i \in 1 .. 4 : ~checks[i][1]
  <2> HIDE DEF checks
  <2>1. \A i \in DOMAIN checks : checks[i][1] => checks[i][2] # None
    BY <1>1, <1>2
  <2>2. DOMAIN checks \subseteq Nat
    BY <1>1
  <2> QED
    BY <1>1, <2>1, <2>2, PassesWhen
<1>5. (\A i \in 1 .. 4 : ~checks[i][1]) <=>
        /\ ~checks[1][1] /\ ~checks[2][1] /\ ~checks[3][1] /\ ~checks[4][1]
  <2> HIDE DEF checks
  <2> QED
    OBVIOUS
<1> QED
  BY <1>4, <1>5

LEMMA RecoveryPasses ==
  ASSUME NEW e, NEW row, NEW now, NEW timeout
  PROVE  RecoveryRefusal(e, row, now, timeout) = None <=>
           /\ e.submitted # NullInstant /\ e.operator # NullText
           /\ (row = NoRow => ~(now - e.submitted > timeout)) /\ row # NoRow
           /\ (row # NoRow =>
                 (\A f \in {"batch", "recipient", "attempt", "operator"} : row[f] = e[f]))
           /\ (row # NoRow => ~(row.at < e.submitted))
           /\ (row # NoRow => row.outcome # "cooldown")
<1> DEFINE checks == <<
    <<e.submitted = NullInstant \/ e.operator = NullText, "no identity">>,
    <<row = NoRow /\ now - e.submitted > timeout, "exceeded the recovery timeout">>,
    <<row = NoRow, "left alone">>,
    <<row # NoRow /\ \E f \in {"batch", "recipient", "attempt", "operator"} : row[f] # e[f],
       "other attempt">>,
    <<row # NoRow /\ row.at < e.submitted, "recorded before">>,
    <<row # NoRow /\ row.outcome = "cooldown", "no cooldownUntil">> >>
<1>1. RecoveryRefusal(e, row, now, timeout) = FirstRefusal(checks) /\ DOMAIN checks = 1 .. 6
  BY DEF RecoveryRefusal
<1>2. /\ checks[1][2] # None /\ checks[2][2] # None /\ checks[3][2] # None
      /\ checks[4][2] # None /\ checks[5][2] # None /\ checks[6][2] # None
  BY DEF None
<1>4. RecoveryRefusal(e, row, now, timeout) = None <=> \A i \in 1 .. 6 : ~checks[i][1]
  <2> HIDE DEF checks
  <2>1. \A i \in DOMAIN checks : checks[i][1] => checks[i][2] # None
    BY <1>1, <1>2
  <2>2. DOMAIN checks \subseteq Nat
    BY <1>1
  <2> QED
    BY <1>1, <2>1, <2>2, PassesWhen
<1>5. (\A i \in 1 .. 6 : ~checks[i][1]) <=>
        /\ ~checks[1][1] /\ ~checks[2][1] /\ ~checks[3][1] /\ ~checks[4][1] /\ ~checks[5][1]
        /\ ~checks[6][1]
  <2> HIDE DEF checks
  <2> QED
    OBVIOUS
<1> QED
  BY <1>4, <1>5

LEMMA PoolPasses ==
  ASSUME NEW file, NEW set
  PROVE  PoolRefusal(file, set) = None <=>
           /\ file.kind \notin {"unreadable", "text"} /\ file.kind = "array"
           /\ (\A i \in DOMAIN file.list : ~BadOperatorConfig(file.list[i]))
           /\ (\A i \in DOMAIN file.list : (IsOn(file.list[i]) => file.list[i].key \in set))
           /\ (\E i \in DOMAIN file.list : IsOn(file.list[i]))
<1> DEFINE checks == <<
    <<file.kind \in {"unreadable", "text"}, "JSON_INVALID">>,
    <<file.kind # "array", "JSON_NOT_ARRAY">>,
    <<\E i \in DOMAIN file.list : BadOperatorConfig(file.list[i]), "OPERATOR_INVALID">>,
    <<\E i \in DOMAIN file.list : IsOn(file.list[i]) /\ file.list[i].key \notin set,
       "MNEMONIC_MISSING">>,
    <<\A i \in DOMAIN file.list : ~IsOn(file.list[i]), "NO_ELIGIBLE_OPERATORS">> >>
<1>1. PoolRefusal(file, set) = FirstRefusal(checks) /\ DOMAIN checks = 1 .. 5
  BY DEF PoolRefusal
<1>2. /\ checks[1][2] # None /\ checks[2][2] # None /\ checks[3][2] # None
      /\ checks[4][2] # None /\ checks[5][2] # None
  BY DEF None
<1>4. PoolRefusal(file, set) = None <=> \A i \in 1 .. 5 : ~checks[i][1]
  <2> HIDE DEF checks
  <2>1. \A i \in DOMAIN checks : checks[i][1] => checks[i][2] # None
    BY <1>1, <1>2
  <2>2. DOMAIN checks \subseteq Nat
    BY <1>1
  <2> QED
    BY <1>1, <2>1, <2>2, PassesWhen
<1>5. (\A i \in 1 .. 5 : ~checks[i][1]) <=>
        /\ ~checks[1][1] /\ ~checks[2][1] /\ ~checks[3][1] /\ ~checks[4][1] /\ ~checks[5][1]
  <2> HIDE DEF checks
  <2> QED
    OBVIOUS
<1> QED
  BY <1>4, <1>5

LEMMA LockRecordPasses ==
  ASSUME NEW lock
  PROVE  LockRecordRefusal(lock) = None <=>
           /\ lock.lockId # "" /\ lock.ownerId # "" /\ ~(lock.acquiredAtMs < 0)
           /\ ~(lock.expiresAtMs < 0) /\ ~(lock.expiresAtMs <= lock.acquiredAtMs)
<1> DEFINE checks == <<
    <<lock.lockId = "", "empty_lock_id">>,
    <<lock.ownerId = "", "empty_owner_id">>,
    <<lock.acquiredAtMs < 0, "invalid_acquired_at_ms">>,
    <<lock.expiresAtMs < 0, "invalid_expires_at_ms">>,
    <<lock.expiresAtMs <= lock.acquiredAtMs, "invalid_lock_time_range">> >>
<1>1. LockRecordRefusal(lock) = FirstRefusal(checks) /\ DOMAIN checks = 1 .. 5
  BY DEF LockRecordRefusal
<1>2. /\ checks[1][2] # None /\ checks[2][2] # None /\ checks[3][2] # None
      /\ checks[4][2] # None /\ checks[5][2] # None
  BY DEF None
<1>4. LockRecordRefusal(lock) = None <=> \A i \in 1 .. 5 : ~checks[i][1]
  <2> HIDE DEF checks
  <2>1. \A i \in DOMAIN checks : checks[i][1] => checks[i][2] # None
    BY <1>1, <1>2
  <2>2. DOMAIN checks \subseteq Nat
    BY <1>1
  <2> QED
    BY <1>1, <2>1, <2>2, PassesWhen
<1>5. (\A i \in 1 .. 5 : ~checks[i][1]) <=>
        /\ ~checks[1][1] /\ ~checks[2][1] /\ ~checks[3][1] /\ ~checks[4][1] /\ ~checks[5][1]
  <2> HIDE DEF checks
  <2> QED
    OBVIOUS
<1> QED
  BY <1>4, <1>5

LEMMA RecordPasses ==
  ASSUME NEW r
  PROVE  RecordRefusal(r) = None <=>
           /\ DecisionIssues(r.input) = {} /\ r.id = DecisionKey(r.input)
<1> DEFINE checks == <<
    <<DecisionIssues(r.input) # {}, "record_validation_failed">>,
    <<r.id # DecisionKey(r.input), "decision_id_mismatch">> >>
<1>1. RecordRefusal(r) = FirstRefusal(checks) /\ DOMAIN checks = 1 .. 2
  BY DEF RecordRefusal
<1>2. /\ checks[1][2] # None /\ checks[2][2] # None
  BY DEF None
<1>4. RecordRefusal(r) = None <=> \A i \in 1 .. 2 : ~checks[i][1]
  <2> HIDE DEF checks
  <2>1. \A i \in DOMAIN checks : checks[i][1] => checks[i][2] # None
    BY <1>1, <1>2
  <2>2. DOMAIN checks \subseteq Nat
    BY <1>1
  <2> QED
    BY <1>1, <2>1, <2>2, PassesWhen
<1>5. (\A i \in 1 .. 2 : ~checks[i][1]) <=>
        /\ ~checks[1][1] /\ ~checks[2][1]
  <2> HIDE DEF checks
  <2> QED
    OBVIOUS
<1> QED
  BY <1>4, <1>5

LEMMA ArgsPasses ==
  ASSUME NEW args
  PROVE  ArgsRefusal(args) = None <=>
           /\ ~(args.count < 1) /\ ~(args.amount < 0) /\ (args.amount = 0 => ~args.single)
           /\ Odd \notin {args.output, args.campaign, args.tag, args.memo}
<1> DEFINE checks == <<
    <<args.count < 1, "--count">>,
    <<args.amount < 0, "--amount">>,
    <<args.amount = 0 /\ args.single, "--amount must be greater than 0">>,
    <<Odd \in {args.output, args.campaign, args.tag, args.memo}, "flag requires a value">> >>
<1>1. ArgsRefusal(args) = FirstRefusal(checks) /\ DOMAIN checks = 1 .. 4
  BY DEF ArgsRefusal
<1>2. /\ checks[1][2] # None /\ checks[2][2] # None /\ checks[3][2] # None
      /\ checks[4][2] # None
  BY DEF None
<1>4. ArgsRefusal(args) = None <=> \A i \in 1 .. 4 : ~checks[i][1]
  <2> HIDE DEF checks
  <2>1. \A i \in DOMAIN checks : checks[i][1] => checks[i][2] # None
    BY <1>1, <1>2
  <2>2. DOMAIN checks \subseteq Nat
    BY <1>1
  <2> QED
    BY <1>1, <2>1, <2>2, PassesWhen
<1>5. (\A i \in 1 .. 4 : ~checks[i][1]) <=>
        /\ ~checks[1][1] /\ ~checks[2][1] /\ ~checks[3][1] /\ ~checks[4][1]
  <2> HIDE DEF checks
  <2> QED
    OBVIOUS
<1> QED
  BY <1>4, <1>5

LEMMA TargetsPasses ==
  ASSUME NEW targets
  PROVE  TargetsRefusal(targets) = None <=>
           /\ targets.readable /\ targets.list # <<>>
           /\ (\A i \in DOMAIN targets.list : ~BadEntry(targets.list[i]))
           /\ (\A i \in DOMAIN targets.list : ~(targets.list[i].amount < 1))
           /\ (\A i \in DOMAIN targets.list : ~BadTarget(targets.list[i]))
<1> DEFINE checks == <<
    <<~targets.readable, "targets.json">>,
    <<targets.list = <<>>, "zero recipients">>,
    <<\E i \in DOMAIN targets.list : BadEntry(targets.list[i]), "entry">>,
    <<\E i \in DOMAIN targets.list : targets.list[i].amount < 1, "amount">>,
    <<\E i \in DOMAIN targets.list : BadTarget(targets.list[i]), "invalid address">> >>
<1>1. TargetsRefusal(targets) = FirstRefusal(checks) /\ DOMAIN checks = 1 .. 5
  BY DEF TargetsRefusal
<1>2. /\ checks[1][2] # None /\ checks[2][2] # None /\ checks[3][2] # None
      /\ checks[4][2] # None /\ checks[5][2] # None
  BY DEF None
<1>4. TargetsRefusal(targets) = None <=> \A i \in 1 .. 5 : ~checks[i][1]
  <2> HIDE DEF checks
  <2>1. \A i \in DOMAIN checks : checks[i][1] => checks[i][2] # None
    BY <1>1, <1>2
  <2>2. DOMAIN checks \subseteq Nat
    BY <1>1
  <2> QED
    BY <1>1, <2>1, <2>2, PassesWhen
<1>5. (\A i \in 1 .. 5 : ~checks[i][1]) <=>
        /\ ~checks[1][1] /\ ~checks[2][1] /\ ~checks[3][1] /\ ~checks[4][1] /\ ~checks[5][1]
  <2> HIDE DEF checks
  <2> QED
    OBVIOUS
<1> QED
  BY <1>4, <1>5

LEMMA ExecutionPasses ==
  ASSUME NEW count, NEW maxBatch, NEW perHour
  PROVE  ExecutionRefusal(count, maxBatch, perHour) = None <=>
           /\ ~(count <= 0) /\ ~(maxBatch <= 0) /\ ~(perHour <= 0) /\ ~(count > maxBatch)
<1> DEFINE checks == <<
    <<count <= 0, "recipientsCount">>,
    <<maxBatch <= 0, "maxBatchSize">>,
    <<perHour <= 0, "maxTxPerHour">>,
    <<count > maxBatch, "recipientsCount exceeds provider maxBatchSize">> >>
<1>1. ExecutionRefusal(count, maxBatch, perHour) = FirstRefusal(checks) /\ DOMAIN checks = 1 .. 4
  BY DEF ExecutionRefusal
<1>2. /\ checks[1][2] # None /\ checks[2][2] # None /\ checks[3][2] # None
      /\ checks[4][2] # None
  BY DEF None
<1>4. ExecutionRefusal(count, maxBatch, perHour) = None <=> \A i \in 1 .. 4 : ~checks[i][1]
  <2> HIDE DEF checks
  <2>1. \A i \in DOMAIN checks : checks[i][1] => checks[i][2] # None
    BY <1>1, <1>2
  <2>2. DOMAIN checks \subseteq Nat
    BY <1>1
  <2> QED
    BY <1>1, <2>1, <2>2, PassesWhen
<1>5. (\A i \in 1 .. 4 : ~checks[i][1]) <=>
        /\ ~checks[1][1] /\ ~checks[2][1] /\ ~checks[3][1] /\ ~checks[4][1]
  <2> HIDE DEF checks
  <2> QED
    OBVIOUS
<1> QED
  BY <1>4, <1>5

LEMMA LaunchPasses ==
  ASSUME NEW env, NEW targets, NEW operators
  PROVE  LaunchRefusal(env, targets, operators) = None <=>
           /\ env.campaign # "" /\ GateRefusal(env) = None /\ FaultRefusal(env) = None
           /\ ~(BatchSize(env, operators) < 1) /\ env.delay # OddNumber
           /\ TargetsRefusal(targets) = None
           /\ (env.fault.enabled => ~(env.fault.index >= Len(targets.list)))
<1> DEFINE checks == <<
    <<env.campaign = "", "CAMPAIGN_ID">>,
    Refused(GateRefusal(env)),
    Refused(FaultRefusal(env)),
    <<BatchSize(env, operators) < 1, "BATCH_SIZE">>,
    <<env.delay = OddNumber, "ENTRY_DELAY_MS">>,
    Refused(TargetsRefusal(targets)),
    <<env.fault.enabled /\ env.fault.index >= Len(targets.list), "out of bounds">> >>
<1>1. LaunchRefusal(env, targets, operators) = FirstRefusal(checks) /\ DOMAIN checks = 1 .. 7
  BY DEF LaunchRefusal
<1>2. /\ checks[1][2] # None /\ checks[4][2] # None /\ checks[5][2] # None
      /\ checks[7][2] # None
  BY DEF None
<1>3. /\ (checks[2][1] => checks[2][2] # None) /\ (checks[3][1] => checks[3][2] # None)
      /\ (checks[6][1] => checks[6][2] # None)
  BY DEF Refused
<1>4. LaunchRefusal(env, targets, operators) = None <=> \A i \in 1 .. 7 : ~checks[i][1]
  <2> HIDE DEF checks
  <2>1. \A i \in DOMAIN checks : checks[i][1] => checks[i][2] # None
    BY <1>1, <1>2, <1>3
  <2>2. DOMAIN checks \subseteq Nat
    BY <1>1
  <2> QED
    BY <1>1, <2>1, <2>2, PassesWhen
<1>5. (\A i \in 1 .. 7 : ~checks[i][1]) <=>
        /\ ~checks[1][1] /\ ~checks[2][1] /\ ~checks[3][1] /\ ~checks[4][1] /\ ~checks[5][1]
        /\ ~checks[6][1] /\ ~checks[7][1]
  <2> HIDE DEF checks
  <2> QED
    OBVIOUS
<1> QED
  BY <1>4, <1>5 DEF Refused

LEMMA ConfigPasses ==
  ASSUME NEW config
  PROVE  ConfigRefusal(config) = None <=>
           /\ config.stateDir # ""
           /\ (\A name \in DOMAIN Interfaces : (Interfaces[name] \subseteq config.methods[name]))
           /\ config.dry \in {"true", "false"} /\ config.force \in {Unset, "true", "false"}
           /\ config.entryDelay # OddNumber /\ config.batchDelay # OddNumber
<1> DEFINE checks == <<
    <<config.stateDir = "", "stateDir">>,
    <<\E name \in DOMAIN Interfaces : ~(Interfaces[name] \subseteq config.methods[name]),
       "interface">>,
    <<config.dry \notin {"true", "false"}, "dryRun">>,
    <<config.force \notin {Unset, "true", "false"}, "forceExecutorInDryRun">>,
    <<config.entryDelay = OddNumber, "entryDelayMs">>,
    <<config.batchDelay = OddNumber, "batchDelayMs">> >>
<1>1. ConfigRefusal(config) = FirstRefusal(checks) /\ DOMAIN checks = 1 .. 6
  BY DEF ConfigRefusal
<1>2. /\ checks[1][2] # None /\ checks[2][2] # None /\ checks[3][2] # None
      /\ checks[4][2] # None /\ checks[5][2] # None /\ checks[6][2] # None
  BY DEF None
<1>4. ConfigRefusal(config) = None <=> \A i \in 1 .. 6 : ~checks[i][1]
  <2> HIDE DEF checks
  <2>1. \A i \in DOMAIN checks : checks[i][1] => checks[i][2] # None
    BY <1>1, <1>2
  <2>2. DOMAIN checks \subseteq Nat
    BY <1>1
  <2> QED
    BY <1>1, <2>1, <2>2, PassesWhen
<1>5. (\A i \in 1 .. 6 : ~checks[i][1]) <=>
        /\ ~checks[1][1] /\ ~checks[2][1] /\ ~checks[3][1] /\ ~checks[4][1] /\ ~checks[5][1]
        /\ ~checks[6][1]
  <2> HIDE DEF checks
  <2> QED
    OBVIOUS
<1> QED
  BY <1>4, <1>5

LEMMA CampaignPasses ==
  ASSUME NEW campaign
  PROVE  CampaignRefusal(campaign) = None <=>
           /\ campaign.id # "" /\ campaign.metadata # "" /\ campaign.recipients # <<>>
           /\ ~(campaign.size < 1)
<1> DEFINE checks == <<
    <<campaign.id = "", "campaignId">>,
    <<campaign.metadata = "", "metadataFilePath">>,
    <<campaign.recipients = <<>>, "recipients">>,
    <<campaign.size < 1, "batchSize">> >>
<1>1. CampaignRefusal(campaign) = FirstRefusal(checks) /\ DOMAIN checks = 1 .. 4
  BY DEF CampaignRefusal
<1>2. /\ checks[1][2] # None /\ checks[2][2] # None /\ checks[3][2] # None
      /\ checks[4][2] # None
  BY DEF None
<1>4. CampaignRefusal(campaign) = None <=> \A i \in 1 .. 4 : ~checks[i][1]
  <2> HIDE DEF checks
  <2>1. \A i \in DOMAIN checks : checks[i][1] => checks[i][2] # None
    BY <1>1, <1>2
  <2>2. DOMAIN checks \subseteq Nat
    BY <1>1
  <2> QED
    BY <1>1, <2>1, <2>2, PassesWhen
<1>5. (\A i \in 1 .. 4 : ~checks[i][1]) <=>
        /\ ~checks[1][1] /\ ~checks[2][1] /\ ~checks[3][1] /\ ~checks[4][1]
  <2> HIDE DEF checks
  <2> QED
    OBVIOUS
<1> QED
  BY <1>4, <1>5

LEMMA ReconcilerPasses ==
  ASSUME NEW config
  PROVE  ReconcilerRefusal(config) = None <=>
           /\ config.stateDir # "" /\ "readTerminalEntries" \in config.methods
           /\ config.timeout # OddNumber /\ config.timeout # 0
<1> DEFINE checks == <<
    <<config.stateDir = "", "stateDir">>,
    <<"readTerminalEntries" \notin config.methods, "auditWriter">>,
    <<config.timeout = OddNumber \/ config.timeout = 0, "zombieTimeoutMs">> >>
<1>1. ReconcilerRefusal(config) = FirstRefusal(checks) /\ DOMAIN checks = 1 .. 3
  BY DEF ReconcilerRefusal
<1>2. /\ checks[1][2] # None /\ checks[2][2] # None /\ checks[3][2] # None
  BY DEF None
<1>4. ReconcilerRefusal(config) = None <=> \A i \in 1 .. 3 : ~checks[i][1]
  <2> HIDE DEF checks
  <2>1. \A i \in DOMAIN checks : checks[i][1] => checks[i][2] # None
    BY <1>1, <1>2
  <2>2. DOMAIN checks \subseteq Nat
    BY <1>1
  <2> QED
    BY <1>1, <2>1, <2>2, PassesWhen
<1>5. (\A i \in 1 .. 3 : ~checks[i][1]) <=>
        /\ ~checks[1][1] /\ ~checks[2][1] /\ ~checks[3][1]
  <2> HIDE DEF checks
  <2> QED
    OBVIOUS
<1> QED
  BY <1>4, <1>5

LEMMA RowsPass ==
  ASSUME NEW path, NEW rows
  PROVE  AppendRowsRefusal(path, rows) = None <=>
           /\ FullText(path) /\ (\A i \in DOMAIN rows : ~BadAuditRow(rows[i]))
<1> DEFINE checks == <<
    <<~FullText(path), "filePath">>,
    <<\E i \in DOMAIN rows : BadAuditRow(rows[i]), "row">> >>
<1>1. AppendRowsRefusal(path, rows) = FirstRefusal(checks) /\ DOMAIN checks = 1 .. 2
  BY DEF AppendRowsRefusal
<1>2. /\ checks[1][2] # None /\ checks[2][2] # None
  BY DEF None
<1>4. AppendRowsRefusal(path, rows) = None <=> \A i \in 1 .. 2 : ~checks[i][1]
  <2> HIDE DEF checks
  <2>1. \A i \in DOMAIN checks : checks[i][1] => checks[i][2] # None
    BY <1>1, <1>2
  <2>2. DOMAIN checks \subseteq Nat
    BY <1>1
  <2> QED
    BY <1>1, <2>1, <2>2, PassesWhen
<1>5. (\A i \in 1 .. 2 : ~checks[i][1]) <=>
        /\ ~checks[1][1] /\ ~checks[2][1]
  <2> HIDE DEF checks
  <2> QED
    OBVIOUS
<1> QED
  BY <1>4, <1>5

LEMMA ClassifyPasses ==
  ASSUME NEW input
  PROVE  ClassifyRefusal(input) = None <=>
           /\ ~(input.attempt < 1) /\ input.texts /\ ValidContext(input.attempt)
<1> DEFINE checks == <<
    <<input.attempt < 1, "attemptNumber">>,
    <<~input.texts, "empty text">>,
    <<~ValidContext(input.attempt), "maxAttempts">> >>
<1>1. ClassifyRefusal(input) = FirstRefusal(checks) /\ DOMAIN checks = 1 .. 3
  BY DEF ClassifyRefusal
<1>2. /\ checks[1][2] # None /\ checks[2][2] # None /\ checks[3][2] # None
  BY DEF None
<1>4. ClassifyRefusal(input) = None <=> \A i \in 1 .. 3 : ~checks[i][1]
  <2> HIDE DEF checks
  <2>1. \A i \in DOMAIN checks : checks[i][1] => checks[i][2] # None
    BY <1>1, <1>2
  <2>2. DOMAIN checks \subseteq Nat
    BY <1>1
  <2> QED
    BY <1>1, <2>1, <2>2, PassesWhen
<1>5. (\A i \in 1 .. 3 : ~checks[i][1]) <=>
        /\ ~checks[1][1] /\ ~checks[2][1] /\ ~checks[3][1]
  <2> HIDE DEF checks
  <2> QED
    OBVIOUS
<1> QED
  BY <1>4, <1>5

LEMMA ResumePasses ==
  ASSUME NEW x
  PROVE  ResumeRefusal(x) = None <=>
           /\ x.entry # NotPersisted /\ (x.entry # NotPersisted => Recoverable(x.key, x.entry))
           /\ ~x.replacement /\ ~(x.local < x.latest) /\ x.reported = x.latest
           /\ (x.pending => x.expires # NullInstant /\ ~(x.now < x.expires))
<1> DEFINE checks == <<
    <<x.entry = NotPersisted, "missing_run_state_entry">>,
    <<x.entry # NotPersisted /\ ~Recoverable(x.key, x.entry), "malformed_run_state">>,
    <<x.replacement, "duplicate_dispatch_intent">>,
    <<x.local < x.latest, "stale_local_seqno">>,
    <<x.reported # x.latest, "simulated_seqno_mismatch">>,
    <<x.pending /\ (x.expires = NullInstant \/ x.now < x.expires),
       "uncertain_submission_active">> >>
<1>1. ResumeRefusal(x) = FirstRefusal(checks) /\ DOMAIN checks = 1 .. 6
  BY DEF ResumeRefusal
<1>2. /\ checks[1][2] # None /\ checks[2][2] # None /\ checks[3][2] # None
      /\ checks[4][2] # None /\ checks[5][2] # None /\ checks[6][2] # None
  BY DEF None
<1>4. ResumeRefusal(x) = None <=> \A i \in 1 .. 6 : ~checks[i][1]
  <2> HIDE DEF checks
  <2>1. \A i \in DOMAIN checks : checks[i][1] => checks[i][2] # None
    BY <1>1, <1>2
  <2>2. DOMAIN checks \subseteq Nat
    BY <1>1
  <2> QED
    BY <1>1, <2>1, <2>2, PassesWhen
<1>5. (\A i \in 1 .. 6 : ~checks[i][1]) <=>
        /\ ~checks[1][1] /\ ~checks[2][1] /\ ~checks[3][1] /\ ~checks[4][1] /\ ~checks[5][1]
        /\ ~checks[6][1]
  <2> HIDE DEF checks
  <2> QED
    OBVIOUS
<1> QED
  BY <1>4, <1>5

LEMMA TerminalPasses ==
  ASSUME NEW e
  PROVE  TerminalIssue(e) = None <=>
           /\ e.schema = SchemaVersion /\ e.recipient # ""
           /\ e.key = RunStateKey(e.batch, e.recipient)
           /\ (NeedsReason(e.status) => FullText(e.reason))
<1> DEFINE checks == <<
    <<e.schema # SchemaVersion, "invalid_schema_version">>,
    <<e.recipient = "", "missing_recipient_address">>,
    <<e.key # RunStateKey(e.batch, e.recipient), "state_key_mismatch">>,
    <<NeedsReason(e.status) /\ ~FullText(e.reason), "missing_terminal_reason">> >>
<1>1. TerminalIssue(e) = FirstRefusal(checks) /\ DOMAIN checks = 1 .. 4
  BY DEF TerminalIssue
<1>2. /\ checks[1][2] # None /\ checks[2][2] # None /\ checks[3][2] # None
      /\ checks[4][2] # None
  BY DEF None
<1>4. TerminalIssue(e) = None <=> \A i \in 1 .. 4 : ~checks[i][1]
  <2> HIDE DEF checks
  <2>1. \A i \in DOMAIN checks : checks[i][1] => checks[i][2] # None
    BY <1>1, <1>2
  <2>2. DOMAIN checks \subseteq Nat
    BY <1>1
  <2> QED
    BY <1>1, <2>1, <2>2, PassesWhen
<1>5. (\A i \in 1 .. 4 : ~checks[i][1]) <=>
        /\ ~checks[1][1] /\ ~checks[2][1] /\ ~checks[3][1] /\ ~checks[4][1]
  <2> HIDE DEF checks
  <2> QED
    OBVIOUS
<1> QED
  BY <1>4, <1>5

LEMMA EntryPasses ==
  ASSUME NEW e, NEW rows
  PROVE  EntryVerdict(e, rows) = None <=>
           /\ TerminalIssue(e) = None /\ {r \in ToSet(rows) : r.key = e.key} # {}
           /\ {r \in ToSet(rows) : r.key = e.key} = {RowOfEntry(e)}
<1> DEFINE checks == <<
    Refused(TerminalIssue(e)),
    <<{r \in ToSet(rows) : r.key = e.key} = {}, "missing_audit_evidence">>,
    <<{r \in ToSet(rows) : r.key = e.key} # {RowOfEntry(e)}, "fingerprint_mismatch">> >>
<1>1. EntryVerdict(e, rows) = FirstRefusal(checks) /\ DOMAIN checks = 1 .. 3
  BY DEF EntryVerdict
<1>2. /\ checks[2][2] # None /\ checks[3][2] # None
  BY DEF None
<1>3. /\ (checks[1][1] => checks[1][2] # None)
  BY DEF Refused
<1>4. EntryVerdict(e, rows) = None <=> \A i \in 1 .. 3 : ~checks[i][1]
  <2> HIDE DEF checks
  <2>1. \A i \in DOMAIN checks : checks[i][1] => checks[i][2] # None
    BY <1>1, <1>2, <1>3
  <2>2. DOMAIN checks \subseteq Nat
    BY <1>1
  <2> QED
    BY <1>1, <2>1, <2>2, PassesWhen
<1>5. (\A i \in 1 .. 3 : ~checks[i][1]) <=>
        /\ ~checks[1][1] /\ ~checks[2][1] /\ ~checks[3][1]
  <2> HIDE DEF checks
  <2> QED
    OBVIOUS
<1> QED
  BY <1>4, <1>5 DEF Refused

LEMMA IntentPasses ==
  ASSUME NEW x
  PROVE  MetadataIntentRefusal(x) = None <=>
           /\ x.intent.approval # "" /\ x.intent.approval \in x.approvals
           /\ (x.intent.rollback # NullText => x.intent.rollback \in x.lineage)
           /\ ~(x.intent.effective < x.intent.approved + x.intent.delay)
           /\ ~(x.now < x.intent.effective)
           /\ (IF x.intent.uri \in DOMAIN x.gateway THEN x.gateway[x.intent.uri] ELSE NullText)
                # NullText
           /\ (IF x.intent.uri \in DOMAIN x.gateway THEN x.gateway[x.intent.uri] ELSE NullText)
                = x.intent.hash
<1> DEFINE checks == <<
    <<x.intent.approval = "" \/ x.intent.approval \notin x.approvals,
       "missing_approval_evidence">>,
    <<x.intent.rollback # NullText /\ x.intent.rollback \notin x.lineage,
       "broken_rollback_lineage">>,
    <<x.intent.effective < x.intent.approved + x.intent.delay \/ x.now < x.intent.effective,
       "premature_effective_time">>,
    <<(IF x.intent.uri \in DOMAIN x.gateway THEN x.gateway[x.intent.uri] ELSE NullText) =
       NullText, "mock_content_unavailable">>,
    <<(IF x.intent.uri \in DOMAIN x.gateway THEN x.gateway[x.intent.uri] ELSE NullText) #
       x.intent.hash, "hash_drift">> >>
<1>1. MetadataIntentRefusal(x) = FirstRefusal(checks) /\ DOMAIN checks = 1 .. 5
  BY DEF MetadataIntentRefusal
<1>2. /\ checks[1][2] # None /\ checks[2][2] # None /\ checks[3][2] # None
      /\ checks[4][2] # None /\ checks[5][2] # None
  BY DEF None
<1>4. MetadataIntentRefusal(x) = None <=> \A i \in 1 .. 5 : ~checks[i][1]
  <2> HIDE DEF checks
  <2>1. \A i \in DOMAIN checks : checks[i][1] => checks[i][2] # None
    BY <1>1, <1>2
  <2>2. DOMAIN checks \subseteq Nat
    BY <1>1
  <2> QED
    BY <1>1, <2>1, <2>2, PassesWhen
<1>5. (\A i \in 1 .. 5 : ~checks[i][1]) <=>
        /\ ~checks[1][1] /\ ~checks[2][1] /\ ~checks[3][1] /\ ~checks[4][1] /\ ~checks[5][1]
  <2> HIDE DEF checks
  <2> QED
    OBVIOUS
<1> QED
  BY <1>4, <1>5

LEMMA GovernancePasses ==
  ASSUME NEW x
  PROVE  GovernanceRefusal(x) = None <=>
           /\ (\A f \in DOMAIN x.metadata.texts : FullText(x.metadata.texts[f]))
           /\ x.metadata.decimals # NullNumber /\ x.metadata.decimals \in 0 .. 255
           /\ x.observed = x.pinned /\ x.metadata = x.pinned /\ x.identity = x.pinnedIdentity
           /\ x.uri = x.approvedUri /\ ~FullText(x.fallback)
<1> DEFINE checks == <<
    <<\E f \in DOMAIN x.metadata.texts : ~FullText(x.metadata.texts[f]),
       "missing_metadata_field">>,
    <<x.metadata.decimals = NullNumber, "missing_metadata_field">>,
    <<x.metadata.decimals \notin 0 .. 255, "invalid_decimals">>,
    <<x.observed # x.pinned, "hash_drift">>,
    <<x.metadata # x.pinned, "metadata_mutation">>,
    <<x.identity # x.pinnedIdentity, "identity_mutation">>,
    <<x.uri # x.approvedUri, "uri_replacement">>,
    <<FullText(x.fallback), "hidden_fallback_uri">> >>
<1>1. GovernanceRefusal(x) = FirstRefusal(checks) /\ DOMAIN checks = 1 .. 8
  BY DEF GovernanceRefusal
<1>2. /\ checks[1][2] # None /\ checks[2][2] # None /\ checks[3][2] # None
      /\ checks[4][2] # None /\ checks[5][2] # None /\ checks[6][2] # None
      /\ checks[7][2] # None /\ checks[8][2] # None
  BY DEF None
<1>4. GovernanceRefusal(x) = None <=> \A i \in 1 .. 8 : ~checks[i][1]
  <2> HIDE DEF checks
  <2>1. \A i \in DOMAIN checks : checks[i][1] => checks[i][2] # None
    BY <1>1, <1>2
  <2>2. DOMAIN checks \subseteq Nat
    BY <1>1
  <2> QED
    BY <1>1, <2>1, <2>2, PassesWhen
<1>5. (\A i \in 1 .. 8 : ~checks[i][1]) <=>
        /\ ~checks[1][1] /\ ~checks[2][1] /\ ~checks[3][1] /\ ~checks[4][1] /\ ~checks[5][1]
        /\ ~checks[6][1] /\ ~checks[7][1] /\ ~checks[8][1]
  <2> HIDE DEF checks
  <2> QED
    OBVIOUS
<1> QED
  BY <1>4, <1>5

LEMMA RollbackPasses ==
  ASSUME NEW x
  PROVE  RollbackRefusal(x) = None <=>
           /\ FullText(x.intent.id) /\ x.intent.target = x.policy.original
           /\ x.intent.original = x.policy.original /\ x.intent.lineage \in x.policy.lineages
           /\ FullText(x.intent.approval) /\ x.intent.approval \in x.policy.approvals
           /\ ~FullText(x.intent.fallback)
<1> DEFINE checks == <<
    <<~FullText(x.intent.id), "rollback_intent_missing">>,
    <<x.intent.target # x.policy.original, "rollback_hash_mismatch">>,
    <<x.intent.original # x.policy.original, "rollback_original_hash_mismatch">>,
    <<x.intent.lineage \notin x.policy.lineages, "rollback_lineage_mismatch">>,
    <<~FullText(x.intent.approval) \/ x.intent.approval \notin x.policy.approvals,
       "admin_approval_missing">>,
    <<FullText(x.intent.fallback), "hidden_fallback_rollback">> >>
<1>1. RollbackRefusal(x) = FirstRefusal(checks) /\ DOMAIN checks = 1 .. 6
  BY DEF RollbackRefusal
<1>2. /\ checks[1][2] # None /\ checks[2][2] # None /\ checks[3][2] # None
      /\ checks[4][2] # None /\ checks[5][2] # None /\ checks[6][2] # None
  BY DEF None
<1>4. RollbackRefusal(x) = None <=> \A i \in 1 .. 6 : ~checks[i][1]
  <2> HIDE DEF checks
  <2>1. \A i \in DOMAIN checks : checks[i][1] => checks[i][2] # None
    BY <1>1, <1>2
  <2>2. DOMAIN checks \subseteq Nat
    BY <1>1
  <2> QED
    BY <1>1, <2>1, <2>2, PassesWhen
<1>5. (\A i \in 1 .. 6 : ~checks[i][1]) <=>
        /\ ~checks[1][1] /\ ~checks[2][1] /\ ~checks[3][1] /\ ~checks[4][1] /\ ~checks[5][1]
        /\ ~checks[6][1]
  <2> HIDE DEF checks
  <2> QED
    OBVIOUS
<1> QED
  BY <1>4, <1>5

LEMMA TargetPasses ==
  ASSUME NEW t, NEW policy, NEW seen
  PROVE  TargetRefusal(t, policy, seen) = None <=>
           /\ t.valid /\ t.address \notin seen /\ t.status # "unknown" /\ t.status # "ambiguous"
           /\ t.address \notin policy.block /\ ~t.unsafe
           /\ (policy.allowlistMode => t.address \in policy.allow)
           /\ ~BlockingCapability(Capability(t)) /\ ~t.risk
<1> DEFINE checks == <<
    <<~t.valid, "invalid_address">>,
    <<t.address \in seen, "duplicate_target">>,
    <<t.status = "unknown", "unknown_eligibility">>,
    <<t.status = "ambiguous", "ambiguous_eligibility">>,
    <<t.address \in policy.block, "blocklisted_target">>,
    <<t.unsafe, "known_unsafe_target">>,
    <<policy.allowlistMode /\ t.address \notin policy.allow, "allowlist_miss">>,
    <<BlockingCapability(Capability(t)), "account_capability_blocked">>,
    <<t.risk, "blocking_risk_label">> >>
<1>1. TargetRefusal(t, policy, seen) = FirstRefusal(checks) /\ DOMAIN checks = 1 .. 9
  BY DEF TargetRefusal
<1>2. /\ checks[1][2] # None /\ checks[2][2] # None /\ checks[3][2] # None
      /\ checks[4][2] # None /\ checks[5][2] # None /\ checks[6][2] # None
      /\ checks[7][2] # None /\ checks[8][2] # None /\ checks[9][2] # None
  BY DEF None
<1>4. TargetRefusal(t, policy, seen) = None <=> \A i \in 1 .. 9 : ~checks[i][1]
  <2> HIDE DEF checks
  <2>1. \A i \in DOMAIN checks : checks[i][1] => checks[i][2] # None
    BY <1>1, <1>2
  <2>2. DOMAIN checks \subseteq Nat
    BY <1>1
  <2> QED
    BY <1>1, <2>1, <2>2, PassesWhen
<1>5. (\A i \in 1 .. 9 : ~checks[i][1]) <=>
        /\ ~checks[1][1] /\ ~checks[2][1] /\ ~checks[3][1] /\ ~checks[4][1] /\ ~checks[5][1]
        /\ ~checks[6][1] /\ ~checks[7][1] /\ ~checks[8][1] /\ ~checks[9][1]
  <2> HIDE DEF checks
  <2> QED
    OBVIOUS
<1> QED
  BY <1>4, <1>5

LEMMA BudgetPasses ==
  ASSUME NEW x
  PROVE  BudgetRefusal(x) = None <=>
           /\ FullText(x.feePolicy) /\ ~x.unknown /\ ~x.pause
           /\ ~(x.spent.global > x.cap.global) /\ ~(x.spent.batch > x.cap.batch)
           /\ ~(x.spent.recipient > x.cap.recipient) /\ ~(x.spent.gas > x.cap.gas)
           /\ ~(x.balance < x.reserve)
<1> DEFINE checks == <<
    <<~FullText(x.feePolicy), "fee_policy_version_missing">>,
    <<x.unknown, "budget_unknown">>,
    <<x.pause, "planned_paused">>,
    <<x.spent.global > x.cap.global, "global_cap_breach">>,
    <<x.spent.batch > x.cap.batch, "batch_cap_breach">>,
    <<x.spent.recipient > x.cap.recipient, "recipient_cap_breach">>,
    <<x.spent.gas > x.cap.gas, "gas_ceiling_breach">>,
    <<x.balance < x.reserve, "operator_reserve_breach">> >>
<1>1. BudgetRefusal(x) = FirstRefusal(checks) /\ DOMAIN checks = 1 .. 8
  BY DEF BudgetRefusal
<1>2. /\ checks[1][2] # None /\ checks[2][2] # None /\ checks[3][2] # None
      /\ checks[4][2] # None /\ checks[5][2] # None /\ checks[6][2] # None
      /\ checks[7][2] # None /\ checks[8][2] # None
  BY DEF None
<1>4. BudgetRefusal(x) = None <=> \A i \in 1 .. 8 : ~checks[i][1]
  <2> HIDE DEF checks
  <2>1. \A i \in DOMAIN checks : checks[i][1] => checks[i][2] # None
    BY <1>1, <1>2
  <2>2. DOMAIN checks \subseteq Nat
    BY <1>1
  <2> QED
    BY <1>1, <2>1, <2>2, PassesWhen
<1>5. (\A i \in 1 .. 8 : ~checks[i][1]) <=>
        /\ ~checks[1][1] /\ ~checks[2][1] /\ ~checks[3][1] /\ ~checks[4][1] /\ ~checks[5][1]
        /\ ~checks[6][1] /\ ~checks[7][1] /\ ~checks[8][1]
  <2> HIDE DEF checks
  <2> QED
    OBVIOUS
<1> QED
  BY <1>4, <1>5

LEMMA BoundaryPasses ==
  ASSUME NEW env
  PROVE  BoundaryRefusal(env) = None <=>
           /\ env.halt # "true" /\ env.enabled = "true" /\ env.dryRun = "true"
           /\ FullText(env.expectedChain) /\ FullText(env.observedChain)
           /\ env.observedChain = env.expectedChain /\ FullText(env.campaign)
           /\ FullText(env.confirmed) /\ env.confirmed = env.campaign
           /\ env.proof = "stage-g-h1-locked" /\ FullText(env.expectedCommit)
           /\ env.workflow = "Stage B Full Check" /\ env.ciStatus = "completed"
           /\ env.ciConclusion = "success" /\ env.ciCommit = env.expectedCommit
           /\ FullText(env.approval) /\ env.now # NullNumber /\ env.expires # NullNumber
           /\ env.now # BadInstant /\ env.expires # BadInstant /\ ~(env.expires <= env.now)
<1> DEFINE checks == <<
    <<env.halt = "true", "administrative_halt">>,
    <<env.enabled # "true", "boundary_disabled">>,
    <<env.dryRun # "true", "dry_run_required">>,
    <<~FullText(env.expectedChain), "missing_expected_chain_id">>,
    <<~FullText(env.observedChain), "missing_observed_chain_id">>,
    <<env.observedChain # env.expectedChain, "chain_id_mismatch">>,
    <<~FullText(env.campaign), "missing_campaign_id">>,
    <<~FullText(env.confirmed), "missing_confirm_campaign_id">>,
    <<env.confirmed # env.campaign, "campaign_confirmation_mismatch">>,
    <<env.proof # "stage-g-h1-locked", "dry_run_proof_invalid">>,
    <<~FullText(env.expectedCommit), "missing_expected_commit">>,
    <<env.workflow # "Stage B Full Check", "ci_workflow_invalid">>,
    <<env.ciStatus # "completed", "ci_status_invalid">>,
    <<env.ciConclusion # "success", "ci_conclusion_invalid">>,
    <<env.ciCommit # env.expectedCommit, "ci_commit_mismatch">>,
    <<~FullText(env.approval), "missing_approval_id">>,
    <<env.now = NullNumber, "missing_approval_now">>,
    <<env.expires = NullNumber, "missing_approval_expiry">>,
    <<env.now = BadInstant, "approval_now_invalid">>,
    <<env.expires = BadInstant, "approval_expiry_invalid">>,
    <<env.expires <= env.now, "approval_expired">> >>
<1>1. BoundaryRefusal(env) = FirstRefusal(checks) /\ DOMAIN checks = 1 .. 21
  BY DEF BoundaryRefusal
<1>2. /\ checks[1][2] # None /\ checks[2][2] # None /\ checks[3][2] # None
      /\ checks[4][2] # None /\ checks[5][2] # None /\ checks[6][2] # None
      /\ checks[7][2] # None /\ checks[8][2] # None /\ checks[9][2] # None
      /\ checks[10][2] # None /\ checks[11][2] # None /\ checks[12][2] # None
      /\ checks[13][2] # None /\ checks[14][2] # None /\ checks[15][2] # None
      /\ checks[16][2] # None /\ checks[17][2] # None /\ checks[18][2] # None
      /\ checks[19][2] # None /\ checks[20][2] # None /\ checks[21][2] # None
  BY DEF None
<1>4. BoundaryRefusal(env) = None <=> \A i \in 1 .. 21 : ~checks[i][1]
  <2> HIDE DEF checks
  <2>1. \A i \in DOMAIN checks : checks[i][1] => checks[i][2] # None
    BY <1>1, <1>2
  <2>2. DOMAIN checks \subseteq Nat
    BY <1>1
  <2> QED
    BY <1>1, <2>1, <2>2, PassesWhen
<1>5. (\A i \in 1 .. 21 : ~checks[i][1]) <=>
        /\ ~checks[1][1] /\ ~checks[2][1] /\ ~checks[3][1] /\ ~checks[4][1] /\ ~checks[5][1]
        /\ ~checks[6][1] /\ ~checks[7][1] /\ ~checks[8][1] /\ ~checks[9][1] /\ ~checks[10][1]
        /\ ~checks[11][1] /\ ~checks[12][1] /\ ~checks[13][1] /\ ~checks[14][1]
        /\ ~checks[15][1] /\ ~checks[16][1] /\ ~checks[17][1] /\ ~checks[18][1]
        /\ ~checks[19][1] /\ ~checks[20][1] /\ ~checks[21][1]
  <2> HIDE DEF checks
  <2> QED
    OBVIOUS
<1> QED
  BY <1>4, <1>5

-----------------------------------------------------------------------------
(* Fees, margins, amounts, heartbeats and replays *)

LEMMA TiersFit ==
  ASSUME NEW campaign, NEW master, NEW policies,
         \A i \in DOMAIN policies :
           LET p == policies[i] IN {p.base, p.max, p.step, p.tiers} \subseteq Int,
         ResolveRefusal(campaign, master, policies) = None
  PROVE  LET p == Resolved(master, policies)
         IN \A offset \in 0 .. p.tiers - 1 : TierFee(p, offset) \in p.base .. p.max
<1> DEFINE p == Resolved(master, policies)
<1>1. /\ \A i \in DOMAIN policies : ValidPolicyRecord(policies[i])
      /\ Matching(master, policies) # {}
      /\ \A i \in Matching(master, policies) : ~(DearestFee(policies[i]) > policies[i].max)
  BY ResolvePasses
<1>2. PICK i \in Matching(master, policies) : p = policies[i]
  BY <1>1 DEF Resolved
<1>3. i \in DOMAIN policies
  BY DEF Matching
<1>4. /\ p.base \in Int /\ p.max \in Int /\ p.step \in Int /\ p.tiers \in Int
      /\ ValidPolicyRecord(p) /\ ~(DearestFee(p) > p.max)
  BY <1>1, <1>2, <1>3
<1> HIDE DEF p
<1>5. p.step >= 0 /\ p.base + (p.tiers - 1) * p.step <= p.max
  BY <1>4 DEF ValidPolicyRecord, DearestFee, TierFee
<1>6. \A a, b, s \in Int : a >= 0 /\ b >= a /\ s >= 0 => a * s >= 0 /\ b * s >= a * s
  OBVIOUS
<1>7. ASSUME NEW offset \in 0 .. p.tiers - 1 PROVE TierFee(p, offset) \in p.base .. p.max
  <2>1. offset \in Int /\ p.tiers - 1 \in Int /\ offset >= 0 /\ p.tiers - 1 >= offset
    BY <1>4
  <2>2. offset * p.step >= 0 /\ (p.tiers - 1) * p.step >= offset * p.step
    BY <1>4, <1>5, <1>6, <2>1
  <2>3. offset * p.step \in Int /\ (p.tiers - 1) * p.step \in Int
    BY <1>4, <2>1
  <2> QED
    BY <1>4, <1>5, <2>2, <2>3 DEF TierFee
<1> QED
  BY <1>7 DEF p

LEMMA MarginFits ==
  ASSUME NEW estimate \in Int, NEW policy, MarginRefusal(estimate, policy) = None,
         policy.mode = "basis_points"
  PROVE  LET exact == estimate * policy.bps
             margin == Margin(estimate, policy)
         IN margin * Whole >= exact /\ (margin - 1) * Whole < exact
<1>1. policy.bps \in 0 .. Whole
  BY MarginPasses DEF BadMargin
<1>2. \A m \in Nat : \A n \in 0 .. m : n \in Int
  OBVIOUS
<1>3. policy.bps \in Int
  <2>1. Whole \in Nat
    BY DEF Whole
  <2> QED
    BY <1>1, <1>2, <2>1
<1> DEFINE exact == estimate * policy.bps
<1>4. exact \in Int
  BY <1>3
<1>5. Margin(estimate, policy) = (exact + 9999) \div 10000
  BY <1>4 DEF Margin, CeilDiv, Whole
<1> HIDE DEF exact
<1>6. ((exact + 9999) \div 10000) * 10000 >= exact
        /\ ((exact + 9999) \div 10000 - 1) * 10000 < exact
  BY <1>4
<1> QED
  BY <1>5, <1>6 DEF exact, Whole

LEMMA Throttling ==
  ASSUME NEW trigger, NEW now \in Int, NEW last \in Int, NEW interval \in Int, last >= Never,
         AppendPlan(trigger, now, last, interval).reason = "skipped_throttled",
         NEW later \in last .. AppendPlan(trigger, now, last, interval).next
  PROVE  (AppendPlan("periodic", later, last, interval).action = "append_allowed")
           <=> later = AppendPlan(trigger, now, last, interval).next
<1>1. AppendRefusal(trigger, now, last, interval) = None
  <2>1. SUFFICES ASSUME AppendRefusal(trigger, now, last, interval) # None PROVE FALSE
    OBVIOUS
  <2>2. AppendRefusal(trigger, now, last, interval) = "skipped_throttled"
    BY <2>1 DEF AppendPlan
  <2> DEFINE checks == <<
        <<trigger \notin Triggers, "invalid_input">>,
        <<~Dated(now), "invalid_now_iso">>,
        <<last = Undated, "invalid_last_heartbeat_at">>,
        <<interval < 0, "invalid_min_interval_ms">>,
        <<last > now, "invalid_last_heartbeat_at">> >>
  <2>3. FirstRefusal(checks) = "skipped_throttled"  /\ DOMAIN checks = 1 .. 5
    BY <2>2 DEF AppendRefusal
  <2>4. /\ checks[1][2] # "skipped_throttled" /\ checks[2][2] # "skipped_throttled"
        /\ checks[3][2] # "skipped_throttled" /\ checks[4][2] # "skipped_throttled"
        /\ checks[5][2] # "skipped_throttled"
    OBVIOUS
  <2> HIDE DEF checks
  <2> QED
    BY <2>3, <2>4, FirstRefusalIs DEF None
<1>2. /\ Dated(now) /\ last # Undated /\ ~(interval < 0) /\ ~(last > now)
      /\ trigger \in Triggers
  BY <1>1, AppendPasses
<1>3. trigger \notin HotPath \cup ForcedBoundary \cup BatchBoundary
  BY <1>1 DEF AppendPlan, HotPath, ForcedBoundary, BatchBoundary
<1>4. trigger = "periodic"
  BY <1>2, <1>3 DEF Triggers
<1>5. /\ ~Due(now, last, interval)
      /\ AppendPlan(trigger, now, last, interval).next = last + interval
  BY <1>1, <1>4 DEF AppendPlan, HotPath, ForcedBoundary, BatchBoundary
<1>6. last >= 0 /\ interval >= 0 /\ later \in Int /\ later >= last /\ later <= last + interval
  BY <1>2, <1>5 DEF Due, Never, Undated
<1>7. AppendRefusal("periodic", later, last, interval) = None
  BY <1>6, AppendPasses DEF Triggers, Dated, Undated
<1>8. (AppendPlan("periodic", later, last, interval).action = "append_allowed")
        <=> Due(later, last, interval)
  BY <1>7 DEF AppendPlan, HotPath, ForcedBoundary, BatchBoundary
<1> QED
  BY <1>5, <1>6, <1>8 DEF Due, Never

LEMMA ReplayCaught ==
  ASSUME NEW p, "config" \in DOMAIN p, "registry" \in DOMAIN p,
         p.config # NoConfig => "key" \in DOMAIN p.config,
         "used" \in DOMAIN p.registry,
         p.config # NoConfig => "upper" \in DOMAIN p.config.key,
         PreflightRefusal(p) = None, NEW upper \in BOOLEAN
  PROVE  ~Accepted([p EXCEPT !.registry = Recorded(p), !.config.key.upper = upper])
<1> DEFINE q == [p EXCEPT !.registry = Recorded(p), !.config.key.upper = upper]
<1>1. ASSUME NEW r, PreflightRefusal(r) = None
      PROVE  r.config # NoConfig /\ ReplayKey(r.config.key, r.envelope.nonce) \notin r.registry.used
  <2> DEFINE checks == <<
         Refused(IntegrityRefusal(r.content, r.envelope.sha)),
         Refused(SignatureRefusal(r.config, Canonical(r.envelope))),
         Refused(EnvelopeFreshnessRefusal(r.envelope.validUntil, r.now, r.maxFuture)),
         Refused(SignerRefusal(r.config, r.envelope.nonce, r.registry)),
         Refused(EnvelopeFreshnessRefusal(r.envelope.validUntil, r.now, r.maxFuture)) >>
  <2>1. FirstRefusal(checks) = None /\ DOMAIN checks = 1 .. 5
    BY <1>1 DEF PreflightRefusal, None
  <2>2. /\ checks[1][1] => checks[1][2] # None
        /\ checks[2][1] => checks[2][2] # None
        /\ checks[3][1] => checks[3][2] # None
        /\ checks[4][1] => checks[4][2] # None
        /\ checks[5][1] => checks[5][2] # None
    BY DEF Refused
  <2>3. ~checks[4][1]
    <3> HIDE DEF checks
    <3>1. DOMAIN checks \subseteq Nat
      BY <2>1
    <3> QED
      BY <2>1, <2>2, <3>1, NothingRefused
  <2>4. SignerRefusal(r.config, r.envelope.nonce, r.registry) = None
    BY <2>3 DEF Refused
  <2>5. r.config # NoConfig /\ NonceRefusal(r.config.key, r.envelope.nonce, r.registry) = None
    BY <2>4 DEF SignerRefusal, None
  <2> QED
    BY <2>5, NoncePasses
<1>2. SUFFICES ASSUME PreflightRefusal(q) = None PROVE FALSE
  BY DEF Accepted
<1>3. ReplayKey(q.config.key, q.envelope.nonce) \notin q.registry.used
  BY <1>1, <1>2
<1>4. p.config # NoConfig
  BY <1>1
<1>5. q.registry = Recorded(p) /\ q.envelope = p.envelope
        /\ q.config.key = [p.config.key EXCEPT !.upper = upper]
  BY <1>4
<1>6. Recorded(p).used = p.registry.used \cup {ReplayKey(p.config.key, p.envelope.nonce)}
  BY DEF Recorded
<1>7. Normalized(q.config.key) = Normalized(p.config.key)
  BY <1>4, <1>5 DEF Normalized
<1> QED
  BY <1>3, <1>5, <1>6, <1>7 DEF ReplayKey

LEMMA RangeFits ==
  ASSUME NEW config, config.min \in Int, config.max \in Int, config.step \in Int,
         AllocateRandomRange(config) # {}
  PROVE  /\ {config.min, config.max} \subseteq AllocateRandomRange(config)
         /\ AllocateRandomRange(config) \subseteq config.min .. config.max
<1> DEFINE span == config.max - config.min
           step == config.step
           last == span \div step
<1>1. /\ span \in Nat /\ step \in Nat \ {0} /\ span % step = 0
      /\ AllocateRandomRange(config) = {config.min + pick * step : pick \in 0 .. last}
  BY DEF AllocateRandomRange
<1>2. \A n \in Nat, d \in Nat \ {0} : n \div d \in Nat /\ (n % d = 0 => (n \div d) * d = n)
  OBVIOUS
<1>3. last \in Nat /\ last * step = span
  BY <1>1, <1>2
<1>4. \A a, b, s \in Nat : b >= a => a * s \in Nat /\ b * s >= a * s
  OBVIOUS
<1>5. \A pick \in 0 .. last : pick * step \in 0 .. span
  <2> SUFFICES ASSUME NEW pick \in 0 .. last PROVE pick * step \in 0 .. span
    OBVIOUS
  <2>1. pick \in Nat /\ step \in Nat /\ last >= pick
    BY <1>1, <1>3
  <2> QED
    BY <1>1, <1>3, <1>4, <2>1
<1>6. AllocateRandomRange(config) \subseteq config.min .. config.max
  BY <1>1, <1>5
<1>7. 0 \in 0 .. last /\ last \in 0 .. last /\ config.min + 0 * step = config.min
        /\ config.min + last * step = config.max
  BY <1>1, <1>3
<1> HIDE DEF span, step, last
<1> QED
  BY <1>1, <1>6, <1>7

-----------------------------------------------------------------------------
(* The part of a list at some of its places *)

\* The places of a list have ranks: the k-th place exists, for every k there is room for.
LEMMA BelowStep ==
  ASSUME NEW places, \A j \in places : j \in Int, NEW m \in Int
  PROVE  LET Below(k) == {j \in places : j <= k}
         IN /\ m \in places => Below(m) = Below(m - 1) \cup {m} /\ m \notin Below(m - 1)
            /\ m \notin places => Below(m) = Below(m - 1)
            /\ \A i \in places : i < m => Below(i) \subseteq Below(m - 1)
            /\ (\A j \in places : j <= m) => Below(m) = places
            /\ (\A j \in places : j > m) => Below(m) = {}
<1>1. \A j \in places : j <= m <=> j <= m - 1 \/ j = m
  OBVIOUS
<1>2. \A i, j \in places : i < m /\ j <= i => j <= m - 1
  OBVIOUS
<1>3. ~(m <= m - 1)
  OBVIOUS
<1>4. \A j \in places : j > m => ~(j <= m)
  OBVIOUS
<1> QED
  BY <1>1, <1>2, <1>3, <1>4, Zenon

PlacesIn(places, n) == n \in Nat /\ \A j \in places : j \in 1 .. n

LEMMA Ranks ==
  ASSUME NEW n \in Nat, NEW places, \A j \in places : j \in 1 .. n
  PROVE  /\ IsFiniteSet(places) /\ Cardinality(places) \in 0 .. n
         /\ \A k \in 1 .. Cardinality(places) : NthPlace(places, k) \in places
         /\ \A i \in places : \E k \in 1 .. Cardinality(places) : NthPlace(places, k) = i
<1> DEFINE Below(m) == {j \in places : j <= m}
<1>0. \A j \in places : j \in Int /\ 1 <= j /\ j <= n
  OBVIOUS
<1>1. IsFiniteSet(1 .. n) /\ Cardinality(1 .. n) = n
  BY FS_Interval
<1>2. IsFiniteSet(places) /\ Cardinality(places) \in Nat /\ Cardinality(places) <= n
  BY <1>1, FS_Subset, FS_CardinalityType
<1>3. \A m \in 0 .. n : Below(m) \subseteq places /\ IsFiniteSet(Below(m))
         /\ Cardinality(Below(m)) \in Nat
  BY <1>2, FS_Subset, FS_CardinalityType
<1>4. Below(0) = {} /\ Below(n) = places
  <2>1. 0 \in Int /\ n \in Int /\ \A j \in places : j > 0
    BY <1>0
  <2>2. \A j \in places : j \in Int
    BY <1>0
  <2>3. \A j \in places : j <= n
    BY <1>0
  <2>4. Below(0) = {}
    BY <2>1, <2>2, BelowStep
  <2>5. Below(n) = places
    BY <2>1, <2>2, <2>3, BelowStep
  <2> QED
    BY <2>4, <2>5
<1>5. Cardinality(Below(0)) = 0 /\ Cardinality(Below(n)) = Cardinality(places)
  BY <1>4, FS_EmptySet
<1>6. ASSUME NEW m \in 1 .. n
      PROVE  Cardinality(Below(m)) = Cardinality(Below(m - 1)) + IF m \in places THEN 1 ELSE 0
  <2>1. CASE m \in places
    <3>1. Below(m) = Below(m - 1) \cup {m} /\ m \notin Below(m - 1)
      BY <1>0, <2>1, BelowStep
    <3>2. m - 1 \in 0 .. n
      OBVIOUS
    <3> HIDE DEF Below
    <3> QED
      BY <1>3, <2>1, <3>1, <3>2, FS_AddElement
  <2>2. CASE m \notin places
    <3>1. Below(m) = Below(m - 1)
      <4>1. m \in Int /\ \A j \in places : j \in Int
        BY <1>0
      <4> QED
        BY <2>2, <4>1, BelowStep
    <3> HIDE DEF Below
    <3>2. m - 1 \in 0 .. n
      OBVIOUS
    <3> QED
      BY <1>3, <2>2, <3>1, <3>2
  <2> QED
    BY <2>1, <2>2
<1> HIDE DEF Below
<1>7. ASSUME NEW k \in 1 .. Cardinality(places)
      PROVE  \E i \in places : Cardinality(Below(i)) = k
  <2> DEFINE S == {m \in 0 .. n : Cardinality(Below(m)) >= k}
  <2>1. n \in S
    BY <1>2, <1>5
  <2> HIDE DEF S
  <2>2. PICK m \in S : \A i \in S : m <= i
    <3>1. S \subseteq Nat /\ S # {}
      BY <2>1 DEF S
    <3> QED
      BY <3>1, MinOfNats
  <2>3. m # 0
    BY <1>5, <2>2 DEF S
  <2>4. m \in 1 .. n /\ m - 1 \in 0 .. n /\ m - 1 \notin S
    BY <2>2, <2>3 DEF S
  <2>5. Cardinality(Below(m)) >= k /\ Cardinality(Below(m - 1)) < k
    BY <1>3, <2>2, <2>4 DEF S
  <2>6. m \in places /\ Cardinality(Below(m)) = k
    BY <1>3, <1>6, <2>4, <2>5
  <2> QED
    BY <2>6
<1>8. ASSUME NEW i \in places PROVE Cardinality(Below(i)) \in 1 .. Cardinality(places)
  <2>1. i \in 1 .. n /\ i - 1 \in 0 .. n /\ i \in 0 .. n
    OBVIOUS
  <2>2. Cardinality(Below(i)) = Cardinality(Below(i - 1)) + 1
    BY <1>6, <2>1
  <2>3. Cardinality(Below(i)) <= Cardinality(places)
    BY <1>2, <1>3, <2>1, FS_Subset
  <2> QED
    BY <1>2, <1>3, <2>1, <2>2, <2>3
<1>9. ASSUME NEW i \in places, NEW j \in places, Cardinality(Below(i)) = Cardinality(Below(j))
      PROVE  i = j
  <2>1. ASSUME NEW a \in places, NEW b \in places, a < b
        PROVE  Cardinality(Below(a)) # Cardinality(Below(b))
    <3>1. Below(a) \subseteq Below(b - 1)
      BY <1>0, <2>1, BelowStep DEF Below
    <3>2. b - 1 \in 0 .. n /\ a \in 0 .. n /\ b \in 1 .. n
      OBVIOUS
    <3>3. Cardinality(Below(a)) <= Cardinality(Below(b - 1))
      BY <1>3, <3>1, <3>2, FS_Subset
    <3>4. Cardinality(Below(b)) = Cardinality(Below(b - 1)) + 1
      BY <1>6, <3>2
    <3> QED
      BY <1>3, <3>2, <3>3, <3>4
  <2>2. i \in Int /\ j \in Int
    OBVIOUS
  <2> QED
    BY <1>9, <2>1, <2>2
<1>10. \A k : NthPlace(places, k) = CHOOSE i \in places : Cardinality(Below(i)) = k
  BY DEF NthPlace, Below
<1>11. \A k \in 1 .. Cardinality(places) :
         NthPlace(places, k) \in places /\ Cardinality(Below(NthPlace(places, k))) = k
  BY <1>7, <1>10
<1>12. ASSUME NEW i \in places
       PROVE  \E k \in 1 .. Cardinality(places) : NthPlace(places, k) = i
  <2>1. Cardinality(Below(i)) \in 1 .. Cardinality(places)
    BY <1>8
  <2>2. NthPlace(places, Cardinality(Below(i))) = i
    BY <1>9, <1>11, <2>1
  <2> QED
    BY <2>1, <2>2
<1> QED
  BY <1>2, <1>11, <1>12

LEMMA SelectedIs ==
  ASSUME NEW n, NEW list, NEW places, PlacesIn(places, n)
  PROVE  /\ Cardinality(places) \in Nat
         /\ DOMAIN Selected(list, places) = 1 .. Cardinality(places)
         /\ Len(Selected(list, places)) = Cardinality(places)
         /\ \A k \in DOMAIN Selected(list, places) :
              \E i \in places : Selected(list, places)[k] = list[i]
         /\ \A i \in places : \E k \in DOMAIN Selected(list, places) :
              Selected(list, places)[k] = list[i]
<1>0. n \in Nat /\ \A j \in places : j \in 1 .. n
  BY DEF PlacesIn
<1>1. /\ IsFiniteSet(places) /\ Cardinality(places) \in 0 .. n
      /\ \A k \in 1 .. Cardinality(places) : NthPlace(places, k) \in places
      /\ \A i \in places : \E k \in 1 .. Cardinality(places) : NthPlace(places, k) = i
  BY <1>0, Ranks
<1>2. Cardinality(places) \in Nat
  BY <1>1
<1>3. /\ DOMAIN Selected(list, places) = 1 .. Cardinality(places)
      /\ \A k \in 1 .. Cardinality(places) :
           Selected(list, places)[k] = list[NthPlace(places, k)]
  BY DEF Selected
<1>4. Len(Selected(list, places)) = Cardinality(places)
  BY <1>2 DEF Selected
<1> QED
  BY <1>1, <1>2, <1>3, <1>4

-----------------------------------------------------------------------------
(* Pages, events and the amounts of audit rows *)

LEMMA DisjointSizes ==
  ASSUME NEW a, NEW b, IsFiniteSet(a), IsFiniteSet(b), a \cap b = {}
  PROVE  Cardinality(a \cup b) = Cardinality(a) + Cardinality(b)
           /\ IsFiniteSet(a \cup b) /\ Cardinality(a) \in Nat /\ Cardinality(b) \in Nat
<1>1. Cardinality(a \cup b) = Cardinality(a) + Cardinality(b) - Cardinality(a \cap b)
        /\ IsFiniteSet(a \cup b)
  BY FS_Union
<1>2. Cardinality({}) = 0
  BY FS_EmptySet
<1>3. Cardinality(a) \in Nat /\ Cardinality(b) \in Nat
  BY FS_CardinalityType
<1>4. Cardinality(a \cap b) = 0
  BY <1>2
<1>5. Cardinality(a \cup b) = Cardinality(a) + Cardinality(b)
  BY <1>1, <1>3, <1>4
<1> QED
  BY <1>1, <1>3, <1>5

LEMMA ItemsAccounted ==
  ASSUME NEW page, NEW n \in Nat, DOMAIN page.actions = 1 .. n, Len(page.actions) = n, page.list
  PROVE  Len(History(page).events) + History(page).skipped
           + Cardinality({i \in DOMAIN page.actions :
                            page.actions[i].object /\ ~IsTransfer(page.actions[i])})
           = Len(page.actions)
<1> DEFINE all == 1 .. n
           a == CompleteAt(page)
           b == {i \in DOMAIN page.actions :
                   \/ ~page.actions[i].object
                   \/ IsTransfer(page.actions[i]) /\ ~Complete(page.actions[i])}
           c == {i \in DOMAIN page.actions :
                   page.actions[i].object /\ ~IsTransfer(page.actions[i])}
<1>1. a \subseteq all /\ b \subseteq all /\ c \subseteq all
  BY DEF CompleteAt
<1>2. a \cap b = {} /\ (a \cup b) \cap c = {} /\ (a \cup b) \cup c = all
  BY DEF CompleteAt, IsTransfer
<1>3. IsFiniteSet(all) /\ Cardinality(all) = n
  BY FS_Interval
<1>4. History(page).events = [i \in DOMAIN HandedOn(page) |-> Payload(HandedOn(page)[i], page)]
        /\ History(page).skipped = Cardinality(b)
  BY DEF History, Skipped
<1>5. Cardinality(a) \in Nat /\ DOMAIN HandedOn(page) = 1 .. Cardinality(a)
  <2>1. PlacesIn(CompleteAt(page), n)
    BY <1>1 DEF PlacesIn
  <2> QED
    BY <2>1, SelectedIs DEF HandedOn
<1> HIDE DEF a, b, c, all
<1>6. Len(History(page).events) = Cardinality(a)
  BY <1>4, <1>5
<1>7. /\ IsFiniteSet(a) /\ IsFiniteSet(b) /\ IsFiniteSet(c)
  BY <1>1, <1>3, FS_Subset
<1>8. Cardinality(a \cup b) = Cardinality(a) + Cardinality(b) /\ Cardinality(b) \in Nat
        /\ IsFiniteSet(a \cup b)
  BY <1>2, <1>7, DisjointSizes
<1>9. Cardinality(all) = Cardinality(a \cup b) + Cardinality(c) /\ Cardinality(c) \in Nat
  BY <1>2, <1>7, <1>8, DisjointSizes
<1>10. Cardinality(a) + Cardinality(b) + Cardinality(c) = n
  BY <1>3, <1>5, <1>8, <1>9
<1> QED
  BY <1>4, <1>6, <1>10 DEF c

LEMMA ReadersRead ==
  ASSUME NEW page, NEW n \in Nat, DOMAIN page.actions = 1 .. n
  PROVE  ToSet(History(page).events) \subseteq ToSet(Extracted(page).events)
<1>1. CASE ~page.list
  <2>1. History(page).events = <<>>
    BY <1>1 DEF History
  <2>2. DOMAIN History(page).events = {}
    BY <2>1
  <2> QED
    BY <2>2 DEF ToSet
<1>2. CASE page.list
  <2> DEFINE transfers == Selected(page.actions, TransfersAt(page))
             handed == HandedOn(page)
             read == [i \in DOMAIN transfers |-> Payload(Emptied(transfers[i]), page)]
             told == [i \in DOMAIN handed |-> Payload(handed[i], page)]
  <2>1. PlacesIn(CompleteAt(page), n) /\ PlacesIn(TransfersAt(page), n)
          /\ CompleteAt(page) \subseteq TransfersAt(page)
    BY DEF CompleteAt, TransfersAt, PlacesIn
  <2>2. /\ \A k \in DOMAIN handed : \E i \in CompleteAt(page) : handed[k] = page.actions[i]
        /\ \A i \in TransfersAt(page) : \E k \in DOMAIN transfers : transfers[k] = page.actions[i]
    <3>1. \A k \in DOMAIN handed : \E i \in CompleteAt(page) : handed[k] = page.actions[i]
      BY <2>1, SelectedIs DEF HandedOn
    <3>2. \A i \in TransfersAt(page) : \E k \in DOMAIN transfers : transfers[k] = page.actions[i]
      BY <2>1, SelectedIs
    <3> QED
      BY <3>1, <3>2
  <2>3. \A i \in CompleteAt(page) : Emptied(page.actions[i]) = page.actions[i]
    BY DEF CompleteAt, Complete, Emptied
  <2>4. History(page).events = told
    BY <1>2 DEF History
  <2>5. Extracted(page).events = read
    BY <1>2 DEF Extracted
  <2>6. ASSUME NEW k \in DOMAIN handed PROVE \E j \in DOMAIN read : read[j] = told[k]
    <3>1. PICK i \in CompleteAt(page) : handed[k] = page.actions[i]
      BY <2>2
    <3>2. PICK j \in DOMAIN transfers : transfers[j] = page.actions[i]
      BY <2>1, <2>2
    <3>3. Emptied(transfers[j]) = handed[k]
      BY <2>3, <3>1, <3>2
    <3> HIDE DEF transfers, handed
    <3> QED
      BY <3>3
  <2>7. DOMAIN told = DOMAIN handed
    OBVIOUS
  <2> HIDE DEF told, read
  <2> QED
    BY <2>4, <2>5, <2>6, <2>7 DEF ToSet
<1> QED
  BY <1>1, <1>2

LEMMA IdentityIs ==
  ASSUME NEW payload, NEW other,
         other.trace = payload.trace, other.hash = payload.hash, other.lt = payload.lt,
         other.index = payload.index, other.message = payload.message,
         other.master = payload.master
  PROVE  Identity(other) = Identity(payload)
         <=> /\ Decimal[Trim[other.amount]] = Decimal[Trim[payload.amount]]
             /\ CanonicalKey(other.destination) = CanonicalKey(payload.destination)
BY DEF Identity

LEMMA AmountRecorded ==
  ASSUME NEW campaign, DOMAIN campaign = 1 .. 1, campaign \in Seq({campaign[1]}),
         NEW recipients, PlanRefusal(recipients, 1) = None, DOMAIN recipients \subseteq Nat,
         NEW address, NEW i \in DOMAIN recipients, recipients[i].address = address
  PROVE  AuditAmount(campaign, recipients, address) = recipients[i].amount
<1>1. RecordedAddress(campaign, address) = address
  <2>1. PICK c : c = campaign[1]
    OBVIOUS
  <2>2. campaign = <<c>>
    BY <2>1
  <2> QED
    BY <2>2 DEF RecordedAddress, StateKeyParts
<1> DEFINE at == {j \in DOMAIN recipients : recipients[j].address = address}
<1>2. at = {i}
  BY PlanPasses
<1>3. Max({i}) = i
  BY DEF Max
<1>4. AuditAmount(campaign, recipients, address)
        = IF at = {} THEN NoNumber ELSE recipients[Max(at)].amount
  BY <1>1 DEF AuditAmount, AmountOf
<1> HIDE DEF at
<1> QED
  BY <1>2, <1>3, <1>4

-----------------------------------------------------------------------------
(* The folds of the evaluators.  Each goes through a finite set, at every step from *)
(* the set without one of its elements: the last position of a list, or, in a sum, *)
(* any path of a tree.                                                             *)

PickOf(kind, s) == IF kind = "tree" THEN CHOOSE x \in s : TRUE ELSE Max(s)

\* One step of a fold of each kind: after acc, the element or position x.
FoldStep(kind, a, b, acc, x) ==
  CASE kind = "shuffle" ->
         LET k == [i \in 1 .. Len(a) - 1 |-> i][x]
         IN Swapped(acc, Len(a) + 1 - k, b[Len(a) + 1 - k])
    [] kind = "screen" ->
         [seen |-> acc.seen \cup IF a[x].valid THEN {a[x].address} ELSE {},
          verdicts |-> Append(acc.verdicts, TargetRefusal(a[x], b, acc.seen))]
    [] kind = "column" -> acc + a[x][b]
    [] kind = "tree" -> a[x] + acc

Folding(g, kind, a, b, base, S) ==
  g = [s \in SUBSET S |->
         IF s = {} THEN base ELSE FoldStep(kind, a, b, g[s \ {PickOf(kind, s)}], PickOf(kind, s))]
FoldingTo(g, kind, a, b, base, n) == Folding(g, kind, a, b, base, 1 .. n)
Foldable(kind, S) == IsFiniteSet(S) /\ (kind # "tree" => S \subseteq Nat)

OfPlaces(kind) == kind # "tree"

LEMMA FoldablePart ==
  ASSUME NEW kind, NEW S, Foldable(kind, S), NEW T \in SUBSET S
  PROVE  Foldable(kind, T)
BY FS_Subset DEF Foldable

LEMMA SmallestPart ==
  ASSUME NEW S, IsFiniteSet(S), NEW C, C \subseteq SUBSET S, C # {}
  PROVE  \E t \in C : \A u \in C : u \subseteq t => u = t
<1> DEFINE sizes == {Cardinality(t) : t \in C}
<1>1. \A t \in C : IsFiniteSet(t) /\ Cardinality(t) \in Nat
  BY FS_Subset, FS_CardinalityType
<1>2. sizes \subseteq Nat /\ sizes # {}
  BY <1>1
<1>3. \E n \in sizes : \A k \in sizes : n <= k
  <2> HIDE DEF sizes
  <2> QED
    BY <1>2, MinOfNats
<1>4. PICK t \in C : \A u \in C : Cardinality(t) <= Cardinality(u)
  BY <1>3
<1>5. ASSUME NEW u \in C, u \subseteq t, u # t PROVE FALSE
  <2>1. Cardinality(u) <= Cardinality(t) /\ Cardinality(u) # Cardinality(t)
    BY <1>1, <1>5, FS_Subset
  <2> QED
    BY <1>1, <1>4, <2>1
<1> QED
  BY <1>5

LEMMA MaxOfPlaces ==
  ASSUME NEW S, Foldable("list", S), S # {}
  PROVE  Max(S) \in S /\ \A x \in S : x <= Max(S)
<1> DEFINE top(t) == \E m \in t : \A x \in t : m >= x
           C == {t \in SUBSET S : t # {} /\ ~top(t)}
<1>1. ASSUME NEW t \in C, \A u \in C : u \subseteq t => u = t PROVE FALSE
  <2>1. PICK a \in t : a \in Nat /\ \A x \in t : x \in Nat
    BY DEF Foldable
  <2>2. t \ {a} \notin C /\ t \ {a} \in SUBSET S
    BY <1>1, <2>1
  <2>3. CASE t \ {a} = {}
    BY <2>1, <2>3
  <2>4. CASE t \ {a} # {}
    <3>1. PICK m \in t \ {a} : \A x \in t \ {a} : m >= x
      BY <2>2, <2>4
    <3>2. CASE m >= a
      BY <3>1, <3>2
    <3>3. CASE ~(m >= a)
      BY <2>1, <3>1, <3>3
    <3> QED
      BY <3>2, <3>3
  <2> QED
    BY <2>3, <2>4
<1>2. C \subseteq SUBSET S /\ IsFiniteSet(S)
  BY DEF Foldable
<1>3. C = {}
  <2> HIDE DEF C
  <2> QED
    BY <1>1, <1>2, SmallestPart
<1>4. PICK m \in S : \A x \in S : m >= x
  BY <1>3
<1> QED
  BY <1>4 DEF Max

LEMMA PickIn ==
  ASSUME NEW kind, NEW S, Foldable(kind, S), S # {}
  PROVE  PickOf(kind, S) \in S
<1>1. CASE kind = "tree"
  BY <1>1 DEF PickOf
<1>2. CASE kind # "tree"
  <2>1. Foldable("list", S)
    BY <1>2 DEF Foldable
  <2> QED
    BY <1>2, <2>1, MaxOfPlaces DEF PickOf
<1> QED
  BY <1>1, <1>2

LEMMA FoldingAt ==
  ASSUME NEW kind, NEW a, NEW b, NEW base, NEW S, NEW g, Folding(g, kind, a, b, base, S),
         NEW s \in SUBSET S
  PROVE  g[s] = IF s = {} THEN base
                ELSE FoldStep(kind, a, b, g[s \ {PickOf(kind, s)}], PickOf(kind, s))
BY DEF Folding

LEMMA FoldingPick ==
  ASSUME NEW kind, NEW a, NEW b, NEW base, NEW S, NEW g, Folding(g, kind, a, b, base, S),
         NEW s \in SUBSET S, s # {}, NEW x, PickOf(kind, s) = x
  PROVE  g[s] = FoldStep(kind, a, b, g[s \ {x}], x)
BY FoldingAt

\* Two such functions agree where both are defined.
LEMMA FoldingUnique ==
  ASSUME NEW kind, NEW a, NEW b, NEW base, NEW S, Foldable(kind, S), NEW T \in SUBSET S,
         NEW g, Folding(g, kind, a, b, base, S), NEW h, Folding(h, kind, a, b, base, T)
  PROVE  \A s \in SUBSET T : g[s] = h[s]
<1> DEFINE C == {s \in SUBSET T : g[s] # h[s]}
<1>1. SUFFICES ASSUME C # {} PROVE FALSE
  OBVIOUS
<1>2. C \subseteq SUBSET T /\ IsFiniteSet(T)
  BY FS_Subset DEF Foldable
<1>3. \E t \in C : \A u \in C : u \subseteq t => u = t
  <2> HIDE DEF C
  <2> QED
    BY <1>1, <1>2, SmallestPart
<1>4. PICK t \in C : \A u \in C : u \subseteq t => u = t
  BY <1>3
<1>5. t \in SUBSET T /\ t \in SUBSET S /\ g[t] # h[t]
  OBVIOUS
<1> DEFINE x == PickOf(kind, t)
<1>6. /\ g[t] = IF t = {} THEN base ELSE FoldStep(kind, a, b, g[t \ {x}], x)
      /\ h[t] = IF t = {} THEN base ELSE FoldStep(kind, a, b, h[t \ {x}], x)
  BY <1>5, FoldingAt
<1>7. t # {} /\ x \in t
  BY <1>5, <1>6, FoldablePart, PickIn
<1>8. t \ {x} \notin C
  BY <1>4, <1>7
<1> HIDE DEF x
<1> QED
  BY <1>5, <1>6, <1>7, <1>8

\* The function a fold is defined by exists: from those of the proper subsets of a least
\* set without one, one for that set could be made.
LEMMA FoldingExists ==
  ASSUME NEW kind, NEW a, NEW b, NEW base, NEW S, Foldable(kind, S)
  PROVE  \E g : Folding(g, kind, a, b, base, S)
<1> DEFINE C == {s \in SUBSET S : ~\E g : Folding(g, kind, a, b, base, s)}
           Pick(s) == PickOf(kind, s)
<1>1. SUFFICES ASSUME C # {} PROVE FALSE
  OBVIOUS
<1>2. PICK t \in C : \A u \in C : u \subseteq t => u = t
  <2>1. C \subseteq SUBSET S /\ IsFiniteSet(S)
    BY DEF Foldable
  <2> HIDE DEF C
  <2> QED
    BY <1>1, <2>1, SmallestPart
<1>3. Foldable(kind, t) /\ t \in SUBSET S
  BY FoldablePart
<1> DEFINE of(s) == CHOOSE h : Folding(h, kind, a, b, base, s)
           value(s) == of(s)[s]
           rest(s) == IF s = {} THEN base ELSE FoldStep(kind, a, b, value(s \ {Pick(s)}), Pick(s))
           g == [s \in SUBSET t |-> rest(s)]
<1>4. ASSUME NEW s \in SUBSET t, s # t
      PROVE  Folding(of(s), kind, a, b, base, s) /\ Foldable(kind, s)
  BY <1>2, <1>3, <1>4, FoldablePart
<1>5. ASSUME NEW s \in SUBSET t, s # {}
      PROVE  g[s \ {Pick(s)}] = value(s \ {Pick(s)})
  <2>1. Pick(s) \in s
    BY <1>3, <1>5, FoldablePart, PickIn
  <2>2. PICK u : u = s \ {Pick(s)}
    OBVIOUS
  <2>3. u \in SUBSET t /\ u # t
    BY <2>1, <2>2
  <2>4. g[u] = rest(u)
    BY <2>3
  <2>5. Folding(of(u), kind, a, b, base, u) /\ Foldable(kind, u)
    BY <1>4, <2>3
  <2>6. value(u) = IF u = {} THEN base ELSE FoldStep(kind, a, b, of(u)[u \ {Pick(u)}], Pick(u))
    <3> HIDE DEF of
    <3>1. u \in SUBSET u
      OBVIOUS
    <3> QED
      BY <2>5, <3>1, FoldingAt
  <2>7. CASE u # {}
    <3>1. PICK v : v = u \ {Pick(u)}
      OBVIOUS
    <3>2. Pick(u) \in u
      BY <2>5, <2>7, PickIn
    <3>3. v \in SUBSET t /\ v # t /\ v \in SUBSET u
      BY <2>3, <3>1, <3>2
    <3>4. Folding(of(v), kind, a, b, base, v)
      BY <1>4, <3>3
    <3>5. of(u)[v] = of(v)[v]
      <4> HIDE DEF of
      <4>1. v \in SUBSET v
        OBVIOUS
      <4> QED
        BY <2>5, <3>3, <3>4, <4>1, FoldingUnique
    <3> HIDE DEF of
    <3> QED
      BY <2>2, <2>4, <2>6, <2>7, <3>1, <3>5
  <2>8. CASE u = {}
    <3> HIDE DEF of
    <3> QED
      BY <2>2, <2>4, <2>6, <2>8
  <2> QED
    BY <2>7, <2>8
<1>6. g = [s \in SUBSET t |->
             IF s = {} THEN base ELSE FoldStep(kind, a, b, g[s \ {Pick(s)}], Pick(s))]
  <2> HIDE DEF value
  <2>1. \A s \in SUBSET t :
          rest(s) = IF s = {} THEN base ELSE FoldStep(kind, a, b, g[s \ {Pick(s)}], Pick(s))
    BY <1>5
  <2> QED
    BY <2>1
<1>7. Folding(g, kind, a, b, base, t)
  BY <1>6 DEF Folding
<1> QED
  BY <1>7

\* A fold over a list takes its places one after the other.
LEMMA FoldingPlaces ==
  ASSUME NEW kind, OfPlaces(kind), NEW a, NEW b, NEW base, NEW n \in Nat,
         NEW g, FoldingTo(g, kind, a, b, base, n)
  PROVE  /\ g[1 .. 0] = base
         /\ \A k \in 1 .. n : g[1 .. k] = FoldStep(kind, a, b, g[1 .. k - 1], k)
<1> DEFINE To(k) == 1 .. k
<1>1. To(0) = {} /\ \A k \in 0 .. n : To(k) \in SUBSET To(n)
  OBVIOUS
<1>2. \A k \in 1 .. n : To(k) # {} /\ To(k) \ {k} = To(k - 1) /\ k \in To(k)
  OBVIOUS
<1>3. ASSUME NEW k \in 1 .. n PROVE PickOf(kind, To(k)) = k
  <2>1. Foldable("list", To(k))
    BY FS_Interval DEF Foldable
  <2>2. Max(To(k)) \in To(k) /\ \A x \in To(k) : x <= Max(To(k))
    <3> HIDE DEF To
    <3> QED
      BY <1>2, <2>1, MaxOfPlaces
  <2>3. PICK m \in To(k) : m = Max(To(k)) /\ k <= m
    BY <1>2, <2>2
  <2>4. m = k
    BY <2>3
  <2> QED
    BY <2>3, <2>4 DEF PickOf, OfPlaces
<1>4. PICK S : S = To(n)
  OBVIOUS
<1>5. Folding(g, kind, a, b, base, S) /\ 0 \in 0 .. n
  BY <1>4 DEF FoldingTo
<1>6. g[To(0)] = base
  <2>1. PICK s : s = To(0)
    OBVIOUS
  <2>2. s = {} /\ s \in SUBSET S
    BY <1>1, <1>4, <1>5, <2>1
  <2> HIDE DEF To
  <2>3. g[s] = base
    BY <1>5, <2>2, FoldingAt
  <2> QED
    BY <2>1, <2>3
<1>7. ASSUME NEW k \in 1 .. n PROVE g[To(k)] = FoldStep(kind, a, b, g[To(k - 1)], k)
  <2>1. k \in 0 .. n
    OBVIOUS
  <2>2. PICK s : s = To(k)
    OBVIOUS
  <2> HIDE DEF To
  <2>3. s # {} /\ s \in SUBSET S /\ PickOf(kind, s) = k
    BY <1>1, <1>2, <1>3, <1>4, <2>1, <2>2
  <2>4. g[s] = FoldStep(kind, a, b, g[s \ {k}], k)
    BY <1>5, <2>3, FoldingPick
  <2> QED
    BY <1>2, <2>2, <2>4
<1> QED
  BY <1>6, <1>7

-----------------------------------------------------------------------------
(* The plan of the batches *)

LEMMA TwoBounds ==
  ASSUME NEW a \in Int, NEW b \in Int
  PROVE  /\ Min({a, b}) = IF a <= b THEN a ELSE b
         /\ Max({a, b}) = IF a >= b THEN a ELSE b
<1>1. CASE a <= b
  <2>1. \A x \in {a, b} : (\A y \in {a, b} : x <= y) => x = a
    BY <1>1
  <2>2. \A y \in {a, b} : a <= y
    BY <1>1
  <2>3. Min({a, b}) = a
    BY <2>1, <2>2 DEF Min
  <2>4. \A x \in {a, b} : (\A y \in {a, b} : x >= y) => x = b
    BY <1>1
  <2>5. \A y \in {a, b} : b >= y
    BY <1>1
  <2>6. Max({a, b}) = b
    BY <2>4, <2>5 DEF Max
  <2> QED
    BY <1>1, <2>3, <2>6
<1>2. CASE ~(a <= b)
  <2>1. \A x \in {a, b} : (\A y \in {a, b} : x <= y) => x = b
    BY <1>2
  <2>2. \A y \in {a, b} : b <= y
    BY <1>2
  <2>3. Min({a, b}) = b
    BY <2>1, <2>2 DEF Min
  <2>4. \A x \in {a, b} : (\A y \in {a, b} : x >= y) => x = a
    BY <1>2
  <2>5. \A y \in {a, b} : a >= y
    BY <1>2
  <2>6. Max({a, b}) = a
    BY <2>4, <2>5 DEF Max
  <2> QED
    BY <1>2, <2>3, <2>6
<1> QED
  BY <1>1, <1>2

\* A list whose lists are put one behind the other.
Joins(g, seqs, c) ==
  /\ c \in Nat \ {0} /\ Len(seqs) = c
  /\ DOMAIN g = 1 .. c /\ g = [i \in DOMAIN g |-> g[i]]
  /\ \A i \in DOMAIN g : g[i] = IF i = 1 THEN seqs[i] ELSE g[i - 1] \o seqs[i]

LEMMA Flattened ==
  ASSUME NEW seqs, NEW c, NEW g, Joins(g, seqs, c)
  PROVE  FlattenSeq(seqs) = g[c]
<1> DEFINE Flat(f) == f = [i \in 1 .. Len(seqs) |-> IF i = 1 THEN seqs[i] ELSE f[i - 1] \o seqs[i]]
           h == CHOOSE f : Flat(f)
<1>0. /\ c \in Nat \ {0} /\ Len(seqs) = c
      /\ DOMAIN g = 1 .. c /\ g = [i \in DOMAIN g |-> g[i]]
      /\ \A i \in DOMAIN g : g[i] = IF i = 1 THEN seqs[i] ELSE g[i - 1] \o seqs[i]
  BY DEF Joins
<1>1. Flat(g)
  <2>1. g = [i \in 1 .. c |-> g[i]]
    BY <1>0
  <2>2. \A i \in 1 .. c : g[i] = IF i = 1 THEN seqs[i] ELSE g[i - 1] \o seqs[i]
    BY <1>0
  <2> QED
    BY <1>0, <2>1, <2>2, Zenon
<1>2. Flat(h)
  <2> HIDE DEF Flat
  <2> QED
    BY <1>1
<1>3. FlattenSeq(seqs) = h[c]
  BY <1>0 DEF FlattenSeq
<1> HIDE DEF h
<1>4. /\ \A i \in 1 .. c : h[i] = IF i = 1 THEN seqs[i] ELSE h[i - 1] \o seqs[i]
      /\ \A i \in 1 .. c : g[i] = IF i = 1 THEN seqs[i] ELSE g[i - 1] \o seqs[i]
  BY <1>0, <1>1, <1>2
<1> DEFINE B == {i \in 1 .. c : h[i] # g[i]}
<1>5. B = {}
  <2>1. SUFFICES ASSUME B # {} PROVE FALSE
    OBVIOUS
  <2>2. PICK m \in B : \A i \in B : m <= i
    <3>1. B \subseteq Nat
      BY <1>0
    <3> HIDE DEF B
    <3> QED
      BY <2>1, <3>1, MinOfNats
  <2>3. m \in 1 .. c /\ h[m] # g[m]
    OBVIOUS
  <2>4. m # 1
    BY <1>4, <2>3
  <2>5. m - 1 \in 1 .. c /\ ~(m <= m - 1)
    BY <1>0, <2>3, <2>4
  <2>6. h[m - 1] = g[m - 1]
    BY <2>2, <2>5
  <2> QED
    BY <1>4, <2>3, <2>4, <2>6
<1>6. c \in 1 .. c
  BY <1>0
<1> QED
  BY <1>3, <1>5, <1>6

\* A list with places D, and in them just what is in R.
ListOf(acc, D, R) == acc \in [D -> R] /\ {acc[x] : x \in D} = R

LEMMA SwapKeeps ==
  ASSUME NEW D, NEW R, NEW acc, ListOf(acc, D, R), NEW i \in D, NEW j \in D
  PROVE  ListOf(Swapped(acc, i, j), D, R)
<1> DEFINE new == Swapped(acc, i, j)
<1>0. acc \in [D -> R] /\ {acc[x] : x \in D} = R
  BY DEF ListOf
<1>1. new = [x \in D |-> IF x = j THEN acc[i] ELSE IF x = i THEN acc[j] ELSE acc[x]]
  BY <1>0 DEF Swapped
<1>2. \A x \in D : \E y \in D : new[y] = acc[x]
  <2> SUFFICES ASSUME NEW x \in D PROVE \E y \in D : new[y] = acc[x]
    OBVIOUS
  <2>1. CASE x = i
    BY <1>1, <2>1
  <2>2. CASE x = j
    BY <1>1, <2>2
  <2>3. CASE x # i /\ x # j
    BY <1>1, <2>3
  <2> QED
    BY <2>1, <2>2, <2>3
<1>3. new \in [D -> R]
  BY <1>0, <1>1
<1>4. ListOf(new, D, R)
  <2> HIDE DEF new
  <2> QED
    BY <1>0, <1>2, <1>3 DEF ListOf
<1> QED
  BY <1>4

LEMMA ShuffledFolds ==
  ASSUME NEW s, NEW n \in Nat, NEW picks, Len(s) \in Nat,
         n = IF Len(s) = 0 THEN 0 ELSE Len(s) - 1
  PROVE  \E g : /\ FoldingTo(g, "shuffle", s, picks, s, n)
                /\ Shuffled(s, picks) = g[1 .. n]
<1> DEFINE places == [k \in 1 .. Len(s) - 1 |-> k]
           Step(acc, k) == Swapped(acc, Len(s) + 1 - k, picks[Len(s) + 1 - k])
           Folds(g) == g = [t \in SUBSET DOMAIN places |->
                              IF t = {} THEN s
                              ELSE Step(g[t \ {Max(t)}], places[Max(t)])]
           iter == CHOOSE g : Folds(g)
<1>1. Shuffled(s, picks) = iter[DOMAIN places]
  BY DEF Shuffled, FoldLeft, MapThenFoldSet
<1>2. DOMAIN places = 1 .. n
  OBVIOUS
<1>3. \A g : Folds(g) <=> Folding(g, "shuffle", s, picks, s, DOMAIN places)
  BY DEF Folding, FoldStep, PickOf
<1>4. Foldable("shuffle", DOMAIN places)
  <2>1. 1 \in Int /\ n \in Int /\ 1 .. n \subseteq Nat
    OBVIOUS
  <2>2. IsFiniteSet(1 .. n)
    BY <2>1, FS_Interval, Zenon
  <2> QED
    BY <1>2, <2>1, <2>2 DEF Foldable
<1>5. Folding(iter, "shuffle", s, picks, s, DOMAIN places)
  <2> HIDE DEF Folds
  <2> QED
    BY <1>3, <1>4, FoldingExists
<1> HIDE DEF iter
<1> QED
  BY <1>1, <1>2, <1>5 DEF FoldingTo

LEMMA ShuffledIs ==
  ASSUME NEW s, NEW n \in Nat, NEW R, ListOf(s, 1 .. n, R), Len(s) = n,
         NEW picks, \A i \in 1 .. n : picks[i] \in 1 .. i
  PROVE  ListOf(Shuffled(s, picks), 1 .. n, R)
<1> DEFINE Good(acc) == ListOf(acc, 1 .. n, R)
<1> DEFINE m == IF n = 0 THEN 0 ELSE n - 1
<1>1. m \in Nat /\ \A k \in 1 .. m : m = n - 1
  OBVIOUS
<1>2. PICK g : FoldingTo(g, "shuffle", s, picks, s, m) /\ Shuffled(s, picks) = g[1 .. m]
  <2>1. m = IF Len(s) = 0 THEN 0 ELSE Len(s) - 1
    OBVIOUS
  <2> HIDE DEF m
  <2> QED
    BY <1>1, <2>1, ShuffledFolds
<1>3. /\ g[1 .. 0] = s
      /\ \A k \in 1 .. m : g[1 .. k] = FoldStep("shuffle", s, picks, g[1 .. k - 1], k)
  <2>1. OfPlaces("shuffle")
    BY DEF OfPlaces
  <2> HIDE DEF m
  <2> QED
    BY <1>1, <1>2, <2>1, FoldingPlaces
<1>4. ASSUME NEW k \in 1 .. m, Good(g[1 .. k - 1]) PROVE Good(g[1 .. k])
  <2>1. n + 1 - k \in 1 .. n /\ picks[n + 1 - k] \in 1 .. n
    <3>1. n + 1 - k \in 1 .. n
      BY <1>1
    <3> QED
      BY <3>1
  <2>2. FoldStep("shuffle", s, picks, g[1 .. k - 1], k)
          = Swapped(g[1 .. k - 1], n + 1 - k, picks[n + 1 - k])
    BY DEF FoldStep
  <2>3. Good(Swapped(g[1 .. k - 1], n + 1 - k, picks[n + 1 - k]))
    BY <1>4, <2>1, SwapKeeps
  <2> QED
    BY <1>3, <2>2, <2>3
<1> DEFINE B == {k \in 0 .. m : ~Good(g[1 .. k])}
<1>5. B = {}
  <2>1. SUFFICES ASSUME B # {} PROVE FALSE
    OBVIOUS
  <2>2. PICK k \in B : \A i \in B : k <= i
    <3>1. B \subseteq Nat
      OBVIOUS
    <3> HIDE DEF B
    <3> QED
      BY <2>1, <3>1, MinOfNats
  <2>3. k \in 0 .. m /\ ~Good(g[1 .. k])
    OBVIOUS
  <2>4. k # 0
    <3>1. Good(s)
      OBVIOUS
    <3> QED
      BY <1>3, <2>3, <3>1
  <2>5. k \in 1 .. m /\ k - 1 \in 0 .. m /\ ~(k <= k - 1)
    BY <1>1, <2>3, <2>4
  <2>6. Good(g[1 .. k - 1])
    BY <2>2, <2>5
  <2> QED
    BY <1>4, <2>3, <2>5, <2>6
<1>6. Good(g[1 .. m])
  <2>1. m \in 0 .. m
    BY <1>1
  <2> HIDE DEF Good, m
  <2> QED
    BY <1>5, <2>1
<1> QED
  BY <1>2, <1>6

LEMMA PartsJoin ==
  ASSUME NEW R, NEW q \in Seq(R), NEW mid \in Nat, NEW end \in Nat, mid <= end, end <= Len(q)
  PROVE  SubSeq(q, 1, end) = SubSeq(q, 1, mid) \o SubSeq(q, mid + 1, end)
<1> DEFINE a == SubSeq(q, 1, mid)
           b == SubSeq(q, mid + 1, end)
           c == SubSeq(q, 1, end)
<1>1. /\ a \in Seq(R) /\ Len(a) = mid /\ \A i \in 1 .. mid : a[i] = q[i]
      /\ b \in Seq(R) /\ Len(b) = end - mid /\ \A i \in 1 .. end - mid : b[i] = q[mid + i]
      /\ c \in Seq(R) /\ Len(c) = end /\ \A i \in 1 .. end : c[i] = q[i]
  <2>1. a \in Seq(R) /\ Len(a) = mid /\ \A i \in 1 .. mid : a[i] = q[i]
    OBVIOUS
  <2>2. b \in Seq(R)
    OBVIOUS
  <2>3. Len(b) = end - mid
    OBVIOUS
  <2>4. \A i \in 1 .. end - mid : b[i] = q[mid + i]
    OBVIOUS
  <2>5. c \in Seq(R) /\ Len(c) = end /\ \A i \in 1 .. end : c[i] = q[i]
    OBVIOUS
  <2> HIDE DEF a, b, c
  <2> QED
    BY <2>1, <2>2, <2>3, <2>4, <2>5
<1> HIDE DEF a, b, c
<1>2. a \o b \in Seq(R) /\ Len(a \o b) = end
  BY <1>1
<1>3. ASSUME NEW i \in 1 .. end PROVE (a \o b)[i] = c[i]
  <2>1. CASE i <= mid
    BY <1>1, <2>1
  <2>2. CASE ~(i <= mid)
    <3>1. i - mid \in 1 .. end - mid /\ mid + (i - mid) = i
      BY <2>2
    <3>2. (a \o b)[i] = b[i - mid]
      BY <1>1, <2>2
    <3> QED
      BY <1>1, <3>1, <3>2
  <2> QED
    BY <2>1, <2>2
<1> QED
  BY <1>1, <1>2, <1>3 DEF a, b, c

LEMMA SizePlanned ==
  ASSUME NEW recipients, NEW size \in Int, PlanRefusal(recipients, size) = None
  PROVE  size \in Nat \ {0}
<1>1. ~(size < 1)
  BY PlanPasses, Zenon
<1> QED
  BY <1>1

LEMMA Times ==
  ASSUME NEW a \in Nat, NEW b \in Nat, NEW s \in Nat, a <= b
  PROVE  a * s \in Nat /\ b * s \in Nat /\ a * s <= b * s /\ (b + 1) * s = b * s + s
OBVIOUS

LEMMA DividedUp ==
  ASSUME NEW a \in Nat, NEW s \in Nat \ {0}
  PROVE  LET c == (a + s - 1) \div s
         IN c \in Nat /\ (a > 0 => c > 0) /\ (a = 0 => c = 0) /\ c * s >= a /\ (c - 1) * s < a
<1>1. PICK d \in Nat : d = a + s - 1
  OBVIOUS
<1>2. PICK c \in Nat : c = d \div s
  OBVIOUS
<1>3. \E r \in 0 .. s - 1 : d = s * c + r
  <2>1. \A e \in Int, t \in Nat \ {0} : e % t \in 0 .. t - 1 /\ e = t * (e \div t) + (e % t)
    OBVIOUS
  <2>2. d % s \in 0 .. s - 1 /\ d = s * (d \div s) + (d % s)
    BY <2>1
  <2> QED
    BY <1>2, <2>2
<1>4. PICK m \in Nat : m = c * s
  OBVIOUS
<1>5. m <= d /\ d < m + s
  BY <1>3, <1>4
<1>6. (c - 1) * s = m - s
  BY <1>4
<1>7. m >= a /\ m - s < a
  BY <1>1, <1>5
<1>8. c = 0 => m = 0
  BY <1>4
<1>9. c > 0 => m >= s
  BY <1>4
<1>10. (a > 0 => c > 0) /\ (a = 0 => c = 0)
  BY <1>1, <1>5, <1>8, <1>9
<1> QED
  BY <1>1, <1>2, <1>4, <1>6, <1>7, <1>10

\* Every recipient is in one batch of the plan, and only the last batch is not full.
LEMMA RecipientsPlanned ==
  ASSUME NEW recipients, NEW n \in Nat, DOMAIN recipients = 1 .. n, Len(recipients) = n,
         recipients = [i \in 1 .. n |-> recipients[i]],
         NEW size \in Int, NEW picks, \A i \in 1 .. n : picks[i] \in 1 .. i,
         PlanRefusal(recipients, size) = None
  PROVE  LET plan == Planned(recipients, size, picks)
             all == FlattenSeq(plan)
         IN /\ Len(all) = Len(recipients) /\ ToSet(all) = ToSet(recipients)
            /\ \A b \in 1 .. Len(plan) - 1 : Len(plan[b]) = size
<1> DEFINE plan == Planned(recipients, size, picks)
           ordered == Shuffled(recipients, picks)
           R == {recipients[i] : i \in 1 .. n}
           To(b) == Min({b * size, n})
           count == (n + size - 1) \div size
<1>1. size \in Nat \ {0}
  BY SizePlanned
<1>2. ListOf(ordered, 1 .. n, R)
  <2>1. ListOf(recipients, 1 .. n, R)
    BY DEF ListOf
  <2> HIDE DEF R
  <2> QED
    BY <2>1, ShuffledIs
<1>3. ordered \in [1 .. n -> R] /\ {ordered[i] : i \in 1 .. n} = R
  BY <1>2 DEF ListOf
<1>4. ordered \in Seq(R) /\ Len(ordered) = n
  <2> HIDE DEF ordered, R
  <2> QED
    BY <1>3
<1>5. plan = [b \in 1 .. count |-> SubSeq(ordered, (b - 1) * size + 1, To(b))]
  BY <1>4 DEF Planned
<1> HIDE DEF ordered, R, plan
<1>7. count \in Nat /\ (n > 0 => count > 0) /\ (n = 0 => count = 0) /\ count * size >= n
        /\ (count - 1) * size < n
  BY <1>1, DividedUp
<1> HIDE DEF count
<1>8. Len(plan) = count
  BY <1>5, <1>7
<1>10. ASSUME NEW b \in 1 .. count
       PROVE  /\ (b - 1) * size \in Nat /\ (b - 1) * size < n
              /\ b * size = (b - 1) * size + size
              /\ b < count => b * size < n
              /\ b = count => b * size >= n
              /\ To(b) = IF b < count THEN b * size ELSE n
  <2>1. PICK p \in Nat, q \in Nat : p = b - 1 /\ q = count - 1
    BY <1>7
  <2>2. size \in Nat /\ b \in Nat /\ p <= q /\ p + 1 = b /\ (b < count => b <= q)
    BY <1>1, <1>7, <2>1
  <2>3. p * size <= q * size /\ p * size \in Nat /\ q * size \in Nat
    BY <2>2, Times
  <2>4. b < count => b * size <= q * size
    BY <2>2, Times
  <2>5. b * size = p * size + size
    BY <2>2, Times
  <2>6. b = count => b * size >= n
    BY <1>7
  <2>7. b < count => b * size < n
    <3>1. q * size < n
      BY <1>7, <2>1
    <3>2. PICK m \in Nat, l \in Nat : m = q * size /\ l = b * size
      BY <2>2, <2>3
    <3> QED
      BY <2>4, <3>1, <3>2
  <2>8. p * size < n
    BY <1>7, <2>1, <2>3
  <2>9. To(b) = IF b * size <= n THEN b * size ELSE n
    <3>1. b * size \in Int
      BY <2>2
    <3> QED
      BY <3>1, TwoBounds
  <2>10. b = count \/ b < count
    BY <1>7
  <2>11. To(b) = IF b < count THEN b * size ELSE n
    <3> HIDE DEF To
    <3>1. CASE b < count
      BY <2>2, <2>7, <2>9, <3>1
    <3>2. CASE b = count
      BY <2>1, <2>2, <2>6, <2>9, <3>2
    <3> QED
      BY <2>10, <3>1, <3>2
  <2> HIDE DEF To
  <2> QED
    BY <2>1, <2>3, <2>5, <2>6, <2>7, <2>8, <2>11
<1> HIDE DEF To
<1>11. \A b \in 1 .. Len(plan) - 1 : Len(plan[b]) = size
  <2> SUFFICES ASSUME NEW b \in 1 .. Len(plan) - 1 PROVE Len(plan[b]) = size
    OBVIOUS
  <2>1. b \in 1 .. count /\ b < count
    BY <1>7, <1>8
  <2>2. PICK from : from = (b - 1) * size
    OBVIOUS
  <2>3. from \in Nat /\ To(b) = from + size /\ from + size < n
    BY <1>1, <1>10, <2>1, <2>2
  <2>4. plan[b] = SubSeq(ordered, from + 1, from + size)
    BY <1>5, <2>1, <2>2, <2>3
  <2> QED
    BY <1>1, <1>4, <2>3, <2>4
<1>12. CASE n = 0
  <2>1. plan = <<>> /\ Len(plan) = 0
    BY <1>5, <1>7, <1>8, <1>12
  <2>2. FlattenSeq(plan) = plan
    BY <2>1 DEF FlattenSeq
  <2>3. ToSet(plan) = {} /\ ToSet(recipients) = {}
    BY <1>12, <2>1 DEF ToSet
  <2> QED
    BY <1>11, <1>12, <2>1, <2>2, <2>3 DEF plan
<1>13. CASE n # 0
  <2> DEFINE first == [b \in 1 .. count |-> SubSeq(ordered, 1, To(b))]
  <2>1. count \in Nat \ {0}
    BY <1>7, <1>13
  <2>2. ASSUME NEW b \in 1 .. count
        PROVE  first[b] = IF b = 1 THEN plan[b] ELSE first[b - 1] \o plan[b]
    <3>0. PICK from : from = (b - 1) * size
      OBVIOUS
    <3>1. plan[b] = SubSeq(ordered, from + 1, To(b))
      BY <1>5, <3>0
    <3>2. CASE b = 1
      <4>1. from = 0
        BY <1>1, <3>0, <3>2
      <4>2. first[b] = SubSeq(ordered, 1, To(b))
        OBVIOUS
      <4>3. from + 1 = 1
        BY <4>1
      <4> HIDE DEF first
      <4> QED
        BY <3>1, <3>2, <4>2, <4>3
    <3>3. CASE b # 1
      <4>1. b - 1 \in 1 .. count /\ b - 1 < count
        BY <1>7, <3>3
      <4>2. PICK mid : mid = (b - 1) * size
        OBVIOUS
      <4>3. To(b - 1) = mid /\ mid \in Nat /\ mid < n
        BY <1>10, <4>1, <4>2
      <4>4. PICK end : end = To(b)
        OBVIOUS
      <4>5. end \in Nat /\ mid <= end /\ end <= n
        <5>1. PICK e : e = b * size
          OBVIOUS
        <5>2. e = mid + size /\ (b < count => e < n) /\ To(b) = IF b < count THEN e ELSE n
          BY <1>10, <4>2, <5>1
        <5> QED
          BY <1>1, <4>3, <4>4, <5>2
      <4>6. SubSeq(ordered, 1, end) = SubSeq(ordered, 1, mid) \o SubSeq(ordered, mid + 1, end)
        BY <1>4, <4>3, <4>5, PartsJoin
      <4> QED
        BY <3>0, <3>1, <3>3, <4>1, <4>2, <4>3, <4>4, <4>6
    <3> QED
      BY <3>2, <3>3
  <2>3. DOMAIN first = 1 .. count /\ first = [b \in DOMAIN first |-> first[b]]
    OBVIOUS
  <2>4. first[count] = ordered
    <3>1. count \in 1 .. count /\ ~(count < count)
      BY <2>1
    <3>2. To(count) = n
      BY <1>10, <3>1
    <3>3. SubSeq(ordered, 1, n) = ordered
      BY <1>4
    <3> QED
      BY <3>1, <3>2, <3>3
  <2>5. FlattenSeq(plan) = ordered
    <3> HIDE DEF first
    <3>1. \A i \in DOMAIN first : first[i] = IF i = 1 THEN plan[i] ELSE first[i - 1] \o plan[i]
      BY <2>2, <2>3
    <3>0. Joins(first, plan, count)
      BY <1>8, <2>1, <2>3, <3>1 DEF Joins
    <3>2. FlattenSeq(plan) = first[count]
      BY <3>0, Flattened
    <3> QED
      BY <2>4, <3>2
  <2>6. ToSet(ordered) = R /\ ToSet(recipients) = R
    <3>1. DOMAIN ordered = 1 .. n
      BY <1>3
    <3> QED
      BY <1>3, <3>1 DEF ToSet, R
  <2> QED
    BY <1>4, <1>11, <2>5, <2>6 DEF plan
<1> QED
  BY <1>12, <1>13

-----------------------------------------------------------------------------
(* The sums of the report *)

LEMMA Upwards ==
  ASSUME NEW n \in Nat, NEW P, 0 \in P, \A k \in 1 .. n : k - 1 \in P => k \in P
  PROVE  \A k \in 0 .. n : k \in P
<1> DEFINE B == {k \in 0 .. n : k \notin P}
<1>1. SUFFICES ASSUME B # {} PROVE FALSE
  OBVIOUS
<1>2. PICK k \in B : \A i \in B : k <= i
  <2>1. B \subseteq Nat
    OBVIOUS
  <2> HIDE DEF B
  <2> QED
    BY <1>1, <2>1, MinOfNats
<1>3. k \in 1 .. n /\ k - 1 \in 0 .. n /\ ~(k <= k - 1)
  <2>1. k \in 0 .. n /\ k # 0
    OBVIOUS
  <2> QED
    BY <2>1
<1>4. k - 1 \in P
  BY <1>2, <1>3
<1> QED
  BY <1>3, <1>4

LEMMA ColumnFolds ==
  ASSUME NEW s, NEW n \in Nat, DOMAIN s = 1 .. n, NEW name
  PROVE  \E g : FoldingTo(g, "column", s, name, 0, n) /\ Column(s, name) = g[1 .. n]
<1> DEFINE Folds(g) == g = [t \in SUBSET DOMAIN s |->
                              IF t = {} THEN 0 ELSE g[t \ {Max(t)}] + s[Max(t)][name]]
           iter == CHOOSE g : Folds(g)
<1>1. Column(s, name) = iter[DOMAIN s]
  BY DEF Column, FoldLeft, MapThenFoldSet
<1>3. \A g : Folds(g) <=> Folding(g, "column", s, name, 0, DOMAIN s)
  BY DEF Folding, FoldStep, PickOf
<1>4. Foldable("column", DOMAIN s)
  <2>1. IsFiniteSet(1 .. n) /\ 1 .. n \subseteq Nat
    BY FS_Interval
  <2> QED
    BY <2>1 DEF Foldable
<1>5. Folding(iter, "column", s, name, 0, DOMAIN s)
  <2> HIDE DEF Folds
  <2> QED
    BY <1>3, <1>4, FoldingExists
<1> HIDE DEF iter
<1> QED
  BY <1>1, <1>5 DEF FoldingTo

\* The sums of a column over the first summaries of a list.
Sums(h, s, name, n) ==
  /\ h[0] = 0 /\ Column(s, name) = h[n]
  /\ \A k \in 1 .. n : h[k] = h[k - 1] + s[k][name]

LEMMA ColumnIs ==
  ASSUME NEW s, NEW n \in Nat, DOMAIN s = 1 .. n, NEW name
  PROVE  \E h : Sums(h, s, name, n)
<1>1. PICK g : FoldingTo(g, "column", s, name, 0, n) /\ Column(s, name) = g[1 .. n]
  BY ColumnFolds
<1>2. /\ g[1 .. 0] = 0
      /\ \A k \in 1 .. n : g[1 .. k] = FoldStep("column", s, name, g[1 .. k - 1], k)
  <2>1. OfPlaces("column")
    BY DEF OfPlaces
  <2>2. PICK zero : zero = 0
    OBVIOUS
  <2>3. FoldingTo(g, "column", s, name, zero, n)
    BY <1>1, <2>2
  <2>4. /\ g[1 .. 0] = zero
        /\ \A k \in 1 .. n : g[1 .. k] = FoldStep("column", s, name, g[1 .. k - 1], k)
    BY <2>1, <2>3, FoldingPlaces
  <2> QED
    BY <2>2, <2>4
<1>3. \A k \in 1 .. n : g[1 .. k] = g[1 .. k - 1] + s[k][name]
  BY <1>2 DEF FoldStep
<1> DEFINE h == [k \in 0 .. n |-> g[1 .. k]]
<1>4. h[0] = 0 /\ Column(s, name) = h[n]
  BY <1>1, <1>2
<1>5. ASSUME NEW k \in 1 .. n PROVE h[k] = h[k - 1] + s[k][name]
  <2>1. k \in 0 .. n /\ k - 1 \in 0 .. n
    OBVIOUS
  <2> QED
    BY <1>3, <2>1
<1> HIDE DEF h
<1> QED
  BY <1>4, <1>5 DEF Sums

LEMMA FromZero ==
  ASSUME NEW d \in Nat
  PROVE  Max({0, d}) = d
  BY DEF Max

LEMMA SumsFit ==
  ASSUME NEW p \in Nat, NEW q \in Nat, NEW r \in Nat, NEW t \in Nat,
         NEW u \in Nat, NEW v \in Nat, NEW x \in Nat, NEW y \in Nat,
         p + q + r <= t, u + v + x <= y
  PROVE  (p + u) + (q + v) + (r + x) <= t + y
  OBVIOUS

LEMMA ReportAdds ==
  ASSUME NEW s, NEW n \in Nat, DOMAIN s = 1 .. n, NEW total \in Int,
         \A i \in 1 .. n : /\ s[i].succeeded \in Nat /\ s[i].failed \in Nat
                           /\ s[i].cooldown \in Nat /\ s[i].size \in Nat
                           /\ s[i].succeeded + s[i].failed + s[i].cooldown <= s[i].size,
         Column(s, "size") <= total
  PROVE  LET a == Report(s, total)
         IN a.succeeded + a.failed + a.cooldown + a.skipped = total
<1>1. PICK w, f, c, z : /\ Sums(w, s, "succeeded", n) /\ Sums(f, s, "failed", n)
                          /\ Sums(c, s, "cooldown", n) /\ Sums(z, s, "size", n)
  BY ColumnIs
<1>2. /\ w[0] = 0 /\ f[0] = 0 /\ c[0] = 0 /\ z[0] = 0
      /\ Column(s, "succeeded") = w[n] /\ Column(s, "failed") = f[n]
      /\ Column(s, "cooldown") = c[n] /\ Column(s, "size") = z[n]
  BY <1>1 DEF Sums
<1>3. ASSUME NEW k \in 1 .. n
      PROVE  /\ w[k] = w[k - 1] + s[k].succeeded /\ f[k] = f[k - 1] + s[k].failed
             /\ c[k] = c[k - 1] + s[k].cooldown /\ z[k] = z[k - 1] + s[k].size
  BY <1>1 DEF Sums
<1> DEFINE Fits(k) == /\ w[k] \in Nat /\ f[k] \in Nat /\ c[k] \in Nat /\ z[k] \in Nat
                      /\ w[k] + f[k] + c[k] <= z[k]
           P == {k \in 0 .. n : Fits(k)}
<1>5. 0 \in P
  <2>1. Fits(0) /\ 0 \in 0 .. n
    BY <1>2
  <2> HIDE DEF Fits
  <2> QED
    BY <2>1
<1>6. ASSUME NEW k \in 1 .. n, k - 1 \in P PROVE k \in P
  <2>1. Fits(k - 1) /\ k \in 0 .. n
    BY <1>6
  <2>2. PICK u, v, x, y \in Nat : /\ s[k].succeeded = u /\ s[k].failed = v
                                  /\ s[k].cooldown = x /\ s[k].size = y /\ u + v + x <= y
    OBVIOUS
  <2>3. PICK p, q, r, t \in Nat : /\ w[k - 1] = p /\ f[k - 1] = q /\ c[k - 1] = r
                                  /\ z[k - 1] = t /\ p + q + r <= t
    BY <2>1
  <2>4. w[k] = p + u /\ f[k] = q + v /\ c[k] = r + x /\ z[k] = t + y
    BY <1>3, <2>2, <2>3
  <2>5. (p + u) + (q + v) + (r + x) <= t + y
    BY <2>2, <2>3, SumsFit
  <2>6. Fits(k)
    BY <2>4, <2>5
  <2> HIDE DEF Fits
  <2> QED
    BY <2>1, <2>6
<1>7. Fits(n)
  <2>1. n \in 0 .. n
    OBVIOUS
  <2>2. \A k \in 0 .. n : k \in P
    <3> HIDE DEF P
    <3> QED
      BY <1>5, <1>6, Upwards
  <2> QED
    BY <2>1, <2>2
<1>8. total - w[n] - f[n] - c[n] \in Nat
  <2>1. PICK p, q, r, t \in Nat : /\ w[n] = p /\ f[n] = q /\ c[n] = r
                                  /\ z[n] = t /\ p + q + r <= t
    BY <1>7
  <2>2. t <= total
    BY <1>2, <2>1
  <2>3. total - p - q - r \in Nat
    BY <2>1, <2>2
  <2> QED
    BY <2>1, <2>3
<1>9. Max({0, total - w[n] - f[n] - c[n]}) = total - w[n] - f[n] - c[n]
  <2>1. PICK d \in Nat : d = total - w[n] - f[n] - c[n]
    BY <1>8
  <2> QED
    BY <2>1, FromZero
<1>10. Report(s, total) = [succeeded |-> w[n], failed |-> f[n], cooldown |-> c[n],
                           skipped |-> total - w[n] - f[n] - c[n]]
  BY <1>2, <1>9 DEF Report
<1> QED
  BY <1>7, <1>10

-----------------------------------------------------------------------------
(* The targets screened one after the other *)

\* The addresses of the valid targets before place i.
SeenBefore(targets, i) == {targets[j].address : j \in {l \in 1 .. i - 1 : targets[l].valid}}

LEMMA ScreenFolds ==
  ASSUME NEW targets, NEW n \in Nat, DOMAIN targets = 1 .. n, NEW policy
  PROVE  \E g, base : /\ base = [seen |-> {}, verdicts |-> <<>>]
                      /\ FoldingTo(g, "screen", targets, policy, base, n)
                      /\ Screened(targets, policy) = g[1 .. n].verdicts
<1> DEFINE base == [seen |-> {}, verdicts |-> <<>>]
           Screen(s, t) ==
             [seen |-> s.seen \cup IF t.valid THEN {t.address} ELSE {},
              verdicts |-> Append(s.verdicts, TargetRefusal(t, policy, s.seen))]
           Folds(g) == g = [t \in SUBSET DOMAIN targets |->
                              IF t = {} THEN base
                              ELSE Screen(g[t \ {Max(t)}], targets[Max(t)])]
           iter == CHOOSE g : Folds(g)
<1>1. Screened(targets, policy) = iter[DOMAIN targets].verdicts
  BY DEF Screened, FoldLeft, MapThenFoldSet
<1>3. \A g : Folds(g) <=> Folding(g, "screen", targets, policy, base, DOMAIN targets)
  BY DEF Folding, FoldStep, PickOf
<1>4. Foldable("screen", DOMAIN targets)
  <2>1. IsFiniteSet(1 .. n) /\ 1 .. n \subseteq Nat
    BY FS_Interval
  <2> QED
    BY <2>1 DEF Foldable
<1>5. Folding(iter, "screen", targets, policy, base, DOMAIN targets)
  <2> HIDE DEF Folds, base
  <2> QED
    BY <1>3, <1>4, FoldingExists
<1> HIDE DEF iter
<1>6. FoldingTo(iter, "screen", targets, policy, base, n)
  BY <1>5 DEF FoldingTo
<1> QED
  BY <1>1, <1>6

LEMMA ScreenedIs ==
  ASSUME NEW targets, NEW n \in Nat, DOMAIN targets = 1 .. n, NEW policy
  PROVE  LET a == Screened(targets, policy)
         IN /\ DOMAIN a = 1 .. n
            /\ \A i \in 1 .. n :
                 a[i] = TargetRefusal(targets[i], policy, SeenBefore(targets, i))
<1> DEFINE V(i) == TargetRefusal(targets[i], policy, SeenBefore(targets, i))
           R == {V(i) : i \in 1 .. n}
<1>1. PICK g, base : /\ base = [seen |-> {}, verdicts |-> <<>>]
                     /\ FoldingTo(g, "screen", targets, policy, base, n)
                     /\ Screened(targets, policy) = g[1 .. n].verdicts
  BY ScreenFolds
<1>2. /\ g[1 .. 0] = base
      /\ \A k \in 1 .. n : g[1 .. k] = FoldStep("screen", targets, policy, g[1 .. k - 1], k)
  <2>1. OfPlaces("screen")
    BY DEF OfPlaces
  <2>2. FoldingTo(g, "screen", targets, policy, base, n)
    BY <1>1
  <2> QED
    BY <2>1, <2>2, FoldingPlaces
<1>3. ASSUME NEW k \in 1 .. n
      PROVE  /\ g[1 .. k].seen = g[1 .. k - 1].seen
                                   \cup IF targets[k].valid THEN {targets[k].address} ELSE {}
             /\ g[1 .. k].verdicts
                  = Append(g[1 .. k - 1].verdicts,
                           TargetRefusal(targets[k], policy, g[1 .. k - 1].seen))
  <2>1. PICK acc : acc = g[1 .. k - 1]
    OBVIOUS
  <2>2. FoldStep("screen", targets, policy, acc, k)
          = [seen |-> acc.seen \cup IF targets[k].valid THEN {targets[k].address} ELSE {},
             verdicts |-> Append(acc.verdicts, TargetRefusal(targets[k], policy, acc.seen))]
    BY DEF FoldStep
  <2>3. g[1 .. k] = FoldStep("screen", targets, policy, acc, k)
    BY <1>2, <2>1
  <2> QED
    BY <2>1, <2>2, <2>3
<1> DEFINE Good(k) == /\ g[1 .. k].seen = SeenBefore(targets, k + 1)
                      /\ g[1 .. k].verdicts \in Seq(R)
                      /\ Len(g[1 .. k].verdicts) = k
                      /\ \A i \in 1 .. k : g[1 .. k].verdicts[i] = V(i)
           P == {k \in 0 .. n : Good(k)}
<1>4. 0 \in P
  <2>1. g[1 .. 0].seen = {} /\ g[1 .. 0].verdicts = <<>>
    BY <1>1, <1>2
  <2>2. SeenBefore(targets, 0 + 1) = {}
    BY DEF SeenBefore
  <2>3. Good(0)
    <3> HIDE DEF R, V
    <3> QED
      BY <2>1, <2>2
  <2> HIDE DEF Good
  <2> QED
    BY <2>3
<1>5. ASSUME NEW k \in 1 .. n, k - 1 \in P PROVE k \in P
  <2>1. Good(k - 1) /\ k \in 0 .. n
    BY <1>5
  <2>2. g[1 .. k - 1].seen = SeenBefore(targets, k)
    <3>1. (k - 1) + 1 = k
      OBVIOUS
    <3> QED
      BY <2>1, <3>1
  <2>3. g[1 .. k].seen = SeenBefore(targets, k + 1)
    <3>1. SeenBefore(targets, k + 1)
            = SeenBefore(targets, k) \cup IF targets[k].valid THEN {targets[k].address} ELSE {}
      BY DEF SeenBefore
    <3> QED
      BY <1>3, <2>2, <3>1
  <2>4. g[1 .. k].verdicts = Append(g[1 .. k - 1].verdicts, V(k)) /\ V(k) \in R
    BY <1>3, <2>2
  <2>5. PICK p \in Seq(R) : /\ p = g[1 .. k - 1].verdicts /\ Len(p) = k - 1
                            /\ \A i \in 1 .. k - 1 : p[i] = V(i)
    BY <2>1
  <2>6. g[1 .. k].verdicts = Append(p, V(k))
    BY <2>4, <2>5
  <2> HIDE DEF R, V
  <2>7. g[1 .. k].verdicts \in Seq(R) /\ Len(g[1 .. k].verdicts) = k
    BY <2>4, <2>5, <2>6
  <2>8. ASSUME NEW i \in 1 .. k PROVE g[1 .. k].verdicts[i] = V(i)
    <3>1. CASE i = k
      BY <2>5, <2>6, <2>4, <3>1
    <3>2. CASE i # k
      <4>1. i \in 1 .. k - 1
        BY <3>2
      <4>2. Append(p, V(k))[i] = p[i]
        BY <2>4, <2>5, <4>1
      <4> QED
        BY <2>5, <2>6, <4>1, <4>2
    <3> QED
      BY <3>1, <3>2
  <2>9. Good(k)
    BY <2>3, <2>7, <2>8
  <2> HIDE DEF Good
  <2> QED
    BY <2>1, <2>9
<1>6. Good(n)
  <2>1. n \in 0 .. n
    OBVIOUS
  <2>2. \A k \in 0 .. n : k \in P
    <3> HIDE DEF P
    <3> QED
      BY <1>4, <1>5, Upwards
  <2> HIDE DEF Good
  <2> QED
    BY <2>1, <2>2
<1>7. DOMAIN g[1 .. n].verdicts = 1 .. n
  <2> HIDE DEF R, V
  <2> QED
    BY <1>6
<1> QED
  BY <1>1, <1>6, <1>7

LEMMA FirstDecides ==
  ASSUME NEW x, NEW n \in Nat, DOMAIN x.targets = 1 .. n
  PROVE  FirstTargetDecides(x, Screened(x.targets, x.policy))
<1> DEFINE a == Screened(x.targets, x.policy)
<1>1. /\ DOMAIN a = 1 .. n
      /\ \A i \in 1 .. n :
           a[i] = TargetRefusal(x.targets[i], x.policy, SeenBefore(x.targets, i))
  BY ScreenedIs
<1> HIDE DEF a
<1>2. ASSUME NEW i \in 1 .. n
      PROVE  LET before == {j \in 1 .. i - 1 : /\ x.targets[j].valid
                                               /\ x.targets[j].address = x.targets[i].address}
             IN a[i] = None <=> before = {} /\ TargetRefusal(x.targets[i], x.policy, {}) = None
  <2> DEFINE before == {j \in 1 .. i - 1 : /\ x.targets[j].valid
                                               /\ x.targets[j].address = x.targets[i].address}
  <2>1. x.targets[i].address \notin SeenBefore(x.targets, i) <=> before = {}
    BY DEF SeenBefore
  <2>2. PICK t, policy, seen : /\ t = x.targets[i] /\ policy = x.policy
                               /\ seen = SeenBefore(x.targets, i)
    OBVIOUS
  <2>3. PICK empty : empty = {}
    OBVIOUS
  <2>4. t.address \notin empty
    BY <2>3
  <2>5. TargetRefusal(t, policy, seen) = None
          <=> t.address \notin seen /\ TargetRefusal(t, policy, empty) = None
    BY <2>4, TargetPasses
  <2> HIDE DEF before
  <2>6. a[i] = None <=> before = {} /\ TargetRefusal(x.targets[i], x.policy, {}) = None
    BY <1>1, <2>1, <2>2, <2>3, <2>5
  <2> QED
    BY <2>6 DEF before
<1> QED
  BY <1>1, <1>2 DEF FirstTargetDecides, a

-----------------------------------------------------------------------------
(* The gates: resuming, new metadata, the last check before a payment *)

LEMMA OnlyRefusal ==
  ASSUME NEW checks, DOMAIN checks \subseteq Nat, NEW r,
         \E i \in DOMAIN checks : checks[i][1],
         \A i \in DOMAIN checks : checks[i][1] => checks[i][2] = r
  PROVE  FirstRefusal(checks) = r
BY FirstRefusalIs

LEMMA ResumeCurrent ==
  ASSUME NEW x, x.now \in Int, x.local \in Int, x.latest \in Int, x.expires \in Int,
         {"now", "latest", "reported"} \subseteq DOMAIN x,
         x.entry # NotPersisted =>
           x.entry.submitted \in Nat \cup {NullInstant, BadInstant}
  PROVE  ResumeIsCurrent(x, ResumeRefusal(x))
<1>1. ASSUME x.entry # NotPersisted, ValidStateEntry(x.key, x.entry),
             x.entry.status = "submitted", {x.entry.txHash, x.entry.networkRef} = {NullText}
      PROVE  ResumeRefusal(x) = "malformed_run_state" <=> x.entry.key # x.key
  <2>1. Recoverable(x.key, x.entry) <=> x.entry.key = x.key
    <3>1. NullableInstant(x.entry.submitted) /\ x.entry.submitted # NullInstant
      BY <1>1 DEF ValidStateEntry
    <3>2. Instant(x.entry.submitted)
      BY <1>1, <3>1 DEF NullableInstant, Instant, NullInstant, BadInstant
    <3> QED
      BY <1>1, <3>2 DEF ValidStateEntry, Recoverable
  <2> DEFINE checks == <<
        <<x.entry = NotPersisted, "missing_run_state_entry">>,
        <<x.entry # NotPersisted /\ ~Recoverable(x.key, x.entry), "malformed_run_state">>,
        <<x.replacement, "duplicate_dispatch_intent">>,
        <<x.local < x.latest, "stale_local_seqno">>,
        <<x.reported # x.latest, "simulated_seqno_mismatch">>,
        <<x.pending /\ (x.expires = NullInstant \/ x.now < x.expires),
          "uncertain_submission_active">> >>
  <2>2. ResumeRefusal(x) = FirstRefusal(checks) /\ DOMAIN checks = 1 .. 6
    BY DEF ResumeRefusal
  <2>3. /\ ~checks[1][1] /\ (checks[2][1] <=> x.entry.key # x.key)
        /\ checks[2][2] = "malformed_run_state"
        /\ checks[1][2] # "malformed_run_state" /\ checks[3][2] # "malformed_run_state"
        /\ checks[4][2] # "malformed_run_state" /\ checks[5][2] # "malformed_run_state"
        /\ checks[6][2] # "malformed_run_state"
    BY <1>1, <2>1
  <2> HIDE DEF checks
  <2>4. DOMAIN checks \subseteq Nat
    BY <2>2
  <2>5. CASE x.entry.key = x.key
    BY <2>2, <2>3, <2>4, <2>5, FirstRefusalIs DEF None
  <2>6. CASE x.entry.key # x.key
    <3>1. 2 \in DOMAIN checks /\ checks[2][1] /\ \A j \in DOMAIN checks : j < 2 => ~checks[j][1]
      BY <2>2, <2>3, <2>6
    <3>2. FirstRefusal(checks) = checks[2][2]
      BY <2>4, <3>1, FirstFailing
    <3> QED
      BY <2>2, <2>3, <2>6, <3>2
  <2> QED
    BY <2>5, <2>6
<1>2. ASSUME ResumeRefusal(x) = None
      PROVE  ResumeRefusal([x EXCEPT !.now = @ + 1]) = None
  <2> DEFINE y == [x EXCEPT !.now = @ + 1]
  <2>1. /\ y.now = x.now + 1 /\ y.entry = x.entry /\ y.key = x.key
        /\ y.replacement = x.replacement /\ y.local = x.local /\ y.latest = x.latest
        /\ y.reported = x.reported /\ y.pending = x.pending /\ y.expires = x.expires
    OBVIOUS
  <2> HIDE DEF y
  <2>2. /\ x.entry # NotPersisted /\ Recoverable(x.key, x.entry)
        /\ ~x.replacement /\ ~(x.local < x.latest) /\ x.reported = x.latest
        /\ (x.pending => x.expires # NullInstant /\ ~(x.now < x.expires))
    BY <1>2, ResumePasses
  <2>3. x.pending => y.expires # NullInstant /\ ~(y.now < y.expires)
    BY <2>1, <2>2
  <2>4. ResumeRefusal(y) = None
    BY <2>1, <2>2, <2>3, ResumePasses
  <2> QED
    BY <2>4 DEF y
<1>3. ASSUME ResumeRefusal(x) = None, NEW latest \in 0 .. x.local + 1,
             NEW reported \in 0 .. x.local + 1, latest > x.local \/ latest # reported
      PROVE  ResumeRefusal([x EXCEPT !.latest = latest, !.reported = reported]) # None
  <2> DEFINE y == [x EXCEPT !.latest = latest, !.reported = reported]
  <2>1. y.local = x.local /\ y.latest = latest /\ y.reported = reported
    OBVIOUS
  <2> HIDE DEF y
  <2>2. ResumeRefusal(y) # None
    BY <1>3, <2>1, ResumePasses
  <2> QED
    BY <2>2 DEF y
<1> QED
  BY <1>1, <1>2, <1>3 DEF ResumeIsCurrent

LEMMA IntentWaiting ==
  ASSUME NEW x, x.now \in Int, x.intent.approved \in Int, x.intent.delay \in Int,
         x.intent.effective \in Int,
         {"now", "intent", "approvals", "lineage", "gateway"} \subseteq DOMAIN x,
         {"effective", "approved", "delay", "approval", "rollback", "uri", "hash"}
           \subseteq DOMAIN x.intent
  PROVE  IntentWaits(x, MetadataIntentRefusal(x))
<1>1. SUFFICES ASSUME MetadataIntentRefusal(x) = None
               PROVE  IntentWaits(x, None)
  BY DEF IntentWaits
<1> DEFINE effective == x.intent.approved + x.intent.delay
           early == "premature_effective_time"
<1>2. ASSUME NEW y, y.approvals = x.approvals, y.lineage = x.lineage, y.gateway = x.gateway,
             y.intent.approval = x.intent.approval, y.intent.rollback = x.intent.rollback,
             y.intent.uri = x.intent.uri, y.intent.hash = x.intent.hash,
             y.intent.effective < y.intent.approved + y.intent.delay
               \/ y.now < y.intent.effective
      PROVE  MetadataIntentRefusal(y) = early
  <2> DEFINE content == IF y.intent.uri \in DOMAIN y.gateway
                        THEN y.gateway[y.intent.uri] ELSE NullText
             checks == <<
       <<y.intent.approval = "" \/ y.intent.approval \notin y.approvals,
         "missing_approval_evidence">>,
       <<y.intent.rollback # NullText /\ y.intent.rollback \notin y.lineage,
         "broken_rollback_lineage">>,
       <<y.intent.effective < y.intent.approved + y.intent.delay \/ y.now < y.intent.effective,
         "premature_effective_time">>,
       <<content = NullText, "mock_content_unavailable">>,
       <<content # y.intent.hash, "hash_drift">> >>
  <2>1. MetadataIntentRefusal(y) = FirstRefusal(checks) /\ DOMAIN checks = 1 .. 5
    BY DEF MetadataIntentRefusal
  <2>2. ~checks[1][1] /\ ~checks[2][1] /\ checks[3][1] /\ checks[3][2] = early
          /\ ~checks[4][1] /\ ~checks[5][1]
    BY <1>1, <1>2, IntentPasses
  <2> HIDE DEF checks, early
  <2>3. DOMAIN checks \subseteq Nat
    BY <2>1
  <2> QED
    BY <2>1, <2>2, <2>3, OnlyRefusal
<1>3. effective \in Int /\ x.intent.effective >= effective
  <2>1. ~(x.intent.effective < x.intent.approved + x.intent.delay)
    BY Zenon, <1>1, IntentPasses
  <2> QED
    BY <2>1
<1>4. ASSUME NEW now \in x.intent.approved .. effective - 1
      PROVE  MetadataIntentRefusal([x EXCEPT !.now = now]) = early
  <2> DEFINE y == [x EXCEPT !.now = now]
  <2>1. y.now < y.intent.effective /\ y.intent = x.intent /\ y.approvals = x.approvals
        /\ y.lineage = x.lineage /\ y.gateway = x.gateway
    BY <1>3
  <2> HIDE DEF early, y
  <2>2. MetadataIntentRefusal(y) = early
    BY <1>2, <2>1
  <2> QED
    BY <2>2 DEF y
<1>5. ASSUME NEW named \in x.intent.approved .. effective - 1
      PROVE  MetadataIntentRefusal([x EXCEPT !.intent.effective = named]) = early
  <2> DEFINE y == [x EXCEPT !.intent.effective = named]
  <2>0. "intent" \in DOMAIN x
    OBVIOUS
  <2>4. y.intent = [x.intent EXCEPT !.effective = named]
    BY <2>0
  <2>1. /\ y.intent.effective = named /\ y.intent.approved = x.intent.approved
        /\ y.intent.delay = x.intent.delay /\ y.approvals = x.approvals
        /\ y.lineage = x.lineage /\ y.gateway = x.gateway
        /\ y.intent.approval = x.intent.approval /\ y.intent.rollback = x.intent.rollback
        /\ y.intent.uri = x.intent.uri /\ y.intent.hash = x.intent.hash
    BY <2>4
  <2>2. y.intent.effective < y.intent.approved + y.intent.delay
    BY <1>3, <2>1
  <2> HIDE DEF early, y
  <2>3. MetadataIntentRefusal(y) = early
    BY <1>2, <2>1, <2>2
  <2> QED
    BY <2>3 DEF y
<1>6. ASSUME NEW now \in effective .. x.now + 1
      PROVE  MetadataIntentRefusal([[x EXCEPT !.intent.effective = effective]
                                      EXCEPT !.now = now]) = None
  <2> DEFINE y == [[x EXCEPT !.intent.effective = effective] EXCEPT !.now = now]
  <2>0. "intent" \in DOMAIN x
    OBVIOUS
  <2>4. y.intent = [x.intent EXCEPT !.effective = effective]
    BY <2>0
  <2>1. /\ y.intent.effective = effective /\ y.intent.approved = x.intent.approved
        /\ y.intent.delay = x.intent.delay /\ y.approvals = x.approvals
        /\ y.lineage = x.lineage /\ y.gateway = x.gateway
        /\ y.intent.approval = x.intent.approval /\ y.intent.rollback = x.intent.rollback
        /\ y.intent.uri = x.intent.uri /\ y.intent.hash = x.intent.hash /\ y.now = now
    BY <2>4
  <2>2. /\ ~(y.intent.effective < y.intent.approved + y.intent.delay)
        /\ ~(y.now < y.intent.effective)
    BY <1>3, <2>1
  <2> HIDE DEF y
  <2>3. MetadataIntentRefusal(y) = None
    BY Zenon, <1>1, <2>1, <2>2, IntentPasses
  <2> QED
    BY <2>3 DEF y
<1> QED
  BY <1>4, <1>5, <1>6 DEF IntentWaits

LEMMA RecheckAgreed ==
  ASSUME NEW x, x.now \in Int, x.entry.cooldown \in Int
  PROVE  RecheckAgrees(x, RecheckRefusal(x))
<1> DEFINE e == x.entry
           orphans == {l \in x.locks : l.key = e.key /\ l.exists /\ ~l.owned}
           checks == <<
       <<e.schema # SchemaVersion, "schema_version_mismatch">>,
       <<e.recipient = "", "missing_recipient_address">>,
       <<e.attempt < 1, "invalid_attempt_number">>,
       <<orphans # {}, "orphan_lock_detected">>,
       <<Len(SelectSeq(x.evaluated, LAMBDA k : k = e.key)) > 1, "duplicate_evaluation_key">>,
       <<e.cooldown # NullInstant /\ x.now < e.cooldown, "cooldown_active">>,
       <<x.delta.key # e.key, "duplicate_evaluation_key">>,
       <<x.delta.status = "inactive", "target_inactive">>,
       <<x.delta.status = "drained", "target_drained">> >>
           failed == {i \in DOMAIN checks : checks[i][1]}
<1>1. RecheckRefusal(x) = FirstRefusal(checks) /\ DOMAIN checks = 1 .. 9
  BY DEF RecheckRefusal
<1>7. (e.cooldown # NullInstant /\ x.now < e.cooldown) <=> ~CooledDown(e.cooldown, x.now)
  BY DEF CooledDown
<1>8. checks[6][1] <=> (e.cooldown # NullInstant /\ x.now < e.cooldown)
  OBVIOUS
<1>6. checks[6][1] <=> ~CooledDown(e.cooldown, x.now)
  BY ONLY <1>7, <1>8
<1>2. /\ checks[1][2] = "schema_version_mismatch" /\ checks[2][2] = "missing_recipient_address"
      /\ checks[3][2] = "invalid_attempt_number" /\ checks[4][2] = "orphan_lock_detected"
      /\ checks[5][2] = "duplicate_evaluation_key" /\ checks[6][2] = "cooldown_active"
      /\ checks[7][2] = "duplicate_evaluation_key" /\ checks[8][2] = "target_inactive"
      /\ checks[9][2] = "target_drained"
  OBVIOUS
<1> HIDE DEF checks
<1>3. \/ failed = {} /\ RecheckRefusal(x) = None
      \/ \E i \in failed : RecheckRefusal(x) = checks[i][2] /\ \A j \in failed : i <= j
  <2>1. failed \subseteq Nat
    BY <1>1
  <2>2. FirstRefusal(checks) = IF failed = {} THEN None ELSE checks[Min(failed)][2]
    BY DEF FirstRefusal
  <2> HIDE DEF failed
  <2> QED
    BY <1>1, <2>1, <2>2, MinOfNats
<1>4. CASE failed = {} /\ RecheckRefusal(x) = None
  <2>1. ~checks[6][1]
    BY <1>1, <1>4
  <2> QED
    BY <1>2, <1>4, <1>6, <2>1 DEF RecheckAgrees, None
<1>5. ASSUME NEW i \in failed, RecheckRefusal(x) = checks[i][2], \A j \in failed : i <= j
      PROVE  RecheckAgrees(x, RecheckRefusal(x))
  <2>1. i \in 1 .. 9 /\ checks[i][1] /\ \A j \in 1 .. 9 : checks[j][1] => i <= j
    BY <1>1, <1>5
  <2> HIDE DEF failed
  <2>2. CASE i <= 6
    <3>1. RecheckAction(RecheckRefusal(x)) = "rejected_fail_closed"
      BY <1>2, <1>5, <2>1, <2>2 DEF RecheckAction, None
    <3>2. RecheckRefusal(x) = "cooldown_active" => ~CooledDown(e.cooldown, x.now)
      <4>1. i = 1 \/ i = 2 \/ i = 3 \/ i = 4 \/ i = 5 \/ i = 6
        BY <2>1, <2>2
      <4>2. RecheckRefusal(x) = "cooldown_active" => i = 6
        BY <1>2, <1>5, <4>1
      <4> QED
        BY <1>6, <2>1, <4>2
    <3> QED
      BY <3>1, <3>2 DEF RecheckAgrees
  <2>3. CASE i > 6
    <3>1. ~checks[6][1]
      BY <2>1, <2>3
    <3>2. RecheckRefusal(x) # "cooldown_active"
      BY <1>2, <1>5, <2>1, <2>3
    <3> QED
      BY <1>6, <3>1, <3>2 DEF RecheckAgrees
  <2> QED
    BY <2>1, <2>2, <2>3
<1> QED
  BY <1>3, <1>4, <1>5

-----------------------------------------------------------------------------
(* The gates: pinned metadata, rollbacks, budgets *)

LEMMA PinnedMetadata ==
  ASSUME NEW x, {"metadata", "identity", "pinned", "pinnedIdentity"} \subseteq DOMAIN x,
         {"texts", "decimals"} \subseteq DOMAIN x.metadata
  PROVE  MetadataIsPinned(x, GovernanceRefusal(x))
<1>1. SUFFICES ASSUME GovernanceRefusal(x) = None
               PROVE  MetadataIsPinned(x, None)
  BY DEF MetadataIsPinned
<1>2. x.metadata = x.pinned /\ x.identity = x.pinnedIdentity
  BY <1>1, GovernancePasses
<1>3. ASSUME NEW f \in DOMAIN x.metadata.texts, NEW v, v # x.metadata.texts[f]
      PROVE  GovernanceRefusal([x EXCEPT !.metadata.texts[f] = v]) # None
  <2> DEFINE y == [x EXCEPT !.metadata.texts[f] = v]
  <2>1. y.metadata = [x.metadata EXCEPT !.texts[f] = v] /\ y.pinned = x.pinned
    OBVIOUS
  <2>2. y.metadata.texts = [x.metadata.texts EXCEPT ![f] = v]
    BY <2>1
  <2>3. y.metadata.texts[f] = v
    BY <2>2
  <2>4. y.metadata # y.pinned
    BY <1>2, <1>3, <2>1, <2>3
  <2> HIDE DEF y
  <2>5. GovernanceRefusal(y) # None
    BY <2>4, GovernancePasses
  <2> QED
    BY <2>5 DEF y
<1>4. ASSUME NEW d, d # x.metadata.decimals
      PROVE  GovernanceRefusal([x EXCEPT !.metadata.decimals = d]) # None
  <2> DEFINE y == [x EXCEPT !.metadata.decimals = d]
  <2>1. y.metadata = [x.metadata EXCEPT !.decimals = d] /\ y.pinned = x.pinned
    OBVIOUS
  <2>2. y.metadata.decimals = d
    BY <2>1
  <2>4. y.metadata # y.pinned
    BY <1>2, <1>4, <2>1, <2>2
  <2> HIDE DEF y
  <2>5. GovernanceRefusal(y) # None
    BY <2>4, GovernancePasses
  <2> QED
    BY <2>5 DEF y
<1>5. ASSUME NEW f \in DOMAIN x.identity, x.identity[f] # "other"
      PROVE  GovernanceRefusal([x EXCEPT !.identity[f] = "other"]) # None
  <2> DEFINE y == [x EXCEPT !.identity[f] = "other"]
  <2>1. y.identity = [x.identity EXCEPT ![f] = "other"] /\ y.pinnedIdentity = x.pinnedIdentity
    OBVIOUS
  <2>2. y.identity[f] = "other"
    BY <2>1
  <2>4. y.identity # y.pinnedIdentity
    BY <1>2, <1>5, <2>1, <2>2
  <2> HIDE DEF y
  <2>5. GovernanceRefusal(y) # None
    BY <2>4, GovernancePasses
  <2> QED
    BY <2>5 DEF y
<1> QED
  BY <1>3, <1>4, <1>5 DEF MetadataIsPinned

LEMMA RollbackNeeds ==
  ASSUME NEW x, {"intent", "policy"} \subseteq DOMAIN x,
         x.policy = [original |-> x.policy.original, lineages |-> x.policy.lineages,
                     approvals |-> x.policy.approvals]
  PROVE  RollbackNeedsPolicy(x, RollbackRefusal(x))
<1>1. SUFFICES ASSUME RollbackRefusal(x) = None
               PROVE  RollbackNeedsPolicy(x, None)
  BY DEF RollbackNeedsPolicy
<1>2. ASSUME NEW policy,
             policy.original # x.policy.original \/ policy.lineages = {} \/ policy.approvals = {}
      PROVE  RollbackRefusal([x EXCEPT !.policy = policy]) # None
  <2> DEFINE y == [x EXCEPT !.policy = policy]
  <2>1. y.intent = x.intent /\ y.policy = policy
    OBVIOUS
  <2> HIDE DEF y
  <2>2. x.intent.target = x.policy.original
    BY <1>1, RollbackPasses
  <2>3. RollbackRefusal(y) # None
    BY <1>2, <2>1, <2>2, RollbackPasses
  <2> QED
    BY <2>3 DEF y
<1>3. DOMAIN x.policy = {"original", "lineages", "approvals"}
  OBVIOUS
<1>4. [x.policy EXCEPT !.original = "other"] # x.policy
        => [x.policy EXCEPT !.original = "other"].original # x.policy.original
  <2>1. SUFFICES ASSUME x.policy.original = "other"
                 PROVE  [x.policy EXCEPT !.original = "other"] = x.policy
    BY <1>3
  <2> QED
    BY <2>1, <1>3
<1>5. [x.policy EXCEPT !.lineages = {}].lineages = {}
  BY <1>3
<1>6. [x.policy EXCEPT !.approvals = {}].approvals = {}
  BY <1>3
<1> QED
  BY <1>2, <1>4, <1>5, <1>6 DEF RollbackNeedsPolicy

LEMMA BudgetEnds ==
  ASSUME NEW x, {"spent", "cap", "balance", "reserve", "feePolicy", "unknown", "pause"}
           \subseteq DOMAIN x,
         x.reserve \in Int, x.cap \in [BudgetLines -> Int]
  PROVE  BudgetEndsAtCaps(x, BudgetRefusal(x))
<1>1. SUFFICES ASSUME BudgetRefusal(x) = None
               PROVE  BudgetEndsAtCaps(x, None)
  BY DEF BudgetEndsAtCaps
<1> DEFINE full == [x EXCEPT !.spent = x.cap, !.balance = x.reserve]
<1>2. /\ full.feePolicy = x.feePolicy /\ full.unknown = x.unknown /\ full.pause = x.pause
      /\ full.spent = x.cap /\ full.cap = x.cap /\ full.balance = x.reserve
      /\ full.reserve = x.reserve /\ DOMAIN full = DOMAIN x
  OBVIOUS
<1> HIDE DEF full
<1>3. /\ x.cap.global \in Int /\ x.cap.batch \in Int /\ x.cap.recipient \in Int
      /\ x.cap.gas \in Int /\ DOMAIN x.cap = BudgetLines
  BY DEF BudgetLines
<1>4. BudgetRefusal(full) = None
  <2>1. FullText(x.feePolicy) /\ ~x.unknown /\ ~x.pause
    BY <1>1, BudgetPasses
  <2> QED
    BY <1>2, <1>3, <2>1, BudgetPasses
<1>5. ASSUME NEW f \in BudgetLines
      PROVE  BudgetRefusal([full EXCEPT !.spent[f] = @ + 1]) # None
  <2> DEFINE y == [full EXCEPT !.spent[f] = @ + 1]
  <2>1. y.spent = [x.cap EXCEPT ![f] = @ + 1] /\ y.cap = x.cap
    BY <1>2
  <2>2. y.spent[f] = x.cap[f] + 1 /\ x.cap[f] \in Int
    BY <1>3, <2>1
  <2> HIDE DEF y
  <2>3. y.spent[f] > y.cap[f]
    BY <2>1, <2>2
  <2>4. f = "global" \/ f = "batch" \/ f = "recipient" \/ f = "gas"
    BY DEF BudgetLines
  <2>5. BudgetRefusal(y) # None
    BY <2>3, <2>4, BudgetPasses
  <2> QED
    BY <2>5 DEF y
<1>6. BudgetRefusal([full EXCEPT !.balance = @ - 1]) # None
  <2> DEFINE y == [full EXCEPT !.balance = @ - 1]
  <2>1. y.balance = x.reserve - 1 /\ y.reserve = x.reserve
    BY <1>2
  <2> HIDE DEF y
  <2>2. BudgetRefusal(y) # None
    BY <2>1, BudgetPasses
  <2> QED
    BY <2>2 DEF y
<1> QED
  BY <1>4, <1>5, <1>6 DEF BudgetEndsAtCaps, full

-----------------------------------------------------------------------------
(* The gates: the boundary to a network *)

\* At another time only the expiry can be in the way.
LEMMA BoundaryAt ==
  ASSUME NEW env, BoundaryRefusal(env) = None, NEW y,
         y.halt = env.halt, y.enabled = env.enabled, y.dryRun = env.dryRun,
         y.expectedChain = env.expectedChain, y.observedChain = env.observedChain,
         y.campaign = env.campaign, y.confirmed = env.confirmed, y.proof = env.proof,
         y.expectedCommit = env.expectedCommit, y.workflow = env.workflow,
         y.ciStatus = env.ciStatus, y.ciConclusion = env.ciConclusion,
         y.ciCommit = env.ciCommit, y.approval = env.approval, y.expires = env.expires,
         y.now # NullNumber, y.now # BadInstant
  PROVE  BoundaryRefusal(y) = None <=> ~(y.expires <= y.now)
<1> DEFINE Rest(e) ==
             /\ e.halt # "true" /\ e.enabled = "true" /\ e.dryRun = "true"
             /\ FullText(e.expectedChain) /\ FullText(e.observedChain)
             /\ e.observedChain = e.expectedChain /\ FullText(e.campaign)
             /\ FullText(e.confirmed) /\ e.confirmed = e.campaign
             /\ e.proof = "stage-g-h1-locked" /\ FullText(e.expectedCommit)
             /\ e.workflow = "Stage B Full Check" /\ e.ciStatus = "completed"
             /\ e.ciConclusion = "success" /\ e.ciCommit = e.expectedCommit
             /\ FullText(e.approval) /\ e.expires # NullNumber /\ e.expires # BadInstant
<1>1. \A e : BoundaryRefusal(e) = None
             <=> /\ Rest(e) /\ e.now # NullNumber /\ e.now # BadInstant
                 /\ ~(e.expires <= e.now)
  <2> TAKE e
  <2>1. Rest(e) /\ e.now # NullNumber /\ e.now # BadInstant /\ ~(e.expires <= e.now)
          => BoundaryRefusal(e) = None
    BY BoundaryPasses
  <2>2. ASSUME BoundaryRefusal(e) = None
        PROVE  Rest(e) /\ e.now # NullNumber /\ e.now # BadInstant /\ ~(e.expires <= e.now)
    BY <2>2, BoundaryPasses
  <2> QED
    BY <2>1, <2>2, Zenon
<1>2. Rest(y) <=> Rest(env)
  OBVIOUS
<1> HIDE DEF Rest
<1> QED
  BY <1>1, <1>2, Zenon

LEMMA BoundaryNeeds ==
  ASSUME NEW env,
         DOMAIN env = {"halt", "enabled", "dryRun", "expectedChain", "observedChain", "campaign",
                       "confirmed", "proof", "expectedCommit", "workflow", "ciStatus",
                       "ciConclusion", "ciCommit", "approval", "now", "expires"},
         env.expires \in Int
  PROVE  BoundaryNeedsAll(env, BoundaryRefusal(env))
<1>1. SUFFICES ASSUME BoundaryRefusal(env) = None
               PROVE  BoundaryNeedsAll(env, None)
  BY DEF BoundaryNeedsAll
<1>2. /\ env.halt # "true" /\ env.enabled = "true" /\ env.dryRun = "true"
      /\ FullText(env.expectedChain) /\ FullText(env.observedChain)
      /\ env.observedChain = env.expectedChain /\ FullText(env.campaign)
      /\ FullText(env.confirmed) /\ env.confirmed = env.campaign
      /\ env.proof = "stage-g-h1-locked" /\ FullText(env.expectedCommit)
      /\ env.workflow = "Stage B Full Check" /\ env.ciStatus = "completed"
      /\ env.ciConclusion = "success" /\ env.ciCommit = env.expectedCommit
      /\ FullText(env.approval)
      /\ env.expires # NullNumber /\ env.expires # BadInstant
  BY <1>1, BoundaryPasses
<1>3. ASSUME NEW f \in DOMAIN env \ {"halt", "now", "expires"},
             NEW v \in {"", "other"} \ {env[f]}, <<f, v>> # <<"approval", "other">>
      PROVE  BoundaryRefusal([env EXCEPT ![f] = v]) # None
  <2> DEFINE y == [env EXCEPT ![f] = v]
  <2>1. \A g \in DOMAIN env : y[g] = IF g = f THEN v ELSE env[g]
    OBVIOUS
  <2>2. v # env[f] /\ (v = "" \/ f # "approval")
    <3>1. f = "approval" /\ v = "other" => <<f, v>> = <<"approval", "other">>
      BY Zenon
    <3> QED
      BY <1>3, <3>1
  <2>3. ~FullText("")
    BY DEF FullText
  <2> HIDE DEF y
  <2>4. SUFFICES BoundaryRefusal(y) # None
    BY DEF y
  <2>5. SUFFICES ASSUME BoundaryRefusal(y) = None PROVE FALSE
    OBVIOUS
  <2>6. /\ y.enabled = "true" /\ y.dryRun = "true"
        /\ FullText(y.expectedChain) /\ FullText(y.observedChain)
        /\ y.observedChain = y.expectedChain /\ FullText(y.campaign)
        /\ FullText(y.confirmed) /\ y.confirmed = y.campaign
        /\ y.proof = "stage-g-h1-locked" /\ FullText(y.expectedCommit)
        /\ y.workflow = "Stage B Full Check" /\ y.ciStatus = "completed"
        /\ y.ciConclusion = "success" /\ y.ciCommit = y.expectedCommit
        /\ FullText(y.approval)
    BY <2>5, BoundaryPasses
  <2>7. y[f] = v
    BY <2>1
  <2>8. CASE f = "enabled" \/ f = "dryRun" \/ f = "proof" \/ f = "workflow" \/ f = "ciStatus"
              \/ f = "ciConclusion"
    BY <2>2, <2>6, <2>7, <2>8, <1>2
  <2>9. CASE f = "expectedChain" \/ f = "observedChain"
    <3>1. y[f] = IF f = "expectedChain" THEN y.observedChain ELSE y.expectedChain
      BY <2>6, <2>9
    <3>2. y[f] = env[f]
      BY <1>2, <2>1, <2>9, <3>1
    <3> QED
      BY <2>2, <2>7, <3>2
  <2>10. CASE f = "campaign" \/ f = "confirmed"
    <3>1. y[f] = IF f = "campaign" THEN y.confirmed ELSE y.campaign
      BY <2>6, <2>10
    <3>2. y[f] = env[f]
      BY <1>2, <2>1, <2>10, <3>1
    <3> QED
      BY <2>2, <2>7, <3>2
  <2>11. CASE f = "expectedCommit" \/ f = "ciCommit"
    <3>1. y[f] = IF f = "ciCommit" THEN y.expectedCommit ELSE y.ciCommit
      BY <2>6, <2>11
    <3>2. y[f] = env[f]
      BY <1>2, <2>1, <2>11, <3>1
    <3> QED
      BY <2>2, <2>7, <3>2
  <2>12. CASE f = "approval"
    BY <2>2, <2>3, <2>6, <2>7, <2>12
  <2> QED
    BY <1>3, <2>8, <2>9, <2>10, <2>11, <2>12
<1>4. BoundaryRefusal([env EXCEPT !.now = NullNumber]) # None
  <2> DEFINE y == [env EXCEPT !.now = NullNumber]
  <2>1. y.now = NullNumber
    OBVIOUS
  <2> HIDE DEF y
  <2>2. BoundaryRefusal(y) # None
    BY <2>1, BoundaryPasses
  <2> QED
    BY <2>2 DEF y
<1>5. BoundaryRefusal([env EXCEPT !.expires = NullNumber]) # None
  <2> DEFINE y == [env EXCEPT !.expires = NullNumber]
  <2>1. y.expires = NullNumber
    OBVIOUS
  <2> HIDE DEF y
  <2>2. BoundaryRefusal(y) # None
    BY <2>1, BoundaryPasses
  <2> QED
    BY <2>2 DEF y
<1>6. ASSUME NEW f \in {"now", "expires"}
      PROVE  BoundaryRefusal([env EXCEPT ![f] = NullNumber]) # None
  <2>1. CASE f = "now"
    BY <1>4, <2>1
  <2>2. CASE f = "expires"
    BY <1>5, <2>2
  <2> QED
    BY <2>1, <2>2
<1>7. ASSUME NEW now \in 0 .. env.expires + 1
      PROVE  BoundaryRefusal([env EXCEPT !.now = now]) = None <=> now < env.expires
  <2> DEFINE y == [env EXCEPT !.now = now]
  <2>1. /\ y.halt = env.halt /\ y.enabled = env.enabled /\ y.dryRun = env.dryRun
        /\ y.expectedChain = env.expectedChain /\ y.observedChain = env.observedChain
        /\ y.campaign = env.campaign /\ y.confirmed = env.confirmed /\ y.proof = env.proof
        /\ y.expectedCommit = env.expectedCommit /\ y.workflow = env.workflow
        /\ y.ciStatus = env.ciStatus /\ y.ciConclusion = env.ciConclusion
        /\ y.ciCommit = env.ciCommit /\ y.approval = env.approval /\ y.expires = env.expires
        /\ y.now = now
    OBVIOUS
  <2>2. now # NullNumber /\ now # BadInstant
    BY DEF NullNumber, BadInstant
  <2>3. ~(env.expires <= now) <=> now < env.expires
    OBVIOUS
  <2> HIDE DEF y
  <2>4. BoundaryRefusal(y) = None <=> ~(y.expires <= y.now)
    BY <1>1, <2>1, <2>2, BoundaryAt
  <2> QED
    BY <2>1, <2>3, <2>4 DEF y
<1> QED
  BY <1>3, <1>6, <1>7 DEF BoundaryNeedsAll
-----------------------------------------------------------------------------
LEMMA FailurePasses ==
  ASSUME NEW x
  PROVE  BoundaryFailure(x) = None <=>
           /\ x.raised \cap {"capability"} = {} /\ x.raised \cap {"nonPrimitive"} = {}
           /\ x.identity = x.expected
           /\ x.raised \cap {"decisionStore", "runState", "fingerprint"} = {}
           /\ x.identity.boundaryDecision = DerivedDecision(x.expected)
           /\ x.raised \cap {"derivation"} = {}
           /\ (x.transition # <<>> =>
                 \E i \in 1 .. 3 : x.transition = SubSeq(BoundaryStates, i, i + 1))
           /\ x.raised \cap {"exposesMaterial", "skipsEvidence"} = {}
           /\ (x.raised \cap {"rejected"} # {} => x.raised \cap Escapes = {})
           /\ x.raised \cap {"chainMismatch", "chainMutates", "chainTriggersSigner"} = {}
           /\ x.raised \cap {"leak"} = {} /\ x.raised \cap {"metadataMutation"} = {}
           /\ x.raised \cap {"evidence", "runtimeEvidence", "authorizingEvidence"} = {}
           /\ x.raised \cap {"nonDeterministic"} = {}
<1> DEFINE Raised(flags) == x.raised \cap flags # {}
           checks == <<
       <<Raised({"capability"}), "RUNTIME_CAPABILITY_CREEP">>,
       <<Raised({"nonPrimitive"}), "NON_PRIMITIVE_BOUNDARY_INGRESS">>,
       <<x.identity # x.expected, "IDENTITY_MUTATION_DETECTED">>,
       <<Raised({"decisionStore", "runState", "fingerprint"}), "DECISION_DRIFT_DETECTED">>,
       <<x.identity.boundaryDecision # DerivedDecision(x.expected) \/ Raised({"derivation"}),
         "BOUNDARY_DECISION_DERIVATION_DRIFT">>,
       <<\/ /\ x.transition # <<>>
            /\ ~\E i \in 1 .. 3 : x.transition = SubSeq(BoundaryStates, i, i + 1)
         \/ Raised({"exposesMaterial", "skipsEvidence"}),
         "BOUNDARY_STATE_TRANSITION_VIOLATION">>,
       <<Raised({"rejected"}) /\ Raised(Escapes), "BOUNDARY_REJECTION_SECURITY_TERMINAL">>,
       <<Raised({"chainMismatch", "chainMutates", "chainTriggersSigner"}),
         "CHAIN_STATE_BOUNDARY_MISMATCH">>,
       <<Raised({"leak"}), "BOUNDARY_REDACTION_FAILURE">>,
       <<Raised({"metadataMutation"}), "METADATA_IDENTITY_COUPLING">>,
       <<Raised({"evidence", "runtimeEvidence", "authorizingEvidence"}),
         "BOUNDARY_EVIDENCE_MISMATCH">>,
       <<Raised({"nonDeterministic"}), "BOUNDARY_NON_DETERMINISM">> >>
<1>1. BoundaryFailure(x) = FirstRefusal(checks) /\ DOMAIN checks = 1 .. 12
  BY DEF BoundaryFailure
<1>2. /\ checks[1][2] # None /\ checks[2][2] # None /\ checks[3][2] # None
      /\ checks[4][2] # None /\ checks[5][2] # None /\ checks[6][2] # None
      /\ checks[7][2] # None /\ checks[8][2] # None /\ checks[9][2] # None
      /\ checks[10][2] # None /\ checks[11][2] # None /\ checks[12][2] # None
  BY DEF None
<1>4. BoundaryFailure(x) = None <=> \A i \in 1 .. 12 : ~checks[i][1]
  <2> HIDE DEF checks
  <2>1. \A i \in DOMAIN checks : checks[i][1] => checks[i][2] # None
    BY <1>1, <1>2
  <2>2. DOMAIN checks \subseteq Nat
    BY <1>1
  <2> QED
    BY <1>1, <2>1, <2>2, PassesWhen
<1>5. (\A i \in 1 .. 12 : ~checks[i][1]) <=>
        /\ ~checks[1][1] /\ ~checks[2][1] /\ ~checks[3][1] /\ ~checks[4][1] /\ ~checks[5][1]
        /\ ~checks[6][1] /\ ~checks[7][1] /\ ~checks[8][1] /\ ~checks[9][1] /\ ~checks[10][1]
        /\ ~checks[11][1] /\ ~checks[12][1]
  <2> HIDE DEF checks
  <2> QED
    OBVIOUS
<1> QED
  BY <1>4, <1>5

\* The failure depends on the flags, on what is the same without them, and on no more.
Sound(x) ==
  /\ x.identity = x.expected
  /\ x.identity.boundaryDecision = DerivedDecision(x.expected)
  /\ x.transition # <<>> => \E i \in 1 .. 3 : x.transition = SubSeq(BoundaryStates, i, i + 1)

FatalFlags ==
  {"capability", "nonPrimitive", "decisionStore", "runState", "fingerprint", "derivation",
   "exposesMaterial", "skipsEvidence", "chainMismatch", "chainMutates",
   "chainTriggersSigner", "leak", "metadataMutation", "evidence", "runtimeEvidence",
   "authorizingEvidence", "nonDeterministic"}

LEMMA FailureIs ==
  ASSUME NEW x
  PROVE  BoundaryFailure(x) = None <=>
           /\ Sound(x) /\ (\A f \in FatalFlags : f \notin x.raised)
           /\ ("rejected" \in x.raised => x.raised \cap Escapes = {})
<1>1. (\A f \in FatalFlags : f \notin x.raised) <=>
           /\ x.raised \cap {"capability"} = {} /\ x.raised \cap {"nonPrimitive"} = {}
           /\ x.raised \cap {"decisionStore", "runState", "fingerprint"} = {}
           /\ x.raised \cap {"derivation"} = {}
           /\ x.raised \cap {"exposesMaterial", "skipsEvidence"} = {}
           /\ x.raised \cap {"chainMismatch", "chainMutates", "chainTriggersSigner"} = {}
           /\ x.raised \cap {"leak"} = {} /\ x.raised \cap {"metadataMutation"} = {}
           /\ x.raised \cap {"evidence", "runtimeEvidence", "authorizingEvidence"} = {}
           /\ x.raised \cap {"nonDeterministic"} = {}
  BY DEF FatalFlags
<1>2. x.raised \cap {"rejected"} # {} <=> "rejected" \in x.raised
  OBVIOUS
<1> QED
  BY Zenon, <1>1, <1>2, FailurePasses DEF Sound

\* What may be found besides without the input being refused.
Bears(x, f) ==
  \/ f \in x.raised
  \/ f \in Escapes /\ "rejected" \notin x.raised
  \/ f = "rejected" /\ x.raised \cap Escapes = {}

LEMMA FailureStanding ==
  ASSUME NEW x, {"raised", "identity", "expected", "transition"} \subseteq DOMAIN x
  PROVE  FailureStands(x, BoundaryFailure(x))
<1>1. SUFFICES ASSUME NEW f \in BoundaryFlags
      PROVE  LET more == BoundaryFailure([x EXCEPT !.raised = @ \cup {f}])
             IN /\ BoundaryFailure(x) # None => more # None
                /\ BoundaryFailure(x) = None =>
                     (more = None <=> Bears(x, f))
  BY DEF FailureStands, Bears
<1> DEFINE y == [x EXCEPT !.raised = @ \cup {f}]
<1>2. y.raised = x.raised \cup {f} /\ (Sound(y) <=> Sound(x))
  BY DEF Sound
<1>3. f \in FatalFlags \/ f \in Escapes \/ f = "rejected"
  BY DEF BoundaryFlags, FatalFlags
<1>4. /\ \A g \in FatalFlags : g \notin Escapes /\ g # "rejected"
      /\ "rejected" \notin Escapes
  BY DEF FatalFlags, Escapes
<1> HIDE DEF y
<1>5. BoundaryFailure(x) = None <=>
           /\ Sound(x) /\ (\A g \in FatalFlags : g \notin x.raised)
           /\ ("rejected" \in x.raised => x.raised \cap Escapes = {})
  BY FailureIs
<1>6. BoundaryFailure(y) = None <=>
           /\ Sound(y) /\ (\A g \in FatalFlags : g \notin y.raised)
           /\ ("rejected" \in y.raised => y.raised \cap Escapes = {})
  BY FailureIs
<1>7. BoundaryFailure(y) = None => BoundaryFailure(x) = None
  BY <1>2, <1>5, <1>6
<1>8. ASSUME BoundaryFailure(x) = None
      PROVE  BoundaryFailure(y) = None <=> Bears(x, f)
  <2>1. CASE f \in x.raised
    <3>1. y.raised = x.raised
      BY <1>2, <2>1
    <3> QED
      BY <1>2, <1>5, <1>6, <1>8, <2>1, <3>1 DEF Bears
  <2>2. CASE f \notin x.raised /\ f \in FatalFlags
    BY <1>2, <1>4, <1>6, <2>2 DEF Bears
  <2>3. CASE f \notin x.raised /\ f \in Escapes
    <3>1. f \in y.raised \cap Escapes /\ f \notin FatalFlags /\ f # "rejected"
      BY <1>2, <1>4, <2>3
    <3>2. "rejected" \in y.raised <=> "rejected" \in x.raised
      BY <1>2, <3>1
    <3>3. Sound(y) /\ \A g \in FatalFlags : g \notin y.raised
      BY <1>2, <1>5, <1>8, <3>1
    <3>4. BoundaryFailure(y) = None <=> "rejected" \notin x.raised
      BY <1>6, <3>1, <3>2, <3>3
    <3> QED
      BY <1>4, <2>3, <3>1, <3>4 DEF Bears
  <2>4. CASE f \notin x.raised /\ f = "rejected"
    <3>1. y.raised \cap Escapes = x.raised \cap Escapes /\ "rejected" \in y.raised
      BY <1>2, <1>4, <2>4
    <3>3. Sound(y) /\ \A g \in FatalFlags : g \notin y.raised
      BY <1>2, <1>4, <1>5, <1>8, <2>4
    <3>4. BoundaryFailure(y) = None <=> x.raised \cap Escapes = {}
      BY <1>6, <3>1, <3>3
    <3> QED
      BY <1>4, <2>4, <3>4 DEF Bears
  <2> QED
    BY <1>3, <2>1, <2>2, <2>3, <2>4
<1>9. /\ BoundaryFailure(x) # None => BoundaryFailure(y) # None
      /\ BoundaryFailure(x) = None =>
           (BoundaryFailure(y) = None <=> Bears(x, f))
  BY <1>7, <1>8
<1> QED
  BY <1>9 DEF y

-----------------------------------------------------------------------------
(* The gates: audit rows and terminal entries *)

Verdicts(x) == [i \in DOMAIN x.entries |-> Refused(EntryVerdict(x.entries[i], x.rows))]

\* What there is to say of evidence that is aligned, but of its single entries.
Evident(x) ==
  /\ x.formed /\ x.heartbeat # "unavailable"
  /\ IsInjective(KeysOf(x.entries)) /\ IsInjective(KeysOf(x.rows))
  /\ Range(KeysOf(x.rows)) \subseteq Range(KeysOf(x.entries))
  /\ {e.batch : e \in ToSet(x.entries)} = {x.summary.batch}
  /\ Len(x.entries) = x.summary.count
  /\ Aggregate(x.entries) = x.summary.aggregate

LEMMA AuditPasses ==
  ASSUME NEW x, DOMAIN x.entries \subseteq Nat
  PROVE  /\ AuditRefusal(x) = None <=>
              Evident(x) /\ \A i \in DOMAIN x.entries : EntryVerdict(x.entries[i], x.rows) = None
         /\ Evident(x) => AuditRefusal(x) = FirstRefusal(Verdicts(x))
<1> DEFINE checks == <<
       <<~x.formed, "malformed_artifact">>,
       <<x.heartbeat = "unavailable", "heartbeat_unavailable">>,
       <<~IsInjective(KeysOf(x.entries)) \/ ~IsInjective(KeysOf(x.rows)),
         "duplicate_state_key">>,
       Refused(FirstRefusal(Verdicts(x))),
       <<~(Range(KeysOf(x.rows)) \subseteq Range(KeysOf(x.entries))), "orphan_audit_evidence">>,
       <<{e.batch : e \in ToSet(x.entries)} # {x.summary.batch}
           \/ Len(x.entries) # x.summary.count
           \/ Aggregate(x.entries) # x.summary.aggregate,
         "batch_fingerprint_mismatch">> >>
<1>1. AuditRefusal(x) = FirstRefusal(checks) /\ DOMAIN checks = 1 .. 6
  BY DEF AuditRefusal, Verdicts
<1>2. /\ checks[1][2] # None /\ checks[2][2] # None /\ checks[3][2] # None
      /\ checks[4][1] => checks[4][2] # None
      /\ checks[5][2] # None /\ checks[6][2] # None
  BY DEF None, Refused
<1>3. AuditRefusal(x) = None <=> \A i \in 1 .. 6 : ~checks[i][1]
  <2> HIDE DEF checks
  <2>1. \A i \in DOMAIN checks : checks[i][1] => checks[i][2] # None
    BY <1>1, <1>2
  <2>2. DOMAIN checks \subseteq Nat
    BY <1>1
  <2> QED
    BY <1>1, <2>1, <2>2, PassesWhen
<1>4. (\A i \in 1 .. 6 : ~checks[i][1]) <=>
        /\ ~checks[1][1] /\ ~checks[2][1] /\ ~checks[3][1] /\ ~checks[4][1] /\ ~checks[5][1]
        /\ ~checks[6][1]
  <2> HIDE DEF checks
  <2> QED
    OBVIOUS
<1>5. ~checks[1][1] /\ ~checks[2][1] /\ ~checks[3][1] /\ ~checks[5][1] /\ ~checks[6][1]
        <=> Evident(x)
  BY DEF Evident
<1>6. /\ ~checks[4][1] <=> FirstRefusal(Verdicts(x)) = None
      /\ checks[4][2] = FirstRefusal(Verdicts(x))
  BY DEF Refused
<1>7. FirstRefusal(Verdicts(x)) = None
        <=> \A i \in DOMAIN x.entries : EntryVerdict(x.entries[i], x.rows) = None
  <2>1. /\ DOMAIN Verdicts(x) = DOMAIN x.entries
        /\ \A i \in DOMAIN x.entries :
             /\ Verdicts(x)[i][1] <=> EntryVerdict(x.entries[i], x.rows) # None
             /\ Verdicts(x)[i][2] = EntryVerdict(x.entries[i], x.rows)
    BY DEF Verdicts, Refused
  <2> QED
    BY <2>1, PassesWhen
<1>8. ASSUME Evident(x) PROVE AuditRefusal(x) = FirstRefusal(Verdicts(x))
  <2>1. CASE FirstRefusal(Verdicts(x)) = None
    <3> HIDE DEF checks
    <3> QED
      BY <1>3, <1>4, <1>5, <1>6, <1>8, <2>1
  <2>2. CASE FirstRefusal(Verdicts(x)) # None
    <3> HIDE DEF checks
    <3>1. checks[4][1] /\ \A i \in 1 .. 6 : checks[i][1] => i = 4
      BY <1>5, <1>6, <1>8, <2>2
    <3>2. DOMAIN checks \subseteq Nat /\ 4 \in DOMAIN checks
      BY <1>1
    <3>3. FirstRefusal(checks) = checks[4][2]
      BY <1>1, <3>1, <3>2, FirstRefusalIs
    <3> QED
      BY <1>1, <1>6, <3>3
  <2> QED
    BY <2>1, <2>2
<1> HIDE DEF checks
<1> QED
  BY <1>3, <1>4, <1>5, <1>6, <1>7, <1>8

LEMMA NoMore ==
  ASSUME NEW n \in Nat, NEW m \in Nat, NEW f \in [1 .. n -> 1 .. m],
         \A i, j \in 1 .. n : f[i] = f[j] => i = j
  PROVE  n <= m
<1>1. SUFFICES ASSUME m < n PROVE FALSE
  OBVIOUS
<1>2. /\ IsFiniteSet(1 .. n) /\ Cardinality(1 .. n) = n
      /\ IsFiniteSet(1 .. m) /\ Cardinality(1 .. m) = m
  BY FS_Interval
<1>3. \E i, j \in 1 .. n : i # j /\ f[i] = f[j]
  BY <1>1, <1>2, FS_PigeonHole
<1> QED
  BY <1>3

LEMMA ReverseIs ==
  ASSUME NEW s, NEW n \in Nat, DOMAIN s = 1 .. n, Len(s) = n
  PROVE  LET r == Reverse(s)
         IN /\ DOMAIN r = 1 .. n /\ Len(r) = n
            /\ \A i \in 1 .. n : n - i + 1 \in 1 .. n /\ r[i] = s[n - i + 1]
            /\ ToSet(r) = ToSet(s)
            /\ Range(KeysOf(r)) = Range(KeysOf(s))
            /\ IsInjective(KeysOf(s)) => IsInjective(KeysOf(r))
<1> DEFINE r == Reverse(s)
<1>1. r = [i \in 1 .. n |-> s[(n - i) + 1]]
  BY DEF Reverse
<1>2. DOMAIN r = 1 .. n /\ Len(r) = n
  BY <1>1
<1>3. \A i \in 1 .. n : n - i + 1 \in 1 .. n /\ r[i] = s[n - i + 1]
  BY <1>1
<1> HIDE DEF r
<1>4. \A i \in 1 .. n : \E j \in 1 .. n : r[j] = s[i]
  <2> SUFFICES ASSUME NEW i \in 1 .. n PROVE \E j \in 1 .. n : r[j] = s[i]
    OBVIOUS
  <2>1. n - i + 1 \in 1 .. n /\ n - (n - i + 1) + 1 = i
    OBVIOUS
  <2>2. r[n - i + 1] = s[i]
    BY <1>3, <2>1
  <2> QED
    BY <2>1, <2>2
<1>5. ToSet(r) = ToSet(s)
  <2>1. ASSUME NEW v \in ToSet(r) PROVE v \in ToSet(s)
    <3>1. PICK i \in 1 .. n : v = r[i]
      BY <1>2 DEF ToSet
    <3>2. v = s[n - i + 1] /\ n - i + 1 \in 1 .. n
      BY <1>3, <3>1
    <3> QED
      BY <3>2 DEF ToSet
  <2>2. ASSUME NEW v \in ToSet(s) PROVE v \in ToSet(r)
    <3>1. PICK i \in 1 .. n : v = s[i]
      BY DEF ToSet
    <3>2. PICK j \in 1 .. n : r[j] = v
      BY <1>4, <3>1
    <3> QED
      BY <1>2, <3>2 DEF ToSet
  <2> QED
    BY <2>1, <2>2
<1>6. /\ DOMAIN KeysOf(r) = 1 .. n /\ DOMAIN KeysOf(s) = 1 .. n
      /\ \A i \in 1 .. n : KeysOf(r)[i] = r[i].key /\ KeysOf(s)[i] = s[i].key
  BY <1>2 DEF KeysOf
<1>7. Range(KeysOf(r)) = Range(KeysOf(s))
  <2>1. ASSUME NEW k \in Range(KeysOf(r)) PROVE k \in Range(KeysOf(s))
    <3>1. PICK i \in 1 .. n : k = r[i].key
      BY <1>6 DEF Range
    <3>2. k = KeysOf(s)[n - i + 1] /\ n - i + 1 \in 1 .. n
      BY <1>3, <1>6, <3>1
    <3> QED
      BY <1>6, <3>2 DEF Range
  <2>2. ASSUME NEW k \in Range(KeysOf(s)) PROVE k \in Range(KeysOf(r))
    <3>1. PICK i \in 1 .. n : k = s[i].key
      BY <1>6 DEF Range
    <3>2. PICK j \in 1 .. n : r[j] = s[i]
      BY <1>4
    <3>3. k = KeysOf(r)[j]
      BY <1>6, <3>1, <3>2
    <3> QED
      BY <1>6, <3>3 DEF Range
  <2> QED
    BY <2>1, <2>2
<1>8. ASSUME IsInjective(KeysOf(s)) PROVE IsInjective(KeysOf(r))
  <2>1. SUFFICES ASSUME NEW i \in 1 .. n, NEW j \in 1 .. n, r[i].key = r[j].key
                 PROVE  i = j
    BY <1>6 DEF IsInjective
  <2>2. KeysOf(s)[n - i + 1] = KeysOf(s)[n - j + 1]
    BY <1>3, <1>6, <2>1
  <2>3. n - i + 1 = n - j + 1
    BY <1>3, <1>6, <1>8, <2>2 DEF IsInjective
  <2> QED
    BY <2>3
<1> QED
  BY <1>2, <1>3, <1>5, <1>7, <1>8 DEF r

LEMMA RemoveIs ==
  ASSUME NEW U, NEW s \in Seq(U), NEW n \in Nat, Len(s) = n, NEW i \in 1 .. n
  PROVE  LET r == RemoveAt(s, i)
         IN /\ DOMAIN r = 1 .. n - 1
            /\ \A j \in 1 .. n - 1 : r[j] = IF j < i THEN s[j] ELSE s[j + 1]
<1> DEFINE a == SubSeq(s, 1, i - 1)
           b == SubSeq(s, i + 1, n)
<1>1. RemoveAt(s, i) = a \o b
  BY DEF RemoveAt
<1>2. a \in Seq(U) /\ Len(a) = i - 1 /\ \A j \in 1 .. i - 1 : a[j] = s[j]
  OBVIOUS
<1>3. b \in Seq(U) /\ Len(b) = n - i /\ \A j \in 1 .. n - i : b[j] = s[i + j]
  <2>1. b \in Seq(U)
    OBVIOUS
  <2>2. Len(b) = n - i
    OBVIOUS
  <2>3. \A j \in 1 .. n - i : b[j] = s[i + j]
    OBVIOUS
  <2> QED
    BY <2>1, <2>2, <2>3
<1> HIDE DEF a, b
<1>4. DOMAIN (a \o b) = 1 .. n - 1
  BY <1>2, <1>3
<1>5. ASSUME NEW j \in 1 .. n - 1 PROVE (a \o b)[j] = IF j < i THEN s[j] ELSE s[j + 1]
  <2>1. CASE j < i
    <3>1. j \in 1 .. i - 1
      BY <2>1
    <3> QED
      BY <1>2, <1>3, <2>1, <3>1
  <2>2. CASE ~(j < i)
    <3>1. j - (i - 1) \in 1 .. n - i /\ i + (j - (i - 1)) = j + 1
      BY <2>2
    <3>2. (a \o b)[j] = b[j - (i - 1)]
      BY <1>2, <1>3, <2>2
    <3> QED
      BY <1>3, <2>2, <3>1, <3>2
  <2> QED
    BY <2>1, <2>2
<1> QED
  BY <1>1, <1>4, <1>5

LEMMA AlignedMutual ==
  ASSUME NEW x, {"formed", "heartbeat", "entries", "rows", "summary"} \subseteq DOMAIN x,
         NEW n \in Nat, DOMAIN x.entries = 1 .. n, Len(x.entries) = n,
         NEW m \in Nat, DOMAIN x.rows = 1 .. m, Len(x.rows) = m,
         x.rows \in Seq(ToSet(x.rows))
  PROVE  AlignedIsMutual(x, AuditRefusal(x))
<1>1. SUFFICES ASSUME AuditRefusal(x) = None
               PROVE  AlignedIsMutual(x, None)
  BY DEF AlignedIsMutual
<1>2. Evident(x) /\ \A i \in 1 .. n : EntryVerdict(x.entries[i], x.rows) = None
  <2>1. DOMAIN x.entries \subseteq Nat
    OBVIOUS
  <2> QED
    BY <1>1, <2>1, AuditPasses
<1> DEFINE Own(i) == RowOfEntry(x.entries[i])
<1>3. ASSUME NEW i \in 1 .. n
      PROVE  /\ TerminalIssue(x.entries[i]) = None
             /\ {r \in ToSet(x.rows) : r.key = x.entries[i].key} = {Own(i)}
  BY <1>2, EntryPasses
<1>4. \A i \in 1 .. n : Own(i).key = x.entries[i].key
  BY DEF RowOfEntry
<1>5. \A i \in 1 .. n : \E j \in 1 .. m : x.rows[j] = Own(i)
  <2> SUFFICES ASSUME NEW i \in 1 .. n PROVE \E j \in 1 .. m : x.rows[j] = Own(i)
    OBVIOUS
  <2>1. Own(i) \in ToSet(x.rows)
    BY <1>3
  <2> QED
    BY <2>1 DEF ToSet
<1>6. /\ DOMAIN KeysOf(x.rows) = 1 .. m /\ DOMAIN KeysOf(x.entries) = 1 .. n
      /\ \A j \in 1 .. m : KeysOf(x.rows)[j] = x.rows[j].key
      /\ \A i \in 1 .. n : KeysOf(x.entries)[i] = x.entries[i].key
  BY DEF KeysOf
<1>7. \A j \in 1 .. m : \E i \in 1 .. n : x.rows[j] = Own(i)
  <2> SUFFICES ASSUME NEW j \in 1 .. m PROVE \E i \in 1 .. n : x.rows[j] = Own(i)
    OBVIOUS
  <2>1. x.rows[j].key \in Range(KeysOf(x.entries))
    BY <1>2, <1>6 DEF Evident, Range
  <2>2. PICK i \in 1 .. n : x.rows[j].key = x.entries[i].key
    BY <1>6, <2>1 DEF Range
  <2>3. x.rows[j] \in {r \in ToSet(x.rows) : r.key = x.entries[i].key}
    BY <2>2 DEF ToSet
  <2> QED
    BY <1>3, <2>3
<1>8. /\ \A i, j \in 1 .. n : x.entries[i].key = x.entries[j].key => i = j
      /\ \A i, j \in 1 .. m : x.rows[i].key = x.rows[j].key => i = j
  <2>1. IsInjective(KeysOf(x.entries)) /\ IsInjective(KeysOf(x.rows))
    BY <1>2 DEF Evident
  <2>2. \A i, j \in 1 .. n : x.entries[i].key = x.entries[j].key => i = j
    BY <1>6, <2>1 DEF IsInjective
  <2>3. \A i, j \in 1 .. m : x.rows[i].key = x.rows[j].key => i = j
    BY <1>6, <2>1 DEF IsInjective
  <2> QED
    BY <2>2, <2>3
<1>9. {RowOfEntry(e) : e \in ToSet(x.entries)} = ToSet(x.rows)
  <2>1. ASSUME NEW e \in ToSet(x.entries) PROVE RowOfEntry(e) \in ToSet(x.rows)
    <3>1. PICK i \in 1 .. n : e = x.entries[i]
      BY DEF ToSet
    <3>2. PICK j \in 1 .. m : x.rows[j] = Own(i)
      BY <1>5
    <3> QED
      BY <3>1, <3>2 DEF ToSet
  <2>2. ASSUME NEW r \in ToSet(x.rows)
        PROVE  \E e \in ToSet(x.entries) : r = RowOfEntry(e)
    <3>1. PICK j \in 1 .. m : r = x.rows[j]
      BY DEF ToSet
    <3>2. PICK i \in 1 .. n : x.rows[j] = Own(i)
      BY <1>7
    <3>3. x.entries[i] \in ToSet(x.entries)
      BY DEF ToSet
    <3> QED
      BY <3>1, <3>2, <3>3
  <2> QED
    BY <2>1, <2>2
<1>10. n <= m
  <2> DEFINE f == [i \in 1 .. n |-> CHOOSE j \in 1 .. m : x.rows[j] = Own(i)]
  <2>1. \A i \in 1 .. n : f[i] \in 1 .. m /\ x.rows[f[i]] = Own(i)
    BY <1>5
  <2>2. f \in [1 .. n -> 1 .. m]
    BY <2>1
  <2> HIDE DEF f
  <2>3. \A i, j \in 1 .. n : f[i] = f[j] => i = j
    BY <1>4, <1>8, <2>1
  <2> QED
    BY <2>2, <2>3, NoMore
<1>11. m <= n
  <2> DEFINE f == [j \in 1 .. m |-> CHOOSE i \in 1 .. n : x.rows[j] = Own(i)]
  <2>1. \A j \in 1 .. m : f[j] \in 1 .. n /\ x.rows[j] = Own(f[j])
    BY <1>7
  <2>2. f \in [1 .. m -> 1 .. n]
    BY <2>1
  <2> HIDE DEF f
  <2>3. \A i, j \in 1 .. m : f[i] = f[j] => i = j
    BY <1>8, <2>1
  <2> QED
    BY <2>2, <2>3, NoMore
<1>12. Len(x.entries) = Len(x.rows)
  BY <1>10, <1>11
<1>13. x.entries # <<>>
  <2>1. SUFFICES ASSUME x.entries = <<>> PROVE FALSE
    OBVIOUS
  <2>2. {e.batch : e \in ToSet(x.entries)} = {}
    BY <2>1 DEF ToSet
  <2> QED
    BY <1>2, <2>2 DEF Evident
<1>14. AuditRefusal([x EXCEPT !.entries = Reverse(@)]) = None
  <2> DEFINE y == [x EXCEPT !.entries = Reverse(@)]
  <2>1. /\ y.entries = Reverse(x.entries) /\ y.formed = x.formed
        /\ y.heartbeat = x.heartbeat /\ y.rows = x.rows /\ y.summary = x.summary
    OBVIOUS
  <2> HIDE DEF y
  <2>2. /\ DOMAIN y.entries = 1 .. n /\ Len(y.entries) = n
        /\ \A i \in 1 .. n : n - i + 1 \in 1 .. n /\ y.entries[i] = x.entries[n - i + 1]
        /\ ToSet(y.entries) = ToSet(x.entries)
        /\ Range(KeysOf(y.entries)) = Range(KeysOf(x.entries))
        /\ IsInjective(KeysOf(x.entries)) => IsInjective(KeysOf(y.entries))
    BY <2>1, ReverseIs
  <2>3. Evident(y)
    <3>1. Aggregate(y.entries) = Aggregate(x.entries)
      BY <2>2 DEF Aggregate
    <3> QED
      BY <1>2, <2>1, <2>2, <3>1 DEF Evident
  <2>4. ASSUME NEW i \in 1 .. n PROVE EntryVerdict(y.entries[i], y.rows) = None
    <3>1. PICK j \in 1 .. n : y.entries[i] = x.entries[j]
      BY <2>2
    <3> QED
      BY <1>2, <2>1, <3>1
  <2>5. DOMAIN y.entries \subseteq Nat
    BY <2>2
  <2>6. AuditRefusal(y) = None
    BY <2>2, <2>3, <2>4, <2>5, AuditPasses
  <2> QED
    BY <2>6 DEF y
<1>15. AuditRefusal([x EXCEPT !.rows = Reverse(@)]) = None
  <2> DEFINE y == [x EXCEPT !.rows = Reverse(@)]
  <2>1. /\ y.rows = Reverse(x.rows) /\ y.formed = x.formed
        /\ y.heartbeat = x.heartbeat /\ y.entries = x.entries /\ y.summary = x.summary
    OBVIOUS
  <2> HIDE DEF y
  <2>2. /\ ToSet(y.rows) = ToSet(x.rows)
        /\ Range(KeysOf(y.rows)) = Range(KeysOf(x.rows))
        /\ IsInjective(KeysOf(x.rows)) => IsInjective(KeysOf(y.rows))
    BY <2>1, ReverseIs
  <2>3. Evident(y)
    BY <1>2, <2>1, <2>2 DEF Evident
  <2>4. ASSUME NEW i \in 1 .. n PROVE EntryVerdict(y.entries[i], y.rows) = None
    <3>1. {r \in ToSet(y.rows) : r.key = y.entries[i].key} = {RowOfEntry(y.entries[i])}
      BY <1>3, <2>1, <2>2
    <3>2. {r \in ToSet(y.rows) : r.key = y.entries[i].key} # {}
      BY <3>1
    <3> QED
      BY <1>3, <2>1, <3>1, <3>2, EntryPasses
  <2>5. DOMAIN y.entries \subseteq Nat
    BY <2>1
  <2>6. AuditRefusal(y) = None
    BY <2>1, <2>3, <2>4, <2>5, AuditPasses
  <2> QED
    BY <2>6 DEF y
<1>16. ASSUME NEW i \in 1 .. m
       PROVE  AuditRefusal([x EXCEPT !.rows = RemoveAt(@, i)]) = "missing_audit_evidence"
  <2> DEFINE y == [x EXCEPT !.rows = RemoveAt(@, i)]
  <2>1. /\ y.rows = RemoveAt(x.rows, i) /\ y.formed = x.formed
        /\ y.heartbeat = x.heartbeat /\ y.entries = x.entries /\ y.summary = x.summary
    OBVIOUS
  <2> HIDE DEF y
  <2>2. /\ DOMAIN y.rows = 1 .. m - 1
        /\ \A j \in 1 .. m - 1 : y.rows[j] = IF j < i THEN x.rows[j] ELSE x.rows[j + 1]
    BY <2>1, RemoveIs
  <2>3. \A j \in 1 .. m - 1 : \E l \in 1 .. m : l # i /\ y.rows[j] = x.rows[l]
                                                  /\ l = IF j < i THEN j ELSE j + 1
    <3> SUFFICES ASSUME NEW j \in 1 .. m - 1
                 PROVE  \E l \in 1 .. m : l # i /\ y.rows[j] = x.rows[l]
                                            /\ l = IF j < i THEN j ELSE j + 1
      OBVIOUS
    <3>1. j \in 1 .. m /\ j + 1 \in 1 .. m
      OBVIOUS
    <3> QED
      BY <2>2, <3>1
  <2>4. \A l \in 1 .. m : l # i => \E j \in 1 .. m - 1 : y.rows[j] = x.rows[l]
    <3> SUFFICES ASSUME NEW l \in 1 .. m, l # i
                 PROVE  \E j \in 1 .. m - 1 : y.rows[j] = x.rows[l]
      OBVIOUS
    <3>1. CASE l < i
      <4>1. l \in 1 .. m - 1
        BY <3>1
      <4> QED
        BY <2>2, <3>1, <4>1
    <3>2. CASE ~(l < i)
      <4>1. l - 1 \in 1 .. m - 1 /\ ~(l - 1 < i) /\ (l - 1) + 1 = l
        BY <3>2
      <4> QED
        BY <2>2, <4>1
    <3> QED
      BY <3>1, <3>2
  <2>5. /\ DOMAIN KeysOf(y.rows) = 1 .. m - 1
        /\ \A j \in 1 .. m - 1 : KeysOf(y.rows)[j] = y.rows[j].key
    BY <2>2 DEF KeysOf
  <2>6. IsInjective(KeysOf(y.rows))
    <3>1. SUFFICES ASSUME NEW j \in 1 .. m - 1, NEW k \in 1 .. m - 1,
                          y.rows[j].key = y.rows[k].key
                   PROVE  j = k
      BY <2>5 DEF IsInjective
    <3>2. PICK l \in 1 .. m : y.rows[j] = x.rows[l] /\ l = IF j < i THEN j ELSE j + 1
      BY <2>3
    <3>3. PICK o \in 1 .. m : y.rows[k] = x.rows[o] /\ o = IF k < i THEN k ELSE k + 1
      BY <2>3
    <3>4. l = o
      BY <1>8, <3>1, <3>2, <3>3
    <3> QED
      BY <3>2, <3>3, <3>4
  <2>7. Range(KeysOf(y.rows)) \subseteq Range(KeysOf(x.rows))
    <3>1. SUFFICES ASSUME NEW j \in 1 .. m - 1
                   PROVE  y.rows[j].key \in Range(KeysOf(x.rows))
      BY <2>5 DEF Range
    <3>2. PICK l \in 1 .. m : y.rows[j] = x.rows[l]
      BY <2>3
    <3> QED
      BY <1>6, <3>2 DEF Range
  <2>8. Evident(y)
    BY <1>2, <2>1, <2>6, <2>7 DEF Evident
  <2>9. PICK q \in 1 .. n : x.rows[i] = Own(q)
    BY <1>7
  <2>10. ASSUME NEW k \in 1 .. n, k # q PROVE EntryVerdict(y.entries[k], y.rows) = None
    <3>1. {r \in ToSet(y.rows) : r.key = x.entries[k].key} = {Own(k)}
      <4>1. PICK l \in 1 .. m : x.rows[l] = Own(k)
        BY <1>5
      <4>2. l # i
        BY <1>4, <1>8, <2>9, <2>10, <4>1
      <4>3. Own(k) \in ToSet(y.rows)
        BY <2>2, <2>4, <4>1, <4>2 DEF ToSet
      <4>4. ToSet(y.rows) \subseteq ToSet(x.rows)
        <5>1. ASSUME NEW v \in ToSet(y.rows) PROVE v \in ToSet(x.rows)
          <6>1. PICK j \in 1 .. m - 1 : v = y.rows[j]
            BY <2>2 DEF ToSet
          <6>2. PICK p \in 1 .. m : y.rows[j] = x.rows[p]
            BY <2>3
          <6> QED
            BY <6>1, <6>2 DEF ToSet
        <5> QED
          BY <5>1
      <4> QED
        BY <1>3, <4>3, <4>4
    <3> HIDE DEF Own
    <3>2. {r \in ToSet(y.rows) : r.key = x.entries[k].key} # {}
      BY <3>1
    <3> QED
      BY <1>3, <2>1, <3>1, <3>2, EntryPasses DEF Own
  <2>11. EntryVerdict(y.entries[q], y.rows) = "missing_audit_evidence"
    <3> DEFINE own == {r \in ToSet(y.rows) : r.key = y.entries[q].key}
               checks == << Refused(TerminalIssue(y.entries[q])),
                            <<own = {}, "missing_audit_evidence">>,
                            <<own # {RowOfEntry(y.entries[q])}, "fingerprint_mismatch">> >>
               failed == {k \in DOMAIN checks : checks[k][1]}
    <3>1. own = {}
      <4>1. SUFFICES ASSUME NEW j \in 1 .. m - 1, y.rows[j].key = x.entries[q].key PROVE FALSE
        BY <2>1, <2>2 DEF ToSet
      <4>2. PICK l \in 1 .. m : l # i /\ y.rows[j] = x.rows[l]
        BY <2>3
      <4>3. x.rows[l].key = x.rows[i].key
        BY <1>4, <2>9, <4>1, <4>2
      <4> QED
        BY <1>8, <4>2, <4>3
    <3>2. EntryVerdict(y.entries[q], y.rows) = FirstRefusal(checks) /\ DOMAIN checks = 1 .. 3
      BY DEF EntryVerdict
    <3>3. ~checks[1][1] /\ checks[2][1] /\ checks[2][2] = "missing_audit_evidence"
      BY <1>3, <2>1, <3>1 DEF Refused
    <3> HIDE DEF checks
    <3>4. failed \subseteq Nat /\ failed # {} /\ 2 \in failed
      BY <3>2, <3>3
    <3>5. Min(failed) \in failed /\ \A k \in failed : Min(failed) <= k
      <4> HIDE DEF failed
      <4> QED
        BY <3>4, MinOfNats
    <3>6. Min(failed) = 2
      <4>1. PICK k : k = Min(failed)
        OBVIOUS
      <4>2. k \in 1 .. 3 /\ k <= 2 /\ k # 1
        BY <3>2, <3>3, <3>4, <3>5, <4>1
      <4> QED
        BY <4>1, <4>2
    <3> QED
      BY <3>2, <3>3, <3>4, <3>6 DEF FirstRefusal
  <2>12. FirstRefusal(Verdicts(y)) = "missing_audit_evidence"
    <3>1. /\ DOMAIN Verdicts(y) = 1 .. n
          /\ \A k \in 1 .. n :
               /\ Verdicts(y)[k][1] <=> EntryVerdict(y.entries[k], y.rows) # None
               /\ Verdicts(y)[k][2] = EntryVerdict(y.entries[k], y.rows)
      BY <2>1 DEF Verdicts, Refused
    <3>2. DOMAIN Verdicts(y) \subseteq Nat
      BY <3>1
    <3>3. "missing_audit_evidence" # None
      BY DEF None
    <3>4. \E k \in DOMAIN Verdicts(y) : Verdicts(y)[k][1]
      BY <2>11, <3>1, <3>3
    <3>5. \A k \in DOMAIN Verdicts(y) :
             Verdicts(y)[k][1] => Verdicts(y)[k][2] = "missing_audit_evidence"
      BY <2>10, <2>11, <3>1
    <3> QED
      BY <3>2, <3>4, <3>5, OnlyRefusal
  <2>13. DOMAIN y.entries \subseteq Nat
    BY <2>1
  <2>14. AuditRefusal(y) = "missing_audit_evidence"
    BY <2>8, <2>12, <2>13, AuditPasses
  <2> QED
    BY <2>14 DEF y
<1> QED
  BY <1>9, <1>12, <1>13, <1>14, <1>15, <1>16 DEF AlignedIsMutual

-----------------------------------------------------------------------------
(* Operators, pacing, rows, prices and launches *)

LEMMA OperatorsSign ==
  ASSUME NEW x
  PROVE  EveryOperatorSigns(x, PoolRefusal(x.file, x.set))
<1>1. SUFFICES ASSUME PoolRefusal(x.file, x.set) = None
               PROVE  EveryOperatorSigns(x, None)
  BY DEF EveryOperatorSigns
<1>2. /\ \E i \in DOMAIN x.file.list : IsOn(x.file.list[i])
      /\ \A i \in DOMAIN x.file.list : IsOn(x.file.list[i]) => x.file.list[i].key \in x.set
  BY <1>1, PoolPasses
<1> QED
  BY <1>2 DEF EveryOperatorSigns, EligibleOperators

LEMMA RoundedUp ==
  ASSUME NEW h \in Nat, NEW p \in Nat, p > 0
  PROVE  ((h + p - 1) \div p) * p >= h
<1>1. PICK q \in Int : q = (h + p - 1) \div p
  OBVIOUS
<1>2. PICK r \in Int : r = (h + p - 1) % p /\ r < p
  OBVIOUS
<1>3. h + p - 1 = p * q + r
  BY <1>1, <1>2
<1>4. p * q = q * p
  OBVIOUS
<1>5. PICK t \in Int : t = q * p
  OBVIOUS
<1>6. t >= h
  BY <1>2, <1>3, <1>4, <1>5
<1> QED
  BY <1>1, <1>5, <1>6

LEMMA PaceKeeps ==
  ASSUME NEW x, x.count \in Int, x.perHour \in Int
  PROVE  PaceKeepsLimit(x, ExecutionRefusal(x.count, x.maxBatch, x.perHour))
<1>1. SUFFICES ASSUME ExecutionRefusal(x.count, x.maxBatch, x.perHour) = None
               PROVE  PaceKeepsLimit(x, None)
  BY DEF PaceKeepsLimit
<1>2. ~(x.count <= 0) /\ ~(x.perHour <= 0)
  BY <1>1, ExecutionPasses
<1>3. PICK p \in Nat : p = x.perHour /\ p > 0
  BY <1>2
<1>4. PICK h \in Nat : h = Hour
  BY DEF Hour
<1>5. PacingDelay(x.perHour) * x.perHour >= Hour
  BY <1>3, <1>4, RoundedUp DEF PacingDelay
<1>6. ToSet(ExecutionOrder(x.count)) = 0 .. x.count - 1
  <2>1. ASSUME NEW k \in 0 .. x.count - 1 PROVE k \in ToSet(ExecutionOrder(x.count))
    <3>1. k + 1 \in 1 .. x.count /\ (k + 1) - 1 = k
      OBVIOUS
    <3> QED
      BY <3>1 DEF ToSet, ExecutionOrder
  <2>2. ASSUME NEW k \in ToSet(ExecutionOrder(x.count)) PROVE k \in 0 .. x.count - 1
    <3>1. PICK i \in DOMAIN ExecutionOrder(x.count) : k = ExecutionOrder(x.count)[i]
      BY DEF ToSet
    <3>2. i \in 1 .. x.count /\ k = i - 1
      BY <3>1 DEF ExecutionOrder
    <3> QED
      BY <3>2
  <2> QED
    BY <2>1, <2>2
<1> QED
  BY <1>5, <1>6 DEF PaceKeepsLimit

LEMMA RowWritten ==
  ASSUME NEW x, x.campaign \notin {NullText, BadText}, x.batch \notin {NullText, BadText},
         Len(x.key) >= 2 => x.key[2] \notin {NullText, BadText},
         x.attempt \in Int, x.optional # BadText
  PROVE  RowIsWritten(x, UpdateAuditRow(x))
<1>1. SUFFICES ASSUME x.campaign # "" PROVE AppendRowsRefusal("file", UpdateAuditRow(x)) = None
  BY DEF RowIsWritten
<1> DEFINE row ==
      [object |-> TRUE, timestamp |-> "now", campaign |-> x.campaign,
       batch |-> IF x.batch \in {"", Unset} THEN x.campaign ELSE x.batch,
       recipient |-> RecordedRecipient(x.key), amount |-> 0,
       status |-> IF x.type = "batch_success" THEN "success" ELSE "failed",
       attempts |-> Max({x.attempt, 0}), optional |-> x.optional]
<1>2. UpdateAuditRow(x) = <<>> \/ UpdateAuditRow(x) = <<row>>
  BY DEF UpdateAuditRow
<1>3. \A t \in {row.timestamp, row.campaign, row.batch, row.recipient, row.status} : FullText(t)
  <2>1. FullText("now") /\ FullText("success") /\ FullText("failed") /\ FullText("unknown")
          /\ FullText("the key")
    BY DEF FullText, NullText, BadText
  <2>2. FullText(x.campaign)
    BY <1>1 DEF FullText
  <2>3. FullText(row.batch)
    BY <2>2 DEF FullText
  <2>4. FullText(RecordedRecipient(x.key))
    <3>1. CASE Len(x.key) >= 2 /\ x.key[2] # ""
      BY <3>1 DEF RecordedRecipient, FullText
    <3>2. CASE ~(Len(x.key) >= 2 /\ x.key[2] # "")
      BY <2>1, <3>2 DEF RecordedRecipient
    <3> QED
      BY <3>1, <3>2
  <2> QED
    BY <2>1, <2>2, <2>3, <2>4
<1>4. row.attempts \in Int /\ row.attempts >= 0
  <2>1. PICK zero \in Int : zero = 0
    OBVIOUS
  <2>2. PICK n \in Int : n = x.attempt
    OBVIOUS
  <2>3. Max({n, zero}) = IF n >= zero THEN n ELSE zero
    BY TwoBounds
  <2> QED
    BY <2>1, <2>2, <2>3
<1>5. ~BadAuditRow(row)
  <2>1. row.object /\ row.amount = 0 /\ row.optional = x.optional
    OBVIOUS
  <2>2. ~(row.amount < 0) /\ ~(row.attempts < 0) /\ row.optional # BadText
    <3>1. row.attempts \in Int
      BY <1>4
    <3> HIDE DEF row
    <3> QED
      BY <1>4, <2>1, <3>1
  <2> HIDE DEF row
  <2> QED
    BY <1>3, <2>1, <2>2, Zenon DEF BadAuditRow
<1>6. FullText("file")
  BY DEF FullText, NullText, BadText
<1> HIDE DEF row
<1>7. \A i \in DOMAIN UpdateAuditRow(x) : ~BadAuditRow(UpdateAuditRow(x)[i])
  <2>1. CASE UpdateAuditRow(x) = <<>>
    BY <2>1
  <2>2. CASE UpdateAuditRow(x) = <<row>>
    BY <1>5, <2>2
  <2> QED
    BY <1>2, <2>1, <2>2
<1> QED
  BY <1>6, <1>7, RowsPass

LEMMA AttachedCovers ==
  ASSUME NEW x, x.prices.flat \in Int, x.prices.gas \in Nat, x.forward \in Int
  PROVE  AttachedCoversPrice(x, AttachValue(x.prices, x.payload, x.forward))
<1>1. PICK f \in Int, g \in Nat, w \in Int : f = x.prices.flat /\ g = x.prices.gas /\ w = x.forward
  OBVIOUS
<1>2. PICK q \in Int, r \in Int : q = g \div 65536 /\ r = g % 65536 /\ 0 <= r /\ r <= 65535
  OBVIOUS
<1>3. CASE x.payload
  <2>1. AttachValue(x.prices, x.payload, x.forward)
          = (f + q * 15000) + (f + q * 10000) + (f + q * 5000) + 3000000 + w
    BY <1>1, <1>2, <1>3 DEF AttachValue, ComputeFee, TransferGas, NotifyGas, PayloadGas,
                            ForwardBuffer, Fixed
  <2>2. (r * 30000) \div 65536 + 1 <= 3000000
    BY <1>2
  <2>3. (f + q * 15000) + (f + q * 10000) + (f + q * 5000) + 3000000 + w - 3 * f - w - q * 30000
          >= (r * 30000) \div 65536 + 1
    BY <1>2, <2>2
  <2> DEFINE gas == TransferGas + NotifyGas + IF x.payload THEN PayloadGas ELSE 0
             times == IF x.payload THEN 3 ELSE 2
             a == AttachValue(x.prices, x.payload, x.forward)
  <2>4. gas = 30000 /\ times = 3
    BY <1>3 DEF TransferGas, NotifyGas, PayloadGas
  <2>5. AttachedCoversPrice(x, a) <=>
          a - times * x.prices.flat - x.forward - (x.prices.gas \div Fixed) * gas
            >= ((x.prices.gas % Fixed) * gas) \div Fixed + 1
    BY DEF AttachedCoversPrice
  <2>6. a = (f + q * 15000) + (f + q * 10000) + (f + q * 5000) + 3000000 + w
    BY <2>1
  <2> HIDE DEF gas, times, a
  <2>7. a - 3 * f - w - q * 30000 >= (r * 30000) \div 65536 + 1
    BY <2>3, <2>6
  <2>8. /\ times * x.prices.flat = 3 * f /\ x.forward = w
        /\ x.prices.gas \div Fixed = q /\ x.prices.gas % Fixed = r /\ Fixed = 65536
    BY <1>1, <1>2, <2>4 DEF Fixed
  <2>9. AttachedCoversPrice(x, a)
    BY <2>4, <2>5, <2>7, <2>8
  <2> QED
    BY <2>9 DEF a
<1>4. CASE ~x.payload
  <2>1. AttachValue(x.prices, x.payload, x.forward)
          = (f + q * 15000) + (f + q * 10000) + 0 + 3000000 + w
    BY <1>1, <1>2, <1>4 DEF AttachValue, ComputeFee, TransferGas, NotifyGas, PayloadGas,
                            ForwardBuffer, Fixed
  <2>2. (r * 25000) \div 65536 + 1 <= 3000000
    BY <1>2
  <2>3. (f + q * 15000) + (f + q * 10000) + 0 + 3000000 + w - 2 * f - w - q * 25000
          >= (r * 25000) \div 65536 + 1
    BY <1>2, <2>2
  <2> QED
    BY <1>1, <1>2, <1>4, <2>1, <2>3
    DEF AttachedCoversPrice, TransferGas, NotifyGas, PayloadGas, Fixed
<1> QED
  BY <1>3, <1>4

LEMMA LaunchDispatched ==
  ASSUME NEW x
  PROVE  LaunchIsDispatched(x, LaunchRefusal(x.env, x.targets, x.operators))
<1>1. SUFFICES ASSUME LaunchRefusal(x.env, x.targets, x.operators) = None
               PROVE  LaunchIsDispatched(x, None)
  BY DEF LaunchIsDispatched
<1>2. /\ x.env.campaign # "" /\ ~(BatchSize(x.env, x.operators) < 1)
      /\ x.env.delay # OddNumber /\ TargetsRefusal(x.targets) = None
  BY <1>1, LaunchPasses
<1>3. x.targets.list # <<>>
  BY <1>2, TargetsPasses
<1>4. ConfigRefusal(ConfigOfLaunch(x.env)) = None
  <2> DEFINE config == ConfigOfLaunch(x.env)
  <2>1. /\ config.stateDir = "dir" /\ config.methods = Interfaces /\ config.dry = "true"
        /\ config.force \in {"true", "false"} /\ config.entryDelay = x.env.delay
        /\ config.batchDelay = x.env.delay
    BY DEF ConfigOfLaunch
  <2>2. \A name \in DOMAIN Interfaces : Interfaces[name] \subseteq config.methods[name]
    BY <2>1
  <2>3. config.stateDir # "" /\ config.dry \in {"true", "false"}
          /\ config.force \in {Unset, "true", "false"}
    BY <2>1
  <2> HIDE DEF config
  <2>4. ConfigRefusal(config) = None
    BY <1>2, <2>1, <2>2, <2>3, ConfigPasses
  <2> QED
    BY <2>4 DEF config
<1>5. ReconcilerRefusal(ReconcilerOfLaunch(ConfigOfLaunch(x.env).stateDir)) = None
  <2> DEFINE config == ReconcilerOfLaunch(ConfigOfLaunch(x.env).stateDir)
  <2>1. /\ config.stateDir = "dir" /\ config.methods = {"readTerminalEntries"}
        /\ config.timeout = NoNumber
    BY DEF ConfigOfLaunch, ReconcilerOfLaunch
  <2>2. NoNumber # OddNumber /\ NoNumber # 0
    BY DEF NoNumber, OddNumber
  <2> HIDE DEF config
  <2>3. ReconcilerRefusal(config) = None
    BY <2>1, <2>2, ReconcilerPasses
  <2> QED
    BY <2>3 DEF config
<1>6. CampaignRefusal(CampaignOfLaunch(x.env, x.targets, x.operators)) = None
  <2> DEFINE campaign == CampaignOfLaunch(x.env, x.targets, x.operators)
  <2>1. /\ campaign.id = x.env.campaign /\ campaign.metadata = "file"
        /\ campaign.recipients = x.targets.list
        /\ campaign.size = BatchSize(x.env, x.operators)
    BY DEF CampaignOfLaunch
  <2> HIDE DEF campaign
  <2>3. CampaignRefusal(campaign) = None
    BY <1>2, <1>3, <2>1, CampaignPasses
  <2> QED
    BY <2>3 DEF campaign
<1> QED
  BY <1>4, <1>5, <1>6 DEF LaunchIsDispatched

-----------------------------------------------------------------------------
(* Retries *)

\* f doubles up to k.
Doubles(f, k) == f = [n \in 0 .. k |-> IF n = 0 THEN 1 ELSE 2 * f[n - 1]]

LEMMA DoublesExists ==
  ASSUME NEW m \in Nat
  PROVE  \E f : Doubles(f, m)
<1> DEFINE P == {k \in 0 .. m : \E f : Doubles(f, k)}
<1>1. 0 \in P
  <2> DEFINE g == [n \in 0 .. 0 |-> 1]
  <2>1. g = [n \in 0 .. 0 |-> IF n = 0 THEN 1 ELSE 2 * g[n - 1]]
    OBVIOUS
  <2>2. Doubles(g, 0)
    BY <2>1, Zenon DEF Doubles
  <2>3. \E f : Doubles(f, 0)
    BY <2>2
  <2>4. 0 \in 0 .. m
    OBVIOUS
  <2> QED
    BY <2>3, <2>4
<1>2. ASSUME NEW k \in 1 .. m, k - 1 \in P PROVE k \in P
  <2>1. PICK f : Doubles(f, k - 1)
    BY <1>2
  <2> DEFINE g == [n \in 0 .. k |-> IF n = 0 THEN 1 ELSE 2 * f[n - 1]]
  <2>2. ASSUME NEW n \in 0 .. k, n # 0 PROVE g[n - 1] = f[n - 1]
    <3>1. n - 1 \in 0 .. k /\ n - 1 \in 0 .. k - 1
      BY <2>2
    <3>2. g[n - 1] = IF n - 1 = 0 THEN 1 ELSE 2 * f[(n - 1) - 1]
      BY <3>1
    <3>3. f[n - 1] = IF n - 1 = 0 THEN 1 ELSE 2 * f[(n - 1) - 1]
      BY <2>1, <3>1 DEF Doubles
    <3> QED
      BY <3>2, <3>3
  <2>3. g = [n \in 0 .. k |-> IF n = 0 THEN 1 ELSE 2 * g[n - 1]]
    BY <2>2
  <2>4. Doubles(g, k)
    BY <2>3, Zenon DEF Doubles
  <2> QED
    BY <2>4
<1> HIDE DEF P
<1>3. \A k \in 0 .. m : k \in P
  BY <1>1, <1>2, Upwards
<1> QED
  BY <1>3 DEF P

LEMMA PowerIs ==
  /\ Power[0] = 1
  /\ \A n \in 1 .. MaxAttempts : Power[n] = 2 * Power[n - 1]
  /\ \A n \in 0 .. MaxAttempts : Power[n] \in Nat /\ Power[n] >= 1
<1>1. MaxAttempts \in Nat
  BY MaxAttemptsAssumption
<1>2. Power = CHOOSE f : Doubles(f, MaxAttempts)
  BY DEF Power, Doubles
<1>3. Doubles(Power, MaxAttempts)
  BY <1>1, <1>2, DoublesExists
<1>4. Power[0] = 1 /\ \A n \in 1 .. MaxAttempts : Power[n] = 2 * Power[n - 1]
  BY <1>1, <1>3 DEF Doubles
<1> DEFINE P == {k \in 0 .. MaxAttempts : Power[k] \in Nat /\ Power[k] >= 1}
<1>5. 0 \in P
  BY <1>1, <1>4
<1>6. \A k \in 1 .. MaxAttempts : k - 1 \in P => k \in P
  BY <1>1, <1>4
<1>7. \A k \in 0 .. MaxAttempts : k \in P
  <2> HIDE DEF P
  <2> QED
    BY <1>1, <1>5, <1>6, Upwards
<1> QED
  BY <1>4, <1>7

\* A backoff is at least one and at most its cap, and does not shrink.
LEMMA BackoffFits ==
  ASSUME NEW base \in Nat, base >= 1, NEW cap \in Nat, cap >= 1,
         NEW n \in Int, n >= 1, n <= MaxAttempts
  PROVE  /\ Backoff(n, base, cap) \in Int
         /\ Backoff(n, base, cap) >= 1 /\ Backoff(n, base, cap) <= cap
         /\ n > 1 => Backoff(n, base, cap) >= Backoff(n - 1, base, cap)
<1>1. MaxAttempts \in Nat
  BY MaxAttemptsAssumption
<1>2. PICK p \in Nat : p = Power[n - 1] /\ p >= 1
  BY <1>1, PowerIs
<1>3. base * p \in Nat /\ base * p >= 1
  <2>1. base * p >= base * 1
    BY <1>2, Times
  <2> QED
    BY <2>1
<1>4. Backoff(n, base, cap) = IF base * p <= cap THEN base * p ELSE cap
  <2>1. PICK b \in Int : b = base * p
    BY <1>3
  <2>2. Min({b, cap}) = IF b <= cap THEN b ELSE cap
    BY TwoBounds
  <2> QED
    BY <1>2, <2>1, <2>2 DEF Backoff
<1>5. ASSUME n > 1 PROVE Backoff(n, base, cap) >= Backoff(n - 1, base, cap)
  <2>1. PICK o \in Nat : o = Power[(n - 1) - 1] /\ o >= 1 /\ p = 2 * o
    <3>1. (n - 1) \in 1 .. MaxAttempts /\ (n - 1) - 1 \in 0 .. MaxAttempts
      BY <1>1, <1>5
    <3> QED
      BY <1>2, <3>1, PowerIs
  <2>2. base * o \in Nat /\ base * p = 2 * (base * o)
    BY <2>1
  <2>3. Backoff(n - 1, base, cap) = IF base * o <= cap THEN base * o ELSE cap
    <3>1. PICK b \in Int : b = base * o
      BY <2>2
    <3>2. Min({b, cap}) = IF b <= cap THEN b ELSE cap
      BY TwoBounds
    <3> QED
      BY <2>1, <3>1, <3>2 DEF Backoff
  <2>4. PICK b \in Nat : b = base * o
    BY <2>2
  <2> QED
    BY <1>4, <2>2, <2>3, <2>4
<1> QED
  BY <1>3, <1>4, <1>5

LEMMA BackoffsOf ==
  ASSUME NEW c \in RetrySameIdentity
  PROVE  /\ BackoffOf[c][1] \in Nat /\ BackoffOf[c][1] >= 1
         /\ BackoffOf[c][2] \in Nat /\ BackoffOf[c][2] >= 1 /\ BackoffOf[c][2] <= 60000
BY DEF RetrySameIdentity, BackoffOf

LEMMA DecisionOf ==
  ASSUME NEW c, NEW n \in Int, n >= 1, n <= MaxAttempts
  PROVE  LET d == RetryDecision(c, n)
         IN /\ (d.disposition = "retry_same_identity") <=> (d.cooldown \in 1 .. FailedWindow)
            /\ (d.disposition = "rotate_identity") <=> (d.failed # NoWindow)
            /\ d.code = c
            /\ n > 1 /\ d.retry => d.delay >= RetryDecision(d.code, n - 1).delay
<1> DEFINE d == RetryDecision(c, n)
             retried == c \in RetrySameIdentity /\ n < MaxAttempts
             delay == IF retried THEN Backoff(n, BackoffOf[c][1], BackoffOf[c][2]) ELSE 0
<1>1. MaxAttempts \in Nat
  BY MaxAttemptsAssumption
<1>2. /\ d.code = c /\ d.disposition = disposition(c, n) /\ d.delay = delay
      /\ d.cooldown = IF delay > 0 THEN delay ELSE NoWindow
      /\ d.failed = IF c = "insufficient_ton" THEN FailedWindow ELSE NoWindow
  BY DEF RetryDecision
<1>0. d.retry <=> retried
  BY Zenon DEF RetryDecision
<1>3. CASE c \in RetrySameIdentity /\ n < MaxAttempts
  <2>1. PICK base \in Nat, cap \in Nat : /\ base = BackoffOf[c][1] /\ base >= 1
                                         /\ cap = BackoffOf[c][2] /\ cap >= 1 /\ cap <= 60000
    BY <1>3, BackoffsOf
  <2>2. delay = Backoff(n, base, cap)
    BY <1>3, <2>1
  <2>3. /\ Backoff(n, base, cap) \in Int
        /\ Backoff(n, base, cap) >= 1 /\ Backoff(n, base, cap) <= cap
        /\ n > 1 => Backoff(n, base, cap) >= Backoff(n - 1, base, cap)
    <3> HIDE DEF d, retried, delay
    <3>1. base >= 1 /\ cap >= 1
      BY <2>1
    <3> QED
      BY <3>1, BackoffFits
  <2>4. c # "insufficient_ton" /\ disposition(c, n) = "retry_same_identity"
    BY <1>3 DEF disposition, RetrySameIdentity
  <2>5. d.failed = NoWindow
    BY <1>2, <2>4
  <2>6. ASSUME n > 1 PROVE RetryDecision(c, n - 1).delay = Backoff(n - 1, base, cap)
    <3>1. n - 1 < MaxAttempts
      BY <1>1, <1>3
    <3>2. RetryDecision(c, n - 1).delay
            = IF c \in RetrySameIdentity /\ n - 1 < MaxAttempts
              THEN Backoff(n - 1, BackoffOf[c][1], BackoffOf[c][2]) ELSE 0
      BY DEF RetryDecision
    <3> QED
      BY <1>3, <2>1, <3>1, <3>2
  <2> HIDE DEF d, retried, delay
  <2>7. d.cooldown = delay /\ delay \in Int /\ delay >= 1 /\ delay <= 60000
    BY <1>2, <2>1, <2>2, <2>3
  <2>8. d.cooldown \in 1 .. FailedWindow
    <3>1. PICK k \in Int : k = d.cooldown /\ k >= 1 /\ k <= 60000
      BY <2>7
    <3>2. FailedWindow \in Int /\ FailedWindow >= 60000
      BY DEF FailedWindow
    <3> QED
      BY <3>1, <3>2
  <2>9. n > 1 => d.delay >= RetryDecision(d.code, n - 1).delay
    BY <1>2, <2>2, <2>3, <2>6
  <2>10. d.disposition = "retry_same_identity" /\ d.disposition # "rotate_identity"
    BY <1>2, <2>4
  <2> QED
    BY <1>2, <2>5, <2>8, <2>9, <2>10 DEF d
<1>4. CASE ~(c \in RetrySameIdentity /\ n < MaxAttempts)
  <2>1. d.delay = 0 /\ d.cooldown = NoWindow
    <3>1. delay = 0
      BY <1>4
    <3> HIDE DEF delay, d, retried
    <3> QED
      BY <1>2, <3>1
  <2>2. disposition(c, n) # "retry_same_identity"
    BY <1>4 DEF disposition
  <2>3. disposition(c, n) = "rotate_identity" <=> c = "insufficient_ton"
    BY <1>4 DEF disposition, RetrySameIdentity
  <2>4. d.failed # NoWindow <=> c = "insufficient_ton"
    <3> HIDE DEF d, delay, retried
    <3> QED
      BY <1>2 DEF NoWindow, FailedWindow
  <2>5. d.cooldown \notin 1 .. FailedWindow
    <3> HIDE DEF d, delay, retried
    <3>1. ~(NoWindow >= 1) /\ NoWindow \in Int
      BY DEF NoWindow
    <3>2. FailedWindow \in Int
      BY DEF FailedWindow
    <3> QED
      BY <2>1, <3>1, <3>2
  <2>6. ~d.retry
    BY <1>0, <1>4
  <2> HIDE DEF d
  <2> QED
    BY <1>2, <2>2, <2>3, <2>4, <2>5, <2>6 DEF d
<1> QED
  BY <1>3, <1>4

LEMMA WindowsAreFit ==
  ASSUME NEW x, x.attempt \in Int
  PROVE  WindowsFit(x, IF ClassifyRefusal(x) # None THEN <<>>
                       ELSE <<RetryDecision(classifyMessage(x.message), x.attempt)>>)
<1>1. CASE ClassifyRefusal(x) # None
  BY <1>1 DEF WindowsFit
<1>2. CASE ClassifyRefusal(x) = None
  <2>1. x.attempt >= 1 /\ x.attempt <= MaxAttempts
    BY <1>2, ClassifyPasses DEF ValidContext
  <2>2. PICK c : c = classifyMessage(x.message)
    OBVIOUS
  <2>3. PICK n \in Int : n = x.attempt
    OBVIOUS
  <2> DEFINE d == RetryDecision(c, n)
  <2>4. /\ (d.disposition = "retry_same_identity") <=> (d.cooldown \in 1 .. FailedWindow)
        /\ (d.disposition = "rotate_identity") <=> (d.failed # NoWindow)
        /\ n > 1 /\ d.retry => d.delay >= RetryDecision(d.code, n - 1).delay
    BY <2>1, <2>3, DecisionOf
  <2> HIDE DEF d
  <2>5. WindowsFit(x, <<d>>)
    BY <2>3, <2>4 DEF WindowsFit
  <2> QED
    BY <1>2, <2>2, <2>3, <2>5 DEF d
<1> QED
  BY <1>1, <1>2

-----------------------------------------------------------------------------
(* Generated lists of targets *)

\* A draw is an address.
Named(d) == d[1] # ""
Drawn(draws, m) == DOMAIN draws = 1 .. m /\ \A i \in DOMAIN draws : Named(draws[i])

LEMMA AddressesDrawn ==
  ASSUME NEW draws, NEW m \in Nat, Drawn(draws, m), NEW count \in Int
  PROVE  \E n \in Nat : /\ DOMAIN UniqueAddresses(draws, count) = 1 .. n
                        /\ n <= count \/ n = 0
                        /\ \A i \in 1 .. n : Named(UniqueAddresses(draws, count)[i])
<1> DEFINE places == {i \in DOMAIN draws : FirstOf(draws, i)}
           fresh  == Selected(draws, places)
<1>1. PlacesIn(places, m)
  BY DEF PlacesIn, Drawn
<1>2. /\ Cardinality(places) \in Nat /\ DOMAIN fresh = 1 .. Cardinality(places)
      /\ Len(fresh) = Cardinality(places)
      /\ \A k \in DOMAIN fresh : \E i \in places : fresh[k] = draws[i]
  <2> HIDE DEF places
  <2> QED
    BY <1>1, SelectedIs
<1>3. \A i \in places : Named(draws[i])
  BY DEF Drawn
<1>4. UniqueAddresses(draws, count) = [i \in 1 .. Min({count, Len(fresh)}) |-> fresh[i]]
  BY DEF UniqueAddresses
<1> HIDE DEF places, fresh
<1>5. PICK h \in Nat : h = Cardinality(places) /\ DOMAIN fresh = 1 .. h
                       /\ \A k \in 1 .. h : Named(fresh[k])
  BY <1>2, <1>3
<1>6. PICK b \in Int : b = Min({count, Len(fresh)}) /\ b <= count /\ b <= h
  <2>1. Min({count, h}) = IF count <= h THEN count ELSE h
    BY TwoBounds
  <2>2. Len(fresh) = h
    BY <1>2, <1>5
  <2> QED
    BY <2>1, <2>2
<1>7. CASE b >= 0
  <2>1. /\ b \in Nat /\ DOMAIN UniqueAddresses(draws, count) = 1 .. b
        /\ \A i \in 1 .. b : UniqueAddresses(draws, count)[i] = fresh[i]
    BY <1>4, <1>6, <1>7
  <2>2. \A i \in 1 .. b : Named(fresh[i])
    BY <1>5, <1>6
  <2> QED
    BY <1>6, <2>1, <2>2
<1>8. CASE ~(b >= 0)
  <2>1. DOMAIN UniqueAddresses(draws, count) = 1 .. b /\ 1 .. b = {}
    BY <1>4, <1>6, <1>8
  <2>2. DOMAIN UniqueAddresses(draws, count) = 1 .. 0 /\ 0 \in Nat
    BY <2>1
  <2> QED
    BY <2>1, <2>2
<1> QED
  BY <1>7, <1>8

\* An entry of a generated list.
Written(r, amount) == r.object /\ r.address # "" /\ r.amount = amount /\ r.parses

LEMMA EntryIs ==
  ASSUME NEW address, address # "", NEW amount, NEW r,
         r = [object |-> TRUE, address |-> address, amount |-> amount, parses |-> TRUE]
  PROVE  Written(r, amount)
<1>1. r.object /\ r.parses
  OBVIOUS
<1>2. r.address = address /\ r.amount = amount
  OBVIOUS
<1> QED
  BY <1>1, <1>2 DEF Written

LEMMA ListLaunches ==
  ASSUME NEW x, NEW m \in Nat, Drawn(x.draws, m),
         x.args.count \in Int, x.args.amount \in Int
  PROVE  GeneratedLaunches(x, GeneratedFile(x.args, x.draws))
<1> DEFINE list == GeneratedList(x.args, x.draws)
<1>1. CASE ArgsRefusal(x.args) # None \/ IntegrityFault(list, x.args.count)
  BY <1>1 DEF GeneratedLaunches, GeneratedFile
<1>2. CASE ~(ArgsRefusal(x.args) # None \/ IntegrityFault(list, x.args.count))
  <2>1. SUFFICES ASSUME x.args.amount # 0
                 PROVE  /\ TargetsRefusal([readable |-> TRUE, list |-> list]) = None
                        /\ PlanRefusal(list, 1) = None
    <3>1. GeneratedFile(x.args, x.draws) = <<list>>
      BY <1>2 DEF GeneratedFile
    <3> HIDE DEF list
    <3>2. <<list>>[1] = list
      OBVIOUS
    <3> QED
      BY <3>1, <3>2, Zenon DEF GeneratedLaunches
  <2>2. x.args.count >= 1 /\ x.args.amount >= 1
    <3>1. ArgsRefusal(x.args) = None
      BY <1>2
    <3>2. ~(x.args.count < 1) /\ ~(x.args.amount < 0)
      BY <3>1, ArgsPasses
    <3> QED
      BY <2>1, <3>2
  <2>3. PICK n \in Nat : /\ DOMAIN UniqueAddresses(x.draws, x.args.count) = 1 .. n
                         /\ n <= x.args.count \/ n = 0
                         /\ \A i \in 1 .. n : Named(UniqueAddresses(x.draws, x.args.count)[i])
    BY AddressesDrawn
  <2>4. /\ DOMAIN list = 1 .. n /\ Len(list) = n
        /\ \A i \in DOMAIN list : Written(list[i], x.args.amount)
    <3>1. list = [i \in 1 .. n |->
                    [object |-> TRUE, address |-> UniqueAddresses(x.draws, x.args.count)[i][1],
                     amount |-> x.args.amount, parses |-> TRUE]]
      BY <2>3 DEF GeneratedList
    <3> HIDE DEF list
    <3>2. DOMAIN list = 1 .. n /\ Len(list) = n
      BY <3>1
    <3>3. ASSUME NEW i \in DOMAIN list
          PROVE  Written(list[i], x.args.amount)
      <4>1. Named(UniqueAddresses(x.draws, x.args.count)[i])
        BY <2>3, <3>2
      <4>2. list[i] = [object |-> TRUE, address |-> UniqueAddresses(x.draws, x.args.count)[i][1],
                       amount |-> x.args.amount, parses |-> TRUE]
        BY <3>1, <3>2
      <4>3. PICK u : u = UniqueAddresses(x.draws, x.args.count)[i][1]
        OBVIOUS
      <4>4. u # ""
        BY <4>1, <4>3, Zenon DEF Named
      <4>5. list[i] = [object |-> TRUE, address |-> u, amount |-> x.args.amount, parses |-> TRUE]
        BY <4>2, <4>3
      <4> QED
        BY <4>4, <4>5, EntryIs
    <3> QED
      BY <3>2, <3>3
  <2> HIDE DEF list
  <2>5. Len(list) = x.args.count
          /\ \A i, j \in DOMAIN list : i # j => list[i].address # list[j].address
    BY <1>2 DEF IntegrityFault
  <2>6. \A i \in DOMAIN list : ~BadEntry(list[i])
    <3>1. x.args.amount # NoNumber
      BY <2>2 DEF NoNumber
    <3> QED
      BY <2>4, <3>1 DEF BadEntry, Written
  <2>7. /\ \A i \in DOMAIN list : ~BadTarget(list[i])
        /\ \A i \in DOMAIN list : ~(list[i].amount < 1)
        /\ \A i \in DOMAIN list : list[i].address # ""
    <3>1. ~(x.args.amount < 1)
      BY <2>2
    <3> QED
      BY <2>4, <3>1, Zenon DEF BadTarget, Written
  <2>8. list # <<>>
    <3>1. n >= 1
      BY <2>2, <2>4, <2>5
    <3>2. PICK one \in 1 .. n : one = 1
      BY <3>1
    <3>3. one \in DOMAIN list
      BY <2>4
    <3> QED
      BY <3>3
  <2>9. TargetsRefusal([readable |-> TRUE, list |-> list]) = None
    <3> DEFINE targets == [readable |-> TRUE, list |-> list]
    <3>1. targets.readable /\ targets.list = list
      OBVIOUS
    <3> HIDE DEF targets
    <3>2. TargetsRefusal(targets) = None
      BY <2>6, <2>7, <2>8, <3>1, TargetsPasses
    <3> QED
      BY <3>2 DEF targets
  <2>10. PlanRefusal(list, 1) = None
    <3>1. PICK one \in Int : one = 1
      OBVIOUS
    <3>2. ~(one < 1)
      BY <3>1
    <3>3. PlanRefusal(list, one) = None
      BY <2>5, <2>7, <3>2, PlanPasses
    <3> QED
      BY <3>1, <3>3
  <2> QED
    BY <2>9, <2>10
<1> QED
  BY <1>1, <1>2

-----------------------------------------------------------------------------
(* The price of a payload *)

\* A sum over the paths of a tree.
LEMMA SumFolds ==
  ASSUME NEW f, IsFiniteSet(DOMAIN f)
  PROVE  \E g : Folding(g, "tree", f, 0, 0, DOMAIN f) /\ SumFunction(f) = g[DOMAIN f]
<1> DEFINE Folds(g) == g = [t \in SUBSET DOMAIN f |->
                              IF t = {} THEN 0
                              ELSE f[CHOOSE p \in t : TRUE] + g[t \ {CHOOSE p \in t : TRUE}]]
           iter == CHOOSE g : Folds(g)
<1>1. SumFunction(f) = iter[DOMAIN f]
  BY DEF SumFunction, SumFunctionOnSet, FoldFunctionOnSet, MapThenFoldSet
<1>3. \A g : Folds(g) <=> Folding(g, "tree", f, 0, 0, DOMAIN f)
  BY DEF Folding, FoldStep, PickOf
<1>4. Foldable("tree", DOMAIN f)
  BY DEF Foldable
<1>5. Folding(iter, "tree", f, 0, 0, DOMAIN f)
  <2> HIDE DEF Folds
  <2> QED
    BY <1>3, <1>4, FoldingExists
<1> HIDE DEF iter
<1> QED
  BY <1>1, <1>5

\* A price for each cell of at least so much is at least that much for all of them.
Priced(f) == \A p \in DOMAIN f : f[p] \in Int
AtLeast(f, m) == \A p \in DOMAIN f : f[p] >= m

LEMMA SumAtLeast ==
  ASSUME NEW f, IsFiniteSet(DOMAIN f), NEW m \in Nat, Priced(f)
  PROVE  /\ SumFunction(f) \in Int
         /\ AtLeast(f, m) => SumFunction(f) \in Nat /\ SumFunction(f) >= Cardinality(DOMAIN f) * m
<1>1. PICK kind : kind = "tree"
  OBVIOUS
<1>2. PICK zero \in Int : zero = 0
  OBVIOUS
<1>3. PICK g : Folding(g, kind, f, zero, zero, DOMAIN f) /\ SumFunction(f) = g[DOMAIN f]
  BY <1>1, <1>2, SumFolds
<1> DEFINE Fine(t) == g[t] \in Int /\ (AtLeast(f, m) => g[t] >= Cardinality(t) * m)
           C == {t \in SUBSET DOMAIN f : ~Fine(t)}
<1>4. SUFFICES C = {}
  <2>1. ASSUME C = {}
        PROVE  /\ g[DOMAIN f] \in Int
               /\ AtLeast(f, m) => g[DOMAIN f] >= Cardinality(DOMAIN f) * m
    BY <2>1
  <2>2. PICK k \in Nat : k = Cardinality(DOMAIN f)
    BY FS_CardinalityType
  <2>3. k * m \in Nat
    BY Times
  <2> HIDE DEF C
  <2> QED
    BY <1>3, <2>1, <2>2, <2>3
<1>5. SUFFICES ASSUME C # {} PROVE FALSE
  OBVIOUS
<1>6. PICK t \in C : \A u \in C : u \subseteq t => u = t
  <2>1. C \subseteq SUBSET DOMAIN f
    OBVIOUS
  <2> HIDE DEF C
  <2> QED
    BY <1>5, <2>1, SmallestPart
<1>7. t \in SUBSET DOMAIN f /\ ~Fine(t)
  OBVIOUS
<1>8. Foldable(kind, DOMAIN f)
  BY <1>1 DEF Foldable
<1>9. IsFiniteSet(t) /\ Cardinality({}) = 0
  BY <1>7, FS_Subset, FS_EmptySet
<1>10. t # {}
  <2>1. ASSUME t = {} PROVE FALSE
    <3>1. g[t] = zero
      <4>1. g[t] = IF t = {} THEN zero
                   ELSE FoldStep(kind, f, zero, g[t \ {PickOf(kind, t)}], PickOf(kind, t))
        <5> HIDE DEF C
        <5> QED
          BY <1>3, <1>7, FoldingAt
      <4> QED
        BY <2>1, <4>1
    <3>2. Cardinality(t) * m = 0
      BY <1>9, <2>1
    <3> QED
      BY <1>2, <1>7, <3>1, <3>2
  <2> QED
    BY <2>1
<1>11. PICK x \in t : x = PickOf(kind, t)
  BY <1>1, <1>10, Zenon DEF PickOf
<1> DEFINE u == t \ {x}
<1>12. u \in SUBSET DOMAIN f /\ u \subseteq t /\ u # t
  BY <1>7
<1>13. Fine(u)
  BY <1>6, <1>12
<1>14. g[t] = f[x] + g[u]
  <2>1. g[t] = FoldStep(kind, f, zero, g[t \ {x}], x)
    <3> HIDE DEF C
    <3> QED
      BY <1>3, <1>7, <1>10, <1>11, FoldingPick
  <2> QED
    BY <1>1, <2>1 DEF FoldStep
<1>15. Cardinality(u) \in Nat /\ Cardinality(t) = Cardinality(u) + 1
  <2>1. IsFiniteSet(u)
    BY <1>9, FS_Subset
  <2>2. Cardinality(u) \in Nat /\ Cardinality(t) \in Nat /\ Cardinality(u) = Cardinality(t) - 1
    BY <1>9, <2>1, FS_RemoveElement, FS_CardinalityType
  <2> QED
    BY <2>2
<1>16. f[x] \in Int /\ (AtLeast(f, m) => f[x] >= m)
  BY <1>7 DEF AtLeast, Priced
<1> HIDE DEF u, C
<1>17. PICK k \in Nat, a \in Int, b \in Int :
         /\ k = Cardinality(u) /\ a = g[u] /\ b = f[x]
         /\ AtLeast(f, m) => a >= k * m /\ b >= m
  BY <1>13, <1>15, <1>16
<1>18. (k + 1) * m = k * m + m /\ k * m \in Nat
  BY Times
<1>19. Fine(t)
  BY <1>14, <1>15, <1>17, <1>18
<1> QED
  BY <1>7, <1>19

LEMMA BitFeeFits ==
  ASSUME NEW bits \in Nat, NEW model, model.perBit \in Nat
  PROVE  BitFee(bits, model) \in Nat /\ (BitFee(bits, model) + 1) * 1000 > bits * model.perBit
<1>1. PICK n \in Nat : n = bits * model.perBit
  OBVIOUS
<1>2. n \div 1000 \in Nat /\ (n \div 1000 + 1) * 1000 > n
  OBVIOUS
<1> QED
  BY <1>1, <1>2 DEF BitFee

LEMMA ExtraBitsFit ==
  ASSUME NEW model, model.perBit \in Nat
  PROVE  BitFee(MasterMintExtraBits, model) \in Nat
<1>1. MasterMintExtraBits \in Nat
  BY DEF MasterMintExtraBits
<1> QED
  BY <1>1, BitFeeFits

LEMMA FloorKept ==
  ASSUME NEW x, IsFiniteSet(DOMAIN x.tree), AtLeast(x.tree, 0),
         \A p \in DOMAIN x.tree : Len(p) \in Nat,
         Priced(x.tree), x.chain.perBit \in Int, x.chain.perCell \in Int, x.chain.perDepth \in Int
  PROVE  ValueKeepsFloor(x, ForwardRefusal(x.tree, x.master, x.chain))
<1> DEFINE model == FeeModelOf(x.chain)
           forward == Forward(x.tree, x.master, x.chain)
           bits == TotalBits(x.tree)
<1>1. model.perBit \in Nat /\ model.perCell \in Nat /\ model.perDepth \in Int
  BY DEF FeeModelOf, StaticModel
<1>2. bits \in Nat
  <2>1. PICK zero \in Nat : zero = 0
    OBVIOUS
  <2>2. AtLeast(x.tree, zero)
    BY <2>1
  <2> QED
    BY <2>2, SumAtLeast DEF TotalBits
<1> HIDE DEF model
<1>3. BitFee(bits, model) \in Nat /\ (BitFee(bits, model) + 1) * 1000 > bits * model.perBit
  <2> HIDE DEF bits
  <2>1. PICK b \in Nat : b = bits
    BY <1>2
  <2>2. PICK p \in Nat : p = model.perBit
    BY <1>1
  <2>3. PICK n \in Nat : n = b * p
    OBVIOUS
  <2>4. n \div 1000 \in Nat /\ (n \div 1000 + 1) * 1000 > n
    OBVIOUS
  <2>5. BitFee(bits, model) = n \div 1000 /\ bits * model.perBit = n
    BY <2>1, <2>2, <2>3 DEF BitFee
  <2> QED
    BY <2>4, <2>5
<1>4. BitFee(MasterMintExtraBits, model) \in Nat
  BY <1>1, ExtraBitsFit
<1>5. /\ CellFee(x.tree, model) \in Int
      /\ model.perDepth >= 0 =>
           /\ CellFee(x.tree, model) \in Nat
           /\ CellFee(x.tree, model) >= CellCount(x.tree) * model.perCell
  <2> DEFINE f == [path \in DOMAIN x.tree |-> model.perCell + Len(path) * model.perDepth]
  <2>0. Priced(f)
    <3>1. ASSUME NEW p \in DOMAIN x.tree PROVE model.perCell + Len(p) * model.perDepth \in Int
      BY <1>1
    <3> QED
      BY <3>1 DEF Priced
  <2>1. ASSUME model.perDepth >= 0 PROVE AtLeast(f, model.perCell)
    <3>1. ASSUME NEW p \in DOMAIN x.tree
          PROVE  model.perCell + Len(p) * model.perDepth >= model.perCell
      <4>1. PICK l \in Nat, d \in Nat, c \in Nat :
              l = Len(p) /\ d = model.perDepth /\ c = model.perCell
        BY <1>1, <2>1
      <4>2. l * d \in Nat
        OBVIOUS
      <4> QED
        BY <4>1, <4>2
    <3> QED
      BY <3>1 DEF AtLeast
  <2>2. DOMAIN f = DOMAIN x.tree /\ CellFee(x.tree, model) = SumFunction(f)
    BY DEF CellFee
  <2> HIDE DEF f
  <2> QED
    BY <1>1, <2>0, <2>1, <2>2, SumAtLeast DEF CellCount
<1>6. forward = Floor + Buffer + BitFee(bits, model) + CellFee(x.tree, model)
                  + IF x.master THEN BitFee(MasterMintExtraBits, model) ELSE 0
  BY DEF Forward, model
<1>9. forward \in Int
  <2>1. Floor \in Int /\ Buffer \in Int
    BY DEF Floor, Buffer
  <2> HIDE DEF forward, bits
  <2> QED
    BY <1>3, <1>4, <1>5, <1>6, <2>1
<1>7. model.perDepth >= 0 => forward >= Floor + Buffer
  <2>1. Floor \in Int /\ Buffer \in Int
    BY DEF Floor, Buffer
  <2> HIDE DEF forward, bits
  <2> QED
    BY <1>3, <1>4, <1>5, <1>6, <2>1
<1>8. ASSUME ForwardRefusal(x.tree, x.master, x.chain) = None PROVE forward <= Guardrail
  <2> DEFINE checks == <<<<forward > Guardrail, "guardrail">>>>
  <2>1. ForwardRefusal(x.tree, x.master, x.chain) = FirstRefusal(checks) /\ DOMAIN checks = 1 .. 1
    BY DEF ForwardRefusal
  <2>2. checks[1][2] # None
    BY DEF None
  <2>3. ~checks[1][1]
    <3> HIDE DEF checks
    <3> QED
      BY <1>8, <2>1, <2>2, PassesWhen
  <2>4. ~(forward > Guardrail)
    BY <2>3
  <2>5. Guardrail \in Int
    BY DEF Guardrail
  <2> HIDE DEF forward
  <2> QED
    BY <1>9, <2>4, <2>5
<1> QED
  BY <1>3, <1>5, <1>7, <1>8 DEF ValueKeepsFloor, model

-----------------------------------------------------------------------------
(* The name of a decision *)

\* The parts a decision's name is made of: the name tells each of them, given the rest.
Join(s, t) == s \o t
NameOf(a, b, r, c, d, p) == Join(Join(Join(Join(Join(a, b), r), c), d), p)

LEMMA Joined ==
  ASSUME NEW S, NEW s \in Seq(S), NEW t \in Seq(S)
  PROVE  Join(s, t) \in Seq(S)
BY ConcatProperties DEF Join

LEMMA CutEnd ==
  ASSUME NEW S, NEW s \in Seq(S), NEW t \in Seq(S), NEW v \in Seq(S), Join(s, v) = Join(t, v)
  PROVE  s = t
<1>1. \A U : \A x, y, w \in Seq(U) : x \o w = y \o w => x = y
  BY ConcatSimplifications, Zenon
<1> QED
  BY <1>1, Zenon DEF Join

LEMMA CutStart ==
  ASSUME NEW S, NEW s \in Seq(S), NEW t \in Seq(S), NEW v \in Seq(S), Join(v, s) = Join(v, t)
  PROVE  s = t
<1>1. \A U : \A x, y, w \in Seq(U) : x \o y = x \o w => y = w
  BY ConcatSimplifications, Zenon
<1> QED
  BY <1>1, Zenon DEF Join

LEMMA Alone ==
  ASSUME NEW S, NEW e \in S
  PROVE  <<e>> \in Seq(S)
OBVIOUS

\* What the parts are made of.
Text == STRING \cup {"other"}

LEMMA OtherText == <<"other">> \in Seq(Text) /\ Seq(STRING) \subseteq Seq(Text)
<1>1. "other" \in Text /\ STRING \subseteq Text
  BY DEF Text
<1>2. <<"other">> \in Seq(Text)
  BY <1>1, Alone, Zenon
<1>3. Seq(STRING) \subseteq Seq(Text)
  BY <1>1, SeqMonotonic, Zenon
<1> QED
  BY <1>2, <1>3

Differ(a, b, r, c, d, p, o) ==
  /\ a # o => NameOf(a, b, r, c, d, p) # NameOf(o, b, r, c, d, p)
  /\ b # o => NameOf(a, b, r, c, d, p) # NameOf(a, o, r, c, d, p)
  /\ c # o => NameOf(a, b, r, c, d, p) # NameOf(a, b, r, o, d, p)
  /\ d # o => NameOf(a, b, r, c, d, p) # NameOf(a, b, r, c, o, p)

LEMMA PartsTold ==
  ASSUME NEW S, NEW a \in Seq(S), NEW b \in Seq(S), NEW r \in Seq(S), NEW c \in Seq(S),
         NEW d \in Seq(S), NEW p \in Seq(S), NEW o \in Seq(S)
  PROVE  Differ(a, b, r, c, d, p, o)
<1>1. \A x, y \in Seq(S) : Join(x, y) \in Seq(S)
  BY Joined
<1>2. \A x, y, w \in Seq(S) : Join(x, w) = Join(y, w) => x = y
  BY CutEnd
<1>3. \A x, y, w \in Seq(S) : Join(w, x) = Join(w, y) => x = y
  BY CutStart
<1>4. PICK T : T = Seq(S)
  OBVIOUS
<1>5. /\ a \in T /\ b \in T /\ r \in T /\ c \in T /\ d \in T /\ p \in T /\ o \in T
      /\ \A x, y \in T : Join(x, y) \in T
      /\ \A x, y, w \in T : Join(x, w) = Join(y, w) => x = y
      /\ \A x, y, w \in T : Join(w, x) = Join(w, y) => x = y
  BY <1>1, <1>2, <1>3, <1>4
<1>6. /\ Join(a, b) \in T /\ Join(o, b) \in T /\ Join(a, o) \in T
  BY <1>5
<1>7. /\ Join(Join(a, b), r) \in T /\ Join(Join(o, b), r) \in T /\ Join(Join(a, o), r) \in T
  BY <1>5, <1>6
<1>8. /\ Join(Join(Join(a, b), r), c) \in T /\ Join(Join(Join(o, b), r), c) \in T
      /\ Join(Join(Join(a, o), r), c) \in T /\ Join(Join(Join(a, b), r), o) \in T
  BY <1>5, <1>7
<1>9. /\ Join(Join(Join(Join(a, b), r), c), d) \in T /\ Join(Join(Join(Join(o, b), r), c), d) \in T
      /\ Join(Join(Join(Join(a, o), r), c), d) \in T /\ Join(Join(Join(Join(a, b), r), o), d) \in T
      /\ Join(Join(Join(Join(a, b), r), c), o) \in T
  BY <1>5, <1>8
<1>10. NameOf(a, b, r, c, d, p) = NameOf(o, b, r, c, d, p) => a = o
  BY <1>5, <1>6, <1>7, <1>8, <1>9 DEF NameOf
<1>11. NameOf(a, b, r, c, d, p) = NameOf(a, o, r, c, d, p) => b = o
  BY <1>5, <1>6, <1>7, <1>8, <1>9 DEF NameOf
<1>12. NameOf(a, b, r, c, d, p) = NameOf(a, b, r, o, d, p) => c = o
  BY <1>5, <1>7, <1>8, <1>9 DEF NameOf
<1>13. NameOf(a, b, r, c, d, p) = NameOf(a, b, r, c, o, p) => d = o
  BY <1>5, <1>8, <1>9 DEF NameOf
<1> QED
  BY <1>10, <1>11, <1>12, <1>13, Zenon DEF Differ

LEMMA ItsOwnName ==
  ASSUME NEW x, NamedInput(x)
  PROVE  RecordIsItsOwn(x, TryBuild(x))
<1>1. CASE DecisionIssues(x) # {}
  BY <1>1 DEF RecordIsItsOwn, TryBuild
<1>2. CASE DecisionIssues(x) = {}
  <2> DEFINE r == DecisionRecord(x)
  <2>1. TryBuild(x) = <<r>>
    BY <1>2 DEF TryBuild
  <2>2. r.id = DecisionKey(x) /\ r.input = x /\ r = [id |-> DecisionKey(x), input |-> x]
    BY DEF DecisionRecord
  <2>3. RecordRefusal(r) = None
    <3> HIDE DEF r
    <3> QED
      BY <1>2, <2>2, RecordPasses
  <2>4. ASSUME NEW field \in {"candidate", "run", "ruleset", "blacklist"}, x[field] # <<"other">>
        PROVE  RecordRefusal([r EXCEPT !.input[field] = <<"other">>]) # None
    <3> DEFINE y == [x EXCEPT ![field] = <<"other">>]
               s == [r EXCEPT !.input[field] = <<"other">>]
    <3>1. s.id = DecisionKey(x) /\ s.input = y
      <4>1. s = [r EXCEPT !.input = [r.input EXCEPT ![field] = <<"other">>]]
        OBVIOUS
      <4> HIDE DEF y, s, r
      <4> QED
        BY <2>2, <4>1 DEF y
    <3>2. PICK o \in Seq(Text) : o = <<"other">>
      BY OtherText, Zenon
    <3>3. y[field] = o /\ x[field] # o /\ y.budget = x.budget /\ y.reason = x.reason
            /\ \A other \in {"candidate", "run", "ruleset", "blacklist"} :
                 other # field => y[other] = x[other]
      BY <2>4, <3>2 DEF NamedInput
    <3> HIDE DEF y, s, r
    <3>4. PICK e \in Seq(Text) : e = <<x.reason>>
      <4>1. <<x.reason>> \in Seq(STRING)
        BY Alone, Zenon DEF NamedInput
      <4> QED
        BY <4>1, OtherText, Zenon
    <3>5. DecisionKey(x) = NameOf(x.candidate, x.run, e, x.ruleset, x.blacklist, x.budget.policy)
      BY <3>4 DEF DecisionKey, NameOf, Join
    <3>6. DecisionKey(y) = NameOf(y.candidate, y.run, e, y.ruleset, y.blacklist, x.budget.policy)
      BY <3>3, <3>4 DEF DecisionKey, NameOf, Join
    <3>7. /\ x.candidate \in Seq(Text) /\ x.run \in Seq(Text) /\ x.ruleset \in Seq(Text)
          /\ x.blacklist \in Seq(Text) /\ x.budget.policy \in Seq(Text)
      BY OtherText DEF NamedInput
    <3>9. DecisionKey(x) # DecisionKey(y)
      <4>0. Differ(x.candidate, x.run, e, x.ruleset, x.blacklist, x.budget.policy, o)
        BY <3>7, PartsTold, Zenon
      <4>1. CASE field = "candidate"
        <5>1. y.candidate = o /\ x.candidate # o /\ y.run = x.run /\ y.ruleset = x.ruleset
                /\ y.blacklist = x.blacklist
          BY <3>3, <4>1
        <5>2. DecisionKey(y) = NameOf(o, x.run, e, x.ruleset, x.blacklist, x.budget.policy)
          BY <3>6, <5>1
        <5> QED
          BY <3>5, <4>0, <5>1, <5>2, Zenon DEF Differ
      <4>2. CASE field = "run"
        <5>1. y.run = o /\ x.run # o /\ y.candidate = x.candidate /\ y.ruleset = x.ruleset
                /\ y.blacklist = x.blacklist
          BY <3>3, <4>2
        <5>2. DecisionKey(y) = NameOf(x.candidate, o, e, x.ruleset, x.blacklist, x.budget.policy)
          BY <3>6, <5>1
        <5> QED
          BY <3>5, <4>0, <5>1, <5>2, Zenon DEF Differ
      <4>3. CASE field = "ruleset"
        <5>1. y.ruleset = o /\ x.ruleset # o /\ y.candidate = x.candidate /\ y.run = x.run
                /\ y.blacklist = x.blacklist
          BY <3>3, <4>3
        <5>2. DecisionKey(y) = NameOf(x.candidate, x.run, e, o, x.blacklist, x.budget.policy)
          BY <3>6, <5>1
        <5> QED
          BY <3>5, <4>0, <5>1, <5>2, Zenon DEF Differ
      <4>4. CASE field = "blacklist"
        <5>1. y.blacklist = o /\ x.blacklist # o /\ y.candidate = x.candidate /\ y.run = x.run
                /\ y.ruleset = x.ruleset
          BY <3>3, <4>4
        <5>2. DecisionKey(y) = NameOf(x.candidate, x.run, e, x.ruleset, o, x.budget.policy)
          BY <3>6, <5>1
        <5> QED
          BY <3>5, <4>0, <5>1, <5>2, Zenon DEF Differ
      <4> QED
        BY <4>1, <4>2, <4>3, <4>4
    <3>8. RecordRefusal(s) # None
      BY <3>1, <3>9, RecordPasses
    <3> QED
      BY <3>8 DEF s
  <2> HIDE DEF r
  <2> QED
    BY <2>1, <2>3, <2>4 DEF RecordIsItsOwn
<1> QED
  BY <1>1, <1>2

-----------------------------------------------------------------------------
(* The two planners of the decision store's lock *)

LEMMA PlansAgree ==
  ASSUME NEW x, x.now \in Int,
         x.existing = <<>> \/ x.existing = <<x.existing[1]>>,
         x.existing # <<>> => x.existing[1].expiresAtMs \in Int
  PROVE  PlannersAgree(x, AtomicPlan(x.existing, x.requested, x.now))
<1> DEFINE plan == <<
    <<x.now < 0, "invalid_now_ms">>,
    <<LockRecordRefusal(x.requested) # None, "invalid_requested_lock">>,
    <<x.requested.acquiredAtMs > x.now, "requested_lock_acquired_in_future">>,
    <<x.requested.expiresAtMs <= x.now, "requested_lock_already_expired">>,
    <<x.existing = <<>>, "create_if_missing">>,
    IF x.existing = <<>> THEN <<FALSE, None>>
    ELSE <<LockRecordRefusal(x.existing[1]) # None, "invalid_existing_lock">>,
    <<x.existing # <<>> /\ x.existing[1].expiresAtMs > x.now, "active_lock">>,
    <<TRUE, "replace_if_matches_existing_stale_lock">> >>
           decision == <<
    <<x.requested.ownerId = "", "empty_owner_id">>,
    <<x.now < 0, "invalid_now_ms">>,
    <<x.existing = <<>>, "acquire_allowed">>,
    IF x.existing = <<>> THEN <<FALSE, None>> ELSE Refused(LockRecordRefusal(x.existing[1])),
    <<x.existing # <<>> /\ x.existing[1].expiresAtMs <= x.now, "stale_lock_recoverable">>,
    <<TRUE, "active_lock">> >>
           a == AtomicPlan(x.existing, x.requested, x.now)
           d == AcquireDecision(x.existing, x.requested.ownerId, x.now)
<1>1. a = FirstRefusal(plan) /\ DOMAIN plan = 1 .. 8
  BY DEF AtomicPlan
<1>2. d = FirstRefusal(decision) /\ DOMAIN decision = 1 .. 6
  BY DEF AcquireDecision
<1>3. /\ plan[1][2] = "invalid_now_ms" /\ plan[2][2] = "invalid_requested_lock"
      /\ plan[3][2] = "requested_lock_acquired_in_future"
      /\ plan[4][2] = "requested_lock_already_expired" /\ plan[5][2] = "create_if_missing"
      /\ plan[7][2] = "active_lock" /\ plan[8][2] = "replace_if_matches_existing_stale_lock"
  OBVIOUS
<1>4. /\ decision[3][2] = "acquire_allowed" /\ decision[5][2] = "stale_lock_recoverable"
      /\ decision[6][2] = "active_lock"
  OBVIOUS
<1>5. /\ plan[1][1] <=> x.now < 0
      /\ plan[2][1] <=> LockRecordRefusal(x.requested) # None
      /\ plan[5][1] <=> x.existing = <<>>
      /\ plan[7][1] <=> x.existing # <<>> /\ x.existing[1].expiresAtMs > x.now
      /\ plan[8][1]
  OBVIOUS
<1>6. plan[6][1] <=> x.existing # <<>> /\ LockRecordRefusal(x.existing[1]) # None
  <2>1. CASE x.existing = <<>>
    BY <2>1
  <2>2. CASE x.existing # <<>>
    BY <2>2
  <2> QED
    BY <2>1, <2>2
<1>7. /\ decision[1][1] <=> x.requested.ownerId = ""
      /\ decision[2][1] <=> x.now < 0
      /\ decision[3][1] <=> x.existing = <<>>
      /\ decision[5][1] <=> x.existing # <<>> /\ x.existing[1].expiresAtMs <= x.now
      /\ decision[6][1]
  OBVIOUS
<1>8. decision[4][1] <=> x.existing # <<>> /\ LockRecordRefusal(x.existing[1]) # None
  <2>1. CASE x.existing = <<>>
    BY <2>1
  <2>2. CASE x.existing # <<>>
    BY <2>2 DEF Refused
  <2> QED
    BY <2>1, <2>2
<1> HIDE DEF plan, decision
<1>9. \A i \in 1 .. 8 : plan[i][1] /\ (\A j \in 1 .. 8 : j < i => ~plan[j][1]) => a = plan[i][2]
  <2>1. DOMAIN plan \subseteq Nat
    BY <1>1
  <2> QED
    BY <1>1, <2>1, FirstFailing
<1>10. \A i \in 1 .. 6 : decision[i][1] /\ (\A j \in 1 .. 6 : j < i => ~decision[j][1])
                           => d = decision[i][2]
  <2>1. DOMAIN decision \subseteq Nat
    BY <1>2
  <2> QED
    BY <1>2, <2>1, FirstFailing
<1> HIDE DEF a, d
<1> DEFINE stands == ~(\E e \in ToSet(x.existing) : LockRecordRefusal(e) # None)
                       /\ a \notin {"invalid_now_ms", "invalid_requested_lock",
                                    "requested_lock_acquired_in_future",
                                    "requested_lock_already_expired"}
<1>11. SUFFICES ASSUME stands
                PROVE  d \in {"acquire_allowed", "stale_lock_recoverable"}
                         <=> a \in {"create_if_missing", "replace_if_matches_existing_stale_lock"}
  BY Zenon DEF PlannersAgree, a, d
<1>12. ~plan[1][1]
  BY <1>3, <1>9, <1>11
<1>13. ~plan[2][1]
  BY <1>3, <1>9, <1>11, <1>12
<1>14. ~plan[3][1]
  BY <1>3, <1>9, <1>11, <1>12, <1>13
<1>15. ~plan[4][1]
  BY <1>3, <1>9, <1>11, <1>12, <1>13, <1>14
<1>16. ~decision[1][1] /\ ~decision[2][1]
  <2>1. x.requested.ownerId # ""
    BY <1>5, <1>13, LockRecordPasses
  <2> QED
    BY <1>5, <1>7, <1>12, <2>1
<1>17. CASE x.existing = <<>>
  <2>1. a = "create_if_missing"
    BY <1>3, <1>5, <1>9, <1>12, <1>13, <1>14, <1>15, <1>17
  <2>2. d = "acquire_allowed"
    <3>1. decision[3][1]
      BY <1>7, <1>17, Zenon
    <3> QED
      BY <1>4, <1>10, <1>16, <3>1
  <2> QED
    BY <2>1, <2>2
<1>18. CASE x.existing # <<>>
  <2>1. LockRecordRefusal(x.existing[1]) = None
    <3>1. PICK e : x.existing = <<e>> /\ e = x.existing[1]
      BY <1>18
    <3>2. e \in ToSet(x.existing)
      BY <3>1 DEF ToSet
    <3> QED
      BY <1>11, <3>1, <3>2
  <2>2. ~plan[5][1] /\ ~plan[6][1] /\ ~decision[3][1] /\ ~decision[4][1]
    BY <1>5, <1>6, <1>7, <1>8, <1>18, <2>1
  <2>3. CASE x.existing[1].expiresAtMs > x.now
    <3>0. ~(x.existing[1].expiresAtMs <= x.now)
      <4>1. PICK t \in Int : t = x.existing[1].expiresAtMs
        BY <1>18
      <4>2. ~(t <= x.now)
        BY <2>3, <4>1
      <4> QED
        BY <4>1, <4>2
    <3>1. plan[7][1] /\ ~decision[5][1]
      BY <1>5, <1>7, <1>18, <2>3, <3>0, Zenon
    <3>2. a = "active_lock"
      BY <1>3, <1>9, <1>12, <1>13, <1>14, <1>15, <2>2, <3>1
    <3>3. d = "active_lock"
      <4>1. decision[6][1]
        BY <1>7, Zenon
      <4> QED
        BY <1>4, <1>10, <1>16, <2>2, <3>1, <4>1
    <3> QED
      BY <3>2, <3>3
  <2>4. CASE ~(x.existing[1].expiresAtMs > x.now)
    <3>0. x.existing[1].expiresAtMs <= x.now
      <4>1. PICK t \in Int : t = x.existing[1].expiresAtMs
        BY <1>18
      <4>2. t <= x.now
        BY <2>4, <4>1
      <4> QED
        BY <4>1, <4>2
    <3>1. ~plan[7][1] /\ decision[5][1]
      BY <1>5, <1>7, <1>18, <2>4, <3>0, Zenon
    <3>2. a = "replace_if_matches_existing_stale_lock"
      BY <1>3, <1>5, <1>9, <1>12, <1>13, <1>14, <1>15, <2>2, <3>1
    <3>3. d = "stale_lock_recoverable"
      BY <1>4, <1>10, <1>16, <2>2, <3>1
    <3> QED
      BY <3>2, <3>3
  <2> QED
    BY <2>3, <2>4
<1> QED
  BY <1>17, <1>18

-----------------------------------------------------------------------------
(* The run state: what is loaded or updated can be saved *)

\* A valid state of which only some parts are replaced by valid ones is valid.
LEMMA ClearLockValid == ValidLock(ClearLock)
BY DEF ValidLock, ClearLock, NullableText, NullableInstant, NullText, BadText, NullInstant,
       BadInstant, NullNumber

LEMMA NullsAllowed == NullableInstant(NullInstant) /\ NullableText(NullText)
BY DEF NullableInstant, NullInstant, BadInstant, NullableText, NullText, BadText

LEMMA EmptyMetaValid ==
  ASSUME NEW campaign, FullText(campaign), NEW now \in Nat
  PROVE  ValidMeta(EmptyMeta(campaign, now), campaign)
<1> DEFINE m == EmptyMeta(campaign, now)
<1>1. /\ m.campaign = campaign /\ m.status = "idle" /\ m.created = now /\ m.updated = now
      /\ m.started = NullInstant /\ m.finished = NullInstant /\ m.reconciled = NullInstant
      /\ m.stopReason = NullText /\ m.lastError = NullText /\ DOMAIN m.batchAttempts = {}
  BY DEF EmptyMeta
<1> HIDE DEF m
<1>2. m.status \in CampaignStatuses
  BY <1>1 DEF CampaignStatuses
<1>3. Instant(m.created) /\ Instant(m.updated)
  BY <1>1 DEF Instant
<1>5. \A t \in {m.started, m.finished, m.reconciled} : NullableInstant(t)
  BY <1>1, NullsAllowed
<1>6. ValidMeta(m, campaign)
  BY <1>1, <1>2, <1>3, <1>5, NullsAllowed, Zenon DEF ValidMeta
<1> QED
  BY <1>6 DEF m

LEMMA EmptyStateIs ==
  ASSUME NEW campaign, NEW now
  PROVE  LET s == EmptyRunState(campaign, now)
         IN /\ DOMAIN s = StateFields /\ s.schema = SchemaVersion
            /\ s.meta = EmptyMeta(campaign, now) /\ DOMAIN s.entries = {}
            /\ DOMAIN s.operators = {} /\ s.lock = ClearLock
BY DEF EmptyRunState, StateFields

LEMMA EmptyStateValid ==
  ASSUME NEW campaign, FullText(campaign), NEW now \in Nat
  PROVE  ValidRunState(EmptyRunState(campaign, now), campaign)
<1> DEFINE s == EmptyRunState(campaign, now)
<1>1. /\ s.schema = SchemaVersion
      /\ s.meta = EmptyMeta(campaign, now) /\ DOMAIN s.entries = {}
      /\ DOMAIN s.operators = {} /\ s.lock = ClearLock
  BY EmptyStateIs
<1> HIDE DEF s
<1>2. ValidMeta(s.meta, campaign)
  BY <1>1, EmptyMetaValid
<1>3. ValidRunState(s, campaign)
  BY <1>1, <1>2, ClearLockValid DEF ValidRunState, ValidEntries
<1> QED
  BY <1>3 DEF s

LEMMA FreshRuntime ==
  /\ EmptyRuntime.status \in OperatorStatuses /\ EmptyRuntime.paused \in {"true", "false"}
  /\ EmptyRuntime.failures >= 0 /\ EmptyRuntime.instants = {NullInstant}
  /\ EmptyRuntime.lastError = NullText
BY DEF EmptyRuntime, OperatorStatuses

LEMMA RuntimeValid ==
  ASSUME NEW id, id # ""
  PROVE  ValidOperator(id, EmptyRuntime)
BY NullsAllowed, FreshRuntime, Zenon DEF ValidOperator

\* An entry that may be saved passes for the comparison of the stores.
LEMMA EntryShaped ==
  ASSUME NEW k, NEW e, ValidStateEntry(k, e), e.attempt \in Int
  PROVE  WellShapedEntry(e)
<1>1. e.attempt >= 0
  BY DEF ValidStateEntry
<1> QED
  BY <1>1 DEF ValidStateEntry, WellShapedEntry

LEMMA LoadPasses ==
  ASSUME NEW file, NEW campaign, LoadRefusal(file, campaign) = None
  PROVE  file.kind # "missing" => ValidRunState(file.state, campaign)
<1> DEFINE checks == <<
    <<file.kind = "unreadable", "cannot read">>,
    <<file.kind = "text", "invalid JSON">>,
    <<file.kind = "array", "no object at root">>,
    <<file.state.schema # SchemaVersion, "schema version">>,
    <<file.broken # {}, "container">>,
    <<~ValidRunState(file.state, campaign), "invalid">> >>
<1>0. file.kind # "missing" => LoadRefusal(file, campaign) = FirstRefusal(checks)
  BY Zenon DEF LoadRefusal
<1>1. DOMAIN checks = 1 .. 6
  OBVIOUS
<1>2. /\ checks[1][2] # None /\ checks[2][2] # None /\ checks[3][2] # None
      /\ checks[4][2] # None /\ checks[5][2] # None /\ checks[6][2] # None
  BY DEF None
<1>3. file.kind # "missing" => ~checks[6][1]
  <2> HIDE DEF checks
  <2>1. \A i \in DOMAIN checks : checks[i][1] => checks[i][2] # None
    BY <1>1, <1>2
  <2>2. DOMAIN checks \subseteq Nat
    BY <1>1
  <2> QED
    BY <1>0, <1>1, <2>1, <2>2, PassesWhen
<1> QED
  BY <1>3

LEMMA LoadedSaves ==
  ASSUME NEW x, LoadTyped(x)
  PROVE  LoadedCanBeSaved(x, LoadRefusal(x.file, x.campaign))
<1>1. SUFFICES ASSUME LoadRefusal(x.file, x.campaign) = None
               PROVE  LoadedCanBeSaved(x, None)
  BY DEF LoadedCanBeSaved
<1>2. PICK s : s = Loaded(x.file, x.campaign, x.now)
  OBVIOUS
<1>3. /\ ValidRunState(s, x.campaign) /\ DOMAIN s = StateFields
      /\ \A k \in DOMAIN s.entries : s.entries[k].attempt \in Int
  <2>1. CASE x.file.kind = "missing"
    <3>1. s = EmptyRunState(x.campaign, x.now)
      BY <1>2, <2>1 DEF Loaded
    <3>2. DOMAIN s = StateFields /\ DOMAIN s.entries = {}
      BY <3>1, EmptyStateIs
    <3>3. ValidRunState(s, x.campaign)
      BY <3>1, EmptyStateValid DEF LoadTyped
    <3> QED
      BY <3>2, <3>3
  <2>2. CASE x.file.kind # "missing"
    <3>1. s = x.file.state
      BY <1>2, <2>2 DEF Loaded
    <3> QED
      BY <1>1, <2>2, <3>1, LoadPasses DEF LoadTyped
  <2> QED
    BY <2>1, <2>2
<1>4. ValidRunState(Seeded(s, x.pool), x.campaign)
  <2> DEFINE t == Seeded(s, x.pool)
             ids == {o.id : o \in EligibleOperators(x.pool)}
             operators == [id \in DOMAIN s.operators \cup ids |->
                             IF id \in DOMAIN s.operators THEN s.operators[id] ELSE EmptyRuntime]
  <2>1. t = [s EXCEPT !.operators = operators]
    BY DEF Seeded
  <2>2. \A id \in ids : id # ""
    BY DEF EligibleOperators, LoadTyped
  <2> HIDE DEF ids
  <2>3. \A id \in DOMAIN operators : ValidOperator(id, operators[id])
    BY <1>3, <2>2, RuntimeValid DEF ValidRunState
  <2> HIDE DEF operators, t
  <2>4. /\ t.schema = s.schema /\ t.meta = s.meta /\ t.entries = s.entries /\ t.lock = s.lock
        /\ t.operators = operators
    BY <1>3, <2>1 DEF StateFields
  <2>5. ValidRunState(t, x.campaign)
    BY <1>3, <2>3, <2>4 DEF ValidRunState
  <2> QED
    BY <2>5 DEF t
<1>5. RunStateIssues(s) = {}
  BY <1>3 DEF RunStateIssues, ValidRunState, ValidMeta
<1>6. \A k \in DOMAIN s.entries : WellShapedEntry(s.entries[k])
  BY <1>3, EntryShaped DEF ValidRunState, ValidEntries
<1> QED
  BY <1>2, <1>3, <1>4, <1>5, <1>6, Zenon DEF LoadedCanBeSaved

-----------------------------------------------------------------------------
LEMMA RefusedIs ==
  ASSUME NEW r
  PROVE  (Refused(r)[1] <=> r # None) /\ Refused(r)[2] = r
<1>1. Refused(r)[1] <=> r # None
  BY DEF Refused
<1>2. Refused(r)[2] = r
  BY DEF Refused
<1> QED
  BY <1>1, <1>2

\* The three checks of an update.
LEMMA UpdateIs ==
  ASSUME NEW s, NEW campaign, NEW m, ValidRunState(s, campaign)
  PROVE  /\ MutationRefusal(s, m) # None => UpdateRefusal(s, campaign, m) = MutationRefusal(s, m)
         /\ MutationRefusal(s, m) = None =>
              UpdateRefusal(s, campaign, m)
                = IF ValidRunState(Mutated(s, m), s.meta.campaign) THEN None ELSE "save"
<1> DEFINE checks == <<
    <<~ValidRunState(s, campaign), "load">>,
    Refused(MutationRefusal(s, m)),
    <<~ValidRunState(Mutated(s, m), s.meta.campaign), "save">> >>
<1>1. UpdateRefusal(s, campaign, m) = FirstRefusal(checks) /\ DOMAIN checks = 1 .. 3
  BY DEF UpdateRefusal
<1>2. ~checks[1][1]
  OBVIOUS
<1>3. (checks[2][1] <=> MutationRefusal(s, m) # None) /\ checks[2][2] = MutationRefusal(s, m)
  <2>1. checks[2] = Refused(MutationRefusal(s, m))
    OBVIOUS
  <2> HIDE DEF checks
  <2> QED
    BY <2>1, RefusedIs
<1>4. checks[3][1] <=> ~ValidRunState(Mutated(s, m), s.meta.campaign)
  OBVIOUS
<1>5. checks[3][2] = "save"
  OBVIOUS
<1> HIDE DEF checks
<1>6. DOMAIN checks \subseteq Nat
  BY <1>1
<1>7. ASSUME MutationRefusal(s, m) # None
      PROVE  UpdateRefusal(s, campaign, m) = MutationRefusal(s, m)
  <2>1. PICK two \in DOMAIN checks : two = 2
    BY <1>1
  <2>2. checks[two][1] /\ \A j \in DOMAIN checks : j < two => ~checks[j][1]
    BY <1>1, <1>2, <1>3, <1>7, <2>1
  <2> QED
    BY <1>1, <1>3, <1>6, <2>1, <2>2, FirstFailing
<1>8. ASSUME MutationRefusal(s, m) = None, ~ValidRunState(Mutated(s, m), s.meta.campaign)
      PROVE  UpdateRefusal(s, campaign, m) = "save"
  <2>1. PICK three \in DOMAIN checks : three = 3
    BY <1>1
  <2>2. checks[three][1] /\ \A j \in DOMAIN checks : j < three => ~checks[j][1]
    BY <1>1, <1>2, <1>3, <1>4, <1>8, <2>1
  <2> QED
    BY <1>1, <1>5, <1>6, <2>1, <2>2, FirstFailing
<1>9. ASSUME MutationRefusal(s, m) = None, ValidRunState(Mutated(s, m), s.meta.campaign)
      PROVE  UpdateRefusal(s, campaign, m) = None
  BY <1>9, UpdatePasses
<1> QED
  BY <1>7, <1>8, <1>9

LEMMA SetIs ==
  ASSUME NEW s, DOMAIN s = StateFields, NEW m, m.op = "set"
  PROVE  LET t == Mutated(s, m)
         IN /\ t.schema = s.schema /\ t.meta = s.meta /\ t.operators = s.operators
            /\ t.lock = s.lock /\ DOMAIN t = StateFields
            /\ DOMAIN t.entries = DOMAIN s.entries \cup {m.key}
            /\ \A k \in DOMAIN t.entries :
                 t.entries[k] = IF k = m.key THEN m.entry ELSE s.entries[k]
<1> DEFINE t == Mutated(s, m)
           merged == [k \in DOMAIN s.entries \cup {m.key} |->
                         IF k = m.key THEN m.entry ELSE s.entries[k]]
<1>1. t = [s EXCEPT !.entries = merged]
  BY DEF Mutated
<1>2. DOMAIN merged = DOMAIN s.entries \cup {m.key}
        /\ \A k \in DOMAIN merged : merged[k] = IF k = m.key THEN m.entry ELSE s.entries[k]
  OBVIOUS
<1> HIDE DEF t, merged
<1>3. /\ t.schema = s.schema /\ t.meta = s.meta /\ t.operators = s.operators
      /\ t.lock = s.lock /\ t.entries = merged /\ DOMAIN t = StateFields
  BY <1>1 DEF StateFields
<1> QED
  BY <1>2, <1>3 DEF t

LEMMA SetValid ==
  ASSUME NEW s, DOMAIN s = StateFields, NEW campaign, ValidRunState(s, campaign),
         NEW m, m.op = "set", ValidStateEntry(m.key, m.entry)
  PROVE  ValidRunState(Mutated(s, m), campaign)
<1>1. PICK t : t = Mutated(s, m)
  OBVIOUS
<1>2. /\ t.schema = s.schema /\ t.meta = s.meta /\ t.operators = s.operators
      /\ t.lock = s.lock
      /\ DOMAIN t.entries = DOMAIN s.entries \cup {m.key}
      /\ \A k \in DOMAIN t.entries :
           t.entries[k] = IF k = m.key THEN m.entry ELSE s.entries[k]
  BY <1>1, SetIs
<1>3. \A k \in DOMAIN s.entries : ValidStateEntry(k, s.entries[k])
  BY DEF ValidRunState, ValidEntries
<1>4. \A k \in DOMAIN t.entries : ValidStateEntry(k, t.entries[k])
  BY <1>2, <1>3
<1> QED
  BY <1>1, <1>2, <1>4 DEF ValidRunState, ValidEntries

LEMMA LockSet ==
  ASSUME NEW s, DOMAIN s = StateFields, NEW campaign, ValidRunState(s, campaign), NEW lock
  PROVE  ValidRunState([s EXCEPT !.lock = lock], campaign) <=> ValidLock(lock)
<1> DEFINE t == [s EXCEPT !.lock = lock]
<1>1. /\ t.schema = s.schema /\ t.meta = s.meta /\ t.entries = s.entries
      /\ t.operators = s.operators /\ t.lock = lock
  BY DEF StateFields
<1> HIDE DEF t
<1>2. ValidRunState(t, campaign) <=> ValidLock(lock)
  BY <1>1 DEF ValidRunState
<1> QED
  BY <1>2 DEF t

LEMMA LateIsZero ==
  ASSUME NEW x, UpdateTyped(x)
  PROVE  OnlyAttemptZeroIsLate(x, UpdateRefusal(x.state, x.campaign, x.mutation))
<1> DEFINE m == x.mutation
           a == UpdateRefusal(x.state, x.campaign, m)
<1>1. SUFFICES ASSUME ValidRunState(x.state, x.campaign), MutationRefusal(x.state, m) = None
               PROVE  a = "save" <=> m.op = "acquire" /\ m.id.attempt < 1
  BY DEF OnlyAttemptZeroIsLate
<1>2. a = "save" <=> ~ValidRunState(Mutated(x.state, m), x.campaign)
  <2>1. x.state.meta.campaign = x.campaign
    BY <1>1 DEF ValidRunState, ValidMeta
  <2>2. "save" # None
    BY DEF None
  <2> QED
    BY <1>1, <2>1, <2>2, UpdateIs
<1>3. DOMAIN x.state = StateFields
  BY DEF UpdateTyped
<1> HIDE DEF a
<1>4. CASE m.op = "set"
  <2>1. GuardRefusal(x.state, m.key, m.guard, m.entry) = None
    BY <1>1, <1>4 DEF MutationRefusal
  <2>2. ValidStateEntry(m.key, m.entry)
    BY <2>1, GuardPasses
  <2>3. ValidRunState(Mutated(x.state, m), x.campaign)
    BY <1>1, <1>3, <1>4, <2>2, SetValid
  <2> QED
    BY <1>2, <1>4, <2>3
<1>5. CASE m.op = "release"
  <2>1. Mutated(x.state, m) = [x.state EXCEPT !.lock = ClearLock]
    BY <1>5 DEF Mutated
  <2>2. ValidRunState(Mutated(x.state, m), x.campaign)
    BY <1>1, <1>3, <2>1, ClearLockValid, LockSet
  <2> QED
    BY <1>2, <1>5, <2>2
<1>6. CASE m.op = "acquire"
  <2> DEFINE lock == [batch |-> m.id.batch, operator |-> m.id.operator,
                      attempt |-> m.id.attempt, at |-> m.at]
  <2>1. Mutated(x.state, m) = [x.state EXCEPT !.lock = lock]
    BY <1>6 DEF Mutated
  <2>2. ValidRunState(Mutated(x.state, m), x.campaign) <=> ValidLock(lock)
    <3> HIDE DEF lock
    <3> QED
      BY <1>1, <1>3, <2>1, LockSet
  <2>3. Instant(m.at)
    <3>1. AcquireRefusal(x.state, m.at) = None
      BY <1>1, <1>6 DEF MutationRefusal
    <3> DEFINE checks == <<<<x.state.lock.batch # NullText, "held">>,
                          <<~Instant(m.at), "lockedAt">>>>
    <3>2. AcquireRefusal(x.state, m.at) = FirstRefusal(checks) /\ DOMAIN checks = 1 .. 2
      BY DEF AcquireRefusal
    <3>3. checks[1][2] # None /\ checks[2][2] # None
      BY DEF None
    <3>4. ~checks[2][1]
      <4> HIDE DEF checks
      <4>1. \A i \in DOMAIN checks : checks[i][1] => checks[i][2] # None
        BY <3>2, <3>3
      <4>2. DOMAIN checks \subseteq Nat
        BY <3>2
      <4> QED
        BY <3>1, <3>2, <4>1, <4>2, PassesWhen
    <3> QED
      BY <3>4
  <2>4. PICK n \in Int, at \in Int : n = m.id.attempt /\ at = m.at /\ at >= 0
    BY <1>6, <2>3 DEF UpdateTyped, Instant
  <2>5. m.id.batch \notin {NullText, BadText} /\ m.id.operator \notin {NullText, BadText}
    BY <1>6 DEF UpdateTyped
  <2>6. /\ lock.batch = m.id.batch /\ lock.operator = m.id.operator /\ lock.attempt = n
        /\ lock.at = at
    BY <2>4
  <2> HIDE DEF lock
  <2>7. lock # ClearLock
    BY <2>5, <2>6 DEF ClearLock
  <2>8. NullableText(lock.batch) /\ NullableText(lock.operator) /\ NullableInstant(lock.at)
          /\ lock.at # NullInstant /\ NullText \notin {lock.batch, lock.operator}
    BY <2>4, <2>5, <2>6 DEF NullableText, NullableInstant, NullInstant, BadInstant
  <2>9. ValidLock(lock) <=> (n = NullNumber \/ n >= 1) /\ n # NullNumber
    BY <2>6, <2>7, <2>8, Zenon DEF ValidLock
  <2>10. ValidLock(lock) <=> ~(n < 1)
    BY <2>9 DEF NullNumber
  <2> QED
    BY <1>2, <1>6, <2>2, <2>4, <2>10
<1> QED
  BY <1>4, <1>5, <1>6 DEF UpdateTyped

-----------------------------------------------------------------------------
(* The run state: recoveries *)

LEMMA RecoveredIs ==
  ASSUME NEW e, DOMAIN e = EntryFields, NEW row, NEW now
  PROVE  LET r == Recovered(e, row, now)
         IN /\ r.batch = e.batch /\ r.recipient = e.recipient /\ r.index = e.index
            /\ r.amount = e.amount /\ r.attempt = e.attempt /\ r.operator = e.operator
            /\ r.label = e.label /\ r.networkRef = e.networkRef /\ r.created = e.created
            /\ r.submitted = e.submitted /\ r.cooldown = e.cooldown /\ r.metadata = e.metadata
            /\ r.status = row.outcome /\ r.updated = now /\ r.finalized = now
            /\ r.txHash = IF row.txHash = NullText THEN e.txHash ELSE row.txHash
            /\ r.lastErrorCode = IF row.outcome = "success" THEN NullText
                                 ELSE "recovered_from_terminal_audit"
            /\ r.lastError = IF row.outcome = "success" THEN NullText ELSE row.detail
            /\ r.lastDecision = IF row.outcome = "success" THEN "none" ELSE "fail_batch"
BY DEF Recovered, EntryFields

\* The texts a recovery takes from the row.
RowTexts(row) == {row.txHash, IF row.outcome = "success" THEN NullText ELSE row.detail}

LEMMA RecoveredValid ==
  ASSUME NEW key, NEW e, DOMAIN e = EntryFields, ValidStateEntry(key, e), e.attempt \in Int,
         e.status = "submitted", NEW row, row.outcome \in Outcomes \ {"cooldown"}, NEW now \in Nat
  PROVE  ValidStateEntry(key, Recovered(e, row, now)) <=> BadText \notin RowTexts(row)
<1> DEFINE r == Recovered(e, row, now)
<1>1. /\ r.batch = e.batch /\ r.recipient = e.recipient /\ r.index = e.index
      /\ r.amount = e.amount /\ r.attempt = e.attempt /\ r.operator = e.operator
      /\ r.label = e.label /\ r.networkRef = e.networkRef /\ r.created = e.created
      /\ r.submitted = e.submitted /\ r.cooldown = e.cooldown /\ r.metadata = e.metadata
      /\ r.status = row.outcome /\ r.updated = now /\ r.finalized = now
      /\ r.txHash = IF row.txHash = NullText THEN e.txHash ELSE row.txHash
      /\ r.lastErrorCode = IF row.outcome = "success" THEN NullText
                           ELSE "recovered_from_terminal_audit"
      /\ r.lastError = IF row.outcome = "success" THEN NullText ELSE row.detail
      /\ r.lastDecision = IF row.outcome = "success" THEN "none" ELSE "fail_batch"
  BY RecoveredIs
<1> HIDE DEF r
<1>2. /\ FullText(e.batch) /\ FullText(e.recipient) /\ key = RunStateKey(e.batch, e.recipient)
      /\ e.index >= 0 /\ e.amount > 0 /\ Instant(e.created)
      /\ \A t \in {e.operator, e.label, e.txHash, e.networkRef} : NullableText(t)
      /\ \A t \in {e.submitted, e.cooldown} : NullableInstant(t)
      /\ e.metadata \in {"absent", "object"}
  BY Zenon DEF ValidStateEntry
<1>3. e.attempt >= 1
  <2>1. e.status # "planned"
    OBVIOUS
  <2> QED
    BY <2>1 DEF ValidStateEntry
<1>4. r.status \in StateStatuses /\ r.status \notin {"planned", "submitted", "cooldown"}
  BY <1>1 DEF StateStatuses, Outcomes
<1>5. r.attempt >= IF r.status = "planned" THEN 0 ELSE 1
  BY <1>1, <1>3, <1>4
<1>6. Instant(r.updated) /\ NullableInstant(r.finalized)
  BY <1>1 DEF Instant, NullableInstant, BadInstant
<1>7. r.lastDecision \in RetryDispositions \cup {NullText}
  BY <1>1 DEF RetryDispositions
<1>8. NullableText(r.lastErrorCode)
  <2>1. NullableText("recovered_from_terminal_audit")
    BY DEF NullableText, BadText
  <2> QED
    BY <1>1, <2>1, NullsAllowed
<1>9. NullableText(r.txHash) /\ NullableText(r.lastError) <=> BadText \notin RowTexts(row)
  <2>1. NullText # BadText
    BY DEF NullText, BadText
  <2>2. NullableText(r.txHash) <=> row.txHash # BadText
    BY <1>1, <1>2, <2>1 DEF NullableText
  <2>3. NullableText(r.lastError)
          <=> (IF row.outcome = "success" THEN NullText ELSE row.detail) # BadText
    BY <1>1 DEF NullableText
  <2> QED
    BY <2>2, <2>3, Zenon DEF RowTexts
<1>10. ValidStateEntry(key, r)
         <=> /\ \A t \in {r.operator, r.label, r.txHash, r.networkRef, r.lastErrorCode,
                         r.lastError} : NullableText(t)
             /\ \A t \in {r.submitted, r.finalized, r.cooldown} : NullableInstant(t)
  BY <1>1, <1>2, <1>4, <1>5, <1>6, <1>7, Zenon DEF ValidStateEntry
<1>11. ValidStateEntry(key, r) <=> NullableText(r.txHash) /\ NullableText(r.lastError)
  BY <1>1, <1>2, <1>6, <1>8, <1>10, Zenon
<1> QED
  BY <1>9, <1>11 DEF r

\* A state that holds one entry.
HoldsOne(s, key, e) ==
  /\ DOMAIN s = StateFields /\ s.meta = EmptyMeta("c", 0)
  /\ DOMAIN s.entries = {key} /\ s.entries[key] = e

LEMMA OneEntry ==
  ASSUME NEW key, NEW e
  PROVE  HoldsOne([EmptyRunState("c", 0) EXCEPT !.entries = [k \in {key} |-> e]], key, e)
<1> DEFINE s == EmptyRunState("c", 0)
           t == [s EXCEPT !.entries = [k \in {key} |-> e]]
<1>1. DOMAIN s = StateFields /\ s.meta = EmptyMeta("c", 0)
  BY EmptyStateIs
<1> HIDE DEF s
<1>2. /\ DOMAIN t = StateFields /\ t.meta = s.meta /\ t.entries = [k \in {key} |-> e]
  BY <1>1 DEF StateFields
<1> HIDE DEF t
<1>3. DOMAIN t.entries = {key} /\ t.entries[key] = e
  BY <1>2
<1>4. HoldsOne(t, key, e)
  BY <1>1, <1>2, <1>3 DEF HoldsOne
<1> QED
  BY <1>4 DEF s, t

LEMMA OneEntryValid ==
  ASSUME NEW key, NEW e, ValidStateEntry(key, e)
  PROVE  ValidRunState([EmptyRunState("c", 0) EXCEPT !.entries = [k \in {key} |-> e]], "c")
<1> DEFINE s == EmptyRunState("c", 0)
           single == [k \in {key} |-> e]
           t == [s EXCEPT !.entries = single]
<1>1. ValidRunState(s, "c")
  <2>1. FullText("c") /\ 0 \in Nat
    BY DEF FullText, NullText, BadText
  <2> QED
    BY <2>1, EmptyStateValid
<1>2. DOMAIN s = StateFields
  BY EmptyStateIs
<1>3. \A k \in DOMAIN single : ValidStateEntry(k, single[k])
  OBVIOUS
<1> HIDE DEF s, single
<1>4. /\ t.schema = s.schema /\ t.meta = s.meta /\ t.lock = s.lock
      /\ t.operators = s.operators /\ t.entries = single
  BY <1>2 DEF StateFields
<1> HIDE DEF t
<1>5. ValidRunState(t, "c")
  BY <1>1, <1>3, <1>4 DEF ValidRunState, ValidEntries
<1> QED
  BY <1>5 DEF s, t, single

\* A guard of the entry's own attempt and operator passes, and leaves the next entry.
LEMMA GuardIs ==
  ASSUME NEW s, NEW key, key \in DOMAIN s.entries, NEW next,
         s.entries[key].status = "submitted"
  PROVE  LET guard == [statuses |-> {"submitted"}, attempt |-> s.entries[key].attempt,
                       operator |-> s.entries[key].operator]
         IN GuardRefusal(s, key, guard, next)
              = IF ValidStateEntry(key, next) THEN None ELSE "next entry"
<1> DEFINE guard == [statuses |-> {"submitted"}, attempt |-> s.entries[key].attempt,
                     operator |-> s.entries[key].operator]
           checks == <<
    <<StatusIn(s, key) \notin guard.statuses, "status">>,
    <<guard.attempt # NullNumber
        /\ (StatusIn(s, key) = "absent" \/ s.entries[key].attempt # guard.attempt), "attempt">>,
    <<guard.operator # "unset"
        /\ (StatusIn(s, key) = "absent" \/ s.entries[key].operator # guard.operator), "operator">>,
    <<~ValidStateEntry(key, next), "next entry">> >>
<1>1. GuardRefusal(s, key, guard, next) = FirstRefusal(checks) /\ DOMAIN checks = 1 .. 4
  BY DEF GuardRefusal
<1>2. StatusIn(s, key) = "submitted"
  BY DEF StatusIn
<1>3. /\ guard.statuses = {"submitted"} /\ guard.attempt = s.entries[key].attempt
      /\ guard.operator = s.entries[key].operator
  OBVIOUS
<1> HIDE DEF guard
<1>4. ~checks[1][1] /\ ~checks[2][1] /\ ~checks[3][1]
  BY <1>2, <1>3
<1>5. checks[4][1] <=> ~ValidStateEntry(key, next)
  OBVIOUS
<1>6. checks[4][2] = "next entry"
  OBVIOUS
<1> HIDE DEF checks
<1>7. DOMAIN checks \subseteq Nat
  BY <1>1
<1>8. ASSUME ~ValidStateEntry(key, next)
      PROVE  GuardRefusal(s, key, guard, next) = "next entry"
  <2>1. PICK four \in DOMAIN checks : four = 4
    BY <1>1
  <2>2. checks[four][1] /\ \A j \in DOMAIN checks : j < four => ~checks[j][1]
    BY <1>1, <1>4, <1>5, <1>8, <2>1
  <2> QED
    BY <1>1, <1>6, <1>7, <2>1, <2>2, FirstFailing
<1>9. ASSUME ValidStateEntry(key, next)
      PROVE  GuardRefusal(s, key, guard, next) = None
  <2>1. \A i \in DOMAIN checks : ~checks[i][1]
    BY <1>1, <1>4, <1>5, <1>9
  <2> QED
    BY <1>1, <1>7, <2>1, FirstRefusalIs
<1> QED
  BY <1>8, <1>9 DEF guard

LEMMA RecoverySaved ==
  ASSUME NEW x, RecoveryTyped(x)
  PROVE  RecoveryIsSaved(x, RecoveryRefusal(x.entry, x.row, x.now, x.timeout))
<1> DEFINE e == x.entry
           row == x.row
           key == RunStateKey(e.batch, e.recipient)
           state == [EmptyRunState("c", 0) EXCEPT !.entries = [k \in {key} |-> e]]
           once == Recovery(key, e, row, x.now)
           saved == UpdateRefusal(state, "c", once)
           next == Recovered(e, row, x.now)
           later == [e EXCEPT !.attempt = @ + 1]
           moved == [state EXCEPT !.entries[key] = later]
<1>1. SUFFICES ASSUME ValidStateEntry(key, e), e.status = "submitted",
                      RecoveryRefusal(e, row, x.now, x.timeout) = None
               PROVE  /\ saved = IF BadText \in RowTexts(row) THEN "next entry" ELSE None
                      /\ saved = None =>
                           /\ UpdateRefusal(Mutated(state, once), "c", once) # None
                           /\ UpdateRefusal(moved, "c", once) # None
  BY Zenon DEF RecoveryIsSaved, RowTexts
<1>2. row # NoRow /\ row.outcome \in Outcomes \ {"cooldown"}
  <2>1. row # NoRow /\ (row # NoRow => row.outcome # "cooldown")
    BY <1>1, RecoveryPasses
  <2> QED
    BY <2>1 DEF RecoveryTyped
<1>3. DOMAIN e = EntryFields /\ e.attempt \in Int /\ x.now \in Nat
  BY DEF RecoveryTyped
<1>4. ValidStateEntry(key, next) <=> BadText \notin RowTexts(row)
  <2> HIDE DEF key, e, row
  <2> QED
    BY <1>1, <1>2, <1>3, RecoveredValid
<1>5. HoldsOne(state, key, e) /\ ValidRunState(state, "c")
  <2> HIDE DEF key, e
  <2> QED
    BY <1>1, OneEntry, OneEntryValid
<1>6. /\ once.op = "set" /\ once.key = key /\ once.entry = next
      /\ once.guard = [statuses |-> {"submitted"}, attempt |-> e.attempt, operator |-> e.operator]
  BY DEF Recovery
<1>7. e.attempt >= 1
  BY <1>1, <1>3 DEF ValidStateEntry
<1>8. next.status = row.outcome
  <2> HIDE DEF e
  <2> QED
    BY <1>3, RecoveredIs
<1>9. /\ key \in DOMAIN moved.entries /\ moved.entries[key] = later
  <2>1. /\ DOMAIN state = StateFields /\ DOMAIN state.entries = {key}
    BY <1>5 DEF HoldsOne
  <2> HIDE DEF state, later, key
  <2>2. moved.entries = [state.entries EXCEPT ![key] = later]
    BY <2>1 DEF StateFields
  <2> QED
    BY <2>1, <2>2
<1>10. later.attempt = e.attempt + 1 /\ later.status = e.status
  <2> HIDE DEF e
  <2> QED
    BY <1>3 DEF EntryFields
<1> HIDE DEF e, row, key, state, once, next, later, moved
<1>11. state.entries[key] = e /\ key \in DOMAIN state.entries /\ DOMAIN state = StateFields
  BY <1>5 DEF HoldsOne
<1>12. MutationRefusal(state, once)
         = IF ValidStateEntry(key, next) THEN None ELSE "next entry"
  <2>1. MutationRefusal(state, once) = GuardRefusal(state, key, once.guard, next)
    BY <1>6 DEF MutationRefusal
  <2>2. GuardRefusal(state, key, [statuses |-> {"submitted"},
                                  attempt |-> state.entries[key].attempt,
                                  operator |-> state.entries[key].operator], next)
          = IF ValidStateEntry(key, next) THEN None ELSE "next entry"
    BY <1>1, <1>11, GuardIs
  <2> QED
    BY <1>6, <1>11, <2>1, <2>2
<1>13. state.meta.campaign = "c"
  BY <1>5 DEF HoldsOne, EmptyMeta
<1>14. saved = IF BadText \in RowTexts(row) THEN "next entry" ELSE None
  <2>1. CASE ValidStateEntry(key, next)
    <3>1. ValidRunState(Mutated(state, once), "c")
      BY <1>5, <1>6, <1>11, <2>1, SetValid
    <3>2. saved = None
      BY <1>5, <1>12, <1>13, <2>1, <3>1, UpdateIs
    <3> QED
      BY <1>4, <2>1, <3>2
  <2>2. CASE ~ValidStateEntry(key, next)
    <3>1. MutationRefusal(state, once) # None
      BY <1>12, <2>2 DEF None
    <3>2. saved = "next entry"
      BY <1>5, <1>12, <2>2, <3>1, UpdateIs
    <3> QED
      BY <1>4, <2>2, <3>2
  <2> QED
    BY <2>1, <2>2
<1>15. UpdateRefusal(Mutated(state, once), "c", once) # None
  <2>1. PICK t : t = Mutated(state, once)
    OBVIOUS
  <2>2. key \in DOMAIN t.entries /\ t.entries[key] = next
    BY <1>6, <1>11, <2>1, SetIs
  <2>3. StatusIn(t, key) \notin once.guard.statuses
    BY <1>2, <1>6, <1>8, <2>2 DEF StatusIn, Outcomes
  <2>4. MutationRefusal(t, once) = GuardRefusal(t, key, once.guard, next)
    BY <1>6 DEF MutationRefusal
  <2>5. MutationRefusal(t, once) # None
    BY <2>3, <2>4, GuardPasses
  <2> QED
    BY <2>1, <2>5, UpdatePasses
<1>16. UpdateRefusal(moved, "c", once) # None
  <2>1. moved.entries[key].attempt # once.guard.attempt /\ once.guard.attempt # NullNumber
    BY <1>3, <1>6, <1>7, <1>9, <1>10 DEF NullNumber
  <2>2. MutationRefusal(moved, once) = GuardRefusal(moved, key, once.guard, next)
    BY <1>6 DEF MutationRefusal
  <2>3. MutationRefusal(moved, once) # None
    BY <2>1, <2>2, GuardPasses
  <2> QED
    BY <2>3, UpdatePasses
<1> QED
  BY <1>14, <1>15, <1>16

-----------------------------------------------------------------------------
(* The promises, of every call *)

\* What a list is to the lemmas.
LEMMA ListIs ==
  ASSUME NEW s, IsList(s)
  PROVE  /\ Len(s) \in Nat /\ DOMAIN s = 1 .. Len(s)
         /\ s = [i \in 1 .. Len(s) |-> s[i]]
BY DEF IsList

LEMMA RecordKept ==
  ASSUME NEW f, NEW x, Typed(f, x)
  PROVE  RecordPromise(f, x, Answer(f, x))
<1>1. CASE f = "loadState"
  <2>1. LoadTyped(x) /\ Answer(f, x) = LoadRefusal(x.file, x.campaign)
    BY <1>1 DEF Typed, Gates, RecordTyped, Answer, RecordAnswer
  <2> QED
    BY <1>1, <2>1, LoadedSaves DEF RecordPromise
<1>2. CASE f = "update"
  <2>1. UpdateTyped(x) /\ Answer(f, x) = UpdateRefusal(x.state, x.campaign, x.mutation)
    BY <1>2 DEF Typed, Gates, RecordTyped, Answer, RecordAnswer
  <2> QED
    BY <1>2, <2>1, LateIsZero DEF RecordPromise
<1>3. CASE f = "reconcileCampaign"
  <2>1. RecoveryTyped(x) /\ Answer(f, x) = RecoveryRefusal(x.entry, x.row, x.now, x.timeout)
    BY <1>3 DEF Typed, Gates, RecordTyped, Answer, RecordAnswer
  <2> QED
    BY <1>3, <2>1, RecoverySaved DEF RecordPromise
<1>4. CASE f = "createWalletPool"
  <2>1. Answer(f, x) = PoolRefusal(x.file, x.set)
    BY <1>4 DEF Gates, Answer, RecordAnswer
  <2> QED
    BY <1>4, <2>1, OperatorsSign DEF RecordPromise
<1>5. CASE f = "planDecisionStoreAtomicAcquire"
  <2>1. /\ x.now \in Int /\ (x.existing = <<>> \/ x.existing = <<x.existing[1]>>)
        /\ x.existing # <<>> => x.existing[1].expiresAtMs \in Int
    BY <1>5 DEF Typed, Gates, RecordTyped
  <2>2. Answer(f, x) = AtomicPlan(x.existing, x.requested, x.now)
    BY <1>5 DEF Gates, Answer, RecordAnswer
  <2> QED
    BY <1>5, <2>1, <2>2, PlansAgree DEF RecordPromise
<1>6. CASE f = "tryBuildCandidateDecisionRecord"
  <2>1. NamedInput(x) /\ Answer(f, x) = TryBuild(x)
    BY <1>6 DEF Typed, Gates, RecordTyped, Answer, RecordAnswer
  <2> QED
    BY <1>6, <2>1, ItsOwnName DEF RecordPromise
<1>7. CASE f = "generate-targets"
  <2>1. /\ IsList(x.draws) /\ \A i \in DOMAIN x.draws : x.draws[i][1] # ""
        /\ x.args.count \in Int /\ x.args.amount \in Int
    BY <1>7 DEF Typed, Gates, RecordTyped
  <2>2. Answer(f, x) = GeneratedFile(x.args, x.draws)
    BY <1>7 DEF Gates, Answer, RecordAnswer
  <2>3. Len(x.draws) \in Nat /\ Drawn(x.draws, Len(x.draws))
    BY <2>1, ListIs DEF Drawn, Named
  <2> QED
    BY <1>7, <2>1, <2>2, <2>3, ListLaunches DEF RecordPromise
<1>8. CASE f = "estimateAdaptiveForwardTonAmount"
  <2>1. /\ TreeTyped(x.tree)
        /\ x.chain.perBit \in Int /\ x.chain.perCell \in Int /\ x.chain.perDepth \in Int
    BY <1>8 DEF Typed, Gates, RecordTyped
  <2>2. Answer(f, x) = ForwardRefusal(x.tree, x.master, x.chain)
    BY <1>8 DEF Gates, Answer, RecordAnswer
  <2>3. /\ IsFiniteSet(DOMAIN x.tree) /\ AtLeast(x.tree, 0) /\ Priced(x.tree)
        /\ \A p \in DOMAIN x.tree : Len(p) \in Nat
    BY <2>1 DEF TreeTyped, AtLeast, Priced
  <2> QED
    BY <1>8, <2>1, <2>2, <2>3, FloorKept DEF RecordPromise
<1>9. CASE f = "calcJettonTransferValue"
  <2>1. x.prices.flat \in Int /\ x.forward \in Int /\ x.prices.gas \in Nat
    BY <1>9 DEF Typed, Gates, RecordTyped
  <2>2. Answer(f, x) = AttachValue(x.prices, x.payload, x.forward)
    BY <1>9 DEF Gates, Answer, RecordAnswer
  <2> QED
    BY <1>9, <2>1, <2>2, AttachedCovers DEF RecordPromise
<1>10. CASE f = "prepareExecutionPlan"
  <2>1. x.count \in Int /\ x.perHour \in Int
    BY <1>10 DEF Typed, Gates, RecordTyped
  <2>2. Answer(f, x) = ExecutionRefusal(x.count, x.maxBatch, x.perHour)
    BY <1>10 DEF Gates, Answer, RecordAnswer
  <2> QED
    BY <1>10, <2>1, <2>2, PaceKeeps DEF RecordPromise
<1>11. CASE f = "buildDispatcherAuditRecorder"
  <2>1. /\ x.campaign \notin {NullText, BadText} /\ x.batch \notin {NullText, BadText}
        /\ Len(x.key) >= 2 => x.key[2] \notin {NullText, BadText}
        /\ x.attempt \in Int /\ x.optional # BadText
    BY <1>11 DEF Typed, Gates, RecordTyped
  <2>2. Answer(f, x) = UpdateAuditRow(x)
    BY <1>11 DEF Gates, Answer, RecordAnswer
  <2> QED
    BY <1>11, <2>1, <2>2, RowWritten DEF RecordPromise
<1>12. CASE f = "run"
  <2>1. Answer(f, x) = LaunchRefusal(x.env, x.targets, x.operators)
    BY <1>12 DEF Gates, Answer
  <2> QED
    BY <1>12, <2>1, LaunchDispatched DEF RecordPromise
<1>13. CASE f = "classify"
  <2>1. x.attempt \in Int
    BY <1>13 DEF Typed, Gates, RecordTyped
  <2>2. Answer(f, x) = IF ClassifyRefusal(x) # None THEN <<>>
                       ELSE <<RetryDecision(classifyMessage(x.message), x.attempt)>>
    BY <1>13 DEF Gates, Answer, RecordAnswer
  <2> QED
    BY <1>13, <2>1, <2>2, WindowsAreFit DEF RecordPromise
<1>14. CASE f = "buildDispatchReport"
  <2>1. /\ IsList(x.summaries) /\ x.total \in Int
        /\ \A i \in DOMAIN x.summaries :
             LET s == x.summaries[i]
             IN {s.succeeded, s.failed, s.cooldown, s.size} \subseteq Nat
                  /\ s.succeeded + s.failed + s.cooldown <= s.size
    BY <1>14 DEF Typed, Gates, RecordTyped
  <2>2. Answer(f, x) = Report(x.summaries, x.total)
    BY <1>14 DEF Gates, Answer, RecordAnswer
  <2> QED
    <3> DEFINE s == x.summaries
               n == Len(s)
               total == x.total
    <3>1. n \in Nat /\ DOMAIN s = 1 .. n /\ total \in Int
      BY <2>1, ListIs
    <3>2. \A i \in 1 .. n : /\ s[i].succeeded \in Nat /\ s[i].failed \in Nat
                            /\ s[i].cooldown \in Nat /\ s[i].size \in Nat
                            /\ s[i].succeeded + s[i].failed + s[i].cooldown <= s[i].size
      BY <2>1, <3>1
    <3> HIDE DEF n, s, total
    <3>3. Column(s, "size") <= total =>
            Report(s, total).succeeded + Report(s, total).failed + Report(s, total).cooldown
              + Report(s, total).skipped = total
      BY <3>1, <3>2, ReportAdds
    <3>4. ReportAddsUp(x, Report(s, total))
      BY <3>3 DEF ReportAddsUp, s, total
    <3> QED
      BY <1>14, <2>2, <3>4 DEF RecordPromise, s, total
<1> QED
  BY <1>1, <1>2, <1>3, <1>4, <1>5, <1>6, <1>7, <1>8, <1>9, <1>10, <1>11, <1>12, <1>13, <1>14
     DEF RecordPromise

LEMMA GateKept ==
  ASSUME NEW f, NEW x, Typed(f, x)
  PROVE  GatePromise(f, x, Answer(f, x))
<1>0. f \in Gates => Answer(f, x) = GateAnswer(f, x) /\ GateTyped(f, x)
  BY DEF Gates, Answer, Typed
<1>1. CASE f = "evaluateSimulatedRecovery"
  <2>1. f \in Gates
    BY <1>1 DEF Gates
  <2>2. /\ x.now \in Int /\ x.local \in Int /\ x.latest \in Int /\ x.expires \in Int
        /\ {"now", "latest", "reported"} \subseteq DOMAIN x
        /\ x.entry # NotPersisted => x.entry.submitted \in Nat \cup {NullInstant, BadInstant}
    BY <1>0, <1>1, <2>1 DEF GateTyped
  <2>3. Answer(f, x) = ResumeRefusal(x)
    BY <1>0, <1>1, <2>1 DEF GateAnswer
  <2> QED
    BY <1>1, <2>2, <2>3, ResumeCurrent DEF GatePromise
<1>2. CASE f = "reconcileTerminalAudit"
  <2>1. f \in Gates
    BY <1>2 DEF Gates
  <2>2. /\ {"formed", "heartbeat", "entries", "rows", "summary"} \subseteq DOMAIN x
        /\ IsList(x.entries) /\ IsList(x.rows)
    BY <1>0, <1>2, <2>1 DEF GateTyped
  <2>3. Answer(f, x) = AuditRefusal(x)
    BY <1>0, <1>2, <2>1 DEF GateAnswer
  <2>4. x.rows \in Seq(ToSet(x.rows))
    BY <2>2 DEF IsList
  <2>5. AlignedIsMutual(x, AuditRefusal(x))
    BY <2>2, <2>4, ListIs, AlignedMutual
  <2> QED
    BY <1>2, <2>3, <2>5 DEF GatePromise
<1>3. CASE f = "validateMetadataIntent"
  <2>1. f \in Gates
    BY <1>3 DEF Gates
  <2>2. /\ {"now", "intent", "approvals", "lineage", "gateway"} \subseteq DOMAIN x
        /\ {"effective", "approved", "delay", "approval", "rollback", "uri", "hash"}
             \subseteq DOMAIN x.intent
        /\ x.now \in Int /\ x.intent.approved \in Int /\ x.intent.delay \in Int
        /\ x.intent.effective \in Int
    BY <1>0, <1>3, <2>1 DEF GateTyped
  <2>3. Answer(f, x) = MetadataIntentRefusal(x)
    BY <1>0, <1>3, <2>1 DEF GateAnswer
  <2>4. IntentWaits(x, MetadataIntentRefusal(x))
    BY <2>2, IntentWaiting
  <2> QED
    BY <1>3, <2>3, <2>4 DEF GatePromise
<1>4. CASE f = "validate metadata"
  <2>1. f \in Gates
    BY <1>4 DEF Gates
  <2>2. /\ {"metadata", "identity", "pinned", "pinnedIdentity"} \subseteq DOMAIN x
        /\ {"texts", "decimals"} \subseteq DOMAIN x.metadata
    BY <1>0, <1>4, <2>1 DEF GateTyped
  <2>3. Answer(f, x) = GovernanceRefusal(x)
    BY <1>0, <1>4, <2>1 DEF GateAnswer
  <2> QED
    BY <1>4, <2>2, <2>3, PinnedMetadata DEF GatePromise
<1>5. CASE f = "validateRollback"
  <2>1. f \in Gates
    BY <1>5 DEF Gates
  <2>2. /\ {"intent", "policy"} \subseteq DOMAIN x
        /\ x.policy = [original |-> x.policy.original, lineages |-> x.policy.lineages,
                       approvals |-> x.policy.approvals]
    BY <1>0, <1>5, <2>1 DEF GateTyped
  <2>3. Answer(f, x) = RollbackRefusal(x)
    BY <1>0, <1>5, <2>1 DEF GateAnswer
  <2>4. RollbackNeedsPolicy(x, RollbackRefusal(x))
    BY <2>2, RollbackNeeds
  <2> QED
    BY <1>5, <2>3, <2>4 DEF GatePromise
<1>6. CASE f = "evaluateFinalEligibility"
  <2>1. f \in Gates
    BY <1>6 DEF Gates
  <2>2. x.now \in Int /\ x.entry.cooldown \in Int
    BY <1>0, <1>6, <2>1 DEF GateTyped
  <2>3. Answer(f, x) = RecheckRefusal(x)
    BY <1>0, <1>6, <2>1 DEF GateAnswer
  <2> QED
    BY <1>6, <2>2, <2>3, RecheckAgreed DEF GatePromise
<1>7. CASE f = "evaluateTarget"
  <2>1. f \in Gates
    BY <1>7 DEF Gates
  <2>2. Len(x.targets) \in Nat /\ DOMAIN x.targets = 1 .. Len(x.targets)
    BY <1>0, <1>7, <2>1, ListIs DEF GateTyped
  <2>3. Answer(f, x) = Screened(x.targets, x.policy)
    BY <1>0, <1>7, <2>1 DEF GateAnswer
  <2> QED
    BY <1>7, <2>2, <2>3, FirstDecides DEF GatePromise
<1>8. CASE f = "evaluateBudget"
  <2>1. f \in Gates
    BY <1>8 DEF Gates
  <2>2. /\ {"spent", "cap", "balance", "reserve", "feePolicy", "unknown", "pause"}
             \subseteq DOMAIN x
        /\ x.reserve \in Int /\ x.cap \in [BudgetLines -> Int]
    BY <1>0, <1>8, <2>1 DEF GateTyped
  <2>3. Answer(f, x) = BudgetRefusal(x)
    BY <1>0, <1>8, <2>1 DEF GateAnswer
  <2> QED
    BY <1>8, <2>2, <2>3, BudgetEnds DEF GatePromise
<1>9. CASE f = "evaluateNetworkBoundary"
  <2>1. f \in Gates
    BY <1>9 DEF Gates
  <2>2. /\ DOMAIN x =
             {"halt", "enabled", "dryRun", "expectedChain", "observedChain", "campaign",
              "confirmed", "proof", "expectedCommit", "workflow", "ciStatus",
              "ciConclusion", "ciCommit", "approval", "now", "expires"}
        /\ x.expires \in Int
    BY <1>0, <1>9, <2>1 DEF GateTyped
  <2>3. Answer(f, x) = BoundaryRefusal(x)
    BY <1>0, <1>9, <2>1 DEF GateAnswer
  <2>4. BoundaryNeedsAll(x, BoundaryRefusal(x))
    BY <2>2, BoundaryNeeds
  <2> QED
    BY <1>9, <2>3, <2>4 DEF GatePromise
<1>10. CASE f = "validateBoundary"
  <2>1. f \in Gates
    BY <1>10 DEF Gates
  <2>2. {"raised", "identity", "expected", "transition"} \subseteq DOMAIN x
    BY <1>0, <1>10, <2>1 DEF GateTyped
  <2>3. Answer(f, x) = BoundaryFailure(x)
    BY <1>0, <1>10, <2>1 DEF GateAnswer
  <2> QED
    BY <1>10, <2>2, <2>3, FailureStanding DEF GatePromise
<1> QED
  BY <1>1, <1>2, <1>3, <1>4, <1>5, <1>6, <1>7, <1>8, <1>9, <1>10 DEF GatePromise

\* The answer is the answer to the call, and the call is one of Calls.
AnswerInv ==
  answer # <<>> =>
    /\ call.f \in DOMAIN Calls /\ call.in \in Calls[call.f]
    /\ answer = <<Answer(call.f, call.in)>>
CallInv ==
  call # NoCall =>
    call = [f |-> call.f, in |-> call.in] /\ call.f \in DOMAIN Calls /\ call.in \in Calls[call.f]

LEMMA AnsweredIs ==
  ASSUME AnswerInv, answer # <<>>
  PROVE  Typed(call.f, call.in) /\ answer[1] = Answer(call.f, call.in)
BY CallsAssumption DEF AnswerInv

LEMMA AnswerIs ==
  ASSUME AnswerInv, NEW f, Answered(f)
  PROVE  Typed(f, call.in) /\ answer[1] = Answer(f, call.in)
BY AnsweredIs DEF Answered

LEMMA TiersKept == ASSUME AnswerInv PROVE EveryTierFits
<1> DEFINE x == call.in
<1> SUFFICES ASSUME Answered("resolveAssetFeePolicy"), answer[1] = None
             PROVE  LET p == Resolved(x.master, x.policies)
                    IN \A offset \in 0 .. p.tiers - 1 : TierFee(p, offset) \in p.base .. p.max
  BY DEF EveryTierFits
<1>1. /\ \A i \in DOMAIN x.policies :
           LET p == x.policies[i] IN {p.base, p.max, p.step, p.tiers} \subseteq Int
      /\ ResolveRefusal(x.campaign, x.master, x.policies) = None
  BY AnswerIs DEF Gates, Typed, Answer
<1> QED
  BY <1>1, TiersFit

LEMMA MarginKept == ASSUME AnswerInv PROVE MarginRoundsUp
<1>1. ASSUME Answered("resolveGasSafetyMarginPolicy"), answer[1] = None
      PROVE  /\ call.in.estimate \in Int
             /\ MarginRefusal(call.in.estimate, call.in.policy) = None
  BY <1>1, AnswerIs DEF Gates, Typed, Answer
<1> QED
  BY <1>1, MarginFits DEF MarginRoundsUp

LEMMA RangeKept == ASSUME AnswerInv PROVE RangeIsDrawn
<1> DEFINE config == call.in.config
<1>1. SUFFICES ASSUME Answered("allocateAmount"), config.mode = "randomRange", answer[1] # {}
               PROVE  /\ {config.min, config.max} \subseteq answer[1]
                      /\ answer[1] \subseteq config.min .. config.max
  BY DEF RangeIsDrawn
<1>2. config.min \in Int /\ config.max \in Int /\ config.step \in Int
  BY <1>1, AnswerIs DEF Gates, Typed
<1>3. answer[1] = Allocations(call.in.amount, config, call.in.index)
  BY <1>1, AnswerIs DEF Gates, Answer
<1>4. answer[1] = AllocateRandomRange(config)
  BY <1>1, <1>3 DEF Allocations
<1> QED
  BY <1>1, <1>2, <1>4, RangeFits

LEMMA ThrottleKept == ASSUME AnswerInv PROVE ThrottleEnds
<1> DEFINE x == call.in
           plan == AppendPlan(x.trigger, x.now, x.last, x.interval)
<1>1. SUFFICES ASSUME Answered("planHeartbeatAppend"), answer[1].reason = "skipped_throttled",
                      NEW later \in x.last .. answer[1].next
               PROVE  (AppendPlan("periodic", later, x.last, x.interval).action
                         = "append_allowed") <=> later = answer[1].next
  BY DEF ThrottleEnds
<1>2. x.now \in Int /\ x.last \in Int /\ x.interval \in Int /\ x.last >= Never
  BY <1>1, AnswerIs DEF Gates, Typed
<1>3. answer[1] = plan
  BY <1>1, AnswerIs DEF Gates, Answer
<1> QED
  BY <1>1, <1>2, <1>3, Throttling

LEMMA ReplayKept == ASSUME AnswerInv PROVE ReplayIsCaught
<1> DEFINE p == call.in
<1>1. SUFFICES ASSUME Answered("runBlacklistPreflight"), answer[1] = None, NEW upper \in BOOLEAN
               PROVE  ~Accepted([p EXCEPT !.registry = Recorded(p), !.config.key.upper = upper])
  BY DEF ReplayIsCaught
<1>2. /\ {"config", "registry"} \subseteq DOMAIN p /\ "used" \in DOMAIN p.registry
      /\ p.config # NoConfig => "key" \in DOMAIN p.config /\ "upper" \in DOMAIN p.config.key
  BY <1>1, AnswerIs DEF Gates, Typed
<1>3. PreflightRefusal(p) = None
  BY <1>1, AnswerIs DEF Gates, Answer
<1> QED
  BY <1>1, <1>2, <1>3, ReplayCaught

LEMMA ItemsKept == ASSUME AnswerInv PROVE EveryItemAccounted
<1> DEFINE x == call.in
<1>1. SUFFICES ASSUME Answered("normalizeTransferHistory"), x.list
               PROVE  Len(answer[1].events) + answer[1].skipped
                        + Cardinality({i \in DOMAIN x.actions :
                                         x.actions[i].object /\ ~IsTransfer(x.actions[i])})
                        = Len(x.actions)
  BY DEF EveryItemAccounted
<1>2. Len(x.actions) \in Nat /\ DOMAIN x.actions = 1 .. Len(x.actions)
  BY <1>1, AnswerIs, ListIs DEF Gates, Typed
<1>3. answer[1] = History(x)
  BY <1>1, AnswerIs DEF Gates, Answer
<1> QED
  BY <1>1, <1>2, <1>3, ItemsAccounted

LEMMA ReadersKept == ASSUME AnswerInv PROVE ReadersAgree
<1> DEFINE x == call.in
<1>1. SUFFICES ASSUME Answered("extractTonapiRawProviderEvents")
               PROVE  ToSet(History(x).events) \subseteq ToSet(answer[1].events)
  BY DEF ReadersAgree
<1>2. Len(x.actions) \in Nat /\ DOMAIN x.actions = 1 .. Len(x.actions)
  BY <1>1, AnswerIs, ListIs DEF Gates, Typed
<1>3. answer[1] = Extracted(x)
  BY <1>1, AnswerIs DEF Gates, Answer
<1> QED
  BY <1>2, <1>3, ReadersRead

LEMMA IdentityKept == ASSUME AnswerInv PROVE IdentityIsOfTheTransfer
<1> DEFINE x == call.in
<1>1. SUFFICES ASSUME Answered("filterAndNormalize"), answer[1] = None,
                      NEW amount \in DOMAIN Trim, NEW destination \in DOMAIN RawAddress,
                      FilterRefusal([x.payload EXCEPT !.amount = amount,
                                                      !.destination = destination], x.master)
                        = None
               PROVE  Identity([x.payload EXCEPT !.amount = amount, !.destination = destination])
                        = Identity(x.payload)
                      <=> /\ Decimal[Trim[amount]] = Decimal[Trim[x.payload.amount]]
                          /\ CanonicalKey(destination) = CanonicalKey(x.payload.destination)
  BY DEF IdentityIsOfTheTransfer
<1>2. "amount" \in DOMAIN x.payload /\ "destination" \in DOMAIN x.payload
  BY <1>1, AnswerIs DEF Gates, Typed
<1> DEFINE p == x.payload
           other == [p EXCEPT !.amount = amount, !.destination = destination]
<1>3. /\ other.trace = p.trace /\ other.hash = p.hash /\ other.lt = p.lt
      /\ other.index = p.index /\ other.message = p.message /\ other.master = p.master
      /\ other.amount = amount /\ other.destination = destination
  BY <1>2
<1> HIDE DEF other, p
<1>4. Identity(other) = Identity(p)
      <=> /\ Decimal[Trim[other.amount]] = Decimal[Trim[p.amount]]
          /\ CanonicalKey(other.destination) = CanonicalKey(p.destination)
  BY <1>3, IdentityIs
<1>5. Identity(other) = Identity(p)
      <=> /\ Decimal[Trim[amount]] = Decimal[Trim[p.amount]]
          /\ CanonicalKey(destination) = CanonicalKey(p.destination)
  BY <1>3, <1>4
<1> QED
  BY <1>5 DEF other, p

LEMMA PlanKept == ASSUME AnswerInv PROVE EveryRecipientPlanned
<1> DEFINE x == call.in
           n == Len(x.recipients)
<1>1. SUFFICES ASSUME Answered("planBatches"), PlanRefusal(x.recipients, x.size) = None
               PROVE  LET all == FlattenSeq(answer[1])
                      IN /\ Len(all) = Len(x.recipients) /\ ToSet(all) = ToSet(x.recipients)
                         /\ \A b \in 1 .. Len(answer[1]) - 1 : Len(answer[1][b]) = x.size
  BY DEF EveryRecipientPlanned
<1>2. /\ IsList(x.recipients) /\ x.size \in Int
      /\ \A i \in DOMAIN x.recipients : x.picks[i] \in 1 .. i
  BY <1>1, AnswerIs DEF Gates, Typed
<1>3. n \in Nat /\ DOMAIN x.recipients = 1 .. n
        /\ x.recipients = [i \in 1 .. n |-> x.recipients[i]]
  BY <1>2, ListIs
<1>4. answer[1] = Planned(x.recipients, x.size, x.picks)
  BY <1>1, AnswerIs DEF Gates, Answer
<1> DEFINE list == x.recipients
           size == x.size
           picks == x.picks
           plan == Planned(list, size, picks)
<1>5. /\ DOMAIN list = 1 .. n /\ Len(list) = n /\ list = [i \in 1 .. n |-> list[i]]
      /\ size \in Int /\ PlanRefusal(list, size) = None
  BY <1>1, <1>2, <1>3
<1>6. \A i \in 1 .. n : picks[i] \in 1 .. i
  BY <1>2, <1>3
<1> HIDE DEF n, list, size, picks
<1>7. /\ Len(FlattenSeq(plan)) = Len(list) /\ ToSet(FlattenSeq(plan)) = ToSet(list)
      /\ \A b \in 1 .. Len(plan) - 1 : Len(plan[b]) = size
  BY <1>3, <1>5, <1>6, RecipientsPlanned
<1> QED
  BY <1>4, <1>7 DEF list, size, picks

LEMMA AmountKept == ASSUME AnswerInv PROVE AmountIsRecorded
<1> DEFINE x == call.in
<1>1. SUFFICES ASSUME Answered("audit write"), Len(x.campaign) = 1,
                      PlanRefusal(x.recipients, 1) = None, NEW i \in DOMAIN x.recipients,
                      x.recipients[i].address = x.address
               PROVE  answer[1] = x.recipients[i].amount
  BY DEF AmountIsRecorded
<1>2. IsList(x.campaign) /\ IsList(x.recipients)
  BY <1>1, AnswerIs DEF Gates, Typed
<1>3. DOMAIN x.campaign = 1 .. 1 /\ DOMAIN x.recipients \subseteq Nat
  <2>1. DOMAIN x.campaign = 1 .. 1
    BY <1>1, <1>2, ListIs
  <2>2. DOMAIN x.recipients = 1 .. Len(x.recipients) /\ Len(x.recipients) \in Nat
    BY <1>2, ListIs
  <2> QED
    BY <2>1, <2>2
<1>4. x.campaign \in Seq({x.campaign[1]})
  <2>1. ToSet(x.campaign) = {x.campaign[1]}
    BY <1>3 DEF ToSet
  <2> QED
    BY <1>2, <2>1 DEF IsList
<1>5. answer[1] = AuditAmount(x.campaign, x.recipients, x.address)
  BY <1>1, AnswerIs DEF Gates, Answer
<1> DEFINE campaign == x.campaign
           recipients == x.recipients
           address == x.address
<1>6. /\ DOMAIN campaign = 1 .. 1 /\ campaign \in Seq({campaign[1]})
      /\ PlanRefusal(recipients, 1) = None /\ DOMAIN recipients \subseteq Nat
      /\ i \in DOMAIN recipients /\ recipients[i].address = address
  BY <1>1, <1>3, <1>4
<1> HIDE DEF campaign, recipients, address
<1>7. AuditAmount(campaign, recipients, address) = recipients[i].amount
  BY <1>6, AmountRecorded
<1> QED
  BY <1>5, <1>7 DEF campaign, recipients, address

\* A call and its answer stay together, since a call is answered once.
LEMMA AnswersAreOfTheirCalls == StagesSpec => [](CallInv /\ AnswerInv)
<1>1. StagesInit => CallInv /\ AnswerInv
  <2>1. Called => CallInv /\ AnswerInv
    BY DEF Called, CallInv, AnswerInv
  <2>2. call = NoCall /\ answer = <<>> => CallInv /\ AnswerInv
    BY DEF CallInv, AnswerInv
  <2> QED
    BY <2>1, <2>2 DEF StagesInit
<1>2. ASSUME CallInv, AnswerInv, [StagesNext]_<<vars, shellVars, call, answer>>
      PROVE  CallInv' /\ AnswerInv'
  <2>1. CASE UNCHANGED <<call, answer>>
    BY <1>2, <2>1 DEF CallInv, AnswerInv
  <2>2. CASE Evaluate
    <3>1. call # NoCall /\ answer' = <<Answer(call.f, call.in)>> /\ call' = call
      BY <2>2 DEF Evaluate
    <3>2. CallInv'
      BY <1>2, <3>1 DEF CallInv
    <3>3. AnswerInv'
      BY <1>2, <3>1 DEF CallInv, AnswerInv
    <3> QED
      BY <3>2, <3>3
  <2> QED
    BY <1>2, <2>1, <2>2 DEF StagesNext
<1> QED
  BY <1>1, <1>2, PTL DEF StagesSpec

\* Every promise of the offline evaluators is kept in every call: what the policies,
\* planners, normalizers, validators, tools and gates answer is right of later calls too.
THEOREM EveryPromiseIsKept == StagesSpec => []PromisesKept
<1>1. ASSUME CallInv /\ AnswerInv PROVE PromisesKept
  <2>1. answer # <<>> => /\ RecordPromise(call.f, call.in, answer[1])
                         /\ GatePromise(call.f, call.in, answer[1])
    BY <1>1, AnsweredIs, RecordKept, GateKept
  <2> QED
    BY <1>1, <2>1, TiersKept, MarginKept, RangeKept, ThrottleKept, ReplayKept, ItemsKept,
       ReadersKept, IdentityKept, PlanKept, AmountKept DEF PromisesKept
<1> QED
  BY <1>1, AnswersAreOfTheirCalls, PTL
=============================================================================
