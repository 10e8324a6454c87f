-------------------------- MODULE CampaignDispatch --------------------------
(***************************************************************************)
(* One campaign of the Stage A engine: lib/dispatcher/dispatcher.ts with   *)
(* the reconciler, the wallet pool, the batch planner and the run state it *)
(* drives, and the chain behind the executor.                              *)
(*                                                                         *)
(* A process is one invocation of the launcher.  It calls dispatch(), which*)
(* reconciles, marks the campaign running, plans batches and walks them.   *)
(* Several processes may run on the same state file.  Each action is the   *)
(* code between two awaits: store.update() is one transaction (the lock    *)
(* file makes it so), and between two of them any other process may run,   *)
(* the process may die, or the awaited call may throw.                     *)
(*                                                                         *)
(* A batch id is its number in the plan, a state key is a batch number and *)
(* a recipient.  Timestamps are kept as the fact the code tests: a         *)
(* submission older than the zombie timeout, a cooldown or a failure       *)
(* window still in the future.                                             *)
(***************************************************************************)
EXTENDS Integers, FiniteSets, Sequences, RetryPolicy

CONSTANTS
  Recipient,        \* recipient addresses, normalised
  Process,          \* launcher processes
  Campaigns,        \* the calls a caller may make: [recipients, batchSize, dryRun];
                    \* recipients is the order after planBatches' seeded shuffle
  BatchCount,       \* no campaign is cut into more batches than this
  Operators,        \* the wallet pool's enabled operators, in configuration order
  SelectionStart,   \* where the pool's hash of a batch id starts looking
  MaxBatchSize,     \* operator -> most recipients one batch run may serve
  Failures,         \* error messages the executor may throw, as keyword sets
  Ambiguous,        \* those it may throw although the message can still mint
  EvidenceOutcomes, \* outcomes the reconciler's evidence reader reports; {} in Stage A
  RotateCools,      \* does the retry policy give rotations a cooldown (Stage A: no)
  MaxCalls,         \* bound: dispatch() calls
  MaxFaults         \* bound: thrown awaits and crashes

Batch    == 1..BatchCount
Key      == Batch \X Recipient
Operator == {Operators[i] : i \in DOMAIN Operators}

ASSUME CampaignAssumption ==
  /\ BatchCount \in Nat \ {0}
  /\ Recipient # {}
  /\ Campaigns # {}
  /\ Campaigns \subseteq [recipients : Seq(Recipient) \ {<<>>},
                          batchSize : Nat \ {0}, dryRun : BOOLEAN]
  /\ \A c \in Campaigns : Len(c.recipients) <= BatchCount * c.batchSize

ASSUME OperatorAssumption ==
  /\ Operators \in Seq(Operator) \ {<<>>}
  /\ \A i, j \in DOMAIN Operators : Operators[i] = Operators[j] => i = j
  /\ SelectionStart \in [Batch -> DOMAIN Operators]
  /\ MaxBatchSize \in [Operator -> Nat \ {0}]

ASSUME EnvironmentAssumption ==
  /\ Failures \subseteq SUBSET Keyword
  /\ Ambiguous \subseteq Failures
  /\ EvidenceOutcomes \subseteq
       {"success", "hard_failure", "skipped", "cancelled", "cooldown"}
  /\ RotateCools \in BOOLEAN
  /\ MaxCalls \in Nat /\ MaxFaults \in Nat

VARIABLES
  (* the persisted run state *)
  status,         \* meta.status
  entries,        \* entries: state key -> entry
  runLock,        \* lock
  batchAttempts,  \* meta.batchAttempts
  benched,        \* operators whose failedUntil or cooldownUntil is in the future
  (* the audit log: rows of batch_success and batch_failure *)
  audit,
  (* what the clock has made of the timestamps in the entries *)
  aged,           \* keys submitted longer ago than the zombie timeout
  cooling,        \* keys whose cooldownUntil is in the future
  (* the chain *)
  flight,         \* messages sent that may still mint
  minted,         \* messages that minted
  (* each process: where it is, and its locals *)
  pc,
  recon,          \* reconcileCampaign: submitted entries still to visit, evidence read
  walk,           \* the batch loop: campaign, batchIndex, recipients to serve, finalStatus
  lease,          \* lockIdentity of the batch run
  work,           \* the entry in hand: key, attempt and what is to become of it
  (* bounds *)
  calls, faults

stateVars == <<status, entries, runLock, batchAttempts, benched>>
timeVars  == <<aged, cooling>>
chainVars == <<flight, minted>>
localVars == <<recon, walk, lease, work>>
boundVars == <<calls, faults>>
vars == <<stateVars, audit, timeVars, chainVars, pc, localVars, boundVars>>

-----------------------------------------------------------------------------
(* Data *)

EntryStatus == {"absent", "planned", "submitted", "cooldown", "success",
                "hard_failure", "skipped", "cancelled"}

\* The statuses finalisation counts as terminal.
Terminal == {"success", "hard_failure", "skipped", "cancelled"}

NoOperator == "none"
Entry == [status : EntryStatus, attempt : Nat, operator : Operator \cup {NoOperator}]
AbsentEntry == [status |-> "absent", attempt |-> 0, operator |-> NoOperator]

RunLock == [batch : Batch, operator : Operator, attempt : Nat]
NoLock == [batch |-> 0, operator |-> NoOperator, attempt |-> 0]

\* A message to the chain: one attempt of one entry by one operator.
Message == [key : Key, attempt : Nat, operator : Operator]

\* A row of the audit log, and of the terminal evidence made from it.
Row == [key : Key, attempt : Nat, operator : Operator,
        outcome : Terminal \cup {"cooldown", "failed"}]

RowOf(m, outcome) == [key |-> m.key, attempt |-> m.attempt,
                      operator |-> m.operator, outcome |-> outcome]
MessageOf(r) == [key |-> r.key, attempt |-> r.attempt, operator |-> r.operator]

\* What the dispatcher does with the entry it submitted.
Verdict == {"none", "success", "hold", "thrown"} \cup RetryDisposition

FinalStatus == {"running", "completed", "stopped"}

\* Where a process is.  While a batch runs, a throw still releases the run lock.
BatchRun == {"next", "broadcast", "await", "record", "bench", "settle",
             "rotated", "credit"}
Control == {"idle", "load", "evidence", "reconcile", "start", "plan", "select",
            "provider", "acquire", "release", "finalize", "commit"} \cup BatchRun

\* Awaits outside the batch run: a throw there rejects dispatch().
Outside == {"load", "evidence", "reconcile", "start", "select", "provider",
            "acquire", "finalize", "commit"}

NoRecon == [pending |-> {}, evidence |-> {}]
NoWalk == [campaign |-> CHOOSE c \in Campaigns : TRUE, batch |-> 1,
           queue |-> {}, final |-> "running"]
NoWork == [key |-> CHOOSE k \in Key : TRUE, attempt |-> 0, verdict |-> "none"]

-----------------------------------------------------------------------------
(* Planning and selection *)

Positions(c) == 1..Len(c.recipients)

\* planBatches: the positions of batch b, and the end of the plan.
Slice(c, b) == {i \in Positions(c) : (b - 1) * c.batchSize < i /\ i <= b * c.batchSize}
PlanEnds(c, b) == (b - 1) * c.batchSize >= Len(c.recipients)

\* validateRecipients refuses a list that names a recipient twice.
HasDuplicates(c) ==
  \E i, j \in Positions(c) : i # j /\ c.recipients[i] = c.recipients[j]

\* The state keys the finalisation expects.
ExpectedKeys(c) == {k \in Key : \E i \in Slice(c, k[1]) : c.recipients[i] = k[2]}

\* Mutant: a submission older than the zombie timeout is served again.
EligibleWhenAged(k) == \/ entries[k].status \in {"absent", "planned"}
                       \/ entries[k].status = "cooldown" /\ k \notin cooling
                       \/ entries[k].status = "submitted" /\ k \in aged

\* An entry the loop may serve: new, replanned, or its cooldown is over.
Eligible(k) == \/ entries[k].status \in {"absent", "planned"}
               \/ entries[k].status = "cooldown" /\ k \notin cooling

\* buildEligibleList
EligiblePositions(c, b) == {i \in Slice(c, b) : Eligible(<<b, c.recipients[i]>>)}

\* eligible.slice(0, provider.maxBatchSize)
Capped(positions, n) ==
  {i \in positions : Cardinality({j \in positions : j < i}) < n}

\* getNextAvailableProvider: from the batch's start, the first operator, going
\* round, whose windows have passed.
Distance(b, i) == (i + Len(Operators) - SelectionStart[b]) % Len(Operators)
IsNextProviderUnchecked(b, i) == i = SelectionStart[b]  \* mutant: windows unread
IsNextProvider(b, i) ==
  /\ Operators[i] \notin benched
  /\ \A j \in DOMAIN Operators :
       Operators[j] \notin benched => Distance(b, i) <= Distance(b, j)

-----------------------------------------------------------------------------
(* Evidence *)

Live == flight \cup minted

\* What a truthful reader can report: an attempt that minted or whose success was
\* recorded, and an attempt recorded as failed that can no longer mint.
TerminalEvidence ==
  {r \in {RowOf(m, "success") : m \in minted}
           \cup {r \in audit : r.outcome = "success"}
           \cup {RowOf(x.row, x.outcome) : x \in
                   [row : {r \in audit : r.outcome = "failed" /\ MessageOf(r) \notin Live},
                    outcome : EvidenceOutcomes \ {"success"}]}
     : r.outcome \in EvidenceOutcomes}

\* buildTerminalEntryMap refuses two different rows for one key.
Conflicting(rows) == \E r, s \in rows : r.key = s.key /\ r # s

\* Mutant: the guard does not look at the status.
SubmittedAsAnyStatus(k, attempt, operator) ==
  entries[k].attempt = attempt /\ entries[k].operator = operator

\* setEntryGuarded, for a submitted entry of this attempt and this operator.
SubmittedAs(k, attempt, operator) ==
  entries[k] = [status |-> "submitted", attempt |-> attempt, operator |-> operator]

-----------------------------------------------------------------------------
Init ==
  /\ status = "idle"
  /\ entries = [k \in Key |-> AbsentEntry]
  /\ runLock = NoLock
  /\ batchAttempts = [b \in Batch |-> 0]
  /\ benched = {}
  /\ audit = {}
  /\ aged = {} /\ cooling = {}
  /\ flight = {} /\ minted = {}
  /\ pc = [p \in Process |-> "idle"]
  /\ recon = [p \in Process |-> NoRecon]
  /\ walk = [p \in Process |-> NoWalk]
  /\ lease = [p \in Process |-> NoLock]
  /\ work = [p \in Process |-> NoWork]
  /\ calls = 0 /\ faults = 0

-----------------------------------------------------------------------------
(* Control *)

Goto(p, label) == pc' = [pc EXCEPT ![p] = label]

\* dispatch() settles, by returning or by rejecting: the locals are gone.
Settled(p) ==
  /\ Goto(p, "idle")
  /\ recon' = [recon EXCEPT ![p] = NoRecon]
  /\ walk' = [walk EXCEPT ![p] = NoWalk]
  /\ lease' = [lease EXCEPT ![p] = NoLock]
  /\ work' = [work EXCEPT ![p] = NoWork]

\* A throw inside the batch run: the finally block releases the run lock.
Unwinds(p) ==
  /\ Goto(p, "release")
  /\ work' = [work EXCEPT ![p].verdict = "thrown"]

\* Mutants: the recipients left over go along, and the loop does not advance.
NextBatchKeepsQueue(p) ==
  /\ Goto(p, "select")
  /\ walk' = [walk EXCEPT ![p].batch = @ + 1]
  /\ lease' = [lease EXCEPT ![p] = NoLock]
  /\ work' = [work EXCEPT ![p] = NoWork]
NextBatchStays(p) ==
  /\ Goto(p, "select")
  /\ walk' = [walk EXCEPT ![p].queue = {}]
  /\ lease' = [lease EXCEPT ![p] = NoLock]
  /\ work' = [work EXCEPT ![p] = NoWork]

\* The loop moves to the next batch.
NextBatch(p) ==
  /\ Goto(p, "select")
  /\ walk' = [walk EXCEPT ![p].batch = @ + 1, ![p].queue = {}]
  /\ lease' = [lease EXCEPT ![p] = NoLock]
  /\ work' = [work EXCEPT ![p] = NoWork]

Dispatch(p) ==
  /\ pc[p] = "idle"
  /\ calls < MaxCalls
  /\ \E c \in Campaigns : walk' = [walk EXCEPT ![p] = [NoWalk EXCEPT !.campaign = c]]
  /\ Goto(p, "load")
  /\ calls' = calls + 1
  /\ UNCHANGED <<stateVars, audit, timeVars, chainVars, recon, lease, work, faults>>

-----------------------------------------------------------------------------
(* Phase 1: the reconciler *)

\* loadState: the submitted entries, and which of them are past the timeout.
ReconcileLoad(p) ==
  /\ pc[p] = "load"
  /\ recon' = [recon EXCEPT ![p].pending =
       {[key |-> k, attempt |-> entries[k].attempt,
         operator |-> entries[k].operator, aged |-> k \in aged] :
            k \in {x \in Key : entries[x].status = "submitted"}}]
  /\ Goto(p, "evidence")
  /\ UNCHANGED <<stateVars, audit, timeVars, chainVars, walk, lease, work, boundVars>>

\* readTerminalEntries, after the load: the reader may lag, it does not lie.
ReconcileEvidence(p) ==
  /\ pc[p] = "evidence"
  /\ \E rows \in SUBSET TerminalEvidence :
       IF Conflicting(rows)
       THEN Settled(p)
       ELSE /\ recon' = [recon EXCEPT ![p].evidence = rows]
            /\ Goto(p, "reconcile")
            /\ UNCHANGED <<walk, lease, work>>
  /\ UNCHANGED <<stateVars, audit, timeVars, chainVars, boundVars>>

\* Mutant: an old submission without evidence is planned again.
ReconcileUnprovenReplans(p, e) ==
  /\ pc[p] = "reconcile" /\ e \in recon[p].pending
  /\ \A r \in recon[p].evidence : r.key # e.key
  /\ entries' = IF e.aged THEN [entries EXCEPT ![e.key].status = "planned"] ELSE entries
  /\ recon' = [recon EXCEPT ![p].pending = @ \ {e}]
  /\ UNCHANGED <<status, runLock, batchAttempts, benched, audit, timeVars, chainVars,
                 pc, walk, lease, work, boundVars>>

\* One submitted entry of the snapshot e with no evidence: a young one is left
\* alone, an old one blocks the campaign.
ReconcileUnproven(p, e) ==
  /\ pc[p] = "reconcile" /\ e \in recon[p].pending
  /\ \A r \in recon[p].evidence : r.key # e.key
  /\ IF e.aged
     THEN Settled(p)
     ELSE /\ recon' = [recon EXCEPT ![p].pending = @ \ {e}]
          /\ UNCHANGED <<pc, walk, lease, work>>
  /\ UNCHANGED <<stateVars, audit, timeVars, chainVars, boundVars>>

\* Mutant: the entry is not compared with the snapshot in the transaction.
ReconcileProvenStale(p, e, r) ==
  /\ pc[p] = "reconcile" /\ e \in recon[p].pending
  /\ r \in recon[p].evidence /\ r.key = e.key
  /\ IF r.attempt = e.attempt /\ r.operator = e.operator /\ r.outcome \in Terminal
     THEN /\ entries' = [entries EXCEPT ![e.key].status = r.outcome]
          /\ recon' = [recon EXCEPT ![p].pending = @ \ {e}]
          /\ UNCHANGED <<pc, walk, lease, work>>
     ELSE Settled(p) /\ UNCHANGED entries
  /\ aged' = {k \in aged : entries'[k].status = "submitted"}
  /\ UNCHANGED <<status, runLock, batchAttempts, benched, audit, cooling,
                 chainVars, boundVars>>

\* Evidence r for it: refused unless it names this attempt and operator, has an
\* outcome a status can express, and the entry is still what the snapshot saw.
ReconcileProven(p, e, r) ==
  /\ pc[p] = "reconcile" /\ e \in recon[p].pending
  /\ r \in recon[p].evidence /\ r.key = e.key
  /\ IF /\ r.attempt = e.attempt /\ r.operator = e.operator
        /\ r.outcome \in Terminal
        /\ SubmittedAs(e.key, e.attempt, e.operator)
     THEN /\ entries' = [entries EXCEPT ![e.key].status = r.outcome]
          /\ recon' = [recon EXCEPT ![p].pending = @ \ {e}]
          /\ UNCHANGED <<pc, walk, lease, work>>
     ELSE /\ Settled(p)
          /\ UNCHANGED entries
  /\ aged' = {k \in aged : entries'[k].status = "submitted"}
  /\ UNCHANGED <<status, runLock, batchAttempts, benched, audit, cooling,
                 chainVars, boundVars>>

ReconcileDone(p) ==
  /\ pc[p] = "reconcile" /\ recon[p].pending = {}
  /\ recon' = [recon EXCEPT ![p] = NoRecon]
  /\ Goto(p, "start")
  /\ UNCHANGED <<stateVars, audit, timeVars, chainVars, walk, lease, work, boundVars>>

-----------------------------------------------------------------------------
(* Phases 3 to 5: mark running, plan, walk the batches *)

MarkRunning(p) ==
  /\ pc[p] = "start"
  /\ status' = "running"
  /\ Goto(p, "plan")
  /\ UNCHANGED <<entries, runLock, batchAttempts, benched, audit, timeVars,
                 chainVars, localVars, boundVars>>

\* A list the planner refuses rejects dispatch() with the campaign marked running.
PlanBatches(p) ==
  /\ pc[p] = "plan"
  /\ IF HasDuplicates(walk[p].campaign)
     THEN Settled(p)
     ELSE Goto(p, "select") /\ UNCHANGED localVars
  /\ UNCHANGED <<stateVars, audit, timeVars, chainVars, boundVars>>

SelectBatch(p) ==
  /\ pc[p] = "select"
  /\ ~PlanEnds(walk[p].campaign, walk[p].batch)
  /\ LET eligible == EligiblePositions(walk[p].campaign, walk[p].batch)
     IN IF eligible = {}
        THEN NextBatch(p)
        ELSE /\ walk' = [walk EXCEPT ![p].queue = eligible]
             /\ Goto(p, "provider")
             /\ UNCHANGED <<lease, work>>
  /\ UNCHANGED <<stateVars, audit, timeVars, chainVars, recon, boundVars>>

WalkEnds(p) ==
  /\ pc[p] = "select"
  /\ PlanEnds(walk[p].campaign, walk[p].batch)
  /\ Goto(p, "finalize")
  /\ UNCHANGED <<stateVars, audit, timeVars, chainVars, localVars, boundVars>>

ChooseProvider(p, i) ==
  /\ pc[p] = "provider"
  /\ IsNextProvider(walk[p].batch, i)
  /\ lease' = [lease EXCEPT ![p] = [batch |-> walk[p].batch,
                                    operator |-> Operators[i], attempt |-> 0]]
  /\ walk' = [walk EXCEPT ![p].queue = Capped(@, MaxBatchSize[Operators[i]])]
  /\ Goto(p, "acquire")
  /\ UNCHANGED <<stateVars, audit, timeVars, chainVars, recon, work, boundVars>>

\* No provider: the batch waits for the next dispatch().
DeferBatch(p) ==
  /\ pc[p] = "provider"
  /\ Operator \subseteq benched
  /\ NextBatch(p)
  /\ UNCHANGED <<stateVars, audit, timeVars, chainVars, recon, boundVars>>

\* The matching engine throws: caught, and the batch is skipped.
PlanningFails(p) ==
  /\ pc[p] = "acquire"
  /\ faults < MaxFaults
  /\ NextBatch(p)
  /\ faults' = faults + 1
  /\ UNCHANGED <<stateVars, audit, timeVars, chainVars, recon, calls>>

\* Mutant: a held lock is overwritten.
AcquireRunLockAnyway(p) ==
  /\ pc[p] = "acquire"
  /\ LET ticket == batchAttempts[walk[p].batch] + 1
     IN /\ batchAttempts' = [batchAttempts EXCEPT ![walk[p].batch] = ticket]
        /\ runLock' = [lease[p] EXCEPT !.attempt = ticket]
        /\ lease' = [lease EXCEPT ![p].attempt = ticket]
  /\ Goto(p, "next")
  /\ UNCHANGED <<recon, walk, work, status, entries, benched, audit, timeVars,
                 chainVars, boundVars>>

\* acquireRunLockGuarded: a held lock rejects dispatch(), and nothing is saved.
AcquireRunLock(p) ==
  /\ pc[p] = "acquire"
  /\ LET ticket == batchAttempts[walk[p].batch] + 1
     IN IF runLock # NoLock
        THEN Settled(p) /\ UNCHANGED <<batchAttempts, runLock>>
        ELSE /\ batchAttempts' = [batchAttempts EXCEPT ![walk[p].batch] = ticket]
             /\ runLock' = [lease[p] EXCEPT !.attempt = ticket]
             /\ lease' = [lease EXCEPT ![p].attempt = ticket]
             /\ Goto(p, "next")
             /\ UNCHANGED <<recon, walk, work>>
  /\ UNCHANGED <<status, entries, benched, audit, timeVars, chainVars, boundVars>>

-----------------------------------------------------------------------------
(* processBatch: one recipient at a time *)

BatchDrained(p) ==
  /\ pc[p] = "next" /\ walk[p].queue = {}
  /\ Goto(p, "release")
  /\ UNCHANGED <<stateVars, audit, timeVars, chainVars, localVars, boundVars>>

\* Hook & Lock: eligibility is tested again in the transaction that submits.
HookAndLock(p, i) ==
  /\ pc[p] = "next"
  /\ i \in walk[p].queue /\ \A j \in walk[p].queue : i <= j
  /\ LET k == <<walk[p].batch, walk[p].campaign.recipients[i]>>
         n == entries[k].attempt + 1
     IN IF ~Eligible(k)
        THEN Unwinds(p) /\ UNCHANGED <<entries, timeVars, walk>>
        ELSE /\ entries' = [entries EXCEPT ![k] =
                  [status |-> "submitted", attempt |-> n, operator |-> lease[p].operator]]
             /\ aged' = aged \ {k} /\ cooling' = cooling \ {k}
             /\ walk' = [walk EXCEPT ![p].queue = @ \ {i}]
             /\ IF walk[p].campaign.dryRun
                THEN /\ work' = [work EXCEPT ![p] =
                          [key |-> k, attempt |-> n, verdict |-> "success"]]
                     /\ Goto(p, "record")
                ELSE /\ work' = [work EXCEPT ![p] =
                          [key |-> k, attempt |-> n, verdict |-> "none"]]
                     /\ Goto(p, "broadcast")
  /\ UNCHANGED <<status, runLock, batchAttempts, benched, audit, chainVars,
                 recon, lease, boundVars>>

\* The message in hand.
Mine(p) == [key |-> work[p].key, attempt |-> work[p].attempt,
            operator |-> lease[p].operator]

\* executor.broadcast sends the message.
Broadcast(p) ==
  /\ pc[p] = "broadcast"
  /\ flight' = flight \cup {Mine(p)}
  /\ Goto(p, "await")
  /\ UNCHANGED <<stateVars, audit, timeVars, minted, localVars, boundVars>>

\* It returns a transaction hash: the mint is on chain.
BroadcastReturns(p) ==
  /\ pc[p] = "await" /\ Mine(p) \in minted
  /\ work' = [work EXCEPT ![p].verdict = "success"]
  /\ Goto(p, "record")
  /\ UNCHANGED <<stateVars, audit, timeVars, chainVars, recon, walk, lease, boundVars>>

\* It throws f, before or after sending; an unambiguous error means that the
\* message will not mint.  The retry policy decides, or refuses the attempt number.
BroadcastFails(p, f) ==
  /\ pc[p] \in {"broadcast", "await"}
  /\ f \in Ambiguous \/ Mine(p) \notin Live
  /\ LET category == classifyMessage(f)
     IN IF ~ValidContext(work[p].attempt)
        THEN Unwinds(p)
        ELSE /\ work' = [work EXCEPT ![p].verdict =
                  IF category = "uncertain_submission" THEN "hold"
                  ELSE disposition(category, work[p].attempt)]
             /\ Goto(p, "record")
  /\ UNCHANGED <<stateVars, audit, timeVars, chainVars, recon, walk, lease, boundVars>>

\* The audit row comes before the state transition it is the evidence for.
Record(p) ==
  /\ pc[p] = "record"
  /\ audit' = audit \cup
       {RowOf(Mine(p), IF work[p].verdict = "success" THEN "success" ELSE "failed")}
  /\ Goto(p, IF work[p].verdict = "rotate_identity" THEN "bench" ELSE "settle")
  /\ UNCHANGED <<stateVars, timeVars, chainVars, localVars, boundVars>>

\* walletPool.markFailure: the operator is out until its window passes.
BenchOperator(p) ==
  /\ pc[p] = "bench"
  /\ benched' = benched \cup {lease[p].operator}
  /\ Goto(p, "settle")
  /\ UNCHANGED <<status, entries, runLock, batchAttempts, audit, timeVars,
                 chainVars, localVars, boundVars>>

\* Mutants: an uncertain submission is planned again, or taken for a success.
SettledStatusForgetsHold(verdict) ==
  CASE verdict = "success"                                     -> "success"
    [] verdict \in {"hold", "retry_same_identity", "rotate_identity"} -> "planned"
    [] OTHER                                                   -> "hard_failure"
SettledStatusOptimistic(verdict) ==
  CASE verdict \in {"success", "hold"}                         -> "success"
    [] verdict \in {"retry_same_identity", "rotate_identity"}  -> "planned"
    [] OTHER                                                   -> "hard_failure"

\* The status each verdict gives the entry, and where the batch run goes on.
SettledStatus(verdict) ==
  CASE verdict = "success"             -> "success"
    [] verdict = "hold"                -> "submitted"
    [] verdict = "retry_same_identity" -> "planned"
    [] verdict = "rotate_identity"     -> IF RotateCools THEN "cooldown" ELSE "planned"
    [] OTHER                           -> "hard_failure"

AfterSettle(verdict) ==
  CASE verdict = "success"             -> "credit"
    [] verdict = "retry_same_identity" -> "next"
    [] verdict = "rotate_identity"     -> "rotated"
    [] OTHER                           -> "release"

Stops(verdict) == verdict \in {"hold", "stop_campaign"}

\* The guarded transition of the submitted entry, with meta.status when it stops.
Settle(p) ==
  /\ pc[p] = "settle"
  /\ LET k == work[p].key
         v == work[p].verdict
     IN IF ~SubmittedAs(k, work[p].attempt, lease[p].operator)
        THEN Unwinds(p) /\ UNCHANGED <<status, entries, timeVars>>
        ELSE /\ entries' = [entries EXCEPT ![k].status = SettledStatus(v)]
             /\ aged' = IF v = "hold" THEN aged ELSE aged \ {k}
             /\ cooling' = IF SettledStatus(v) = "cooldown" THEN cooling \cup {k} ELSE cooling
             /\ status' = IF Stops(v) THEN "stopped" ELSE status
             /\ Goto(p, AfterSettle(v))
             /\ UNCHANGED work
  /\ UNCHANGED <<runLock, batchAttempts, benched, audit, chainVars,
                 recon, walk, lease, boundVars>>

\* Mutant: a rotation leaves the batch run without its finally block.
NoteRotationLeaks(p) ==
  /\ pc[p] = "rotated"
  /\ NextBatch(p)
  /\ UNCHANGED <<stateVars, audit, timeVars, chainVars, recon, boundVars>>

\* The identity_rotated row is written; the batch run ends.
NoteRotation(p) ==
  /\ pc[p] = "rotated"
  /\ Goto(p, "release")
  /\ UNCHANGED <<stateVars, audit, timeVars, chainVars, localVars, boundVars>>

\* walletPool.markSuccess clears the operator's windows, whoever set them.
CreditOperator(p) ==
  /\ pc[p] = "credit"
  /\ benched' = benched \ {lease[p].operator}
  /\ Goto(p, "next")
  /\ UNCHANGED <<status, entries, runLock, batchAttempts, audit, timeVars,
                 chainVars, localVars, boundVars>>

\* releaseRunLockGuarded in the finally block, then the signal of the batch.
ReleaseRunLock(p) ==
  /\ pc[p] = "release"
  /\ runLock' = IF runLock = lease[p] THEN NoLock ELSE runLock
  /\ \/ /\ runLock # lease[p] \/ work[p].verdict = "thrown"
        /\ Settled(p)
     \/ /\ runLock = lease[p] /\ Stops(work[p].verdict)
        /\ Goto(p, "finalize")
        /\ UNCHANGED localVars
     \/ /\ runLock = lease[p] /\ work[p].verdict # "thrown" /\ ~Stops(work[p].verdict)
        /\ NextBatch(p)
        /\ UNCHANGED recon
  /\ UNCHANGED <<status, entries, batchAttempts, benched, audit, timeVars,
                 chainVars, boundVars>>

-----------------------------------------------------------------------------
(* Phase 6: finalize.  The state is read in one step and written in another. *)

\* Mutant: a submitted entry counts as settled.
ReadFinalCountsSubmitted(p) ==
  /\ pc[p] = "finalize"
  /\ walk' = [walk EXCEPT ![p].final =
       IF Stops(work[p].verdict) THEN "stopped"
       ELSE IF \A k \in ExpectedKeys(walk[p].campaign) :
                 entries[k].status \in Terminal \cup {"submitted"}
            THEN "completed" ELSE "running"]
  /\ Goto(p, "commit")
  /\ UNCHANGED <<stateVars, audit, timeVars, chainVars, recon, lease, work, boundVars>>

ReadFinal(p) ==
  /\ pc[p] = "finalize"
  /\ walk' = [walk EXCEPT ![p].final =
       IF Stops(work[p].verdict) THEN "stopped"
       ELSE IF \A k \in ExpectedKeys(walk[p].campaign) : entries[k].status \in Terminal
            THEN "completed" ELSE "running"]
  /\ Goto(p, "commit")
  /\ UNCHANGED <<stateVars, audit, timeVars, chainVars, recon, lease, work, boundVars>>

CommitFinal(p) ==
  /\ pc[p] = "commit"
  /\ status' = walk[p].final
  /\ Settled(p)
  /\ UNCHANGED <<entries, runLock, batchAttempts, benched, audit, timeVars,
                 chainVars, boundVars>>

-----------------------------------------------------------------------------
(* Failures of the process and of what it awaits *)

\* Mutant: a failed audit append is swallowed.
AwaitThrowsIgnored(p) ==
  /\ faults < MaxFaults
  /\ faults' = faults + 1
  /\ pc[p] = "record"
  /\ Goto(p, "settle")
  /\ UNCHANGED <<stateVars, audit, timeVars, chainVars, localVars, calls>>

\* An awaited store, audit, pool or reader call throws without having written.
AwaitThrows(p) ==
  /\ faults < MaxFaults
  /\ faults' = faults + 1
  /\ \/ /\ pc[p] \in Outside \cup {"release"}
        /\ Settled(p)
     \/ /\ pc[p] \in BatchRun \ {"broadcast", "await"}
        /\ Unwinds(p)
        /\ UNCHANGED <<recon, walk, lease>>
  /\ UNCHANGED <<stateVars, audit, timeVars, chainVars, calls>>

\* The process dies: no finally block runs.
Crash(p) ==
  /\ pc[p] # "idle"
  /\ faults < MaxFaults
  /\ faults' = faults + 1
  /\ Settled(p)
  /\ UNCHANGED <<stateVars, audit, timeVars, chainVars, calls>>

-----------------------------------------------------------------------------
(* The chain and the clock *)

Mint(m) ==
  /\ m \in flight
  /\ flight' = flight \ {m} /\ minted' = minted \cup {m}
  /\ UNCHANGED <<stateVars, audit, timeVars, pc, localVars, boundVars>>

Drop(m) ==
  /\ m \in flight
  /\ flight' = flight \ {m}
  /\ UNCHANGED <<stateVars, audit, timeVars, minted, pc, localVars, boundVars>>

ZombieTimeout(k) ==
  /\ entries[k].status = "submitted" /\ k \notin aged
  /\ aged' = aged \cup {k}
  /\ UNCHANGED <<stateVars, audit, cooling, chainVars, pc, localVars, boundVars>>

CooldownPasses(k) ==
  /\ k \in cooling
  /\ cooling' = cooling \ {k}
  /\ UNCHANGED <<stateVars, audit, aged, chainVars, pc, localVars, boundVars>>

WindowPasses(o) ==
  /\ o \in benched
  /\ benched' = benched \ {o}
  /\ UNCHANGED <<status, entries, runLock, batchAttempts, audit, timeVars,
                 chainVars, pc, localVars, boundVars>>

-----------------------------------------------------------------------------
\* A step of dispatch() itself.
Step(p) ==
  \/ ReconcileLoad(p)
  \/ ReconcileEvidence(p)
  \/ \E e \in recon[p].pending : ReconcileUnproven(p, e)
  \/ \E e \in recon[p].pending, r \in recon[p].evidence : ReconcileProven(p, e, r)
  \/ ReconcileDone(p)
  \/ MarkRunning(p)
  \/ PlanBatches(p)
  \/ SelectBatch(p)
  \/ WalkEnds(p)
  \/ \E i \in DOMAIN Operators : ChooseProvider(p, i)
  \/ DeferBatch(p)
  \/ AcquireRunLock(p)
  \/ BatchDrained(p)
  \/ \E i \in walk[p].queue : HookAndLock(p, i)
  \/ Broadcast(p)
  \/ BroadcastReturns(p)
  \/ \E f \in Failures : BroadcastFails(p, f)
  \/ Record(p)
  \/ BenchOperator(p)
  \/ Settle(p)
  \/ NoteRotation(p)
  \/ CreditOperator(p)
  \/ ReleaseRunLock(p)
  \/ ReadFinal(p)
  \/ CommitFinal(p)

Fault(p) == PlanningFails(p) \/ AwaitThrows(p) \/ Crash(p)

Chain == \E m \in flight : Mint(m) \/ Drop(m)

Clock == \/ \E k \in Key : ZombieTimeout(k) \/ CooldownPasses(k)
         \/ \E o \in Operator : WindowPasses(o)

Next == \/ \E p \in Process : Dispatch(p) \/ Step(p) \/ Fault(p)
        \/ Chain
        \/ Clock

Spec == Init /\ [][Next]_vars

\* A launcher process that is not killed keeps running its event loop, and a
\* message in flight mints or is dropped in the end.
Fairness == /\ \A p \in Process : WF_vars(Step(p))
            /\ WF_vars(Chain)

FairSpec == Spec /\ Fairness

-----------------------------------------------------------------------------
(* Properties *)

Reconciliation ==
  [pending : SUBSET [key : Key, attempt : Nat, operator : Operator, aged : BOOLEAN],
   evidence : SUBSET Row]
Walk == [campaign : Campaigns, batch : Nat \ {0}, queue : SUBSET Nat, final : FinalStatus]
Work == [key : Key, attempt : Nat, verdict : Verdict]

\* Every variable holds a value the code can hold: a submitted entry names its
\* operator (assertValidStateEntry), a process serves positions of the batch it is
\* at, and from the choice of a provider on it has a batch run's identity.
TypeOK ==
  /\ status \in FinalStatus \cup {"idle"}
  /\ entries \in [Key -> Entry]
  /\ runLock \in RunLock \cup {NoLock}
  /\ batchAttempts \in [Batch -> Nat]
  /\ benched \in SUBSET Operator
  /\ audit \in SUBSET Row
  /\ aged \in SUBSET Key /\ cooling \in SUBSET Key
  /\ flight \in SUBSET Message /\ minted \in SUBSET Message
  /\ pc \in [Process -> Control]
  /\ recon \in [Process -> Reconciliation]
  /\ walk \in [Process -> Walk]
  /\ lease \in [Process -> RunLock \cup {NoLock}]
  /\ work \in [Process -> Work]
  /\ calls \in Nat /\ faults \in Nat
  /\ \A k \in Key : entries[k].status = "submitted" => entries[k].operator \in Operator
  /\ \A p \in Process :
       /\ walk[p].queue \subseteq Slice(walk[p].campaign, walk[p].batch)
       /\ pc[p] \in {"provider", "acquire"} \cup BatchRun => walk[p].batch \in Batch
       /\ pc[p] \in {"acquire"} \cup BatchRun => lease[p] \in RunLock

\* The Hook & Lock rule of the dispatcher's header: when a message goes out, its
\* entry is already persisted as submitted, for this attempt and this operator.
HookAndLockRule ==
  [][\A m \in flight' \ flight : SubmittedAs(m.key, m.attempt, m.operator)]_vars

\* The state never loses sight of a message that minted or still may: its entry
\* stays at that attempt, submitted or successful.  It is never replanned, never
\* declared a failure and never attempted again meanwhile, through retries,
\* rotations, holds, crashes and recoveries.
LiveIsPending ==
  \A m \in Live : /\ entries[m.key].attempt = m.attempt
                  /\ entries[m.key].operator = m.operator
                  /\ entries[m.key].status \in {"submitted", "success"}

\* No recipient is ever in line for two mints, whoever dispatches and however
\* often: at most one message of a recipient is on chain or on its way.
PaidAtMostOnce ==
  \A m, n \in Live : m.key[2] = n.key[2] => m = n

\* A live campaign's success is a mint (dispatcher success path and recovery).
SuccessMeansMinted ==
  \A k \in Key : entries[k].status = "success" =>
    \E m \in minted : m.key = k /\ m.attempt = entries[k].attempt

\* Evidence precedes the terminal state: whatever succeeded or failed for good has
\* the audit row of that very attempt, whichever await failed afterwards.
TerminalIsRecorded ==
  \A k \in Key : entries[k].status \in {"success", "hard_failure"} =>
    \E r \in audit : /\ r.key = k
                     /\ r.attempt = entries[k].attempt /\ r.operator = entries[k].operator
                     /\ r.outcome = IF entries[k].status = "success" THEN "success" ELSE "failed"

\* No duplicate success: one success row per recipient over the campaign's life.
OneSuccessRow ==
  \A r, s \in audit : /\ r.outcome = "success" /\ s.outcome = "success"
                      /\ r.key[2] = s.key[2]
                      => r = s

\* "completed" is only ever written over a plan whose entries are all terminal,
\* although the finalisation reads the state in one step and writes in another.
CompletedMeansSettled ==
  status = "completed" =>
    \E c \in Campaigns : \A k \in ExpectedKeys(c) : entries[k].status \in Terminal

\* Batch runs exclude each other: from acquisition to release the persisted run
\* lock carries the identity of the process that runs the batch.
RunLockOwned ==
  \A p \in Process : pc[p] \in BatchRun \cup {"release"} =>
    runLock = lease[p] /\ \A q \in Process \ {p} : pc[q] \notin BatchRun \cup {"release"}

\* Attempts are bounded although rotations do not count against the retry budget:
\* one attempt past the maximum is refused by the classifier and never replanned.
AttemptsBounded ==
  \A k \in Key : entries[k].attempt <= MaxAttempts + 1

\* A terminal entry is never written again.
TerminalIsFinal ==
  [][\A k \in Key : entries[k].status \in Terminal => entries'[k] = entries[k]]_vars

\* One process never broadcasts from an operator whose failure window is open,
\* from one batch to the next (the pool's windows, read at selection).
BenchedNeverSends ==
  [][\A m \in flight' \ flight : m.operator \notin benched]_vars

\* Every dispatch() call settles.
CallsEnd == \A p \in Process : pc[p] # "idle" ~> pc[p] = "idle"

\* The run lock is free again after every batch run, if nothing fails.
RunLockFreed == runLock # NoLock ~> runLock = NoLock

\* Crash recovery as the project's fault procedure expects it: no stuck lock once
\* no process is running.
NoStuckLock == (\A p \in Process : pc[p] = "idle") => runLock = NoLock

\* No replacement attempt after a possibly successful broadcast: a message that
\* may mint never leaves its entry eligible.
NoReplacementAttempt == \A m \in Live : ~Eligible(m.key)
=============================================================================
