---------------------------- MODULE StageBWatch ----------------------------
(***************************************************************************)
(* The Stage B-0 watcher, scripts/watchStageB0.ts: it reads the targets,   *)
(* the report of one launch and the state file of a campaign, and lists    *)
(* what is wrong with them.  Here it looks at the states of                *)
(* CampaignDispatch.  Its checks of campaign ids, of the report's header,  *)
(* of amounts, hashes and error texts, and of the operators file read what *)
(* that model leaves out, and are left out with it.                        *)
(***************************************************************************)
EXTENDS CampaignDispatch

Present == {k \in Key : entries[k].status # "absent"}
WithStatus(s) == {k \in Key : entries[k].status = s}

-----------------------------------------------------------------------------
(* The targets and the state: loadTargetsSummary, loadEntryKeyComparison-  *)
(* Summary, loadStateSummary                                               *)

\* The key of a position is computed from its index, without the planner.
ExpectedEntry(c, i) == <<((i - 1) \div c.batchSize) + 1, c.recipients[i]>>
ExpectedEntries(c) == {ExpectedEntry(c, i) : i \in Positions(c)}

UniqueRecipients(c) == Cardinality({c.recipients[i] : i \in Positions(c)})

\* Mutant: the last attempt of a batch counts as drift.
DriftsAtEqual(k) == entries[k].attempt >= batchAttempts[k[1]]

\* batchAttemptDriftCount: an entry is ahead of its batch.
Drifts(k) == entries[k].attempt > batchAttempts[k[1]]

\* submittedStuckCount and expiredCooldownCount
Stuck == WithStatus("submitted") \cap aged
Expired == WithStatus("cooldown") \ cooling

Locked == runLock # NoLock

StateChecks(c, lockOld) ==
  [W004 |-> ~ExpectedEntries(c) \subseteq Present,
   W005 |-> ~Present \subseteq ExpectedEntries(c),
   W006 |-> UniqueRecipients(c) < Len(c.recipients),
   W008 |-> status = "completed" /\ \E s \in {"planned", "submitted", "cooldown"} : WithStatus(s) # {},
   W009 |-> Stuck # {},
   W010 |-> Locked /\ lockOld,
   W011 |-> Locked /\ \A k \in Present : k[1] # runLock.batch,
   W012 |-> Locked /\ runLock.operator \notin Operator,
   W013 |-> \E k \in Present : Drifts(k),
   W016 |-> Expired # {}]

-----------------------------------------------------------------------------
(* The report: loadAuditSummary *)

\* What a row of the report must say of the entry of its recipient.
ReportedStatus(k) == IF entries[k].status = "hard_failure" THEN "failed" ELSE entries[k].status

\* A row with the entry of its recipient, whatever the batch: the expected
\* values are kept by recipient.
Compared(rows) == {pair \in rows \X Present : pair[1].key[2] = pair[2][2]}

ReportChecks(c, rows) ==
  [W017 |-> Cardinality(rows) # Len(c.recipients),
   W019 |-> \E r, s \in rows : r # s /\ r.key[2] = s.key[2],
   W022 |-> \E pair \in Compared(rows) : pair[1].outcome # ReportedStatus(pair[2]),
   W024 |-> \E pair \in Compared(rows) : pair[1].key[1] # pair[2][1],
   W025 |-> \E pair \in Compared(rows) : pair[1].attempt # entries[pair[2]].attempt,
   W026 |-> \E pair \in Compared(rows) : pair[1].operator # entries[pair[2]].operator]

Failing(checks) == {code \in DOMAIN checks : checks[code]}

\* detectFindings, with a report when one is given.
Findings(c, lockOld, reports) ==
  Failing(StateChecks(c, lockOld)) \cup UNION {Failing(ReportChecks(c, rows)) : rows \in reports}

\* main: all of these are critical.
ExitCode(findings) == IF findings = {} THEN 0 ELSE 2

-----------------------------------------------------------------------------
(* Properties *)

\* Every launch writes a report of its own: the only one of a first launch.
Reports == IF calls = 1 THEN {audit} ELSE {}

AtRest == \A p \in Process : pc[p] = "idle"

\* The watcher as the gate it is meant to be (watchStageB0.ts main over what
\* dispatcher.ts leaves behind): the campaign's own steps never make an attempt number
\* run ahead of its batch's, however they are interrupted; a campaign that completed
\* and is at rest passes every check on its state and, when it took one launch, on its
\* report, but for the run lock that a launch left behind: that is always reported,
\* once it is old, and nothing else is.
SettledPassesWatch ==
  \A c \in Campaigns : ~HasDuplicates(c) =>
    /\ ~StateChecks(c, TRUE).W013
    /\ status = "completed" /\ AtRest =>
         LET findings == Findings(c, TRUE, Reports)
         IN findings = {"W010"} \/ (ExitCode(findings) = 0 /\ ~Locked)
=============================================================================
