-------------------------- MODULE CampaignInvariant --------------------------
(***************************************************************************)
(* The inductive invariant behind the safety properties of                 *)
(* CampaignDispatch, and the hypotheses they rest on.                      *)
(***************************************************************************)
EXTENDS CampaignDispatch

(* The hypotheses *)

\* When the executor throws although the message may still mint, it says so, and
\* nothing in what it says hits an earlier keyword group of the classifier.
TruthfulExecutor == \A f \in Ambiguous : classifyMessage(f) = "uncertain_submission"

\* Every call of the campaign cuts the list into the same batches, so that a
\* recipient has one state key.
FixedBatches ==
  \A c, d \in Campaigns : ~HasDuplicates(c) /\ ~HasDuplicates(d) =>
    \A k \in ExpectedKeys(c), l \in ExpectedKeys(d) : k[2] = l[2] => k = l

\* No call of the campaign is a dry run (dispatcher.ts writes the same entries for it).
LiveOnly == \A c \in Campaigns : ~c.dryRun

\* The reader reports no success, as Stage A's reader does: a mint found on chain
\* without its row is nobody's to record.
NoSuccessEvidence == "success" \notin EvidenceOutcomes

\* One launcher process, which is how Stage A is started.
OneProcess == \A p, q \in Process : p = q

\* Every call of the campaign has the same plan: the launcher reads the same targets and
\* the batch size does not change.
OnePlan ==
  \A c, d \in Campaigns : ~HasDuplicates(c) /\ ~HasDuplicates(d) =>
    ExpectedKeys(c) = ExpectedKeys(d)

-----------------------------------------------------------------------------
(* The parts *)

InBatchRun(p) == pc[p] \in BatchRun \cup {"release"}

\* RunLockOwned, and the process does not hold the empty lock.
RunLockInv ==
  \A p \in Process : InBatchRun(p) =>
    /\ lease[p] \in RunLock /\ runLock = lease[p]
    /\ \A q \in Process \ {p} : ~InBatchRun(q)

\* AttemptsBounded, with room for one more attempt wherever one may follow.
AttemptInv ==
  /\ \A k \in Key :
       /\ entries[k].attempt <= MaxAttempts + 1
       /\ entries[k].status \in {"absent", "planned", "cooldown"} =>
            entries[k].attempt <= MaxAttempts
  /\ \A p \in Process :
       /\ pc[p] \in {"record", "bench", "settle"}
       /\ work[p].verdict \in {"retry_same_identity", "rotate_identity"}
       => work[p].attempt <= MaxAttempts

\* Nothing sent, recorded or in hand is ahead of its entry.
HistoryInv ==
  /\ \A m \in Live : m.attempt <= entries[m.key].attempt
  /\ \A r \in audit : r.attempt <= entries[r.key].attempt
  /\ \A q \in Process : \A r \in recon[q].evidence : r.attempt <= entries[r.key].attempt
  /\ \A p \in Process : pc[p] \in {"broadcast", "await", "record", "bench", "settle"} =>
       work[p].attempt <= entries[work[p].key].attempt

\* Evidence of anything but a success is of a recorded attempt that cannot mint.
EvidenceInv ==
  \A q \in Process : \A r \in recon[q].evidence : r.outcome # "success" =>
    MessageOf(r) \notin Live /\ RowOf(MessageOf(r), "failed") \in audit

\* The message about to be sent is submitted, and nobody has heard of it yet.
FreshInv ==
  \A p \in Process : pc[p] = "broadcast" =>
    /\ SubmittedAs(work[p].key, work[p].attempt, lease[p].operator)
    /\ Mine(p) \notin Live
    /\ \A r \in audit : MessageOf(r) # Mine(p)
    /\ \A q \in Process : \A r \in recon[q].evidence : MessageOf(r) # Mine(p)

\* An attempt that is being retried, rotated or failed cannot mint any more.
DeadInv ==
  \A p \in Process : /\ pc[p] \in {"record", "bench", "settle"}
                     /\ work[p].verdict \notin {"success", "hold"}
                     => Mine(p) \notin Live

\* The keys of the plans, and no entry outside them.
PlannedKeys == UNION {ExpectedKeys(c) : c \in {d \in Campaigns : ~HasDuplicates(d)}}
Walking(p) ==
  pc[p] \in {"select", "provider", "acquire", "release", "finalize", "commit"} \cup BatchRun
PlannedInv ==
  /\ \A k \in Key : entries[k].status # "absent" => k \in PlannedKeys
  /\ \A p \in Process : Walking(p) => ~HasDuplicates(walk[p].campaign)

\* A process about to write "completed" has seen a plan that is terminal for good.
FinalInv ==
  \A p \in Process : pc[p] = "commit" /\ walk[p].final = "completed" =>
    \A k \in ExpectedKeys(walk[p].campaign) : entries[k].status \in Terminal

\* CompletedMeansSettled, of a plan the planner accepted.
CompletedInv ==
  status = "completed" =>
    \E c \in Campaigns : ~HasDuplicates(c) /\ \A k \in ExpectedKeys(c) : entries[k].status \in Terminal

\* Whoever takes an attempt for a success can point at its mint.
MintedInv ==
  /\ \A p \in Process : /\ pc[p] \in {"record", "bench", "settle"}
                        /\ work[p].verdict = "success"
                        => Mine(p) \in minted
  /\ \A r \in audit : r.outcome = "success" => MessageOf(r) \in minted
  /\ \A q \in Process : \A r \in recon[q].evidence :
       r.outcome = "success" => MessageOf(r) \in minted
  /\ \A k \in Key : entries[k].status = "success" =>
       [key |-> k, attempt |-> entries[k].attempt, operator |-> entries[k].operator] \in minted

\* The row an outcome is recorded by.
RowOutcome(succeeded) == IF succeeded THEN "success" ELSE "failed"

\* The row of the attempt in hand is written before its entry is settled by it.
RecordedInv ==
  /\ \A p \in Process : pc[p] \in {"bench", "settle"} =>
       RowOf(Mine(p), RowOutcome(work[p].verdict = "success")) \in audit
  /\ \A q \in Process : \A r \in recon[q].evidence : r.outcome # "success"
  /\ TerminalIsRecorded

\* An entry stands where message m left it, or has succeeded since.
StandsAt(m) == /\ entries[m.key].attempt = m.attempt
               /\ entries[m.key].operator = m.operator
               /\ entries[m.key].status \in {"submitted", "success"}

\* No row is written of an attempt before Record, one at Record, and a success row is
\* of the attempt its entry stands at.
RowsInv ==
  /\ \A p \in Process : pc[p] \in {"broadcast", "await", "record"} =>
       StandsAt(Mine(p)) /\ \A r \in audit : MessageOf(r) # Mine(p)
  /\ \A p \in Process : pc[p] \in {"bench", "settle"} =>
       \A r \in audit : MessageOf(r) = Mine(p) =>
         r.outcome = RowOutcome(work[p].verdict = "success")
  /\ \A r \in audit : r.outcome = "success" =>
       StandsAt(MessageOf(r)) /\ RowOf(MessageOf(r), "failed") \notin audit

\* The operator of a batch run is not benched, but by the rotation that ends the run.
SparedInv ==
  /\ \A p \in Process : \/ pc[p] \in {"acquire", "next", "broadcast", "await", "record", "credit"}
                        \/ pc[p] = "settle" /\ work[p].verdict # "rotate_identity"
                        => lease[p].operator \notin benched
  /\ \A p \in Process : pc[p] = "bench" => work[p].verdict = "rotate_identity"

\* The state key of a position in the queue.
Place(p, i) == <<walk[p].batch, walk[p].campaign.recipients[i]>>

\* Attempt numbers follow the tickets of their batch: what a batch run still has to
\* serve is behind its ticket.
TicketInv ==
  /\ \A k \in Key : entries[k].attempt <= batchAttempts[k[1]]
  /\ \A p \in Process : pc[p] \in BatchRun =>
       \A i \in walk[p].queue : entries[Place(p, i)].attempt < batchAttempts[walk[p].batch]

\* A lock is only taken of a batch of the plan, for somebody.
LockedInv ==
  /\ \A p \in Process : pc[p] \in {"provider", "acquire"} =>
       Slice(walk[p].campaign, walk[p].batch) # {}
  /\ \A p \in Process : pc[p] = "acquire" => lease[p].batch = walk[p].batch
  /\ runLock # NoLock => \E k \in PlannedKeys : k[1] = runLock.batch

\* Nothing was served yet.
Untouched == audit = {} /\ \A k \in Key : entries[k].status = "absent"

\* The row and the entry of what process p has in hand.
ServedInv(p) ==
  /\ pc[p] \in {"load", "evidence", "reconcile", "start", "plan"} => Untouched
  /\ pc[p] \in {"select", "provider", "acquire"} => \A r \in audit : r.key[1] < walk[p].batch
  /\ pc[p] \in BatchRun \cup {"release"} => \A r \in audit : r.key[1] <= walk[p].batch
  /\ pc[p] \in BatchRun => \A i \in walk[p].queue, r \in audit : r.key # Place(p, i)
  /\ pc[p] \in {"broadcast", "await", "record"} =>
       /\ work[p].key \in PlannedKeys /\ work[p].key[1] = walk[p].batch
       /\ \A i \in walk[p].queue : work[p].key # Place(p, i)
       /\ \A r \in audit : r.key # work[p].key
  /\ pc[p] \in {"bench", "settle"} =>
       RowOf(Mine(p), RowOutcome(work[p].verdict = "success")) \in audit

\* During the first call a key is served once, and the report has a row for it and no
\* other: nothing is left to recover, so no evidence is used.
FirstCallInv ==
  calls <= 1 =>
    /\ calls = 0 => Untouched /\ \A p \in Process : pc[p] = "idle"
    /\ \A p, q \in Process : pc[p] # "idle" /\ pc[q] # "idle" => p = q
    /\ \A p \in Process : recon[p].pending = {} /\ ServedInv(p)
    /\ \A r \in audit : r.key \in PlannedKeys
    /\ \A r, s \in audit : r.key = s.key => r = s
    /\ \A k \in Key : entries[k].status \notin {"skipped", "cancelled"}
    /\ TerminalIsRecorded

\* What holds of a batch run whatever the executor says.
BatchInv == RunLockInv /\ HistoryInv /\ EvidenceInv /\ FreshInv

\* What keeps a live message pending and a recipient paid once (dispatcher.ts with
\* reconciler.ts): mutual exclusion of batch runs, a fresh message at Hook & Lock,
\* true evidence and dead retries hold together or not at all.
CampaignInv == BatchInv /\ DeadInv /\ LiveIsPending
=============================================================================
