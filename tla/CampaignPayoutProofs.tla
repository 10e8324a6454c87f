------------------------ MODULE CampaignPayoutProofs ------------------------
(***************************************************************************)
(* What a campaign tells of itself, for every value of its constants: a    *)
(* success is a mint, a terminal entry has its audit row, a recipient has  *)
(* one success row, a benched operator does not send; the refinement of    *)
(* Payout, step by step; and that a settled campaign passes the watcher.   *)
(***************************************************************************)
EXTENDS CampaignPayout, StageBWatch, CampaignSafetyProofs, FiniteSetTheorems

-----------------------------------------------------------------------------
(* The steps, from where an entry and a message stand *)

(* The three ways an entry changes, from the point of view of its key. *)
LEMMA EntryMoves ==
  ASSUME TypeOK, NEW p \in Process, Dispatch(p) \/ Step(p) \/ Fault(p),
         NEW k \in Key, entries'[k] # entries[k]
  PROVE  \/ \E r \in recon[p].evidence :
              /\ recon[p].pending # {} /\ r.key = k /\ r.outcome \in Terminal
              /\ SubmittedAs(k, r.attempt, r.operator)
              /\ entries' = [entries EXCEPT ![k] =
                   [status |-> r.outcome, attempt |-> r.attempt, operator |-> r.operator]]
         \/ \E i \in walk[p].queue :
              /\ HookAndLock(p, i) /\ Eligible(k)
              /\ entries' = [entries EXCEPT ![k] =
                   [status |-> "submitted", attempt |-> entries[k].attempt + 1,
                    operator |-> lease[p].operator]]
         \/ /\ Settle(p) /\ k = work[p].key
            /\ SubmittedAs(k, work[p].attempt, lease[p].operator)
            /\ entries' = [entries EXCEPT ![k] =
                 [status |-> SettledStatus(work[p].verdict), attempt |-> work[p].attempt,
                  operator |-> lease[p].operator]]
<1>1. ASSUME NEW e \in recon[p].pending, NEW r \in recon[p].evidence, ReconcileProven(p, e, r)
      PROVE  /\ r.key = k /\ r.outcome \in Terminal
             /\ SubmittedAs(k, r.attempt, r.operator)
             /\ entries' = [entries EXCEPT ![k] =
                  [status |-> r.outcome, attempt |-> r.attempt, operator |-> r.operator]]
  <2>1. /\ e.key \in Key /\ r.key = e.key /\ r.attempt = e.attempt
        /\ r.operator = e.operator /\ r.outcome \in Terminal
        /\ SubmittedAs(e.key, e.attempt, e.operator)
        /\ entries' = [entries EXCEPT ![e.key] =
             [status |-> r.outcome, attempt |-> e.attempt, operator |-> e.operator]]
    BY <1>1, RecoveryWrites
  <2>2. k = e.key
    BY <2>1 DEF TypeOK
  <2> QED BY <2>1, <2>2
<1>2. ASSUME NEW i \in walk[p].queue, HookAndLock(p, i)
      PROVE  /\ Eligible(k)
             /\ entries' = [entries EXCEPT ![k] =
                  [status |-> "submitted", attempt |-> entries[k].attempt + 1,
                   operator |-> lease[p].operator]]
  <2>1. PICK x \in Key, n \in Nat :
          /\ n = entries[x].attempt + 1 /\ Eligible(x)
          /\ entries' = [entries EXCEPT ![x] =
               [status |-> "submitted", attempt |-> n, operator |-> lease[p].operator]]
    BY <1>2, HookWrites
  <2>2. k = x
    BY <2>1 DEF TypeOK
  <2> QED BY <2>1, <2>2
<1>3. CASE Settle(p)
  <2> DEFINE s == SettledStatus(work[p].verdict)
  <2>1. /\ work[p].key \in Key
        /\ SubmittedAs(work[p].key, work[p].attempt, lease[p].operator)
        /\ entries' = [entries EXCEPT ![work[p].key] =
             [status |-> s, attempt |-> work[p].attempt, operator |-> lease[p].operator]]
    BY <1>3, SettleWrites
  <2> HIDE DEF s
  <2>2. k = work[p].key
    BY <2>1 DEF TypeOK
  <2> QED BY <1>3, <2>1, <2>2 DEF s
<1> QED BY <1>1, <1>2, <1>3, EntriesWritten

(* Where a verdict comes from, and what carries it to the settlement. *)
LEMMA VerdictGiven ==
  ASSUME TypeOK, NEW p \in Process, Dispatch(p) \/ Step(p) \/ Fault(p),
         pc'[p] \in {"record", "bench", "settle"}
  PROVE  \/ \E i \in walk[p].queue : /\ HookAndLock(p, i) /\ walk[p].campaign.dryRun
                                     /\ pc'[p] = "record"
         \/ BroadcastReturns(p) /\ Mine(p)' = Mine(p) /\ pc'[p] = "record"
         \/ \E f \in Failures :
              /\ BroadcastFails(p, f) /\ Mine(p)' = Mine(p) /\ pc'[p] = "record"
              /\ work'[p].verdict \in {"hold"} \cup RetryDisposition
         \/ Record(p) \/ BenchOperator(p)
<1>1. CASE Dispatch(p) \/ Fault(p)
  BY <1>1 DEF TypeOK, Dispatch, Fault, PlanningFails, AwaitThrows, Crash, Settled,
              Unwinds, NextBatch, Goto
<1>2. CASE \/ ReconcileLoad(p) \/ ReconcileEvidence(p)
           \/ \E e \in recon[p].pending : ReconcileUnproven(p, e)
           \/ \E e \in recon[p].pending, r \in recon[p].evidence : ReconcileProven(p, e, r)
           \/ ReconcileDone(p) \/ MarkRunning(p) \/ PlanBatches(p) \/ SelectBatch(p)
           \/ WalkEnds(p) \/ (\E i \in DOMAIN Operators : ChooseProvider(p, i))
           \/ DeferBatch(p) \/ AcquireRunLock(p)
  <2>1. CASE \/ ReconcileLoad(p) \/ ReconcileEvidence(p)
             \/ \E e \in recon[p].pending : ReconcileUnproven(p, e)
             \/ \E e \in recon[p].pending, r \in recon[p].evidence : ReconcileProven(p, e, r)
    BY <2>1, ReconcilerGoes
  <2>2. CASE ReconcileDone(p) \/ MarkRunning(p) \/ PlanBatches(p) \/ SelectBatch(p)
    BY <2>2 DEF TypeOK, ReconcileDone, MarkRunning, PlanBatches, SelectBatch, Settled,
                NextBatch, Goto
  <2>3. CASE \/ WalkEnds(p) \/ (\E i \in DOMAIN Operators : ChooseProvider(p, i))
             \/ DeferBatch(p) \/ AcquireRunLock(p)
    BY <2>3 DEF TypeOK, WalkEnds, ChooseProvider, DeferBatch, AcquireRunLock, Settled,
                NextBatch, Goto
  <2> QED BY <1>2, <2>1, <2>2, <2>3
<1>3. CASE \/ BatchDrained(p) \/ NoteRotation(p) \/ CreditOperator(p) \/ ReleaseRunLock(p)
           \/ ReadFinal(p) \/ CommitFinal(p) \/ Settle(p) \/ Broadcast(p)
  BY <1>3 DEF TypeOK, BatchDrained, NoteRotation, CreditOperator, ReleaseRunLock, ReadFinal,
              CommitFinal, Settle, AfterSettle, Broadcast, Settled, Unwinds, NextBatch, Goto
<1>4. ASSUME NEW i \in walk[p].queue, HookAndLock(p, i)
      PROVE  walk[p].campaign.dryRun /\ pc'[p] = "record"
  BY <1>4 DEF TypeOK, HookAndLock, Unwinds, Goto
<1>5. CASE BroadcastReturns(p)
  <2>1. Mine(p)' = Mine(p)
    BY <1>5 DEF TypeOK, Work, BroadcastReturns, Mine
  <2>2. pc'[p] = "record"
    BY <1>5 DEF TypeOK, BroadcastReturns, Goto
  <2> QED BY <1>5, <2>1, <2>2
<1>6. ASSUME NEW f \in Failures, BroadcastFails(p, f)
      PROVE  /\ Mine(p)' = Mine(p) /\ pc'[p] = "record"
             /\ work'[p].verdict \in {"hold"} \cup RetryDisposition
  <2> DEFINE v == IF classifyMessage(f) = "uncertain_submission" THEN "hold"
                  ELSE disposition(classifyMessage(f), work[p].attempt)
  <2>1. ~Unwinds(p)
    BY DEF Unwinds, Goto, TypeOK
  <2>2. work' = [work EXCEPT ![p].verdict = v] /\ Goto(p, "record") /\ UNCHANGED lease
    BY <1>6, <2>1 DEF BroadcastFails
  <2>3. v \in {"hold"} \cup RetryDisposition
    BY DEF disposition, RetryDisposition
  <2> HIDE DEF v
  <2>4. work'[p].verdict = v /\ work'[p].key = work[p].key /\ work'[p].attempt = work[p].attempt
    BY <2>2 DEF TypeOK, Work
  <2> QED BY <2>2, <2>3, <2>4 DEF Mine, Goto, TypeOK
<1> QED BY <1>1, <1>2, <1>3, <1>4, <1>5, <1>6 DEF Step

(* The chain and the clock write no entry, no row and no local; mints stay. *)
LEMMA WorldSteps ==
  ASSUME Chain \/ Clock \/ UNCHANGED vars
  PROVE  /\ UNCHANGED <<entries, audit, pc, recon, walk, lease, work>>
         /\ minted \subseteq minted'
         /\ \A p \in Process : Mine(p)' = Mine(p)
<1>1. UNCHANGED <<entries, audit, pc, recon, walk, lease, work>> /\ minted \subseteq minted'
  BY DEF Chain, Clock, Mint, Drop, ZombieTimeout, CooldownPasses, WindowPasses,
         vars, stateVars, localVars, chainVars
<1> QED BY <1>1 DEF Mine

-----------------------------------------------------------------------------
(* A success is a mint *)

LEMMA SuccessEvidence ==
  ASSUME TypeOK, NEW r \in TerminalEvidence, r.outcome = "success"
  PROVE  MessageOf(r) \in minted \/ r \in audit
<1>1. CASE \E m \in minted : r = RowOf(m, "success")
  BY <1>1, RowsAndMessages DEF TypeOK
<1>2. ASSUME NEW x \in [row : {a \in audit : a.outcome = "failed" /\ MessageOf(a) \notin Live},
                        outcome : EvidenceOutcomes \ {"success"}],
             r = RowOf(x.row, x.outcome)
      PROVE  FALSE
  BY <1>2 DEF RowOf
<1> QED BY <1>1, <1>2 DEF TerminalEvidence

LEMMA MintedStep ==
  ASSUME LiveOnly, TypeOK, MintedInv, NEW p \in Process, Dispatch(p) \/ Step(p) \/ Fault(p)
  PROVE  MintedInv'
<1> DEFINE At(q) == pc[q] \in {"record", "bench", "settle"} /\ work[q].verdict = "success"
<1>1. minted \subseteq minted'
  BY HistoryWritten DEF Broadcast, chainVars
<1>2. ASSUME NEW q \in Process, At(q)' PROVE Mine(q)' \in minted'
  <2>1. CASE q # p
    <3>1. At(q) /\ Mine(q)' = Mine(q)
      BY <1>2, <2>1, OthersUntouched DEF Mine
    <3> QED BY <1>1, <3>1 DEF MintedInv
  <2>2. CASE q = p
    <3>1. ASSUME walk[p].campaign.dryRun PROVE FALSE
      BY <3>1 DEF LiveOnly, TypeOK, Walk
    <3>2. CASE BroadcastReturns(p) /\ Mine(p)' = Mine(p)
      BY <1>1, <2>2, <3>2 DEF BroadcastReturns
    <3>3. CASE work'[p].verdict \in {"hold"} \cup RetryDisposition
      BY <1>2, <2>2, <3>3 DEF RetryDisposition
    <3>4. CASE Record(p) \/ BenchOperator(p)
      <4>1. At(p) /\ Mine(p)' = Mine(p)
        BY <1>2, <2>2, <3>4 DEF Record, BenchOperator, Mine, localVars
      <4> QED BY <1>1, <2>2, <4>1 DEF MintedInv
    <3> HIDE DEF At
    <3>5. pc'[p] \in {"record", "bench", "settle"}
      BY <1>2, <2>2 DEF At
    <3> QED BY <3>1, <3>2, <3>3, <3>4, <3>5, VerdictGiven
  <2> QED BY <2>1, <2>2
<1>3. ASSUME NEW r \in audit', r.outcome = "success" PROVE MessageOf(r) \in minted'
  <2>1. CASE r \in audit
    BY <1>1, <1>3, <2>1 DEF MintedInv
  <2>2. CASE r \notin audit
    <3>1. Record(p)
      BY <1>3, <2>2, HistoryWritten
    <3>2. /\ pc[p] = "record"
          /\ r = RowOf(Mine(p), IF work[p].verdict = "success" THEN "success" ELSE "failed")
      BY <1>3, <2>2, <3>1 DEF Record
    <3>3. work[p].verdict = "success" /\ Mine(p) \in minted
      BY <1>3, <3>2 DEF RowOf, MintedInv
    <3>4. MessageOf(r) = Mine(p)
      BY <3>2, <3>3, RowsAndMessages DEF TypeOK
    <3> QED BY <1>1, <3>3, <3>4
  <2> QED BY <2>1, <2>2
<1>4. ASSUME NEW q \in Process, NEW r \in recon'[q].evidence, r.outcome = "success"
      PROVE  MessageOf(r) \in minted'
  <2>1. CASE r \in recon[q].evidence
    BY <1>1, <1>4, <2>1 DEF MintedInv
  <2>2. CASE r \in TerminalEvidence
    BY <1>1, <1>4, <2>2, SuccessEvidence DEF MintedInv
  <2> QED BY <1>4, <2>1, <2>2, EvidenceRead
<1>5. ASSUME NEW k \in Key, entries'[k].status = "success"
      PROVE  [key |-> k, attempt |-> entries'[k].attempt,
              operator |-> entries'[k].operator] \in minted'
  <2>1. CASE entries'[k] = entries[k]
    BY <1>1, <1>5, <2>1 DEF MintedInv
  <2>2. ASSUME NEW r \in recon[p].evidence, r.key = k,
               entries' = [entries EXCEPT ![k] =
                 [status |-> r.outcome, attempt |-> r.attempt, operator |-> r.operator]]
        PROVE  [key |-> k, attempt |-> entries'[k].attempt,
                operator |-> entries'[k].operator] \in minted'
    <3>1. entries'[k] = [status |-> r.outcome, attempt |-> r.attempt, operator |-> r.operator]
      BY <2>2 DEF TypeOK
    <3> QED BY <1>1, <1>5, <2>2, <3>1 DEF MintedInv, MessageOf
  <2>3. CASE \E n, o : entries' = [entries EXCEPT ![k] =
                         [status |-> "submitted", attempt |-> n, operator |-> o]]
    BY <1>5, <2>3 DEF TypeOK
  <2>4. CASE /\ Settle(p) /\ k = work[p].key
             /\ entries' = [entries EXCEPT ![k] =
                  [status |-> SettledStatus(work[p].verdict), attempt |-> work[p].attempt,
                   operator |-> lease[p].operator]]
    <3> DEFINE s == SettledStatus(work[p].verdict)
    <3> HIDE DEF s
    <3>1. entries'[k] = [status |-> s, attempt |-> work[p].attempt, operator |-> lease[p].operator]
      BY <2>4 DEF TypeOK, s
    <3>2. work[p].verdict = "success"
      BY <1>5, <3>1 DEF SettledStatus, s
    <3>3. Mine(p) \in minted
      BY <2>4, <3>2 DEF MintedInv, Settle
    <3> QED BY <1>1, <2>4, <3>1, <3>3 DEF Mine
  <2> QED BY <2>1, <2>2, <2>3, <2>4, EntryMoves
<1> QED BY <1>2, <1>3, <1>4, <1>5 DEF MintedInv

LEMMA MintedInvariance == LiveOnly => (Spec => []MintedInv)
<1> SUFFICES ASSUME LiveOnly PROVE Spec => []MintedInv
  OBVIOUS
<1>1. Init => MintedInv
  BY DEF Init, MintedInv, NoRecon, AbsentEntry
<1>2. TypeOK /\ MintedInv /\ [Next]_vars => MintedInv'
  <2> SUFFICES ASSUME TypeOK, MintedInv, [Next]_vars PROVE MintedInv'
    OBVIOUS
  <2>1. CASE Chain \/ Clock \/ UNCHANGED vars
    BY <2>1, WorldSteps DEF MintedInv
  <2> QED BY <2>1, MintedStep DEF Next
<1> QED BY <1>1, <1>2, Typing, PTL DEF Spec

(* If no call is a dry run, an entry only ever says "success" of an attempt that
   minted, whether the dispatcher or the recovery wrote it. *)
THEOREM SuccessIsMint == LiveOnly => (Spec => []SuccessMeansMinted)
<1> SUFFICES ASSUME LiveOnly PROVE Spec => []SuccessMeansMinted
  OBVIOUS
<1>1. MintedInv => SuccessMeansMinted
  <2> SUFFICES ASSUME MintedInv, NEW k \in Key, entries[k].status = "success"
               PROVE  \E m \in minted : m.key = k /\ m.attempt = entries[k].attempt
    BY DEF SuccessMeansMinted
  <2> DEFINE m == [key |-> k, attempt |-> entries[k].attempt, operator |-> entries[k].operator]
  <2>1. m \in minted
    BY DEF MintedInv
  <2> WITNESS m \in minted
  <2> QED OBVIOUS
<1>2. Spec => []MintedInv
  BY MintedInvariance
<1> QED BY <1>1, <1>2, PTL

-----------------------------------------------------------------------------
(* Evidence precedes the terminal state *)

(* The row of a failed or of a succeeded attempt is the row of its entry. *)
LEMMA RowOfEntry ==
  ASSUME TypeOK, NEW k \in Key, NEW s, NEW n \in Nat, NEW o \in Operator, NEW outcome,
         entries' = [entries EXCEPT ![k] = [status |-> s, attempt |-> n, operator |-> o]],
         outcome = IF s = "success" THEN "success" ELSE "failed",
         RowOf([key |-> k, attempt |-> n, operator |-> o], outcome) \in audit'
  PROVE  \E r \in audit' :
           /\ r.key = k /\ r.attempt = entries'[k].attempt /\ r.operator = entries'[k].operator
           /\ r.outcome = IF entries'[k].status = "success" THEN "success" ELSE "failed"
<1> DEFINE r == RowOf([key |-> k, attempt |-> n, operator |-> o], outcome)
<1>1. entries'[k] = [status |-> s, attempt |-> n, operator |-> o]
  BY DEF TypeOK
<1>2. r \in audit'
  OBVIOUS
<1>3. r.key = k /\ r.attempt = n /\ r.operator = o /\ r.outcome = outcome
  BY DEF RowOf
<1> HIDE DEF r
<1> QED BY <1>1, <1>2, <1>3

LEMMA RecordedStep ==
  ASSUME NoSuccessEvidence, TypeOK, BatchInv, RecordedInv,
         NEW p \in Process, Dispatch(p) \/ Step(p) \/ Fault(p)
  PROVE  RecordedInv'
<1> DEFINE At(q) == pc[q] \in {"bench", "settle"}
           Mark(q) == RowOf(Mine(q), RowOutcome(work[q].verdict = "success"))
<1>1. audit \subseteq audit'
  BY HistoryWritten DEF Record
<1>2. ASSUME NEW q \in Process, At(q)' PROVE Mark(q)' \in audit'
  <2>1. CASE q # p
    <3>1. At(q) /\ Mark(q)' = Mark(q)
      BY <1>2, <2>1, OthersUntouched DEF Mine, RowOf
    <3> QED BY <1>1, <3>1 DEF RecordedInv
  <2>2. CASE q = p
    <3>1. Record(p) \/ BenchOperator(p)
      BY <1>2, <2>2, VerdictGiven
    <3>2. UNCHANGED <<lease, work>> /\ Mark(p)' = Mark(p)
      BY <3>1 DEF Record, BenchOperator, Mine, RowOf, localVars
    <3>3. CASE Record(p)
      BY <2>2, <3>2, <3>3 DEF Record, RowOutcome
    <3>4. CASE BenchOperator(p)
      BY <1>1, <2>2, <3>2, <3>4 DEF BenchOperator, RecordedInv
    <3> QED BY <3>1, <3>3, <3>4
  <2> QED BY <2>1, <2>2
<1>3. ASSUME NEW q \in Process, NEW r \in recon'[q].evidence PROVE r.outcome # "success"
  BY <1>3, EvidenceRead DEF RecordedInv, NoSuccessEvidence, TerminalEvidence
<1>4. ASSUME NEW k \in Key, entries'[k].status \in {"success", "hard_failure"}
      PROVE  \E r \in audit' :
               /\ r.key = k
               /\ r.attempt = entries'[k].attempt /\ r.operator = entries'[k].operator
               /\ r.outcome = IF entries'[k].status = "success" THEN "success" ELSE "failed"
  <2>1. CASE entries'[k] = entries[k]
    BY <1>1, <1>4, <2>1 DEF RecordedInv, TerminalIsRecorded
  <2>2. ASSUME NEW r \in recon[p].evidence, r.key = k,
               entries' = [entries EXCEPT ![k] =
                 [status |-> r.outcome, attempt |-> r.attempt, operator |-> r.operator]]
        PROVE  \E x \in audit' :
                 /\ x.key = k
                 /\ x.attempt = entries'[k].attempt /\ x.operator = entries'[k].operator
                 /\ x.outcome = IF entries'[k].status = "success" THEN "success" ELSE "failed"
    <3>1. r.outcome # "success" /\ r \in Row
      BY DEF RecordedInv, TypeOK, Reconciliation
    <3>2. RowOf(MessageOf(r), "failed") \in audit
      BY <3>1 DEF BatchInv, EvidenceInv
    <3>3. r.attempt \in Nat /\ r.operator \in Operator
      BY <3>1 DEF Row
    <3>4. RowOf([key |-> k, attempt |-> r.attempt, operator |-> r.operator], "failed") \in audit'
      BY <1>1, <2>2, <3>2 DEF MessageOf
    <3> QED BY <2>2, <3>1, <3>3, <3>4, RowOfEntry
  <2>3. CASE \E n, o : entries' = [entries EXCEPT ![k] =
                         [status |-> "submitted", attempt |-> n, operator |-> o]]
    BY <1>4, <2>3 DEF TypeOK
  <2>4. CASE /\ Settle(p) /\ k = work[p].key
             /\ SubmittedAs(k, work[p].attempt, lease[p].operator)
             /\ entries' = [entries EXCEPT ![k] =
                  [status |-> SettledStatus(work[p].verdict), attempt |-> work[p].attempt,
                   operator |-> lease[p].operator]]
    <3> DEFINE n == work[p].attempt
               o == lease[p].operator
               s == SettledStatus(work[p].verdict)
               outcome == RowOutcome(work[p].verdict = "success")
    <3>1. outcome = IF s = "success" THEN "success" ELSE "failed"
      BY DEF SettledStatus, RowOutcome
    <3>2. RowOf([key |-> k, attempt |-> n, operator |-> o], outcome) \in audit'
      BY <1>1, <2>4 DEF RecordedInv, Settle, Mine
    <3>3. n \in Nat /\ o \in Operator
      BY <2>4 DEF TypeOK, SubmittedAs, Entry
    <3>4. entries' = [entries EXCEPT ![k] = [status |-> s, attempt |-> n, operator |-> o]]
      BY <2>4
    <3> HIDE DEF n, o, s, outcome, At, Mark
    <3> QED BY <3>1, <3>2, <3>3, <3>4, RowOfEntry
  <2> HIDE DEF At, Mark
  <2> QED BY <2>1, <2>2, <2>3, <2>4, EntryMoves
<1> QED BY <1>2, <1>3, <1>4 DEF RecordedInv, TerminalIsRecorded

(* If the reader reports no success, as in Stage A, whatever succeeded or failed for
   good has the audit row of that very attempt: the row is on disk before the entry is
   settled, and the recovery fails only what a row says failed. *)
THEOREM RecordsPrecede == NoSuccessEvidence => (Spec => []TerminalIsRecorded)
<1> SUFFICES ASSUME NoSuccessEvidence PROVE Spec => []TerminalIsRecorded
  OBVIOUS
<1>1. Init => RecordedInv
  BY DEF Init, RecordedInv, TerminalIsRecorded, NoRecon, AbsentEntry
<1>2. TypeOK /\ BatchInv /\ RecordedInv /\ [Next]_vars => RecordedInv'
  <2> SUFFICES ASSUME TypeOK, BatchInv, RecordedInv, [Next]_vars PROVE RecordedInv'
    OBVIOUS
  <2>1. CASE Chain \/ Clock \/ UNCHANGED vars
    BY <2>1, WorldSteps DEF RecordedInv, TerminalIsRecorded
  <2> QED BY <2>1, RecordedStep DEF Next
<1>3. RecordedInv => TerminalIsRecorded
  BY DEF RecordedInv
<1> QED BY <1>1, <1>2, <1>3, BatchInvariance, Typing, PTL DEF Spec

-----------------------------------------------------------------------------
(* One success row *)

(* From Hook & Lock to the row: the steps that leave the entry and the log alone. *)
LEMMA StillUnrecorded ==
  ASSUME TypeOK, NEW p \in Process, Dispatch(p) \/ Step(p) \/ Fault(p),
         pc'[p] \in {"broadcast", "await", "record"},
         \A i \in walk[p].queue : ~HookAndLock(p, i)
  PROVE  /\ pc[p] \in {"broadcast", "await"} /\ UNCHANGED <<entries, audit>>
         /\ Mine(p)' = Mine(p)
<1>1. Mine(p)' = Mine(p) /\ pc'[p] # "broadcast"
  BY WorkInHand DEF InHand
<1>2. CASE pc'[p] = "record"
  <2>1. ~Record(p) /\ ~BenchOperator(p)
    BY <1>2 DEF Record, BenchOperator, Goto, TypeOK
  <2>2. BroadcastReturns(p) \/ \E f \in Failures : BroadcastFails(p, f)
    BY <1>2, <2>1, VerdictGiven
  <2> QED BY <1>1, <2>2 DEF BroadcastReturns, BroadcastFails, stateVars
<1>3. CASE pc'[p] = "await"
  <2>1. Broadcast(p)
    <3>1. CASE Dispatch(p) \/ Fault(p)
      BY <1>3, <3>1 DEF TypeOK, Dispatch, Fault, PlanningFails, AwaitThrows, Crash, Settled,
                        Unwinds, NextBatch, Goto
    <3>2. CASE \/ ReconcileLoad(p) \/ ReconcileEvidence(p)
               \/ \E e \in recon[p].pending : ReconcileUnproven(p, e)
               \/ \E e \in recon[p].pending, r \in recon[p].evidence : ReconcileProven(p, e, r)
               \/ ReconcileDone(p) \/ MarkRunning(p) \/ PlanBatches(p) \/ SelectBatch(p)
               \/ WalkEnds(p) \/ (\E i \in DOMAIN Operators : ChooseProvider(p, i))
               \/ DeferBatch(p) \/ AcquireRunLock(p)
      <4>1. ~InHand(p)
        BY <3>2 DEF InHand, ReconcileLoad, ReconcileEvidence, ReconcileUnproven,
                    ReconcileProven, ReconcileDone, MarkRunning, PlanBatches, SelectBatch,
                    WalkEnds, ChooseProvider, DeferBatch, AcquireRunLock
      <4>2. InHand(p)
        BY WorkInHand DEF InHand
      <4> QED BY <4>1, <4>2
    <3>3. CASE \/ BatchDrained(p) \/ BroadcastReturns(p)
               \/ (\E f \in Failures : BroadcastFails(p, f)) \/ Record(p) \/ BenchOperator(p)
               \/ Settle(p) \/ NoteRotation(p) \/ CreditOperator(p) \/ ReleaseRunLock(p)
               \/ ReadFinal(p) \/ CommitFinal(p)
      BY <1>3, <3>3 DEF TypeOK, BatchDrained, BroadcastReturns, BroadcastFails, Record,
           BenchOperator, Settle, AfterSettle, NoteRotation, CreditOperator, ReleaseRunLock,
           ReadFinal, CommitFinal, Settled, Unwinds, NextBatch, Goto
    <3> QED BY <3>1, <3>2, <3>3 DEF Step
  <2> QED BY <1>1, <2>1 DEF Broadcast, stateVars
<1> QED BY <1>1, <1>2, <1>3

(* The attempt Hook & Lock submits has no row yet. *)
LEMMA HookedIsNew ==
  ASSUME TypeOK, HistoryInv, NEW p \in Process, NEW i \in walk[p].queue, HookAndLock(p, i),
         pc'[p] \in {"broadcast", "record"}
  PROVE  StandsAt(Mine(p))' /\ \A r \in audit : MessageOf(r) # Mine(p)'
<1>1. ~Unwinds(p) /\ UNCHANGED lease
  BY DEF Unwinds, Goto, TypeOK, HookAndLock
<1>2. PICK k \in Key, n \in Nat, v \in {"success", "none"} :
        /\ n = entries[k].attempt + 1
        /\ entries' = [entries EXCEPT ![k] =
             [status |-> "submitted", attempt |-> n, operator |-> lease[p].operator]]
        /\ work' = [work EXCEPT ![p] = [key |-> k, attempt |-> n, verdict |-> v]]
  BY <1>1, HookWrites
<1>3. /\ entries'[k] = [status |-> "submitted", attempt |-> n, operator |-> lease[p].operator]
      /\ Mine(p)' = [key |-> k, attempt |-> n, operator |-> lease[p].operator]
  BY <1>1, <1>2 DEF TypeOK, Mine
<1>4. ~(n <= entries[k].attempt)
  BY <1>2 DEF TypeOK, Entry
<1>5. \A r \in audit : MessageOf(r) # Mine(p)'
  BY <1>3, <1>4 DEF HistoryInv, MessageOf
<1> QED BY <1>3, <1>5 DEF StandsAt

(* Evidence cannot fail an entry whose message has no "failed" row. *)
LEMMA StandsStill ==
  ASSUME TypeOK, EvidenceInv, NEW p \in Process, Dispatch(p) \/ Step(p) \/ Fault(p),
         NEW m \in Message, StandsAt(m), RowOf(m, "failed") \notin audit,
         Settle(p) /\ Mine(p) = m => work[p].verdict \in {"success", "hold"}
  PROVE  StandsAt(m)'
<1>1. m.key \in Key
  BY DEF Message
<1>2. CASE entries'[m.key] = entries[m.key]
  BY <1>2 DEF StandsAt
<1>3. ASSUME NEW r \in recon[p].evidence, r.key = m.key,
             SubmittedAs(m.key, r.attempt, r.operator),
             entries' = [entries EXCEPT ![m.key] =
               [status |-> r.outcome, attempt |-> r.attempt, operator |-> r.operator]]
      PROVE  StandsAt(m)'
  <2>1. MessageOf(r) = m
    BY <1>3 DEF StandsAt, SubmittedAs, MessageOf, Message
  <2>2. r.outcome = "success"
    BY <2>1 DEF EvidenceInv
  <2>3. entries'[m.key] = [status |-> "success", attempt |-> r.attempt, operator |-> r.operator]
    BY <1>1, <1>3, <2>2 DEF TypeOK
  <2> QED BY <1>3, <2>3 DEF StandsAt, SubmittedAs
<1>4. ~Eligible(m.key)
  BY DEF StandsAt, Eligible
<1>5. CASE /\ Settle(p) /\ m.key = work[p].key
           /\ SubmittedAs(m.key, work[p].attempt, lease[p].operator)
           /\ entries' = [entries EXCEPT ![m.key] =
                [status |-> SettledStatus(work[p].verdict), attempt |-> work[p].attempt,
                 operator |-> lease[p].operator]]
  <2> DEFINE s == SettledStatus(work[p].verdict)
  <2>1. Mine(p) = m
    BY <1>5 DEF StandsAt, SubmittedAs, Mine, Message
  <2>2. s \in {"success", "submitted"}
    BY <1>5, <2>1 DEF SettledStatus
  <2> HIDE DEF s
  <2>3. entries'[m.key] = [status |-> s, attempt |-> work[p].attempt, operator |-> lease[p].operator]
    BY <1>1, <1>5 DEF TypeOK, s
  <2> QED BY <1>5, <2>2, <2>3 DEF StandsAt, SubmittedAs
<1> QED BY <1>1, <1>2, <1>3, <1>4, <1>5, EntryMoves

LEMMA RowsStep ==
  ASSUME TypeOK, BatchInv, RowsInv, NEW p \in Process, Dispatch(p) \/ Step(p) \/ Fault(p)
  PROVE  RowsInv'
<1> DEFINE Unrecorded(q) == pc[q] \in {"broadcast", "await", "record"}
           At(q) == pc[q] \in {"bench", "settle"}
           Success(q) == work[q].verdict = "success"
<1>1. RunLockInv /\ HistoryInv /\ EvidenceInv
  BY DEF BatchInv
<1>2. \A q \in Process : pc[q] \in BatchRun => Mine(q) \in Message
  BY DEF TypeOK, Mine, Message, Work, RunLock
<1>3. ASSUME NEW q \in Process, Unrecorded(q)'
      PROVE  StandsAt(Mine(q))' /\ \A r \in audit' : MessageOf(r) # Mine(q)'
  <2>1. CASE q # p
    <3>1. Unrecorded(q) /\ InHand(q) /\ Mine(q)' = Mine(q)
      BY <1>3, <2>1, OthersUntouched DEF Mine, InHand
    <3>2. UNCHANGED audit /\ ~Settle(p)
      BY <1>1, <2>1, <3>1, AloneInHand, HistoryWritten
    <3>3. StandsAt(Mine(q)) /\ \A r \in audit : MessageOf(r) # Mine(q)
      BY <3>1 DEF RowsInv
    <3>4. Mine(q) \in Message
      BY <1>2, <3>1 DEF BatchRun
    <3>5. RowOf(Mine(q), "failed") \notin audit
      BY <3>3, <3>4, RowsAndMessages
    <3>6. StandsAt(Mine(q))'
      <4> DEFINE m == Mine(q)
      <4>1. m \in Message /\ StandsAt(m) /\ RowOf(m, "failed") \notin audit
        BY <3>3, <3>4, <3>5
      <4> HIDE DEF m
      <4>2. entries'[m.key].attempt = m.attempt /\ entries'[m.key].operator = m.operator
            /\ entries'[m.key].status \in {"submitted", "success"}
        BY <1>1, <3>2, <4>1, StandsStill DEF StandsAt
      <4> QED BY <3>1, <4>2 DEF StandsAt, m
    <3> QED BY <3>1, <3>2, <3>3, <3>6
  <2>2. CASE q = p /\ \A i \in walk[p].queue : ~HookAndLock(p, i)
    <3>1. /\ Unrecorded(p) /\ UNCHANGED <<entries, audit>> /\ Mine(p)' = Mine(p)
      BY <1>3, <2>2, StillUnrecorded
    <3> QED BY <2>2, <3>1 DEF RowsInv, StandsAt
  <2>3. ASSUME q = p, NEW i \in walk[p].queue, HookAndLock(p, i)
        PROVE  StandsAt(Mine(q))' /\ \A r \in audit' : MessageOf(r) # Mine(q)'
    <3>1. UNCHANGED audit /\ pc'[p] \in {"broadcast", "record"}
      BY <1>3, <2>3 DEF HookAndLock, Unwinds, Goto, TypeOK
    <3> QED BY <1>1, <2>3, <3>1, HookedIsNew
  <2> QED BY <2>1, <2>2, <2>3
<1>4. ASSUME NEW q \in Process, At(q)', NEW r \in audit', MessageOf(r) = Mine(q)'
      PROVE  r.outcome = RowOutcome(Success(q))'
  <2>1. CASE q # p
    <3>1. At(q) /\ InHand(q) /\ Mine(q)' = Mine(q) /\ work'[q] = work[q]
      BY <1>4, <2>1, OthersUntouched DEF Mine, InHand
    <3>2. UNCHANGED audit
      BY <1>1, <2>1, <3>1, AloneInHand, HistoryWritten
    <3> QED BY <1>4, <3>1, <3>2 DEF RowsInv, RowOutcome
  <2>2. CASE q = p
    <3>1. Record(p) \/ BenchOperator(p)
      BY <1>4, <2>2, VerdictGiven
    <3>2. UNCHANGED <<lease, work>> /\ Mine(p)' = Mine(p)
      BY <3>1 DEF Record, BenchOperator, Mine, localVars
    <3>3. CASE Record(p)
      BY <1>4, <2>2, <3>2, <3>3 DEF Record, RowOutcome, RowOf, RowsInv
    <3>4. CASE BenchOperator(p)
      BY <1>4, <2>2, <3>2, <3>4 DEF BenchOperator, RowOutcome, RowsInv
    <3> QED BY <3>1, <3>3, <3>4
  <2> QED BY <2>1, <2>2
<1>5. ASSUME NEW r \in audit', r.outcome = "success"
      PROVE  StandsAt(MessageOf(r))' /\ RowOf(MessageOf(r), "failed") \notin audit'
  <2>1. CASE r \in audit
    <3> DEFINE m == MessageOf(r)
    <3>1. m \in Message /\ StandsAt(m) /\ RowOf(m, "failed") \notin audit
      BY <1>5, <2>1, RowsAndMessages DEF RowsInv, TypeOK
    <3>2. ASSUME Settle(p), Mine(p) = m PROVE work[p].verdict \in {"success", "hold"}
      BY <1>5, <2>1, <3>2 DEF RowsInv, Settle, RowOutcome
    <3>3. RowOf(m, "failed") \notin audit'
      <4>1. CASE UNCHANGED audit
        BY <3>1, <4>1
      <4>2. CASE Record(p)
        <5>1. m # Mine(p) /\ Mine(p) \in Message
          BY <1>2, <2>1, <4>2 DEF RowsInv, Record, BatchRun
        <5>2. PICK o : audit' = audit \cup {RowOf(Mine(p), o)}
          BY <4>2 DEF Record
        <5>3. RowOf(m, "failed") # RowOf(Mine(p), o)
          BY <3>1, <5>1, RowsAndMessages
        <5> QED BY <3>1, <5>2, <5>3
      <4> QED BY <4>1, <4>2, HistoryWritten
    <3> HIDE DEF m
    <3>4. /\ entries'[m.key].attempt = m.attempt /\ entries'[m.key].operator = m.operator
          /\ entries'[m.key].status \in {"submitted", "success"}
      BY <1>1, <3>1, <3>2, StandsStill DEF StandsAt
    <3> QED BY <3>3, <3>4 DEF StandsAt, m
  <2>2. CASE r \notin audit
    <3>1. Record(p)
      BY <1>5, <2>2, HistoryWritten
    <3>2. pc[p] = "record" /\ UNCHANGED entries /\ Mine(p) \in Message
      BY <1>2, <3>1 DEF Record, BatchRun, stateVars
    <3>3. r = RowOf(Mine(p), "success") /\ audit' = audit \cup {r}
      BY <1>5, <2>2, <3>1 DEF Record, RowOf
    <3>4. MessageOf(r) = Mine(p) /\ StandsAt(Mine(p))
      BY <3>2, <3>3, RowsAndMessages DEF RowsInv
    <3>5. RowOf(Mine(p), "failed") \notin audit /\ RowOf(Mine(p), "failed") # r
      <4>1. MessageOf(RowOf(Mine(p), "failed")) = Mine(p)
        BY <3>2, RowsAndMessages
      <4>2. RowOf(Mine(p), "failed") # r
        BY <3>3 DEF RowOf
      <4> QED BY <3>2, <4>1, <4>2 DEF RowsInv
    <3> QED BY <3>2, <3>3, <3>4, <3>5 DEF StandsAt
  <2> QED BY <2>1, <2>2
<1> QED BY <1>3, <1>4, <1>5 DEF RowsInv

(* Two keys of one recipient are the same key if only one of them was ever planned. *)
LEMMA OneKey ==
  ASSUME FixedBatches, PlannedInv, NEW k \in Key, NEW l \in Key, k[2] = l[2],
         entries[k].status # "absent", entries[l].status # "absent"
  PROVE  k = l
<1>1. k \in PlannedKeys /\ l \in PlannedKeys
  BY DEF PlannedInv
<1> QED BY <1>1 DEF FixedBatches, PlannedKeys

(* If every call of the campaign cuts the list into the same batches, a recipient has
   one success row over the campaign's life, whoever dispatches, crashes or recovers
   and whatever the executor throws. *)
THEOREM OneRowEach == FixedBatches => (Spec => []OneSuccessRow)
<1> SUFFICES ASSUME FixedBatches PROVE Spec => []OneSuccessRow
  OBVIOUS
<1>1. Init => RowsInv
  BY DEF Init, RowsInv
<1>2. TypeOK /\ BatchInv /\ RowsInv /\ [Next]_vars => RowsInv'
  <2> SUFFICES ASSUME TypeOK, BatchInv, RowsInv, [Next]_vars PROVE RowsInv'
    OBVIOUS
  <2>1. CASE Chain \/ Clock \/ UNCHANGED vars
    BY <2>1, WorldSteps DEF RowsInv, StandsAt
  <2> QED BY <2>1, RowsStep DEF Next
<1>3. TypeOK /\ RowsInv /\ PlannedInv => OneSuccessRow
  <2> SUFFICES ASSUME TypeOK, RowsInv, PlannedInv, NEW r \in audit, NEW s \in audit,
                      r.outcome = "success", s.outcome = "success", r.key[2] = s.key[2]
               PROVE  r = s
    BY DEF OneSuccessRow
  <2>1. r \in Row /\ s \in Row
    BY DEF TypeOK
  <2>2. /\ entries[r.key].attempt = r.attempt /\ entries[r.key].operator = r.operator
        /\ entries[s.key].attempt = s.attempt /\ entries[s.key].operator = s.operator
        /\ entries[r.key].status # "absent" /\ entries[s.key].status # "absent"
    BY <2>1, RowsAndMessages DEF RowsInv, StandsAt
  <2>3. r.key \in Key /\ s.key \in Key
    BY <2>1 DEF Row
  <2>4. r.key = s.key
    BY <2>2, <2>3, OneKey
  <2> QED BY <2>1, <2>2, <2>4 DEF Row
<1>4. Spec => []PlannedInv
  BY PlannedInit, PlannedNext, Typing, PTL DEF Spec
<1> QED BY <1>1, <1>2, <1>3, <1>4, BatchInvariance, Typing, PTL DEF Spec

-----------------------------------------------------------------------------
(* The operator of a batch run *)

LEMMA SparedStep ==
  ASSUME OneProcess, TypeOK, SparedInv, NEW p \in Process, Dispatch(p) \/ Step(p) \/ Fault(p)
  PROVE  SparedInv'
<1> DEFINE Free == \/ pc[p] \in {"acquire", "next", "broadcast", "await", "record", "credit"}
                   \/ pc[p] = "settle" /\ work[p].verdict # "rotate_identity"
           Spared == /\ Free => lease[p].operator \notin benched
                     /\ pc[p] = "bench" => work[p].verdict = "rotate_identity"
<1>1. Spared
  BY DEF SparedInv
<1>2. SUFFICES Spared'
  BY DEF OneProcess, SparedInv
<1>3. ASSUME pc'[p] \notin {"acquire", "next", "broadcast", "await", "record", "bench", "settle",
                            "credit"}
      PROVE  Spared'
  BY <1>3
<1>4. CASE Dispatch(p) \/ Fault(p)
  <2>1. pc'[p] \in {"load", "select", "idle", "release"}
    BY <1>4 DEF TypeOK, Dispatch, Fault, PlanningFails, AwaitThrows, Crash, Settled,
                Unwinds, NextBatch, Goto
  <2> QED BY <1>3, <2>1
<1>5. CASE \/ ReconcileLoad(p) \/ ReconcileEvidence(p)
           \/ \E e \in recon[p].pending : ReconcileUnproven(p, e)
           \/ \E e \in recon[p].pending, r \in recon[p].evidence : ReconcileProven(p, e, r)
           \/ ReconcileDone(p) \/ MarkRunning(p) \/ PlanBatches(p) \/ SelectBatch(p)
           \/ WalkEnds(p) \/ DeferBatch(p)
  <2>1. pc'[p] \in {"evidence", "reconcile", "idle", "start", "plan", "select", "provider",
                    "finalize"}
    <3>1. CASE \/ ReconcileLoad(p) \/ ReconcileEvidence(p)
               \/ \E e \in recon[p].pending : ReconcileUnproven(p, e)
               \/ \E e \in recon[p].pending, r \in recon[p].evidence : ReconcileProven(p, e, r)
      BY <3>1, ReconcilerGoes
    <3>2. CASE \/ ReconcileDone(p) \/ MarkRunning(p) \/ PlanBatches(p) \/ SelectBatch(p)
               \/ WalkEnds(p) \/ DeferBatch(p)
      BY <3>2 DEF TypeOK, ReconcileDone, MarkRunning, PlanBatches, SelectBatch, WalkEnds,
                  DeferBatch, Settled, NextBatch, Goto
    <3> HIDE DEF Free, Spared
    <3> QED BY <1>5, <3>1, <3>2
  <2> QED BY <1>3, <2>1
<1>6. CASE \/ BatchDrained(p) \/ NoteRotation(p) \/ ReleaseRunLock(p) \/ ReadFinal(p)
           \/ CommitFinal(p)
  <2>1. pc'[p] \in {"release", "select", "idle", "finalize", "commit"}
    BY <1>6 DEF TypeOK, BatchDrained, NoteRotation, ReleaseRunLock, ReadFinal, CommitFinal,
                Settled, NextBatch, Goto
  <2> QED BY <1>3, <2>1
<1>7. ASSUME NEW i \in DOMAIN Operators, ChooseProvider(p, i) PROVE Spared'
  <2>1. /\ Operators[i] \notin benched /\ UNCHANGED benched /\ pc'[p] = "acquire"
        /\ lease' = [lease EXCEPT ![p] = [batch |-> walk[p].batch,
                                          operator |-> Operators[i], attempt |-> 0]]
    BY <1>7 DEF TypeOK, ChooseProvider, IsNextProvider, Goto, stateVars
  <2>2. lease'[p].operator = Operators[i]
    BY <2>1 DEF TypeOK
  <2> QED BY <2>1, <2>2
<1>8. CASE AcquireRunLock(p)
  <2>1. CASE runLock # NoLock
    BY <1>3, <1>8, <2>1 DEF TypeOK, AcquireRunLock, Settled, Goto
  <2>2. CASE runLock = NoLock
    <3> DEFINE t == batchAttempts[walk[p].batch] + 1
    <3>1. /\ lease' = [lease EXCEPT ![p].attempt = t] /\ pc'[p] = "next" /\ UNCHANGED benched
          /\ pc[p] = "acquire"
      BY <1>8, <2>2 DEF TypeOK, AcquireRunLock, Goto
    <3> HIDE DEF t
    <3>2. lease'[p].operator = lease[p].operator
      BY <3>1 DEF TypeOK, RunLock
    <3> QED BY <1>1, <3>1, <3>2
  <2> QED BY <2>1, <2>2
<1>9. ASSUME NEW i \in walk[p].queue, HookAndLock(p, i) PROVE Spared'
  <2>1. /\ pc[p] = "next" /\ UNCHANGED <<benched, lease>>
        /\ pc'[p] \in {"release", "record", "broadcast"}
    BY <1>9 DEF TypeOK, HookAndLock, Unwinds, Goto
  <2> QED BY <1>1, <2>1
<1>10. CASE \/ Broadcast(p) \/ BroadcastReturns(p) \/ \E f \in Failures : BroadcastFails(p, f)
  <2>1. /\ Free /\ UNCHANGED <<benched, lease>>
        /\ pc'[p] \in {"await", "record", "release"}
    BY <1>10 DEF TypeOK, Broadcast, BroadcastReturns, BroadcastFails, Unwinds, Goto,
                 stateVars, localVars
  <2> QED BY <1>1, <2>1
<1>11. CASE Record(p)
  BY <1>1, <1>11 DEF TypeOK, Record, Goto, stateVars, localVars
<1>12. CASE BenchOperator(p)
  BY <1>1, <1>12 DEF TypeOK, BenchOperator, Goto, localVars
<1>13. CASE Settle(p)
  <2>1. /\ UNCHANGED <<benched, lease>> /\ pc[p] = "settle"
        /\ pc'[p] \in {"credit", "next"} => work[p].verdict # "rotate_identity"
        /\ pc'[p] \in {"credit", "next", "rotated", "release"}
    BY <1>13 DEF TypeOK, Settle, AfterSettle, Unwinds, Goto
  <2> QED BY <1>1, <2>1
<1>14. CASE CreditOperator(p)
  BY <1>14 DEF TypeOK, CreditOperator, Goto, localVars
<1> HIDE DEF Spared
<1> QED BY <1>4, <1>5, <1>6, <1>7, <1>8, <1>9, <1>10, <1>11, <1>12, <1>13, <1>14 DEF Step

(* With one launcher process, a message never goes out from an operator whose failure
   window is open: what the pool said at selection still holds at the broadcast. *)
THEOREM BenchedIsSpared == OneProcess => (Spec => BenchedNeverSends)
<1> SUFFICES ASSUME OneProcess PROVE Spec => BenchedNeverSends
  OBVIOUS
<1> DEFINE Rule == \A m \in flight' \ flight : m.operator \notin benched
<1>1. Init => SparedInv
  BY DEF Init, SparedInv
<1>2. TypeOK /\ SparedInv /\ [Next]_vars => SparedInv'
  <2> SUFFICES ASSUME TypeOK, SparedInv, [Next]_vars PROVE SparedInv'
    OBVIOUS
  <2>1. CASE Chain \/ Clock \/ UNCHANGED vars
    <3>1. UNCHANGED <<pc, lease, work>> /\ benched' \subseteq benched
      BY <2>1 DEF Chain, Clock, Mint, Drop, ZombieTimeout, CooldownPasses, WindowPasses,
                  vars, stateVars, localVars
    <3> QED BY <3>1 DEF SparedInv
  <2> QED BY <2>1, SparedStep DEF Next
<1>3. SparedInv /\ [Next]_vars => [Rule]_vars
  <2> SUFFICES ASSUME SparedInv, [Next]_vars, NEW m \in flight' \ flight
               PROVE  m.operator \notin benched
    OBVIOUS
  <2>1. CASE Chain \/ Clock \/ UNCHANGED vars
    BY <2>1 DEF Chain, Clock, Mint, Drop, ZombieTimeout, CooldownPasses, WindowPasses,
                vars, chainVars
  <2>2. ASSUME NEW p \in Process, Dispatch(p) \/ Step(p) \/ Fault(p)
        PROVE  m.operator \notin benched
    <3>1. Broadcast(p)
      BY <2>2, HistoryWritten DEF chainVars
    <3> QED BY <3>1 DEF Broadcast, SparedInv, Mine
  <2> QED BY <2>1, <2>2 DEF Next
<1> QED BY <1>1, <1>2, <1>3, Typing, PTL DEF Spec, BenchedNeverSends

-----------------------------------------------------------------------------
(* The refinement of Payout *)

(* Counting the messages of a recipient who has one, or none. *)
LEMMA OneOf ==
  ASSUME NEW r, NEW S, NEW m \in S, m.key[2] = r, \A x \in S : x.key[2] = r => x = m
  PROVE  MessagesTo(r, S) = 1
<1>1. {x \in S : x.key[2] = r} = {m}
  OBVIOUS
<1> QED BY <1>1, FS_Singleton DEF MessagesTo

LEMMA NoneOf ==
  ASSUME NEW r, NEW S, \A x \in S : x.key[2] # r
  PROVE  MessagesTo(r, S) = 0
<1>1. {x \in S : x.key[2] = r} = {}
  OBVIOUS
<1> QED BY <1>1, FS_EmptySet DEF MessagesTo

LEMMA SameOf ==
  ASSUME NEW r, NEW S, NEW T, \A x : x.key[2] = r => (x \in S <=> x \in T)
  PROVE  MessagesTo(r, S) = MessagesTo(r, T)
<1>1. {x \in S : x.key[2] = r} = {x \in T : x.key[2] = r}
  OBVIOUS
<1> QED BY <1>1 DEF MessagesTo

(* The invariant the refinement needs. *)
PayInv == TypeOK /\ CampaignInv /\ PlannedInv /\ MintedInv

(* What an entry of this status declares of its recipient. *)
Told(s) == IF s = "success" THEN "paid" ELSE IF s \in Refused THEN "refused" ELSE "open"

(* A recipient's other keys have no entry: what one entry says is the outcome. *)
LEMMA OutcomeWritten ==
  ASSUME FixedBatches, TypeOK, PlannedInv, NEW k \in Key, k \in PlannedKeys, NEW e,
         entries' = [entries EXCEPT ![k] = e]
  PROVE  /\ k[2] \in Recipient
         /\ DeclaredOutcome(k[2]) = Told(entries[k].status)
         /\ DeclaredOutcome(k[2])' = Told(e.status)
         /\ \A r \in Recipient : r # k[2] => DeclaredOutcome(r)' = DeclaredOutcome(r)
<1>1. k[2] \in Recipient
  BY DEF Key
<1>2. \A l \in Key : l # k => entries'[l] = entries[l]
  BY DEF TypeOK
<1>3. entries'[k] = e
  BY DEF TypeOK
<1>4. ASSUME NEW l \in KeysOf(k[2]), l # k PROVE entries[l].status = "absent"
  <2>1. l \in Key /\ l[2] = k[2]
    BY DEF KeysOf
  <2>2. entries[l].status # "absent" => l \in PlannedKeys
    BY <2>1 DEF PlannedInv
  <2> QED BY <1>4, <2>1, <2>2 DEF FixedBatches, PlannedKeys
<1>5. k \in KeysOf(k[2]) /\ KeysOf(k[2]) \subseteq Key
  BY DEF KeysOf
<1>6. ASSUME NEW E, E \in {entries, entries'}
      PROVE  (IF \E l \in KeysOf(k[2]) : E[l].status = "success" THEN "paid"
              ELSE IF \E l \in KeysOf(k[2]) : E[l].status \in Refused THEN "refused"
              ELSE "open") = Told(E[k].status)
  BY <1>2, <1>4, <1>5, <1>6 DEF Told, Refused
<1>7. /\ DeclaredOutcome(k[2]) = Told(entries[k].status)
      /\ DeclaredOutcome(k[2])' = Told(e.status)
  BY <1>3, <1>6 DEF DeclaredOutcome
<1>8. ASSUME NEW r \in Recipient, r # k[2] PROVE DeclaredOutcome(r)' = DeclaredOutcome(r)
  <2>1. \A l \in KeysOf(r) : entries'[l] = entries[l]
    BY <1>2, <1>8 DEF KeysOf
  <2> QED BY <2>1 DEF DeclaredOutcome, KeysOf
<1> QED BY <1>1, <1>7, <1>8

(* A live message of a planned key's recipient is the one its entry stands at. *)
LEMMA LiveOf ==
  ASSUME FixedBatches, PayInv, NEW k \in Key, k \in PlannedKeys, NEW m \in Live, m.key[2] = k[2]
  PROVE  m = [key |-> k, attempt |-> entries[k].attempt, operator |-> entries[k].operator]
<1>1. m \in Message /\ m.key \in Key
  BY DEF PayInv, TypeOK, Live, Message
<1>2. /\ entries[m.key].attempt = m.attempt /\ entries[m.key].operator = m.operator
      /\ entries[m.key].status # "absent"
  BY DEF PayInv, CampaignInv, LiveIsPending
<1>3. m.key \in PlannedKeys
  BY <1>1, <1>2 DEF PayInv, PlannedInv
<1>4. m.key = k
  BY <1>3 DEF FixedBatches, PlannedKeys
<1> QED BY <1>1, <1>2, <1>4 DEF Message

(* The mapped state: what Payout sees of a campaign. *)
Flying == [r \in Recipient |-> MessagesTo(r, flight)]
Mints == [r \in Recipient |-> MessagesTo(r, minted)]
Outcomes == [r \in Recipient |-> DeclaredOutcome(r)]

Mapped == <<Flying, Mints, Outcomes>>

(* Broadcast is Send: the outcome is open and nothing else of the recipient is live. *)
LEMMA BroadcastSends ==
  ASSUME FixedBatches, PayInv, NEW p \in Process, Broadcast(p)
  PROVE  \E r \in Recipient : Promise!Send(r)
<1> DEFINE m == Mine(p)
           k == work[p].key
           r == k[2]
<1>1. /\ pc[p] = "broadcast" /\ flight' = flight \cup {m} /\ UNCHANGED <<minted, entries>>
  BY DEF Broadcast, stateVars
<1>2. k \in Key /\ r \in Recipient /\ m.key = k
  BY DEF PayInv, TypeOK, Work, Key, Mine
<1>3. SubmittedAs(k, work[p].attempt, lease[p].operator) /\ m \notin Live
  BY <1>1 DEF PayInv, CampaignInv, BatchInv, FreshInv
<1>4. /\ entries[k].status = "submitted"
      /\ m = [key |-> k, attempt |-> entries[k].attempt, operator |-> entries[k].operator]
  BY <1>3 DEF SubmittedAs, Mine
<1>5. k \in PlannedKeys
  BY <1>2, <1>4 DEF PayInv, PlannedInv
<1> HIDE DEF m, k, r
<1>6. \A x \in Live : x.key[2] # r
  BY <1>2, <1>3, <1>4, <1>5, LiveOf DEF r
<1>7. DeclaredOutcome(r) = "open"
  <2>1. \A l \in KeysOf(r) : l = k \/ entries[l].status = "absent"
    BY <1>2, <1>4, OneKey DEF PayInv, KeysOf, r
  <2> QED BY <1>4, <2>1 DEF DeclaredOutcome, Refused
<1>8. MessagesTo(r, flight) = 0 /\ MessagesTo(r, minted) = 0
  BY <1>6, NoneOf DEF Live
<1>9. MessagesTo(r, flight') = 1
  BY <1>1, <1>2, <1>6, OneOf DEF Live, r
<1>10. ASSUME NEW s \in Recipient, s # r PROVE MessagesTo(s, flight') = MessagesTo(s, flight)
  BY <1>1, <1>2, <1>10, SameOf DEF r
<1>11. Flying' = [Flying EXCEPT ![r] = 1]
  BY <1>2, <1>9, <1>10 DEF Flying, MessagesTo
<1>12. UNCHANGED <<Mints, Outcomes>>
  BY <1>1 DEF Mints, Outcomes, MessagesTo, DeclaredOutcome, KeysOf
<1> QED BY <1>2, <1>7, <1>8, <1>11, <1>12
        DEF Promise!Send, Promise!Untouched, Flying, Mints, Outcomes

(* A message that mints or is dropped. *)
LEMMA ChainMoves ==
  ASSUME FixedBatches, PayInv, NEW m \in flight, Mint(m) \/ Drop(m)
  PROVE  \E r \in Recipient : Promise!Lose(r) \/ Promise!MintOnce(r)
<1> DEFINE r == m.key[2]
<1>1. m \in Message /\ r \in Recipient /\ m \in Live
  BY DEF PayInv, TypeOK, Message, Key, Live
<1>2. \A x \in Live : x.key[2] = r => x = m
  BY <1>1, PaidOnce DEF PayInv, CampaignInv, PaidAtMostOnce
<1>3. flight' = flight \ {m} /\ UNCHANGED entries
  BY DEF Mint, Drop, stateVars
<1> HIDE DEF r
<1>4. MessagesTo(r, flight) = 1 /\ MessagesTo(r, flight') = 0
  <2>1. MessagesTo(r, flight) = 1
    BY <1>2, OneOf DEF Live, r
  <2>2. MessagesTo(r, flight') = 0
    BY <1>2, <1>3, NoneOf DEF Live
  <2> QED BY <2>1, <2>2
<1>5. ASSUME NEW s \in Recipient, s # r PROVE MessagesTo(s, flight') = MessagesTo(s, flight)
  BY <1>3, <1>5, SameOf DEF r
<1>6. Flying' = [Flying EXCEPT ![r] = 0] /\ Flying[r] = 1
  BY <1>1, <1>4, <1>5 DEF Flying, MessagesTo
<1>7. UNCHANGED Outcomes
  BY <1>3 DEF Outcomes, DeclaredOutcome, KeysOf
<1>8. CASE Mint(m)
  <2>1. minted' = minted \cup {m}
    BY <1>8 DEF Mint
  <2>2. MessagesTo(r, minted') = 1
    BY <1>2, <2>1, OneOf DEF Live, r
  <2>3. ASSUME NEW s \in Recipient, s # r PROVE MessagesTo(s, minted') = MessagesTo(s, minted)
    BY <2>1, <2>3, SameOf DEF r
  <2>4. Mints' = [Mints EXCEPT ![r] = 1]
    BY <1>1, <2>2, <2>3 DEF Mints, MessagesTo
  <2> QED BY <1>1, <1>6, <1>7, <2>4 DEF Promise!MintOnce, Flying, Mints, Outcomes
<1>9. CASE Drop(m)
  <2>1. UNCHANGED Mints
    BY <1>9 DEF Drop, Mints, MessagesTo
  <2> QED BY <1>1, <1>6, <1>7, <2>1 DEF Promise!Lose, Flying, Mints, Outcomes
<1> QED BY <1>8, <1>9

(* A submitted entry that becomes a success declares the recipient paid, one that is
   closed otherwise declares it refused, and any other change declares nothing. *)
LEMMA EntryDeclares ==
  ASSUME FixedBatches, PayInv, NEW k \in Key, k \in PlannedKeys, NEW e,
         entries' = [entries EXCEPT ![k] = e], UNCHANGED chainVars,
         Told(entries[k].status) = "open",
         e.status = "success" =>
           [key |-> k, attempt |-> entries[k].attempt, operator |-> entries[k].operator]
             \in minted,
         e.status \in Refused =>
           [key |-> k, attempt |-> entries[k].attempt, operator |-> entries[k].operator]
             \notin Live
  PROVE  \/ UNCHANGED Mapped
         \/ \E r \in Recipient : Promise!DeclarePaid(r) \/ Promise!DeclareRefused(r)
<1> DEFINE r == k[2]
           m == [key |-> k, attempt |-> entries[k].attempt, operator |-> entries[k].operator]
<1>1. /\ r \in Recipient /\ DeclaredOutcome(r) = "open" /\ DeclaredOutcome(r)' = Told(e.status)
      /\ \A s \in Recipient : s # r => DeclaredOutcome(s)' = DeclaredOutcome(s)
  BY OutcomeWritten DEF PayInv
<1>2. UNCHANGED <<Flying, Mints>>
  BY DEF Flying, Mints, MessagesTo, chainVars
<1>3. \A x \in Live : x.key[2] = r => x = m
  BY LiveOf
<1> HIDE DEF r
<1>4. Outcomes' = [Outcomes EXCEPT ![r] = Told(e.status)] /\ Outcomes[r] = "open"
  <2> DEFINE O(s) == DeclaredOutcome(s)
  <2>1. Outcomes = [s \in Recipient |-> O(s)] /\ Outcomes' = [s \in Recipient |-> O(s)']
    BY DEF Outcomes
  <2>2. /\ r \in Recipient /\ O(r) = "open" /\ O(r)' = Told(e.status)
        /\ \A s \in Recipient : s # r => O(s)' = O(s)
    BY <1>1
  <2> HIDE DEF O
  <2> QED BY <2>1, <2>2
<1>5. CASE e.status = "success"
  <2>1. Told(e.status) = "paid"
    BY <1>5 DEF Told
  <2>2. MessagesTo(r, minted) = 1
    BY <1>3, <1>5, OneOf DEF Live, r
  <2> QED BY <1>1, <1>2, <1>4, <2>1, <2>2 DEF Promise!DeclarePaid, Flying, Mints, Outcomes
<1>6. CASE e.status \in Refused
  <2>1. Told(e.status) = "refused"
    BY <1>6 DEF Told, Refused
  <2>2. MessagesTo(r, flight) = 0 /\ MessagesTo(r, minted) = 0
    BY <1>3, <1>6, NoneOf DEF Live
  <2> QED BY <1>1, <1>2, <1>4, <2>1, <2>2
          DEF Promise!DeclareRefused, Promise!Untouched, Flying, Mints, Outcomes
<1>7. CASE e.status \notin Refused \cup {"success"}
  <2>1. Told(e.status) = "open"
    BY <1>7 DEF Told
  <2>2. UNCHANGED Outcomes
    BY <1>4, <2>1 DEF Outcomes
  <2> QED BY <1>2, <2>2 DEF Mapped
<1> QED BY <1>5, <1>6, <1>7

(* The recovery and the settlement declare what is true, Hook & Lock declares nothing. *)
LEMMA EntryStepDeclares ==
  ASSUME FixedBatches, PayInv, PlannedInv',
         NEW p \in Process, Dispatch(p) \/ Step(p) \/ Fault(p), UNCHANGED chainVars,
         NEW k \in Key, entries'[k] # entries[k]
  PROVE  \/ UNCHANGED Mapped
         \/ \E r \in Recipient : Promise!DeclarePaid(r) \/ Promise!DeclareRefused(r)
<1> DEFINE m == [key |-> k, attempt |-> entries[k].attempt, operator |-> entries[k].operator]
           Declared == \/ UNCHANGED Mapped
                       \/ \E r \in Recipient : Promise!DeclarePaid(r) \/ Promise!DeclareRefused(r)
<1>1. TypeOK
  BY DEF PayInv
<1>2. ASSUME NEW e, entries' = [entries EXCEPT ![k] = e], e.status # "absent",
             Told(entries[k].status) = "open",
             e.status = "success" => m \in minted, e.status \in Refused => m \notin Live
      PROVE  Declared
  <2>1. entries'[k].status # "absent"
    BY <1>1, <1>2 DEF TypeOK
  <2>2. k \in PlannedKeys
    BY <2>1 DEF PlannedInv, PlannedKeys, ExpectedKeys, HasDuplicates
  <2> QED BY <1>2, <2>2, EntryDeclares
<1>3. ASSUME NEW r \in recon[p].evidence, r.key = k, r.outcome \in Terminal,
             SubmittedAs(k, r.attempt, r.operator),
             entries' = [entries EXCEPT ![k] =
               [status |-> r.outcome, attempt |-> r.attempt, operator |-> r.operator]]
      PROVE  Declared
  <2> DEFINE e == [status |-> r.outcome, attempt |-> r.attempt, operator |-> r.operator]
  <2>1. MessageOf(r) = m /\ entries[k].status = "submitted"
    BY <1>3 DEF SubmittedAs, MessageOf
  <2>2. e.status = "success" => m \in minted
    BY <2>1 DEF PayInv, MintedInv
  <2>3. e.status \in Refused => m \notin Live
    BY <2>1 DEF PayInv, CampaignInv, BatchInv, EvidenceInv, Refused
  <2>4. e.status # "absent" /\ Told(entries[k].status) = "open"
    BY <1>3, <2>1 DEF Terminal, Told, Refused
  <2> HIDE DEF m, Declared
  <2>5. entries' = [entries EXCEPT ![k] = e]
    BY <1>3
  <2> HIDE DEF e
  <2> QED BY <1>2, <2>2, <2>3, <2>4, <2>5
<1>4. ASSUME Eligible(k),
             entries' = [entries EXCEPT ![k] =
               [status |-> "submitted", attempt |-> entries[k].attempt + 1,
                operator |-> lease[p].operator]]
      PROVE  Declared
  <2> DEFINE e == [status |-> "submitted", attempt |-> entries[k].attempt + 1,
                   operator |-> lease[p].operator]
  <2>1. /\ e.status \notin Refused \cup {"success", "absent"}
        /\ Told(entries[k].status) = "open"
    BY <1>4 DEF Eligible, Told, Refused
  <2>2. entries' = [entries EXCEPT ![k] = e]
    BY <1>4
  <2> HIDE DEF e, m, Declared
  <2> QED BY <1>2, <2>1, <2>2
<1>5. ASSUME Settle(p), k = work[p].key,
             SubmittedAs(k, work[p].attempt, lease[p].operator),
             entries' = [entries EXCEPT ![k] =
               [status |-> SettledStatus(work[p].verdict), attempt |-> work[p].attempt,
                operator |-> lease[p].operator]]
      PROVE  Declared
  <2> DEFINE v == work[p].verdict
             e == [status |-> SettledStatus(v), attempt |-> work[p].attempt,
                   operator |-> lease[p].operator]
  <2>1. Mine(p) = m /\ Told(entries[k].status) = "open"
    BY <1>5 DEF SubmittedAs, Mine, Told, Refused
  <2>2. e.status = "success" => m \in minted
    <3>1. SettledStatus(v) = "success" => v = "success"
      BY DEF SettledStatus
    <3> QED BY <1>5, <2>1, <3>1 DEF PayInv, MintedInv, Settle
  <2>3. e.status \in Refused => m \notin Live
    <3>1. SettledStatus(v) \in Refused => v \notin {"success", "hold"}
      BY DEF SettledStatus, Refused
    <3> QED BY <1>5, <2>1, <3>1 DEF PayInv, CampaignInv, DeadInv, Settle
  <2>4. e.status # "absent"
    BY DEF SettledStatus
  <2>5. entries' = [entries EXCEPT ![k] = e]
    BY <1>5
  <2> HIDE DEF e, m, Declared
  <2> QED BY <1>2, <2>1, <2>2, <2>3, <2>4, <2>5
<1> HIDE DEF Declared
<1>6. Declared
  BY <1>1, <1>3, <1>4, <1>5, EntryMoves
<1> QED BY <1>6 DEF Declared

(* Every step of the campaign is a step of Payout or changes nothing it sees. *)
LEMMA PayoutStep ==
  ASSUME FixedBatches, PayInv, PlannedInv', [Next]_vars
  PROVE  [Promise!PayoutNext]_(Promise!payoutVars)
<1> DEFINE Moved == \E r \in Recipient : \/ Promise!Send(r) \/ Promise!Lose(r)
                                         \/ Promise!MintOnce(r) \/ Promise!DeclarePaid(r)
                                         \/ Promise!DeclareRefused(r)
<1>1. ASSUME UNCHANGED <<flight, minted, entries>> PROVE UNCHANGED Mapped
  BY <1>1 DEF Mapped, Flying, Mints, Outcomes, MessagesTo, DeclaredOutcome, KeysOf
<1>2. ASSUME NEW p \in Process, Dispatch(p) \/ Step(p) \/ Fault(p)
      PROVE  Moved \/ UNCHANGED Mapped
  <2>1. CASE Broadcast(p)
    BY <2>1, BroadcastSends
  <2>2. ASSUME UNCHANGED chainVars, NEW k \in Key, entries'[k] # entries[k]
        PROVE  Moved \/ UNCHANGED Mapped
    BY <1>2, <2>2, EntryStepDeclares
  <2>3. CASE UNCHANGED chainVars /\ \A k \in Key : entries'[k] = entries[k]
    <3>1. DOMAIN entries = Key /\ entries = [k \in Key |-> entries[k]]
      BY DEF PayInv, TypeOK
    <3>2. entries' = entries
      <4>1. CASE UNCHANGED entries
        BY <4>1
      <4>2. CASE \E k \in Key : \E e : entries' = [entries EXCEPT ![k] = e]
        BY <2>3, <3>1, <4>2
      <4>3. ASSUME NEW e \in recon[p].pending, NEW r \in recon[p].evidence,
                   ReconcileProven(p, e, r), ~UNCHANGED entries
            PROVE  \E k \in Key : \E x : entries' = [entries EXCEPT ![k] = x]
        <5>1. /\ e.key \in Key
              /\ entries' = [entries EXCEPT ![e.key] =
                   [status |-> r.outcome, attempt |-> e.attempt, operator |-> e.operator]]
          BY <4>3, RecoveryWrites DEF PayInv
        <5> QED BY <5>1
      <4>4. ASSUME NEW i \in walk[p].queue, HookAndLock(p, i), ~UNCHANGED entries
            PROVE  \E k \in Key : \E x : entries' = [entries EXCEPT ![k] = x]
        BY <4>4, HookWrites DEF PayInv
      <4>5. ASSUME Settle(p), ~UNCHANGED entries
            PROVE  \E k \in Key : \E x : entries' = [entries EXCEPT ![k] = x]
        BY <4>5, SettleWrites DEF PayInv
      <4> QED BY <1>2, <4>1, <4>2, <4>3, <4>4, <4>5, EntriesWritten
    <3> QED BY <1>1, <2>3, <3>2 DEF chainVars
  <2> QED BY <1>2, <2>1, <2>2, <2>3, HistoryWritten
<1>3. ASSUME Chain PROVE Moved
  BY <1>3, ChainMoves DEF Chain
<1>4. ASSUME Clock \/ UNCHANGED vars PROVE UNCHANGED Mapped
  BY <1>1, <1>4 DEF Clock, ZombieTimeout, CooldownPasses, WindowPasses, vars, stateVars,
                    chainVars
<1>5. Moved \/ UNCHANGED Mapped
  BY <1>2, <1>3, <1>4 DEF Next
<1> QED BY <1>5 DEF Promise!PayoutNext, Promise!payoutVars, Mapped, Flying, Mints, Outcomes

(* The engine keeps Payout's promise: if the executor tells an uncertain submission apart,
   no call is a dry run and every call cuts the list into the same batches, each recipient
   is minted to at most once, is declared paid only after a mint and refused only when no
   message of theirs minted or still may, for good; through any interleaving of
   processes, crashes, holds, rotations and recoveries. *)
THEOREM CampaignKeepsPromise ==
  TruthfulExecutor /\ LiveOnly /\ FixedBatches => (Spec => ImplementsPayout)
<1> SUFFICES ASSUME TruthfulExecutor, LiveOnly, FixedBatches PROVE Spec => ImplementsPayout
  OBVIOUS
<1>1. Init => Promise!PayoutInit
  <2> SUFFICES ASSUME Init PROVE Promise!PayoutInit
    OBVIOUS
  <2>1. ASSUME NEW r \in Recipient
        PROVE  MessagesTo(r, flight) = 0 /\ MessagesTo(r, minted) = 0
    BY NoneOf DEF Init
  <2>2. ASSUME NEW r \in Recipient PROVE DeclaredOutcome(r) = "open"
    <3>1. \A k \in KeysOf(r) : entries[k].status = "absent"
      BY DEF Init, KeysOf, AbsentEntry
    <3> QED BY <3>1 DEF DeclaredOutcome, Refused
  <2> QED BY <2>1, <2>2 DEF Promise!PayoutInit
<1>2. Spec => []CampaignInv
  BY CampaignSafety
<1>3. Spec => []PlannedInv
  BY PlannedInit, PlannedNext, Typing, PTL DEF Spec
<1>4. Spec => []MintedInv
  BY MintedInvariance
<1>5. TypeOK /\ CampaignInv /\ PlannedInv /\ MintedInv /\ PlannedInv' /\ [Next]_vars
        => [Promise!PayoutNext]_(Promise!payoutVars)
  BY PayoutStep DEF PayInv
<1> QED BY <1>1, <1>2, <1>3, <1>4, <1>5, Typing, PTL
        DEF Spec, ImplementsPayout, Promise!PayoutSpec

-----------------------------------------------------------------------------
(* Attempts and tickets *)

(* An attempt number grows by one, where Hook & Lock submits its key. *)
LEMMA AttemptMoves ==
  ASSUME TypeOK, NEW p \in Process, Dispatch(p) \/ Step(p) \/ Fault(p),
         NEW k \in Key, entries'[k].attempt # entries[k].attempt
  PROVE  \E i \in walk[p].queue : /\ HookAndLock(p, i) /\ k = Place(p, i)
                                  /\ entries'[k].attempt = entries[k].attempt + 1
<1>1. entries'[k] # entries[k]
  OBVIOUS
<1>2. ASSUME NEW r, SubmittedAs(k, r.attempt, r.operator),
             entries' = [entries EXCEPT ![k] =
               [status |-> r.outcome, attempt |-> r.attempt, operator |-> r.operator]]
      PROVE  FALSE
  BY <1>2 DEF SubmittedAs, TypeOK
<1>3. CASE /\ SubmittedAs(k, work[p].attempt, lease[p].operator)
           /\ entries' = [entries EXCEPT ![k] =
                [status |-> SettledStatus(work[p].verdict), attempt |-> work[p].attempt,
                 operator |-> lease[p].operator]]
  BY <1>3 DEF SubmittedAs, TypeOK
<1>4. PICK i \in walk[p].queue : HookAndLock(p, i)
  BY <1>1, <1>2, <1>3, EntryMoves
<1>5. PICK x \in Key, n \in Nat :
        /\ x = Place(p, i) /\ n = entries[x].attempt + 1
        /\ entries' = [entries EXCEPT ![x] =
             [status |-> "submitted", attempt |-> n, operator |-> lease[p].operator]]
  BY <1>1, <1>4, HookWrites DEF Place
<1>6. k = x /\ entries'[k].attempt = n
  BY <1>1, <1>5 DEF TypeOK
<1> QED BY <1>4, <1>5, <1>6

(* A process comes into its batch run with the lock, and serves from its queue. *)
LEMMA BatchRunWalk ==
  ASSUME TypeOK, NEW p \in Process, Dispatch(p) \/ Step(p) \/ Fault(p), pc'[p] \in BatchRun
  PROVE  \/ AcquireRunLock(p) /\ runLock = NoLock
         \/ /\ pc[p] \in BatchRun
            /\ walk'[p].batch = walk[p].batch /\ walk'[p].campaign = walk[p].campaign
            /\ \/ walk'[p].queue = walk[p].queue
               \/ \E i \in walk[p].queue : /\ HookAndLock(p, i)
                                           /\ walk'[p].queue = walk[p].queue \ {i}
<1> USE DEF BatchRun
<1>1. CASE Dispatch(p) \/ Fault(p)
  BY <1>1 DEF TypeOK, Dispatch, Fault, PlanningFails, AwaitThrows, Crash, Settled,
              Unwinds, NextBatch, Goto
<1>2. CASE \/ ReconcileLoad(p) \/ ReconcileEvidence(p)
           \/ \E e \in recon[p].pending : ReconcileUnproven(p, e)
           \/ \E e \in recon[p].pending, r \in recon[p].evidence : ReconcileProven(p, e, r)
           \/ ReconcileDone(p) \/ MarkRunning(p) \/ PlanBatches(p) \/ SelectBatch(p)
           \/ WalkEnds(p) \/ (\E i \in DOMAIN Operators : ChooseProvider(p, i))
           \/ DeferBatch(p)
  <2>1. CASE \/ ReconcileLoad(p) \/ ReconcileEvidence(p)
             \/ \E e \in recon[p].pending : ReconcileUnproven(p, e)
             \/ \E e \in recon[p].pending, r \in recon[p].evidence : ReconcileProven(p, e, r)
    BY <2>1, ReconcilerGoes DEF BatchRun
  <2>2. CASE ReconcileDone(p) \/ MarkRunning(p) \/ PlanBatches(p) \/ SelectBatch(p)
    BY <2>2 DEF TypeOK, ReconcileDone, MarkRunning, PlanBatches, SelectBatch, Settled,
                NextBatch, Goto
  <2>3. CASE \/ WalkEnds(p) \/ (\E i \in DOMAIN Operators : ChooseProvider(p, i))
             \/ DeferBatch(p)
    BY <2>3 DEF TypeOK, WalkEnds, ChooseProvider, DeferBatch, Settled, NextBatch, Goto
  <2> QED BY <1>2, <2>1, <2>2, <2>3
<1>3. CASE AcquireRunLock(p)
  BY <1>3 DEF TypeOK, AcquireRunLock, Settled, Goto
<1>4. CASE BatchDrained(p) \/ ReleaseRunLock(p) \/ ReadFinal(p) \/ CommitFinal(p)
  BY <1>4 DEF TypeOK, BatchDrained, ReleaseRunLock, ReadFinal, CommitFinal, Settled,
              NextBatch, Goto
<1>5. ASSUME NEW i \in walk[p].queue, HookAndLock(p, i)
      PROVE  /\ pc[p] \in BatchRun
             /\ walk'[p].batch = walk[p].batch /\ walk'[p].campaign = walk[p].campaign
             /\ walk'[p].queue = walk[p].queue \ {i}
  BY <1>5 DEF TypeOK, Walk, HookAndLock, Unwinds, Goto
<1>6. CASE \/ Broadcast(p) \/ BroadcastReturns(p) \/ (\E f \in Failures : BroadcastFails(p, f))
           \/ Record(p) \/ BenchOperator(p) \/ Settle(p) \/ NoteRotation(p) \/ CreditOperator(p)
  BY <1>6 DEF Broadcast, BroadcastReturns, BroadcastFails, Record, BenchOperator, Settle,
              NoteRotation, CreditOperator, localVars
<1> QED BY <1>1, <1>2, <1>3, <1>4, <1>5, <1>6 DEF Step

(* Only an acquisition issues a ticket. *)
LEMMA TicketsIssued ==
  ASSUME TypeOK, NEW p \in Process, Dispatch(p) \/ Step(p) \/ Fault(p)
  PROVE  \/ UNCHANGED batchAttempts
         \/ /\ AcquireRunLock(p) /\ walk[p].batch \in Batch
            /\ batchAttempts' = [batchAttempts EXCEPT ![walk[p].batch] =
                                   batchAttempts[walk[p].batch] + 1]
<1>1. CASE Dispatch(p) \/ Fault(p)
  BY <1>1 DEF Dispatch, Fault, PlanningFails, AwaitThrows, Crash, stateVars
<1>2. CASE AcquireRunLock(p)
  BY <1>2 DEF AcquireRunLock, TypeOK
<1>3. CASE Step(p)
  BY <1>2, <1>3 DEF Step, ReconcileLoad, ReconcileEvidence, ReconcileUnproven, ReconcileProven,
     ReconcileDone, MarkRunning, PlanBatches, SelectBatch, WalkEnds, ChooseProvider, DeferBatch,
     BatchDrained, HookAndLock, Broadcast, BroadcastReturns, BroadcastFails, Record,
     BenchOperator, Settle, NoteRotation, CreditOperator, ReleaseRunLock, ReadFinal,
     CommitFinal, stateVars
<1> QED BY <1>1, <1>3

(* The positions of a list without duplicates have different keys. *)
LEMMA PlacesDiffer ==
  ASSUME TypeOK, NEW p \in Process, ~HasDuplicates(walk[p].campaign),
         NEW i \in walk[p].queue, NEW j \in walk[p].queue, Place(p, i) = Place(p, j)
  PROVE  i = j
<1>1. i \in Positions(walk[p].campaign) /\ j \in Positions(walk[p].campaign)
  BY DEF TypeOK, Slice
<1> QED BY <1>1 DEF HasDuplicates, Place

LEMMA PlaceIsKey ==
  ASSUME TypeOK, NEW p \in Process, NEW i \in walk[p].queue, walk[p].batch \in Batch
  PROVE  /\ Place(p, i) \in Key
         /\ walk[p].campaign \in Campaigns
         /\ Place(p, i) \in ExpectedKeys(walk[p].campaign)
         /\ Place(p, i)[1] = walk[p].batch
<1>1. walk[p].campaign \in Campaigns /\ i \in Slice(walk[p].campaign, walk[p].batch)
  BY DEF TypeOK, Walk
<1>2. walk[p].campaign.recipients[i] \in Recipient
  BY <1>1, CampaignAssumption DEF Slice, Positions
<1>3. Place(p, i) \in Key
  BY <1>2 DEF Place, Key
<1> QED BY <1>1, <1>3 DEF Place, ExpectedKeys

LEMMA TicketStep ==
  ASSUME TypeOK, RunLockInv, PlannedInv, TicketInv, NEW p \in Process,
         Dispatch(p) \/ Step(p) \/ Fault(p)
  PROVE  TicketInv'
<1>t. /\ \A k \in Key : k[1] \in Batch /\ entries[k].attempt \in Nat
      /\ \A b \in Batch : batchAttempts[b] \in Nat
  BY DEF TypeOK, Entry, Key
<1>1. \A b \in Batch : batchAttempts'[b] \in Nat /\ batchAttempts[b] <= batchAttempts'[b]
  BY <1>t, TicketsIssued DEF TypeOK
<1>b. \A q \in Process : pc[q] \in BatchRun => walk[q].batch \in Batch
  BY DEF TypeOK
<1>2. ASSUME NEW k \in Key PROVE entries'[k].attempt <= batchAttempts'[k[1]]
  <2>1. CASE entries'[k].attempt = entries[k].attempt
    BY <1>t, <1>1, <2>1 DEF TicketInv
  <2>2. CASE entries'[k].attempt # entries[k].attempt
    <3>1. PICK i \in walk[p].queue : /\ HookAndLock(p, i) /\ k = Place(p, i)
                                     /\ entries'[k].attempt = entries[k].attempt + 1
      BY <2>2, AttemptMoves
    <3>2. entries[k].attempt < batchAttempts[k[1]]
      BY <3>1 DEF TicketInv, HookAndLock, BatchRun, Place
    <3> QED BY <1>t, <1>1, <3>1, <3>2
  <2> QED BY <2>1, <2>2
<1>3. ASSUME NEW q \in Process, pc'[q] \in BatchRun, NEW i \in walk'[q].queue
      PROVE  entries'[Place(q, i)'].attempt < batchAttempts'[walk'[q].batch]
  <2>1. CASE q # p
    <3>1. /\ pc[q] \in BatchRun /\ walk'[q] = walk[q] /\ i \in walk[q].queue
          /\ Place(q, i)' = Place(q, i)
      BY <1>3, <2>1, OthersUntouched DEF Place
    <3>2. Place(q, i) \in Key /\ walk[q].batch \in Batch
      BY <1>b, <3>1, PlaceIsKey
    <3>3. entries'[Place(q, i)].attempt = entries[Place(q, i)].attempt
      <4>1. \A j \in walk[p].queue : ~HookAndLock(p, j)
        BY <2>1, <3>1 DEF RunLockInv, InBatchRun, HookAndLock, BatchRun
      <4> QED BY <3>2, <4>1, AttemptMoves
    <3>4. entries[Place(q, i)].attempt < batchAttempts[walk[q].batch]
      BY <3>1 DEF TicketInv
    <3> QED BY <1>t, <1>1, <3>1, <3>2, <3>3, <3>4
  <2>2. CASE q = p /\ AcquireRunLock(p) /\ runLock = NoLock
    <3>1. /\ UNCHANGED <<walk, entries>> /\ walk[p].batch \in Batch
          /\ batchAttempts'[walk[p].batch] = batchAttempts[walk[p].batch] + 1
      BY <2>2 DEF AcquireRunLock, TypeOK
    <3>2. Place(p, i)' = Place(p, i) /\ i \in walk[p].queue
      BY <1>3, <2>2, <3>1 DEF Place
    <3>3. Place(p, i) \in Key /\ Place(p, i)[1] = walk[p].batch
      BY <3>1, <3>2, PlaceIsKey
    <3>4. entries[Place(p, i)].attempt <= batchAttempts[walk[p].batch]
      BY <3>3 DEF TicketInv
    <3> QED BY <1>t, <2>2, <3>1, <3>2, <3>3, <3>4
  <2>3. CASE /\ q = p /\ pc[p] \in BatchRun
             /\ walk'[p].batch = walk[p].batch /\ walk'[p].campaign = walk[p].campaign
             /\ \/ walk'[p].queue = walk[p].queue
                \/ \E j \in walk[p].queue : /\ HookAndLock(p, j)
                                            /\ walk'[p].queue = walk[p].queue \ {j}
    <3>1. i \in walk[p].queue /\ Place(p, i)' = Place(p, i) /\ ~HasDuplicates(walk[p].campaign)
      BY <1>3, <2>3 DEF Place, PlannedInv, Walking
    <3>2. Place(p, i) \in Key /\ walk[p].batch \in Batch
      BY <1>b, <2>3, <3>1, PlaceIsKey
    <3>3. entries'[Place(p, i)].attempt = entries[Place(p, i)].attempt
      <4>1. SUFFICES ASSUME entries'[Place(p, i)].attempt # entries[Place(p, i)].attempt
                     PROVE  FALSE
        OBVIOUS
      <4>2. PICK j \in walk[p].queue : HookAndLock(p, j) /\ Place(p, i) = Place(p, j)
        BY <3>2, <4>1, AttemptMoves
      <4>3. walk'[p].queue = walk[p].queue \ {j}
        <5>1. ~Unwinds(p)
          BY <1>3, <2>3 DEF Unwinds, Goto, TypeOK, BatchRun
        <5> QED BY <4>2, <5>1 DEF HookAndLock, TypeOK, Walk
      <4> QED BY <1>3, <2>3, <3>1, <4>2, <4>3, PlacesDiffer
    <3>4. entries[Place(p, i)].attempt < batchAttempts[walk[p].batch]
      BY <2>3, <3>1 DEF TicketInv
    <3> QED BY <1>t, <1>1, <2>3, <3>1, <3>2, <3>3, <3>4
  <2> QED BY <1>3, <2>1, <2>2, <2>3, BatchRunWalk
<1> QED BY <1>2, <1>3 DEF TicketInv, Place

-----------------------------------------------------------------------------
(* The run lock names a batch of the plan *)

(* Only the walk leads to the choice of a provider, and only that to an acquisition. *)
LEMMA LockFollowsWalk ==
  ASSUME TypeOK, NEW p \in Process, Dispatch(p) \/ Step(p) \/ Fault(p),
         pc'[p] \in {"provider", "acquire"}
  PROVE  \/ SelectBatch(p) /\ pc'[p] = "provider"
         \/ (\E i \in DOMAIN Operators : ChooseProvider(p, i)) /\ pc'[p] = "acquire"
<1>1. CASE Dispatch(p) \/ Fault(p)
  BY <1>1 DEF TypeOK, Dispatch, Fault, PlanningFails, AwaitThrows, Crash, Settled,
              Unwinds, NextBatch, Goto
<1>2. CASE \/ ReconcileLoad(p) \/ ReconcileEvidence(p)
           \/ \E e \in recon[p].pending : ReconcileUnproven(p, e)
           \/ \E e \in recon[p].pending, r \in recon[p].evidence : ReconcileProven(p, e, r)
           \/ ReconcileDone(p) \/ MarkRunning(p) \/ PlanBatches(p)
           \/ WalkEnds(p) \/ DeferBatch(p) \/ AcquireRunLock(p)
  BY <1>2 DEF TypeOK, ReconcileLoad, ReconcileEvidence, ReconcileUnproven, ReconcileProven,
              ReconcileDone, MarkRunning, PlanBatches, WalkEnds, DeferBatch, AcquireRunLock,
              Settled, NextBatch, Goto
<1>3. CASE SelectBatch(p)
  BY <1>3 DEF TypeOK, SelectBatch, NextBatch, Goto
<1>4. CASE \E i \in DOMAIN Operators : ChooseProvider(p, i)
  BY <1>4 DEF TypeOK, ChooseProvider, Goto
<1>5. CASE \/ BatchDrained(p) \/ NoteRotation(p) \/ CreditOperator(p) \/ ReleaseRunLock(p)
           \/ ReadFinal(p) \/ CommitFinal(p) \/ Settle(p) \/ Broadcast(p)
           \/ Record(p) \/ BenchOperator(p)
  BY <1>5 DEF TypeOK, BatchDrained, NoteRotation, CreditOperator, ReleaseRunLock, ReadFinal,
              CommitFinal, Settle, AfterSettle, Broadcast, Record, BenchOperator, Settled,
              Unwinds, NextBatch, Goto
<1>6. CASE \/ (\E i \in walk[p].queue : HookAndLock(p, i)) \/ BroadcastReturns(p)
           \/ \E f \in Failures : BroadcastFails(p, f)
  BY <1>6 DEF TypeOK, HookAndLock, BroadcastReturns, BroadcastFails, Unwinds, Goto
<1> QED BY <1>1, <1>2, <1>3, <1>4, <1>5, <1>6 DEF Step

LEMMA LockedStep ==
  ASSUME TypeOK, PlannedInv, LockedInv, NEW p \in Process, Dispatch(p) \/ Step(p) \/ Fault(p)
  PROVE  LockedInv'
<1>1. ASSUME NEW q \in Process, pc'[q] \in {"provider", "acquire"}
      PROVE  /\ Slice(walk'[q].campaign, walk'[q].batch) # {}
             /\ pc'[q] = "acquire" => lease'[q].batch = walk'[q].batch
  <2>1. CASE q # p
    BY <1>1, <2>1, OthersUntouched DEF LockedInv
  <2>2. CASE q = p /\ SelectBatch(p) /\ pc'[p] = "provider"
    <3> DEFINE eligible == EligiblePositions(walk[p].campaign, walk[p].batch)
    <3>1. eligible # {} /\ walk' = [walk EXCEPT ![p].queue = eligible]
      BY <2>2 DEF SelectBatch, NextBatch, Goto, TypeOK
    <3>2. walk'[p].campaign = walk[p].campaign /\ walk'[p].batch = walk[p].batch
      BY <3>1 DEF TypeOK, Walk
    <3> QED BY <2>2, <3>1, <3>2 DEF EligiblePositions
  <2>3. CASE q = p /\ pc'[p] = "acquire" /\ \E i \in DOMAIN Operators : ChooseProvider(p, i)
    <3>1. PICK i \in DOMAIN Operators : ChooseProvider(p, i)
      BY <2>3
    <3>2. /\ walk'[p].campaign = walk[p].campaign /\ walk'[p].batch = walk[p].batch
          /\ pc[p] = "provider"
      BY <3>1 DEF ChooseProvider, TypeOK, Walk
    <3>3. lease'[p].batch = walk[p].batch
      BY <3>1 DEF ChooseProvider, TypeOK
    <3> QED BY <2>3, <3>2, <3>3 DEF LockedInv
  <2> QED BY <1>1, <2>1, <2>2, <2>3, LockFollowsWalk
<1>2. ASSUME runLock' # NoLock PROVE \E k \in PlannedKeys : k[1] = runLock'.batch
  <2>1. CASE runLock' = runLock
    BY <1>2, <2>1 DEF LockedInv
  <2>2. CASE AcquireRunLock(p) /\ runLock' # runLock
    <3> DEFINE c == walk[p].campaign
               b == walk[p].batch
    <3>1. /\ pc[p] = "acquire" /\ b \in Batch /\ lease[p] \in RunLock /\ c \in Campaigns
          /\ runLock' = [lease[p] EXCEPT !.attempt = batchAttempts[b] + 1]
      BY <2>2 DEF AcquireRunLock, TypeOK, Walk
    <3>2. runLock'.batch = b
      BY <3>1 DEF LockedInv, RunLock
    <3>3. PICK i \in Positions(c) : i \in Slice(c, b)
      BY <3>1 DEF LockedInv, Slice
    <3>4. c.recipients[i] \in Recipient
      BY <3>1, <3>3, CampaignAssumption DEF Positions
    <3>5. ~HasDuplicates(c)
      BY <3>1 DEF PlannedInv, Walking
    <3> DEFINE k == <<b, c.recipients[i]>>
    <3>6. k \in Key /\ k[1] = b /\ k[2] = c.recipients[i]
      BY <3>1, <3>4 DEF Key
    <3>7. k \in ExpectedKeys(c)
      BY <3>3, <3>6 DEF ExpectedKeys
    <3>8. k \in PlannedKeys
      BY <3>1, <3>5, <3>7 DEF PlannedKeys
    <3> QED BY <3>2, <3>6, <3>8
  <2>3. CASE ~AcquireRunLock(p) /\ runLock' # runLock
    BY <1>2, <2>3 DEF Dispatch, Step, Fault, PlanningFails, AwaitThrows, Crash, stateVars,
       ReconcileLoad, ReconcileEvidence, ReconcileUnproven, ReconcileProven,
       ReconcileDone, MarkRunning, PlanBatches, SelectBatch, WalkEnds, ChooseProvider, DeferBatch,
       BatchDrained, HookAndLock, Broadcast, BroadcastReturns, BroadcastFails, Record,
       BenchOperator, Settle, NoteRotation, CreditOperator, ReleaseRunLock, ReadFinal,
       CommitFinal
  <2> QED BY <2>1, <2>2, <2>3
<1> QED BY <1>1, <1>2 DEF LockedInv, Slice, Positions, PlannedKeys, ExpectedKeys, HasDuplicates

-----------------------------------------------------------------------------
(* The first call *)

(* The loop moves on: every row is of a batch behind it. *)
LEMMA NextBatchServed ==
  ASSUME TypeOK, NEW p \in Process, ServedInv(p), NextBatch(p), UNCHANGED audit,
         pc[p] \in {"select", "provider", "acquire", "release"}
  PROVE  ServedInv(p)'
<1>1. pc'[p] = "select" /\ walk'[p].batch = walk[p].batch + 1
  BY DEF NextBatch, Goto, TypeOK, Walk
<1>2. \A r \in audit : r.key[1] \in Int
  BY DEF TypeOK, Row, Key, Batch
<1>3. walk[p].batch \in Nat
  BY DEF TypeOK, Walk
<1>4. \A r \in audit : r.key[1] <= walk[p].batch
  BY <1>2, <1>3 DEF ServedInv
<1>5. \A r \in audit' : r.key[1] < walk'[p].batch
  BY <1>1, <1>2, <1>3, <1>4
<1> QED BY <1>1, <1>5 DEF ServedInv, BatchRun

(* A step of a batch run that leaves queue and rows alone. *)
LEMMA RunServed ==
  ASSUME TypeOK, NEW p \in Process, ServedInv(p), pc[p] \in BatchRun,
         pc'[p] \in BatchRun \cup {"release"}, UNCHANGED <<audit, walk>>,
         pc'[p] \in {"broadcast", "await", "record"} =>
           /\ pc[p] \in {"broadcast", "await", "record"}
           /\ work'[p].key = work[p].key,
         pc'[p] \in {"bench", "settle"} =>
           pc[p] \in {"bench", "settle"} /\ UNCHANGED <<work, lease>>
  PROVE  ServedInv(p)'
<1>1. Place(p, 0)' = Place(p, 0) /\ \A i : Place(p, i)' = Place(p, i)
  BY DEF Place
<1>2. pc'[p] \notin {"load", "evidence", "reconcile", "start", "plan", "select",
                     "provider", "acquire"}
  BY DEF BatchRun
<1>3. pc'[p] \in {"bench", "settle"} =>
        RowOf(Mine(p), RowOutcome(work[p].verdict = "success"))' =
          RowOf(Mine(p), RowOutcome(work[p].verdict = "success"))
  BY DEF RowOf, Mine, RowOutcome
<1>4. pc'[p] \in {"bench", "settle"} =>
        RowOf(Mine(p), RowOutcome(work[p].verdict = "success"))' \in audit'
  BY <1>3 DEF ServedInv
<1>5. \A r \in audit' : r.key[1] <= walk'[p].batch
  BY DEF ServedInv
<1>6. pc'[p] \in BatchRun => \A i \in walk'[p].queue, r \in audit' : r.key # Place(p, i)'
  BY DEF ServedInv, Place
<1>7. pc'[p] \in {"broadcast", "await", "record"} =>
        /\ work'[p].key \in PlannedKeys /\ work'[p].key[1] = walk'[p].batch
        /\ \A i \in walk'[p].queue : work'[p].key # Place(p, i)'
        /\ \A r \in audit' : r.key # work'[p].key
  BY DEF ServedInv, Place
<1> QED BY <1>2, <1>4, <1>5, <1>6, <1>7
        DEF ServedInv, Place, PlannedKeys, ExpectedKeys, HasDuplicates, Slice, Positions

LEMMA AcquireServed ==
  ASSUME TypeOK, NEW p \in Process, ServedInv(p), AcquireRunLock(p)
  PROVE  ServedInv(p)'
<1>1. CASE Settled(p)
  BY <1>1 DEF ServedInv, Settled, Goto, TypeOK, BatchRun
<1>2. CASE Goto(p, "next") /\ UNCHANGED walk
  <2>1. pc[p] = "acquire" /\ pc'[p] = "next" /\ UNCHANGED <<walk, audit>>
    BY <1>2 DEF AcquireRunLock, Goto, TypeOK
  <2>2. \A r \in audit : r.key[1] < walk[p].batch
    BY <2>1 DEF ServedInv
  <2>3. walk[p].batch \in Int /\ \A r \in audit : r.key[1] \in Int
    BY DEF TypeOK, Walk, Row, Key, Batch
  <2>4. \A r \in audit : r.key[1] <= walk[p].batch /\ \A i : r.key # Place(p, i)
    BY <2>2, <2>3 DEF Place
  <2> QED BY <2>1, <2>4 DEF ServedInv, Place, BatchRun
<1> QED BY <1>1, <1>2 DEF AcquireRunLock

(* Hook & Lock takes a key out of the queue that has no row yet. *)
LEMMA HookServed ==
  ASSUME TypeOK, PlannedInv, NEW p \in Process, ServedInv(p),
         NEW i \in walk[p].queue, HookAndLock(p, i)
  PROVE  ServedInv(p)'
<1>1. pc[p] = "next" /\ UNCHANGED <<audit, lease>>
  BY DEF HookAndLock
<1>2. CASE Unwinds(p)
  <2>1. pc'[p] = "release" /\ UNCHANGED walk
    BY <1>2 DEF HookAndLock, Unwinds, Goto, TypeOK
  <2> QED BY <1>1, <1>2, <2>1, RunServed DEF BatchRun
<1>3. CASE ~Unwinds(p)
  <2>1. PICK k \in Key, v \in {"success", "none"} :
          /\ k = Place(p, i)
          /\ work' = [work EXCEPT ![p] =
               [key |-> k, attempt |-> entries[k].attempt + 1, verdict |-> v]]
          /\ walk' = [walk EXCEPT ![p].queue = @ \ {i}]
          /\ pc'[p] \in {"record", "broadcast"}
    <3>1. Place(p, i) \in Key
      BY <1>1, QueuedKey DEF Place, BatchRun
    <3> QED BY <1>3, <3>1 DEF HookAndLock, Place, Goto, TypeOK
  <2>2. work'[p].key = k
    BY <2>1 DEF TypeOK
  <2>3. /\ walk'[p].queue = walk[p].queue \ {i}
        /\ walk'[p].batch = walk[p].batch /\ walk'[p].campaign = walk[p].campaign
    BY <2>1 DEF TypeOK, Walk
  <2>4. \A j : Place(p, j)' = Place(p, j)
    BY <2>3 DEF Place
  <2>5. ~HasDuplicates(walk[p].campaign) /\ walk[p].batch \in Batch
    BY <1>1 DEF PlannedInv, Walking, BatchRun, TypeOK
  <2>6. k \in PlannedKeys /\ k[1] = walk[p].batch
    BY <2>1, <2>5, PlaceIsKey DEF PlannedKeys
  <2>7. \A j \in walk'[p].queue : k # Place(p, j)
    BY <2>1, <2>3, <2>5, PlacesDiffer
  <2>8. /\ \A r \in audit : r.key[1] <= walk[p].batch /\ r.key # k
        /\ \A j \in walk[p].queue, r \in audit : r.key # Place(p, j)
    BY <1>1, <2>1 DEF ServedInv, BatchRun
  <2>9. work'[p].key \in PlannedKeys' /\ work'[p].key[1] = walk'[p].batch
    BY <2>2, <2>3, <2>6 DEF PlannedKeys, ExpectedKeys, HasDuplicates, Slice, Positions
  <2>10. /\ \A r \in audit' : r.key[1] <= walk'[p].batch /\ r.key # work'[p].key
         /\ \A j \in walk'[p].queue : work'[p].key # Place(p, j)'
    BY <1>1, <2>2, <2>3, <2>4, <2>7, <2>8
  <2>11. \A j \in walk'[p].queue, r \in audit' : r.key # Place(p, j)'
    BY <1>1, <2>3, <2>4, <2>8
  <2> QED BY <2>1, <2>9, <2>10, <2>11 DEF ServedInv, BatchRun
<1> QED BY <1>2, <1>3

LEMMA RecordServed ==
  ASSUME TypeOK, NEW p \in Process, ServedInv(p), Record(p)
  PROVE  ServedInv(p)'
<1> DEFINE row == RowOf(Mine(p), RowOutcome(work[p].verdict = "success"))
<1>1. /\ pc[p] = "record" /\ pc'[p] \in {"bench", "settle"}
      /\ audit' = audit \cup {row} /\ UNCHANGED <<walk, work, lease>>
  BY DEF Record, RowOutcome, localVars, Goto, TypeOK
<1>2. row.key = work[p].key
  BY DEF RowOf, Mine
<1>3. row' = row
  BY <1>1 DEF RowOf, Mine, RowOutcome
<1> HIDE DEF row
<1>4. walk[p].batch \in Int
  BY DEF TypeOK, Walk
<1>5. /\ \A r \in audit : r.key[1] <= walk[p].batch
      /\ row.key[1] <= walk[p].batch
  BY <1>1, <1>2, <1>4 DEF ServedInv, BatchRun
<1>6. \A i \in walk[p].queue, r \in audit' : r.key # Place(p, i)
  BY <1>1, <1>2 DEF ServedInv, BatchRun
<1>7. \A i : Place(p, i)' = Place(p, i)
  BY <1>1 DEF Place
<1>8. row' \in audit'
  BY <1>1, <1>3
<1> QED BY <1>1, <1>5, <1>6, <1>7, <1>8 DEF ServedInv, Place, BatchRun, row

(* The reconciliation of a first call finds nothing to visit. *)
LEMMA ReconcileServed ==
  ASSUME TypeOK, NEW p \in Process, ServedInv(p), recon[p].pending = {},
         \/ ReconcileLoad(p) \/ ReconcileEvidence(p)
         \/ ReconcileDone(p) \/ MarkRunning(p) \/ PlanBatches(p)
  PROVE  ServedInv(p)' /\ recon'[p].pending = {}
<1>1. UNCHANGED <<audit, entries>>
  BY DEF ReconcileLoad, ReconcileEvidence, ReconcileDone, MarkRunning, PlanBatches, stateVars
<1>2. CASE Settled(p)
  BY <1>2 DEF ServedInv, Settled, Goto, TypeOK, BatchRun, NoRecon
<1>3. CASE ~Settled(p)
  <2>1. Untouched /\ Untouched'
    BY <1>1 DEF Untouched, ServedInv, ReconcileLoad, ReconcileEvidence, ReconcileDone,
                MarkRunning, PlanBatches
  <2>2. pc'[p] \in {"evidence", "reconcile", "start", "plan", "select"}
    BY <1>3 DEF ReconcileLoad, ReconcileEvidence, ReconcileDone, MarkRunning, PlanBatches,
                Goto, TypeOK
  <2>3. recon'[p].pending = {}
    <3>1. CASE ReconcileLoad(p)
      <4>1. \A k \in Key : entries[k].status # "submitted"
        BY <2>1 DEF Untouched
      <4> QED BY <3>1, <4>1 DEF ReconcileLoad, TypeOK, Reconciliation
    <3>2. CASE ReconcileEvidence(p)
      BY <1>3, <3>2 DEF ReconcileEvidence, TypeOK, Reconciliation
    <3>3. CASE ReconcileDone(p) \/ MarkRunning(p) \/ PlanBatches(p)
      BY <1>3, <3>3 DEF ReconcileDone, MarkRunning, PlanBatches, TypeOK, NoRecon, localVars
    <3> QED BY <3>1, <3>2, <3>3
  <2> QED BY <2>1, <2>2, <2>3 DEF ServedInv, Untouched, BatchRun
<1> QED BY <1>2, <1>3

LEMMA WalkServed ==
  ASSUME TypeOK, NEW p \in Process, ServedInv(p),
         \/ SelectBatch(p) \/ WalkEnds(p) \/ (\E i \in DOMAIN Operators : ChooseProvider(p, i))
         \/ DeferBatch(p) \/ PlanningFails(p)
  PROVE  ServedInv(p)'
<1>1. /\ UNCHANGED audit /\ pc[p] \in {"select", "provider", "acquire"}
  BY DEF SelectBatch, WalkEnds, ChooseProvider, DeferBatch, PlanningFails
<1>2. CASE NextBatch(p)
  BY <1>1, <1>2, NextBatchServed
<1>3. CASE ~NextBatch(p)
  <2>1. /\ pc'[p] \in {"provider", "acquire", "finalize"}
        /\ walk'[p].batch = walk[p].batch
    BY <1>3 DEF SelectBatch, WalkEnds, ChooseProvider, DeferBatch, PlanningFails, Goto,
                TypeOK, Walk, localVars
  <2>2. \A r \in audit' : r.key[1] < walk'[p].batch
    BY <1>1, <2>1 DEF ServedInv
  <2> QED BY <2>1, <2>2 DEF ServedInv, BatchRun
<1> QED BY <1>2, <1>3

LEMMA ServedStep ==
  ASSUME TypeOK, PlannedInv, NEW p \in Process, ServedInv(p), recon[p].pending = {},
         Step(p) \/ Fault(p)
  PROVE  ServedInv(p)' /\ recon'[p].pending = {}
<1>1. ASSUME Settled(p) PROVE ServedInv(p)' /\ recon'[p].pending = {}
  BY <1>1 DEF ServedInv, Settled, Goto, TypeOK, BatchRun, NoRecon
<1>2. CASE \/ ReconcileLoad(p) \/ ReconcileEvidence(p) \/ ReconcileDone(p) \/ MarkRunning(p)
           \/ PlanBatches(p)
  BY <1>2, ReconcileServed
<1>3. CASE \/ SelectBatch(p) \/ WalkEnds(p)
           \/ (\E i \in DOMAIN Operators : ChooseProvider(p, i))
           \/ DeferBatch(p) \/ PlanningFails(p)
  <2>1. UNCHANGED recon
    BY <1>3 DEF SelectBatch, WalkEnds, ChooseProvider, DeferBatch, PlanningFails, localVars
  <2> QED BY <1>3, <2>1, WalkServed
<1>4. CASE AcquireRunLock(p)
  BY <1>1, <1>4, AcquireServed DEF AcquireRunLock
<1>5. CASE \E i \in walk[p].queue : HookAndLock(p, i)
  BY <1>5, HookServed DEF HookAndLock
<1>6. CASE Record(p)
  BY <1>6, RecordServed DEF Record, localVars
<1>7. CASE \/ BatchDrained(p) \/ Broadcast(p) \/ BenchOperator(p) \/ NoteRotation(p)
           \/ CreditOperator(p)
  <2>1. /\ UNCHANGED <<audit, localVars>> /\ pc[p] \in BatchRun
        /\ pc'[p] \in {"release", "next", "await", "settle"}
        /\ pc'[p] = "await" => pc[p] = "broadcast"
        /\ pc'[p] = "settle" => pc[p] = "bench"
    BY <1>7 DEF BatchDrained, Broadcast, BenchOperator, NoteRotation, CreditOperator,
                BatchRun, Goto, TypeOK
  <2> QED BY <2>1, RunServed DEF localVars, BatchRun
<1>8. CASE BroadcastReturns(p) \/ \E f \in Failures : BroadcastFails(p, f)
  <2>1. /\ UNCHANGED <<audit, walk, recon>> /\ pc[p] \in {"broadcast", "await"}
        /\ pc'[p] \in {"release", "record"} /\ work'[p].key = work[p].key
    BY <1>8 DEF BroadcastReturns, BroadcastFails, Unwinds, Goto, TypeOK, Work
  <2> QED BY <2>1, RunServed DEF BatchRun
<1>9. CASE Settle(p)
  <2>1. /\ UNCHANGED <<audit, walk, recon>> /\ pc[p] = "settle"
        /\ pc'[p] \in {"release", "next", "rotated", "credit"}
    BY <1>9 DEF Settle, AfterSettle, Unwinds, Goto, TypeOK
  <2> QED BY <2>1, RunServed DEF BatchRun
<1>10. CASE ReleaseRunLock(p)
  <2>1. CASE NextBatch(p) /\ UNCHANGED recon
    BY <1>10, <2>1, NextBatchServed DEF ReleaseRunLock
  <2>2. CASE Goto(p, "finalize") /\ UNCHANGED localVars
    BY <2>2 DEF ServedInv, Goto, TypeOK, BatchRun, localVars
  <2> QED BY <1>1, <1>10, <2>1, <2>2 DEF ReleaseRunLock
<1>11. CASE ReadFinal(p) \/ CommitFinal(p)
  <2>1. pc'[p] \in {"commit", "idle"} /\ (Settled(p) \/ UNCHANGED recon)
    BY <1>11 DEF ReadFinal, CommitFinal, Settled, Goto, TypeOK
  <2> QED BY <1>1, <2>1 DEF ServedInv, BatchRun
<1>12. CASE AwaitThrows(p)
  <2>1. CASE Unwinds(p) /\ UNCHANGED <<recon, walk, lease>>
    <3>1. pc[p] \in BatchRun /\ pc'[p] = "release" /\ UNCHANGED <<audit, walk, recon>>
      <4>1. pc'[p] = "release" /\ ~Settled(p)
        BY <2>1 DEF Unwinds, Settled, Goto, TypeOK
      <4> QED BY <1>12, <2>1, <4>1 DEF AwaitThrows
    <3> QED BY <3>1, RunServed DEF BatchRun
  <2> QED BY <1>1, <1>12, <2>1 DEF AwaitThrows
<1>13. CASE Crash(p)
  BY <1>1, <1>13 DEF Crash
<1>14. CASE \/ \E e \in recon[p].pending : ReconcileUnproven(p, e)
            \/ \E e \in recon[p].pending, r \in recon[p].evidence : ReconcileProven(p, e, r)
  BY <1>14
<1> QED BY <1>2, <1>3, <1>4, <1>5, <1>6, <1>7, <1>8, <1>9, <1>10, <1>11, <1>12, <1>13, <1>14
        DEF Step, Fault

(* Rows of the first call: one per key, of the plan. *)
LEMMA FirstRows ==
  ASSUME TypeOK, NEW p \in Process, ServedInv(p), Dispatch(p) \/ Step(p) \/ Fault(p),
         \A r \in audit : r.key \in PlannedKeys,
         \A r, s \in audit : r.key = s.key => r = s
  PROVE  /\ \A r \in audit' : r.key \in PlannedKeys
         /\ \A r, s \in audit' : r.key = s.key => r = s
<1>1. CASE UNCHANGED audit
  BY <1>1
<1>2. CASE Record(p)
  <2> DEFINE row == RowOf(Mine(p), RowOutcome(work[p].verdict = "success"))
  <2>1. pc[p] = "record" /\ audit' = audit \cup {row}
    BY <1>2 DEF Record, RowOutcome
  <2>2. row.key = work[p].key
    BY DEF RowOf, Mine
  <2> HIDE DEF row
  <2>3. row.key \in PlannedKeys /\ \A r \in audit : r.key # row.key
    BY <2>1, <2>2 DEF ServedInv
  <2> QED BY <2>1, <2>3
<1> QED BY <1>1, <1>2, HistoryWritten

(* Entries of the first call: settled by the row in hand, never by evidence. *)
LEMMA FirstEntries ==
  ASSUME TypeOK, NEW p \in Process, ServedInv(p), recon[p].pending = {},
         Dispatch(p) \/ Step(p) \/ Fault(p),
         \A k \in Key : entries[k].status \notin {"skipped", "cancelled"}, TerminalIsRecorded
  PROVE  /\ \A k \in Key : entries'[k].status \notin {"skipped", "cancelled"}
         /\ TerminalIsRecorded'
<1> DEFINE Recorded(k) ==
             entries'[k].status \in {"success", "hard_failure"} =>
               \E r \in audit' :
                 /\ r.key = k /\ r.attempt = entries'[k].attempt
                 /\ r.operator = entries'[k].operator
                 /\ r.outcome = IF entries'[k].status = "success" THEN "success" ELSE "failed"
<1>1. audit \subseteq audit'
  BY HistoryWritten DEF Record
<1>2. ASSUME NEW k \in Key
      PROVE  entries'[k].status \notin {"skipped", "cancelled"} /\ Recorded(k)
  <2>1. CASE entries'[k] = entries[k]
    BY <1>1, <2>1 DEF TerminalIsRecorded
  <2>2. CASE \E i \in walk[p].queue :
               /\ HookAndLock(p, i)
               /\ entries' = [entries EXCEPT ![k] =
                    [status |-> "submitted", attempt |-> entries[k].attempt + 1,
                     operator |-> lease[p].operator]]
    BY <2>2 DEF TypeOK
  <2>3. CASE /\ Settle(p) /\ k = work[p].key
             /\ SubmittedAs(k, work[p].attempt, lease[p].operator)
             /\ entries' = [entries EXCEPT ![k] =
                  [status |-> SettledStatus(work[p].verdict), attempt |-> work[p].attempt,
                   operator |-> lease[p].operator]]
    <3> DEFINE v == work[p].verdict
               s == SettledStatus(v)
               n == work[p].attempt
               o == lease[p].operator
               outcome == RowOutcome(v = "success")
    <3>1. s \notin {"skipped", "cancelled"}
      BY DEF SettledStatus
    <3>2. outcome = IF s = "success" THEN "success" ELSE "failed"
      BY DEF SettledStatus, RowOutcome
    <3>3. RowOf([key |-> k, attempt |-> n, operator |-> o], outcome) \in audit'
      BY <1>1, <2>3 DEF ServedInv, Settle, Mine
    <3>4. n \in Nat /\ o \in Operator
      BY <2>3 DEF TypeOK, Work, Settle, BatchRun, RunLock
    <3> HIDE DEF s, n, o, v, outcome
    <3>5. entries' = [entries EXCEPT ![k] = [status |-> s, attempt |-> n, operator |-> o]]
      BY <2>3 DEF s, n, o, v
    <3>6. entries'[k].status = s
      BY <3>5 DEF TypeOK
    <3>7. \E r \in audit' :
            /\ r.key = k /\ r.attempt = entries'[k].attempt
            /\ r.operator = entries'[k].operator
            /\ r.outcome = IF entries'[k].status = "success" THEN "success" ELSE "failed"
      BY <3>2, <3>3, <3>4, <3>5, RowOfEntry, ZenonT(30)
    <3> QED BY <3>1, <3>6, <3>7
  <2> QED BY <2>1, <2>2, <2>3, EntryMoves
<1> QED BY <1>2 DEF TerminalIsRecorded

(* Only a dispatch is counted. *)
LEMMA CallsCounted ==
  ASSUME TypeOK, NEW p \in Process, Dispatch(p) \/ Step(p) \/ Fault(p)
  PROVE  \/ Dispatch(p)
         \/ (Step(p) \/ Fault(p)) /\ pc[p] # "idle" /\ calls' = calls
<1>1. CASE Fault(p)
  BY <1>1 DEF Fault, PlanningFails, AwaitThrows, Crash, Outside, BatchRun
<1>2. CASE Step(p)
  BY <1>2 DEF Step, ReconcileLoad, ReconcileEvidence, ReconcileUnproven, ReconcileProven,
     ReconcileDone, MarkRunning, PlanBatches, SelectBatch, WalkEnds, ChooseProvider, DeferBatch,
     AcquireRunLock, BatchDrained, HookAndLock, Broadcast, BroadcastReturns, BroadcastFails,
     Record, BenchOperator, Settle, NoteRotation, CreditOperator, ReleaseRunLock, ReadFinal,
     CommitFinal, boundVars
<1> QED BY <1>1, <1>2

LEMMA FirstCallStep ==
  ASSUME TypeOK, PlannedInv, FirstCallInv, NEW p \in Process, Dispatch(p) \/ Step(p) \/ Fault(p)
  PROVE  FirstCallInv'
<1> SUFFICES ASSUME calls' <= 1 PROVE FirstCallInv'
  BY DEF FirstCallInv, ServedInv, Untouched, Place, TerminalIsRecorded, PlannedKeys,
         ExpectedKeys, HasDuplicates, Slice, Positions, Mine, RowOf, RowOutcome, BatchRun
<1>1. CASE Dispatch(p)
  <2>1. /\ calls = 0 /\ calls' = 1 /\ UNCHANGED <<audit, entries, recon, lease, work>>
        /\ pc' = [pc EXCEPT ![p] = "load"]
    BY <1>1 DEF Dispatch, TypeOK, stateVars, Goto
  <2>2. /\ Untouched /\ \A q \in Process : pc[q] = "idle" /\ recon[q].pending = {}
        /\ \A k \in Key : entries[k].status \notin {"skipped", "cancelled"}
        /\ TerminalIsRecorded
    BY <2>1 DEF FirstCallInv
  <2>3. Untouched' /\ TerminalIsRecorded'
    BY <2>1, <2>2 DEF Untouched, TerminalIsRecorded
  <2>4. \A q \in Process : pc'[q] \in {"idle", "load"} /\ (pc'[q] # "idle" => q = p)
    BY <2>1, <2>2 DEF TypeOK
  <2>5. \A q \in Process : ServedInv(q)'
    BY <2>3, <2>4 DEF ServedInv, BatchRun
  <2> QED BY <2>1, <2>2, <2>3, <2>4, <2>5 DEF FirstCallInv, Untouched
<1>2. CASE (Step(p) \/ Fault(p)) /\ pc[p] # "idle" /\ calls' = calls
  <2>1. /\ calls # 0 /\ calls' # 0
        /\ \A q \in Process : q # p => pc[q] = "idle"
        /\ \A q \in Process : recon[q].pending = {} /\ ServedInv(q)
        /\ \A r \in audit : r.key \in PlannedKeys
        /\ \A r, s \in audit : r.key = s.key => r = s
        /\ \A k \in Key : entries[k].status \notin {"skipped", "cancelled"}
        /\ TerminalIsRecorded
    <3>1. calls <= 1
      BY <1>2
    <3> QED BY <1>2, <3>1 DEF FirstCallInv
  <2>2. \A q \in Process : q # p => pc'[q] = "idle" /\ recon'[q].pending = {}
    BY <2>1, OthersUntouched
  <2>3. ServedInv(p)' /\ recon'[p].pending = {}
    BY <1>2, <2>1, ServedStep
  <2>4. ASSUME NEW q \in Process PROVE ServedInv(q)' /\ recon'[q].pending = {}
    <3>1. CASE q # p
      BY <2>2, <3>1 DEF ServedInv, BatchRun
    <3>2. CASE q = p
      BY <2>3, <3>2
    <3> QED BY <3>1, <3>2
  <2>5. /\ \A r \in audit' : r.key \in PlannedKeys
        /\ \A r, s \in audit' : r.key = s.key => r = s
    BY <2>1, FirstRows
  <2>6. /\ \A k \in Key : entries'[k].status \notin {"skipped", "cancelled"}
        /\ TerminalIsRecorded'
    BY <2>1, FirstEntries
  <2>7. \A q, x \in Process : pc'[q] # "idle" /\ pc'[x] # "idle" => q = x
    BY <2>2
  <2> QED BY <2>1, <2>4, <2>5, <2>6, <2>7
          DEF FirstCallInv, PlannedKeys, ExpectedKeys, HasDuplicates, Slice, Positions
<1> QED BY <1>1, <1>2, CallsCounted

-----------------------------------------------------------------------------
(* What the watcher relies on *)

WatchInv == PlannedInv /\ CompletedInv /\ TicketInv /\ LockedInv /\ FirstCallInv

LEMMA WatchInvariance == Spec => []WatchInv
<1>1. Init => FinalInv /\ WatchInv
  BY DEF Init, FinalInv, WatchInv, PlannedInv, CompletedInv, TicketInv, LockedInv,
         FirstCallInv, ServedInv, Untouched, TerminalIsRecorded, Walking, AbsentEntry,
         NoRecon, BatchRun, Key
<1>2. TypeOK /\ RunLockInv /\ WatchInv /\ [Next]_vars
        => TicketInv' /\ LockedInv' /\ FirstCallInv'
  <2> SUFFICES ASSUME TypeOK, RunLockInv, WatchInv, [Next]_vars
               PROVE  TicketInv' /\ LockedInv' /\ FirstCallInv'
    OBVIOUS
  <2>1. CASE Chain \/ Clock \/ UNCHANGED vars
    <3>1. /\ UNCHANGED <<entries, runLock, batchAttempts, audit>>
          /\ UNCHANGED <<pc, recon, walk, lease, work, calls>>
      BY <2>1 DEF Chain, Clock, Mint, Drop, ZombieTimeout, CooldownPasses, WindowPasses,
                  vars, stateVars, localVars, boundVars
    <3>2. TicketInv' /\ LockedInv'
      BY <3>1 DEF WatchInv, TicketInv, LockedInv, Place, PlannedKeys, ExpectedKeys,
                  HasDuplicates, Slice, Positions
    <3>3. \A p \in Process : ServedInv(p)' <=> ServedInv(p)
      BY <3>1 DEF ServedInv, Untouched, Place, PlannedKeys, ExpectedKeys, HasDuplicates,
                  Slice, Positions, Mine, RowOf, RowOutcome
    <3>4. (Untouched' <=> Untouched) /\ (TerminalIsRecorded' <=> TerminalIsRecorded)
      BY <3>1 DEF Untouched, TerminalIsRecorded
    <3>5. FirstCallInv'
      BY <3>1, <3>3, <3>4 DEF WatchInv, FirstCallInv, PlannedKeys, ExpectedKeys, HasDuplicates,
                              Slice, Positions
    <3> QED BY <3>2, <3>5
  <2>2. ASSUME NEW p \in Process, Dispatch(p) \/ Step(p) \/ Fault(p)
        PROVE  TicketInv' /\ LockedInv' /\ FirstCallInv'
    BY <2>2, TicketStep, LockedStep, FirstCallStep DEF WatchInv
  <2> QED BY <2>1, <2>2 DEF Next
<1>3. Init => RunLockInv
  BY DEF Init, RunLockInv, InBatchRun, BatchRun
<1>4. TypeOK /\ RunLockInv /\ FinalInv /\ WatchInv /\ [Next]_vars
        => (RunLockInv /\ FinalInv /\ WatchInv)'
  BY <1>2, RunLockNext, PlannedNext, FinalNext DEF WatchInv
<1> QED BY <1>1, <1>3, <1>4, Typing, PTL DEF Spec

-----------------------------------------------------------------------------
(* The positions of a list and the keys of its plan *)

LEMMA DivBounds ==
  ASSUME NEW n \in Nat \ {0}, NEW a \in Nat
  PROVE  /\ a \div n \in Nat
         /\ (a \div n) * n <= a
         /\ a < (a \div n) * n + n
  OBVIOUS

LEMMA TimesGrows ==
  ASSUME NEW n \in Nat \ {0}, NEW a \in Nat, NEW b \in Nat, a <= b
  PROVE  a * n <= b * n
  OBVIOUS

(* Position i is in the batch computed from its index, and in no other. *)
LEMMA SliceOf ==
  ASSUME NEW c \in Campaigns, NEW i \in Positions(c), NEW b \in Nat \ {0}
  PROVE  i \in Slice(c, b) <=> b = ((i - 1) \div c.batchSize) + 1
<1> DEFINE n == c.batchSize
           q == (i - 1) \div n
<1>1. n \in Nat \ {0} /\ i \in Nat /\ i - 1 \in Nat
  BY CampaignAssumption DEF Positions
<1> HIDE DEF n
<1>2. q \in Nat /\ q * n <= i - 1 /\ i - 1 < q * n + n
  BY <1>1, DivBounds
<1> HIDE DEF q
<1>3. (q + 1) * n = q * n + n /\ q * n \in Nat
  BY <1>1, <1>2
<1>4. b - 1 \in Nat /\ (b - 1) * n \in Nat /\ b * n \in Nat
  BY <1>1
<1>5. i \in Slice(c, b) <=> (b - 1) * n < i /\ i <= b * n
  BY DEF Slice, n
<1>6. CASE b = q + 1
  BY <1>1, <1>2, <1>3, <1>4, <1>5, <1>6 DEF q, n
<1>7. CASE b <= q
  <2>1. b * n <= q * n
    BY <1>1, <1>2, <1>7, TimesGrows
  <2> QED BY <1>1, <1>2, <1>3, <1>4, <1>5, <1>7, <2>1 DEF q, n
<1>8. CASE q + 1 <= b - 1
  <2>1. (q + 1) * n <= (b - 1) * n
    BY <1>1, <1>2, <1>4, <1>8, TimesGrows
  <2> QED BY <1>1, <1>2, <1>3, <1>4, <1>5, <1>8, <2>1 DEF q, n
<1> QED BY <1>2, <1>6, <1>7, <1>8

LEMMA ExpectedEntryIsKey ==
  ASSUME NEW c \in Campaigns, NEW i \in Positions(c)
  PROVE  ExpectedEntry(c, i) \in ExpectedKeys(c)
<1> DEFINE b == ((i - 1) \div c.batchSize) + 1
<1>1. c.batchSize \in Nat \ {0} /\ i - 1 \in Nat /\ c.recipients[i] \in Recipient
  BY CampaignAssumption DEF Positions
<1>2. b \in Nat \ {0}
  BY <1>1, DivBounds
<1>3. ExpectedEntry(c, i) = <<b, c.recipients[i]>>
  BY DEF ExpectedEntry
<1> HIDE DEF b
<1>4. i \in Slice(c, b)
  BY <1>2, SliceOf DEF b
<1>5. b \in Batch
  BY <1>2, <1>4, SliceInRange
<1> QED BY <1>1, <1>3, <1>4, <1>5 DEF ExpectedKeys, Key

(* The watcher's computed keys are the planner's. *)
LEMMA ExpectedAgree ==
  ASSUME NEW c \in Campaigns
  PROVE  ExpectedEntries(c) = ExpectedKeys(c)
<1>1. ASSUME NEW k \in ExpectedKeys(c) PROVE k \in ExpectedEntries(c)
  <2>1. PICK i \in Slice(c, k[1]) : c.recipients[i] = k[2]
    BY DEF ExpectedKeys
  <2>2. i \in Positions(c) /\ k[1] \in Nat \ {0} /\ k = <<k[1], k[2]>>
    BY DEF Slice, ExpectedKeys, Key, Batch
  <2>3. k = ExpectedEntry(c, i)
    BY <2>1, <2>2, SliceOf DEF ExpectedEntry
  <2> QED BY <2>2, <2>3 DEF ExpectedEntries
<1> QED BY <1>1, ExpectedEntryIsKey DEF ExpectedEntries

(* A recipient of the plan has one key. *)
LEMMA OneKeyEach ==
  ASSUME NEW c \in Campaigns, ~HasDuplicates(c),
         NEW k \in ExpectedKeys(c), NEW l \in ExpectedKeys(c), k[2] = l[2]
  PROVE  k = l
<1>1. PICK i \in Positions(c) : k = ExpectedEntry(c, i)
  BY ExpectedAgree DEF ExpectedEntries
<1>2. PICK j \in Positions(c) : l = ExpectedEntry(c, j)
  BY ExpectedAgree DEF ExpectedEntries
<1>3. i = j
  BY <1>1, <1>2 DEF ExpectedEntry, HasDuplicates
<1> QED BY <1>1, <1>2, <1>3

(* A set that holds one element for each position has as many as there are positions. *)
LEMMA CountedByPosition ==
  ASSUME NEW c \in Campaigns, NEW f, NEW T, f \in Bijection(Positions(c), T)
  PROVE  Cardinality(T) = Len(c.recipients)
<1>1. Len(c.recipients) \in Nat
  BY CampaignAssumption
<1>2. /\ IsFiniteSet(Positions(c)) /\ Cardinality(Positions(c)) = Len(c.recipients)
  BY <1>1, FS_Interval DEF Positions
<1>3. ExistsBijection(Positions(c), T)
  BY DEF ExistsBijection
<1> QED BY <1>2, <1>3, FS_Bijection

-----------------------------------------------------------------------------
(* A settled campaign passes *)

LEMMA SettledPlan ==
  ASSUME OnePlan, TypeOK, WatchInv, status = "completed", NEW c \in Campaigns, ~HasDuplicates(c)
  PROVE  /\ PlannedKeys = ExpectedKeys(c)
         /\ Present = ExpectedKeys(c)
         /\ \A k \in Key : entries[k].status \in Terminal \cup {"absent"}
<1>1. PlannedKeys = ExpectedKeys(c)
  BY DEF PlannedKeys, OnePlan
<1>2. PICK d \in Campaigns :
        ~HasDuplicates(d) /\ \A k \in ExpectedKeys(d) : entries[k].status \in Terminal
  BY DEF WatchInv, CompletedInv
<1>3. \A k \in ExpectedKeys(c) : entries[k].status \in Terminal
  BY <1>2 DEF OnePlan
<1>4. \A k \in Key : entries[k].status # "absent" => k \in ExpectedKeys(c)
  BY <1>1 DEF WatchInv, PlannedInv
<1>5. Present = ExpectedKeys(c)
  BY <1>3, <1>4 DEF Present, ExpectedKeys, Terminal
<1> QED BY <1>1, <1>3, <1>4, <1>5

LEMMA StateIsClean ==
  ASSUME OnePlan, TypeOK, WatchInv, status = "completed", NEW c \in Campaigns, ~HasDuplicates(c)
  PROVE  Failing(StateChecks(c, TRUE)) = IF Locked THEN {"W010"} ELSE {}
<1> DEFINE S == StateChecks(c, TRUE)
<1>1. /\ PlannedKeys = ExpectedKeys(c) /\ Present = ExpectedKeys(c)
      /\ \A k \in Key : entries[k].status \in Terminal \cup {"absent"}
  BY SettledPlan
<1>2. ~S.W004 /\ ~S.W005
  BY <1>1, ExpectedAgree DEF StateChecks
<1>3. ~S.W006
  <2> DEFINE T == {c.recipients[i] : i \in Positions(c)}
             f == [i \in Positions(c) |-> c.recipients[i]]
  <2>1. f \in Bijection(Positions(c), T)
    BY DEF HasDuplicates, Bijection, Injection, Surjection, IsInjective
  <2>2. Cardinality(T) = Len(c.recipients)
    BY <2>1, CountedByPosition
  <2>3. Len(c.recipients) \in Nat
    BY CampaignAssumption
  <2>4. UniqueRecipients(c) = Len(c.recipients)
    BY <2>2 DEF UniqueRecipients
  <2>5. S.W006 <=> UniqueRecipients(c) < Len(c.recipients)
    BY DEF StateChecks
  <2> HIDE DEF S, T, f
  <2> QED BY <2>3, <2>4, <2>5
<1>4. WithStatus("planned") = {} /\ WithStatus("submitted") = {} /\ WithStatus("cooldown") = {}
  BY <1>1 DEF WithStatus, Terminal
<1>5. ~S.W008 /\ ~S.W009 /\ ~S.W016
  BY <1>4 DEF StateChecks, Stuck, Expired
<1>6. S.W010 <=> Locked
  BY DEF StateChecks
<1>7. ~S.W011
  BY <1>1 DEF StateChecks, Locked, WatchInv, LockedInv
<1>8. ~S.W012
  BY DEF StateChecks, Locked, TypeOK, RunLock
<1>9. ~S.W013
  <2>1. \A k \in Key : /\ entries[k].attempt \in Nat /\ batchAttempts[k[1]] \in Nat
                       /\ entries[k].attempt <= batchAttempts[k[1]]
    BY DEF TypeOK, Entry, Key, WatchInv, TicketInv
  <2> QED BY <2>1 DEF StateChecks, Drifts, Present
<1>10. DOMAIN S = {"W004", "W005", "W006", "W008", "W009", "W010", "W011", "W012", "W013", "W016"}
  BY DEF StateChecks
<1> HIDE DEF S
<1> QED BY <1>2, <1>3, <1>5, <1>6, <1>7, <1>8, <1>9, <1>10 DEF Failing, S

(* The report of a first launch has the row of every entry, and no other. *)
LEMMA ReportIsClean ==
  ASSUME OnePlan, TypeOK, WatchInv, status = "completed", calls = 1,
         NEW c \in Campaigns, ~HasDuplicates(c)
  PROVE  Failing(ReportChecks(c, audit)) = {}
<1> DEFINE R == ReportChecks(c, audit)
<1>1. /\ PlannedKeys = ExpectedKeys(c) /\ Present = ExpectedKeys(c)
      /\ \A k \in Key : entries[k].status \in Terminal \cup {"absent"}
  BY SettledPlan
<1>2. /\ \A r \in audit : r.key \in ExpectedKeys(c)
      /\ \A r, s \in audit : r.key = s.key => r = s
      /\ \A k \in Key : entries[k].status \notin {"skipped", "cancelled"}
      /\ TerminalIsRecorded
  BY <1>1 DEF WatchInv, FirstCallInv
<1>3. ASSUME NEW k \in ExpectedKeys(c)
      PROVE  \E r \in audit : /\ r.key = k /\ r.attempt = entries[k].attempt
                              /\ r.operator = entries[k].operator
                              /\ r.outcome = ReportedStatus(k)
  <2>1. k \in Key /\ entries[k].status \in {"success", "hard_failure"}
    BY <1>1, <1>2 DEF Present, Terminal
  <2> QED BY <1>2, <2>1 DEF TerminalIsRecorded, ReportedStatus
<1>4. ASSUME NEW r \in audit, NEW k \in Present, r.key[2] = k[2]
      PROVE  /\ r.key = k /\ r.attempt = entries[k].attempt
             /\ r.operator = entries[k].operator /\ r.outcome = ReportedStatus(k)
  <2>1. r.key = k
    BY <1>1, <1>2, <1>4, OneKeyEach
  <2> QED BY <1>1, <1>2, <1>3, <2>1
<1>5. ~R.W019
  <2>1. ASSUME NEW r \in audit, NEW s \in audit, r.key[2] = s.key[2] PROVE r = s
    BY <1>2, <2>1, OneKeyEach
  <2> QED BY <2>1 DEF ReportChecks
<1>6. ~R.W022 /\ ~R.W024 /\ ~R.W025 /\ ~R.W026
  BY <1>4 DEF ReportChecks, Compared
<1>7. ~R.W017
  <2> DEFINE f == [i \in Positions(c) |-> CHOOSE r \in audit : r.key = ExpectedEntry(c, i)]
  <2>1. \A i \in Positions(c) : f[i] \in audit /\ f[i].key = ExpectedEntry(c, i)
    BY <1>3, ExpectedEntryIsKey
  <2>2. \A i \in Positions(c), j \in Positions(c) : f[i] = f[j] => i = j
    <3> SUFFICES ASSUME NEW i \in Positions(c), NEW j \in Positions(c), f[i] = f[j]
                 PROVE  i = j
      OBVIOUS
    <3>1. ExpectedEntry(c, i) = ExpectedEntry(c, j)
      BY <2>1
    <3> QED BY <3>1 DEF ExpectedEntry, HasDuplicates
  <2>3. \A r \in audit : \E i \in Positions(c) : f[i] = r
    BY <1>2, <2>1, ExpectedAgree DEF ExpectedEntries
  <2>4. DOMAIN f = Positions(c) /\ f \in [Positions(c) -> audit]
    BY <2>1
  <2> HIDE DEF f
  <2>5. f \in Bijection(Positions(c), audit)
    BY <2>2, <2>3, <2>4 DEF Bijection, Injection, Surjection, IsInjective
  <2> QED BY <2>5, CountedByPosition DEF ReportChecks
<1>8. DOMAIN R = {"W017", "W019", "W022", "W024", "W025", "W026"}
  BY DEF ReportChecks
<1> HIDE DEF R
<1> QED BY <1>5, <1>6, <1>7, <1>8 DEF Failing, R

(* When every call has the same plan: attempts never run ahead of their batch's, and a
   campaign that completed and is at rest passes every check of the watcher on its state
   and, after one launch, on its report, but for a run lock left behind. *)
THEOREM SettledPasses == OnePlan => (Spec => []SettledPassesWatch)
<1> SUFFICES ASSUME OnePlan PROVE Spec => []SettledPassesWatch
  OBVIOUS
<1>1. TypeOK /\ WatchInv => SettledPassesWatch
  <2> SUFFICES ASSUME TypeOK, WatchInv, NEW c \in Campaigns, ~HasDuplicates(c)
               PROVE  /\ ~StateChecks(c, TRUE).W013
                      /\ status = "completed" =>
                           LET findings == Findings(c, TRUE, Reports)
                           IN findings = {"W010"} \/ (ExitCode(findings) = 0 /\ ~Locked)
    BY DEF SettledPassesWatch
  <2>1. ~StateChecks(c, TRUE).W013
    <3>1. \A k \in Key : /\ entries[k].attempt \in Nat /\ batchAttempts[k[1]] \in Nat
                         /\ entries[k].attempt <= batchAttempts[k[1]]
      BY DEF TypeOK, Entry, Key, WatchInv, TicketInv
    <3> QED BY <3>1 DEF StateChecks, Drifts, Present
  <2>2. ASSUME status = "completed"
        PROVE  Findings(c, TRUE, Reports) = IF Locked THEN {"W010"} ELSE {}
    <3>1. \A rows \in Reports : Failing(ReportChecks(c, rows)) = {}
      BY <2>2, ReportIsClean DEF Reports
    <3>2. UNION {Failing(ReportChecks(c, rows)) : rows \in Reports} = {}
      BY <3>1
    <3>3. Failing(StateChecks(c, TRUE)) = IF Locked THEN {"W010"} ELSE {}
      BY <2>2, StateIsClean
    <3> QED BY <3>2, <3>3 DEF Findings
  <2> QED BY <2>1, <2>2 DEF ExitCode
<1> QED BY <1>1, WatchInvariance, Typing, PTL
=============================================================================
