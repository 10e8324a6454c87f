------------------------ MODULE CampaignSafetyProofs ------------------------
(***************************************************************************)
(* The safety theorems of CampaignDispatch, for every value of its         *)
(* constants: typing, mutual exclusion of batch runs, bounded attempts,    *)
(* finality of terminal entries and, if the executor says so when it is    *)
(* not sure, that no message is ever lost sight of and nobody is minted to *)
(* twice.                                                                  *)
(***************************************************************************)
EXTENDS CampaignInvariant, TLAPS

-----------------------------------------------------------------------------
(* Typing *)

(* TypeOK in two parts: what is shared, and what each process holds. *)
SharedOK ==
  /\ status \in FinalStatus \cup {"idle"}
  /\ entries \in [Key -> Entry]
  /\ runLock \in RunLock \cup {NoLock}
  /\ batchAttempts \in [Batch -> Nat]
  /\ benched \in SUBSET Operator
  /\ audit \in SUBSET Row
  /\ aged \in SUBSET Key /\ cooling \in SUBSET Key
  /\ flight \in SUBSET Message /\ minted \in SUBSET Message
  /\ calls \in Nat /\ faults \in Nat
  /\ \A k \in Key : entries[k].status = "submitted" => entries[k].operator \in Operator

LocalsOK ==
  /\ pc \in [Process -> Control]
  /\ recon \in [Process -> Reconciliation]
  /\ walk \in [Process -> Walk]
  /\ lease \in [Process -> RunLock \cup {NoLock}]
  /\ work \in [Process -> Work]
  /\ \A p \in Process :
       /\ walk[p].queue \subseteq Slice(walk[p].campaign, walk[p].batch)
       /\ pc[p] \in {"provider", "acquire"} \cup BatchRun => walk[p].batch \in Batch
       /\ pc[p] \in {"acquire"} \cup BatchRun => lease[p] \in RunLock

LEMMA TypeParts == TypeOK <=> SharedOK /\ LocalsOK
  BY DEF TypeOK, SharedOK, LocalsOK

LEMMA TypePartsPrime == TypeOK' <=> SharedOK' /\ LocalsOK'
  BY DEF TypeOK, SharedOK, LocalsOK

(* The locals of a process that runs nothing. *)
LEMMA NullsTyped ==
  /\ NoRecon \in Reconciliation
  /\ NoWalk \in Walk
  /\ NoWork \in Work
  /\ NoWalk.queue = {}
<1>1. NoRecon \in Reconciliation
  BY DEF NoRecon, Reconciliation
<1>2. (CHOOSE c \in Campaigns : TRUE) \in Campaigns
  BY CampaignAssumption
<1>3. NoWalk \in Walk /\ NoWalk.queue = {}
  BY <1>2 DEF NoWalk, Walk, FinalStatus
<1>4. \E k \in Key : TRUE
  <2>1. PICK r \in Recipient : TRUE
    BY CampaignAssumption
  <2>2. 1 \in Batch
    BY CampaignAssumption DEF Batch
  <2>3. <<1, r>> \in Key
    BY <2>2 DEF Key
  <2> QED BY <2>3
<1>5. (CHOOSE k \in Key : TRUE) \in Key
  BY <1>4
<1>6. NoWork \in Work
  BY <1>5 DEF NoWork, Work, Verdict
<1> QED BY <1>1, <1>3, <1>6

(* A position of a batch's slice puts the batch in range. *)
LEMMA SliceInRange ==
  ASSUME NEW c \in Campaigns, NEW b \in Nat \ {0}, NEW i \in Slice(c, b)
  PROVE  b \in Batch
<1> DEFINE s == c.batchSize
<1>1. s \in Nat \ {0} /\ Len(c.recipients) \in Nat /\ Len(c.recipients) <= BatchCount * s
  BY CampaignAssumption
<1>2. i \in Nat /\ i <= Len(c.recipients) /\ (b - 1) * s < i
  BY <1>1 DEF Slice, Positions
<1>3. BatchCount \in Nat
  BY CampaignAssumption
<1> HIDE DEF s
<1>4. (b - 1) * s < BatchCount * s
  BY <1>1, <1>2, <1>3
<1>5. b - 1 < BatchCount
  <2>1. SUFFICES ASSUME b - 1 >= BatchCount PROVE FALSE
    BY <1>3
  <2>2. PICK d \in Nat : b - 1 = BatchCount + d
    <3>1. (b - 1) - BatchCount \in Nat
      BY <1>3, <2>1
    <3> QED BY <3>1, <1>3
  <2>3. (b - 1) * s = BatchCount * s + d * s
    BY <1>1, <1>3, <2>2
  <2>4. d * s >= 0
    BY <1>1, <2>2
  <2> QED BY <1>1, <1>3, <1>4, <2>2, <2>3, <2>4
<1> QED BY <1>3, <1>5 DEF Batch

(* Moving a walk on keeps its type. *)
LEMMA WalkMoved ==
  ASSUME NEW w \in Walk, NEW b \in Nat \ {0}, NEW q \in SUBSET Nat
  PROVE  [w EXCEPT !.batch = b, !.queue = q] \in Walk
  BY DEF Walk

LEMMA SettledLocals ==
  ASSUME LocalsOK, NEW p \in Process, Settled(p)
  PROVE  LocalsOK'
  BY NullsTyped DEF LocalsOK, Settled, Goto, Control, BatchRun, NoLock

LEMMA UnwindsLocals ==
  ASSUME LocalsOK, NEW p \in Process, Unwinds(p), UNCHANGED <<recon, walk, lease>>
  PROVE  LocalsOK'
  BY DEF LocalsOK, Unwinds, Goto, Control, BatchRun, Work, Verdict

LEMMA NextBatchLocals ==
  ASSUME LocalsOK, NEW p \in Process, NextBatch(p), UNCHANGED recon
  PROVE  LocalsOK'
<1>1. walk[p] \in Walk
  BY DEF LocalsOK
<1>2. [walk[p] EXCEPT !.batch = @ + 1, !.queue = {}] \in Walk
  <2>1. walk[p].batch + 1 \in Nat \ {0}
    BY <1>1 DEF Walk
  <2> QED BY <1>1, <2>1, WalkMoved
<1>3. /\ walk' \in [Process -> Walk]
      /\ walk'[p].queue = {}
      /\ \A q \in Process \ {p} : walk'[q] = walk[q]
  BY <1>1, <1>2 DEF LocalsOK, NextBatch, Walk
<1>4. /\ pc' \in [Process -> Control] /\ pc'[p] = "select"
      /\ \A q \in Process \ {p} : pc'[q] = pc[q]
  BY DEF LocalsOK, NextBatch, Goto, Control
<1>5. /\ lease' \in [Process -> RunLock \cup {NoLock}]
      /\ \A q \in Process \ {p} : lease'[q] = lease[q]
  BY DEF LocalsOK, NextBatch
<1>6. work' \in [Process -> Work]
  BY NullsTyped DEF LocalsOK, NextBatch
<1> QED BY <1>3, <1>4, <1>5, <1>6 DEF LocalsOK, BatchRun

(* The process moves on and keeps its locals, to a place that asks no more of them. *)
LEMMA GotoLocals ==
  ASSUME LocalsOK, NEW p \in Process, NEW label \in Control, Goto(p, label),
         UNCHANGED localVars,
         \/ label \notin {"provider", "acquire"} \cup BatchRun
         \/ label \in BatchRun /\ pc[p] \in BatchRun
  PROVE  LocalsOK'
  BY DEF LocalsOK, Goto, localVars

(* Only the work in hand changes. *)
LEMMA WorkLocals ==
  ASSUME LocalsOK, NEW p \in Process, NEW label \in Control, Goto(p, label),
         NEW w \in Work, work' = [work EXCEPT ![p] = w], UNCHANGED <<recon, walk, lease>>,
         pc[p] \in BatchRun
  PROVE  LocalsOK'
  BY DEF LocalsOK, Goto

LEMMA DispatchType ==
  ASSUME TypeOK, NEW p \in Process, Dispatch(p) PROVE TypeOK'
<1>1. SharedOK'
  BY DEF TypeOK, SharedOK, Dispatch, stateVars, timeVars, chainVars
<1>2. PICK c \in Campaigns : walk' = [walk EXCEPT ![p] = [NoWalk EXCEPT !.campaign = c]]
  BY DEF Dispatch
<1>3. /\ walk' \in [Process -> Walk]
      /\ walk'[p].queue = {}
  BY <1>2, NullsTyped DEF TypeOK, Walk
<1>4. /\ pc' \in [Process -> Control] /\ pc'[p] = "load"
      /\ \A q \in Process \ {p} : pc'[q] = pc[q] /\ walk'[q] = walk[q]
      /\ UNCHANGED <<recon, lease, work>>
  BY <1>2 DEF TypeOK, Dispatch, Goto, Control
<1> QED BY <1>1, <1>3, <1>4, TypePartsPrime DEF TypeOK, LocalsOK, BatchRun

LEMMA ReconcileLoadType ==
  ASSUME TypeOK, NEW p \in Process, ReconcileLoad(p) PROVE TypeOK'
<1>1. SharedOK'
  BY DEF TypeOK, SharedOK, ReconcileLoad, stateVars, timeVars, chainVars, boundVars
<1> DEFINE P == {[key |-> k, attempt |-> entries[k].attempt,
                  operator |-> entries[k].operator, aged |-> k \in aged] :
                    k \in {x \in Key : entries[x].status = "submitted"}}
<1>2. P \in SUBSET [key : Key, attempt : Nat, operator : Operator, aged : BOOLEAN]
  <2>1. SUFFICES ASSUME NEW k \in Key, entries[k].status = "submitted"
                 PROVE  [key |-> k, attempt |-> entries[k].attempt,
                         operator |-> entries[k].operator, aged |-> k \in aged]
                          \in [key : Key, attempt : Nat, operator : Operator, aged : BOOLEAN]
    OBVIOUS
  <2>2. entries[k].attempt \in Nat /\ entries[k].operator \in Operator
    BY <2>1 DEF TypeOK, Entry
  <2>3. (k \in aged) \in BOOLEAN
    OBVIOUS
  <2> QED BY <2>2, <2>3
<1>3. recon' = [recon EXCEPT ![p].pending = P]
  BY DEF ReconcileLoad
<1> HIDE DEF P
<1>4. recon' \in [Process -> Reconciliation]
  BY <1>2, <1>3 DEF TypeOK, Reconciliation
<1>5. LocalsOK'
  BY <1>4 DEF TypeOK, LocalsOK, ReconcileLoad, Goto, Control, BatchRun
<1> QED BY <1>1, <1>5, TypePartsPrime

LEMMA EvidenceTyped == TypeOK => TerminalEvidence \subseteq Row
<1> SUFFICES ASSUME TypeOK, NEW r \in TerminalEvidence PROVE r \in Row
  OBVIOUS
<1>1. CASE \E m \in minted : r = RowOf(m, "success")
  BY <1>1 DEF TypeOK, RowOf, Message, Row, Terminal
<1>2. CASE r \in audit
  BY <1>2 DEF TypeOK
<1>3. CASE \E q \in audit, o \in EvidenceOutcomes \ {"success"} : r = RowOf(q, o)
  <2>1. PICK q \in audit, o \in EvidenceOutcomes \ {"success"} : r = RowOf(q, o)
    BY <1>3
  <2>2. o \in Terminal \cup {"cooldown", "failed"}
    BY EnvironmentAssumption DEF Terminal
  <2>3. q \in Row
    BY DEF TypeOK
  <2> QED BY <2>1, <2>2, <2>3 DEF RowOf, Row
<1> QED BY <1>1, <1>2, <1>3 DEF TerminalEvidence

LEMMA ReconcileEvidenceType ==
  ASSUME TypeOK, NEW p \in Process, ReconcileEvidence(p) PROVE TypeOK'
<1>1. SharedOK'
  BY DEF TypeOK, SharedOK, ReconcileEvidence, stateVars, timeVars, chainVars, boundVars
<1>2. PICK rows \in SUBSET TerminalEvidence :
        IF Conflicting(rows) THEN Settled(p)
        ELSE /\ recon' = [recon EXCEPT ![p].evidence = rows]
             /\ Goto(p, "reconcile")
             /\ UNCHANGED <<walk, lease, work>>
  BY DEF ReconcileEvidence
<1>3. CASE Settled(p)
  BY <1>1, <1>3, SettledLocals, TypePartsPrime, TypeParts
<1>4. CASE ~Settled(p)
  <2>1. recon' \in [Process -> Reconciliation]
    <3>1. PICK found \in SUBSET Row : recon' = [recon EXCEPT ![p].evidence = found]
      BY <1>2, <1>4, EvidenceTyped
    <3> QED BY <3>1 DEF TypeOK, Reconciliation
  <2>2. LocalsOK'
    BY <1>2, <1>4, <2>1 DEF TypeOK, LocalsOK, Goto, Control, BatchRun
  <2> QED BY <1>1, <2>2, TypePartsPrime
<1> QED BY <1>3, <1>4

LEMMA PendingDropped ==
  ASSUME TypeOK, NEW p \in Process, NEW e, recon' = [recon EXCEPT ![p].pending = @ \ {e}],
         UNCHANGED <<pc, walk, lease, work>>
  PROVE  LocalsOK'
<1>1. recon' \in [Process -> Reconciliation]
  BY DEF TypeOK, Reconciliation
<1> QED BY <1>1 DEF TypeOK, LocalsOK

LEMMA ReconcileUnprovenType ==
  ASSUME TypeOK, NEW p \in Process, NEW e \in recon[p].pending, ReconcileUnproven(p, e)
  PROVE  TypeOK'
<1>1. SharedOK'
  BY DEF TypeOK, SharedOK, ReconcileUnproven, stateVars, timeVars, chainVars, boundVars
<1>2. LocalsOK'
  BY SettledLocals, PendingDropped, TypeParts DEF ReconcileUnproven
<1> QED BY <1>1, <1>2, TypePartsPrime

LEMMA ReconcileProvenType ==
  ASSUME TypeOK, NEW p \in Process, NEW e \in recon[p].pending,
         NEW r \in recon[p].evidence, ReconcileProven(p, e, r)
  PROVE  TypeOK'
<1>1. LocalsOK'
  BY SettledLocals, PendingDropped, TypeParts DEF ReconcileProven
<1>2. /\ entries' \in [Key -> Entry]
      /\ \A k \in Key : entries'[k].status = "submitted" => entries'[k].operator \in Operator
  <2>1. CASE UNCHANGED entries
    BY <2>1 DEF TypeOK
  <2>2. CASE entries' = [entries EXCEPT ![e.key].status = r.outcome] /\ r.outcome \in Terminal
    <3>1. /\ e.key \in Key
          /\ entries[e.key] \in Entry
      BY DEF TypeOK, Reconciliation
    <3>2. [entries[e.key] EXCEPT !.status = r.outcome] \in Entry
      BY <2>2, <3>1 DEF Entry, EntryStatus, Terminal
    <3>3. entries'[e.key].status # "submitted"
      BY <2>2, <3>1 DEF TypeOK, Terminal, Entry
    <3> QED BY <2>2, <3>1, <3>2, <3>3 DEF TypeOK
  <2> QED BY <2>1, <2>2 DEF ReconcileProven
<1>3. SharedOK'
  BY <1>2 DEF TypeOK, SharedOK, ReconcileProven, chainVars, boundVars
<1> QED BY <1>1, <1>3, TypePartsPrime

LEMMA ReconcileDoneType ==
  ASSUME TypeOK, NEW p \in Process, ReconcileDone(p) PROVE TypeOK'
<1>1. SharedOK'
  BY DEF TypeOK, SharedOK, ReconcileDone, stateVars, timeVars, chainVars, boundVars
<1>2. LocalsOK'
  BY NullsTyped DEF TypeOK, LocalsOK, ReconcileDone, Goto, Control, BatchRun
<1> QED BY <1>1, <1>2, TypePartsPrime

LEMMA MarkRunningType ==
  ASSUME TypeOK, NEW p \in Process, MarkRunning(p) PROVE TypeOK'
<1>1. SharedOK'
  BY DEF TypeOK, SharedOK, MarkRunning, timeVars, chainVars, boundVars, FinalStatus
<1>2. LocalsOK'
  BY GotoLocals, TypeParts DEF MarkRunning, Control, BatchRun
<1> QED BY <1>1, <1>2, TypePartsPrime

LEMMA PlanBatchesType ==
  ASSUME TypeOK, NEW p \in Process, PlanBatches(p) PROVE TypeOK'
<1>1. SharedOK'
  BY DEF TypeOK, SharedOK, PlanBatches, stateVars, timeVars, chainVars, boundVars
<1>2. LocalsOK'
  BY GotoLocals, SettledLocals, TypeParts DEF PlanBatches, Control, BatchRun
<1> QED BY <1>1, <1>2, TypePartsPrime

LEMMA SelectBatchType ==
  ASSUME TypeOK, NEW p \in Process, SelectBatch(p) PROVE TypeOK'
<1>1. SharedOK'
  BY DEF TypeOK, SharedOK, SelectBatch, stateVars, timeVars, chainVars, boundVars
<1> DEFINE E == EligiblePositions(walk[p].campaign, walk[p].batch)
<1>2. CASE E = {}
  BY <1>1, <1>2, NextBatchLocals, TypePartsPrime, TypeParts DEF SelectBatch
<1>3. CASE E # {}
  <2>1. walk[p] \in Walk /\ E \subseteq Slice(walk[p].campaign, walk[p].batch)
    BY DEF TypeOK, EligiblePositions
  <2>2. E \subseteq Nat
    BY <2>1 DEF Slice, Positions, Walk
  <2>3. walk[p].batch \in Batch
    BY <1>3, <2>1, SliceInRange DEF Walk
  <2>4. walk' = [walk EXCEPT ![p].queue = E]
    BY <1>3 DEF SelectBatch
  <2> HIDE DEF E
  <2>5. /\ walk' \in [Process -> Walk]
        /\ walk'[p].queue = E
        /\ walk'[p].campaign = walk[p].campaign /\ walk'[p].batch = walk[p].batch
        /\ \A q \in Process \ {p} : walk'[q] = walk[q]
    BY <2>1, <2>2, <2>4 DEF TypeOK, Walk
  <2>6. /\ Goto(p, "provider") /\ UNCHANGED <<recon, lease, work>>
    BY <1>3 DEF SelectBatch, E
  <2>7. LocalsOK'
    BY <2>1, <2>3, <2>5, <2>6 DEF TypeOK, LocalsOK, Goto, Control, BatchRun
  <2> QED BY <1>1, <2>7, TypePartsPrime
<1> QED BY <1>2, <1>3

LEMMA WalkEndsType ==
  ASSUME TypeOK, NEW p \in Process, WalkEnds(p) PROVE TypeOK'
<1>1. SharedOK'
  BY DEF TypeOK, SharedOK, WalkEnds, stateVars, timeVars, chainVars, boundVars
<1>2. LocalsOK'
  BY GotoLocals, TypeParts DEF WalkEnds, Control, BatchRun
<1> QED BY <1>1, <1>2, TypePartsPrime

LEMMA ChooseProviderType ==
  ASSUME TypeOK, NEW p \in Process, NEW i \in DOMAIN Operators, ChooseProvider(p, i)
  PROVE  TypeOK'
<1>1. SharedOK'
  BY DEF TypeOK, SharedOK, ChooseProvider, stateVars, timeVars, chainVars, boundVars
<1> DEFINE Q == Capped(walk[p].queue, MaxBatchSize[Operators[i]])
           L == [batch |-> walk[p].batch, operator |-> Operators[i], attempt |-> 0]
<1>2. Q \subseteq walk[p].queue
  BY DEF Capped
<1>3. L \in RunLock /\ walk[p].batch \in Batch
  BY DEF TypeOK, ChooseProvider, RunLock, Operator
<1>4. /\ walk' = [walk EXCEPT ![p].queue = Q]
      /\ lease' = [lease EXCEPT ![p] = L]
      /\ Goto(p, "acquire") /\ UNCHANGED <<recon, work>>
  BY DEF ChooseProvider
<1> HIDE DEF Q, L
<1>5. /\ walk' \in [Process -> Walk]
      /\ walk'[p].queue = Q
      /\ walk'[p].campaign = walk[p].campaign /\ walk'[p].batch = walk[p].batch
      /\ \A q \in Process \ {p} : walk'[q] = walk[q]
  BY <1>2, <1>4 DEF TypeOK, Walk
<1>6. LocalsOK'
  BY <1>2, <1>3, <1>4, <1>5 DEF TypeOK, LocalsOK, Goto, Control, BatchRun
<1> QED BY <1>1, <1>6, TypePartsPrime

LEMMA DeferBatchType ==
  ASSUME TypeOK, NEW p \in Process, DeferBatch(p) PROVE TypeOK'
<1>1. SharedOK'
  BY DEF TypeOK, SharedOK, DeferBatch, stateVars, timeVars, chainVars, boundVars
<1> QED BY <1>1, NextBatchLocals, TypePartsPrime, TypeParts DEF DeferBatch

LEMMA AcquireRunLockType ==
  ASSUME TypeOK, NEW p \in Process, AcquireRunLock(p) PROVE TypeOK'
<1> DEFINE ticket == batchAttempts[walk[p].batch] + 1
<1>1. CASE runLock # NoLock
  <2>1. SharedOK'
    BY <1>1 DEF TypeOK, SharedOK, AcquireRunLock, timeVars, chainVars, boundVars
  <2> QED BY <1>1, <2>1, SettledLocals, TypePartsPrime, TypeParts DEF AcquireRunLock
<1>2. CASE runLock = NoLock
  <2>1. /\ walk[p].batch \in Batch /\ lease[p] \in RunLock
        /\ ticket \in Nat
    BY DEF TypeOK, AcquireRunLock
  <2>2. /\ batchAttempts' = [batchAttempts EXCEPT ![walk[p].batch] = ticket]
        /\ runLock' = [lease[p] EXCEPT !.attempt = ticket]
        /\ lease' = [lease EXCEPT ![p] = [lease[p] EXCEPT !.attempt = ticket]]
        /\ Goto(p, "next") /\ UNCHANGED <<recon, walk, work>>
    BY <1>2 DEF AcquireRunLock
  <2> HIDE DEF ticket
  <2>3. [lease[p] EXCEPT !.attempt = ticket] \in RunLock
    BY <2>1 DEF RunLock
  <2>4. SharedOK'
    BY <2>1, <2>2, <2>3 DEF TypeOK, SharedOK, AcquireRunLock, timeVars, chainVars, boundVars
  <2>5. LocalsOK'
    BY <2>1, <2>2, <2>3 DEF TypeOK, LocalsOK, Goto, Control, BatchRun
  <2> QED BY <2>4, <2>5, TypePartsPrime
<1> QED BY <1>1, <1>2

LEMMA BatchDrainedType ==
  ASSUME TypeOK, NEW p \in Process, BatchDrained(p) PROVE TypeOK'
<1>1. SharedOK'
  BY DEF TypeOK, SharedOK, BatchDrained, stateVars, timeVars, chainVars, boundVars
<1>2. LocalsOK'
  BY GotoLocals, TypeParts DEF BatchDrained, Control, BatchRun
<1> QED BY <1>1, <1>2, TypePartsPrime

LEMMA PlanningFailsType ==
  ASSUME TypeOK, NEW p \in Process, PlanningFails(p) PROVE TypeOK'
<1>1. SharedOK'
  BY DEF TypeOK, SharedOK, PlanningFails, stateVars, timeVars, chainVars
<1> QED BY <1>1, NextBatchLocals, TypePartsPrime, TypeParts DEF PlanningFails

(* While a batch runs, the message in hand is one the chain and the log can hold. *)
LEMMA MineTyped ==
  ASSUME TypeOK, NEW p \in Process, pc[p] \in BatchRun
  PROVE  Mine(p) \in Message /\ work[p].key \in Key /\ work[p].attempt \in Nat
  BY DEF TypeOK, Mine, Message, Work, RunLock

(* A state key of the batch in hand. *)
LEMMA QueuedKey ==
  ASSUME TypeOK, NEW p \in Process, pc[p] \in BatchRun, NEW i \in walk[p].queue
  PROVE  <<walk[p].batch, walk[p].campaign.recipients[i]>> \in Key
<1>1. /\ walk[p].batch \in Batch /\ walk[p].campaign \in Campaigns
      /\ i \in Slice(walk[p].campaign, walk[p].batch)
  BY DEF TypeOK, Walk
<1>2. walk[p].campaign.recipients \in Seq(Recipient)
  BY <1>1, CampaignAssumption
<1>3. walk[p].campaign.recipients[i] \in Recipient
  BY <1>1, <1>2 DEF Slice, Positions
<1> QED BY <1>1, <1>3 DEF Key

LEMMA HookAndLockType ==
  ASSUME TypeOK, NEW p \in Process, NEW i \in walk[p].queue, HookAndLock(p, i)
  PROVE  TypeOK'
<1> DEFINE k == <<walk[p].batch, walk[p].campaign.recipients[i]>>
           n == entries[k].attempt + 1
           e == [status |-> "submitted", attempt |-> n, operator |-> lease[p].operator]
           W(v) == [key |-> k, attempt |-> n, verdict |-> v]
<1>1. pc[p] = "next" /\ pc[p] \in BatchRun
  BY DEF HookAndLock, BatchRun
<1>2. CASE ~Eligible(k)
  <2>1. SharedOK'
    BY <1>2 DEF TypeOK, SharedOK, HookAndLock, timeVars, chainVars, boundVars
  <2> QED BY <1>2, <2>1, UnwindsLocals, TypePartsPrime, TypeParts DEF HookAndLock
<1>3. CASE Eligible(k)
  <2>1. k \in Key
    BY <1>1, QueuedKey
  <2>2. /\ entries' = [entries EXCEPT ![k] = e]
        /\ aged' = aged \ {k} /\ cooling' = cooling \ {k}
        /\ walk' = [walk EXCEPT ![p].queue = @ \ {i}]
        /\ \/ work' = [work EXCEPT ![p] = W("success")] /\ Goto(p, "record")
           \/ work' = [work EXCEPT ![p] = W("none")] /\ Goto(p, "broadcast")
        /\ UNCHANGED <<status, runLock, batchAttempts, benched, audit, chainVars,
                       recon, lease, boundVars>>
    BY <1>3 DEF HookAndLock
  <2>3. n \in Nat /\ lease[p].operator \in Operator
    BY <1>1, <2>1 DEF TypeOK, Entry, RunLock
  <2>4. e \in Entry /\ e.operator \in Operator /\ W("success") \in Work /\ W("none") \in Work
    BY <2>1, <2>3 DEF Entry, EntryStatus, Work, Verdict
  <2> HIDE DEF k, n, e, W
  <2>5. SharedOK'
    <3>1. /\ entries' \in [Key -> Entry]
          /\ \A x \in Key : entries'[x].status = "submitted" => entries'[x].operator \in Operator
      BY <2>1, <2>2, <2>4 DEF TypeOK
    <3> QED BY <2>2, <3>1 DEF TypeOK, SharedOK, chainVars, boundVars
  <2>6. /\ walk' \in [Process -> Walk]
        /\ walk'[p].queue \subseteq walk[p].queue
        /\ walk'[p].campaign = walk[p].campaign /\ walk'[p].batch = walk[p].batch
        /\ \A q \in Process \ {p} : walk'[q] = walk[q]
    BY <2>2 DEF TypeOK, Walk
  <2>7. work' \in [Process -> Work]
    BY <2>2, <2>4 DEF TypeOK
  <2>8. LocalsOK'
    BY <1>1, <2>2, <2>6, <2>7 DEF TypeOK, LocalsOK, Goto, Control, BatchRun
  <2> QED BY <2>5, <2>8, TypePartsPrime
<1> QED BY <1>2, <1>3

LEMMA BroadcastType ==
  ASSUME TypeOK, NEW p \in Process, Broadcast(p) PROVE TypeOK'
<1>1. SharedOK'
  BY MineTyped DEF TypeOK, SharedOK, Broadcast, stateVars, timeVars, boundVars, BatchRun
<1>2. LocalsOK'
  BY GotoLocals, TypeParts DEF Broadcast, Control, BatchRun
<1> QED BY <1>1, <1>2, TypePartsPrime

LEMMA BroadcastReturnsType ==
  ASSUME TypeOK, NEW p \in Process, BroadcastReturns(p) PROVE TypeOK'
<1>1. SharedOK'
  BY DEF TypeOK, SharedOK, BroadcastReturns, stateVars, timeVars, chainVars, boundVars
<1>2. [work[p] EXCEPT !.verdict = "success"] \in Work
  BY DEF TypeOK, Work, Verdict
<1>3. LocalsOK'
  BY <1>2, WorkLocals, TypeParts DEF BroadcastReturns, Control, BatchRun
<1> QED BY <1>1, <1>3, TypePartsPrime

LEMMA BroadcastFailsType ==
  ASSUME TypeOK, NEW p \in Process, NEW f \in Failures, BroadcastFails(p, f) PROVE TypeOK'
<1> DEFINE v == IF classifyMessage(f) = "uncertain_submission" THEN "hold"
                ELSE disposition(classifyMessage(f), work[p].attempt)
<1>1. SharedOK'
  BY DEF TypeOK, SharedOK, BroadcastFails, stateVars, timeVars, chainVars, boundVars
<1>2. v \in Verdict
  BY DEF disposition, Verdict, RetryDisposition
<1>3. CASE Unwinds(p)
  BY <1>1, <1>3, UnwindsLocals, TypePartsPrime, TypeParts DEF BroadcastFails
<1>4. CASE work' = [work EXCEPT ![p].verdict = v] /\ Goto(p, "record")
  <2>1. [work[p] EXCEPT !.verdict = v] \in Work
    BY <1>2 DEF TypeOK, Work
  <2> HIDE DEF v
  <2>2. LocalsOK'
    BY <1>4, <2>1, WorkLocals, TypeParts DEF BroadcastFails, Control, BatchRun
  <2> QED BY <1>1, <2>2, TypePartsPrime
<1> QED BY <1>3, <1>4 DEF BroadcastFails

LEMMA RecordType ==
  ASSUME TypeOK, NEW p \in Process, Record(p) PROVE TypeOK'
<1>1. \A o \in {"success", "failed"} : RowOf(Mine(p), o) \in Row
  BY MineTyped DEF Record, RowOf, Row, Message, Terminal, BatchRun
<1>2. SharedOK'
  BY <1>1 DEF TypeOK, SharedOK, Record, stateVars, timeVars, chainVars, boundVars
<1>3. LocalsOK'
  BY GotoLocals, TypeParts DEF Record, Control, BatchRun
<1> QED BY <1>2, <1>3, TypePartsPrime

LEMMA BenchOperatorType ==
  ASSUME TypeOK, NEW p \in Process, BenchOperator(p) PROVE TypeOK'
<1>1. SharedOK'
  BY DEF TypeOK, SharedOK, BenchOperator, timeVars, chainVars, boundVars, BatchRun, RunLock
<1>2. LocalsOK'
  BY GotoLocals, TypeParts DEF BenchOperator, Control, BatchRun
<1> QED BY <1>1, <1>2, TypePartsPrime

LEMMA SettleType ==
  ASSUME TypeOK, NEW p \in Process, Settle(p) PROVE TypeOK'
<1> DEFINE k == work[p].key
           v == work[p].verdict
<1>1. k \in Key /\ pc[p] \in BatchRun /\ v \in Verdict
  BY DEF TypeOK, Settle, BatchRun, Work
<1>2. CASE ~SubmittedAs(k, work[p].attempt, lease[p].operator)
  <2>1. SharedOK'
    BY <1>2 DEF TypeOK, SharedOK, Settle, timeVars, chainVars, boundVars
  <2> QED BY <1>2, <2>1, UnwindsLocals, TypePartsPrime, TypeParts DEF Settle
<1>3. CASE SubmittedAs(k, work[p].attempt, lease[p].operator)
  <2>1. SettledStatus(v) \in EntryStatus
    BY DEF SettledStatus, EntryStatus
  <2>2. /\ entries' \in [Key -> Entry]
        /\ \A x \in Key : entries'[x].status = "submitted" => entries'[x].operator \in Operator
    <3>1. entries' = [entries EXCEPT ![k].status = SettledStatus(v)]
      BY <1>3 DEF Settle
    <3>2. entries[k] \in Entry /\ entries[k].operator \in Operator
      BY <1>1, <1>3 DEF TypeOK, SubmittedAs
    <3>3. [entries[k] EXCEPT !.status = SettledStatus(v)] \in Entry
      BY <2>1, <3>2 DEF Entry
    <3>4. entries'[k].operator = entries[k].operator
      BY <1>1, <3>1, <3>2 DEF TypeOK, Entry
    <3> QED BY <1>1, <3>1, <3>2, <3>3, <3>4 DEF TypeOK
  <2>3. SharedOK'
    BY <1>1, <1>3, <2>2 DEF TypeOK, SharedOK, Settle, chainVars, boundVars, FinalStatus
  <2>4. AfterSettle(v) \in {"credit", "next", "rotated", "release"}
    BY DEF AfterSettle
  <2>5. Goto(p, AfterSettle(v)) /\ UNCHANGED localVars
    BY <1>3 DEF Settle, localVars
  <2>6. LocalsOK'
    BY <1>1, <2>4, <2>5, GotoLocals, TypeParts DEF Control, BatchRun
  <2> QED BY <2>3, <2>6, TypePartsPrime
<1> QED BY <1>2, <1>3

LEMMA NoteRotationType ==
  ASSUME TypeOK, NEW p \in Process, NoteRotation(p) PROVE TypeOK'
<1>1. SharedOK'
  BY DEF TypeOK, SharedOK, NoteRotation, stateVars, timeVars, chainVars, boundVars
<1>2. LocalsOK'
  BY GotoLocals, TypeParts DEF NoteRotation, Control, BatchRun
<1> QED BY <1>1, <1>2, TypePartsPrime

LEMMA CreditOperatorType ==
  ASSUME TypeOK, NEW p \in Process, CreditOperator(p) PROVE TypeOK'
<1>1. SharedOK'
  BY DEF TypeOK, SharedOK, CreditOperator, timeVars, chainVars, boundVars
<1>2. LocalsOK'
  BY GotoLocals, TypeParts DEF CreditOperator, Control, BatchRun
<1> QED BY <1>1, <1>2, TypePartsPrime

LEMMA ReleaseRunLockType ==
  ASSUME TypeOK, NEW p \in Process, ReleaseRunLock(p) PROVE TypeOK'
<1>1. SharedOK'
  BY DEF TypeOK, SharedOK, ReleaseRunLock, timeVars, chainVars, boundVars
<1>2. CASE Settled(p)
  BY <1>1, <1>2, SettledLocals, TypePartsPrime, TypeParts
<1>3. CASE Goto(p, "finalize") /\ UNCHANGED localVars
  <2>1. LocalsOK'
    BY <1>3, GotoLocals, TypeParts DEF Control, BatchRun
  <2> QED BY <1>1, <2>1, TypePartsPrime
<1>4. CASE NextBatch(p) /\ UNCHANGED recon
  BY <1>1, <1>4, NextBatchLocals, TypePartsPrime, TypeParts
<1> QED BY <1>2, <1>3, <1>4 DEF ReleaseRunLock

LEMMA ReadFinalType ==
  ASSUME TypeOK, NEW p \in Process, ReadFinal(p) PROVE TypeOK'
<1>1. SharedOK'
  BY DEF TypeOK, SharedOK, ReadFinal, stateVars, timeVars, chainVars, boundVars
<1>2. PICK f \in FinalStatus : walk' = [walk EXCEPT ![p].final = f]
  BY DEF ReadFinal, FinalStatus
<1>3. /\ walk' \in [Process -> Walk]
      /\ \A q \in Process : /\ walk'[q].queue = walk[q].queue
                            /\ walk'[q].campaign = walk[q].campaign
                            /\ walk'[q].batch = walk[q].batch
  BY <1>2 DEF TypeOK, Walk
<1>4. LocalsOK'
  BY <1>3 DEF TypeOK, LocalsOK, ReadFinal, Goto, Control, BatchRun
<1> QED BY <1>1, <1>4, TypePartsPrime

LEMMA CommitFinalType ==
  ASSUME TypeOK, NEW p \in Process, CommitFinal(p) PROVE TypeOK'
<1>1. SharedOK'
  BY DEF TypeOK, SharedOK, CommitFinal, timeVars, chainVars, boundVars, Walk
<1> QED BY <1>1, SettledLocals, TypePartsPrime, TypeParts DEF CommitFinal

LEMMA AwaitThrowsType ==
  ASSUME TypeOK, NEW p \in Process, AwaitThrows(p) PROVE TypeOK'
<1>1. SharedOK'
  BY DEF TypeOK, SharedOK, AwaitThrows, stateVars, timeVars, chainVars
<1> QED BY <1>1, SettledLocals, UnwindsLocals, TypePartsPrime, TypeParts DEF AwaitThrows

LEMMA CrashType ==
  ASSUME TypeOK, NEW p \in Process, Crash(p) PROVE TypeOK'
<1>1. SharedOK'
  BY DEF TypeOK, SharedOK, Crash, stateVars, timeVars, chainVars
<1> QED BY <1>1, SettledLocals, TypePartsPrime, TypeParts DEF Crash

LEMMA EnvironmentType ==
  ASSUME TypeOK, Chain \/ Clock PROVE TypeOK'
<1>1. LocalsOK'
  BY DEF TypeOK, LocalsOK, Chain, Clock, Mint, Drop, ZombieTimeout, CooldownPasses,
         WindowPasses, localVars
<1>2. SharedOK'
  BY DEF TypeOK, SharedOK, Chain, Clock, Mint, Drop, ZombieTimeout, CooldownPasses,
         WindowPasses, stateVars, timeVars, chainVars, boundVars
<1> QED BY <1>1, <1>2, TypePartsPrime

LEMMA StepType ==
  ASSUME TypeOK, NEW p \in Process, Step(p) PROVE TypeOK'
  BY ReconcileLoadType, ReconcileEvidenceType, ReconcileUnprovenType,
     ReconcileProvenType, ReconcileDoneType, MarkRunningType, PlanBatchesType,
     SelectBatchType, WalkEndsType, ChooseProviderType, DeferBatchType,
     AcquireRunLockType, BatchDrainedType, HookAndLockType, BroadcastType,
     BroadcastReturnsType, BroadcastFailsType, RecordType, BenchOperatorType,
     SettleType, NoteRotationType, CreditOperatorType, ReleaseRunLockType,
     ReadFinalType, CommitFinalType
  DEF Step

LEMMA TypeInit == Init => TypeOK
<1> SUFFICES ASSUME Init PROVE TypeOK
  OBVIOUS
<1>1. SharedOK
  BY DEF Init, SharedOK, Entry, AbsentEntry, EntryStatus, NoLock
<1>2. LocalsOK
  BY NullsTyped DEF Init, LocalsOK, Control, BatchRun
<1> QED BY <1>1, <1>2, TypeParts

LEMMA TypeStep == TypeOK /\ [Next]_vars => TypeOK'
<1> SUFFICES ASSUME TypeOK, [Next]_vars PROVE TypeOK'
  OBVIOUS
<1>1. ASSUME NEW p \in Process, Dispatch(p) PROVE TypeOK'
  BY <1>1, DispatchType
<1>2. ASSUME NEW p \in Process, Step(p) PROVE TypeOK'
  BY <1>2, StepType
<1>3. ASSUME NEW p \in Process, Fault(p) PROVE TypeOK'
  BY <1>3, PlanningFailsType, AwaitThrowsType, CrashType DEF Fault
<1>4. CASE Chain \/ Clock
  BY <1>4, EnvironmentType
<1>5. CASE UNCHANGED vars
  BY <1>5 DEF TypeOK, vars, stateVars, timeVars, chainVars, localVars, boundVars
<1> QED BY <1>1, <1>2, <1>3, <1>4, <1>5 DEF Next

(* Every reachable state is well typed: the run state passes the store's own
   validator, and a process never serves a recipient outside its planned batch. *)
THEOREM Typing == Spec => []TypeOK
<1>1. Init => TypeOK
  BY TypeInit
<1>2. TypeOK /\ [Next]_vars => TypeOK'
  BY TypeStep
<1> QED BY <1>1, <1>2, PTL DEF Spec

-----------------------------------------------------------------------------
(* Who writes what *)

(* A step of the reconciler comes to another one, or the call settles. *)
LEMMA ReconcilerGoes ==
  ASSUME TypeOK, NEW p \in Process,
         \/ ReconcileLoad(p) \/ ReconcileEvidence(p)
         \/ \E e \in recon[p].pending : ReconcileUnproven(p, e)
         \/ \E e \in recon[p].pending, r \in recon[p].evidence : ReconcileProven(p, e, r)
  PROVE  /\ pc'[p] \in {"evidence", "reconcile", "idle"}
         /\ \A q \in Process \ {p} :
              /\ pc'[q] = pc[q] /\ lease'[q] = lease[q] /\ work'[q] = work[q]
              /\ walk'[q] = walk[q] /\ recon'[q] = recon[q]
<1> DEFINE goes == /\ pc'[p] \in {"evidence", "reconcile", "idle"}
                   /\ \A q \in Process \ {p} :
                        /\ pc'[q] = pc[q] /\ lease'[q] = lease[q] /\ work'[q] = work[q]
                        /\ walk'[q] = walk[q] /\ recon'[q] = recon[q]
<1>1. ASSUME Settled(p) PROVE goes
  BY <1>1 DEF TypeOK, Settled, Goto
<1>2. ASSUME pc'[p] \in {"evidence", "reconcile"}, UNCHANGED <<walk, lease, work>>,
             \A q \in Process \ {p} : pc'[q] = pc[q] /\ recon'[q] = recon[q]
      PROVE  goes
  BY <1>2
<1>3. CASE ReconcileLoad(p)
  BY <1>2, <1>3 DEF ReconcileLoad, Goto, TypeOK
<1>4. CASE ReconcileEvidence(p)
  <2>1. PICK rows \in SUBSET TerminalEvidence :
          IF Conflicting(rows) THEN Settled(p)
          ELSE /\ recon' = [recon EXCEPT ![p].evidence = rows]
               /\ Goto(p, "reconcile")
               /\ UNCHANGED <<walk, lease, work>>
    BY <1>4 DEF ReconcileEvidence
  <2>2. CASE Conflicting(rows)
    BY <1>1, <2>1, <2>2
  <2>3. CASE ~Conflicting(rows)
    BY <1>2, <2>1, <2>3 DEF Goto, TypeOK
  <2> QED BY <2>2, <2>3
<1>5. ASSUME NEW e \in recon[p].pending, ReconcileUnproven(p, e) PROVE goes
  <2>1. CASE e.aged
    BY <1>1, <1>5, <2>1 DEF ReconcileUnproven
  <2>2. CASE ~e.aged
    BY <1>2, <1>5, <2>2 DEF ReconcileUnproven, TypeOK
  <2> QED BY <2>1, <2>2
<1>6. ASSUME NEW e \in recon[p].pending, NEW r \in recon[p].evidence, ReconcileProven(p, e, r)
      PROVE  goes
  <2>1. CASE Settled(p)
    BY <1>1, <2>1
  <2>2. CASE ~Settled(p)
    <3>1. /\ recon' = [recon EXCEPT ![p].pending = @ \ {e}]
          /\ pc[p] = "reconcile" /\ UNCHANGED <<pc, walk, lease, work>>
      BY <1>6, <2>2 DEF ReconcileProven
    <3> QED BY <1>2, <3>1 DEF TypeOK
  <2> QED BY <2>1, <2>2
<1> QED BY <1>3, <1>4, <1>5, <1>6 DEF goes

(* A step of one process leaves the locals of the others alone. *)
LEMMA OthersUntouched ==
  ASSUME NEW p \in Process, TypeOK, Dispatch(p) \/ Step(p) \/ Fault(p),
         NEW q \in Process \ {p}
  PROVE  /\ pc'[q] = pc[q] /\ lease'[q] = lease[q] /\ work'[q] = work[q]
         /\ walk'[q] = walk[q] /\ recon'[q] = recon[q]
<1> DEFINE Kept == /\ pc'[q] = pc[q] /\ lease'[q] = lease[q] /\ work'[q] = work[q]
                   /\ walk'[q] = walk[q] /\ recon'[q] = recon[q]
<1>1. CASE Dispatch(p) \/ Fault(p)
  BY <1>1 DEF TypeOK, Dispatch, Fault, PlanningFails, AwaitThrows, Crash, Settled,
              Unwinds, NextBatch, Goto
<1>2. CASE Step(p)
  <2>1. CASE \/ ReconcileLoad(p) \/ ReconcileEvidence(p)
             \/ \E e \in recon[p].pending : ReconcileUnproven(p, e)
             \/ \E e \in recon[p].pending, r \in recon[p].evidence : ReconcileProven(p, e, r)
             \/ ReconcileDone(p) \/ MarkRunning(p) \/ PlanBatches(p) \/ SelectBatch(p)
    <3>1. CASE \/ ReconcileLoad(p) \/ ReconcileEvidence(p)
               \/ \E e \in recon[p].pending : ReconcileUnproven(p, e)
               \/ \E e \in recon[p].pending, r \in recon[p].evidence : ReconcileProven(p, e, r)
      BY <3>1, ReconcilerGoes
    <3>2. CASE ReconcileDone(p) \/ MarkRunning(p) \/ PlanBatches(p) \/ SelectBatch(p)
      BY <3>2 DEF TypeOK, ReconcileDone, MarkRunning, PlanBatches, SelectBatch, Settled,
                  NextBatch, Goto, localVars
    <3> QED BY <2>1, <3>1, <3>2
  <2>2. CASE \/ WalkEnds(p) \/ DeferBatch(p) \/ AcquireRunLock(p) \/ BatchDrained(p)
             \/ \E i \in DOMAIN Operators : ChooseProvider(p, i)
    BY <2>2 DEF TypeOK, WalkEnds, ChooseProvider, DeferBatch, AcquireRunLock,
                BatchDrained, Settled, NextBatch, Goto, localVars
  <2>3. ASSUME NEW i \in walk[p].queue, HookAndLock(p, i) PROVE Kept
    BY <2>3 DEF TypeOK, HookAndLock, Unwinds, Goto
  <2>4. CASE \/ Broadcast(p) \/ BroadcastReturns(p) \/ (\E f \in Failures : BroadcastFails(p, f))
             \/ Record(p) \/ BenchOperator(p) \/ Settle(p)
    BY <2>4 DEF TypeOK, Broadcast, BroadcastReturns, BroadcastFails, Record,
                BenchOperator, Settle, Unwinds, Goto, localVars
  <2>5. CASE \/ NoteRotation(p) \/ CreditOperator(p) \/ ReleaseRunLock(p)
             \/ ReadFinal(p) \/ CommitFinal(p)
    BY <2>5 DEF TypeOK, NoteRotation, CreditOperator, ReleaseRunLock, ReadFinal,
                CommitFinal, Settled, NextBatch, Goto, localVars
  <2> QED BY <1>2, <2>1, <2>2, <2>3, <2>4, <2>5 DEF Step
<1> QED BY <1>1, <1>2

(* Entries are written by the recovery, by Hook & Lock and by the settlement. *)
LEMMA EntriesWritten ==
  ASSUME NEW p \in Process, Dispatch(p) \/ Step(p) \/ Fault(p)
  PROVE  \/ UNCHANGED entries
         \/ \E e \in recon[p].pending, r \in recon[p].evidence : ReconcileProven(p, e, r)
         \/ \E i \in walk[p].queue : HookAndLock(p, i)
         \/ Settle(p)
<1>1. CASE Dispatch(p) \/ Fault(p)
  BY <1>1 DEF Dispatch, Fault, PlanningFails, AwaitThrows, Crash, stateVars
<1>2. CASE Step(p)
  BY <1>2 DEF Step, ReconcileLoad, ReconcileEvidence, ReconcileUnproven, ReconcileDone,
     MarkRunning, PlanBatches, SelectBatch, WalkEnds, ChooseProvider, DeferBatch,
     AcquireRunLock, BatchDrained, Broadcast, BroadcastReturns, BroadcastFails, Record,
     BenchOperator, NoteRotation, CreditOperator, ReleaseRunLock, ReadFinal, CommitFinal,
     stateVars
<1> QED BY <1>1, <1>2

(* The recovery writes a terminal status over the submitted entry it is about. *)
LEMMA RecoveryWrites ==
  ASSUME TypeOK, NEW p \in Process, NEW e \in recon[p].pending,
         NEW r \in recon[p].evidence, ReconcileProven(p, e, r)
  PROVE  \/ UNCHANGED entries
         \/ /\ e.key \in Key /\ r.key = e.key /\ r.attempt = e.attempt
            /\ r.operator = e.operator /\ r.outcome \in Terminal
            /\ SubmittedAs(e.key, e.attempt, e.operator)
            /\ entries' = [entries EXCEPT ![e.key] =
                 [status |-> r.outcome, attempt |-> e.attempt, operator |-> e.operator]]
<1>1. CASE UNCHANGED entries
  BY <1>1
<1>2. CASE /\ r.attempt = e.attempt /\ r.operator = e.operator /\ r.outcome \in Terminal
           /\ SubmittedAs(e.key, e.attempt, e.operator)
           /\ entries' = [entries EXCEPT ![e.key].status = r.outcome]
  <2>1. e.key \in Key
    BY DEF TypeOK, Reconciliation
  <2>2. [entries[e.key] EXCEPT !.status = r.outcome]
          = [status |-> r.outcome, attempt |-> e.attempt, operator |-> e.operator]
    BY <1>2 DEF SubmittedAs
  <2>3. entries' = [entries EXCEPT ![e.key] = [entries[e.key] EXCEPT !.status = r.outcome]]
    BY <1>2
  <2> QED BY <1>2, <2>1, <2>2, <2>3 DEF ReconcileProven
<1> QED BY <1>1, <1>2 DEF ReconcileProven

(* Hook & Lock submits the next attempt of an eligible entry. *)
LEMMA HookWrites ==
  ASSUME TypeOK, NEW p \in Process, NEW i \in walk[p].queue, HookAndLock(p, i)
  PROVE  \/ UNCHANGED entries /\ Unwinds(p)
         \/ \E k \in Key, n \in Nat :
              /\ k = <<walk[p].batch, walk[p].campaign.recipients[i]>>
              /\ n = entries[k].attempt + 1 /\ Eligible(k)
              /\ entries' = [entries EXCEPT ![k] =
                   [status |-> "submitted", attempt |-> n, operator |-> lease[p].operator]]
              /\ \/ /\ work' = [work EXCEPT ![p] =
                         [key |-> k, attempt |-> n, verdict |-> "success"]]
                    /\ Goto(p, "record")
                 \/ /\ work' = [work EXCEPT ![p] =
                         [key |-> k, attempt |-> n, verdict |-> "none"]]
                    /\ Goto(p, "broadcast")
<1> DEFINE k == <<walk[p].batch, walk[p].campaign.recipients[i]>>
           n == entries[k].attempt + 1
<1>1. pc[p] \in BatchRun
  BY DEF HookAndLock, BatchRun
<1>2. k \in Key
  BY <1>1, QueuedKey
<1>3. n \in Nat
  BY <1>2 DEF TypeOK, Entry
<1>4. CASE ~Eligible(k)
  BY <1>4 DEF HookAndLock
<1>5. CASE Eligible(k)
  <2>1. /\ entries' = [entries EXCEPT ![k] =
             [status |-> "submitted", attempt |-> n, operator |-> lease[p].operator]]
        /\ \/ /\ work' = [work EXCEPT ![p] = [key |-> k, attempt |-> n, verdict |-> "success"]]
              /\ Goto(p, "record")
           \/ /\ work' = [work EXCEPT ![p] = [key |-> k, attempt |-> n, verdict |-> "none"]]
              /\ Goto(p, "broadcast")
    BY <1>5 DEF HookAndLock
  <2> QED BY <1>2, <1>3, <1>5, <2>1
<1> QED BY <1>4, <1>5

(* The settlement replaces the submitted entry in hand. *)
LEMMA SettleWrites ==
  ASSUME TypeOK, NEW p \in Process, Settle(p)
  PROVE  \/ UNCHANGED entries
         \/ /\ work[p].key \in Key
            /\ SubmittedAs(work[p].key, work[p].attempt, lease[p].operator)
            /\ entries' = [entries EXCEPT ![work[p].key] =
                 [status |-> SettledStatus(work[p].verdict), attempt |-> work[p].attempt,
                  operator |-> lease[p].operator]]
<1> DEFINE k == work[p].key
           s == SettledStatus(work[p].verdict)
<1>1. CASE ~SubmittedAs(k, work[p].attempt, lease[p].operator)
  BY <1>1 DEF Settle
<1>2. CASE SubmittedAs(k, work[p].attempt, lease[p].operator)
  <2>1. entries' = [entries EXCEPT ![k] = [entries[k] EXCEPT !.status = s]]
    BY <1>2 DEF Settle
  <2>2. [entries[k] EXCEPT !.status = s]
          = [status |-> s, attempt |-> work[p].attempt, operator |-> lease[p].operator]
    BY <1>2 DEF SubmittedAs
  <2>3. k \in Key
    BY DEF TypeOK, Work
  <2> QED BY <1>2, <2>1, <2>2, <2>3
<1> QED BY <1>1, <1>2
-----------------------------------------------------------------------------
(* Terminal entries *)

LEMMA TerminalStep == TypeOK /\ [Next]_vars =>
                        \A k \in Key : entries[k].status \in Terminal => entries'[k] = entries[k]
<1> SUFFICES ASSUME TypeOK, [Next]_vars,
                    NEW k \in Key, entries[k].status \in Terminal
             PROVE  entries'[k] = entries[k]
  OBVIOUS
<1>1. ASSUME NEW p \in Process, Dispatch(p) \/ Step(p) \/ Fault(p)
      PROVE  entries'[k] = entries[k]
  <2>1. CASE UNCHANGED entries
    BY <2>1
  <2>2. ASSUME NEW e \in recon[p].pending, NEW r \in recon[p].evidence,
               ReconcileProven(p, e, r)
        PROVE  entries'[k] = entries[k]
    <3>1. CASE /\ e.key \in Key /\ SubmittedAs(e.key, e.attempt, e.operator)
               /\ entries' = [entries EXCEPT ![e.key] = [status |-> r.outcome,
                                attempt |-> e.attempt, operator |-> e.operator]]
      BY <3>1 DEF TypeOK, SubmittedAs, Terminal
    <3> QED BY <2>2, <3>1, RecoveryWrites
  <2>3. ASSUME NEW i \in walk[p].queue, HookAndLock(p, i)
        PROVE  entries'[k] = entries[k]
    <3>1. CASE UNCHANGED entries
      BY <3>1
    <3>2. CASE ~UNCHANGED entries
      <4>1. PICK x \in Key, n \in Nat :
              /\ Eligible(x)
              /\ entries' = [entries EXCEPT ![x] = [status |-> "submitted",
                               attempt |-> n, operator |-> lease[p].operator]]
        BY <2>3, <3>2, HookWrites
      <4>2. x # k
        BY <4>1 DEF Eligible, Terminal
      <4> QED BY <4>1, <4>2 DEF TypeOK
    <3> QED BY <3>1, <3>2
  <2>4. CASE Settle(p)
    <3>1. CASE UNCHANGED entries
      BY <3>1
    <3>2. CASE ~UNCHANGED entries
      <4>1. SubmittedAs(work[p].key, work[p].attempt, lease[p].operator)
        BY <2>4, <3>2, SettleWrites
      <4>2. entries' = [entries EXCEPT ![work[p].key] =
              [status |-> SettledStatus(work[p].verdict), attempt |-> work[p].attempt,
               operator |-> lease[p].operator]]
        BY <2>4, <3>2, SettleWrites
      <4>3. work[p].key # k
        BY <4>1 DEF SubmittedAs, Terminal
      <4> QED BY <4>2, <4>3 DEF TypeOK
    <3> QED BY <3>1, <3>2
  <2> QED BY <1>1, <2>1, <2>2, <2>3, <2>4, EntriesWritten
<1>2. CASE Chain \/ Clock \/ UNCHANGED vars
  BY <1>2 DEF Chain, Clock, Mint, Drop, ZombieTimeout, CooldownPasses, WindowPasses,
              vars, stateVars
<1> QED BY <1>1, <1>2 DEF Next

(* No step of any process, and no recovery, rewrites an entry that succeeded, failed
   for good, was skipped or was cancelled. *)
THEOREM TerminalFinality == Spec => TerminalIsFinal
<1>1. TypeOK /\ [Next]_vars =>
        [\A k \in Key : entries[k].status \in Terminal => entries'[k] = entries[k]]_vars
  BY TerminalStep
<1> QED BY <1>1, Typing, PTL DEF Spec, TerminalIsFinal

-----------------------------------------------------------------------------
(* The run lock *)

(* A step that takes no lock and gives none back. *)
LEMMA LockKept ==
  ASSUME RunLockInv, NEW p \in Process, UNCHANGED runLock,
         \A q \in Process \ {p} : pc'[q] = pc[q] /\ lease'[q] = lease[q],
         InBatchRun(p)' => InBatchRun(p) /\ lease'[p] = lease[p]
  PROVE  RunLockInv'
  BY DEF RunLockInv, InBatchRun

LEMMA NullLock == NoLock \notin RunLock
  BY DEF NoLock, RunLock, Batch

LEMMA RunLockStep ==
  ASSUME TypeOK, RunLockInv, NEW p \in Process, Dispatch(p) \/ Step(p) \/ Fault(p)
  PROVE  RunLockInv'
<1>1. \A q \in Process \ {p} : pc'[q] = pc[q] /\ lease'[q] = lease[q]
  BY OthersUntouched
<1>2. CASE AcquireRunLock(p)
  <2>1. CASE runLock # NoLock
    BY <1>1, <1>2, <2>1, LockKept DEF TypeOK, AcquireRunLock, Settled, Goto, InBatchRun, BatchRun
  <2>2. CASE runLock = NoLock
    <3>1. \A q \in Process : ~InBatchRun(q)
      BY <2>2, NullLock DEF RunLockInv
    <3>2. walk[p].batch \in Batch /\ lease[p] \in RunLock
      BY <1>2 DEF TypeOK, AcquireRunLock
    <3> DEFINE t == batchAttempts[walk[p].batch] + 1
    <3>3. t \in Nat
      BY <3>2 DEF TypeOK
    <3>4. [lease[p] EXCEPT !.attempt = t] \in RunLock
      BY <3>2, <3>3 DEF RunLock
    <3>5. runLock' = [lease[p] EXCEPT !.attempt = t] /\ lease' = [lease EXCEPT ![p].attempt = t]
      BY <1>2, <2>2 DEF AcquireRunLock
    <3> HIDE DEF t
    <3>6. lease'[p] = runLock'
      BY <3>5 DEF TypeOK
    <3> QED BY <1>1, <3>1, <3>4, <3>5, <3>6 DEF RunLockInv, InBatchRun
  <2> QED BY <2>1, <2>2
<1>3. CASE ReleaseRunLock(p)
  <2>1. \A q \in Process \ {p} : ~InBatchRun(q)
    BY <1>3 DEF RunLockInv, InBatchRun, ReleaseRunLock
  <2>2. ~InBatchRun(p)'
    BY <1>3 DEF TypeOK, ReleaseRunLock, Settled, NextBatch, Goto, InBatchRun, BatchRun
  <2> QED BY <1>1, <2>1, <2>2 DEF RunLockInv, InBatchRun
<1>4. CASE Dispatch(p) \/ Fault(p)
  <2>1. UNCHANGED runLock
    BY <1>4 DEF Dispatch, Fault, PlanningFails, AwaitThrows, Crash, stateVars
  <2>2. InBatchRun(p)' => InBatchRun(p) /\ lease'[p] = lease[p]
    BY <1>4 DEF TypeOK, Dispatch, Fault, PlanningFails, AwaitThrows, Crash, Settled,
                Unwinds, NextBatch, Goto, InBatchRun, BatchRun
  <2> QED BY <1>1, <2>1, <2>2, LockKept
<1>5. CASE \/ ReconcileLoad(p) \/ ReconcileEvidence(p)
           \/ \E e \in recon[p].pending : ReconcileUnproven(p, e)
           \/ \E e \in recon[p].pending, r \in recon[p].evidence : ReconcileProven(p, e, r)
           \/ ReconcileDone(p) \/ MarkRunning(p) \/ PlanBatches(p) \/ SelectBatch(p)
           \/ WalkEnds(p) \/ (\E i \in DOMAIN Operators : ChooseProvider(p, i))
           \/ DeferBatch(p) \/ ReadFinal(p) \/ CommitFinal(p)
  <2>1. UNCHANGED runLock /\ ~InBatchRun(p)'
    BY <1>5 DEF TypeOK, ReconcileLoad, ReconcileEvidence, ReconcileUnproven, ReconcileProven,
                ReconcileDone, MarkRunning, PlanBatches, SelectBatch, WalkEnds,
                ChooseProvider, DeferBatch, ReadFinal, CommitFinal, Settled, NextBatch,
                Goto, stateVars, InBatchRun, BatchRun
  <2> QED BY <1>1, <2>1, LockKept
<1>6. CASE \/ BatchDrained(p) \/ (\E i \in walk[p].queue : HookAndLock(p, i))
           \/ Broadcast(p) \/ BroadcastReturns(p)
           \/ (\E f \in Failures : BroadcastFails(p, f)) \/ Record(p) \/ BenchOperator(p)
           \/ Settle(p) \/ NoteRotation(p) \/ CreditOperator(p)
  <2>1. UNCHANGED <<runLock, lease>> /\ InBatchRun(p)
    BY <1>6 DEF BatchDrained, HookAndLock, Broadcast, BroadcastReturns, BroadcastFails,
                Record, BenchOperator, Settle, NoteRotation, CreditOperator, stateVars,
                localVars, InBatchRun, BatchRun
  <2> QED BY <1>1, <2>1, LockKept
<1> QED BY <1>2, <1>3, <1>4, <1>5, <1>6 DEF Step

LEMMA RunLockNext == TypeOK /\ RunLockInv /\ [Next]_vars => RunLockInv'
<1> SUFFICES ASSUME TypeOK, RunLockInv, [Next]_vars PROVE RunLockInv'
  OBVIOUS
<1>1. CASE Chain \/ Clock \/ UNCHANGED vars
  BY <1>1 DEF Chain, Clock, Mint, Drop, ZombieTimeout, CooldownPasses, WindowPasses,
              vars, stateVars, localVars, RunLockInv, InBatchRun
<1> QED BY <1>1, RunLockStep DEF Next

(* Two processes on one state file never run batches at the same time, and the
   persisted lock names the one that does. *)
THEOREM MutualExclusion == Spec => []RunLockOwned
<1>1. Init => RunLockInv
  BY DEF Init, RunLockInv, InBatchRun, BatchRun
<1>2. TypeOK /\ RunLockInv /\ [Next]_vars => RunLockInv'
  BY RunLockNext
<1>3. RunLockInv => RunLockOwned
  BY DEF RunLockInv, RunLockOwned, InBatchRun
<1> QED BY <1>1, <1>2, <1>3, Typing, PTL DEF Spec

-----------------------------------------------------------------------------
(* Attempts *)

(* The classifier lets no attempt past the maximum, and sends none at it back to
   the same operator; a rotation at the maximum leaves room for one more. *)
LEMMA AttemptStep ==
  ASSUME TypeOK, AttemptInv, NEW p \in Process, Dispatch(p) \/ Step(p) \/ Fault(p)
  PROVE  AttemptInv'
<1> DEFINE E == \A k \in Key :
                  /\ entries[k].attempt <= MaxAttempts + 1
                  /\ entries[k].status \in {"absent", "planned", "cooldown"} =>
                       entries[k].attempt <= MaxAttempts
           R(q) == /\ pc[q] \in {"record", "bench", "settle"}
                   /\ work[q].verdict \in {"retry_same_identity", "rotate_identity"}
           W(q) == R(q) => work[q].attempt <= MaxAttempts
<1>1. E /\ \A q \in Process : W(q)
  BY DEF AttemptInv
<1>2. E'
  <2>1. CASE UNCHANGED entries
    BY <1>1, <2>1
  <2>2. CASE \E k \in Key, n \in Nat :
               /\ n = entries[k].attempt + 1 /\ Eligible(k)
               /\ entries' = [entries EXCEPT ![k] =
                    [status |-> "submitted", attempt |-> n, operator |-> lease[p].operator]]
    <3>1. PICK k \in Key, n \in Nat :
               /\ n = entries[k].attempt + 1 /\ Eligible(k)
               /\ entries' = [entries EXCEPT ![k] =
                    [status |-> "submitted", attempt |-> n, operator |-> lease[p].operator]]
      BY <2>2
    <3>2. n <= MaxAttempts + 1
      BY <1>1, <3>1, MaxAttemptsAssumption DEF Eligible, TypeOK, Entry
    <3> QED BY <1>1, <3>1, <3>2 DEF TypeOK
  <2>3. CASE \E k \in Key, n \in Nat, s \in EntryStatus, o \in Operator :
               /\ entries[k].attempt = n
               /\ s \in {"absent", "planned", "cooldown"} => n <= MaxAttempts
               /\ entries' = [entries EXCEPT ![k] =
                    [status |-> s, attempt |-> n, operator |-> o]]
    <3>1. PICK k \in Key, n \in Nat, s \in EntryStatus, o \in Operator :
               /\ entries[k].attempt = n
               /\ s \in {"absent", "planned", "cooldown"} => n <= MaxAttempts
               /\ entries' = [entries EXCEPT ![k] =
                    [status |-> s, attempt |-> n, operator |-> o]]
      BY <2>3
    <3> QED BY <1>1, <3>1 DEF TypeOK
  <2>4. ASSUME NEW e \in recon[p].pending, NEW r \in recon[p].evidence,
               ReconcileProven(p, e, r), ~UNCHANGED entries
        PROVE  E'
    <3>1. /\ e.key \in Key /\ SubmittedAs(e.key, e.attempt, e.operator)
          /\ r.outcome \in Terminal
          /\ entries' = [entries EXCEPT ![e.key] =
               [status |-> r.outcome, attempt |-> e.attempt, operator |-> e.operator]]
      BY <2>4, RecoveryWrites
    <3>2. /\ entries[e.key].attempt = e.attempt /\ e.attempt \in Nat
          /\ r.outcome \in EntryStatus /\ r.outcome \notin {"absent", "planned", "cooldown"}
          /\ e.operator \in Operator
      BY <3>1 DEF SubmittedAs, TypeOK, Entry, Terminal, EntryStatus
    <3> QED BY <2>3, <3>1, <3>2
  <2>5. ASSUME NEW i \in walk[p].queue, HookAndLock(p, i), ~UNCHANGED entries PROVE E'
    BY <2>2, <2>5, HookWrites
  <2>6. CASE Settle(p) /\ ~UNCHANGED entries
    <3> DEFINE k == work[p].key
               n == work[p].attempt
               s == SettledStatus(work[p].verdict)
    <3>1. /\ k \in Key /\ SubmittedAs(k, n, lease[p].operator)
          /\ entries' = [entries EXCEPT ![k] =
               [status |-> s, attempt |-> n, operator |-> lease[p].operator]]
      BY <2>6, SettleWrites
    <3>2. /\ entries[k].attempt = n /\ n \in Nat /\ lease[p].operator \in Operator
      BY <3>1 DEF SubmittedAs, TypeOK, Entry
    <3>3. s \in EntryStatus
      BY DEF SettledStatus, EntryStatus
    <3>4. s \in {"absent", "planned", "cooldown"} => n <= MaxAttempts
      BY <1>1, <2>6 DEF Settle, SettledStatus
    <3> HIDE DEF k, n, s
    <3> QED BY <2>3, <3>1, <3>2, <3>3, <3>4
  <2> QED BY <2>1, <2>4, <2>5, <2>6, EntriesWritten
<1>3. ASSUME NEW q \in Process \ {p} PROVE W(q)'
  BY <1>1, OthersUntouched
<1>4. W(p)'
  <2>1. CASE UNCHANGED work /\ (R(p)' => R(p))
    BY <1>1, <2>1
  <2>2. ASSUME NEW f \in Failures, BroadcastFails(p, f), R(p)' PROVE W(p)'
    <3> DEFINE v == IF classifyMessage(f) = "uncertain_submission" THEN "hold"
                    ELSE disposition(classifyMessage(f), work[p].attempt)
    <3>1. ~Unwinds(p)
      BY <2>2 DEF Unwinds, Goto, TypeOK
    <3>2. ValidContext(work[p].attempt) /\ work' = [work EXCEPT ![p].verdict = v]
      BY <2>2, <3>1 DEF BroadcastFails
    <3> HIDE DEF v
    <3>3. work'[p].attempt = work[p].attempt
      BY <3>2 DEF TypeOK, Work
    <3> QED BY <3>2, <3>3 DEF ValidContext
  <2>3. ASSUME NEW i \in walk[p].queue, HookAndLock(p, i) PROVE ~R(p)'
    BY <2>3 DEF HookAndLock, Unwinds, Goto, TypeOK
  <2>4. CASE BroadcastReturns(p)
    BY <2>4 DEF BroadcastReturns, TypeOK, Work
  <2>5. CASE Dispatch(p) \/ Fault(p)
    BY <2>5 DEF TypeOK, Dispatch, Fault, PlanningFails, AwaitThrows, Crash, Settled,
                Unwinds, NextBatch, Goto
  <2>6. CASE \/ ReconcileLoad(p) \/ ReconcileEvidence(p)
             \/ \E e \in recon[p].pending : ReconcileUnproven(p, e)
             \/ \E e \in recon[p].pending, r \in recon[p].evidence : ReconcileProven(p, e, r)
             \/ ReconcileDone(p) \/ MarkRunning(p) \/ PlanBatches(p) \/ SelectBatch(p)
             \/ WalkEnds(p) \/ (\E i \in DOMAIN Operators : ChooseProvider(p, i))
             \/ DeferBatch(p) \/ AcquireRunLock(p)
    BY <2>6 DEF TypeOK, ReconcileLoad, ReconcileEvidence, ReconcileUnproven,
                ReconcileProven, ReconcileDone, MarkRunning, PlanBatches, SelectBatch,
                WalkEnds, ChooseProvider, DeferBatch, AcquireRunLock, Settled, NextBatch,
                Goto, localVars
  <2>7. CASE \/ BatchDrained(p) \/ Broadcast(p) \/ Settle(p) \/ NoteRotation(p)
             \/ CreditOperator(p) \/ ReleaseRunLock(p) \/ ReadFinal(p) \/ CommitFinal(p)
    BY <2>7 DEF TypeOK, BatchDrained, Broadcast, Settle, AfterSettle, NoteRotation,
                CreditOperator, ReleaseRunLock, ReadFinal, CommitFinal, Settled, Unwinds,
                NextBatch, Goto, localVars
  <2>8. CASE Record(p) \/ BenchOperator(p)
    BY <2>1, <2>8 DEF Record, BenchOperator, localVars
  <2> QED BY <2>2, <2>3, <2>4, <2>5, <2>6, <2>7, <2>8 DEF Step
<1> QED BY <1>2, <1>3, <1>4 DEF AttemptInv

(* An entry never gets past one attempt more than the maximum, however retries,
   rotations, crashes and new calls are mixed. *)
THEOREM BoundedAttempts == Spec => []AttemptsBounded
<1>1. Init => AttemptInv
  BY MaxAttemptsAssumption DEF Init, AttemptInv, AbsentEntry
<1>2. TypeOK /\ AttemptInv /\ [Next]_vars => AttemptInv'
  <2> SUFFICES ASSUME TypeOK, AttemptInv, [Next]_vars PROVE AttemptInv'
    OBVIOUS
  <2>1. CASE Chain \/ Clock \/ UNCHANGED vars
    BY <2>1 DEF Chain, Clock, Mint, Drop, ZombieTimeout, CooldownPasses, WindowPasses,
                vars, stateVars, localVars, AttemptInv
  <2> QED BY <2>1, AttemptStep DEF Next
<1>3. AttemptInv => AttemptsBounded
  BY DEF AttemptInv, AttemptsBounded
<1> QED BY <1>1, <1>2, <1>3, Typing, PTL DEF Spec
-----------------------------------------------------------------------------
(* Messages, rows and evidence *)

InHand(p) == pc[p] \in {"broadcast", "await", "record", "bench", "settle"}

LEMMA RowsAndMessages ==
  /\ \A m \in Message : \A o : MessageOf(RowOf(m, o)) = m
  /\ \A r \in Row : /\ MessageOf(r) \in Message
                    /\ RowOf(MessageOf(r), r.outcome) = r
                    /\ MessageOf(r).key = r.key /\ MessageOf(r).attempt = r.attempt
                    /\ MessageOf(r).operator = r.operator
                    /\ \A o : MessageOf(RowOf(r, o)) = MessageOf(r)
                              /\ RowOf(r, o).outcome = o
  BY DEF Message, Row, MessageOf, RowOf

(* What the reader may report: a mint, a recorded success, or a recorded failure that
   can no longer mint. *)
LEMMA EvidenceFacts ==
  ASSUME TypeOK, NEW r \in TerminalEvidence
  PROVE  \/ r.outcome = "success" /\ MessageOf(r) \in minted
         \/ \E a \in audit :
              /\ MessageOf(r) = MessageOf(a)
              /\ \/ r.outcome = "success"
                 \/ a.outcome = "failed" /\ MessageOf(a) \notin Live
<1>1. CASE \E m \in minted : r = RowOf(m, "success")
  <2>1. PICK m \in minted : r = RowOf(m, "success")
    BY <1>1
  <2>2. m \in Message
    BY DEF TypeOK
  <2>3. r.outcome = "success"
    BY <2>1 DEF RowOf
  <2> QED BY <2>1, <2>2, <2>3, RowsAndMessages
<1>2. CASE r \in audit /\ r.outcome = "success"
  BY <1>2
<1>3. CASE \E a \in audit, o \in EvidenceOutcomes \ {"success"} :
             a.outcome = "failed" /\ MessageOf(a) \notin Live /\ r = RowOf(a, o)
  <2>1. PICK a \in audit, o \in EvidenceOutcomes \ {"success"} :
          a.outcome = "failed" /\ MessageOf(a) \notin Live /\ r = RowOf(a, o)
    BY <1>3
  <2>2. a \in Row
    BY DEF TypeOK
  <2>3. MessageOf(r) = MessageOf(a)
    BY <2>1, <2>2, RowsAndMessages
  <2> QED BY <2>1, <2>3
<1> QED
  <2>1. \/ \E m \in minted : r = RowOf(m, "success")
        \/ r \in audit /\ r.outcome = "success"
        \/ \E x \in [row : {a \in audit : a.outcome = "failed" /\ MessageOf(a) \notin Live},
                     outcome : EvidenceOutcomes \ {"success"}] : r = RowOf(x.row, x.outcome)
    BY DEF TerminalEvidence
  <2> QED BY <1>1, <1>2, <1>3, <2>1

(* Rows are written by Record, messages are sent by Broadcast. *)
LEMMA HistoryWritten ==
  ASSUME NEW p \in Process, Dispatch(p) \/ Step(p) \/ Fault(p)
  PROVE  /\ UNCHANGED audit \/ Record(p)
         /\ UNCHANGED chainVars \/ Broadcast(p)
<1>1. CASE Dispatch(p) \/ Fault(p)
  BY <1>1 DEF Dispatch, Fault, PlanningFails, AwaitThrows, Crash
<1>2. CASE Step(p)
  BY <1>2 DEF Step, ReconcileLoad, ReconcileEvidence, ReconcileUnproven, ReconcileProven,
     ReconcileDone, MarkRunning, PlanBatches, SelectBatch, WalkEnds, ChooseProvider,
     DeferBatch, AcquireRunLock, BatchDrained, HookAndLock, Broadcast, BroadcastReturns,
     BroadcastFails, Record, BenchOperator, Settle, NoteRotation, CreditOperator,
     ReleaseRunLock, ReadFinal, CommitFinal
<1> QED BY <1>1, <1>2

(* Evidence is read once and only ever forgotten after. *)
LEMMA EvidenceRead ==
  ASSUME TypeOK, NEW p \in Process, Dispatch(p) \/ Step(p) \/ Fault(p),
         NEW q \in Process, NEW r \in recon'[q].evidence
  PROVE  r \in recon[q].evidence \/ (r \in TerminalEvidence /\ ReconcileEvidence(p))
<1>1. CASE q # p
  BY <1>1, OthersUntouched
<1>2. CASE q = p
  <2>1. CASE ReconcileEvidence(p)
    BY <1>2, <2>1 DEF TypeOK, ReconcileEvidence, Settled, NoRecon, Reconciliation
  <2>2. CASE ReconcileLoad(p)
    BY <1>2, <2>2 DEF TypeOK, ReconcileLoad, Reconciliation
  <2>3. CASE Dispatch(p) \/ Fault(p)
    BY <1>2, <2>3 DEF TypeOK, Dispatch, Fault, PlanningFails, AwaitThrows, Crash, Settled,
                      NoRecon
  <2>4. ASSUME NEW e \in recon[p].pending, ReconcileUnproven(p, e)
        PROVE  r \in recon[q].evidence
    BY <1>2, <2>4 DEF TypeOK, ReconcileUnproven, Settled, NoRecon, Reconciliation
  <2>5. ASSUME NEW e \in recon[p].pending, NEW x \in recon[p].evidence, ReconcileProven(p, e, x)
        PROVE  r \in recon[q].evidence
    BY <1>2, <2>5 DEF TypeOK, ReconcileProven, Settled, NoRecon, Reconciliation
  <2>6. CASE \/ ReconcileDone(p) \/ MarkRunning(p) \/ PlanBatches(p) \/ SelectBatch(p)
             \/ WalkEnds(p) \/ (\E i \in DOMAIN Operators : ChooseProvider(p, i))
             \/ DeferBatch(p) \/ AcquireRunLock(p) \/ BatchDrained(p)
    BY <1>2, <2>6 DEF TypeOK, ReconcileDone, MarkRunning, PlanBatches, SelectBatch, WalkEnds,
                      ChooseProvider, DeferBatch, AcquireRunLock, BatchDrained, Settled,
                      NoRecon, localVars
  <2>7. CASE \/ (\E i \in walk[p].queue : HookAndLock(p, i)) \/ Broadcast(p)
             \/ BroadcastReturns(p) \/ (\E f \in Failures : BroadcastFails(p, f))
             \/ Record(p) \/ BenchOperator(p) \/ Settle(p) \/ NoteRotation(p)
             \/ CreditOperator(p) \/ ReadFinal(p)
    <3>1. UNCHANGED recon
      BY <2>7 DEF HookAndLock, Broadcast, BroadcastReturns, BroadcastFails, Record,
                  BenchOperator, Settle, NoteRotation, CreditOperator, ReadFinal, localVars
    <3> QED BY <3>1
  <2>8. CASE ReleaseRunLock(p) \/ CommitFinal(p)
    BY <1>2, <2>8 DEF TypeOK, ReleaseRunLock, CommitFinal, Settled, NoRecon, localVars
  <2> QED BY <2>1, <2>2, <2>3, <2>4, <2>5, <2>6, <2>7, <2>8 DEF Step
<1> QED BY <1>1, <1>2

(* An entry comes in hand at Hook & Lock and stays the same until it is settled. *)
LEMMA WorkInHand ==
  ASSUME TypeOK, NEW p \in Process, Dispatch(p) \/ Step(p) \/ Fault(p), InHand(p)'
  PROVE  \/ \E i \in walk[p].queue : HookAndLock(p, i)
         \/ /\ InHand(p) /\ Mine(p)' = Mine(p) /\ pc'[p] # "broadcast"
            /\ work'[p].key = work[p].key /\ work'[p].attempt = work[p].attempt
<1>1. CASE Dispatch(p) \/ Fault(p)
  BY <1>1 DEF TypeOK, InHand, Dispatch, Fault, PlanningFails, AwaitThrows, Crash, Settled,
              Unwinds, NextBatch, Goto
<1>2. CASE \/ ReconcileLoad(p) \/ ReconcileEvidence(p)
           \/ \E e \in recon[p].pending : ReconcileUnproven(p, e)
           \/ \E e \in recon[p].pending, r \in recon[p].evidence : ReconcileProven(p, e, r)
           \/ ReconcileDone(p) \/ MarkRunning(p) \/ PlanBatches(p) \/ SelectBatch(p)
           \/ WalkEnds(p) \/ (\E i \in DOMAIN Operators : ChooseProvider(p, i))
           \/ DeferBatch(p) \/ AcquireRunLock(p)
  <2>1. CASE \/ ReconcileLoad(p) \/ ReconcileEvidence(p)
             \/ \E e \in recon[p].pending : ReconcileUnproven(p, e)
             \/ \E e \in recon[p].pending, r \in recon[p].evidence : ReconcileProven(p, e, r)
    BY <2>1, ReconcilerGoes DEF InHand
  <2>2. CASE ReconcileDone(p) \/ MarkRunning(p) \/ PlanBatches(p) \/ SelectBatch(p)
    BY <2>2 DEF TypeOK, InHand, ReconcileDone, MarkRunning, PlanBatches, SelectBatch, Settled,
                NextBatch, Goto
  <2>3. CASE \/ WalkEnds(p) \/ (\E i \in DOMAIN Operators : ChooseProvider(p, i))
             \/ DeferBatch(p) \/ AcquireRunLock(p)
    BY <2>3 DEF TypeOK, InHand, WalkEnds, ChooseProvider, DeferBatch, AcquireRunLock, Settled,
                NextBatch, Goto
  <2> QED BY <1>2, <2>1, <2>2, <2>3
<1>3. CASE \/ BatchDrained(p) \/ NoteRotation(p) \/ CreditOperator(p) \/ ReleaseRunLock(p)
           \/ ReadFinal(p) \/ CommitFinal(p)
  BY <1>3 DEF TypeOK, InHand, BatchDrained, NoteRotation, CreditOperator, ReleaseRunLock,
              ReadFinal, CommitFinal, Settled, NextBatch, Goto, localVars
<1>4. CASE Broadcast(p) \/ Record(p) \/ BenchOperator(p)
  BY <1>4 DEF TypeOK, InHand, Mine, Broadcast, Record, BenchOperator, Goto, localVars
<1>5. CASE BroadcastReturns(p)
  BY <1>5 DEF TypeOK, InHand, Mine, BroadcastReturns, Goto, Work
<1>6. ASSUME NEW f \in Failures, BroadcastFails(p, f)
      PROVE  /\ InHand(p) /\ Mine(p)' = Mine(p) /\ pc'[p] # "broadcast"
             /\ work'[p].key = work[p].key /\ work'[p].attempt = work[p].attempt
  <2>1. UNCHANGED lease /\ InHand(p)
    BY <1>6 DEF BroadcastFails, InHand
  <2>2. pc'[p] = "record" /\ \E v \in Verdict : work' = [work EXCEPT ![p].verdict = v]
    <3> DEFINE v == IF classifyMessage(f) = "uncertain_submission" THEN "hold"
                    ELSE disposition(classifyMessage(f), work[p].attempt)
    <3>1. ~Unwinds(p)
      BY DEF Unwinds, Goto, TypeOK, InHand
    <3>2. work' = [work EXCEPT ![p].verdict = v] /\ Goto(p, "record")
      BY <1>6, <3>1 DEF BroadcastFails
    <3>3. v \in Verdict
      BY DEF disposition, Verdict, RetryDisposition
    <3> HIDE DEF v
    <3> QED BY <3>2, <3>3 DEF Goto, TypeOK
  <2>3. work'[p].key = work[p].key /\ work'[p].attempt = work[p].attempt
    BY <2>2 DEF TypeOK, Work
  <2> QED BY <2>1, <2>2, <2>3 DEF Mine
<1>7. CASE Settle(p)
  BY <1>7 DEF TypeOK, InHand, Settle, AfterSettle, Unwinds, Goto
<1> QED BY <1>1, <1>2, <1>3, <1>4, <1>5, <1>6, <1>7 DEF Step
-----------------------------------------------------------------------------
(* The invariant, part by part *)

LEMMA AttemptsGrow ==
  ASSUME TypeOK, NEW p \in Process, Dispatch(p) \/ Step(p) \/ Fault(p), NEW k \in Key
  PROVE  /\ entries'[k].attempt \in Nat
         /\ entries[k].attempt <= entries'[k].attempt
<1>1. entries[k] \in Entry /\ entries[k].attempt \in Nat
  BY DEF TypeOK, Entry
<1>2. CASE UNCHANGED entries
  BY <1>1, <1>2
<1>3. ASSUME NEW e \in recon[p].pending, NEW r \in recon[p].evidence,
             ReconcileProven(p, e, r), ~UNCHANGED entries
      PROVE  entries'[k].attempt = entries[k].attempt
  <2>1. /\ e.key \in Key /\ SubmittedAs(e.key, e.attempt, e.operator)
        /\ entries' = [entries EXCEPT ![e.key] =
             [status |-> r.outcome, attempt |-> e.attempt, operator |-> e.operator]]
    BY <1>3, RecoveryWrites
  <2> QED BY <2>1 DEF SubmittedAs, TypeOK
<1>4. ASSUME NEW i \in walk[p].queue, HookAndLock(p, i), ~UNCHANGED entries
      PROVE  entries'[k].attempt \in {entries[k].attempt, entries[k].attempt + 1}
  <2>1. PICK x \in Key, n \in Nat :
          /\ n = entries[x].attempt + 1
          /\ entries' = [entries EXCEPT ![x] =
               [status |-> "submitted", attempt |-> n, operator |-> lease[p].operator]]
    BY <1>4, HookWrites
  <2> QED BY <2>1 DEF TypeOK
<1>5. CASE Settle(p) /\ ~UNCHANGED entries
  <2>1. /\ work[p].key \in Key /\ SubmittedAs(work[p].key, work[p].attempt, lease[p].operator)
        /\ entries' = [entries EXCEPT ![work[p].key] =
             [status |-> SettledStatus(work[p].verdict), attempt |-> work[p].attempt,
              operator |-> lease[p].operator]]
    BY <1>5, SettleWrites
  <2>2. entries'[k].attempt = entries[k].attempt
    BY <2>1 DEF SubmittedAs, TypeOK
  <2> QED BY <1>1, <2>2
<1> QED BY <1>1, <1>2, <1>3, <1>4, <1>5, EntriesWritten

LEMMA HistoryStep ==
  ASSUME TypeOK, BatchInv, NEW p \in Process, Dispatch(p) \/ Step(p) \/ Fault(p)
  PROVE  HistoryInv'
<1>1. ASSUME NEW m \in Live' PROVE m.attempt <= entries'[m.key].attempt
  <2>1. CASE m \in Live
    <3>1. m.attempt \in Nat /\ m.key \in Key /\ m.attempt <= entries[m.key].attempt
      BY <2>1 DEF TypeOK, Live, Message, BatchInv, HistoryInv
    <3>2. entries[m.key].attempt \in Nat
      BY <3>1 DEF TypeOK, Entry
    <3> QED BY <3>1, <3>2, AttemptsGrow
  <2>2. CASE m \notin Live
    <3>1. Broadcast(p)
      BY <1>1, <2>2, HistoryWritten DEF Live, chainVars
    <3>2. m = Mine(p) /\ UNCHANGED entries /\ pc[p] = "broadcast"
      BY <1>1, <2>2, <3>1 DEF Broadcast, Live, stateVars
    <3> QED BY <3>2 DEF BatchInv, HistoryInv, Mine
  <2> QED BY <2>1, <2>2
<1>2. ASSUME NEW r \in audit' PROVE r.attempt <= entries'[r.key].attempt
  <2>1. CASE r \in audit
    <3>1. r.attempt \in Nat /\ r.key \in Key /\ r.attempt <= entries[r.key].attempt
      BY <2>1 DEF TypeOK, Row, BatchInv, HistoryInv
    <3>2. entries[r.key].attempt \in Nat
      BY <3>1 DEF TypeOK, Entry
    <3> QED BY <3>1, <3>2, AttemptsGrow
  <2>2. CASE r \notin audit
    <3>1. Record(p)
      BY <1>2, <2>2, HistoryWritten
    <3>2. UNCHANGED entries /\ pc[p] = "record"
      BY <3>1 DEF Record, stateVars
    <3>3. r.key = work[p].key /\ r.attempt = work[p].attempt
      BY <1>2, <2>2, <3>1 DEF Record, RowOf, Mine
    <3> QED BY <3>2, <3>3 DEF BatchInv, HistoryInv
  <2> QED BY <2>1, <2>2
<1>3. ASSUME NEW q \in Process, NEW r \in recon'[q].evidence
      PROVE  r.attempt <= entries'[r.key].attempt
  <2>1. r.attempt <= entries[r.key].attempt /\ r \in Row
    <3>1. CASE r \in recon[q].evidence
      BY <3>1 DEF TypeOK, Reconciliation, BatchInv, HistoryInv
    <3>2. CASE r \in TerminalEvidence
      <4>1. r \in Row
        BY <3>2, EvidenceTyped
      <4>2. CASE MessageOf(r) \in minted
        <5>1. MessageOf(r) \in Live /\ MessageOf(r).key = r.key /\ MessageOf(r).attempt = r.attempt
          BY <4>1, <4>2, RowsAndMessages DEF Live
        <5>2. r.attempt <= entries[r.key].attempt
          BY <5>1 DEF BatchInv, HistoryInv
        <5> QED BY <4>1, <5>2
      <4>3. CASE \E a \in audit : MessageOf(r) = MessageOf(a)
        <5>1. PICK a \in audit : MessageOf(r) = MessageOf(a)
          BY <4>3
        <5>2. a \in Row
          BY DEF TypeOK
        <5>3. a.key = r.key /\ a.attempt = r.attempt
          BY <4>1, <5>1, <5>2, RowsAndMessages
        <5> QED BY <4>1, <5>3 DEF BatchInv, HistoryInv
      <4> QED BY <3>2, <4>2, <4>3, EvidenceFacts
    <3> QED BY <1>3, <3>1, <3>2, EvidenceRead
  <2>2. r.key \in Key /\ r.attempt \in Nat /\ entries[r.key].attempt \in Nat
    BY <2>1 DEF Row, TypeOK, Entry
  <2> QED BY <2>1, <2>2, AttemptsGrow
<1>4. ASSUME NEW q \in Process, InHand(q)'
      PROVE  work'[q].attempt <= entries'[work'[q].key].attempt
  <2>1. CASE /\ InHand(q) /\ work'[q].key = work[q].key /\ work'[q].attempt = work[q].attempt
    <3>1. /\ work[q].key \in Key /\ work[q].attempt \in Nat
          /\ work[q].attempt <= entries[work[q].key].attempt
      BY <2>1 DEF TypeOK, Work, BatchInv, HistoryInv, InHand
    <3>2. entries[work[q].key].attempt \in Nat
      BY <3>1 DEF TypeOK, Entry
    <3> QED BY <2>1, <3>1, <3>2, AttemptsGrow
  <2>2. ASSUME q = p, NEW i \in walk[p].queue, HookAndLock(p, i)
        PROVE  work'[q].attempt <= entries'[work'[q].key].attempt
    <3>1. ~Unwinds(p)
      BY <1>4, <2>2 DEF Unwinds, Goto, TypeOK, InHand
    <3>2. PICK k \in Key, n \in Nat, v \in {"success", "none"} :
            /\ entries' = [entries EXCEPT ![k] =
                 [status |-> "submitted", attempt |-> n, operator |-> lease[p].operator]]
            /\ work' = [work EXCEPT ![p] = [key |-> k, attempt |-> n, verdict |-> v]]
      BY <2>2, <3>1, HookWrites
    <3>3. work'[p].key = k /\ work'[p].attempt = n /\ entries'[k].attempt = n
      BY <3>2 DEF TypeOK
    <3> QED BY <2>2, <3>3
  <2>3. CASE q # p
    BY <1>4, <2>1, <2>3, OthersUntouched DEF InHand
  <2> QED BY <1>4, <2>1, <2>2, <2>3, WorkInHand
<1> QED BY <1>1, <1>2, <1>3, <1>4 DEF HistoryInv, InHand

LEMMA EvidenceStep ==
  ASSUME TypeOK, BatchInv, NEW p \in Process, Dispatch(p) \/ Step(p) \/ Fault(p)
  PROVE  EvidenceInv'
<1> SUFFICES ASSUME NEW q \in Process, NEW r \in recon'[q].evidence, r.outcome # "success"
             PROVE  MessageOf(r) \notin Live' /\ RowOf(MessageOf(r), "failed") \in audit'
  BY DEF EvidenceInv
<1>1. MessageOf(r) \notin Live /\ RowOf(MessageOf(r), "failed") \in audit /\ r \in Row
  <2>1. CASE r \in recon[q].evidence
    BY <2>1 DEF TypeOK, Reconciliation, BatchInv, EvidenceInv
  <2>2. CASE r \in TerminalEvidence
    <3>1. PICK a \in audit : /\ MessageOf(r) = MessageOf(a)
                             /\ a.outcome = "failed" /\ MessageOf(a) \notin Live
      BY <2>2, EvidenceFacts
    <3>2. a \in Row
      BY DEF TypeOK
    <3>3. RowOf(MessageOf(r), "failed") = a
      BY <3>1, <3>2, RowsAndMessages
    <3> QED BY <2>2, <3>1, <3>3, EvidenceTyped
  <2> QED BY <2>1, <2>2, EvidenceRead
<1>2. audit \subseteq audit'
  BY HistoryWritten DEF Record
<1>3. CASE Broadcast(p)
  <2>1. MessageOf(r) # Mine(p)
    <3>1. MessageOf(RowOf(MessageOf(r), "failed")) = MessageOf(r)
      BY <1>1, RowsAndMessages
    <3> QED BY <1>1, <1>3, <3>1 DEF BatchInv, FreshInv, Broadcast
  <2>2. Live' = Live \cup {Mine(p)}
    BY <1>3 DEF Broadcast, Live
  <2> QED BY <1>1, <1>2, <2>1, <2>2
<1>4. CASE UNCHANGED chainVars
  BY <1>1, <1>2, <1>4 DEF Live, chainVars
<1> QED BY <1>3, <1>4, HistoryWritten

(* Only one process is in a batch run, so only it can write what FreshInv and DeadInv
   say of the message in hand. *)
LEMMA AloneInHand ==
  ASSUME RunLockInv, NEW p \in Process, NEW q \in Process \ {p}, InHand(q)
  PROVE  /\ ~Broadcast(p) /\ ~Record(p) /\ ~Settle(p)
         /\ \A i \in walk[p].queue : ~HookAndLock(p, i)
<1>1. ~InBatchRun(p)
  BY DEF RunLockInv, InHand, InBatchRun, BatchRun
<1> QED BY <1>1 DEF InBatchRun, BatchRun, Broadcast, Record, Settle, HookAndLock

LEMMA FreshStep ==
  ASSUME TypeOK, BatchInv, NEW p \in Process, Dispatch(p) \/ Step(p) \/ Fault(p)
  PROVE  FreshInv'
<1> SUFFICES ASSUME NEW q \in Process, pc'[q] = "broadcast"
             PROVE  /\ SubmittedAs(work[q].key, work[q].attempt, lease[q].operator)'
                    /\ Mine(q)' \notin Live'
                    /\ \A r \in audit' : MessageOf(r) # Mine(q)'
                    /\ \A x \in Process : \A r \in recon'[x].evidence : MessageOf(r) # Mine(q)'
  BY DEF FreshInv
<1>1. ASSUME NEW i \in walk[p].queue, HookAndLock(p, i), q = p
      PROVE  /\ SubmittedAs(work[q].key, work[q].attempt, lease[q].operator)'
             /\ Mine(q)' \notin Live'
             /\ \A r \in audit' : MessageOf(r) # Mine(q)'
             /\ \A x \in Process : \A r \in recon'[x].evidence : MessageOf(r) # Mine(q)'
  <2>1. UNCHANGED <<audit, chainVars, recon, lease>>
    BY <1>1 DEF HookAndLock
  <2>2. ~Unwinds(p)
    BY <1>1 DEF Unwinds, Goto, TypeOK
  <2>3. PICK k \in Key, n \in Nat, v \in {"success", "none"} :
          /\ n = entries[k].attempt + 1
          /\ entries' = [entries EXCEPT ![k] =
               [status |-> "submitted", attempt |-> n, operator |-> lease[p].operator]]
          /\ work' = [work EXCEPT ![p] = [key |-> k, attempt |-> n, verdict |-> v]]
    BY <1>1, <2>2, HookWrites
  <2>4. /\ work'[p].key = k /\ work'[p].attempt = n
        /\ entries'[k] = [status |-> "submitted", attempt |-> n, operator |-> lease[p].operator]
        /\ Mine(p)' = [key |-> k, attempt |-> n, operator |-> lease[p].operator]
    BY <2>1, <2>3 DEF TypeOK, Mine
  <2>5. SubmittedAs(work[p].key, work[p].attempt, lease[p].operator)'
    BY <2>1, <2>4 DEF SubmittedAs
  <2>6. ~(n <= entries[k].attempt)
    BY <2>3 DEF TypeOK, Entry
  <2>7. Mine(p)' \notin Live
    BY <2>4, <2>6 DEF BatchInv, HistoryInv
  <2>8. \A r \in audit : MessageOf(r) # Mine(p)'
    BY <2>4, <2>6 DEF BatchInv, HistoryInv, MessageOf
  <2>9. \A x \in Process : \A r \in recon[x].evidence : MessageOf(r) # Mine(p)'
    BY <2>4, <2>6 DEF BatchInv, HistoryInv, MessageOf
  <2> QED BY <1>1, <2>1, <2>5, <2>7, <2>8, <2>9 DEF Live, chainVars
<1>2. CASE q # p
  <2>1. pc[q] = "broadcast" /\ lease'[q] = lease[q] /\ work'[q] = work[q]
    BY <1>2, OthersUntouched
  <2>2. /\ Mine(q)' = Mine(q)
        /\ SubmittedAs(work[q].key, work[q].attempt, lease[q].operator) /\ Mine(q) \notin Live
        /\ \A r \in audit : MessageOf(r) # Mine(q)
        /\ \A x \in Process : \A r \in recon[x].evidence : MessageOf(r) # Mine(q)
    BY <2>1 DEF Mine, BatchInv, FreshInv
  <2>3. /\ UNCHANGED <<audit, chainVars>>
        /\ ~Settle(p) /\ \A i \in walk[p].queue : ~HookAndLock(p, i)
    BY <1>2, <2>1, AloneInHand, HistoryWritten DEF InHand, BatchInv
  <2>4. entries'[work[q].key] = entries[work[q].key]
    <3>1. CASE UNCHANGED entries
      BY <3>1
    <3>2. ASSUME NEW e \in recon[p].pending, NEW r \in recon[p].evidence,
                 ReconcileProven(p, e, r), ~UNCHANGED entries
          PROVE  entries'[work[q].key] = entries[work[q].key]
      <4>1. /\ e.key \in Key /\ r.key = e.key /\ r.attempt = e.attempt
            /\ r.operator = e.operator
            /\ SubmittedAs(e.key, e.attempt, e.operator)
            /\ entries' = [entries EXCEPT ![e.key] =
                 [status |-> r.outcome, attempt |-> e.attempt, operator |-> e.operator]]
        BY <3>2, RecoveryWrites
      <4>2. e.key # work[q].key
        <5>1. SUFFICES ASSUME e.key = work[q].key PROVE FALSE
          OBVIOUS
        <5>2. e.attempt = work[q].attempt /\ e.operator = lease[q].operator
          BY <2>2, <4>1, <5>1 DEF SubmittedAs
        <5>3. MessageOf(r) = Mine(q)
          BY <4>1, <5>1, <5>2 DEF MessageOf, Mine
        <5> QED BY <2>2, <5>3
      <4>3. work[q].key \in Key
        BY DEF TypeOK, Work
      <4> QED BY <4>1, <4>2, <4>3 DEF TypeOK
    <3> QED BY <2>3, <3>1, <3>2, EntriesWritten
  <2>5. SubmittedAs(work[q].key, work[q].attempt, lease[q].operator)'
    BY <2>1, <2>2, <2>4 DEF SubmittedAs
  <2>6. ASSUME NEW x \in Process, NEW r \in recon'[x].evidence
        PROVE  MessageOf(r) # Mine(q)
    <3>1. CASE r \in recon[x].evidence
      BY <2>2, <3>1
    <3>2. CASE r \in TerminalEvidence
      BY <2>2, <3>2, EvidenceFacts DEF Live
    <3> QED BY <2>6, <3>1, <3>2, EvidenceRead
  <2> QED BY <2>2, <2>3, <2>5, <2>6 DEF Live, chainVars
<1> QED BY <1>1, <1>2, WorkInHand DEF InHand

LEMMA DeadStep ==
  ASSUME TruthfulExecutor, TypeOK, CampaignInv,
         NEW p \in Process, Dispatch(p) \/ Step(p) \/ Fault(p)
  PROVE  DeadInv'
<1> DEFINE At(q) == pc[q] \in {"record", "bench", "settle"}
           Failed(q) == At(q) /\ work[q].verdict \notin {"success", "hold"}
<1> SUFFICES ASSUME NEW q \in Process, Failed(q)' PROVE Mine(q)' \notin Live'
  BY DEF DeadInv
<1>1. CASE q # p
  <2>1. Failed(q) /\ Mine(q)' = Mine(q)
    BY <1>1, OthersUntouched DEF Mine
  <2>2. UNCHANGED chainVars
    BY <1>1, <2>1, AloneInHand, HistoryWritten DEF InHand, CampaignInv, BatchInv
  <2> QED BY <2>1, <2>2 DEF CampaignInv, DeadInv, Live, chainVars
<1>2. CASE q = p
  <2>1. ASSUME NEW i \in walk[p].queue, HookAndLock(p, i) PROVE FALSE
    <3>1. ~Unwinds(p)
      BY <1>2 DEF Unwinds, Goto, TypeOK
    <3>2. \/ \E k \in Key, n \in Nat : work' = [work EXCEPT ![p] =
                [key |-> k, attempt |-> n, verdict |-> "success"]]
          \/ pc' = [pc EXCEPT ![p] = "broadcast"]
      BY <2>1, <3>1, HookWrites DEF Goto
    <3> QED BY <1>2, <3>2 DEF TypeOK
  <2>2. InHand(p) /\ Mine(p)' = Mine(p)
    BY <1>2, <2>1, WorkInHand DEF InHand
  <2>3. CASE At(p) /\ work'[p].verdict = work[p].verdict
    <3>1. UNCHANGED chainVars
      BY <2>3, HistoryWritten DEF Broadcast
    <3> QED BY <1>2, <2>2, <2>3, <3>1 DEF CampaignInv, DeadInv, Live, chainVars
  <2>4. ASSUME NEW f \in Failures, BroadcastFails(p, f) PROVE Mine(p)' \notin Live'
    <3>1. ~Unwinds(p) /\ UNCHANGED chainVars
      BY <1>2, <2>4 DEF Unwinds, Goto, TypeOK, BroadcastFails
    <3>2. CASE f \in Ambiguous
      <4>1. classifyMessage(f) = "uncertain_submission"
        BY <3>2 DEF TruthfulExecutor
      <4>2. work' = [work EXCEPT ![p].verdict = "hold"]
        <5> DEFINE v == IF classifyMessage(f) = "uncertain_submission" THEN "hold"
                        ELSE disposition(classifyMessage(f), work[p].attempt)
        <5>1. work' = [work EXCEPT ![p].verdict = v]
          BY <2>4, <3>1 DEF BroadcastFails
        <5> QED BY <4>1, <5>1
      <4>3. work'[p].verdict = "hold"
        BY <4>2 DEF TypeOK, Work
      <4> QED BY <1>2, <4>3
    <3>3. CASE Mine(p) \notin Live
      BY <2>2, <3>1, <3>3 DEF Live, chainVars
    <3> QED BY <2>4, <3>2, <3>3 DEF BroadcastFails
  <2>5. CASE BroadcastReturns(p)
    BY <1>2, <2>5 DEF BroadcastReturns, TypeOK, Work
  <2>6. CASE Broadcast(p) \/ Record(p) \/ BenchOperator(p) \/ Settle(p)
    BY <1>2, <2>3, <2>6 DEF Broadcast, Record, BenchOperator, Settle, AfterSettle, Unwinds,
                            Goto, TypeOK, localVars
  <2>7. CASE Dispatch(p) \/ Fault(p)
    BY <1>2, <2>7 DEF TypeOK, Dispatch, Fault, PlanningFails, AwaitThrows, Crash, Settled,
                      Unwinds, NextBatch, Goto
  <2>8. CASE \/ ReconcileLoad(p) \/ ReconcileEvidence(p)
             \/ \E e \in recon[p].pending : ReconcileUnproven(p, e)
             \/ \E e \in recon[p].pending, r \in recon[p].evidence : ReconcileProven(p, e, r)
             \/ ReconcileDone(p) \/ MarkRunning(p) \/ PlanBatches(p) \/ SelectBatch(p)
             \/ WalkEnds(p) \/ (\E i \in DOMAIN Operators : ChooseProvider(p, i))
             \/ DeferBatch(p) \/ AcquireRunLock(p) \/ BatchDrained(p) \/ NoteRotation(p)
             \/ CreditOperator(p) \/ ReleaseRunLock(p) \/ ReadFinal(p) \/ CommitFinal(p)
    <3>1. ~InHand(p)
      BY <2>8 DEF InHand, ReconcileLoad, ReconcileEvidence, ReconcileUnproven,
                  ReconcileProven, ReconcileDone, MarkRunning, PlanBatches, SelectBatch,
                  WalkEnds, ChooseProvider, DeferBatch, AcquireRunLock, BatchDrained,
                  NoteRotation, CreditOperator, ReleaseRunLock, ReadFinal, CommitFinal
    <3> QED BY <2>2, <3>1
  <2>9. ASSUME NEW i \in walk[p].queue, HookAndLock(p, i) PROVE Mine(q)' \notin Live'
    BY <2>1, <2>9
  <2>10. ASSUME NEW f \in Failures, BroadcastFails(p, f) PROVE Mine(q)' \notin Live'
    BY <1>2, <2>4, <2>10
  <2> HIDE DEF At, Failed
  <2> QED BY <2>5, <2>6, <2>7, <2>8, <2>9, <2>10 DEF Step
<1> QED BY <1>1, <1>2

LEMMA LiveStep ==
  ASSUME TypeOK, CampaignInv, NEW p \in Process, Dispatch(p) \/ Step(p) \/ Fault(p)
  PROVE  LiveIsPending'
<1> DEFINE Pending(m) == /\ entries[m.key].attempt = m.attempt
                         /\ entries[m.key].operator = m.operator
                         /\ entries[m.key].status \in {"submitted", "success"}
<1>1. SUFFICES ASSUME NEW m \in Live' PROVE Pending(m)'
  BY DEF LiveIsPending
<1>2. m \in Message
  <2>1. Live' \subseteq Message
    BY TypeStep DEF TypeOK, Live, Next
  <2> QED BY <2>1
<1>3. CASE m \in Live
  <2>1. Pending(m) /\ m.key \in Key
    BY <1>2, <1>3 DEF CampaignInv, LiveIsPending, Message
  <2>2. CASE UNCHANGED entries
    BY <2>1, <2>2
  <2>3. ASSUME NEW e \in recon[p].pending, NEW r \in recon[p].evidence,
               ReconcileProven(p, e, r), ~UNCHANGED entries
        PROVE  Pending(m)'
    <3>1. /\ e.key \in Key /\ r.key = e.key /\ r.attempt = e.attempt
          /\ r.operator = e.operator
          /\ SubmittedAs(e.key, e.attempt, e.operator)
          /\ entries' = [entries EXCEPT ![e.key] =
               [status |-> r.outcome, attempt |-> e.attempt, operator |-> e.operator]]
      BY <2>3, RecoveryWrites
    <3>2. CASE m.key = e.key
      <4>1. m.attempt = e.attempt /\ m.operator = e.operator
        BY <2>1, <3>1, <3>2 DEF SubmittedAs
      <4>2. MessageOf(r) = m
        BY <1>2, <3>1, <3>2, <4>1 DEF MessageOf, Message
      <4>3. r.outcome = "success"
        BY <1>3, <4>2 DEF CampaignInv, BatchInv, EvidenceInv
      <4> QED BY <3>1, <3>2, <4>1, <4>3 DEF TypeOK
    <3>3. CASE m.key # e.key
      BY <2>1, <3>1, <3>3 DEF TypeOK
    <3> QED BY <3>2, <3>3
  <2>4. ASSUME NEW i \in walk[p].queue, HookAndLock(p, i), ~UNCHANGED entries
        PROVE  Pending(m)'
    <3>1. PICK k \in Key, n \in Nat :
            /\ Eligible(k)
            /\ entries' = [entries EXCEPT ![k] =
                 [status |-> "submitted", attempt |-> n, operator |-> lease[p].operator]]
      BY <2>4, HookWrites
    <3>2. m.key # k
      BY <2>1, <3>1 DEF Eligible
    <3> QED BY <2>1, <3>1, <3>2 DEF TypeOK
  <2>5. CASE Settle(p) /\ ~UNCHANGED entries
    <3> DEFINE k == work[p].key
               s == SettledStatus(work[p].verdict)
    <3>1. /\ k \in Key /\ SubmittedAs(k, work[p].attempt, lease[p].operator)
          /\ entries' = [entries EXCEPT ![k] =
               [status |-> s, attempt |-> work[p].attempt, operator |-> lease[p].operator]]
      BY <2>5, SettleWrites
    <3>2. CASE m.key # k
      <4> HIDE DEF k
      <4> QED BY <2>1, <3>1, <3>2 DEF TypeOK
    <3>3. CASE m.key = k
      <4>1. m.attempt = work[p].attempt /\ m.operator = lease[p].operator
        BY <2>1, <3>1, <3>3 DEF SubmittedAs
      <4>2. m = Mine(p)
        BY <1>2, <3>3, <4>1 DEF Mine, Message
      <4>3. work[p].verdict \in {"success", "hold"}
        BY <1>3, <2>5, <4>2 DEF CampaignInv, DeadInv, Settle
      <4>4. s \in {"success", "submitted"}
        BY <4>3 DEF SettledStatus
      <4> HIDE DEF k, s
      <4> QED BY <3>1, <3>3, <4>1, <4>4 DEF TypeOK
    <3> QED BY <3>2, <3>3
  <2> QED BY <2>2, <2>3, <2>4, <2>5, EntriesWritten
<1>4. CASE m \notin Live
  <2>1. Broadcast(p)
    BY <1>1, <1>4, HistoryWritten DEF Live, chainVars
  <2>2. m = Mine(p) /\ UNCHANGED entries /\ pc[p] = "broadcast"
    BY <1>1, <1>4, <2>1 DEF Broadcast, Live, stateVars
  <2>3. SubmittedAs(work[p].key, work[p].attempt, lease[p].operator)
    BY <2>2 DEF CampaignInv, BatchInv, FreshInv
  <2> QED BY <2>2, <2>3 DEF SubmittedAs, Mine
<1> QED BY <1>3, <1>4

LEMMA BatchInvNext == TypeOK /\ BatchInv /\ [Next]_vars => BatchInv'
<1> SUFFICES ASSUME TypeOK, BatchInv, [Next]_vars PROVE BatchInv'
  OBVIOUS
<1>1. RunLockInv'
  BY RunLockNext DEF BatchInv
<1>2. ASSUME NEW p \in Process, Dispatch(p) \/ Step(p) \/ Fault(p) PROVE BatchInv'
  BY <1>1, <1>2, HistoryStep, EvidenceStep, FreshStep DEF BatchInv
<1>3. CASE Chain \/ Clock \/ UNCHANGED vars
  <2>1. /\ UNCHANGED <<entries, audit, pc, recon, lease, work>> /\ Live' \subseteq Live
    BY <1>3 DEF Chain, Clock, Mint, Drop, ZombieTimeout, CooldownPasses, WindowPasses,
                vars, stateVars, localVars, chainVars, Live
  <2>2. \A p \in Process : Mine(p)' = Mine(p)
    BY <2>1 DEF Mine
  <2>3. HistoryInv' /\ EvidenceInv'
    BY <2>1 DEF BatchInv, HistoryInv, EvidenceInv
  <2>4. FreshInv'
    BY <2>1, <2>2 DEF BatchInv, FreshInv, SubmittedAs
  <2> QED BY <1>1, <2>3, <2>4 DEF BatchInv
<1> QED BY <1>2, <1>3 DEF Next

LEMMA CampaignInvInit == Init => CampaignInv
  BY DEF Init, CampaignInv, BatchInv, RunLockInv, InBatchRun, BatchRun, HistoryInv,
         EvidenceInv, FreshInv, DeadInv, LiveIsPending, Live, NoRecon

LEMMA BatchInvariance == Spec => []BatchInv
<1>1. Init => BatchInv
  BY CampaignInvInit DEF CampaignInv
<1> QED BY <1>1, BatchInvNext, Typing, PTL DEF Spec

LEMMA CampaignInvNext ==
  TruthfulExecutor => (TypeOK /\ CampaignInv /\ [Next]_vars => CampaignInv')
<1> SUFFICES ASSUME TruthfulExecutor, TypeOK, CampaignInv, [Next]_vars PROVE CampaignInv'
  OBVIOUS
<1>1. BatchInv'
  BY BatchInvNext DEF CampaignInv
<1>2. ASSUME NEW p \in Process, Dispatch(p) \/ Step(p) \/ Fault(p) PROVE CampaignInv'
  BY <1>1, <1>2, DeadStep, LiveStep DEF CampaignInv
<1>3. CASE Chain \/ Clock \/ UNCHANGED vars
  <2>1. /\ UNCHANGED <<entries, pc, lease, work>> /\ Live' \subseteq Live
    BY <1>3 DEF Chain, Clock, Mint, Drop, ZombieTimeout, CooldownPasses, WindowPasses,
                vars, stateVars, localVars, chainVars, Live
  <2>2. DeadInv'
    BY <2>1 DEF CampaignInv, DeadInv, Mine
  <2>3. LiveIsPending'
    BY <2>1 DEF CampaignInv, LiveIsPending
  <2> QED BY <1>1, <2>2, <2>3 DEF CampaignInv
<1> QED BY <1>2, <1>3 DEF Next

-----------------------------------------------------------------------------
(* The plan *)

(* A process walks batches of a list the planner accepted. *)
LEMMA WalkPlanned ==
  ASSUME TypeOK, PlannedInv, NEW p \in Process, Dispatch(p) \/ Step(p) \/ Fault(p),
         Walking(p)'
  PROVE  ~HasDuplicates(walk'[p].campaign)
<1>1. Walking(p) => ~HasDuplicates(walk[p].campaign)
  BY DEF PlannedInv
<1>2. CASE Walking(p) /\ walk'[p].campaign = walk[p].campaign
  BY <1>1, <1>2
<1>3. CASE \/ ReconcileLoad(p) \/ ReconcileEvidence(p)
           \/ \E e \in recon[p].pending : ReconcileUnproven(p, e)
           \/ \E e \in recon[p].pending, r \in recon[p].evidence : ReconcileProven(p, e, r)
  <2>1. pc'[p] \in {"evidence", "reconcile", "idle"}
    BY <1>3, ReconcilerGoes
  <2> QED BY <2>1 DEF Walking, BatchRun
<1>4. CASE ReconcileDone(p) \/ MarkRunning(p) \/ CommitFinal(p) \/ Dispatch(p)
  <2>1. pc'[p] \in {"start", "plan", "idle", "load"}
    BY <1>4 DEF TypeOK, ReconcileDone, MarkRunning, CommitFinal, Dispatch, Settled, Goto
  <2> QED BY <2>1 DEF Walking, BatchRun
<1>5. ASSUME NextBatch(p), Walking(p) PROVE ~HasDuplicates(walk'[p].campaign)
  <2>1. walk'[p].campaign = walk[p].campaign
    BY <1>5 DEF TypeOK, Walk, NextBatch
  <2> QED BY <1>1, <1>5, <2>1
<1>6. ASSUME Settled(p) PROVE FALSE
  BY <1>6 DEF Walking, TypeOK, Settled, Goto, BatchRun
<1>7. CASE SelectBatch(p)
  <2>1. Walking(p)
    BY <1>7 DEF Walking, SelectBatch
  <2>2. CASE \E q \in SUBSET Positions(walk[p].campaign) : walk' = [walk EXCEPT ![p].queue = q]
    BY <1>1, <2>1, <2>2 DEF TypeOK, Walk
  <2>3. EligiblePositions(walk[p].campaign, walk[p].batch) \subseteq Positions(walk[p].campaign)
    BY DEF EligiblePositions, Slice
  <2> QED BY <1>5, <1>7, <2>1, <2>2, <2>3 DEF SelectBatch
<1>8. CASE DeferBatch(p) \/ PlanningFails(p)
  BY <1>5, <1>8 DEF DeferBatch, PlanningFails, Walking
<1>9. CASE AcquireRunLock(p)
  BY <1>2, <1>6, <1>9 DEF AcquireRunLock, Walking
<1>10. CASE ReleaseRunLock(p)
  <2>1. Walking(p)
    BY <1>10 DEF Walking, ReleaseRunLock
  <2>2. CASE UNCHANGED localVars
    BY <1>2, <2>1, <2>2 DEF localVars
  <2> QED BY <1>5, <1>6, <1>10, <2>1, <2>2 DEF ReleaseRunLock
<1>11. ASSUME NEW i \in DOMAIN Operators, ChooseProvider(p, i)
      PROVE  Walking(p) /\ walk'[p].campaign = walk[p].campaign
  BY <1>11 DEF TypeOK, Walk, Walking, ChooseProvider
<1>12. ASSUME NEW i \in walk[p].queue, HookAndLock(p, i)
      PROVE  Walking(p) /\ walk'[p].campaign = walk[p].campaign
  BY <1>12 DEF TypeOK, Walk, Walking, HookAndLock, BatchRun
<1>13. CASE \/ BatchDrained(p) \/ Broadcast(p) \/ BroadcastReturns(p)
            \/ (\E f \in Failures : BroadcastFails(p, f)) \/ Record(p) \/ BenchOperator(p)
            \/ Settle(p) \/ NoteRotation(p) \/ CreditOperator(p)
  <2>1. Walking(p) /\ UNCHANGED walk
    BY <1>13 DEF BatchDrained, Broadcast, BroadcastReturns, BroadcastFails, Record,
                 BenchOperator, Settle, NoteRotation, CreditOperator, Walking, BatchRun, localVars
  <2> QED BY <1>2, <2>1
<1>14. CASE AwaitThrows(p) \/ Crash(p)
  BY <1>2, <1>6, <1>14 DEF AwaitThrows, Crash, Walking
<1>15. CASE PlanBatches(p)
  <2>1. CASE HasDuplicates(walk[p].campaign)
    BY <1>15, <1>6, <2>1 DEF PlanBatches
  <2>2. CASE ~HasDuplicates(walk[p].campaign)
    <3>1. UNCHANGED walk
      BY <1>15, <2>2 DEF PlanBatches, localVars
    <3> QED BY <2>2, <3>1
  <2> QED BY <2>1, <2>2
<1>16. CASE WalkEnds(p) \/ ReadFinal(p)
  <2>1. Walking(p)
    BY <1>16 DEF Walking, WalkEnds, ReadFinal
  <2>2. walk'[p].campaign = walk[p].campaign
    BY <1>16 DEF TypeOK, Walk, WalkEnds, ReadFinal, localVars
  <2> QED BY <1>2, <2>1, <2>2
<1> QED BY <1>2, <1>3, <1>4, <1>7, <1>8, <1>9, <1>10, <1>11, <1>12, <1>13, <1>14, <1>15,
           <1>16
        DEF Step, Fault

(* An entry comes to exist at Hook & Lock, for a position of the batch in hand. *)
LEMMA EntriesPlanned ==
  ASSUME TypeOK, PlannedInv, NEW p \in Process, Dispatch(p) \/ Step(p) \/ Fault(p),
         NEW x \in Key, entries'[x].status # "absent"
  PROVE  x \in PlannedKeys
<1>1. CASE entries[x].status # "absent"
  BY <1>1 DEF PlannedInv
<1>2. CASE entries[x].status = "absent"
  <2>1. ASSUME NEW e \in recon[p].pending, NEW r \in recon[p].evidence,
               ReconcileProven(p, e, r), ~UNCHANGED entries
        PROVE  FALSE
    <3>1. /\ SubmittedAs(e.key, e.attempt, e.operator)
          /\ entries' = [entries EXCEPT ![e.key] =
               [status |-> r.outcome, attempt |-> e.attempt, operator |-> e.operator]]
      BY <2>1, RecoveryWrites
    <3> QED BY <1>2, <3>1 DEF SubmittedAs, TypeOK
  <2>2. ASSUME NEW i \in walk[p].queue, HookAndLock(p, i), ~UNCHANGED entries
        PROVE  x \in PlannedKeys
    <3> DEFINE c == walk[p].campaign
               b == walk[p].batch
    <3>1. PICK k \in Key, n \in Nat :
            /\ k = <<b, c.recipients[i]>>
            /\ entries' = [entries EXCEPT ![k] =
                 [status |-> "submitted", attempt |-> n, operator |-> lease[p].operator]]
      BY <2>2, HookWrites
    <3>2. x = k
      BY <1>2, <3>1 DEF TypeOK
    <3>3. i \in Slice(c, b) /\ c \in Campaigns
      BY DEF TypeOK, Walk
    <3>4. ~HasDuplicates(c)
      BY <2>2 DEF PlannedInv, Walking, HookAndLock, BatchRun
    <3>5. x \in ExpectedKeys(c)
      BY <3>1, <3>2, <3>3 DEF ExpectedKeys
    <3> QED BY <3>3, <3>4, <3>5 DEF PlannedKeys
  <2>3. CASE Settle(p) /\ ~UNCHANGED entries
    <3>1. /\ SubmittedAs(work[p].key, work[p].attempt, lease[p].operator)
          /\ entries' = [entries EXCEPT ![work[p].key] =
               [status |-> SettledStatus(work[p].verdict), attempt |-> work[p].attempt,
                operator |-> lease[p].operator]]
      BY <2>3, SettleWrites
    <3>2. x # work[p].key
      BY <1>2, <3>1 DEF SubmittedAs
    <3> QED BY <1>2, <3>1, <3>2 DEF TypeOK
  <2> QED BY <1>2, <2>1, <2>2, <2>3, EntriesWritten
<1> QED BY <1>1, <1>2

LEMMA PlannedNext == TypeOK /\ PlannedInv /\ [Next]_vars => PlannedInv'
<1> SUFFICES ASSUME TypeOK, PlannedInv, [Next]_vars PROVE PlannedInv'
  OBVIOUS
<1>1. ASSUME NEW p \in Process, Dispatch(p) \/ Step(p) \/ Fault(p) PROVE PlannedInv'
  <2>1. \A x \in Key : entries'[x].status # "absent" => x \in PlannedKeys
    BY <1>1, EntriesPlanned
  <2>2. ASSUME NEW q \in Process, Walking(q)'
        PROVE  ~HasDuplicates(walk'[q].campaign)
    <3>1. CASE q = p
      BY <1>1, <2>2, <3>1, WalkPlanned
    <3>2. CASE q # p
      BY <1>1, <2>2, <3>2, OthersUntouched DEF PlannedInv, Walking
    <3> QED BY <3>1, <3>2
  <2> QED BY <2>1, <2>2 DEF PlannedInv, PlannedKeys, HasDuplicates, ExpectedKeys
<1>2. CASE Chain \/ Clock \/ UNCHANGED vars
  <2>1. UNCHANGED <<entries, pc, walk>>
    BY <1>2 DEF Chain, Clock, Mint, Drop, ZombieTimeout, CooldownPasses, WindowPasses,
                vars, stateVars, localVars
  <2> QED BY <2>1 DEF PlannedInv, Walking
<1> QED BY <1>1, <1>2 DEF Next

LEMMA PlannedInit == Init => PlannedInv
  BY DEF Init, PlannedInv, Walking, AbsentEntry, BatchRun

-----------------------------------------------------------------------------
(* Completion *)

(* Only the read of the finalisation leads to its write. *)
LEMMA CommitFollowsRead ==
  ASSUME TypeOK, NEW p \in Process, Dispatch(p) \/ Step(p) \/ Fault(p), pc'[p] = "commit"
  PROVE  ReadFinal(p)
<1>1. CASE Dispatch(p) \/ Fault(p)
  BY <1>1 DEF TypeOK, Dispatch, Fault, PlanningFails, AwaitThrows, Crash, Settled,
              Unwinds, NextBatch, Goto
<1>2. CASE \/ ReconcileLoad(p) \/ ReconcileEvidence(p)
           \/ \E e \in recon[p].pending : ReconcileUnproven(p, e)
           \/ \E e \in recon[p].pending, r \in recon[p].evidence : ReconcileProven(p, e, r)
           \/ ReconcileDone(p) \/ MarkRunning(p) \/ PlanBatches(p) \/ SelectBatch(p)
           \/ WalkEnds(p) \/ (\E i \in DOMAIN Operators : ChooseProvider(p, i))
           \/ DeferBatch(p) \/ AcquireRunLock(p)
  BY <1>2 DEF TypeOK, ReconcileLoad, ReconcileEvidence, ReconcileUnproven, ReconcileProven,
              ReconcileDone, MarkRunning, PlanBatches, SelectBatch, WalkEnds, ChooseProvider,
              DeferBatch, AcquireRunLock, Settled, NextBatch, Goto
<1>3. CASE \/ BatchDrained(p) \/ (\E i \in walk[p].queue : HookAndLock(p, i))
           \/ Broadcast(p) \/ BroadcastReturns(p)
           \/ (\E f \in Failures : BroadcastFails(p, f))
  BY <1>3 DEF TypeOK, BatchDrained, HookAndLock, Broadcast, BroadcastReturns,
              BroadcastFails, Unwinds, Goto
<1>4. CASE \/ Record(p) \/ BenchOperator(p) \/ Settle(p) \/ NoteRotation(p)
           \/ CreditOperator(p) \/ ReleaseRunLock(p) \/ CommitFinal(p)
  BY <1>4 DEF TypeOK, Record, BenchOperator, Settle, AfterSettle, NoteRotation,
              CreditOperator, ReleaseRunLock, CommitFinal, Settled, Unwinds, NextBatch, Goto
<1> QED BY <1>1, <1>2, <1>3, <1>4 DEF Step

LEMMA StatusWritten ==
  ASSUME TypeOK, NEW p \in Process, Dispatch(p) \/ Step(p) \/ Fault(p)
  PROVE  status' \in {status, "running", "stopped"} \/ CommitFinal(p)
<1>1. CASE Dispatch(p) \/ Fault(p)
  BY <1>1 DEF Dispatch, Fault, PlanningFails, AwaitThrows, Crash, stateVars
<1>2. CASE Step(p)
  BY <1>2 DEF Step, ReconcileLoad, ReconcileEvidence, ReconcileUnproven, ReconcileProven,
     ReconcileDone, MarkRunning, PlanBatches, SelectBatch, WalkEnds, ChooseProvider,
     DeferBatch, AcquireRunLock, BatchDrained, HookAndLock, Broadcast, BroadcastReturns,
     BroadcastFails, Record, BenchOperator, Settle, NoteRotation, CreditOperator,
     ReleaseRunLock, ReadFinal, stateVars
<1> QED BY <1>1, <1>2

LEMMA FinalNext ==
  TypeOK /\ PlannedInv /\ FinalInv /\ CompletedInv /\ [Next]_vars
    => (FinalInv /\ CompletedInv)'
<1> SUFFICES ASSUME TypeOK, PlannedInv, FinalInv, CompletedInv, [Next]_vars
             PROVE  FinalInv' /\ CompletedInv'
  OBVIOUS
<1> DEFINE Ended(c) == \A k \in ExpectedKeys(c) : entries[k].status \in Terminal
           StillEnded(c) == \A k \in ExpectedKeys(c) : entries'[k].status \in Terminal
<1>1. ASSUME NEW c, Ended(c) PROVE StillEnded(c)
  BY <1>1, TerminalStep DEF ExpectedKeys
<1>2. CASE Chain \/ Clock \/ UNCHANGED vars
  <2>1. UNCHANGED <<entries, status, pc, walk>>
    BY <1>2 DEF Chain, Clock, Mint, Drop, ZombieTimeout, CooldownPasses, WindowPasses,
                vars, stateVars, localVars
  <2> QED BY <2>1 DEF FinalInv, CompletedInv
<1>3. ASSUME NEW p \in Process, Dispatch(p) \/ Step(p) \/ Fault(p)
      PROVE  FinalInv' /\ CompletedInv'
  <2>1. ASSUME NEW q \in Process, pc'[q] = "commit", walk'[q].final = "completed"
        PROVE  StillEnded(walk'[q].campaign)
    <3>1. CASE q # p
      <4>1. pc[q] = "commit" /\ walk'[q] = walk[q]
        BY <1>3, <2>1, <3>1, OthersUntouched
      <4>2. Ended(walk[q].campaign)
        BY <2>1, <4>1 DEF FinalInv
      <4> HIDE DEF Ended, StillEnded
      <4> QED BY <1>1, <4>1, <4>2
    <3>2. CASE q = p
      <4>1. ReadFinal(p)
        BY <1>3, <2>1, <3>2, CommitFollowsRead
      <4>2. /\ walk'[p].campaign = walk[p].campaign /\ UNCHANGED entries
            /\ Ended(walk[p].campaign)
        BY <2>1, <3>2, <4>1 DEF ReadFinal, TypeOK, Walk, stateVars
      <4> HIDE DEF Ended, StillEnded
      <4> QED BY <1>1, <3>2, <4>2
    <3> QED BY <3>1, <3>2
  <2>2. ASSUME status' = "completed" PROVE \E c \in Campaigns : ~HasDuplicates(c) /\ StillEnded(c)
    <3>1. CASE status = "completed"
      <4>1. PICK c \in Campaigns : ~HasDuplicates(c) /\ Ended(c)
        BY <3>1 DEF CompletedInv
      <4> HIDE DEF Ended, StillEnded
      <4> QED BY <1>1, <4>1
    <3>2. CASE CommitFinal(p)
      <4>1. /\ Ended(walk[p].campaign) /\ walk[p].campaign \in Campaigns
            /\ ~HasDuplicates(walk[p].campaign)
        BY <2>2, <3>2 DEF CommitFinal, FinalInv, PlannedInv, Walking, TypeOK, Walk
      <4> HIDE DEF Ended, StillEnded
      <4> QED BY <1>1, <4>1
    <3> QED BY <1>3, <2>2, <3>1, <3>2, StatusWritten
  <2> QED BY <2>1, <2>2 DEF FinalInv, CompletedInv, ExpectedKeys, HasDuplicates
<1> QED BY <1>2, <1>3 DEF Next

-----------------------------------------------------------------------------
(* The theorems *)

(* Whatever the executor answers, a message only goes out of an entry that is already
   submitted for that attempt and that operator: no other process, and no recovery from
   evidence, can have touched it since Hook & Lock. *)
THEOREM HookAndLockHolds == Spec => HookAndLockRule
<1> DEFINE Rule == \A m \in flight' \ flight : SubmittedAs(m.key, m.attempt, m.operator)
<1>1. BatchInv /\ [Next]_vars => [Rule]_vars
  <2> SUFFICES ASSUME BatchInv, [Next]_vars, NEW m \in flight' \ flight
               PROVE  SubmittedAs(m.key, m.attempt, m.operator)
    OBVIOUS
  <2>1. CASE Chain \/ Clock \/ UNCHANGED vars
    BY <2>1 DEF Chain, Clock, Mint, Drop, ZombieTimeout, CooldownPasses, WindowPasses,
                vars, chainVars
  <2>2. ASSUME NEW p \in Process, Dispatch(p) \/ Step(p) \/ Fault(p)
        PROVE  SubmittedAs(m.key, m.attempt, m.operator)
    <3>1. Broadcast(p)
      BY <2>2, HistoryWritten DEF chainVars
    <3>2. m = Mine(p) /\ pc[p] = "broadcast"
      BY <3>1 DEF Broadcast
    <3> QED BY <3>2 DEF BatchInv, FreshInv, Mine
  <2> QED BY <2>1, <2>2 DEF Next
<1> QED BY <1>1, BatchInvariance, PTL DEF Spec, HookAndLockRule

(* If the executor tells an uncertain submission apart, the invariant behind a campaign's
   safety holds: what is in hand is fresh until it is sent and dead before it is retried,
   evidence is true, and live messages are pending, all at once. *)
THEOREM CampaignSafety == TruthfulExecutor => (Spec => []CampaignInv)
<1> SUFFICES ASSUME TruthfulExecutor PROVE Spec => []CampaignInv
  OBVIOUS
<1>1. TypeOK /\ CampaignInv /\ [Next]_vars => CampaignInv'
  BY CampaignInvNext
<1> QED BY <1>1, CampaignInvInit, Typing, PTL DEF Spec

(* If the executor tells an uncertain submission apart, the run state never loses sight
   of a message that minted or still may. *)
THEOREM NothingIsLost == TruthfulExecutor => (Spec => []LiveIsPending)
<1> SUFFICES ASSUME TruthfulExecutor PROVE Spec => []LiveIsPending
  OBVIOUS
<1>1. CampaignInv => LiveIsPending
  BY DEF CampaignInv
<1> QED BY <1>1, CampaignSafety, PTL

LEMMA PaidOnce ==
  FixedBatches => (TypeOK /\ LiveIsPending /\ PlannedInv => PaidAtMostOnce)
<1> SUFFICES ASSUME FixedBatches, TypeOK, LiveIsPending, PlannedInv,
                    NEW m \in Live, NEW n \in Live, m.key[2] = n.key[2]
             PROVE  m = n
  BY DEF PaidAtMostOnce
<1>1. m \in Message /\ n \in Message
  BY DEF TypeOK, Live
<1>2. ASSUME NEW x \in Live PROVE x.key \in PlannedKeys
  <2>1. x.key \in Key
    BY <1>2 DEF TypeOK, Live, Message
  <2>2. entries[x.key].status # "absent"
    BY <1>2 DEF LiveIsPending
  <2> QED BY <2>1, <2>2 DEF PlannedInv
<1>3. m.key = n.key
  BY <1>2 DEF FixedBatches, PlannedKeys
<1>4. m.attempt = n.attempt /\ m.operator = n.operator
  BY <1>3 DEF LiveIsPending
<1> QED BY <1>1, <1>3, <1>4 DEF Message

(* If, besides, every call of the campaign cuts the list into the same batches, no
   recipient ever has two messages on chain or on their way. *)
THEOREM NobodyPaidTwice ==
  TruthfulExecutor /\ FixedBatches => (Spec => []PaidAtMostOnce)
<1> SUFFICES ASSUME TruthfulExecutor, FixedBatches PROVE Spec => []PaidAtMostOnce
  OBVIOUS
<1>1. Spec => []LiveIsPending
  BY NothingIsLost
<1>2. Spec => []PlannedInv
  BY PlannedInit, PlannedNext, Typing, PTL DEF Spec
<1>3. TypeOK /\ LiveIsPending /\ PlannedInv => PaidAtMostOnce
  BY PaidOnce
<1> QED BY <1>1, <1>2, <1>3, Typing, PTL

(* The campaign is only marked completed over a plan that is terminal, although other
   processes run between the finalisation's read and its write. *)
THEOREM CompletionIsEarned == Spec => []CompletedMeansSettled
<1>1. Init => FinalInv /\ CompletedInv
  BY DEF Init, FinalInv, CompletedInv
<1>2. CompletedInv => CompletedMeansSettled
  BY DEF CompletedInv, CompletedMeansSettled
<1> QED BY <1>1, <1>2, PlannedInit, PlannedNext, FinalNext, Typing, PTL DEF Spec
=============================================================================
