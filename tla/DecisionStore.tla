--------------------------- MODULE DecisionStore ---------------------------
(***************************************************************************)
(* The decision store of lib/watcher under its lock: decisionStore.ts      *)
(* (duplicates, index, append plan, recovery), decisionStoreOwnership.ts   *)
(* and decisionStoreWriter.ts (the owned append).  The store is one JSONL  *)
(* file.  A writer recovers an index from it, plans one append, shows a    *)
(* lock to the ownership check and appends the line.                       *)
(*                                                                         *)
(* No code in lib/ makes these calls in a row; the order is that of the    *)
(* smoke tests, and a writer recovers again after each append.             *)
(***************************************************************************)
EXTENDS DecisionStoreLock, SequencesExt

CONSTANTS
  Record,      \* decision records: equal contents are the same record
  IdOf, RunOf, \* the decision id of a record; its candidate and decision run
  Invalid,     \* records that validateDecisionStoreRecord refuses
  GarbledLine, \* a line that is not a record
  NoRecord,
  MaxLines     \* bound: lines of the store

\* buildDecisionId: the id is made from the run, among others.
ASSUME StoreAssumption ==
  /\ \A r, s \in Record \ Invalid : IdOf[r] = IdOf[s] => RunOf[r] = RunOf[s]
  /\ Invalid \subseteq Record /\ MaxLines \in Nat
  /\ GarbledLine \notin Record /\ NoRecord \notin Record

VARIABLES
  lines,   \* the JSONL file
  open,    \* does its last line lack the newline
  stage,   \* what each writer has: "none", "indexed", "planned", "owned"
  index,   \* the in-memory index it recovered
  plan,    \* the record of its append plan
  replaced \* history: a lock has been replaced

store == <<lines, open, stage, index, plan>>
vars == <<lockVars, store, replaced>>

-----------------------------------------------------------------------------
(* Duplicates and the index *)

\* Records of one run and different ids differ in content, so they conflict.
classifyDecisionStoreDuplicate(existing, incoming) ==
  IF existing = NoRecord THEN "new_record"
  ELSE IF existing = incoming THEN "identical_duplicate"
  ELSE IF IdOf[existing] = IdOf[incoming] \/ RunOf[existing] = RunOf[incoming]
       THEN "conflicting_duplicate"
  ELSE "new_record"

\* Mutant: only the decision id is looked up.
findExistingById(records, incoming) ==
  LET sameId == {r \in records : IdOf[r] = IdOf[incoming]}
  IN IF sameId # {} THEN CHOOSE r \in sameId : TRUE ELSE NoRecord

\* By decision id first, then by candidate and run.
findExisting(records, incoming) ==
  LET sameId == {r \in records : IdOf[r] = IdOf[incoming]}
      sameRun == {r \in records : RunOf[r] = RunOf[incoming]}
  IN IF sameId # {} THEN CHOOSE r \in sameId : TRUE
     ELSE IF sameRun # {} THEN CHOOSE r \in sameRun : TRUE
     ELSE NoRecord

Classified(records, incoming) ==
  classifyDecisionStoreDuplicate(findExisting(records, incoming), incoming)

Refused == [ok |-> FALSE, records |-> {}]

\* One line of the scan; a refusal is final.
Scan(result, line) ==
  IF ~result.ok \/ line = GarbledLine THEN Refused
  ELSE IF line \in Invalid THEN Refused
  ELSE CASE Classified(result.records, line) = "conflicting_duplicate" -> Refused
         [] Classified(result.records, line) = "identical_duplicate" -> result
         [] OTHER -> [result EXCEPT !.records = @ \cup {line}]

\* The scan of the whole file; a last line without its newline counts.
recoverDecisionStoreFromJsonl == FoldLeft(Scan, [ok |-> TRUE, records |-> {}], lines)

-----------------------------------------------------------------------------
StoreInit ==
  /\ Init
  /\ lines = <<>> /\ open = FALSE
  /\ stage = [w \in Writer |-> "none"]
  /\ index = [w \in Writer |-> {}]
  /\ plan = [w \in Writer |-> NoRecord]
  /\ replaced = FALSE

Advance(w, to) == stage' = [stage EXCEPT ![w] = to]

\* The writer's session is over: what it had in memory is dropped.
EndSession(w) ==
  /\ Advance(w, "none")
  /\ index' = [index EXCEPT ![w] = {}]
  /\ plan' = [plan EXCEPT ![w] = NoRecord]

\* recoverDecisionStoreFromFile; a refusal leaves nothing to plan with.
Recover(w) ==
  /\ pc[w] = "idle" /\ stage[w] = "none"
  /\ recoverDecisionStoreFromJsonl.ok
  /\ index' = [index EXCEPT ![w] = recoverDecisionStoreFromJsonl.records]
  /\ Advance(w, "indexed")
  /\ UNCHANGED <<lockVars, lines, open, plan, replaced>>

\* buildDecisionStoreAppendPlan: proceed with a valid new record, or skip, or fail.
PlanAppend(w, record) ==
  /\ pc[w] = "idle" /\ stage[w] = "indexed"
  /\ IF record \notin Invalid /\ Classified(index[w], record) = "new_record"
     THEN Advance(w, "planned") /\ plan' = [plan EXCEPT ![w] = record] /\ UNCHANGED index
     ELSE EndSession(w)
  /\ UNCHANGED <<lockVars, lines, open, replaced>>

\* Mutant: the owner of the lock shown is not compared.
OwnershipOfAnyone(w, lock) ==
  /\ lock \in Lock /\ validateDecisionStoreLockRecord(lock)
  /\ ~Expired(lock, now)

\* validateDecisionStoreOwnership of the lock the caller shows, against the owner and
\* the lock id it expects.
ownershipValid(w, lock) ==
  /\ lock \in Lock /\ validateDecisionStoreLockRecord(lock)
  /\ lock.ownerId = w
  /\ held[w] \in Lock /\ lock.lockId = held[w].lockId
  /\ ~Expired(lock, now)

\* appendApprovedDecisionStorePlanWithOwnership up to its mkdir.  The caller shows the
\* lock its acquire returned, or what it read in the lock file.
CheckOwnership(w) ==
  /\ pc[w] = "idle" /\ stage[w] = "planned"
  /\ \E lock \in {held[w], lockFile} :
       IF ownershipValid(w, lock) THEN Advance(w, "owned") /\ UNCHANGED <<index, plan>>
       ELSE EndSession(w)
  /\ UNCHANGED <<lockVars, lines, open, replaced>>

\* appendFile: after a line without its newline, neither can be read.
Appended(line) ==
  IF open THEN [lines EXCEPT ![Len(lines)] = GarbledLine] ELSE Append(lines, line)

AppendLine(w) ==
  /\ stage[w] = "owned" /\ Len(lines) < MaxLines
  /\ lines' = Appended(plan[w]) /\ open' = FALSE
  /\ EndSession(w)
  /\ UNCHANGED <<lockVars, replaced>>

\* The append fails after a part of the line, or all of it but the newline.
AppendFails(w) ==
  /\ stage[w] = "owned" /\ Len(lines) < MaxLines
  /\ \/ UNCHANGED <<lines, open>>
     \/ \E line \in {GarbledLine, plan[w]} : lines' = Appended(line) /\ open' = TRUE
  /\ EndSession(w)
  /\ UNCHANGED <<lockVars, replaced>>

\* A writer with an append in flight makes no other call.
LockStep(w) ==
  /\ stage[w] # "owned"
  /\ Proceed(w)
  /\ replaced' = (replaced \/ (lockFile \in Lock /\ lockFile' # lockFile))
  /\ UNCHANGED store

Crash(w) ==
  /\ Die(w)
  /\ EndSession(w)
  /\ UNCHANGED <<lines, open, replaced>>

TimePasses == Tick /\ UNCHANGED <<store, replaced>>

Next ==
  \/ TimePasses
  \/ \E w \in Writer :
       \/ LockStep(w) \/ Crash(w)
       \/ Recover(w) \/ CheckOwnership(w) \/ AppendLine(w) \/ AppendFails(w)
       \/ \E record \in Record : PlanAppend(w, record)

Spec == StoreInit /\ [][Next]_vars

-----------------------------------------------------------------------------
(* Properties *)

Parsed == {i \in DOMAIN lines : lines[i] # GarbledLine}

\* Every variable has its type; only a line can lack its newline, and a planned record
\* is new to the index it was planned with.
TypeOK ==
  /\ LockTypeOK
  /\ lines \in Seq(Record \cup {GarbledLine}) /\ open \in BOOLEAN
  /\ open => lines # <<>>
  /\ stage \in [Writer -> {"none", "indexed", "planned", "owned"}]
  /\ index \in [Writer -> SUBSET Record]
  /\ plan \in [Writer -> Record \cup {NoRecord}]
  /\ \A w \in Writer : stage[w] \in {"planned", "owned"} =>
       plan[w] \in Record \ index[w]

\* Until a lock is taken over, the lock and the append plan together keep one verdict
\* per candidate and run in the store, whatever appends failed or writers died.
OneVerdictPerRun ==
  ~replaced =>
    \A i, j \in Parsed : RunOf[lines[i]] = RunOf[lines[j]] => i = j

\* Recovery fails closed: it accepts exactly the files whose lines are all valid records
\* and that hold no two records of one run, apart from repetitions.
RecoveryFailsClosed ==
  recoverDecisionStoreFromJsonl.ok <=>
    /\ Parsed = DOMAIN lines
    /\ \A i \in Parsed : lines[i] \notin Invalid
    /\ \A i, j \in Parsed : RunOf[lines[i]] = RunOf[lines[j]] => lines[i] = lines[j]
=============================================================================
