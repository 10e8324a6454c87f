--------------------------- MODULE StateStoreLock ---------------------------
(***************************************************************************)
(* JsonAtomicStateStore of lib/dispatcher/stateStore.ts: the transaction   *)
(* behind store.update().  Each store instance runs its updates one after  *)
(* the other; instances, in one process or in several, exclude each other  *)
(* by a lock file created exclusively next to the state file.  The state   *)
(* is loaded, changed and saved to a temporary file that is renamed over   *)
(* the state file.                                                         *)
(*                                                                         *)
(* An update adds itself to the state, so the state is the set of updates  *)
(* it reflects: an update that overwrites another's is a lost member.      *)
(***************************************************************************)
EXTENDS Naturals, FiniteSets, Sequences

CONSTANTS
  Process,   \* processes: launchers on one state file
  Store,     \* store instances (a launcher's dispatcher, pool and reconciler have one each)
  HostOf,    \* the process of a store
  Update,    \* the calls of update()
  StoreOf,   \* the store an update is called on
  MaxFaults  \* bound: failed file operations and crashes

ASSUME StoreAssumption ==
  /\ HostOf \in [Store -> Process]
  /\ StoreOf \in [Update -> Store]
  /\ MaxFaults \in Nat

VARIABLES
  state,     \* the state file
  lockFile,  \* does the lock file exist
  phase,     \* where each update is
  chain,     \* each store's write chain: its pending updates, in order of the calls
  draft,     \* the next state an update is about to save
  late,      \* updates that have polled for the lock past their deadline
  faults

vars == <<state, lockFile, phase, chain, draft, late, faults>>

\* Inside the transaction: from the creation of the lock file to its removal.
Holding == {"held", "drafted", "saved", "failed"}
Phase == {"new", "chained", "polling", "resolved", "rejected", "dead"} \cup Holding
Answered == {"resolved", "rejected", "dead"}

-----------------------------------------------------------------------------
Init ==
  /\ state = {}
  /\ lockFile = FALSE
  /\ phase = [u \in Update |-> "new"]
  /\ chain = [s \in Store |-> <<>>]
  /\ draft = [u \in Update |-> {}]
  /\ late = {}
  /\ faults = 0

Become(u, label) == phase' = [phase EXCEPT ![u] = label]

\* Mutant: a rejected update blocks the chain.
SettlesBlocksChain(u, label) ==
  /\ Become(u, label)
  /\ chain' = IF label = "rejected" THEN chain
              ELSE [chain EXCEPT ![StoreOf[u]] = Tail(@)]

\* The update's promise settles and the store's chain goes on.
Settles(u, label) ==
  /\ Become(u, label)
  /\ chain' = [chain EXCEPT ![StoreOf[u]] = Tail(@)]

\* A file operation fails.
Fails == faults < MaxFaults /\ faults' = faults + 1

\* update(): the call joins the write chain of its store.
Call(u) ==
  /\ phase[u] = "new"
  /\ Become(u, "chained")
  /\ chain' = [chain EXCEPT ![StoreOf[u]] = Append(@, u)]
  /\ UNCHANGED <<state, lockFile, draft, late, faults>>

\* Mutant: update() runs at once instead of chaining onto the pending write.
BeginAtOnce(u) ==
  /\ phase[u] = "chained"
  /\ Become(u, "polling")
  /\ UNCHANGED <<state, lockFile, chain, draft, late, faults>>

\* The chain reaches it: the deadline of the lock is set.
Begin(u) ==
  /\ phase[u] = "chained"
  /\ chain[StoreOf[u]] # <<>> /\ Head(chain[StoreOf[u]]) = u
  /\ Become(u, "polling")
  /\ UNCHANGED <<state, lockFile, chain, draft, late, faults>>

\* open(lockPath, "wx")
AcquireLock(u) ==
  /\ phase[u] = "polling" /\ u \notin late
  /\ ~lockFile
  /\ lockFile' = TRUE
  /\ Become(u, "held")
  /\ UNCHANGED <<state, chain, draft, late, faults>>

DeadlinePasses(u) ==
  /\ phase[u] = "polling" /\ u \notin late
  /\ late' = late \cup {u}
  /\ UNCHANGED <<state, lockFile, phase, chain, draft, faults>>

\* Mutant: an update that gives up removes the lock file as well.
LockTimeoutUnlinks(u) ==
  /\ phase[u] = "polling" /\ u \in late
  /\ lockFile' = FALSE
  /\ Settles(u, "rejected")
  /\ UNCHANGED <<state, draft, late, faults>>

\* It gives up after the deadline: it never held the lock and leaves it alone.
LockTimeout(u) ==
  /\ phase[u] = "polling"
  /\ u \in late
  /\ Settles(u, "rejected")
  /\ UNCHANGED <<state, lockFile, draft, late, faults>>

\* open fails with an error other than EEXIST.
OpenFails(u) ==
  /\ phase[u] = "polling" /\ u \notin late
  /\ Fails
  /\ Settles(u, "rejected")
  /\ UNCHANGED <<state, lockFile, draft, late>>

\* Load, clone, mutate, validate: no await between the load and the draft.
LoadAndMutate(u) ==
  /\ phase[u] = "held"
  /\ draft' = [draft EXCEPT ![u] = state \cup {u}]
  /\ Become(u, "drafted")
  /\ UNCHANGED <<state, lockFile, chain, late, faults>>

\* The load fails, the mutator refuses, or the next state is not valid.
MutatorThrows(u) ==
  /\ phase[u] = "held"
  /\ Become(u, "failed")
  /\ UNCHANGED <<state, lockFile, chain, draft, late, faults>>

\* saveStateAtomic: the temporary file is renamed over the state file.
SaveState(u) ==
  /\ phase[u] = "drafted"
  /\ state' = draft[u]
  /\ Become(u, "saved")
  /\ UNCHANGED <<lockFile, chain, draft, late, faults>>

\* Mutant: a failure is reported although the rename was done.
SaveFailsRenamed(u) ==
  /\ phase[u] = "drafted"
  /\ Fails
  /\ state' = draft[u]
  /\ Become(u, "failed")
  /\ UNCHANGED <<lockFile, chain, draft, late>>

\* The write or the rename fails: the original is left alone.
SaveFails(u) ==
  /\ phase[u] = "drafted"
  /\ Fails
  /\ Become(u, "failed")
  /\ UNCHANGED <<state, lockFile, chain, draft, late>>

\* Mutant: a failed update leaves without its finally block.
ReleaseLockOnSuccess(u) ==
  /\ phase[u] \in {"saved", "failed"}
  /\ lockFile' = (phase[u] = "failed")
  /\ Settles(u, IF phase[u] = "saved" THEN "resolved" ELSE "rejected")
  /\ UNCHANGED <<state, draft, late, faults>>

\* releaseLock, in the finally block.
ReleaseLock(u) ==
  /\ phase[u] \in {"saved", "failed"}
  /\ lockFile' = FALSE
  /\ Settles(u, IF phase[u] = "saved" THEN "resolved" ELSE "rejected")
  /\ UNCHANGED <<state, draft, late, faults>>

\* An error of unlink is ignored, and the lock file stays.
UnlinkFails(u) ==
  /\ phase[u] \in {"saved", "failed"}
  /\ Fails
  /\ Settles(u, IF phase[u] = "saved" THEN "resolved" ELSE "rejected")
  /\ UNCHANGED <<state, lockFile, draft, late>>

\* A process dies with the updates of its stores; a lock file they hold stays.
Crash(p) ==
  /\ faults < MaxFaults /\ faults' = faults + 1
  /\ phase' = [u \in Update |->
       IF HostOf[StoreOf[u]] = p /\ phase[u] \notin Answered \cup {"new"}
       THEN "dead" ELSE phase[u]]
  /\ chain' = [s \in Store |-> IF HostOf[s] = p THEN <<>> ELSE chain[s]]
  /\ UNCHANGED <<state, lockFile, draft, late>>

-----------------------------------------------------------------------------
Step(u) ==
  \/ Begin(u)
  \/ AcquireLock(u)
  \/ LockTimeout(u)
  \/ LoadAndMutate(u)
  \/ MutatorThrows(u)
  \/ SaveState(u)
  \/ ReleaseLock(u)

Fault(u) == OpenFails(u) \/ SaveFails(u) \/ UnlinkFails(u)

Next ==
  \/ \E u \in Update : Call(u) \/ Step(u) \/ Fault(u) \/ DeadlinePasses(u)
  \/ \E p \in Process : Crash(p)

Spec == Init /\ [][Next]_vars

\* A process that lives runs its event loop, and ten seconds pass.
Fairness == \A u \in Update : WF_vars(Step(u)) /\ WF_vars(DeadlinePasses(u))
FairSpec == Spec /\ Fairness

-----------------------------------------------------------------------------
(* Properties *)

\* Every variable has its type, and the update that runs heads the chain of its store.
TypeOK ==
  /\ state \in SUBSET Update
  /\ lockFile \in BOOLEAN
  /\ phase \in [Update -> Phase]
  /\ chain \in [Store -> Seq(Update)]
  /\ draft \in [Update -> SUBSET Update]
  /\ late \in SUBSET Update
  /\ faults \in Nat
  /\ \A u \in Update : phase[u] \in {"polling"} \cup Holding =>
       chain[StoreOf[u]] # <<>> /\ Head(chain[StoreOf[u]]) = u

\* At most one update is inside the transaction, whatever timed out, failed or died.
OneHolder ==
  \A u, v \in Update : phase[u] \in Holding /\ phase[v] \in Holding => u = v

\* The state file and the draft: what an update in a phase has done to them.
SavedInv ==
  \A u \in Update :
    /\ phase[u] \in {"saved", "resolved"} => u \in state
    /\ phase[u] \notin {"saved", "resolved", "dead"} => u \notin state
    /\ phase[u] = "drafted" => draft[u] = state \cup {u}

\* The inductive invariant of the proofs: a holder means a lock file, one holder, and
\* drafts made of the present state.
StoreInv ==
  /\ \A u \in Update : phase[u] \in Holding => lockFile
  /\ OneHolder
  /\ SavedInv

\* What the caller of each update was told.
Told == [u \in Update |-> IF phase[u] \in Answered THEN phase[u] ELSE "none"]
Promise == INSTANCE AtomicState WITH effects <- state, answer <- Told

\* The store is the atomic store the dispatch path assumes: no update is lost, none
\* takes effect twice, and its caller is told the truth (update, _doUpdate).
ImplementsAtomicState == Promise!AtomicSpec

\* Every call is answered, even when a lock file is left behind by a dead process.
UpdatesAnswered ==
  \A u \in Update : phase[u] = "chained" ~> phase[u] \in Answered

\* A lock file is removed in the end unless a fault left it.
LockFileRemoved == lockFile /\ faults = 0 ~> ~lockFile \/ faults > 0
=============================================================================
