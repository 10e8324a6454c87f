------------------------- MODULE DecisionStoreLock -------------------------
(***************************************************************************)
(* The lock file of the decision store: the acquire shell of                *)
(* lib/watcher/decisionStoreAtomicAcquireFile.ts over the pure contracts of *)
(* decisionStoreAtomicAcquire.ts and decisionStoreLock.ts.  A lock that is  *)
(* missing is created exclusively; one that has expired is read again,      *)
(* compared and replaced by renaming a temporary file over it.  Nothing     *)
(* deletes the lock file: it ends by expiring.                              *)
(*                                                                         *)
(* writeFile opens (and creates or empties) a file and then writes it.  An  *)
(* open file follows its inode: "at" says which name the inode opened by a  *)
(* writer has now, if any.                                                  *)
(***************************************************************************)
EXTENDS Naturals, FiniteSets

CONSTANTS
  Writer,     \* owners of locks; each makes one call at a time
  LockId,
  Lifetime,   \* lengths of the requested locks
  MaxTime,    \* bound: the clock
  MaxCalls,   \* bound: calls of acquire
  MaxFaults,  \* bound: failed file operations and crashes
  Missing,    \* there is no such file
  Empty,      \* it was opened and not written
  Garbled,    \* it does not hold a lock record
  NoLock

Lock == [lockId : LockId, ownerId : Writer, acquiredAtMs : Nat, expiresAtMs : Nat]

ASSUME LockAssumption ==
  /\ Lifetime \subseteq Nat
  /\ MaxTime \in Nat /\ MaxCalls \in Nat /\ MaxFaults \in Nat
  /\ {Missing, Empty, Garbled, NoLock} \cap Lock = {}
  /\ Missing \notin {Empty, Garbled}

VARIABLES
  now,
  lockFile,   \* what the lock file holds
  tempFile,   \* what its .tmp holds: one name, whoever writes
  pc,         \* where each writer's call is
  request,    \* the lock it asks for
  nowMs,      \* the time it was called with
  expected,   \* the lock it means to replace
  at,         \* the name of the file it has open: "lock", "temp" or "gone"
  held,       \* the lock its last call returned as acquired
  mode,       \* "created" or "replaced_stale"
  calls, faults

disk == <<lockFile, tempFile>>
call == <<request, nowMs, expected>>
lockVars == <<now, disk, pc, call, at, held, mode, calls, faults>>

Content == Lock \cup {Missing, Empty, Garbled}
InTakeover == {"filling", "renaming", "cleanup"}
Step == {"idle", "read", "create", "created", "reread", "temp"} \cup InTakeover

-----------------------------------------------------------------------------
(* The pure contracts *)

validateDecisionStoreLockRecord(lock) == lock.expiresAtMs > lock.acquiredAtMs

\* readExistingLock: a lock, none, or a refusal.
Usable(content) == content \in Lock /\ validateDecisionStoreLockRecord(content)

\* The requested lock is valid, begun and not over.
RequestStands(lock, time) ==
  /\ validateDecisionStoreLockRecord(lock)
  /\ lock.acquiredAtMs <= time
  /\ lock.expiresAtMs > time

Expired(lock, time) == lock.expiresAtMs <= time

-----------------------------------------------------------------------------
Init ==
  /\ now = 0
  /\ lockFile \in {Missing, Garbled} /\ tempFile = Missing
  /\ pc = [w \in Writer |-> "idle"]
  /\ request = [w \in Writer |-> NoLock] /\ nowMs = [w \in Writer |-> 0]
  /\ expected = [w \in Writer |-> NoLock]
  /\ at = [w \in Writer |-> "gone"]
  /\ held = [w \in Writer |-> NoLock] /\ mode = [w \in Writer |-> "none"]
  /\ calls = 0 /\ faults = 0

Goto(w, label) == pc' = [pc EXCEPT ![w] = label]

\* The call returns a rejection.
Reject(w) ==
  /\ Goto(w, "idle")
  /\ UNCHANGED <<held, mode>>

\* The call returns the requested lock.
Acquired(w, how) ==
  /\ Goto(w, "idle")
  /\ held' = [held EXCEPT ![w] = request[w]]
  /\ mode' = [mode EXCEPT ![w] = how]

\* acquireDecisionStoreLockFileCompareAndWrite is called, with the present time; the
\* lock asked for may be empty of time or begin in the future.
Acquire(w) ==
  /\ pc[w] = "idle" /\ calls < MaxCalls
  /\ calls' = calls + 1
  /\ \E id \in LockId, from \in {now, now + 1}, life \in Lifetime :
       request' = [request EXCEPT ![w] =
         [lockId |-> id, ownerId |-> w, acquiredAtMs |-> from, expiresAtMs |-> from + life]]
  /\ nowMs' = [nowMs EXCEPT ![w] = now]
  /\ expected' = [expected EXCEPT ![w] = NoLock]
  /\ Goto(w, "read")
  /\ UNCHANGED <<now, disk, at, held, mode, faults>>

\* planDecisionStoreAtomicAcquire rejects: a file that holds no lock, a request that
\* does not stand, or a lock that is active.
PlanRejects(w) ==
  /\ pc[w] = "read"
  /\ \/ lockFile # Missing /\ ~Usable(lockFile)
     \/ ~RequestStands(request[w], nowMs[w])
     \/ Usable(lockFile) /\ ~Expired(lockFile, nowMs[w])
  /\ Reject(w)
  /\ UNCHANGED <<now, disk, call, at, calls, faults>>

PlanCreates(w) ==
  /\ pc[w] = "read"
  /\ lockFile = Missing /\ RequestStands(request[w], nowMs[w])
  /\ Goto(w, "create")
  /\ UNCHANGED <<now, disk, call, at, held, mode, calls, faults>>

\* Mutant: the temporary file is created before the lock is read again.
PlanReplacesTempFirst(w) ==
  /\ pc[w] = "read"
  /\ Usable(lockFile) /\ RequestStands(request[w], nowMs[w])
  /\ Expired(lockFile, nowMs[w])
  /\ expected' = [expected EXCEPT ![w] = lockFile]
  /\ tempFile' = Empty
  /\ Goto(w, "reread")
  /\ UNCHANGED <<now, lockFile, request, nowMs, at, held, mode, calls, faults>>

PlanReplaces(w) ==
  /\ pc[w] = "read"
  /\ Usable(lockFile) /\ RequestStands(request[w], nowMs[w])
  /\ Expired(lockFile, nowMs[w])
  /\ expected' = [expected EXCEPT ![w] = lockFile]
  /\ Goto(w, "reread")
  /\ UNCHANGED <<now, disk, request, nowMs, at, held, mode, calls, faults>>

\* Mutant: the flag is "w".
CreateLockOverwrites(w) ==
  /\ pc[w] = "create"
  /\ lockFile' = Empty
  /\ at' = [at EXCEPT ![w] = "lock"]
  /\ Goto(w, "created")
  /\ UNCHANGED <<now, tempFile, call, held, mode, calls, faults>>

\* The file is opened with the flag "wx".
CreateLock(w) ==
  /\ pc[w] = "create"
  /\ IF lockFile = Missing
     THEN /\ lockFile' = Empty
          /\ at' = [at EXCEPT ![w] = "lock"]
          /\ Goto(w, "created")
          /\ UNCHANGED <<held, mode>>
     ELSE Reject(w) /\ UNCHANGED <<lockFile, at>>
  /\ UNCHANGED <<now, tempFile, call, calls, faults>>

\* What a write from its beginning makes of a file: what others wrote into it since it
\* was emptied may show behind it.
Written(content, lock) == IF content = Empty THEN {lock} ELSE {lock, Garbled}

\* The write goes to the inode, whatever its name has become.
FillOpenFile(w) ==
  /\ lockFile' \in IF at[w] = "lock" THEN Written(lockFile, request[w]) ELSE {lockFile}
  /\ tempFile' \in IF at[w] = "temp" THEN Written(tempFile, request[w]) ELSE {tempFile}
  /\ at' = [at EXCEPT ![w] = "gone"]

FillCreated(w) ==
  /\ pc[w] = "created"
  /\ FillOpenFile(w)
  /\ Acquired(w, "created")
  /\ UNCHANGED <<now, call, calls, faults>>

\* The lock is read again and compared field by field.
Reread(w) ==
  /\ pc[w] = "reread"
  /\ IF lockFile = expected[w]
     THEN Goto(w, "temp") /\ UNCHANGED <<held, mode>>
     ELSE Reject(w)
  /\ UNCHANGED <<now, disk, call, at, calls, faults>>

OpenTemp(w) ==
  /\ pc[w] = "temp"
  /\ tempFile' = Empty
  /\ at' = [at EXCEPT ![w] = "temp"]
  /\ Goto(w, "filling")
  /\ UNCHANGED <<now, lockFile, call, held, mode, calls, faults>>

FillTemp(w) ==
  /\ pc[w] = "filling"
  /\ FillOpenFile(w)
  /\ Goto(w, "renaming")
  /\ UNCHANGED <<now, call, held, mode, calls, faults>>

\* The temporary file takes the name of the lock file; files open under either follow.
Renamed ==
  /\ lockFile' = tempFile /\ tempFile' = Missing
  /\ at' = [v \in Writer |-> IF at[v] = "temp" THEN "lock" ELSE "gone"]

RenameTemp(w) ==
  /\ pc[w] = "renaming"
  /\ IF tempFile = Missing
     THEN Goto(w, "cleanup") /\ UNCHANGED <<disk, at, held, mode>>
     ELSE Renamed /\ Acquired(w, "replaced_stale")
  /\ UNCHANGED <<now, call, calls, faults>>

\* The best-effort unlink, and the call is rejected.
Cleanup(w) ==
  /\ pc[w] = "cleanup"
  /\ tempFile' = Missing
  /\ at' = [v \in Writer |-> IF at[v] = "temp" THEN "gone" ELSE at[v]]
  /\ Reject(w)
  /\ UNCHANGED <<now, lockFile, call, calls, faults>>

\* Mutant: a failed write leaves its file open.
WriteFailsOpen(w) ==
  /\ pc[w] \in {"create", "created", "temp", "filling", "renaming"}
  /\ faults < MaxFaults /\ faults' = faults + 1
  /\ Goto(w, IF pc[w] \in {"create", "created"} THEN "idle" ELSE "cleanup")
  /\ UNCHANGED <<now, disk, call, at, held, mode, calls>>

\* An open, a write or a rename fails; a file that is open may have been written in part.
WriteFails(w) ==
  /\ pc[w] \in {"create", "created", "temp", "filling", "renaming"}
  /\ faults < MaxFaults /\ faults' = faults + 1
  /\ lockFile' \in IF at[w] = "lock" THEN {lockFile, Garbled} ELSE {lockFile}
  /\ tempFile' \in IF at[w] = "temp" THEN {tempFile, Garbled} ELSE {tempFile}
  /\ at' = [at EXCEPT ![w] = "gone"]
  /\ Goto(w, IF pc[w] \in {"create", "created"} THEN "idle" ELSE "cleanup")
  /\ UNCHANGED <<now, call, held, mode, calls>>

UnlinkFails(w) ==
  /\ pc[w] = "cleanup" /\ tempFile # Missing
  /\ faults < MaxFaults /\ faults' = faults + 1
  /\ Reject(w)
  /\ UNCHANGED <<now, disk, call, at, calls>>

\* The writer's process dies.
Die(w) ==
  /\ faults < MaxFaults /\ faults' = faults + 1
  /\ Goto(w, "idle")
  /\ at' = [at EXCEPT ![w] = "gone"]
  /\ held' = [held EXCEPT ![w] = NoLock] /\ mode' = [mode EXCEPT ![w] = "none"]
  /\ UNCHANGED <<now, disk, call, calls>>

Tick ==
  /\ now < MaxTime /\ now' = now + 1
  /\ UNCHANGED <<disk, pc, call, at, held, mode, calls, faults>>

Proceed(w) ==
  \/ Acquire(w)
  \/ PlanRejects(w) \/ PlanCreates(w) \/ PlanReplaces(w)
  \/ CreateLock(w) \/ FillCreated(w)
  \/ Reread(w) \/ OpenTemp(w) \/ FillTemp(w) \/ RenameTemp(w) \/ Cleanup(w)
  \/ WriteFails(w) \/ UnlinkFails(w)

LockNext == Tick \/ \E w \in Writer : Proceed(w) \/ Die(w)

LockSpec == Init /\ [][LockNext]_lockVars

-----------------------------------------------------------------------------
(* Properties *)

\* Every variable has its type, the clock never runs behind a call, and a writer has a
\* file open only while it writes it.
LockTypeOK ==
  /\ now \in 0 .. MaxTime
  /\ lockFile \in Content /\ tempFile \in Content
  /\ pc \in [Writer -> Step]
  /\ request \in [Writer -> Lock \cup {NoLock}]
  /\ \A w \in Writer : pc[w] # "idle" => request[w] \in Lock
  /\ nowMs \in [Writer -> 0 .. MaxTime] /\ \A w \in Writer : nowMs[w] <= now
  /\ expected \in [Writer -> Lock \cup {NoLock}]
  /\ at \in [Writer -> {"lock", "temp", "gone"}]
  /\ \A w \in Writer : at[w] # "gone" => pc[w] \in {"created", "filling"}
  /\ held \in [Writer -> Lock \cup {NoLock}]
  /\ mode \in [Writer -> {"none", "created", "replaced_stale"}]
  /\ calls \in 0 .. MaxCalls /\ faults \in 0 .. MaxFaults

Holds(w) == held[w] # NoLock
Active(w) == Holds(w) /\ ~Expired(held[w], now)

\* A lock that was created is exclusive for its whole life: until it expires no other
\* call returns a lock, and the lock file holds it, whatever failed or died
\* (acquireDecisionStoreLockFileCompareAndWrite, create_if_missing).
CreatedExcludes ==
  \A w \in Writer : mode[w] = "created" /\ Active(w) =>
    /\ lockFile = held[w]
    /\ \A v \in Writer \ {w} : ~Holds(v)

\* A temporary file belongs to a takeover that is still going on: unless an operation
\* failed none is left behind, also when takeovers cross.
NoTempLeftBehind ==
  tempFile # Missing /\ faults = 0 => \E w \in Writer : pc[w] \in InTakeover
=============================================================================
