----------------------------- MODULE FileShells -----------------------------
(***************************************************************************)
(* The file shells that write without an exclusive create: the older       *)
(* acquire of the decision store's lock (watcher/decisionStoreLockFile.ts) *)
(* and the append of audit rows (dispatcher/auditWriter.ts).  An acquire   *)
(* reads and decides, writes the lock to one temporary name that all       *)
(* callers share, and renames it; an append looks whether the file is      *)
(* there, and then appends to it, with a header if it was not.             *)
(*                                                                         *)
(* A write opens the file, which empties it, and then fills what it opened,*)
(* wherever that has been renamed to.                                      *)
(***************************************************************************)
EXTENDS RunRecords, SequencesExt

CONSTANTS
  Caller,         \* processes with a shell
  Span,           \* what a requested lock may be: pairs <<acquired at, expires at>>
  MaxShellCalls,  \* calls to explore
  MaxNow          \* the clock's last value

VARIABLES
  lockFile,   \* the lock file: missing, or its content
  tempFile,   \* the file of the temporary name
  csv,        \* the audit file: a header, rows
  shell,      \* by caller, its call
  clock,
  shellCalls  \* calls begun

shellVars == <<lockFile, tempFile, csv, shell, clock, shellCalls>>

NoFile == [is |-> "missing"]
BlankFile == [is |-> "blank"]
Holding(lock) == [is |-> "lock", lock |-> lock]

RequestOf(c, span) ==
  [lockId |-> "l", ownerId |-> c, acquiredAtMs |-> span[1], expiresAtMs |-> span[2]]

NoShell == [step |-> "idle"]

ShellsInit ==
  /\ lockFile = NoFile /\ tempFile = NoFile /\ csv = <<>>
  /\ shell = [c \in Caller |-> NoShell]
  /\ clock = 0 /\ shellCalls = 0

Overlaps(c) == \E d \in Caller \ {c} : shell[d].step # "idle"

\* A call begins with record, and those it meets are no longer alone.
Begins(c, record) ==
  /\ shell[c].step = "idle" /\ shellCalls < MaxShellCalls
  /\ shellCalls' = shellCalls + 1
  /\ shell' = [d \in Caller |->
       IF d = c THEN record
       ELSE IF shell[d].step = "idle" THEN shell[d] ELSE [shell[d] EXCEPT !.alone = FALSE]]

\* The call ends.
Ends(c) == shell' = [shell EXCEPT ![c] = NoShell]

-----------------------------------------------------------------------------
(* acquireDecisionStoreLockFileShell *)

\* parseDecisionStoreLockRecord: a blank file does not parse.
Existing == IF lockFile.is = "lock" THEN <<lockFile.lock>> ELSE <<>>

\* Mutant: a lock that has not expired is replaced too.
AllowsAny(existing, owner, now) ==
  AcquireDecision(existing, owner, now)
    \in {"acquire_allowed", "stale_lock_recoverable", "active_lock"}

Allows(existing, owner, now) ==
  AcquireDecision(existing, owner, now) \in {"acquire_allowed", "stale_lock_recoverable"}

\* Whether an acquire goes on to write, after its read.
MayWrite(request) ==
  /\ lockFile.is # "blank"
  /\ Allows(Existing, request.ownerId, clock)
  /\ LockRecordRefusal(request) = None

ReadLock(c, span) ==
  LET request == RequestOf(c, span)
  IN /\ MayWrite(request)
     /\ Begins(c, [alone |-> ~Overlaps(c), step |-> "open", at |-> "none", lock |-> request,
                   now |-> clock])
     /\ UNCHANGED <<lockFile, tempFile, csv, clock>>

\* The open of writeFile empties the temporary file, which may be another's.
OpenTemp(c) ==
  /\ shell[c].step = "open"
  /\ tempFile' = BlankFile
  /\ shell' = [shell EXCEPT ![c].step = "fill", ![c].at = "temp"]
  /\ UNCHANGED <<lockFile, csv, clock, shellCalls>>

FillTemp(c) ==
  /\ shell[c].step = "fill"
  /\ tempFile' = IF shell[c].at = "temp" THEN Holding(shell[c].lock) ELSE tempFile
  /\ lockFile' = IF shell[c].at = "lock" THEN Holding(shell[c].lock) ELSE lockFile
  /\ shell' = [shell EXCEPT ![c].step = "rename"]
  /\ UNCHANGED <<csv, clock, shellCalls>>

\* What a rename does to the files that are open.
Moved(s) ==
  IF s.step # "fill" THEN s
  ELSE [s EXCEPT !.at = IF @ = "temp" THEN "lock" ELSE "gone"]

\* The rename answers "acquired".
Acquires(c) ==
  /\ shell[c].step = "rename" /\ tempFile # NoFile
  /\ lockFile' = tempFile /\ tempFile' = NoFile
  /\ shell' = [d \in Caller |-> IF d = c THEN NoShell ELSE Moved(shell[d])]
  /\ UNCHANGED <<csv, clock, shellCalls>>

\* Another call has renamed the file they shared: lock_file_write_failed.
RenameFails(c) ==
  /\ shell[c].step = "rename" /\ tempFile = NoFile
  /\ Ends(c)
  /\ UNCHANGED <<lockFile, tempFile, csv, clock, shellCalls>>

\* releaseDecisionStoreLockFileShell answers, and leaves the lock.
MayRelease(c) ==
  lockFile.is = "lock" /\ ReleaseDecision(lockFile.lock, c) = "release_allowed"

-----------------------------------------------------------------------------
(* appendAuditRow *)

Header == "header"

\* A row is told from the header.
ASSUME RowAssumption == Header \notin Caller

LookForFile(c) ==
  /\ Begins(c, [alone |-> ~Overlaps(c), step |-> "append", exists |-> csv # <<>>])
  /\ UNCHANGED <<lockFile, tempFile, csv, clock>>

AppendRow(c) ==
  /\ shell[c].step = "append"
  /\ csv' = csv \o (IF shell[c].exists THEN <<>> ELSE <<Header>>) \o <<c>>
  /\ Ends(c)
  /\ UNCHANGED <<lockFile, tempFile, clock, shellCalls>>

-----------------------------------------------------------------------------

\* A caller stops; its files stay as they are.
ShellStops(c) ==
  /\ shell[c].step # "idle"
  /\ Ends(c)
  /\ UNCHANGED <<lockFile, tempFile, csv, clock, shellCalls>>

ClockAdvances ==
  /\ clock < MaxNow /\ clock' = clock + 1
  /\ UNCHANGED <<lockFile, tempFile, csv, shell, shellCalls>>

ShellsNext ==
  \/ ClockAdvances
  \/ \E c \in Caller :
       \/ \E span \in Span : ReadLock(c, span)
       \/ OpenTemp(c) \/ FillTemp(c) \/ Acquires(c) \/ RenameFails(c)
       \/ LookForFile(c) \/ AppendRow(c) \/ ShellStops(c)

-----------------------------------------------------------------------------
(* Properties *)

\* A call that overlapped no other keeps its word: one that is told it acquired the
\* lock leaves its own in the file, in the place of none or of one that had expired at
\* the time it gave; it may release it; and an append leaves a file that begins with
\* a header and has no more of them than before, or one.
Headers(file) == Cardinality({i \in DOMAIN file : file[i] = Header})

LoneCallsHold ==
  [][\A c \in Caller :
       /\ Acquires(c) /\ shell[c].alone =>
            /\ lockFile' = Holding(shell[c].lock) /\ MayRelease(c)'
            /\ lockFile = NoFile \/ lockFile.lock.expiresAtMs <= shell[c].now
       /\ AppendRow(c) /\ shell[c].alone =>
            /\ Head(csv') = Header /\ Last(csv') = c
            /\ Headers(csv') = Max({1, Headers(csv)})]_shellVars
=============================================================================
