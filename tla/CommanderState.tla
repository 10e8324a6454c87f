--------------------------- MODULE CommanderState ---------------------------
(***************************************************************************)
(* The safety gate of lib/watcher/commanderState.ts.  The Commander's file *)
(* is a record of what the reader tests: whether the file could be read,   *)
(* whether it is an object whose fields have their types, whether its      *)
(* checkedAt is a date within the maximum age, and the fields.             *)
(***************************************************************************)

Status == {"active", "emergency_stop", "passive", "unavailable"}

CommanderFile ==
  [readable : BOOLEAN, wellFormed : BOOLEAN, fresh : BOOLEAN,
   status : Status \cup {"unknown"},
   emergencyStop : BOOLEAN, lockdown : BOOLEAN, candidateWritesAllowed : BOOLEAN]

makePassiveState ==
  [status |-> "passive", emergencyStop |-> TRUE, lockdown |-> FALSE,
   candidateWritesAllowed |-> FALSE]

\* Absent, malformed, stale or of unknown status: passive.  A lockdown takes the
\* permission away whatever the file says.
readSafetyState(file) ==
  IF file.readable /\ file.wellFormed /\ file.fresh /\ file.status \in Status
  THEN [status |-> file.status,
        emergencyStop |-> file.emergencyStop,
        lockdown |-> file.lockdown,
        candidateWritesAllowed |-> file.candidateWritesAllowed /\ ~file.lockdown]
  ELSE makePassiveState

\* Mutant: the booleans alone decide.
isCandidateWriteAllowedAnyStatus(safety) ==
  /\ ~safety.emergencyStop
  /\ ~safety.lockdown
  /\ safety.candidateWritesAllowed

isCandidateWriteAllowed(safety) ==
  /\ safety.status = "active"
  /\ ~safety.emergencyStop
  /\ ~safety.lockdown
  /\ safety.candidateWritesAllowed

-----------------------------------------------------------------------------
\* What the Commander means by a file, stated without the reader: the only files
\* that allow a candidate to be written.
Permits(file) ==
  /\ file.readable /\ file.wellFormed /\ file.fresh
  /\ file.status = "active"
  /\ ~file.emergencyStop /\ ~file.lockdown /\ file.candidateWritesAllowed
=============================================================================
