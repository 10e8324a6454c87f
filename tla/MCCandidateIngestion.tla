----------------------- MODULE MCCandidateIngestion -----------------------
(***************************************************************************)
(* Values of CandidateIngestion's constants for TLC.                       *)
(***************************************************************************)
EXTENDS CandidateIngestion

CONSTANTS e1, e2, e3, bad, undated, c1, c2

\* Two observations of one candidate, one without a date, another candidate.
Keys == [e \in Event |->
  IF e \in {e1, e2, undated} THEN c1 ELSE c2]

\* Pages that overlap: a page is handed over again after a failure.
Pages == {<<e1, e3>>, <<e2, bad>>, <<undated, e3>>}

Good == [readable |-> TRUE, wellFormed |-> TRUE, fresh |-> TRUE, status |-> "active",
         emergencyStop |-> FALSE, lockdown |-> FALSE, candidateWritesAllowed |-> TRUE]

\* The file that permits writes; a status, a lockdown and an age that do not.
FilesOfCommander ==
  {Good, [Good EXCEPT !.status = "passive"], [Good EXCEPT !.lockdown = TRUE],
   [Good EXCEPT !.fresh = FALSE]}
=============================================================================
