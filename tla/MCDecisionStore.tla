--------------------------- MODULE MCDecisionStore ---------------------------
(***************************************************************************)
(* Values of DecisionStore's constants for TLC.                            *)
(***************************************************************************)
EXTENDS DecisionStore

CONSTANTS w1, w2, l1, accept, revised, reject, unfit

\* Two verdicts on one candidate in one run, of which one has two versions under one id.
Ids == [r \in Record |-> CASE r \in {accept, revised} -> 1 [] r = reject -> 2 [] OTHER -> 3]
Runs == [r \in Record |-> 1]

\* The writers are alike.
Writers == Permutations(Writer)
=============================================================================
