------------------------- MODULE MCStateStoreLock -------------------------
(***************************************************************************)
(* Values of StateStoreLock's constants for TLC.                           *)
(***************************************************************************)
EXTENDS StateStoreLock

CONSTANTS p1, p2, s1, s2, s3, u1, u2, u3, u4

\* A launcher with two store instances, and one with one.
Hosts == [s \in Store |-> IF s = s3 THEN p2 ELSE p1]

\* Two updates queue on the first instance.
Calls == [u \in Update |->
  CASE u \in {u1, u2} -> s1 [] u = u3 -> s2 [] OTHER -> s3]
=============================================================================
