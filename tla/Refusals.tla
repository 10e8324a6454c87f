------------------------------ MODULE Refusals ------------------------------
(***************************************************************************)
(* Most functions of the offline stages are a list of checks; the answer   *)
(* is the reason of the first one that fails.  Some keep a part of a list. *)
(***************************************************************************)
EXTENDS Integers, Sequences, FiniteSetsExt

\* The reason of a function that refuses nothing.
None == "none"

\* checks: pairs <<is it refused, with what reason>>, in the order of the code.
FirstRefusal(checks) ==
  LET failed == {i \in DOMAIN checks : checks[i][1]}
  IN IF failed = {} THEN None ELSE checks[Min(failed)][2]

\* A call of another function as one of the checks.
Refused(reason) == <<reason # None, reason>>

\* Array.prototype.filter: the elements of a list at some of its places, in order.
NthPlace(places, k) == CHOOSE i \in places : Cardinality({j \in places : j <= i}) = k
Selected(list, places) == [k \in 1 .. Cardinality(places) |-> list[NthPlace(places, k)]]
=============================================================================
