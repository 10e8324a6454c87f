---------------------------- MODULE AtomicState ----------------------------
(***************************************************************************)
(* What the dispatch path assumes of the run state store: an update takes  *)
(* effect at one instant or not at all, on what all earlier updates left,  *)
(* and its caller is told which.  An update whose process died may have    *)
(* taken effect or not.                                                    *)
(***************************************************************************)
CONSTANT Update

VARIABLES
  effects,  \* the updates that took effect
  answer    \* what the caller of each was told

atomicVars == <<effects, answer>>

Answer == {"none", "resolved", "rejected", "dead"}

AtomicInit == effects = {} /\ answer = [u \in Update |-> "none"]

TakesEffect(u) ==
  /\ answer[u] = "none" /\ u \notin effects
  /\ effects' = effects \cup {u}
  /\ UNCHANGED answer

Resolves(u) ==
  /\ answer[u] = "none" /\ u \in effects
  /\ answer' = [answer EXCEPT ![u] = "resolved"]
  /\ UNCHANGED effects

Rejects(u) ==
  /\ answer[u] = "none" /\ u \notin effects
  /\ answer' = [answer EXCEPT ![u] = "rejected"]
  /\ UNCHANGED effects

\* The process of these callers dies.
Dies(updates) ==
  /\ \A u \in updates : answer[u] = "none"
  /\ answer' = [u \in Update |-> IF u \in updates THEN "dead" ELSE answer[u]]
  /\ UNCHANGED effects

AtomicNext ==
  \/ \E u \in Update : TakesEffect(u) \/ Resolves(u) \/ Rejects(u)
  \/ \E updates \in SUBSET Update : Dies(updates)

AtomicSpec == AtomicInit /\ [][AtomicNext]_atomicVars
=============================================================================
