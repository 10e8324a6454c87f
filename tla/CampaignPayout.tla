--------------------------- MODULE CampaignPayout ---------------------------
(***************************************************************************)
(* The campaign seen from a recipient: how the run state and the chain of  *)
(* CampaignDispatch implement Payout.                                      *)
(***************************************************************************)
EXTENDS CampaignDispatch

KeysOf(r) == {k \in Key : k[2] = r}

Refused == {"hard_failure", "skipped", "cancelled"}

\* The messages of r among those of a set, counted.
MessagesTo(r, messages) == Cardinality({m \in messages : m.key[2] = r})

\* What the entries of r declare.
DeclaredOutcome(r) ==
  IF \E k \in KeysOf(r) : entries[k].status = "success" THEN "paid"
  ELSE IF \E k \in KeysOf(r) : entries[k].status \in Refused THEN "refused"
  ELSE "open"

Promise == INSTANCE Payout WITH
  flying <- [r \in Recipient |-> MessagesTo(r, flight)],
  mints <- [r \in Recipient |-> MessagesTo(r, minted)],
  outcome <- [r \in Recipient |-> DeclaredOutcome(r)]

\* The engine keeps the promise: with an executor that says so when it is not sure,
\* and evidence that is true, each recipient is minted to at most once and the
\* declared outcome is final and right (dispatcher and reconciler together).
ImplementsPayout == Promise!PayoutSpec
=============================================================================
