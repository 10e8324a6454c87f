------------------------------- MODULE Payout -------------------------------
(***************************************************************************)
(* What a campaign promises each recipient, whatever process, retry, crash *)
(* or recovery is behind it: one mint at most, and an outcome that is      *)
(* final and true.  "paid" is only ever declared of a recipient that was   *)
(* minted to, "refused" only of one that was not and cannot be any more,   *)
(* and nothing is sent for a recipient whose outcome is known.             *)
(***************************************************************************)
EXTENDS Naturals

CONSTANT Recipient

VARIABLES
  flying,   \* messages of the recipient that may still mint
  mints,    \* messages of the recipient that minted
  outcome   \* what the campaign declared of the recipient

payoutVars == <<flying, mints, outcome>>

Outcome == {"open", "paid", "refused"}

PayoutInit ==
  /\ flying = [r \in Recipient |-> 0]
  /\ mints = [r \in Recipient |-> 0]
  /\ outcome = [r \in Recipient |-> "open"]

Untouched(r) == flying[r] = 0 /\ mints[r] = 0

Send(r) ==
  /\ outcome[r] = "open" /\ Untouched(r)
  /\ flying' = [flying EXCEPT ![r] = 1]
  /\ UNCHANGED <<mints, outcome>>

Lose(r) ==
  /\ flying[r] = 1
  /\ flying' = [flying EXCEPT ![r] = 0]
  /\ UNCHANGED <<mints, outcome>>

MintOnce(r) ==
  /\ flying[r] = 1
  /\ flying' = [flying EXCEPT ![r] = 0]
  /\ mints' = [mints EXCEPT ![r] = 1]
  /\ UNCHANGED outcome

DeclarePaid(r) ==
  /\ outcome[r] = "open" /\ mints[r] = 1
  /\ outcome' = [outcome EXCEPT ![r] = "paid"]
  /\ UNCHANGED <<flying, mints>>

DeclareRefused(r) ==
  /\ outcome[r] = "open" /\ Untouched(r)
  /\ outcome' = [outcome EXCEPT ![r] = "refused"]
  /\ UNCHANGED <<flying, mints>>

PayoutNext ==
  \E r \in Recipient : Send(r) \/ Lose(r) \/ MintOnce(r)
                         \/ DeclarePaid(r) \/ DeclareRefused(r)

PayoutSpec == PayoutInit /\ [][PayoutNext]_payoutVars
=============================================================================
