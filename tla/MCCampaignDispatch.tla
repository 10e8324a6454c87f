------------------------ MODULE MCCampaignDispatch ------------------------
(***************************************************************************)
(* Values of CampaignDispatch's constants for TLC.                         *)
(***************************************************************************)
EXTENDS CampaignPayout, CampaignInvariant, StageBWatch, TLC

CONSTANTS p1, p2, r1, r2, o1, o2

Call(recipients, batchSize, dryRun) ==
  [recipients |-> recipients, batchSize |-> batchSize, dryRun |-> dryRun]

\* Two recipients in two batches, or in one.
TwoBatches == {Call(<<r1, r2>>, 1, FALSE)}
OneBatch == {Call(<<r1, r2>>, 2, FALSE)}

\* The same list live, as a dry run, and with a duplicate the planner refuses.
LiveDryAndDuplicate ==
  {Call(<<r1, r2>>, 2, FALSE), Call(<<r1, r2>>, 2, TRUE), Call(<<r1, r1>>, 2, FALSE)}

\* The same list in batches of one and of two, as when BATCH_SIZE is unset and the
\* first enabled operator's maxBatchSize changes between two calls.
Rebatched == {Call(<<r1, r2>>, 1, FALSE), Call(<<r1, r2>>, 2, FALSE)}

OneRecipient == {Call(<<r1>>, 1, FALSE)}

TwoOperators == <<o1, o2>>
OneOperator == <<o1>>

\* Where the search for a provider starts: everywhere at the first, or a batch each.
StartAtFirst == [b \in Batch |-> 1]
Spread == [b \in Batch |-> 1 + (b % Len(Operators))]

CapOne == [o \in Operator |-> 1]
CapTwo == [o \in Operator |-> 2]

\* Error messages.  The uncertain one says that the transaction was broadcast.
Timeout == {"timeout"}
LowBalance == {"insufficient_ton"}
Uncertain == {"uncertain_submission"}
Rejected == {"contract_rejection"}
Fatal == {"fatal"}
UncertainTimeout == {"timeout", "uncertain_submission"}

AllFailures == {Timeout, LowBalance, Uncertain, Rejected, Fatal}
CommonFailures == {Timeout, LowBalance, Uncertain, Fatal}
FewFailures == {Timeout, Uncertain}
OnlyUncertain == {Uncertain}
OnlyUncertainTimeout == {UncertainTimeout}

SuccessAndFailure == {"success", "hard_failure"}

ProcessSymmetry == Permutations(Process)
=============================================================================
