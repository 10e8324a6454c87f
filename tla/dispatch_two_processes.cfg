SPECIFICATION Spec
CONSTANTS
  p1 = p1
  p2 = p2
  r1 = r1
  r2 = r2
  o1 = o1
  o2 = o2
  Recipient = {r1, r2}
  Process = {p1, p2}
  Campaigns <- OneBatch
  BatchCount = 1
  Operators <- OneOperator
  SelectionStart <- StartAtFirst
  MaxBatchSize <- CapTwo
  Failures <- FewFailures
  Ambiguous <- OnlyUncertain
  EvidenceOutcomes <- SuccessAndFailure
  RotateCools = FALSE
  MaxAttempts = 2
  MaxCalls = 3
  MaxFaults = 1
SYMMETRY ProcessSymmetry
INVARIANTS
  CampaignInv
  RunLockOwned
  SuccessMeansMinted
  CompletedMeansSettled
  PaidAtMostOnce
PROPERTIES
  HookAndLockRule
  TerminalIsFinal
  ImplementsPayout
CHECK_DEADLOCK FALSE
