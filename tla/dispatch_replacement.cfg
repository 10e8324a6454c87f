SPECIFICATION Spec
CONSTANTS
  p1 = p1
  p2 = p2
  r1 = r1
  r2 = r2
  o1 = o1
  o2 = o2
  Recipient = {r1}
  Process = {p1}
  Campaigns <- OneRecipient
  BatchCount = 1
  Operators <- TwoOperators
  SelectionStart <- StartAtFirst
  MaxBatchSize <- CapTwo
  Failures <- OnlyUncertainTimeout
  Ambiguous <- OnlyUncertainTimeout
  EvidenceOutcomes = {}
  RotateCools = FALSE
  MaxAttempts = 2
  MaxCalls = 1
  MaxFaults = 0
INVARIANTS
  NoReplacementAttempt
CHECK_DEADLOCK FALSE
