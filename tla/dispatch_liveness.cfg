SPECIFICATION FairSpec
CONSTANTS
  p1 = p1
  p2 = p2
  r1 = r1
  r2 = r2
  o1 = o1
  o2 = o2
  Recipient = {r1, r2}
  Process = {p1, p2}
  Campaigns <- LiveDryAndDuplicate
  BatchCount = 1
  Operators <- OneOperator
  SelectionStart <- StartAtFirst
  MaxBatchSize <- CapTwo
  Failures <- AllFailures
  Ambiguous <- OnlyUncertain
  EvidenceOutcomes = {}
  RotateCools = FALSE
  MaxAttempts = 2
  MaxCalls = 2
  MaxFaults = 0
PROPERTIES
  CallsEnd
  RunLockFreed
CHECK_DEADLOCK FALSE
