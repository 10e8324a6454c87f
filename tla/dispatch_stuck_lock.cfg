SPECIFICATION Spec
CONSTANTS
  p1 = p1
  p2 = p2
  r1 = r1
  r2 = r2
  o1 = o1
  o2 = o2
  Recipient = {r1, r2}
  Process = {p1}
  Campaigns <- OneBatch
  BatchCount = 1
  Operators <- TwoOperators
  SelectionStart <- StartAtFirst
  MaxBatchSize <- CapTwo
  Failures <- CommonFailures
  Ambiguous <- OnlyUncertain
  EvidenceOutcomes = {}
  RotateCools = FALSE
  MaxAttempts = 2
  MaxCalls = 1
  MaxFaults = 1
INVARIANTS
  NoStuckLock
CHECK_DEADLOCK FALSE
