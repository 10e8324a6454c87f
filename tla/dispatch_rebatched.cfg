SPECIFICATION Spec
CONSTANTS
  p1 = p1
  p2 = p2
  r1 = r1
  r2 = r2
  o1 = o1
  o2 = o2
  Recipient = {r1, r2}
  Process = {p1}
  Campaigns <- Rebatched
  BatchCount = 2
  Operators <- TwoOperators
  SelectionStart <- StartAtFirst
  MaxBatchSize <- CapTwo
  Failures = {}
  Ambiguous = {}
  EvidenceOutcomes = {}
  RotateCools = FALSE
  MaxAttempts = 2
  MaxCalls = 2
  MaxFaults = 0
INVARIANTS
  PaidAtMostOnce
CHECK_DEADLOCK FALSE
