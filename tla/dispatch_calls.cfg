SPECIFICATION Spec
CONSTANTS
  p1 = p1
  p2 = p2
  r1 = r1
  r2 = r2
  o1 = o1
  o2 = o2
  Recipient = {r1, r2}
  Process = {p1}
  Campaigns <- TwoBatches
  BatchCount = 2
  Operators <- TwoOperators
  SelectionStart <- Spread
  MaxBatchSize <- CapOne
  Failures <- CommonFailures
  Ambiguous <- OnlyUncertain
  EvidenceOutcomes = {}
  RotateCools = TRUE
  MaxAttempts = 2
  MaxCalls = 4
  MaxFaults = 1
INVARIANTS
  TypeOK
  LiveIsPending
  TerminalIsRecorded
  OneSuccessRow
  AttemptsBounded
  SettledPassesWatch
PROPERTIES
  BenchedNeverSends
CHECK_DEADLOCK FALSE
