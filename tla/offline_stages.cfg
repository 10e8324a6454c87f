SPECIFICATION StagesSpec
CONSTANTS
  w1 = w1
  w2 = w2
  Worker = {w1, w2}
  Spelling <- Spellings
  Lower <- Lowered
  Decisions <- SomeDecisions
  Candidates <- SomeCandidates
  Batches <- SomeBatches
  OperatorPolicies <- SomeOperators
  ProviderPolicies <- SomeProviders
  Fees <- SomeFees
  Dispositions = {"none", "retry_same_identity", "rotate_identity", "fail_batch"}
  Time = {0, 1, 2}
  MaxCalls = 3
  MaxFaults = 2
  Calls <- SomeCalls
  Trim <- TrimAll
  Decimal <- DecimalAll
  RawAddress <- AddressOf
  LastDate = 2
  Caller = {w1, w2}
  Span <- Spans
  MaxShellCalls = 4
  MaxNow = 2
  MaxAttempts = 3
SYMMETRY Workers
INVARIANTS
  PipelineInv
  
PROPERTIES
  NeverReplaces
  LoneCallsHold
CHECK_DEADLOCK FALSE
