SPECIFICATION FairSpec
CONSTANTS
  r1 = r1
  r2 = r2
  a = a
  b = b
  Reader = {r1, r2}
  Account = {a, b}
  BulkReads <- Bulks
  BulkAnswers <- Held
  CacheTtl = 1
  CacheMax = 1
  Window = 2
  MaxPerWindow = 1
  MaxAttempts = 2
  BatchSize = 2
  MaxTime = 5
  MaxCalls = 3
INVARIANTS
  TypeOK
  OneFetchPerAccount
  BurstsAreBounded
PROPERTIES
  EveryReadAnswered
CHECK_DEADLOCK FALSE
