SPECIFICATION FairSpec
CONSTANTS
  p1 = p1
  p2 = p2
  s1 = s1
  s2 = s2
  s3 = s3
  u1 = u1
  u2 = u2
  u3 = u3
  u4 = u4
  Process = {p1, p2}
  Store = {s1, s2, s3}
  HostOf <- Hosts
  Update = {u1, u2, u3, u4}
  StoreOf <- Calls
  MaxFaults = 1
INVARIANTS
  TypeOK
  StoreInv
PROPERTIES
  ImplementsAtomicState
  UpdatesAnswered
  LockFileRemoved
CHECK_DEADLOCK FALSE
