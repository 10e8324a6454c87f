SPECIFICATION Spec
CONSTANTS
  w1 = w1
  w2 = w2
  l1 = l1
  accept = accept
  reject = reject
  revised = revised
  unfit = unfit
  Missing = Missing
  Empty = Empty
  Garbled = Garbled
  NoLock = NoLock
  GarbledLine = GarbledLine
  NoRecord = NoRecord
  Writer = {w1, w2}
  LockId = {l1}
  Lifetime = {0, 1}
  MaxTime = 2
  MaxCalls = 3
  MaxFaults = 1
  Record = {accept, revised, reject, unfit}
  IdOf <- Ids
  RunOf <- Runs
  Invalid = {unfit}
  MaxLines = 2
SYMMETRY Writers
INVARIANTS
  TypeOK
  CreatedExcludes
  NoTempLeftBehind
  OneVerdictPerRun
  RecoveryFailsClosed
CHECK_DEADLOCK FALSE
