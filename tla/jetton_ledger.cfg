SPECIFICATION Spec
CONSTANTS
  a = a
  b = b
  Account = {a, b}
  Foreign = Foreign
  Master = Master
  Amount = {1}
  WalletLists <- Lists
  MaxOrders = 4
  MaxFaults = 1
INVARIANTS
  LedgerInv
CHECK_DEADLOCK FALSE
