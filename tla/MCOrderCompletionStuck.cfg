\* One process that may crash once, and whatever retries the code has.
CONSTANTS
  o1 = o1
  c1 = c1
  Orders = {o1}
  CodOrders = {}
  NoOrder = NoOrder
  Procs = {c1}
  Rows <- MCRows
  Cart <- MCCart
  InitialQty <- MCInitialQty
  RingQty = 1
  MaxCalls = 0
  MaxCrashes = 1
  SlowHolders = FALSE
  WriteFaults = FALSE
  SlowClaimers = FALSE
  MaxMissed = 0
  LookupsFail = FALSE
SPECIFICATION OrderFairSpec
PROPERTY CrashedClaimIsFinished
CHECK_DEADLOCK FALSE
