\* An online and a cash-on-delivery order want the same ring; one process
\* that may crash once.
CONSTANTS
  o1 = o1
  o2 = o2
  c1 = c1
  Orders = {o1, o2}
  CodOrders = {o2}
  NoOrder = NoOrder
  Procs = {c1}
  Rows <- MCRows
  Cart <- MCCart
  InitialQty <- MCInitialQty
  RingQty = 1
  MaxCalls = 0
  MaxCrashes = 1
  SlowHolders = FALSE
  WriteFaults = FALSE
  SlowClaimers = FALSE
  MaxMissed = 1
  LookupsFail = FALSE
SPECIFICATION OrderFairSpec
INVARIANTS DoneMeansRecorded
PROPERTIES PaidIsPersisted ReservedIsResolved
CHECK_DEADLOCK FALSE
