\* One online order, two processes, one crash.
CONSTANTS
  o1 = o1
  c1 = c1
  c2 = c2
  Orders = {o1}
  CodOrders = {}
  NoOrder = NoOrder
  Procs = {c1, c2}
  Rows <- MCRows
  Cart <- MCCart
  InitialQty <- MCInitialQty
  RingQty = 2
  MaxCalls = 0
  MaxCrashes = 1
  SlowHolders = FALSE
  WriteFaults = FALSE
  SlowClaimers = FALSE
  MaxMissed = 0
  LookupsFail = FALSE
SPECIFICATION OrderSpec
SYMMETRY ProcSymmetry
INVARIANTS DoneMeansRecorded SaleTakesStockOnce DoneOrderHoldsNothing
           PaidIsInReach
PROPERTIES FulfilsPromise
CHECK_DEADLOCK FALSE
