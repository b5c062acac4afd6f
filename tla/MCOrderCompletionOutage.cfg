\* One process; the order API of Razorpay may be down for a while; no crash.
CONSTANTS
  o1 = o1
  c1 = c1
  Orders = {o1}
  CodOrders = {}
  NoOrder = NoOrder
  Procs = {c1}
  Rows <- MCRows
  Cart <- MCCart
  InitialQty <- MCInitialQty
  RingQty = 1
  MaxCalls = 0
  MaxCrashes = 0
  SlowHolders = FALSE
  WriteFaults = FALSE
  SlowClaimers = FALSE
  MaxMissed = 0
  LookupsFail = TRUE
SPECIFICATION OrderSpec
PROPERTY NeverWronglyAbandoned
CHECK_DEADLOCK FALSE
