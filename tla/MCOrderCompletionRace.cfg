\* Webhook, verify, reconciliation and scan race; no crash.
CONSTANTS
  o1 = o1
  c1 = c1
  c2 = c2
  Orders = {o1}
  CodOrders = {}
  NoOrder = NoOrder
  Procs = {c1, c2}
  Rows <- MCRows
  Cart <- MCCart
  InitialQty <- MCInitialQty
  RingQty = 1
  MaxCalls = 0
  MaxCrashes = 0
  SlowHolders = FALSE
  WriteFaults = FALSE
  SlowClaimers = FALSE
  MaxMissed = 0
  LookupsFail = FALSE
SPECIFICATION OrderSpec
INVARIANT SoldOrderLeftStock
CHECK_DEADLOCK FALSE
