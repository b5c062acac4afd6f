\* Two online orders and a crash, or one of them and a cash-on-delivery order.
CONSTANTS
  o1 = o1
  o2 = o2
  o3 = o3
  p1 = p1
  p2 = p2
  Orders = {o1, o2, o3}
  CodOrders = {o3}
  NoOrder = NoOrder
  Procs = {p1, p2}
  Rows <- MCRows
  Cart <- MCCart
  InitialQty <- MCInitialQty
  MaxCalls = 2
  MaxCrashes = 1
  SlowHolders = FALSE
  WriteFaults = TRUE
SYMMETRY ProcSymmetry
SPECIFICATION MCSpec
INVARIANTS MirrorClaimedOnce LockExclusive PendingNeverOverstates NoLeakedHold SaleIsAccounted
CHECK_DEADLOCK FALSE
