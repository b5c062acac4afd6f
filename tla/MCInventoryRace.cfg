\* A commit against a release of the sweep; no crash.
CONSTANTS
  o1 = o1
  o2 = o2
  p1 = p1
  p2 = p2
  Orders = {o1, o2}
  CodOrders = {}
  NoOrder = NoOrder
  Procs = {p1, p2}
  Rows <- MCRows
  Cart <- MCCart
  InitialQty <- MCInitialQty
  MaxCalls = 1
  MaxCrashes = 0
  SlowHolders = FALSE
  WriteFaults = TRUE
SPECIFICATION Spec
INVARIANT NoDoubleProcessing
CHECK_DEADLOCK FALSE
