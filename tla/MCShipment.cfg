\* Two coroutines, one crash or lost answer; two checkouts and a payment from
\* elsewhere, two passes that load one attempt and one payment; one alert of
\* three kinds and an error, two workers, two attempts; two administrators and
\* three writes after the creation of an order; two writers, customers with three
\* addresses, five rows.  Events, edits, passes and rows are bounded, so a part
\* may come to its end.
CONSTANTS
  p1 = p1
  p2 = p2
  Procs = {p1, p2}
  Reported = {"delivered", "unrecognized", "none"}
  MaxFaults = 1
  SlowShippers = FALSE
  MaxCheckouts = 2
  RowCap = 1
  PageCap = 1
  MaxPasses = 2
  Workers = {p1, p2}
  MaxLen = 2
  BatchSize = 1
  MaxAttempts = 2
  MaxEvents = 2
  MaxStreamFaults = 1
  Published = {"order", "price", "other"}
  MaxPublished = 1
  Writers = {p1, p2}
  MaxAddresses = 3
  MaxRows = 5
  Admins = {p1, p2}
  MaxEdits = 4
  Foci = {"parcel", "payments", "alerts", "desk", "addresses", "ratings", "letters", "coupons"}
SYMMETRY ParcelSymmetry
SPECIFICATION ParcelSpec
INVARIANTS
  ExtraParcelsAreFaults
  ShippedHasParcel
  PaidIsNotAbandoned
  OrphansAreForeign
  ToldAgainHasCause
  DamageIsBounded
  LedgerTellsHistory
PROPERTY TerminalReadersObey
CHECK_DEADLOCK FALSE
