\* Two coroutines, no fault: a courier update against a cancellation.
CONSTANTS
  p1 = p1
  p2 = p2
  Procs = {p1, p2}
  Reported = {"in_transit"}
  MaxFaults = 0
  SlowShippers = FALSE
  MaxCheckouts = 0
  RowCap = 1
  PageCap = 1
  MaxPasses = 0
  Workers = {}
  MaxLen = 1
  BatchSize = 1
  MaxAttempts = 1
  MaxEvents = 0
  MaxStreamFaults = 0
  Published = {}
  MaxPublished = 0
  Writers = {}
  MaxAddresses = 1
  MaxRows = 0
  Admins = {}
  MaxEdits = 0
  Foci = {"parcel"}
SPECIFICATION ParcelSpec
PROPERTY TerminalStays
