\* Three requests with one key and two carts, one of them failing and one
\* outliving its lock; two clients at two buckets, whose scripts are late by a
\* tick or two; a bulkhead of one in two processes and three failures to open
\* the breaker;
\* two orders, two invoice numbers, one backup; 1536 carts; two readers and
\* one editor of one page with a failing cache, one reader of each other page;
\* three events, a stream and batches of two, two faults of one worker.
CONSTANTS
  p1 = p1
  p2 = p2
  p3 = p3
  d1 = d1
  d2 = d2
  visitor = visitor
  guest = guest
  Requests = {p1, p2, p3}
  TheKey = k
  Key <- MCKey
  Bodies = {d1, d2}
  FraudEnabled = TRUE
  None = None
  MaxFaults = 1
  MaxLost = 1
  Clients = {d1, d2}
  Buckets <- MCBuckets
  Capacity <- MCCapacity
  Refill <- MCRefill
  Cost = 2
  Lifetime = 2
  MaxClock = 3
  MaxDelay = 2
  w1 = w1
  Callers = {p1, p2, p3, w1}
  Api = {p1, p2, p3}
  Home <- MCHome
  Limit = 1
  Threshold = 3
  Retries = 1
  MaxDeaths = 1
  Sales = {d1, d2}
  Clerks = {d1, d2}
  MaxNumbers = 2
  MaxIds = 2
  Quotes <- MCQuotes
  Foci = {"checkout", "buckets", "breaker", "invoices", "quotes", "pages", "stream"}
  Pages <- AllPages
  Readers = {visitor, guest}
  Alone = visitor
  Editors = {w1}
  Busy = {"home"}
  MaxCacheFaults = 1
  Workers = {w1}
  MaxLen = 2
  BatchSize = 2
  MaxAttempts = 2
  MaxEvents = 3
  MaxStreamFaults = 2
SYMMETRY StorefrontSymmetry
SPECIFICATION StorefrontSpec
INVARIANTS StorefrontTypeOK SecondOrderHasCause ReplayIsOwnOrder 
  BurstIsBounded OpenBreakerShields InvoicesNumberedOnce InvoiceAddsUp CopyIsCurrent EventsAccountedFor
CHECK_DEADLOCK FALSE
