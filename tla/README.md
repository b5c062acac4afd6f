# Chokmoki backend: TLA+ models, checks and proofs

Chokmoki is a jewellery shop: a FastAPI application and a worker process, both
in Python asyncio, over MongoDB and Redis, with Razorpay for payments and
Shiprocket for parcels. Nothing in it is a database transaction: an order is
made of single-document writes, Redis commands and HTTP calls, each of them an
`await` at which another coroutine or another process can run, and between any
two of which the process can die. These modules model those interleavings and
check what the code promises about them.

## The system

| Part | State it keeps | Operations | Hard behaviour |
|---|---|---|---|
| Inventory service | `products.stock[].qty`, Redis `inv:pending`, `inv:lock`, `inv:order`, Mongo `inventory_reservations` | reserve, commit, release, direct sale and its reversal, stale sweep | stock read before the lock; counters given back by two paths; a crash between any two commands; keys that expire |
| Order service | `orders.post_processing_status` and its claim time, Redis `pending_order` | initiate, create (cash on delivery), create by an administrator, complete, scan of Redis, edits | four callers complete one order; one-time side effects behind one claim; stale claims |
| Order ledger | `order_events` | append after a write | a write that read before another's write; an entry that is lost |
| Payment reconciliation | `payment_attempts.status` with the order's snapshot | record, resolve, recover, abandon, report orphans | a last look that races a payment or fails; caps on rows and pages |
| Event streams | the Redis stream, its group, pending entries, dead letters | publish, deliver, ack, redeliver, give up | lost publish; redelivery sooner than a claim gets stale; a restore that deletes the stream |
| Alerts | no state beside their stream | SMS, e-mail, Telegram, in a chain per event | the last channel fails after the first has told the customer |
| Idempotency keys | Redis answer and lock per key | begin, store, release | a lock that lapses before its request ends; an answer read before the lock |
| Fraud checks | velocity counters, marks of bought carts | evaluate, mark | a mark set after the order it protects |
| Shiprocket shipments | shipment fields of the order, ship lock | ship, cancel, track, webhook | read-then-write status against cancellation; partial failure of five remote calls |
| Resilience primitives | breaker keys in Redis, a semaphore per process | guarded call | trip and reset from several processes; INCR and EXPIRE as two commands |
| Sessions | Redis sessions and refresh tokens | login, rotate, revoke | a rotation that races a revocation |
| Lockout, one-time passwords | failure counters, locks, codes | check, guess, count, lock | guesses already past the check when the lock falls |
| Accounts | `users` with unique e-mail and phone | create, link, edit | two first logins at once; a first login beside a first checkout |
| Rate limiting | token buckets in Redis | consume through a chain of buckets | clocks of several hosts; a bucket that expires |
| Invoices, pricing | number counter, number on the order | discount, allocation, tax lines; assign a number once | two requests at once; a restore that takes a number away |
| Backup, import, restore | no state of their own | export, merge, wipe, delete every key | document by document, may break off anywhere |
| Pages (catalogue, content) | Mongo collections, two layers of copies in Redis | cached reads, edits with deletions | a copy made from what was read before an edit, kept after its deletion |
| Small records | addresses, ratings, two newsletters, inbox, coupons | check, then write | two requests between the check and the write |
| HTTP, configuration, models, connections, analytics, GeoIP, scripts | none | plumbing, reads | none; listed in `PROJECT.json` with the reason |

How they interact: checkout (`initiate_order`) reserves stock, writes
`pending_order:<id>` to Redis, creates the Razorpay order and records a payment
attempt with a snapshot. A captured payment reaches `complete_pending_order`
from four sides: the webhook through the stream and the worker's consumer, the
client's `/api/orders/verify`, the worker's reconciliation, and the cron scan of
Redis. The method inserts the order, wins or loses the claim on its
post-processing, commits the reservation, announces, resolves the attempt,
marks the order done, and clears the Redis records, which releases what is left
of the reservation. A cron endpoint sweeps reservations nobody finished. A cash
checkout goes through the idempotency key, the fraud check and a direct sale
instead. Every announcement is an entry of the alert stream; dead letters of
both streams become errors of the system log and so alerts again. A restore
writes the collections and then deletes every Redis key of the shop: copies of
pages, which is its purpose, and also streams, groups and dead letters.

What makes the parts correct:

* inventory: stock never goes negative, what is held is given back, a
  reservation is resolved once and for good, and always in the end;
* orders: a claim takes the stock of its order once and tries each of its
  records once, its status only moves forward, and a checkout repeated under
  one key makes one order;
* payments: captured money always becomes an order, whatever a pass of the
  reconciliation loads, and no payment of the shop is reported as foreign;
* ledger: when no entry was lost the entries tell what the order says;
* streams: an event is delivered, pending, handled or a dead letter, never lost;
  a customer is not told twice without a reason;
* shipments: one order is one parcel, what says shipped has one, and whoever saw
  a terminal status respects it;
* sessions and logins: a revoked session is not brought back, a lock lets only
  those guesses through that were past its check, and an e-mail address has one
  account;
* breaker and buckets: an open breaker shields its dependency, no client gets
  more than its burst but for what late scripts refill twice;
* invoices: one number per order, one order per number, lines that add up;
* pages: an old copy has an editor that is still to delete it, unless it was made
  during an edit;
* small records: a check that is not atomic with its write can be passed by as
  many requests as there are, and no more.

## Modules

| Module | Models | Kind |
|---|---|---|
| `Inventory` | `src/services/inventory_service.py` | one action per Redis or Mongo command, one process per running method |
| `OrderCompletion` | `src/services/order_service.py` and its callers | EXTENDS `Inventory`: flows of `OrderService` that call its methods |
| `Fulfilment` | what a customer is promised about one order | abstract; `OrderCompletion` refines it (`FulfilsPromise`) |
| `Shipment` | `src/services/shiprocket_service.py` on one order | one action per remote call, Mongo write or Redis command |
| `Reconciliation` | `src/services/payment_reconciliation_service.py` over many attempts | passes step by step, completion in one step |
| `Desk` | `create_from_admin`, the edits of the admin routes, the ledger | one action per write |
| `Records` | addresses, ratings, newsletters, coupon | check and write as two actions |
| `EventStream` | `src/streams` | the stream, its group and consumers |
| `Alerts` | `src/alerts` | EXTENDS `EventStream`: its handler is the chain of channels |
| `Checkout` | the cash checkout behind `src/security/idempotency.py` and `src/fraud` | one process per request |
| `Guarded` | `src/resilience` | one action per Redis command, processes with a bulkhead each |
| `RateLimit` | `src/plugins/token_bucket.py`, `rate_limit_lua.lua` | the script as one atomic action |
| `Billing` | discounts, invoice lines and numbers, restores of orders | operators on paise, and actions |
| `Content` | public routes, services, editors and the two caches | tables of routes and edits, read by a few actions |
| `Sessions`, `Accounts`, `Login` | the session services; `user_service.py`; lockout and codes | one action per command |
| `Access` | the login routes | composes the three modules above |
| `MCInventory`, `MCOrderCompletion`, `MCShipment`, `MCAccess`, `MCStorefront` | carts, stock, symmetry and composition for TLC | instances |
| `InventoryProofs`, `OrderCompletionProofs`, `ShipmentProofs`, `AccessProofs`, `ContentProofs` | theorems about the module, or the composition, of that name | TLAPS |
| `EventStreamProofs` | theorems about `EventStream` | TLAPS |
| `BackOfficeProofs` | theorems about `Reconciliation`, `Records`, `Desk` and `Alerts`, and about `MCShipment`, which puts them beside `Shipment` | TLAPS |
| `StorefrontProofs` | theorems about `Checkout`, `Guarded`, `Billing` and `RateLimit`, and about `MCStorefront`, which puts them beside `Content` and `EventStream` | TLAPS |

Paths in this file lack the first `src/` of the repository where it is doubled
(`src/src/services` is written `src/services`).

### Inventory

A process is a coroutine that runs one of the service's methods. `op[p]` is its
program counter and locals: the method (`kind`), the order, the next command
(`at`), the line of the loop (`i` of `n`), where the lines came from (`from`) and
the stock quantity it read (`seen`). `stock`, `pending`, `lock`, `resKey` and
`mirror` are the shared records; `hold` and `taken` are history variables that
say whose lines are counted in `pending` and what was taken for whom.
`Outstanding(r)` counts the units of the lines of row `r` that are held, as the
cardinality of a set of units, which needs no sum over a set.

`reserve_for_order` is ReadEntry, AcquireProductLock, CheckPending, IncrPending,
ReleaseProductLock for each line and then WriteReservationKey and WriteMirror; a
refused line, a busy lock and a failing write (WriteFails) go to the `except`
branch (Undo). `commit_reservation` and `release_reservation` start with
LoadReservation and take either the path of the Redis key, which resolves the
mirror last, or the path of the mirror, which claims it first. DECRBY and the
DEL of a non-positive counter are two actions because they are two commands.
Time is `age` (young; key within 60 s of its TTL; past it), which is what the
sweep distinguishes. The lock's TTL is LockExpires.

A cash sale takes its lines one by one. It ends "sold", "unsold" (the insert of
the order failed and every line was put back) or "refused": a later line was
short, and because `create` calls `commit_items` outside its `try` (560, 604-610)
nobody puts the earlier lines back.

A stock row stands for a (product, bucket) pair that the region lookup has
already resolved, and `Cart` lists the tracked lines only, since every method
skips the others. Each order id is a fresh UUID, so it is reserved once.

### OrderCompletion and Fulfilment

`flow[c]` is the `OrderService` method process `c` runs. While the method is
inside the inventory service the process takes steps of `Inventory`
(InventoryStep), and CommitReturned or DeletePendingOrder continue when `op[c]`
is free again, so everything the inventory can do to an order, other orders'
methods, the sweep and cash sales, interleaves with its completion. `doc`,
`claimFresh`, `pendOrder`, `attempt` and `event` are the five other records of
an order. `notes` says of the alert and the two ledger entries of an order
whether nobody tried to write them, the write failed and was swallowed
("missed"), they were written, or written again: they are not idempotent and
hang on the claim alone. The three and the resolution of the attempt are four
steps, as they are four awaits. `before` remembers what the dead owner of a claim had
taken when the claim was taken over. An exception ends the flow; for the stream it means
redelivery or, after the last attempt, the dead-letter stream.

The reconciliation and the scan appear per order: each order they find makes one
call of `complete_pending_order`, and an old attempt for which
`fetch_captured_payment` returns nothing is abandoned by an unfiltered write
(LookUpPayment, AbandonAttempt).

`Fulfilment` knows nothing of callers, streams or reservations: an order is paid
or not, has a document or not, is processed by nobody, one claim, or a claim that
took over a stale one, and each of its records was tried, written or written
again. The refinement
mapping forgets everything else; `FulfilsPromise` is the abstract specification
under it.

### Shipment

A process is a coroutine that runs `ship_order`, `cancel_shipment`, or `track` or
`handle_webhook` (both are `kind = "update"`). `op[p]` is where it is (`at`) and
what it read or computed: the status (`seen`) and order type (`type`) of the
document it works on, the parcel and the AWB code it has in hand, and the status
it will write (`next`). The document's fields are `shipStatus`, `parcel`, `awb`,
`fulfilment`, `orderType` and `recorded` (the history as a set). `parcels` is
Shiprocket's side: every parcel created for the order, "new", with an AWB, or
cancelled. An AWB code is named by the parcel it belongs to.

The ship lock is StartShip (SET NX), Unlock (the unconditional DEL) and
LockExpires. A remote call answers, is refused, or takes effect and its answer
is lost. The last two end `ship_order` in its `finally`, and the next call starts
from what the document says. `faults` counts crashes, failing writes and lost
answers of create_order. Pack and UpdateStatus are the administrators' other
writes to the same document.

### Reconciliation

Checkouts are numbered in the order of their attempts, so "the oldest 500 pending
rows" is a set of small numbers, and payments are a sequence in the order of
their capture, so the window and the page cap are a slice of it. A pass is BeginPass (load the
attempts), FetchWindow, one Match per attempt, one LookAtOrder per attempt that
the window did not explain, Abandon (a step of its own: the write comes after the
answer and filters on nothing), and the reverse check in two queries. Customers
pay, and their own calls complete orders, between any two of them. `excused`
remembers the payments that came after the last look or that Razorpay hid.

A pass that finds nothing pending ends before it asks Razorpay, as in the code
(376-385), although the comment at 332 says that every run also makes the
reverse check.

### Desk

One order from `create_from_admin` on. An edit reads, writes and appends its
ledger entry in three steps; notes and payments read nothing first. The courier's
`_sync_order_status_type` writes the status of the order without an entry, which
is why the property allows what the courier wrote. An order that is created
unpaid never takes stock, not even when its payment is marked as collected: the
code takes it at creation only, and the property says so. `Said(field, n)` is what
the first `n` entries of the ledger leave the field at, so the property compares
each entry with the one of its field before it.

### Records

Each check and each write is one action of one of several requests, over rows
that are numbered as they are inserted. Only the code of a coupon has a unique
index. An edit of a coupon is validated against the coupon it read and written
field by field over whatever is there by then; `torn` remembers that they
differed.

### EventStream and Alerts

Entries are numbered in the order of their XADD. Redis's side is the entries it
still has, the group with its cursor, and a delivery counter per pending entry; a
worker's side is where its loop is, its event and the rest of its batch. A fault
is a lost reply, a dead worker or a restore that deletes the stream together with
its group, after which every read raises until a worker is started again. In
`Alerts` a handler goes through the chain of its kind of event one channel at a
time; SMS and e-mail swallow their errors, Telegram raises, and what was told
before it is told again at the next delivery.

### Checkout

A request is a process; `Begin`, `TakeLock`, `LookAgain`, `Store` and `Unlock` are
the commands of the idempotency service, in their order: the answer is read
before the lock is taken and again only when the lock is missed, and the lock is
deleted without a look at its owner. Between them are the fraud rules in the
order of their priority, the sale, the insert with its reversal, the log and the
mark. `lost` remembers who outlived a lock, `broken` who failed after the order
was stored, `partly` who was refused with a part of the cart taken.

Of the rules those of the velocity group (bursts of an e-mail or an IP address,
large orders; priority 90, `config/fraud_rules.yaml`) outrank the rule against
duplicates (85). They read counters that other carts and other customers move, so
whether one of them matches is an input of Judge. The fraud check is off by
default (`src/config.py:316`) and has to be on in production (485-486):
`FraudEnabled`; without it nothing but the key keeps a second order away, and
SecondOrderHasCause says nothing.
A mark of a bought cart lives 900 s, a lock 60 s. MarkExpires assumes that a
request which holds its lock, or is about to take it, is over before a mark set
meanwhile expires; one that lost its lock may meet no mark any more.

### Guarded and RateLimit

A caller of `call_guarded` passes the bulkhead of its process, then the breaker,
then makes up to `Retries + 1` attempts, fewer when a failure is one that
`retry.py:43` does not retry; a failed call is INCR, EXPIRE when the count
is one, SET of the open key, DEL of the counter, notice. `late` counts the
attempts made since the breaker opened. A bucket is what Redis keeps under its
key: tokens, the time of the last refill and the time at which the key
expires. The script is one atomic action; a caller goes through its chain of
buckets and stops at the first that refuses. A script that runs later than its
caller read the clock, or whose host is behind, stores the older time, and the
next caller is refilled for the same interval again; `delay` adds up what that
gave away.

### Billing

Money is in paise and quotients round half up, as `money()` does. The number of
an invoice is counted first and claimed by the order second; exports and restores
go document by document in the three modes of the code, which differ in what
identifies a document. `told` remembers every number a customer may have seen.

### Content

The twenty pages differ only in which collections and keys they use, so each
route and each edit is a row of a table and five actions read them all: ask the
route's key, ask the service's key, read the store, keep the part, finish. A copy
is `store` (equal to what MongoDB holds), `old`, or `doubt` (made while an edit
was under way, or left behind by a failing deletion), and an old copy is allowed
only as long as some editor is still to delete it (CopyIsCurrent). Nothing is
said of copies in doubt: a request that read before an edit and stores
after its deletion leaves an old copy until its TTL of 300 or 600 s is over,
and customers see it.

### Sessions, Accounts, Login and Access

A session is a Redis record with the hash of the refresh token it expects next,
and a second key leads from that hash back to it; `rotate_refresh_token` loads,
compares and writes back in steps, while a logout, or the reuse of an old
token, erases both. `Login` is the lockout (check, guess, count, lock per
address and per account) with the codes of the e-mail channel. `Accounts` is
find-or-create over two unique indexes; it leaves out `phone_verified`, which no
decision of the modelled routes reads, and `get_or_create_by_phone`, which
nothing calls. `Access` composes them: a login that
succeeds creates an account and opens a session.

## What the runs check

| Run | Instance | Properties |
|---|---|---|
| `inventory` | two online orders that share a row, one with two lines, and a cash sale; two processes; one crash; failing writes | MirrorClaimedOnce, LockExclusive; PendingNeverOverstates (pending never exceeds the holds); NoLeakedHold without a crash; SaleIsAccounted (what an accepted, a refused and a reversed cash sale keep) |
| `completion` | one online order for one of two rings, two processes, one crash; webhook, verify, reconciliation, scan, sweep | DoneMeansRecorded (each record was tried, the attempt is settled); SaleTakesStockOnce (once per claim, a take-over included); DoneOrderHoldsNothing (without a crash and a take-over); PaidIsInReach (a captured payment without an order has a pending attempt, unless it was given up); FulfilsPromise (the refinement of `Fulfilment`) |
| `completion_live` | an online and a cash order for one ring, one process that may crash | PaidIsPersisted: a captured payment becomes an order; ReservedIsResolved: every reservation is resolved; DoneMeansRecorded again, with a record whose write fails |
| `shipment` | eight parts, below | ExtraParcelsAreFaults, ShippedHasParcel, TerminalReadersObey; PaidIsNotAbandoned, OrphansAreForeign; ToldAgainHasCause; DamageIsBounded; LedgerTellsHistory |
| `access` | four parts: codes, the administrator's login, sessions, accounts | AccessTypeOK; StoredTokenIsKnown, QuietLogoutIsFinal; LateGuesses |
| `storefront` | seven parts, below | StorefrontTypeOK; SecondOrderHasCause, ReplayIsOwnOrder, SaleMatchesOrder; BurstIsBounded; OpenBreakerShields; InvoicesNumberedOnce, InvoiceAddsUp; CopyIsCurrent; EventsAccountedFor |
| `inventory_race`, `completion_race`, `completion_stuck`, `completion_outage`, `shipment_race`, `access_null` | small instances | statements of the code's own comments that the code does not keep (below) |

Parts. `MCShipment`, `MCStorefront` and `MCAccess` bring several modules into
one run although they share no state. A variable `focus` names the part a
behaviour follows, and the variables of all others keep their initial values. The reachable
states are those of the parts side by side, not their product, so each part is
explored as if it were alone, and a property of one holds in the behaviours of
the others because nothing there moves. The parts with shared state,
`Inventory` under `OrderCompletion`, `EventStream` under `Alerts`, and the three
modules of `Access`, are composed for real.

Bounds. Each cfg states its own; why they are enough:

* `MaxCrashes` is one: a second crash starts from a state a first one leaves, as
  every flow and method restarts from the shared records alone. `MaxCalls` bounds
  the commits and releases that `Inventory` alone lets callers make for an order;
  in `OrderCompletion` nothing bounds the calls, they come from the flows, so it
  is 0 there (the abstract callers are off). Two processes are enough for every
  pairwise race of the methods; three online callers differ from two only in who
  loses the claim. Two lines and two rows are enough to make a method stop
  between lines. Sold-out, exactly enough and not enough stock all occur. `MaxMissed`
  bounds the records of one order whose writes may fail: none in `completion`, where a crash and two
  processes are the question, one in `completion_live`. In `completion` there is
  stock for a second unit, so that a claim could take the ring twice and a
  take-over does.
* `shipment`, parcel: one fault is enough for a second parcel and two coroutines
  for every read-then-write pair; of the courier's words there is a terminal
  status, one the service does not know, and none at all (in `shipment_race` a
  status that is not terminal). `SlowShippers` is FALSE there, as most of what
  the lock gives holds only while no holder outlasts it.
* `shipment`, payments: two checkouts and a payment from elsewhere, two passes
  that load one attempt and one payment each, so that both caps cut something
  off; alerts: one alert of three kinds plus the error it may cause, two workers,
  two deliveries, one fault; desk: two administrators, the courier and three
  writes after the creation, so that two writes overlap and a third follows;
  records: two requests, a limit of three addresses, five rows.
* `storefront`: three requests with one key and two carts, one failing call and
  one lapsing lock (a second order needs two of the causes in no case);
  two clients at two buckets for three ticks, longer than the lifetime of a
  bucket, and scripts whose delays add up to two tokens (`MaxDelay`); a
  bulkhead of one in two processes with three failures to open the breaker, and
  one death; two orders, two numbers, one backup; 1536 carts of up to three lines
  with zero, round and odd prices; on the page "home" two readers, an editor and
  one failing call, on each other page one reader and one editor, whose tables
  differ while their steps are the same; three events in a stream and batches of
  two with two faults.
* `access`: two requests, three pairs of cookies, two addresses, one customer,
  one administrator, two accounts: a rotation, a revocation and a third pair that
  comes after them.

Symmetry is used where the model values are interchangeable (requests, carts,
coroutines), in no run with a liveness property.

Fairness, for the completion runs. A running coroutine continues (asyncio runs
every ready task); clocks advance, so keys expire and claims get stale; the
worker redelivers entries that were neither acked nor given up and repeats its
reconciliation; the cron repeats the sweep and the scan (it is external to the
repository, its calls are assumed); an outage of Razorpay ends, which is the one
strong fairness (AmountMatches). Nobody is obliged to check out, pay, verify, or
expire a lock. The other runs check safety only and may stop, because their
events, edits and rows are bounded.

## Where the code does not do what it says

* `inventory_race`: the claim that "prevents double-processing" is taken last
  when the Redis key exists, so a commit and the sweep's release both process
  one order.
* `completion_race`: "calling both is safe" fails when the caller that lost the
  claim clears the reservation before the winner commits it; the order is done
  and no stock was taken. This is why SaleTakesStockOnce speaks of orders whose
  mirror says committed.
  The docstring of the same method (166-169) says that a stale claim taken over
  "after a genuine crash can't double-apply" its effects, as the commit is
  idempotent. But a process that died after the decrements and before the deletion of
  the reservation's key leaves a reservation that the next claim commits again.
  SaleTakesStockOnce therefore allows what the dead owner had taken (`before`) on
  top of the cart; in `completion` the second ring does leave stock that way.
* `completion_stuck`: a crashed claim "can be reclaimed by the next caller", but
  the next callers come within 300 s, lose, and settle their own source.
* `completion_outage`: the "final authoritative check" of an old attempt reads a
  failing API call as "not paid". PaidIsPersisted is therefore checked with
  `LookupsFail = FALSE`, and PaidIsNotAbandoned excuses what Razorpay hid.
* `shipment_race`: "a terminal state must not be clobbered by a stale,
  out-of-order courier update", but the check looks at the document read before
  and the write is not filtered, so an update that read "awb_assigned" overwrites
  a cancellation. This is why TerminalReadersObey speaks of who read it.
* `access_null`: the sparse unique indexes are to let accounts "coexist without
  either unique index rejecting the other's missing field", but the documents
  carry an explicit null, which a sparse index does index.

Smaller disagreements, met while modelling and visible in the definitions:
`publish_alert` does not look at `email_enabled` although the worker
(`src/worker.py:87-96`) takes any channel as enough; the service and the route of
the navigation keep two different shapes under one key; the legacy mutations of
products and categories delete no cached copy; a restore deletes the streams with
their groups, after which a consumer raises until it is restarted while its
heartbeat stays fresh; an attempt that always raises keeps its place among the
500 oldest that a pass loads; marking an inbox row as read a second time answers
404; an order entered by an administrator as unpaid never takes stock; a cash
sale refused for its second line keeps the first; an alert or ledger entry whose
write fails is not tried again, although the order says "done".

Some hazards of the code are in the models, do happen there, and break no
property, because the property is stated for behaviours without them; their
entries in `PROJECT.json` say so. A hold is lost when DEL follows another's INCRBY
(only PendingNeverOverstates, the other direction, is stated); a crash in a
reserve leaks its hold (NoLeakedHold is stated for no crash); a lock of stock or
of shipping deleted by a holder that outlived it (`SlowHolders`, `SlowShippers`);
a failure counter without expiry after a death; a rotation that revives the
session it was crossing; a page copied from a read that an edit overtook.

## What is proved

Every theorem holds for every value of the constants that satisfies the named
assumptions, and TLC checks its property on the small instance above. Its
argument is in each case an inductive invariant; what follows says what had to be
added to the property and why. The assumptions are the ASSUMEs beside the
constants, and no more: bounds are natural numbers, a limit the code sets to five
or so is at least one (MaxAddresses, the threshold of a breaker, the ids of a
backup), a cart is one the API accepts (QuotesAssumption), a model value that means "nobody" is none of the others, and where the
theorem counts processes there are finitely many of them.

`InventoryProofs`, for every set of orders, carts, rows and processes and every
value of the bounds and switches, from the ASSUMEs of `Inventory` only:

* TypeCorrect: `Spec => []TypeOK`. Not inductive as stated, because the line a
  method works on must exist: OpOK says which labels each method can be at, that
  the loop index is within the cart and that `kind = "none"` exactly when the
  process is free (TypeInv). It includes that stock is never negative.
* LockIsExclusive: `Spec => []LockExclusive`. HolderHasLock is the missing fact:
  who is between check and unlock of a row finds the lock key set, so that
  nobody else's SET NX succeeds.
* MirrorIsFinal: `Spec => MirrorFinal`, an action property.
* MirrorIsClaimedOnce: `Spec => []MirrorClaimedOnce`. Claimed strengthens it: a
  method that works from the mirror found it reserved and left it resolved.
* LifeInvHolds: `Spec => []LifeInv`, on which the rest depends. LifeInv says of
  every running method what its label has behind it: Stage (which labels and loop
  bounds each kind of method has), Pass (which lines of the order can still be in `hold` at that point of
  the loop, whoever else gives lines back beside it), Sees (what `mirror`, `progress`
  and `taken` of its order are) and Alone (a reserve, and a cash sale or its reversal,
  is the only method of its order). Record says of each order what its records may be. While
  no process died, Settled says what an order nobody works on holds: a release
  or an undo that got to its end gave every line back, and a commit that stopped at a short line
  left the mirror behind that accounts for the rest.
* SaleIsAccountedHolds and NoLeakedHoldHolds read LifeInv for an order without a
  method at work; a refused sale stopped at a line of its cart, so it took fewer.
* PendingNeverOverstatesHolds: `Spec => []PendingNeverOverstates`. Counted adds
  only that the held units are finite. An increment is for a line that is not yet
  held (Pass), so its units are new; a decrement takes at most that line's units away,
  and fewer when a commit and a release give the same line back twice, which is
  why `pending` may be lower than what is held but never higher; DEL sets a counter to
  zero that was not positive. HoldGrows and HoldShrinks say how the set of held units
  changes with one line, CountUp and CountDown its cardinality.

`OrderCompletionProofs`, for the composed system (Inventory's steps, sweeps,
cash sales, crashes and clocks included) and every value of the constants, slow
claimers, failing lookups and failing records as well. StepCases reduces OrderNext to what matters
to the claim: a step is quiet, starts a flow, stutters on the claim's records,
or is one of the six that touch them.

* LedgerOnceHolds: `OrderSpec => []LedgerOnce`. Not inductive: ClaimInv adds that
  only a caller whose claim matched is between the claim and "done", that he is
  alone while no stale claim was taken over, and that of the records ahead of
  him none was tried (Ahead).
* OneFinisherHolds: `OrderSpec => []OneFinisher`. FreshInv adds that a finisher's
  claim is still fresh, so no second claim matches, even after a take-over.
* StatusForwardHolds: `OrderSpec => StatusForward`, from ClaimInv: who writes
  "done" finds "in_progress" or "done".
* DoneMeansRecordedHolds: `OrderSpec => []DoneMeansRecorded`. RecordInv adds which
  records each label of the finisher has behind it (Behind), that the attempt is
  settled after the resolution, and that
  nobody completes an order without a payment attempt.
* PaidIsInReachHolds: `OrderSpec => []PaidIsInReach`, the safety half of
  PaidIsPersisted: whatever fails, the next reconciliation can still find the
  payment. ReachInv adds that an attempt is resolved only for an order that
  exists, and which labels of a flow have seen or written the document
  (Persisted). A reconciliation that got "not_found" would resolve an attempt too
  early; RecordInv excludes it, a call that was started has its attempt.
* FulfilsPromiseHolds: `OrderSpec => FulfilsPromise`, the refinement. FulfilInv
  collects the invariants above; the steps of StepCases map, order by order, to
  Capture, Settle, Create, Take, Retake, Note, Finish or a stutter of
  `Fulfilment`.
* SaleTakesStockOnceHolds, DoneOrderHoldsNothingHolds: `OrderSpec =>
  []SaleTakesStockOnce` and `OrderSpec => []DoneOrderHoldsNothing`. A flow and the
  method it calls are two records of the same process; TieInv says which method a
  flow at a given label is running, for which order, and that whoever is past the
  reservation finds `progress` "reserved". So every step of the composition is a step
  of `Inventory`, a call of commit or release on a reserved order, or a death
  (InventoryCases), and LifeInv and Counted, proved of the methods alone, hold of the
  composition (KnownStep, InventoryKept). Known is all of this with ClaimInv and
  RecordInv. The claim then makes a commit the only one of its order (CommitterAlone),
  and SaleInv says what that commit has taken at each of its labels (Through), that
  nothing is taken before the claim, and what is left once it returned (Sold). TakingInv says the
  same of every claim, take-overs included, against what was taken when it was won (Since);
  it needs FreshInv, as only a fresh claim is alone.
  DoneOrderHoldsNothing is Sold with what LifeInv says of an order nobody works on.
* MethodsKeepPromises and MirrorStaysFinal: the invariants of the inventory hold under
  `OrderSpec`; OrderTypeOKHolds adds the types of the documents and flows.

`ShipmentProofs`, for any number of coroutines and faults and any courier words.
The lemmas Effects and Simple say what each step does to the record of the
process that takes it, so the invariants need not look at every action again.

* ShipTypeCorrect: `ShipSpec => []ShipTypeOK`. Fits adds which labels each method
  can be at and that a label behind creation has a parcel that exists.
* ExtraParcelsAreFaultsHolds: `ShipSpec => []ExtraParcelsAreFaults`. LockInv says
  that one coroutine ships at a time and has the lock; CountInv that without a
  fault to blame each parcel is in the document or in the hand of the one who is
  about to save it.
* ShippedHasParcelHolds: `ShipSpec => []ShippedHasParcel`. AwbInv says that the
  labels behind the assignment have a code in the document; OneParcelInv that only
  the document's parcel ever leaves "new", so a webhook cannot name another one.
* StatusInHistoryHolds: `ShipSpec => []StatusInHistory`. Noted(shipStatus) is the
  strengthening: the status is in the history or somebody is about to push it.
* TerminalReadersObeyHolds: `~SlowShippers` proves `ShipSpec =>
  TerminalReadersObey`. `ship_order` does not check for a terminal status; it
  cannot write over one because whoever read one finds a parcel Shiprocket has
  already handed out or cancelled, gets no code for it, and asks for a pickup only
  after having read or written "awb_assigned" (TerminalInv).

`AccessProofs`, for any number of requests, tokens, accounts and addresses
(TokenAssumption, ProcsAssumption, KeysAssumption, AttemptsAssumption):

* SessionInvHolds, StoredTokenIsKnownHolds, QuietLogoutIsFinalHolds,
  PresentedTokenDiesHolds. SessionInv is SessionTypes, Ownership (a token belongs
  to one session for good), Carries (what a request carries is what it read) and
  Finality (an ended session is erased, and no request is about to write it
  back), and who logged out was revoked.
* LockInvHolds and LateGuessesHolds. A guess that was let in late belongs to a
  request that was past the check when the lock fell, and that request is at work
  no longer or still; so there are fewer of them than processes.
* AccountInvHolds, over logins, captured checkouts and profile edits alike.
* AccessTypeOKHolds: `Spec => []AccessTypeOK`. FrontInv adds to the three
  invariants that a captured field says "keep" only once the claims were decided
  (Captures), that only a login by email looks an account up by address
  (LoginsByEmail), and that a counter of failures passes the threshold by no more
  than the requests that are about to lock its key and clear it (Counters).

`StorefrontProofs`, on `RateLimit`, for any chain of buckets and any clocks, from
RefillAssumption: a full bucket fills within the lifetime of its key
(`Capacity <= Refill * Lifetime`), as the code computes its TTL.

* BucketInvHolds and BurstIsBoundedHolds. BucketInv adds Covered (the allowance
  with what late scripts had refilled is at least what the bucket holds, or what
  the stored bucket has refilled to by now) and Dated (no
  entry is newer than the clock); AskInv says that a request's own clock is not ahead of it.

`EventStreamProofs`, for any number of events, workers and faults, any length of
the stream and any batch size:

* StreamTypes and NoEventLost: `StreamSpec => []EventsAccountedFor`. Two facts
  are added: PendingIsHeld (a pending entry is in the stream, or was trimmed) and
  AckedLast (who is about to acknowledge an event has processed it, or left a
  dead letter behind as far as it can tell).

`BackOfficeProofs`, for any number of checkouts, payments, passes, requests,
administrators and faults:

* ReconInvHolds, PaidIsNotAbandonedHolds, OrphansAreForeignHolds. LateOrHidden is
  the property for an attempt that is about to be abandoned as well; PaidIsRecorded
  says that nothing is paid before its attempt is recorded and that what a
  pass fetched was paid, so what has neither an order nor an attempt is foreign. The
  caps on rows and pages appear as any natural numbers.
* RecordsInvHolds and DamageIsBoundedHolds. Each bound counts the rows and the
  requests past the check together (RoomForAddresses, RoomForDefaults and so on):
  the request that passes its check finds at most the limit less one, and all
  others may have passed theirs. The subtle one is RoomForDefaults: a request that
  made its row the default and the rows that are default although nobody is making
  them so count separately.
* DeskInvHolds and LedgerTellsHistoryHolds. CreationInOrder says that one
  administrator creates the order and what is there after each of his steps;
  WritesAreKnown that every value is the first, in the ledger, or owed by a task
  about to append; OneAtATime and HistoryGoesOn that while edits did not cross the
  entries of a field continue each other. The facts about the last entry of a field are
  lemmas about `Said`, from the existence of a largest index below a number.
* AlertsUseTheStream: `AlertSpec => StreamSpec`, step by step: each action of the
  alerts is an action of the stream or a stutter of it, so NoEventLost holds for
  alerts (NoAlertLost).
* ToldAgainHasCauseHolds: `AlertSpec => []ToldAgainHasCause`. OneHandling is the
  strengthening: an event that has no reason yet to be handled again is held by at
  most one consumer, each channel of its chain that was told lies behind the one the
  consumer is at, and once something was told and the event is pending, somebody
  still has it in hand. HeldIsDelivered (what a consumer holds is not to be
  delivered as new), EventNotInRest (nor twice in a batch) and FailuresHaveCause
  (who is on the way to redelivery has noted why) keep it.
* PartsAreFollowed: `ParcelSpec => ShipSpec /\ ReconSpec /\ AlertSpec /\
  RecordsSpec /\ DeskSpec`. What TLC runs as `shipment` follows each of its parts,
  so the theorems about the parts are theorems about the run.

`StorefrontProofs`, on `Checkout`, `Guarded` and `Billing`:

* CheckoutInvHolds, CheckoutTypeOKHolds, SaleMatchesOrderHolds,
  ReplayIsOwnOrderHolds, SecondOrderHasCauseHolds, for any requests, keys, bodies
  and carts. LocksAreHeld: a running request that did not outlive its lock has it.
  StepsTaken: what each label has behind it (stock, order, log, mark). AnswersAreOwn:
  a stored answer is that of a request that got to its end. MarksLive: the mark of
  an answered order is there while a request that did not lose its lock can meet
  it. FirstToOrder: who is about to order without an
  excuse finds no order of its key and cart, except of one who lost the lock or
  failed; OrdersHaveCause: the property itself, over the sequence of orders.
* GuardInvHolds, GuardTypeOKHolds, OpenBreakerShieldsHolds, for any finite set of
  callers. Shielded counts, once the breaker is open, the attempts made (`late`) and
  those that can still come (the set `Left`) together: they are fewer than the
  places of all bulkheads times the attempts of a call, because the call that
  opened it is over. BulkheadFirst bounds who is inside, Forgotten says who owes the
  counter its expiry.
* BillInvHolds, InvoicesNumberedOnceHolds. GivenOut: what is on an order or in
  the backup was given out, and an order no restore reverted has the number its
  customer saw; Fresh: while the counter was not lost, what it will give and what a
  request holds was told to nobody.
* StorefrontTypeOKHolds: `StorefrontSpec => []StorefrontTypeOK`, the type invariant
  of the whole run. PartsAreFollowed is the lemma behind it: a behaviour of
  `MCStorefront` is one of each of its six state machines, because the steps of a
  part that is not in focus leave the others alone, so every theorem about
  a part holds of the run, too. FociAssumption says that the parts are those of
  the module. The types of the buckets need RateBounds: what a request leaves behind
  and what a bucket refills to stay within its capacity (RateTypeOKHolds).
* InvoiceAddsUpHolds, for carts of any length, prices, coupons and rates. The
  statement is about folds, so the proof is by induction over data; the library's
  induction theorems take operators, and the proof goes through minimal elements
  instead: `Smallest` (every nonempty set of naturals has a least element, from
  NatLessThanWellFounded and WFMin), `Counting` (induction on a set of
  naturals), `SumUp` (a sum is the last of its partial sums). On these rest SumOfDifferences,
  QuotientIs (a rounded quotient is off by at most a half), TaxLineIs (net, CGST and
  SGST of a line), DiscountIs (a discount is at most what the coupon names) and
  SharesAre: by induction the shares of the first k lines are off by at most k
  halves, which bounds what is left for the last line. QuotesAssumption says what a
  cart is; that a percentage is at most 100 is what CouponCreate validates. Two
  concurrent edits can store a larger one (`Records`), and of such a coupon for
  single products the theorem says nothing.

`ContentProofs`, for any of the twenty pages, any requests and editors, any order
in which a restore writes the collections, and any faults of the cache:

* CopyIsCurrentHolds: `ContentSpec => []CopyIsCurrent`.
  The proof has two halves. The table: every edit of every page is Sound, that is
  each write is followed by the deletion of everything that is made from its
  collection (Pledged; the legacy commands, which delete nothing, pledge nothing
  and put what they touch in doubt), and who deletes the key of a service deletes the key of
  the route above it no earlier (InOrder). One lemma a page (HeroKept,
  JournalKept and the others) reads this off its row, over ThreeSteps
  and FourSteps, which say it for a write and its deletions in general; RestoreIsSound says it
  for restores of any length. With the deletions of an edit the other way round
  InOrder is false, which is the mutant HeroBustedFirst.
  The invariant: what is left of an edit is still Sound (GoesOn), but for the keys a
  scan has listed and not yet deleted; and a request that holds an old
  copy is about to keep it under a key somebody is still to delete, or between a
  scan and its deletion, where it is in doubt (AnswersLater). CopyIsCurrent itself
  closes the circle: an old copy a service hands out is to be deleted, and so is
  the route's copy made from it, later. The only assumption is that `Pages` are
  pages of the table (PagesAssumption).

Only model-checked:
* liveness: PaidIsPersisted and ReservedIsResolved (fairness and ENABLED are beyond
  this prover);
* the six statements of the code that TLC refutes, which have no proof.

What the compositions for TLC add (MCInventory's restriction of the steps,
`focus` in the storefront and the back office) only removes behaviours: the
theorems are about the specifications without it, and PartsAreFollowed carries
them over. Two parts of
`access` (sessions, accounts) start where a verified login stands, with the lockout's
counters still at zero; the theorems are about `Spec`, which starts at the door.

## Not modelled

The display label of a stock row; the upserts of `order_logs` and the fraud
profile (idempotent, read by no decision); the counters of the fraud check, whose
outcome is an input; `phone_verified`; the seven-day TTL of
`inventory_reservations` and the day of a stored answer (far longer than every
other clock here); the cut of a dead-letter stream at 2000 entries; the throttling
and the log of the reconciliation's runs; signatures and tokens of webhooks and
cron endpoints, HTTP plumbing, validation models and configuration; the wording of
messages, the layout of invoices, uploads and image sizes; filters, sorting and
paging of lists, contact submissions (plain inserts), analytics (reads);
`revoke_all_user_sessions`, which nothing calls; a crash of Redis or Mongo
themselves; and the components `PROJECT.json` lists as not modelled, with their
reasons.

## Plan

1. Inventory, order completion with its abstract specification, shipment, access,
   rate limiting and the event stream: modelled and proved about.
2. The reconciliation, records, desk, alerts, checkout, guarded calls, bills and
   pages: modelled and proved about.
3. The compositions `MCStorefront` and `MCShipment` follow their parts: proved.
4. Left: liveness stays with TLC. A next step is a refinement of the pages,
   `Content`, to a shop that answers from MongoDB or from a copy being deleted.
