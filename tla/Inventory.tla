------------------------------ MODULE Inventory ------------------------------
(***************************************************************************)
(* InventoryService (src/src/services/inventory_service.py): reservations  *)
(* of stock for online checkouts, direct sales for cash on delivery, and   *)
(* the sweep that gives stale reservations back.                           *)
(*                                                                         *)
(* Every coroutine that runs one of the service's methods is a process of  *)
(* Procs; op[p] is its program counter and locals.  One action is one      *)
(* Redis or Mongo command, because every command is an await at which      *)
(* another coroutine, or another process, can run.                         *)
(*                                                                         *)
(* A stock row stands for a resolved (product, bucket) pair, so the region *)
(* lookup and the untracked products (which every method skips) are gone   *)
(* before Cart is read.  The "in_stock"/"out_of_stock" label the service   *)
(* rewrites beside qty is read by no control decision and is left out.     *)
(***************************************************************************)
EXTENDS Integers, Sequences, FiniteSets

CONSTANTS
  Orders,       \* order ids; each is a fresh uuid4, so it is reserved once
  CodOrders,    \* the orders that sell directly instead of reserving
  NoOrder,      \* the order of a process that runs nothing
  Rows,         \* stock rows: products.stock[] of one product and bucket
  Procs,        \* coroutines, of the API or of the cron endpoint
  Cart,         \* the tracked lines of every order
  InitialQty,   \* qty of every row before the first order
  MaxCalls,     \* bound: commit and release calls made for one order
  MaxCrashes,   \* bound: processes that die in the middle of a method
  SlowHolders,  \* may a live lock holder outlast LOCK_TTL_SECONDS?
  WriteFaults   \* may the last two writes of a reserve raise?

ASSUME OrdersAssumption == CodOrders \subseteq Orders /\ NoOrder \notin Orders
ASSUME CartAssumption ==
  /\ Cart \in [Orders -> Seq([row : Rows, qty : Nat \ {0}])]
  /\ \A o \in Orders : Cart[o] # <<>>  \* without a tracked line: no effect
ASSUME QtyAssumption == InitialQty \in [Rows -> Nat]
ASSUME BoundAssumption == MaxCalls \in Nat /\ MaxCrashes \in Nat
ASSUME FaultAssumption == SlowHolders \in BOOLEAN /\ WriteFaults \in BOOLEAN

VARIABLES
  stock,     \* Mongo  products.stock[].qty
  pending,   \* Redis  inv:pending:<product>:<bucket>; a missing key reads 0
  lock,      \* Redis  inv:lock:<product>:<bucket>; its value names nobody
  resKey,    \* Redis  inv:order:<order>: does the key exist?
  mirror,    \* Mongo  inventory_reservations.status, "none" without a row
  age,       \* 0 young, 1 the key's TTL is at most 60 s, 2 past the TTL
  progress,  \* what the callers have asked for each order
  calls,     \* commit and release calls made so far for each order
  op,        \* the method each process runs and how far it is
  crashes,   \* processes that died so far
  hold,      \* history: lines counted in pending and not yet given back
  taken      \* history: line decrements of stock made for each order

shared == <<stock, pending, lock, resKey, mirror>>
history == <<hold, taken>>
invVars == <<stock, pending, lock, resKey, mirror, age, progress, calls, op,
             crashes, hold, taken>>

Lines(o) == 1 .. Len(Cart[o])

Kinds == {"none", "reserve", "commit", "release", "sell", "restock"}
Labels == {"idle", "ok", "failed", "read", "lock", "check", "incr", "unlock",
           "unlock_short", "setex", "mirror", "load", "claim", "take",
           "decr", "zap", "delkey", "resolve", "restock"}
Progress == {"new", "asked", "reserved", "sold", "refused", "unsold"}
MirrorStatus == {"none", "reserved", "committed", "released"}

\* A process that runs no method; at is the outcome of the last one.
Ended(outcome) == [kind |-> "none", order |-> NoOrder, at |-> outcome, i |-> 0,
                   n |-> 0, from |-> "none", seen |-> 0]

-----------------------------------------------------------------------------
(* Locals of the method a process runs. *)

At(p, label) == op[p].at = label
Line(p) == Cart[op[p].order][op[p].i]
Free(p) == op[p].kind = "none"
Busy(o) == \E p \in Procs : op[p].order = o

First(kind) == CASE kind = "reserve" -> "read"
                 [] kind \in {"commit", "release"} -> "load"
                 [] kind = "sell" -> "take"
                 [] kind = "restock" -> "restock"

Call(p, kind, o) ==
  op' = [op EXCEPT ![p] = [kind |-> kind, order |-> o, at |-> First(kind),
                           i |-> 1, n |-> Len(Cart[o]), from |-> "none",
                           seen |-> 0]]

Goto(p, label) == op' = [op EXCEPT ![p].at = label]
Return(p, outcome) == op' = [op EXCEPT ![p] = Ended(outcome)]

\* Mutant of NextLineOr: the loop stops one line early.
NextLineOrTooShort(p, label, past) ==
  IF op[p].i + 1 < op[p].n
  THEN op' = [op EXCEPT ![p].i = @ + 1, ![p].at = label]
  ELSE op' = [op EXCEPT ![p].i = 1, ![p].at = past]

\* The loops over the lines: the next line at label, or past the last one.
NextLineOr(p, label, past) ==
  IF op[p].i < op[p].n
  THEN op' = [op EXCEPT ![p].i = @ + 1, ![p].at = label]
  ELSE op' = [op EXCEPT ![p].i = 1, ![p].at = past]

\* Mutant of Undo: the last reserved line is forgotten.
UndoAllButOne(p, n) ==
  op' = [op EXCEPT ![p].i = 1, ![p].n = n - 1,
                   ![p].at = IF n <= 1 THEN "delkey" ELSE "decr"]

\* The except branch of reserve_for_order: give back the first n lines.
Undo(p, n) ==
  op' = [op EXCEPT ![p].i = 1, ![p].n = n,
                   ![p].at = IF n = 0 THEN "delkey" ELSE "decr"]

-----------------------------------------------------------------------------
(* reserve_for_order *)

\* The stock row is read before the row's lock is taken.
ReadEntry(p) ==
  /\ At(p, "read")
  /\ op' = [op EXCEPT ![p].seen = stock[Line(p).row], ![p].at = "lock"]
  /\ UNCHANGED <<shared, history>>

\* Mutant of AcquireProductLock: SET without NX.
SetProductLock(p) ==
  /\ At(p, "lock")
  /\ lock' = [lock EXCEPT ![Line(p).row] = TRUE]
  /\ Goto(p, "check")
  /\ UNCHANGED <<stock, pending, resKey, mirror, history>>

\* SET NX EX 5: a busy lock is an error, not a wait.
AcquireProductLock(p) ==
  /\ At(p, "lock")
  /\ \/ /\ ~lock[Line(p).row]
        /\ lock' = [lock EXCEPT ![Line(p).row] = TRUE]
        /\ Goto(p, "check")
     \/ /\ lock[Line(p).row]
        /\ Undo(p, op[p].i - 1)
        /\ UNCHANGED lock
  /\ UNCHANGED <<stock, pending, resKey, mirror, history>>

CheckPending(p) ==
  /\ At(p, "check")
  /\ Goto(p, IF Line(p).qty > op[p].seen - pending[Line(p).row]
             THEN "unlock_short" ELSE "incr")
  /\ UNCHANGED <<shared, history>>

IncrPending(p) ==
  /\ At(p, "incr")
  /\ pending' = [pending EXCEPT ![Line(p).row] = @ + Line(p).qty]
  /\ hold' = [hold EXCEPT ![op[p].order] = @ \cup {op[p].i}]
  /\ Goto(p, "unlock")
  /\ UNCHANGED <<stock, lock, resKey, mirror, taken>>

\* DEL of the lock key, whoever holds it by now.
ReleaseProductLock(p) ==
  /\ op[p].at \in {"unlock", "unlock_short"}
  /\ lock' = [lock EXCEPT ![Line(p).row] = FALSE]
  /\ \/ At(p, "unlock") /\ NextLineOr(p, "read", "setex")
     \/ At(p, "unlock_short") /\ Undo(p, op[p].i - 1)
  /\ UNCHANGED <<stock, pending, resKey, mirror, history>>

WriteReservationKey(p) ==
  /\ At(p, "setex")
  /\ resKey' = [resKey EXCEPT ![op[p].order] = TRUE]
  /\ Goto(p, "mirror")
  /\ UNCHANGED <<stock, pending, lock, mirror, history>>

\* $setOnInsert; the caller goes on only after this write.
WriteMirror(p) ==
  /\ At(p, "mirror")
  /\ mirror' = [mirror EXCEPT ![op[p].order] = IF @ = "none" THEN "reserved"
                                                ELSE @]
  /\ Return(p, "ok")
  /\ UNCHANGED <<stock, pending, lock, resKey, history>>

\* One of the two writes raises, before or after the server applied it.
WriteFails(p) ==
  /\ WriteFaults
  /\ op[p].at \in {"setex", "mirror"}
  /\ Undo(p, Len(Cart[op[p].order]))
  /\ \/ UNCHANGED <<resKey, mirror>>
     \/ /\ At(p, "setex")
        /\ resKey' = [resKey EXCEPT ![op[p].order] = TRUE]
        /\ UNCHANGED mirror
     \/ /\ At(p, "mirror")
        /\ mirror' = [mirror EXCEPT ![op[p].order] =
                        IF @ = "none" THEN "reserved" ELSE @]
        /\ UNCHANGED resKey
  /\ UNCHANGED <<stock, pending, lock, history>>

-----------------------------------------------------------------------------
(* _adjust_pending_qty with a negative delta: DECRBY, and a DEL that is a  *)
(* second command when the result was not positive.                        *)

AfterLine(p) == NextLineOr(p, "decr", "delkey")

\* Mutant of DecrPending: DECR instead of DECRBY.
DecrPendingByOne(p) ==
  LET new == pending[Line(p).row] - 1 IN
  /\ At(p, "decr")
  /\ pending' = [pending EXCEPT ![Line(p).row] = new]
  /\ hold' = [hold EXCEPT ![op[p].order] = @ \ {op[p].i}]
  /\ IF new <= 0 THEN Goto(p, "zap") ELSE AfterLine(p)
  /\ UNCHANGED <<stock, lock, resKey, mirror, taken>>

DecrPending(p) ==
  LET new == pending[Line(p).row] - Line(p).qty IN
  /\ At(p, "decr")
  /\ pending' = [pending EXCEPT ![Line(p).row] = new]
  /\ hold' = [hold EXCEPT ![op[p].order] = @ \ {op[p].i}]
  /\ IF new <= 0 THEN Goto(p, "zap") ELSE AfterLine(p)
  /\ UNCHANGED <<stock, lock, resKey, mirror, taken>>

DeletePending(p) ==
  /\ At(p, "zap")
  /\ pending' = [pending EXCEPT ![Line(p).row] = 0]
  /\ AfterLine(p)
  /\ UNCHANGED <<stock, lock, resKey, mirror, history>>

-----------------------------------------------------------------------------
(* commit_reservation and release_reservation *)

\* Mutant of Resolution: a release resolves like a commit.
ResolutionCommitted(p) == "committed"

Resolution(p) == IF op[p].kind = "commit" THEN "committed" ELSE "released"
Work(p) == IF op[p].kind = "commit" THEN "take" ELSE "decr"

LoadReservation(p) ==
  /\ At(p, "load")
  /\ IF resKey[op[p].order]
     THEN op' = [op EXCEPT ![p].from = "redis", ![p].at = Work(p)]
     ELSE Goto(p, "claim")
  /\ UNCHANGED <<shared, history>>

\* Mutant of ResolveMirror: update_one without the status filter.
OverwriteMirror(m, o, to) == [m EXCEPT ![o] = to]

\* _resolve_durable_mirror: find_one_and_update filtered on "reserved".
ResolveMirror(m, o, to) ==
  IF m[o] = "reserved" THEN [m EXCEPT ![o] = to] ELSE m

\* Mutant of ClaimMirror: find_one first, the update's result is not looked at.
ReadMirrorThenResolve(p) ==
  LET o == op[p].order IN
  /\ At(p, "claim")
  /\ mirror' = ResolveMirror(mirror, o, Resolution(p))
  /\ IF mirror[o] # "none"
     THEN op' = [op EXCEPT ![p].from = "mirror", ![p].at = Work(p)]
     ELSE Return(p, "ok")
  /\ UNCHANGED <<stock, pending, lock, resKey, history>>

\* No Redis key: the lines come from the mirror, for whoever resolves it.
ClaimMirror(p) ==
  LET o == op[p].order IN
  /\ At(p, "claim")
  /\ mirror' = ResolveMirror(mirror, o, Resolution(p))
  /\ IF mirror[o] = "reserved"
     THEN op' = [op EXCEPT ![p].from = "mirror", ![p].at = Work(p)]
     ELSE Return(p, "ok")
  /\ UNCHANGED <<stock, pending, lock, resKey, history>>

\* Mutant of Sufficient: the filter has no $gte.
SufficientAlways(p) == TRUE

\* Does the filter of find_one_and_update match the row?
Sufficient(p) == stock[Line(p).row] >= Line(p).qty

\* Mutant of AfterTaking: the commit forgets the pending quantities.
AfterTakingKeepPending(p) == NextLineOr(p, "take", "delkey")

AfterTaking(p) == NextLineOr(p, "take", "decr")

\* _atomic_decrement of one line, for a commit or for a direct sale.
TakeStock(p) ==
  /\ At(p, "take")
  /\ \/ /\ Sufficient(p)
        /\ stock' = [stock EXCEPT ![Line(p).row] = @ - Line(p).qty]
        /\ taken' = [taken EXCEPT ![op[p].order] = @ + 1]
        /\ IF op[p].kind = "sell" /\ op[p].i = op[p].n
           THEN Return(p, "ok") ELSE AfterTaking(p)
     \/ /\ ~Sufficient(p)
        /\ Return(p, "failed")
        /\ UNCHANGED <<stock, taken>>
  /\ UNCHANGED <<pending, lock, resKey, mirror, hold>>

DeleteReservationKey(p) ==
  /\ At(p, "delkey")
  /\ resKey' = [resKey EXCEPT ![op[p].order] = FALSE]
  /\ CASE op[p].from = "redis" -> Goto(p, "resolve")
       [] op[p].from = "mirror" -> Return(p, "ok")
       [] op[p].from = "none" -> Return(p, "failed")   \* end of an undo
  /\ UNCHANGED <<stock, pending, lock, mirror, history>>

ResolveAfterwards(p) ==
  /\ At(p, "resolve")
  /\ mirror' = ResolveMirror(mirror, op[p].order, Resolution(p))
  /\ Return(p, "ok")
  /\ UNCHANGED <<stock, pending, lock, resKey, history>>

-----------------------------------------------------------------------------
(* release_committed_items: put every line of a direct sale back. *)

\* Mutant of Restock: the last line is not put back.
RestockAllButOne(p) ==
  /\ At(p, "restock")
  /\ stock' = [stock EXCEPT ![Line(p).row] = @ + Line(p).qty]
  /\ taken' = [taken EXCEPT ![op[p].order] = @ - 1]
  /\ IF op[p].i + 1 < op[p].n THEN NextLineOr(p, "restock", "ok")
                              ELSE Return(p, "ok")
  /\ UNCHANGED <<pending, lock, resKey, mirror, hold>>

Restock(p) ==
  /\ At(p, "restock")
  /\ stock' = [stock EXCEPT ![Line(p).row] = @ + Line(p).qty]
  /\ taken' = [taken EXCEPT ![op[p].order] = @ - 1]
  /\ IF op[p].i < op[p].n THEN NextLineOr(p, "restock", "ok")
                          ELSE Return(p, "ok")
  /\ UNCHANGED <<pending, lock, resKey, mirror, hold>>

-----------------------------------------------------------------------------
(* One command of the method process p runs. *)
Step(p) ==
  \/ ReadEntry(p) \/ AcquireProductLock(p) \/ CheckPending(p)
  \/ IncrPending(p) \/ ReleaseProductLock(p) \/ WriteReservationKey(p)
  \/ WriteMirror(p) \/ WriteFails(p) \/ DecrPending(p) \/ DeletePending(p)
  \/ LoadReservation(p) \/ ClaimMirror(p) \/ TakeStock(p)
  \/ DeleteReservationKey(p) \/ ResolveAfterwards(p) \/ Restock(p)

Holds(p, r) == /\ op[p].at \in {"check", "incr", "unlock", "unlock_short"}
               /\ Line(p).row = r

-----------------------------------------------------------------------------
(* The callers.  Their own code is modelled in other modules; here they    *)
(* make the calls OrderService and the cron endpoint can make.             *)

Init ==
  /\ stock = InitialQty
  /\ pending = [r \in Rows |-> 0]
  /\ lock = [r \in Rows |-> FALSE]
  /\ resKey = [o \in Orders |-> FALSE]
  /\ mirror = [o \in Orders |-> "none"]
  /\ age = [o \in Orders |-> 0]
  /\ progress = [o \in Orders |-> "new"]
  /\ calls = [o \in Orders |-> 0]
  /\ op = [p \in Procs |-> Ended("idle")]
  /\ crashes = 0
  /\ hold = [o \in Orders |-> {}]
  /\ taken = [o \in Orders |-> 0]

\* initiate_order reserves once; create sells once.
Begin(p, o) ==
  /\ Free(p) /\ progress[o] = "new"
  /\ Call(p, IF o \in CodOrders THEN "sell" ELSE "reserve", o)
  /\ progress' = [progress EXCEPT ![o] = "asked"]
  /\ UNCHANGED <<shared, history, age, calls, crashes>>

\* create: insert_one raised, so the sale is reversed.
InsertFailed(p, o) ==
  /\ Free(p) /\ progress[o] = "sold"
  /\ Call(p, "restock", o)
  /\ progress' = [progress EXCEPT ![o] = "unsold"]
  /\ UNCHANGED <<shared, history, age, calls, crashes>>

\* complete_pending_order commits and releases, from any number of callers.
Finish(p, o, kind) ==
  /\ Free(p) /\ progress[o] = "reserved" /\ calls[o] < MaxCalls
  /\ Call(p, kind, o)
  /\ calls' = [calls EXCEPT ![o] = @ + 1]
  /\ UNCHANGED <<shared, history, age, progress, crashes>>

\* Mutant of Sweep: only the scan of the Redis keys.
SweepKeysOnly(p, o) ==
  /\ Free(p) /\ resKey[o] /\ age[o] >= 1
  /\ Call(p, "release", o)
  /\ UNCHANGED <<shared, history, age, progress, calls, crashes>>

\* reconcile_stale_reservations: a key about to expire, or a mirror row
\* that outlived its key.
Sweep(p, o) ==
  /\ Free(p)
  /\ \/ resKey[o] /\ age[o] >= 1
     \/ mirror[o] = "reserved" /\ age[o] = 2
  /\ Call(p, "release", o)
  /\ UNCHANGED <<shared, history, age, progress, calls, crashes>>

\* What the caller learns.  create() has no handler around commit_items: a
\* sale refused at a later line keeps what it took for the lines before.
Answer(p, outcome) ==
  CASE op[p].kind = "reserve" /\ outcome = "ok" -> "reserved"
    [] op[p].kind = "sell" /\ outcome = "ok" -> "sold"
    [] op[p].kind = "sell" /\ outcome = "failed" -> "refused"
    [] OTHER -> progress[op[p].order]

MethodStep(p) ==
  /\ Step(p)
  /\ progress' = [progress EXCEPT ![op[p].order] = Answer(p, op'[p].at)]
  /\ UNCHANGED <<age, calls, crashes>>

\* The process dies between two commands; no except or finally runs.
Crash(p) ==
  /\ ~Free(p) /\ crashes < MaxCrashes
  /\ Return(p, "idle")
  /\ crashes' = crashes + 1
  /\ UNCHANGED <<shared, history, age, progress, calls>>

LockExpires(r) ==
  /\ lock[r]
  /\ SlowHolders \/ \A p \in Procs : ~Holds(p, r)
  /\ lock' = [lock EXCEPT ![r] = FALSE]
  /\ UNCHANGED <<stock, pending, resKey, mirror, age, progress, calls, op,
                 crashes, history>>

\* Time passes for a reservation; at 2 Redis has dropped its key.  A reserve
\* takes far less than the TTL (an hour), so it is over by then.
Tick(o) ==
  /\ age[o] < 2
  /\ resKey[o] \/ mirror[o] = "reserved"
  /\ \A p \in Procs : ~(op[p].order = o /\ op[p].kind = "reserve")
  /\ age' = [age EXCEPT ![o] = @ + 1]
  /\ resKey' = [resKey EXCEPT ![o] = @ /\ age[o] = 0]
  /\ UNCHANGED <<stock, pending, lock, mirror, progress, calls, op, crashes,
                 history>>

Next ==
  \/ \E p \in Procs :
       \/ MethodStep(p)
       \/ Crash(p)
       \/ \E o \in Orders :
            \/ Begin(p, o)
            \/ InsertFailed(p, o)
            \/ Sweep(p, o)
            \/ \E kind \in {"commit", "release"} : Finish(p, o, kind)
  \/ \E r \in Rows : LockExpires(r)
  \/ \E o \in Orders : Tick(o)

Spec == Init /\ [][Next]_invVars

\* A running method goes on (asyncio schedules every ready coroutine), time
\* passes, and the external cron keeps calling the reconcile endpoint.
Fairness ==
  /\ \A p \in Procs : WF_invVars(MethodStep(p))
  /\ \A o \in Orders : WF_invVars(Tick(o))
  /\ \A o \in Orders : WF_invVars(\E p \in Procs : Sweep(p, o))

FairSpec == Spec /\ Fairness

-----------------------------------------------------------------------------
(* Properties *)

OpType == [kind : Kinds, order : Orders \cup {NoOrder}, at : Labels, i : Nat,
           n : Nat, from : {"none", "redis", "mirror"}, seen : Nat]

\* Every variable keeps its type.  In particular qty never goes below zero:
\* the $gte filter of _atomic_decrement is the last defence against overselling.
TypeOK ==
  /\ stock \in [Rows -> Nat]
  /\ pending \in [Rows -> Int]
  /\ lock \in [Rows -> BOOLEAN]
  /\ resKey \in [Orders -> BOOLEAN]
  /\ mirror \in [Orders -> MirrorStatus]
  /\ age \in [Orders -> 0 .. 2]
  /\ progress \in [Orders -> Progress]
  /\ calls \in [Orders -> 0 .. MaxCalls]
  /\ op \in [Procs -> OpType]
  /\ crashes \in 0 .. MaxCrashes
  /\ hold \in [Orders -> SUBSET Nat]
  /\ taken \in [Orders -> Int]

\* Of all the commits, releases and sweeps that find the Redis key gone, at
\* most one works from the durable mirror of an order, whatever crashes and
\* retries happen: the filter on "reserved" is a claim.
MirrorClaimedOnce ==
  \A p, q \in Procs :
    /\ op[p].from = "mirror" => mirror[op[p].order] \in {"committed", "released"}
    /\ op[p].from = "mirror" /\ op[q].from = "mirror"
         /\ op[p].order = op[q].order => p = q

\* While no holder outlives the lock's TTL, two reserves are never between
\* the pending check and the increment of one row at the same time.
LockExclusive ==
  ~SlowHolders =>
    \A p, q \in Procs, r \in Rows : Holds(p, r) /\ Holds(q, r) => p = q

\* The units of row r reserved for the lines held and not yet given back.
Units(x) == {x} \X (1 .. Cart[x[1]][x[2]].qty)
HeldLines(r) ==
  {x \in UNION {{o} \X hold[o] : o \in Orders} : Cart[x[1]][x[2]].row = r}
HeldUnits(r) == UNION {Units(x) : x \in HeldLines(r)}
Outstanding(r) == Cardinality(HeldUnits(r))

\* inv:pending never counts more than the holds still outstanding: however
\* returns of different orders interleave with each other and with reserves,
\* no stock stays blocked by nobody.
PendingNeverOverstates == \A r \in Rows : pending[r] <= Outstanding(r)

\* Without a crash, a hold outlives the methods working on its order only
\* while the mirror still records it, or after a commit that claimed the
\* mirror; a refused reserve and a release always give everything back.
NoLeakedHold ==
  crashes = 0 =>
    \A o \in Orders :
      hold[o] # {} /\ ~Busy(o) => mirror[o] \in {"reserved", "committed"}

\* The mirror says "committed" after a Redis-path commit only once every line
\* of the order was taken from stock.
CommitTakesStock ==
  [][\A p \in Procs :
       op[p].at = "resolve" /\ op[p].kind = "commit"
         => taken[op[p].order] >= Len(Cart[op[p].order])]_invVars

\* What a cash sale nobody works on any more took from stock, whatever
\* reservations, commits and sweeps worked on the same rows meanwhile.  An
\* accepted one took every line once.  A refused one never took the whole cart,
\* but keeps the lines before the one that was short: commit_items raises
\* without putting them back, outside the try of create, so they are lost.
\* Without a crash every sale was accepted, refused or reversed, and a reversed
\* one gave everything back.
SaleIsAccounted ==
  \A o \in CodOrders : ~Busy(o) =>
    /\ progress[o] = "sold" => taken[o] = Len(Cart[o])
    /\ progress[o] = "refused" => taken[o] \in 0 .. Len(Cart[o]) - 1
    /\ crashes = 0 => progress[o] # "asked" /\ (progress[o] = "unsold" => taken[o] = 0)

\* A resolved reservation is never resolved again, nor reopened.
MirrorFinal ==
  [][\A o \in Orders :
       mirror[o] \in {"committed", "released"} => mirror'[o] = mirror[o]]_invVars

\* Every reservation is resolved in the end, even when the processes working
\* on it died and its Redis key is long gone.
ReservedIsResolved ==
  \A o \in Orders : mirror[o] = "reserved" ~> mirror[o] # "reserved"

\* inventory_service.py:312: "The atomic claim is what prevents
\* double-processing if commit/release ever race on the same order": no commit
\* and release of one order both work through its lines.
NoDoubleProcessing ==
  \A p, q \in Procs :
    /\ op[p].kind = "commit" /\ op[p].from # "none"
    /\ op[q].kind = "release" /\ op[q].from # "none"
    => op[p].order # op[q].order

=============================================================================
