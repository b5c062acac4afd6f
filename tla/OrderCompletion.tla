--------------------------- MODULE OrderCompletion ---------------------------
(***************************************************************************)
(* A Razorpay order from checkout to settlement: OrderService.initiate_order *)
(* and complete_pending_order (src/src/services/order_service.py) with     *)
(* everybody who calls it, on top of the reservations of Inventory.        *)
(*                                                                         *)
(* complete_pending_order is called by the stream consumer for the webhook *)
(* event, by the client's /api/orders/verify, by the worker's payment      *)
(* reconciliation and by the cron scan of Redis.  Each call is a flow of   *)
(* one process; its steps are the awaits of the method, and while the flow *)
(* is inside InventoryService the process makes the steps of Inventory.    *)
(*                                                                         *)
(* Left out: the upserts of order_logs and of the fraud profile (no        *)
(* property, no decision), pricing, and the amount comparison itself.  A   *)
(* write to orders that raises ends the call like a death of its process.  *)
(***************************************************************************)
EXTENDS Inventory

CONSTANTS
  SlowClaimers,  \* may a live claimer outlast the 300 s of its claim?
  LookupsFail,   \* may Razorpay's order API fail while a payment is captured?
  MaxMissed      \* records of one order whose writes may fail

ASSUME SlowClaimersAssumption == SlowClaimers \in BOOLEAN
ASSUME LookupsFailAssumption == LookupsFail \in BOOLEAN
ASSUME MaxMissedAssumption == MaxMissed \in Nat

VARIABLES
  doc,         \* orders.post_processing_status, "absent" without an order
  claimFresh,  \* is post_processing_claimed_at younger than 300 s?
  pendOrder,   \* Redis pending_order:<id>; "full" once it has the Razorpay id
  attempt,     \* payment_attempts.status, "none" without a row
  event,       \* the payment.captured entry of the orders stream; "none"
               \* until Razorpay has captured the payment
  flow,        \* the OrderService method each process runs
  notes,       \* history: what became of the records of each order
  reclaimed,   \* history: was a stale claim ever taken over?
  before       \* history: the lines taken when one last was

takeovers == <<reclaimed, before>>
orderVars == <<doc, claimFresh, pendOrder, attempt, event, flow, notes,
               takeovers>>
allVars == <<invVars, orderVars>>

Paid(o) == event[o] # "none"
OnlineOrders == Orders \ CodOrders
Sources == {"webhook", "client_verify", "reconcile", "scan"}
\* The alert and the ledger's order_created and payment_captured.
Duties == {"alert", "created", "captured"}
\* Between winning the claim and writing "done".
Finishing == {"committing", "alert", "created", "captured", "resolve", "done"}
FlowLabels == {"idle", "reserving", "razorpay", "keepttl", "attempt", "find",
               "getkey", "refind", "snapshot", "verify", "upsert", "claim",
               "committing", "alert", "created", "captured", "resolve", "done",
               "clearing", "already", "abandon"}

NoFlow == [order |-> NoOrder, at |-> "idle", source |-> "none",
           late |-> FALSE, created |-> FALSE]

-----------------------------------------------------------------------------
(* Locals of the flow of caller c. *)

In(c, label) == flow[c].at = label
FlowOrder(c) == flow[c].order
NoFlowOf(c) == flow[c].at = "idle" /\ Free(c)
Enter(c, label) == flow' = [flow EXCEPT ![c].at = label]
EndFlow(c) == flow' = [flow EXCEPT ![c] = NoFlow]

\* The method returns: the consumer acks its entry, the reconciliation marks
\* an attempt it did not create itself.
ReturnStatus(c) ==
  LET o == FlowOrder(c) IN
  /\ event' = IF flow[c].source = "webhook"
              THEN [event EXCEPT ![o] = "acked"] ELSE event
  /\ IF flow[c].source = "reconcile" /\ ~flow[c].created
     THEN Enter(c, "already") ELSE EndFlow(c)

\* The method raises: the entry stays pending and is delivered again, or it
\* was the last of its deliveries and goes to the dead-letter stream.
Raise(c) ==
  /\ EndFlow(c)
  /\ \/ UNCHANGED event
     \/ /\ flow[c].source = "webhook"
        /\ event' = [event EXCEPT ![FlowOrder(c)] = "lost"]

\* After _finish_post_processing: _clear_pending_redis, which starts with
\* release_reservation; the branch that found no Redis key returns at once.
Proceed(c) ==
  IF flow[c].late
  THEN ReturnStatus(c) /\ UNCHANGED op
  ELSE /\ Enter(c, "clearing") /\ Call(c, "release", FlowOrder(c))
       /\ UNCHANGED event

\* Entry of _finish_post_processing with the order document just read.
PostProcess(c) ==
  IF doc[FlowOrder(c)] \in {"pending", "in_progress"}
  THEN Enter(c, "claim") /\ UNCHANGED <<op, event>>
  ELSE Proceed(c)

envUnchanged == <<shared, history, age, calls, crashes>>

-----------------------------------------------------------------------------
(* initiate_order *)

StartInitiate(c, o) ==
  /\ NoFlowOf(c) /\ o \in OnlineOrders /\ progress[o] = "new"
  /\ flow' = [flow EXCEPT ![c] = [NoFlow EXCEPT !.order = o,
                                                !.at = "reserving"]]
  /\ Call(c, "reserve", o)
  /\ progress' = [progress EXCEPT ![o] = "asked"]
  /\ UNCHANGED <<envUnchanged, doc, claimFresh, pendOrder, attempt, event,
                 notes, takeovers>>

\* SETEX pending_order:<id>, then, with the Razorpay id, SET KEEPTTL.
WritePendingOrder(c) ==
  /\ \/ /\ In(c, "reserving") /\ At(c, "ok")
        /\ pendOrder' = [pendOrder EXCEPT ![FlowOrder(c)] = "bare"]
        /\ Enter(c, "razorpay")
     \/ /\ In(c, "reserving") /\ At(c, "failed")
        /\ EndFlow(c)
        /\ UNCHANGED pendOrder
     \/ /\ In(c, "keepttl")
        /\ pendOrder' = [pendOrder EXCEPT ![FlowOrder(c)] = "full"]
        /\ Enter(c, "attempt")
  /\ UNCHANGED <<envUnchanged, op, progress, doc, claimFresh, attempt, event,
                 notes, takeovers>>

\* create_order is not retried; when it raises, the reservation stays behind.
CreateRazorpayOrder(c) ==
  /\ In(c, "razorpay")
  /\ Enter(c, "keepttl") \/ EndFlow(c)
  /\ UNCHANGED <<envUnchanged, op, progress, doc, claimFresh, pendOrder,
                 attempt, event, notes, takeovers>>

RecordAttempt(c) ==
  /\ In(c, "attempt")
  /\ attempt' = [attempt EXCEPT ![FlowOrder(c)] =
                   IF @ = "none" THEN "pending" ELSE @]
  /\ EndFlow(c)
  /\ UNCHANGED <<envUnchanged, op, progress, doc, claimFresh, pendOrder,
                 event, notes, takeovers>>

-----------------------------------------------------------------------------
(* complete_pending_order *)

\* Who may call it now.  One consumer holds the entry until it is acked.
MayStart(o, source) ==
  CASE source = "webhook" ->
         /\ event[o] = "queued"
         /\ \A c \in Procs :
              ~(flow[c].order = o /\ flow[c].source = "webhook")
    [] source = "client_verify" -> TRUE
    [] source = "reconcile" -> attempt[o] = "pending"
    [] source = "scan" -> pendOrder[o] = "full"

\* Nobody looks at the result of a scan, as of a verify.
StartComplete(c, o, source) ==
  /\ NoFlowOf(c) /\ Paid(o) /\ MayStart(o, source)
  /\ flow' = [flow EXCEPT ![c] =
                [NoFlow EXCEPT !.order = o, !.at = "find",
                               !.source = IF source = "scan"
                                          THEN "client_verify" ELSE source]]
  /\ UNCHANGED <<envUnchanged, op, progress, doc, claimFresh, pendOrder,
                 attempt, event, notes, takeovers>>

FindOrder(c) ==
  /\ In(c, "find")
  /\ IF doc[FlowOrder(c)] # "absent"
     THEN PostProcess(c)
     ELSE Enter(c, "getkey") /\ UNCHANGED <<op, event>>
  /\ UNCHANGED <<envUnchanged, progress, doc, claimFresh, pendOrder, attempt,
                 notes, takeovers>>

GetPendingOrder(c) ==
  /\ In(c, "getkey")
  /\ Enter(c, IF pendOrder[FlowOrder(c)] # "none" THEN "verify" ELSE "refind")
  /\ UNCHANGED <<envUnchanged, op, progress, doc, claimFresh, pendOrder,
                 attempt, event, notes, takeovers>>

\* The key is gone: completed meanwhile, or expired.
FindOrderAgain(c) ==
  /\ In(c, "refind")
  /\ IF doc[FlowOrder(c)] = "absent"
     THEN Enter(c, "snapshot") /\ UNCHANGED event
     ELSE IF doc[FlowOrder(c)] = "done"
     THEN ReturnStatus(c)
     ELSE /\ flow' = [flow EXCEPT ![c].late = TRUE, ![c].at = "claim"]
          /\ UNCHANGED event
  /\ UNCHANGED <<envUnchanged, op, progress, doc, claimFresh, pendOrder,
                 attempt, notes, takeovers>>

\* Mutant of LoadSnapshot: no fallback, the order is "not_found".
NoSnapshot(c) ==
  /\ In(c, "snapshot")
  /\ ReturnStatus(c)
  /\ UNCHANGED <<envUnchanged, op, progress, doc, claimFresh, pendOrder,
                 attempt, notes, takeovers>>

\* The durable snapshot of the payment attempt; without one, "not_found".
LoadSnapshot(c) ==
  /\ In(c, "snapshot")
  /\ IF attempt[FlowOrder(c)] # "none"
     THEN Enter(c, "verify") /\ UNCHANGED event
     ELSE ReturnStatus(c)
  /\ UNCHANGED <<envUnchanged, op, progress, doc, claimFresh, pendOrder,
                 attempt, notes, takeovers>>

\* verify_payment_amount behind call_guarded: true for the customer's payment,
\* or it raises (timeout, open breaker, an API error that reads as false).
AmountMatches(c) ==
  /\ In(c, "verify")
  /\ Enter(c, "upsert")
  /\ UNCHANGED <<envUnchanged, op, progress, doc, claimFresh, pendOrder,
                 attempt, event, notes, takeovers>>

\* Mutant of LookupRaises: the failed lookup is a result like any other.
LookupSwallowed(c) ==
  /\ In(c, "verify")
  /\ ReturnStatus(c)
  /\ UNCHANGED <<envUnchanged, op, progress, doc, claimFresh, pendOrder,
                 attempt, notes, takeovers>>

LookupRaises(c) ==
  /\ In(c, "verify")
  /\ Raise(c)
  /\ UNCHANGED <<envUnchanged, op, progress, doc, claimFresh, pendOrder,
                 attempt, notes, takeovers>>

\* The $setOnInsert upsert on the unique order_id.  What is read back decides
\* nothing the claim does not decide again; only the reconciliation asks
\* whether the order was created.
UpsertOrder(c) ==
  LET o == FlowOrder(c) IN
  /\ In(c, "upsert")
  /\ doc' = [doc EXCEPT ![o] = IF @ = "absent" THEN "pending" ELSE @]
  /\ flow' = [flow EXCEPT ![c].at = "claim",
                          ![c].created = /\ doc[o] = "absent"
                                         /\ flow[c].source = "reconcile"]
  /\ UNCHANGED <<envUnchanged, op, progress, claimFresh, pendOrder, attempt,
                 event, notes, takeovers>>

-----------------------------------------------------------------------------
(* _finish_post_processing *)

\* Mutants of Claimable: a claim that is not stale is taken over, too; or the
\* filter only excludes a live claim.
ClaimableAnyTime(o) == doc[o] \in {"pending", "in_progress"}
ClaimableUnlessLive(o) == doc[o] = "in_progress" => ~claimFresh[o]

\* find_one_and_update: "pending", or "in_progress" under a stale claim.
Claimable(o) ==
  \/ doc[o] = "pending"
  \/ doc[o] = "in_progress" /\ ~claimFresh[o]

Claim(c) ==
  LET o == FlowOrder(c) IN
  /\ In(c, "claim")
  /\ IF Claimable(o)
     THEN /\ doc' = [doc EXCEPT ![o] = "in_progress"]
          /\ claimFresh' = [claimFresh EXCEPT ![o] = TRUE]
          /\ reclaimed' = [reclaimed EXCEPT ![o] = @ \/ doc[o] = "in_progress"]
          /\ before' = [before EXCEPT ![o] = IF doc[o] = "in_progress"
                                             THEN taken[o] ELSE @]
          /\ Enter(c, "committing") /\ Call(c, "commit", o)
          /\ UNCHANGED event
     ELSE Proceed(c) /\ UNCHANGED <<doc, claimFresh, takeovers>>
  /\ UNCHANGED <<envUnchanged, progress, pendOrder, attempt, notes>>

\* commit_reservation returned, or raised because a line was short.
CommitReturned(c) ==
  /\ In(c, "committing") /\ Free(c)
  /\ IF At(c, "ok") THEN Enter(c, "alert") /\ UNCHANGED event ELSE Raise(c)
  /\ UNCHANGED <<envUnchanged, op, progress, doc, claimFresh, pendOrder,
                 attempt, notes, takeovers>>

\* Mutants of NextDuty: mark_resolved, or the second ledger entry, is forgotten.
NextButResolve(d) ==
  CASE d = "alert" -> "created" [] d = "created" -> "captured"
    [] d = "captured" -> "done"
NextButCapture(d) ==
  CASE d = "alert" -> "created" [] d \in {"created", "captured"} -> "resolve"

\* The awaits of the finisher, in order.
NextDuty(d) ==
  CASE d = "alert" -> "created" [] d = "created" -> "captured"
    [] d = "captured" -> "resolve"

Missing(o) == {d \in Duties : notes[o][d] = "missed"}

\* publish_alert or append_event.  Neither raises: an XADD or an insert that
\* failed, or alerts turned off, leave no record, and the finisher goes on.
Announce(c) ==
  LET o == FlowOrder(c) IN
  \E d \in Duties :
    /\ In(c, d)
    /\ \/ notes' = [notes EXCEPT ![o][d] =
                      IF @ \in {"none", "missed"} THEN "written" ELSE "again"]
       \/ /\ Cardinality(Missing(o)) < MaxMissed
          /\ notes' = [notes EXCEPT ![o][d] = IF @ = "none" THEN "missed" ELSE @]
    /\ Enter(c, NextDuty(d))
    /\ UNCHANGED <<envUnchanged, op, progress, doc, claimFresh, pendOrder,
                   attempt, event, takeovers>>

\* PaymentReconciliationService.mark_resolved, filtered on "pending".
Resolved(a, o) == IF a[o] = "pending" THEN [a EXCEPT ![o] = "resolved"] ELSE a

MarkResolved(c) ==
  /\ In(c, "resolve")
  /\ attempt' = Resolved(attempt, FlowOrder(c))
  /\ Enter(c, "done")
  /\ UNCHANGED <<envUnchanged, op, progress, doc, claimFresh, pendOrder,
                 event, notes, takeovers>>

MarkDone(c) ==
  /\ In(c, "done")
  /\ doc' = [doc EXCEPT ![FlowOrder(c)] = "done"]
  /\ Proceed(c)
  /\ UNCHANGED <<envUnchanged, progress, claimFresh, pendOrder, attempt,
                 notes, takeovers>>

-----------------------------------------------------------------------------
(* _clear_pending_redis, and what the reconciliation does with "existing". *)

DeletePendingOrder(c) ==
  /\ In(c, "clearing") /\ Free(c)
  /\ pendOrder' = [pendOrder EXCEPT ![FlowOrder(c)] = "none"]
  /\ ReturnStatus(c)
  /\ UNCHANGED <<envUnchanged, op, progress, doc, claimFresh, attempt, notes,
                 takeovers>>

\* PaymentReconciliationService: mark_resolved(source="already_processed").
AlreadyProcessed(c) ==
  /\ In(c, "already")
  /\ attempt' = Resolved(attempt, FlowOrder(c))
  /\ EndFlow(c)
  /\ UNCHANGED <<envUnchanged, op, progress, doc, claimFresh, pendOrder,
                 event, notes, takeovers>>

\* _fallback_check of an attempt older than the window, whose Redis keys are
\* gone: fetch_captured_payment returns None, also when the API call failed.
LookUpPayment(c, o) ==
  /\ NoFlowOf(c)
  /\ attempt[o] = "pending" /\ pendOrder[o] = "none" /\ ~resKey[o]
  /\ ~Paid(o) \/ LookupsFail
  /\ flow' = [flow EXCEPT ![c] = [NoFlow EXCEPT !.order = o,
                                                !.at = "abandon"]]
  /\ UNCHANGED <<envUnchanged, op, progress, doc, claimFresh, pendOrder,
                 attempt, event, notes, takeovers>>

\* The write is filtered on the order alone, not on "pending".
AbandonAttempt(c) ==
  /\ In(c, "abandon")
  /\ attempt' = [attempt EXCEPT ![FlowOrder(c)] = "abandoned"]
  /\ EndFlow(c)
  /\ UNCHANGED <<envUnchanged, op, progress, doc, claimFresh, pendOrder,
                 event, notes, takeovers>>

-----------------------------------------------------------------------------
(* The world around the method. *)

\* Razorpay captures the payment; its webhook reaches the orders stream, or
\* never does (not subscribed, not delivered, or the XADD was swallowed).
Pay(o) ==
  /\ ~Paid(o) /\ attempt[o] # "none"
  /\ \E e \in {"queued", "lost"} : event' = [event EXCEPT ![o] = e]
  /\ UNCHANGED <<invVars, doc, claimFresh, pendOrder, attempt, flow, notes,
                 takeovers>>

\* POST_PROCESSING_STALE_CLAIM_SECONDS go by; a live claimer is faster.
ClaimGoesStale(o) ==
  /\ doc[o] = "in_progress" /\ claimFresh[o]
  /\ \/ SlowClaimers
     \/ \A c \in Procs : ~(FlowOrder(c) = o /\ flow[c].at \in Finishing)
  /\ claimFresh' = [claimFresh EXCEPT ![o] = FALSE]
  /\ UNCHANGED <<invVars, doc, pendOrder, attempt, event, flow, notes,
                 takeovers>>

\* pending_order:<id> was written after inv:order:<id>, with the same TTL.
ExpirePendingOrder(o) ==
  /\ pendOrder[o] # "none"
  /\ age[o] = 2 \/ (age[o] = 1 /\ ~resKey[o])
  /\ pendOrder' = [pendOrder EXCEPT ![o] = "none"]
  /\ UNCHANGED <<invVars, doc, claimFresh, attempt, event, flow, notes,
                 takeovers>>

\* The API process or the worker dies in the middle of a flow.
FlowCrash(c) ==
  /\ ~NoFlowOf(c) /\ crashes < MaxCrashes
  /\ EndFlow(c) /\ Return(c, "idle")
  /\ crashes' = crashes + 1
  /\ UNCHANGED <<shared, history, age, progress, calls, doc, claimFresh,
                 pendOrder, attempt, event, notes, takeovers>>

-----------------------------------------------------------------------------
OrderInit ==
  /\ Init
  /\ doc = [o \in Orders |-> "absent"]
  /\ claimFresh = [o \in Orders |-> FALSE]
  /\ pendOrder = [o \in Orders |-> "none"]
  /\ attempt = [o \in Orders |-> "none"]
  /\ event = [o \in Orders |-> "none"]
  /\ flow = [c \in Procs |-> NoFlow]
  /\ notes = [o \in Orders |-> [d \in Duties |-> "none"]]
  /\ reclaimed = [o \in Orders |-> FALSE]
  /\ before = [o \in Orders |-> 0]

\* One await of the flow of caller c, outside InventoryService.
FlowStep(c) ==
  \/ WritePendingOrder(c) \/ CreateRazorpayOrder(c) \/ RecordAttempt(c)
  \/ FindOrder(c) \/ GetPendingOrder(c) \/ FindOrderAgain(c)
  \/ LoadSnapshot(c) \/ AmountMatches(c) \/ LookupRaises(c) \/ UpsertOrder(c)
  \/ Claim(c) \/ CommitReturned(c) \/ Announce(c) \/ MarkResolved(c)
  \/ MarkDone(c) \/ DeletePendingOrder(c) \/ AlreadyProcessed(c)
  \/ AbandonAttempt(c)

InventoryStep(p) == MethodStep(p) /\ UNCHANGED orderVars

\* Outside the flows: the sweep, cash-on-delivery sales, and time.
SweepStep(p, o) == NoFlowOf(p) /\ Sweep(p, o) /\ UNCHANGED orderVars
CodStep(p, o) ==
  /\ NoFlowOf(p) /\ o \in CodOrders
  /\ Begin(p, o) \/ InsertFailed(p, o)
  /\ UNCHANGED orderVars
TimeStep(o) == Tick(o) /\ UNCHANGED orderVars
LockStep(r) == LockExpires(r) /\ UNCHANGED orderVars

OrderNext ==
  \/ \E p \in Procs :
       \/ FlowStep(p)
       \/ InventoryStep(p)
       \/ FlowCrash(p)
       \/ \E o \in Orders :
            \/ StartInitiate(p, o)
            \/ LookUpPayment(p, o)
            \/ \E source \in Sources : StartComplete(p, o, source)
            \/ SweepStep(p, o)
            \/ CodStep(p, o)
  \/ \E o \in Orders :
       Pay(o) \/ ClaimGoesStale(o) \/ ExpirePendingOrder(o) \/ TimeStep(o)
  \/ \E r \in Rows : LockStep(r)

OrderSpec == OrderInit /\ [][OrderNext]_allVars

\* asyncio resumes every ready coroutine; the consumer redelivers what was not
\* acked nor given up, the worker runs the reconciliation every few minutes and the cron
\* runs the sweep and the scan; clocks advance and an outage of Razorpay ends.
\* Nobody is obliged to pay, to verify or to check out.
OrderFairness ==
  /\ \A c \in Procs : WF_allVars(FlowStep(c)) /\ SF_allVars(AmountMatches(c))
  /\ \A p \in Procs : WF_allVars(InventoryStep(p))
  /\ \A o \in Orders :
       /\ \A source \in {"webhook", "reconcile", "scan"} :
            WF_allVars(\E c \in Procs : StartComplete(c, o, source))
       /\ WF_allVars(\E p \in Procs : SweepStep(p, o))
       /\ WF_allVars(TimeStep(o))
       /\ WF_allVars(ClaimGoesStale(o))

OrderFairSpec == OrderSpec /\ OrderFairness

-----------------------------------------------------------------------------
(* Properties *)

FlowType == [order : Orders \cup {NoOrder}, at : FlowLabels,
             source : Sources \cup {"none"}, late : BOOLEAN, created : BOOLEAN]

\* Every variable keeps its type, those of the inventory included.
OrderTypeOK ==
  /\ TypeOK
  /\ doc \in [Orders -> {"absent", "pending", "in_progress", "done"}]
  /\ claimFresh \in [Orders -> BOOLEAN]
  /\ pendOrder \in [Orders -> {"none", "bare", "full"}]
  /\ attempt \in [Orders -> {"none", "pending", "resolved", "abandoned"}]
  /\ event \in [Orders -> {"none", "queued", "lost", "acked"}]
  /\ flow \in [Procs -> FlowType]
  /\ notes \in [Orders -> [Duties -> {"none", "missed", "written", "again"}]]
  /\ reclaimed \in [Orders -> BOOLEAN]
  /\ before \in [Orders -> Int]

\* Unless a stale claim was taken over, no alert and no ledger entry of an order
\* is written twice, whoever calls complete_pending_order how often.
LedgerOnce ==
  \A o \in Orders : ~reclaimed[o] => \A d \in Duties : notes[o][d] # "again"

\* The whole protocol keeps the promise of Fulfilment: the steps of all flows,
\* crashed, repeated or taken over, are for each order a step of it or none.
Promise == INSTANCE Fulfilment
             WITH paid <- [o \in Orders |-> Paid(o)],
                  status <- doc,
                  settled <- [o \in Orders |-> attempt[o] \in {"resolved", "abandoned"}],
                  retaken <- reclaimed
FulfilsPromise == Promise!FulfilSpec

\* While no live claimer outlasts its claim, at most one call is between
\* winning the claim of an order and writing "done".
OneFinisher ==
  ~SlowClaimers =>
    \A c, d \in Procs :
      /\ flow[c].at \in Finishing /\ flow[d].at \in Finishing
      /\ FlowOrder(c) = FlowOrder(d)
      => c = d

\* An order that says "done" had its alert and both ledger entries written,
\* whatever crashed on the way, except those whose own write failed and was
\* swallowed: nobody tries them again.  It left no pending payment attempt.
\* ("abandoned" is possible: the reconciliation may write it over "resolved".)
DoneMeansRecorded ==
  \A o \in Orders :
    doc[o] = "done" =>
      /\ \A d \in Duties : notes[o][d] # "none"
      /\ attempt[o] \in {"resolved", "abandoned"}

\* post_processing_status only moves forward, and never skips the claim.
StatusForward ==
  [][\A o \in Orders :
       doc'[o] # doc[o] =>
         <<doc[o], doc'[o]>> \in {<<"absent", "pending">>,
                                  <<"pending", "in_progress">>,
                                  <<"in_progress", "done">>}]_allVars

\* A claim takes each line of its order from stock at most once, whatever the
\* other callers commit and release.  Taking over a stale claim may take again
\* what its dead owner had taken (before), unlike order_service.py:166-169,
\* which holds that a reclaim cannot double-apply; without a takeover an order
\* finished by a commit took all its lines, once.
SaleTakesStockOnce ==
  \A o \in OnlineOrders :
    /\ ~SlowClaimers \/ ~reclaimed[o] => taken[o] <= Len(Cart[o]) + before[o]
    /\ ~reclaimed[o] /\ doc[o] = "done" /\ mirror[o] = "committed" =>
         taken[o] = Len(Cart[o])

\* Without a crash, an order finished by the claim that started it holds nothing
\* in inv:pending any more.  (A commit that claimed the mirror and found the
\* stock sold leaves the claim to a caller for whom nothing is left to do.)
DoneOrderHoldsNothing ==
  crashes = 0 =>
    \A o \in Orders :
      doc[o] = "done" /\ ~reclaimed[o] /\ ~Busy(o) => hold[o] = {}

\* The reconciliation has given the order up, or is about to.
GivenUp(o) ==
  \/ attempt[o] = "abandoned"
  \/ \E c \in Procs : In(c, "abandon") /\ FlowOrder(c) = o

\* A captured payment without an order can still be found: its attempt is
\* pending, so the next reconciliation takes it up, unless one has given it up.
\* No call of complete_pending_order marks an attempt it leaves without order,
\* whichever way it returns and whoever called it.
PaidIsInReach ==
  \A o \in Orders :
    Paid(o) /\ doc[o] = "absent" /\ ~GivenUp(o) => attempt[o] = "pending"

\* A payment captured before the reconciliation's last look becomes an order,
\* even when the webhook is lost, the process that handles it dies and the
\* Redis record has expired.
PaidIsPersisted ==
  \A o \in Orders : Paid(o) /\ ~GivenUp(o) ~> doc[o] # "absent"

\* orders.py:230-231: "Both converge on the same idempotent
\* complete_pending_order(), so calling both is safe": an order finished while
\* its reservation was still young took all its lines from stock.
SoldOrderLeftStock ==
  \A o \in OnlineOrders :
    doc[o] = "done" /\ age[o] = 0 => taken[o] >= Len(Cart[o])

\* order_service.py:132-135: a claim older than 300 s "is assumed abandoned
\* (the claimer crashed before finishing) and can be reclaimed by the next
\* caller - otherwise a crash mid-claim would leave the order stuck".
CrashedClaimIsFinished ==
  \A o \in Orders : doc[o] = "in_progress" ~> doc[o] = "done"

\* payment_reconciliation_service.py:355-358: old attempts get "one final
\* authoritative Razorpay check [...] before marking them abandoned - so even
\* a payment older than the bulk window can't be wrongly abandoned".
NeverWronglyAbandoned ==
  [][\A c \in Procs : In(c, "abandon")' /\ ~In(c, "abandon")
                      => ~Paid(flow'[c].order)]_allVars

=============================================================================
