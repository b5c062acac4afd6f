---------------------------- MODULE Reconciliation ----------------------------
(* The worker's PaymentReconciliationService over the attempts of many      *)
(* customers: one pass at a time, while customers check out and pay, the    *)
(* webhooks complete their orders and the clock moves on.  What completing  *)
(* an order does step by step is the subject of OrderCompletion; here it is *)
(* one step, or two when it raises in the middle.  Checkouts are numbered   *)
(* in the order of their attempts.  Left out: the logs, the throttling.     *)
EXTENDS Integers, Sequences, FiniteSets, SequencesExt

CONSTANTS MaxCheckouts,  \* bound: online checkouts
          RowCap,        \* attempts one pass loads, 500 in the code
          PageCap,       \* payments one pass fetches, 5000 in the code
          MaxPasses      \* bound: passes that find something pending

ASSUME ReconciliationAssumption ==
  /\ MaxCheckouts \in Nat
  /\ RowCap \in Nat \ {0} /\ PageCap \in Nat \ {0} /\ MaxPasses \in Nat

VARIABLES attempts,   \* the status of each row of payment_attempts
          placed,     \* checkouts with an order
          payments,   \* what Razorpay has captured, oldest first
          agedRows,   \* attempts 1 .. agedRows are older than the last window
          agedPays,   \* so many of the first payments are
          pass,       \* the locals of the pass that runs
          passes,
          orphans,    \* payments reported as belonging to nothing we know
          excused     \* history: paid after the last look, or hidden from it

reconVars == <<attempts, placed, payments, agedRows, agedPays, pass, passes, orphans, excused>>

Checkouts == 1 .. MaxCheckouts
Foreign == 0  \* the Razorpay order of a payment that did not start in this shop
IsPaid(o) == o \in ToSet(payments)
NoPass == [pc |-> "asleep", rows |-> {}, todo |-> {}, left |-> {}, found |-> {}, known |-> {},
           until |-> 0, order |-> Foreign]
During(pc) == pass.pc = pc
First(orders) == CHOOSE o \in orders : \A x \in orders : o <= x
OldestOf(orders, cap) == {o \in orders : Cardinality({x \in orders : x < o}) < cap}

ReconInit ==
  /\ attempts = [o \in Checkouts |-> "none"]
  /\ placed = {} /\ payments = <<>> /\ agedRows = 0 /\ agedPays = 0
  /\ pass = NoPass /\ passes = 0 /\ orphans = {} /\ excused = {}

-----------------------------------------------------------------------------
(* Everybody else *)

(* The attempt is recorded before the customer learns the Razorpay order.   *)
RecordAttempt(o) ==
  /\ attempts[o] = "none" /\ \A x \in 1 .. o - 1 : attempts[x] # "none"
  /\ attempts' = [attempts EXCEPT ![o] = "pending"]
  /\ UNCHANGED <<placed, payments, agedRows, agedPays, pass, passes, orphans, excused>>

Capture(o) ==
  /\ ~IsPaid(o) /\ (o \in Checkouts => attempts[o] # "none")
  /\ payments' = Append(payments, o)
  /\ excused' = excused \cup
       {x \in {o} \cap Checkouts : attempts[x] = "abandoned" \/ (During("abandon") /\ pass.order = x)}
  /\ UNCHANGED <<attempts, placed, agedRows, agedPays, pass, passes, orphans>>

(* mark_resolved never overwrites what is no longer pending.                *)
MarkResolved(o) == attempts' = [attempts EXCEPT ![o] = IF @ = "pending" THEN "resolved" ELSE @]

(* The order is created, or there already; or the call raises, because of   *)
(* the amount, before it or after it.                                       *)
Complete(o) ==
  \/ placed' = placed \cup {o} /\ (MarkResolved(o) \/ UNCHANGED attempts)
  \/ UNCHANGED <<attempts, placed>>

(* The webhook, or the customer's own verification.                         *)
Confirm(o) ==
  /\ IsPaid(o) /\ o \notin placed /\ Complete(o)
  /\ UNCHANGED <<payments, agedRows, agedPays, pass, passes, orphans, excused>>

-----------------------------------------------------------------------------
(* One pass *)

(* The time since the last pass: both age, a payment after its attempt.     *)
MoveWindow ==
  /\ agedRows' \in {n \in agedRows .. MaxCheckouts : \A o \in 1 .. n : attempts[o] # "none"}
  /\ agedPays' \in {n \in agedPays .. Len(payments) : \A k \in 1 .. n : payments[k] <= agedRows'}

(* All pending attempts, the oldest RowCap of them.  When there are none    *)
(* the pass ends without having asked Razorpay.                             *)
BeginPass ==
  LET pending == {o \in Checkouts : attempts[o] = "pending"}
  IN /\ During("asleep") /\ pending # {} /\ passes < MaxPasses
     /\ passes' = passes + 1 /\ MoveWindow
     /\ pass' = [NoPass EXCEPT !.pc = "fetch", !.rows = OldestOf(pending, RowCap),
                               !.until = Len(payments)]
     /\ UNCHANGED <<attempts, placed, payments, orphans, excused>>

(* The payments of the window, newest first, as many as the pages hold.     *)
Fetched ==
  LET first == IF pass.until - agedPays > PageCap THEN pass.until - PageCap ELSE agedPays
  IN ToSet(SubSeq(payments, first + 1, pass.until))
FetchWindow ==
  /\ During("fetch")
  /\ pass' = [pass EXCEPT !.pc = "match", !.todo = pass.rows, !.until = 0, !.found = Fetched]
  /\ UNCHANGED <<attempts, placed, payments, agedRows, agedPays, passes, orphans, excused>>

(* Mutant of Match: an attempt older than the window is abandoned at once.  *)
MatchByWindow ==
  /\ During("match") /\ pass.todo # {}
  /\ LET o == First(pass.todo)
     IN \/ o \in pass.found /\ Complete(o) /\ pass' = [pass EXCEPT !.todo = @ \ {o}]
        \/ /\ o \notin pass.found /\ o > agedRows /\ UNCHANGED <<attempts, placed>>
           /\ pass' = [pass EXCEPT !.todo = @ \ {o}, !.left = @ \cup {o}]
        \/ /\ o \notin pass.found /\ o <= agedRows /\ UNCHANGED placed
           /\ attempts' = [attempts EXCEPT ![o] = "abandoned"]
           /\ pass' = [pass EXCEPT !.todo = @ \ {o}]
  /\ UNCHANGED <<payments, agedRows, agedPays, passes, orphans, excused>>

(* What the window has is completed; everything else is left for the look   *)
(* at the single order, however old it is.                                  *)
Match ==
  /\ During("match") /\ pass.todo # {}
  /\ LET o == First(pass.todo)
     IN \/ o \in pass.found /\ Complete(o) /\ pass' = [pass EXCEPT !.todo = @ \ {o}]
        \/ /\ o \notin pass.found /\ UNCHANGED <<attempts, placed>>
           /\ pass' = [pass EXCEPT !.todo = @ \ {o}, !.left = @ \cup {o}]
  /\ UNCHANGED <<payments, agedRows, agedPays, passes, orphans, excused>>

NextStage ==
  /\ During("match") \/ During("look")
  /\ pass.todo = {}
  /\ pass' = [pass EXCEPT !.pc = IF During("match") THEN "look" ELSE "orders",
                          !.todo = pass.left, !.left = {}]
  /\ UNCHANGED <<attempts, placed, payments, agedRows, agedPays, passes, orphans, excused>>

(* fetch_captured_payment of one order.  An error of Razorpay looks like an *)
(* order without a payment.                                                 *)
LookAtOrder ==
  /\ During("look") /\ pass.todo # {}
  /\ LET o == First(pass.todo)
         Empty == /\ pass' = IF o <= agedRows
                              THEN [pass EXCEPT !.todo = @ \ {o}, !.order = o, !.pc = "abandon"]
                              ELSE [pass EXCEPT !.todo = @ \ {o}]
                  /\ UNCHANGED <<attempts, placed>>
     IN \/ IsPaid(o) /\ Complete(o) /\ pass' = [pass EXCEPT !.todo = @ \ {o}] /\ UNCHANGED excused
        \/ ~IsPaid(o) /\ Empty /\ UNCHANGED excused
        \/ IsPaid(o) /\ Empty /\ excused' = excused \cup {o}
  /\ UNCHANGED <<payments, agedRows, agedPays, passes, orphans>>

(* Whatever the status has become meanwhile; the write may fail.            *)
Abandon ==
  /\ During("abandon") /\ pass' = [pass EXCEPT !.pc = "look", !.order = Foreign]
  /\ attempts' = [attempts EXCEPT ![pass.order] = "abandoned"] \/ UNCHANGED attempts
  /\ UNCHANGED <<placed, payments, agedRows, agedPays, passes, orphans, excused>>

(* Which of the payments that no loaded attempt explains have an order?     *)
Unmatched == pass.found \ pass.rows
AskOrders ==
  /\ During("orders")
  /\ pass' = [pass EXCEPT !.pc = "attempts", !.known = Unmatched \cap placed]
  /\ UNCHANGED <<attempts, placed, payments, agedRows, agedPays, passes, orphans, excused>>

(* Mutant of AskAttempts: only the orders are asked.                        *)
AskNobody ==
  /\ During("attempts") /\ pass' = NoPass
  /\ orphans' = orphans \cup (Unmatched \ pass.known)
  /\ UNCHANGED <<attempts, placed, payments, agedRows, agedPays, passes, excused>>

(* And which have an attempt, of any status?  The rest is reported.         *)
AskAttempts ==
  /\ During("attempts") /\ pass' = NoPass
  /\ LET recorded == {o \in Unmatched \cap Checkouts : attempts[o] # "none"}
     IN orphans' = orphans \cup (Unmatched \ (pass.known \cup recorded))
  /\ UNCHANGED <<attempts, placed, payments, agedRows, agedPays, passes, excused>>

(* A query that fails ends the pass, and so does the end of the worker.     *)
EndPass ==
  /\ ~During("asleep") /\ pass' = NoPass
  /\ UNCHANGED <<attempts, placed, payments, agedRows, agedPays, passes, orphans, excused>>

ReconNext ==
  \/ BeginPass \/ FetchWindow \/ Match \/ NextStage \/ LookAtOrder \/ Abandon
  \/ AskOrders \/ AskAttempts \/ EndPass
  \/ \E o \in Checkouts : RecordAttempt(o) \/ Confirm(o)
  \/ \E o \in Checkouts \cup {Foreign} : Capture(o)

ReconSpec == ReconInit /\ [][ReconNext]_reconVars

-----------------------------------------------------------------------------
(* An attempt that is given up although its customer was charged and has no *)
(* order was paid after Razorpay was asked for this very order, or Razorpay *)
(* could not answer: no cap on rows or pages and no long outage of the      *)
(* worker loses a payment.                                                  *)
PaidIsNotAbandoned ==
  \A o \in Checkouts : attempts[o] = "abandoned" /\ IsPaid(o) /\ o \notin placed => o \in excused

(* What a pass reports as money for an order nobody knows is no checkout of *)
(* this shop, also when its attempt was beyond the rows that were loaded or *)
(* came after them.                                                         *)
OrphansAreForeign == orphans \subseteq {Foreign}
=============================================================================
