------------------------------ MODULE Checkout ------------------------------
(* A cash-on-delivery checkout as the route runs it: the idempotency key in *)
(* front, the fraud check, the sale of the stock, the order and its log,    *)
(* and the answer stored under the key.  Every request is a process; one    *)
(* that dies takes no further step.                                         *)
EXTENDS Naturals, Sequences, FiniteSets

CONSTANTS Requests,
          Key,            \* Key[r]: the Idempotency-Key of r
          Bodies,         \* carts
          None,
          FraudEnabled,   \* off by default; in production it has to be on
          MaxFaults,      \* bound: requests a store may fail on
          MaxLost         \* bound: requests that may outlive their lock

ASSUME CheckoutAssumption == None \notin Requests /\ FraudEnabled \in BOOLEAN

Keys == {Key[r] : r \in Requests}

VARIABLES pc,
          body,      \* body[r]: the cart of r
          answer,    \* answer[k]: the request whose answer is stored for k
          lock,      \* lock[k]: the request that set the lock of k
          bought,    \* carts marked as bought (fraud:dup_order)
          verdict,   \* verdict[r]: the rule that decided
          sold,      \* requests that hold the stock of their cart
          partly,    \* requests refused for one line that keep the lines before it
          orders,    \* requests whose order is stored, in order
          logged,    \* requests whose order_logs entry is stored
          replayed,  \* replayed[r]: whose stored answer r was given
          lost,      \* history: requests whose lock went before they ended
          broken     \* history: requests that failed once their order was stored

checkoutVars == <<pc, body, answer, lock, bought, verdict, sold, partly,
          orders, logged, replayed, lost, broken>>
stores == <<bought, verdict, sold, partly, orders, logged>>

Rule(priority, action) == [priority |-> priority, action |-> action]
Unjudged == Rule(0, "none")

Ended == {"done", "replayed", "conflict", "refused", "failed", "unanswered"}

CheckoutInit ==
  /\ pc = [r \in Requests |-> "begin"]
  /\ body \in [Requests -> Bodies]
  /\ answer = [k \in Keys |-> None]
  /\ lock = [k \in Keys |-> None]
  /\ bought = {}
  /\ verdict = [r \in Requests |-> Unjudged]
  /\ sold = {} /\ partly = {} /\ orders = <<>> /\ logged = {}
  /\ replayed = [r \in Requests |-> None]
  /\ lost = {} /\ broken = {}

(* A store fails; the lock of a running request goes before it ends.        *)
Faults == Cardinality(broken \cup {r \in Requests : verdict[r].action = "error"}) < MaxFaults
LocksLapse == Cardinality(lost) < MaxLost

Goto(r, step) == pc' = [pc EXCEPT ![r] = step]
Ordered == {orders[i] : i \in DOMAIN orders}

-----------------------------------------------------------------------------
(* IdempotencyService.begin: the stored answer first, then the lock, and    *)
(* only a request that misses the lock looks at the answer again.           *)
SameKey(a, r) == Key[a] = Key[r]
SameRequest(a, r) == body[a] = body[r]

Replay(r) ==
  LET a == answer[Key[r]]
  IN IF SameRequest(a, r)
     THEN Goto(r, "replayed") /\ replayed' = [replayed EXCEPT ![r] = a]
     ELSE Goto(r, "conflict") /\ UNCHANGED replayed

LookUp(r, otherwise) ==
  /\ IF answer[Key[r]] # None THEN Replay(r)
     ELSE Goto(r, otherwise) /\ UNCHANGED replayed
  /\ UNCHANGED <<body, answer, lock, stores, lost, broken>>

Begin(r) == pc[r] = "begin" /\ LookUp(r, "lock")
LookAgain(r) == pc[r] = "again" /\ LookUp(r, "refused")

MayTake(k) == TRUE
MayLock(k) == lock[k] = None

TakeLock(r) ==
  /\ pc[r] = "lock"
  /\ IF MayLock(Key[r])
     THEN Goto(r, "fraud") /\ lock' = [lock EXCEPT ![Key[r]] = r]
     ELSE Goto(r, "again") /\ UNCHANGED lock
  /\ UNCHANGED <<body, answer, stores, replayed, lost, broken>>

-----------------------------------------------------------------------------
(* FraudEngine.evaluate: the matched rules by priority, then by severity of *)
(* their action; the first one decides.  Of config/fraud_rules.yaml only    *)
(* the velocity group (a burst of orders of the e-mail or of the IP, an     *)
(* order of 50000 and more) stands above the duplicate rule; the rules      *)
(* below it never outrank it, and a request they reject goes the way of one *)
(* that is out of stock.                                                    *)
Rank == [allow |-> 0, challenge |-> 1, manual_review |-> 2, reject |-> 3]

Allow == Rule(0, "allow")
Error == Rule(0, "error")

(* The counters of the group also count other carts and, by IP, other       *)
(* customers, and are forgotten after an hour: whether one of its rules     *)
(* matches is an input.                                                     *)
VelocityRule(burst) == IF burst THEN {Rule(90, "manual_review")} ELSE {}

ReviewOf(dup) == IF dup THEN {Rule(85, "manual_review")} ELSE {}
DuplicateRule(dup) == IF dup THEN {Rule(85, "reject")} ELSE {}

Verdict(rules) ==
  IF rules = {} THEN Allow
  ELSE LET top == {m \in rules : \A n \in rules : n.priority <= m.priority}
       IN CHOOSE m \in top : \A n \in top : Rank[n.action] <= Rank[m.action]

(* A refused checkout: ValueError before anything was stored.               *)
Invalid(r) ==
  /\ pc[r] = "fraud"
  /\ Goto(r, "release")
  /\ UNCHANGED <<body, answer, lock, stores, replayed, lost, broken>>

(* With fraud_fail_closed off, an error of the check allows the order.  A   *)
(* review is queued for later and holds nothing up.                         *)
Judgements(r) ==
  IF FraudEnabled
  THEN {Verdict(VelocityRule(burst) \cup DuplicateRule(body[r] \in bought)) : burst \in BOOLEAN}
       \cup (IF Faults THEN {Error} ELSE {})
  ELSE {Allow}

Judge(r) ==
  /\ pc[r] = "fraud"
  /\ \E v \in Judgements(r) :
       /\ verdict' = [verdict EXCEPT ![r] = v]
       /\ Goto(r, IF v.action = "reject" THEN "release" ELSE "sell")
  /\ UNCHANGED <<body, answer, lock, bought, sold, partly, orders, logged,
                 replayed, lost, broken>>

-----------------------------------------------------------------------------
(* create: commit_items, insert_one, and the sale taken back when the       *)
(* insert raises, whether or not the server had applied it.  commit_items   *)
(* raises at the first line that is short; the lines before it stay taken.  *)
Sell(r) ==
  /\ pc[r] = "sell"
  /\ \/ sold' = sold \cup {r} /\ Goto(r, "insert") /\ UNCHANGED partly
     \/ /\ partly' \in {partly, partly \cup {r}}
        /\ Goto(r, "release")
        /\ UNCHANGED sold
  /\ UNCHANGED <<body, answer, lock, bought, verdict, orders, logged,
                 replayed, lost, broken>>

Insert(r) ==
  /\ pc[r] = "insert"
  /\ \/ orders' = Append(orders, r) /\ Goto(r, "log") /\ UNCHANGED broken
     \/ Faults /\ Goto(r, "unsell") /\ UNCHANGED <<orders, broken>>
     \/ /\ Faults
        /\ orders' = Append(orders, r)
        /\ Goto(r, "unsell")
        /\ broken' = broken \cup {r}
  /\ UNCHANGED <<body, answer, lock, bought, verdict, sold, partly, logged,
                 replayed, lost>>

Kept(r) == sold
Without(r) == sold \ {r}

Unsell(r) ==
  /\ pc[r] = "unsell"
  /\ sold' = Without(r)
  /\ Goto(r, "release")
  /\ UNCHANGED <<body, answer, lock, bought, verdict, partly, orders, logged,
                 replayed, lost, broken>>

(* The log entry and the mark of the cart; the alert and the ledger between *)
(* them swallow their errors.                                               *)
BreakOff(r) ==
  /\ Faults
  /\ pc[r] \in {"log", "mark"}
  /\ broken' = broken \cup {r}
  /\ Goto(r, "release")
  /\ UNCHANGED <<body, answer, lock, stores, replayed, lost>>

Log(r) ==
  /\ pc[r] = "log"
  /\ logged' = logged \cup {r}
  /\ Goto(r, "mark")
  /\ UNCHANGED <<body, answer, lock, bought, verdict, sold, partly, orders,
                 replayed, lost, broken>>

MarkBought(r) ==
  /\ pc[r] = "mark"
  /\ bought' = bought \cup {body[r]}
  /\ Goto(r, "store")
  /\ UNCHANGED <<body, answer, lock, verdict, sold, partly, orders, logged,
                 replayed, lost, broken>>

-----------------------------------------------------------------------------
(* store writes the answer and deletes the lock; release_lock deletes it.   *)
(* Neither looks at who holds it.                                           *)
Store(r) ==
  /\ pc[r] = "store"
  /\ \/ answer' = [answer EXCEPT ![Key[r]] = r] /\ Goto(r, "unlock") /\ UNCHANGED broken
     \/ /\ Faults
        /\ broken' = broken \cup {r}
        /\ Goto(r, "unanswered")
        /\ UNCHANGED answer
  /\ UNCHANGED <<body, lock, stores, replayed, lost>>

Unlock(r) ==
  /\ pc[r] \in {"unlock", "release"}
  /\ lock' = [lock EXCEPT ![Key[r]] = None]
  /\ lost' = lost \cup ({lock[Key[r]]} \ {r, None})
  /\ Goto(r, IF pc[r] = "unlock" THEN "done" ELSE "failed")
  /\ UNCHANGED <<body, answer, stores, replayed, broken>>

(* The mark lives 900 s.  A request that holds its lock (60 s), or is about *)
(* to take it, is assumed to be over by then; one that lost it need not be. *)
UnderWay == {r \in Requests : pc[r] \notin Ended \cup {"begin"}}

MarkExpires ==
  /\ \E b \in bought :
       /\ \A r \in UnderWay \ lost : body[r] # b
       /\ bought' = bought \ {b}
  /\ UNCHANGED <<pc, body, answer, lock, verdict, sold, partly, orders, logged,
                 replayed, lost, broken>>

(* The lock lives 60 s; that of a request that is still running may go too. *)
LockExpires ==
  /\ \E k \in Keys :
       /\ lock[k] # None
       /\ LocksLapse \/ pc[lock[k]] \in Ended
       /\ lock' = [lock EXCEPT ![k] = None]
       /\ lost' = lost \cup {lock[k]}
  /\ UNCHANGED <<pc, body, answer, stores, replayed, broken>>

CheckoutNext ==
  \/ \E r \in Requests :
       \/ Begin(r) \/ TakeLock(r) \/ LookAgain(r) \/ Invalid(r) \/ Judge(r)
       \/ Sell(r) \/ Insert(r) \/ Unsell(r) \/ BreakOff(r)
       \/ Log(r) \/ MarkBought(r) \/ Store(r) \/ Unlock(r)
  \/ LockExpires \/ MarkExpires

CheckoutSpec == CheckoutInit /\ [][CheckoutNext]_checkoutVars

-----------------------------------------------------------------------------
(* Every variable has its type, and at most one request holds a lock it     *)
(* neither lost nor gave back.                                              *)
Running == {r \in Requests : pc[r] \notin Ended \cup {"begin", "lock", "again"}}
CheckoutTypeOK ==
  /\ answer \in [Keys -> Requests \cup {None}]
  /\ lock \in [Keys -> Requests \cup {None}]
  /\ orders \in Seq(Requests)
  /\ bought \subseteq Bodies
  /\ \A r \in Running \ lost : lock[Key[r]] = r

(* Two orders from one key and cart: a request reads "no answer", the other *)
(* finishes, and the first takes the lock.  The mark of the bought cart,    *)
(* set before the answer, then rejects it; so, with the fraud check on, a   *)
(* second order needs a lock lost on the way, a first request that failed   *)
(* after its insert, or a verdict in which a rule of the velocity group     *)
(* outranked the duplicate or the check broke.                              *)
SecondOrderHasCause ==
  FraudEnabled => \A i, j \in DOMAIN orders :
    /\ i < j
    /\ Key[orders[i]] = Key[orders[j]]
    /\ body[orders[i]] = body[orders[j]]
    => \/ {orders[i], orders[j]} \cap lost # {}
       \/ orders[i] \in broken
       \/ verdict[orders[j]] = Error \/ verdict[orders[j]].priority > 85

(* A replayed answer is that of a stored order of the same cart, completely *)
(* recorded: log entry and stock.                                           *)
ReplayIsOwnOrder ==
  \A r \in Requests :
    replayed[r] # None =>
      LET a == replayed[r]
      IN /\ a \in Ordered \cap logged \cap sold
         /\ body[a] = body[r]

(* When a request has ended, it holds the stock of its cart exactly if it   *)
(* has an order, but for an insert applied by the server and not            *)
(* acknowledged; and a part of it only if it was refused and has no order.  *)
SaleMatchesOrder ==
  \A r \in Requests :
    pc[r] \in Ended =>
      /\ (r \in sold <=> r \in Ordered) \/ r \in Ordered \cap broken
      /\ r \in partly => r \notin Ordered
=============================================================================
