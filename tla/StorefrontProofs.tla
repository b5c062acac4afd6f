-------------------------- MODULE StorefrontProofs --------------------------
(* The parts of a shop request, for any number of requests, carts, callers, *)
(* processes, orders, retries and faults: what a checkout leaves behind and *)
(* when it may order twice, how much an open breaker lets through, whose    *)
(* number an invoice number is, that the lines of an invoice add up, how    *)
(* much the buckets in front of the routes grant, and that MCStorefront     *)
(* puts these parts, the pages and the stream beside each other and changes *)
(* none of them.                                                            *)
EXTENDS MCStorefront, ContentProofs, EventStreamProofs,
        SequenceTheorems, FiniteSetTheorems, FunctionTheorems, TLAPS

-----------------------------------------------------------------------------
(* Checkout: what a request that has got so far has left in the stores.     *)

Steps == Ended \cup {"begin", "lock", "again", "fraud", "sell", "insert", "unsell",
                     "log", "mark", "store", "unlock", "release"}
Judged == {Unjudged, Allow, Error, Rule(90, "manual_review"), Rule(85, "reject")}

CheckoutTypes ==
  /\ pc \in [Requests -> Steps] /\ body \in [Requests -> Bodies]
  /\ answer \in [Keys -> Requests \cup {None}] /\ lock \in [Keys -> Requests \cup {None}]
  /\ bought \subseteq Bodies /\ verdict \in [Requests -> Judged]
  /\ sold \subseteq Requests /\ partly \subseteq Requests /\ orders \in Seq(Requests) /\ logged \subseteq Requests
  /\ replayed \in [Requests -> Requests \cup {None}]
  /\ lost \subseteq Requests /\ broken \subseteq Requests

LocksAreHeld == \A r \in Running \ lost : lock[Key[r]] = r

Answered(r) == pc[r] \in {"unlock", "done"}
StepsTaken(r) ==
  /\ pc[r] \in {"begin", "lock", "again", "fraud", "sell", "replayed", "conflict", "refused"} =>
       r \notin sold /\ r \notin Ordered
  /\ pc[r] = "insert" => r \in sold /\ r \notin Ordered
  /\ pc[r] = "unsell" => r \in sold /\ (r \in Ordered => r \in broken)
  /\ pc[r] \in {"release", "failed"} => (r \in Ordered => r \in broken) /\ (r \in sold => r \in Ordered)
  /\ pc[r] \in {"log", "mark", "store", "unanswered"} \/ Answered(r) => r \in sold /\ r \in Ordered
  /\ pc[r] \in {"mark", "store"} \/ Answered(r) => r \in logged
  /\ r \in partly => r \notin Ordered /\ pc[r] \in {"release", "failed"}
  /\ pc[r] = "unanswered" => r \in broken

AnswersAreOwn ==
  /\ \A k \in Keys : answer[k] # None => Answered(answer[k])
  /\ \A r \in Requests : Answered(r) => answer[Key[r]] # None
  /\ \A r \in Requests : replayed[r] # None => Answered(replayed[r]) /\ body[replayed[r]] = body[r]

(* What lets a request order the same cart again under the same key.        *)
Excused(r) == r \in lost \/ verdict[r] = Error \/ verdict[r].priority > 85
Alike(s, r) == Key[s] = Key[r] /\ body[s] = body[r]

(* The mark of a bought cart outlives every request that can still meet it. *)
MarksLive ==
  \A r \in UnderWay \ lost, s \in Requests \ lost :
    Alike(s, r) /\ (pc[s] = "store" \/ Answered(s)) => body[s] \in bought

FirstToOrder ==
  FraudEnabled => \A r \in Requests : pc[r] \in {"sell", "insert"} /\ ~Excused(r) =>
    \A s \in Ordered : Alike(s, r) => s \in lost \cup broken

OrdersHaveCause ==
  FraudEnabled => \A i, j \in DOMAIN orders :
    i < j /\ Alike(orders[i], orders[j]) => orders[i] \in lost \cup broken \/ Excused(orders[j])

CheckoutInv ==
  /\ CheckoutTypes /\ LocksAreHeld /\ (\A r \in Requests : StepsTaken(r)) /\ AnswersAreOwn
  /\ MarksLive /\ FirstToOrder /\ OrdersHaveCause

LEMMA CheckoutInitially ==
  ASSUME CheckoutInit
  PROVE  CheckoutInv
<1>1. /\ pc = [r \in Requests |-> "begin"] /\ body \in [Requests -> Bodies]
      /\ answer = [k \in Keys |-> None] /\ lock = [k \in Keys |-> None] /\ bought = {}
      /\ verdict = [r \in Requests |-> Unjudged] /\ sold = {} /\ partly = {} /\ orders = <<>> /\ logged = {}
      /\ replayed = [r \in Requests |-> None] /\ lost = {} /\ broken = {}
  BY DEF CheckoutInit
<1>2. orders \in Seq(Requests) /\ Ordered = {} /\ DOMAIN orders = {}
  BY <1>1, EmptySeq DEF Ordered
<1>3. CheckoutTypes
  BY <1>1, <1>2 DEF CheckoutTypes, Steps, Judged
<1>4. LocksAreHeld
  BY <1>1 DEF LocksAreHeld, Running
<1>5. \A r \in Requests : StepsTaken(r)
  BY <1>1, <1>2 DEF StepsTaken, Answered
<1>6. AnswersAreOwn
  BY <1>1 DEF AnswersAreOwn, Answered
<1>7. MarksLive /\ FirstToOrder /\ OrdersHaveCause
  BY <1>1, <1>2 DEF MarksLive, UnderWay, FirstToOrder, OrdersHaveCause
<1>8. QED
  BY <1>3, <1>4, <1>5, <1>6, <1>7 DEF CheckoutInv

(* The request that goes on, and the others.                                *)
LEMMA GoneOn ==
  ASSUME CheckoutTypes, NEW r \in Requests, NEW step \in Steps, Goto(r, step)
  PROVE  /\ pc' \in [Requests -> Steps] /\ pc'[r] = step
         /\ \A s \in Requests : s # r => pc'[s] = pc[s]
  BY DEF CheckoutTypes, Goto

LEMMA LocksStay ==
  ASSUME CheckoutInv, NEW r \in Requests, NEW step \in Steps, Goto(r, step), UNCHANGED <<lock, lost>>,
         r \in Running \/ step \in Ended \cup {"begin", "lock", "again"}
  PROVE  LocksAreHeld'
<1>1. \A s \in Running' : s \in Running
  BY GoneOn DEF CheckoutInv, Running
<1>2. QED
  BY <1>1 DEF CheckoutInv, LocksAreHeld

LEMMA AnswersStay ==
  ASSUME CheckoutInv, NEW r \in Requests, NEW step \in Steps, Goto(r, step),
         UNCHANGED <<answer, replayed, body>>, Answered(r) <=> step \in {"unlock", "done"}
  PROVE  AnswersAreOwn'
<1>1. \A s \in Requests : Answered(s) <=> Answered(s)'
  BY GoneOn DEF CheckoutInv, Answered
<1>2. /\ \A k \in Keys : answer[k] # None => answer[k] \in Requests
      /\ \A s \in Requests : replayed[s] # None => replayed[s] \in Requests
  BY DEF CheckoutInv, CheckoutTypes
<1>3. QED
  BY <1>1, <1>2 DEF CheckoutInv, AnswersAreOwn

LEMMA MarksStay ==
  ASSUME CheckoutInv, NEW r \in Requests, NEW step \in Steps, Goto(r, step),
         body' = body, bought \subseteq bought', lost \subseteq lost',
         step = "store" => body[r] \in bought',
         step \in {"unlock", "done"} => pc[r] = "store" \/ Answered(r),
         r \in UnderWay \/ step \in Ended \/ (pc[r] = "begin" /\ answer[Key[r]] = None)
  PROVE  MarksLive'
<1>1. pc'[r] = step /\ \A s \in Requests : s # r => pc'[s] = pc[s]
  BY GoneOn DEF CheckoutInv
<1>2. ASSUME NEW q \in UnderWay', NEW s \in Requests, q \notin lost, s \notin lost,
             Alike(s, q), pc'[s] = "store" \/ Answered(s)'
      PROVE  body[s] \in bought'
  <2>1. CASE s = r /\ step = "store"
    BY <2>1
  <2>2. CASE ~(s = r /\ step = "store")
    <3>1. pc[s] = "store" \/ Answered(s)
      BY <1>1, <1>2, <2>2 DEF Answered
    <3>2. q \in Requests
      BY DEF UnderWay
    <3>3. CASE q \in UnderWay
      BY <1>2, <3>1, <3>3 DEF CheckoutInv, MarksLive
    <3>4. CASE q \notin UnderWay
      <4>1. q = r
        BY <1>1, <3>2, <3>4 DEF UnderWay
      <4>2. step \notin Ended
        BY <1>1, <1>2, <4>1 DEF UnderWay
      <4>3. answer[Key[s]] = None
        BY <1>2, <3>4, <4>1, <4>2 DEF Alike
      <4>4. s \in UnderWay
        BY <3>1, <4>3 DEF CheckoutInv, AnswersAreOwn, Answered, UnderWay, Ended
      <4>5. Alike(s, s)
        BY DEF Alike
      <4>6. QED
        BY <1>2, <3>1, <4>4, <4>5 DEF CheckoutInv, MarksLive
    <3>5. QED
      BY <3>3, <3>4
  <2>3. QED
    BY <2>1, <2>2
<1>3. QED
  BY <1>2 DEF MarksLive, Alike

LEMMA CausesStay ==
  ASSUME CheckoutInv, UNCHANGED <<body, orders, verdict>>,
         lost \subseteq lost', broken \subseteq broken',
         \A s \in Requests : pc'[s] \in {"sell", "insert"} => pc[s] \in {"sell", "insert"}
  PROVE  FirstToOrder' /\ OrdersHaveCause'
<1>1. ASSUME NEW s \in Requests PROVE Excused(s) => Excused(s)'
  BY DEF Excused
<1>2. \A s, t : Alike(s, t)' = Alike(s, t)
  BY DEF Alike
<1>3. FirstToOrder'
  BY <1>1, <1>2 DEF CheckoutInv, FirstToOrder, Ordered
<1>4. OrdersHaveCause'
  <2>1. \A i \in DOMAIN orders : orders[i] \in Requests
    BY DEF CheckoutInv, CheckoutTypes
  <2>2. QED
    BY <1>1, <1>2, <2>1 DEF CheckoutInv, OrdersHaveCause
<1>5. QED
  BY <1>3, <1>4

LEMMA OthersStay ==
  ASSUME NEW s \in Requests, StepsTaken(s), pc'[s] = pc[s], body' = body,
         (s \in sold') = (s \in sold), (s \in partly') = (s \in partly),
         (s \in Ordered') = (s \in Ordered), logged \subseteq logged', broken \subseteq broken'
  PROVE  StepsTaken(s)'
  BY DEF StepsTaken, Answered

(* A step that adds no order and judges nobody.                             *)
LEMMA StepKeeps ==
  ASSUME CheckoutInv, NEW r \in Requests, NEW step \in Steps, Goto(r, step), CheckoutTypes',
         UNCHANGED <<body, orders, verdict>>,
         \A s \in Requests : s # r => (s \in sold') = (s \in sold) /\ (s \in partly') = (s \in partly),
         logged \subseteq logged', broken \subseteq broken', lost \subseteq lost',
         step \in {"sell", "insert"} => pc[r] \in {"sell", "insert"},
         StepsTaken(r)', LocksAreHeld', AnswersAreOwn', MarksLive'
  PROVE  CheckoutInv'
<1>1. pc'[r] = step /\ \A s \in Requests : s # r => pc'[s] = pc[s]
  BY GoneOn DEF CheckoutInv
<1>2. FirstToOrder' /\ OrdersHaveCause'
  <2>1. \A s \in Requests : pc'[s] \in {"sell", "insert"} => pc[s] \in {"sell", "insert"}
    BY <1>1
  <2>2. QED
    BY <2>1, CausesStay
<1>3. Ordered' = Ordered
  BY DEF Ordered
<1>4. ASSUME NEW s \in Requests PROVE StepsTaken(s)'
  <2>1. CASE s = r
    BY <2>1
  <2>2. CASE s # r
    BY <1>1, <1>3, <2>2, OthersStay DEF CheckoutInv
  <2>3. QED
    BY <2>1, <2>2
<1>5. QED
  BY <1>2, <1>4 DEF CheckoutInv

LEMMA LookUpKeeps ==
  ASSUME CheckoutInv, NEW r \in Requests, Begin(r) \/ LookAgain(r)
  PROVE  CheckoutInv'
<1>1. PICK otherwise \in {"lock", "refused"} : LookUp(r, otherwise) /\ pc[r] \in {"begin", "again"}
  BY DEF Begin, LookAgain
<1> DEFINE a == answer[Key[r]]
<1>2. /\ CheckoutTypes /\ StepsTaken(r) /\ AnswersAreOwn
      /\ UNCHANGED <<body, answer, lock, bought, verdict, sold, partly, orders, logged, lost, broken>>
  BY <1>1 DEF CheckoutInv, LookUp, stores
<1>3. Key[r] \in Keys /\ replayed \in [Requests -> Requests \cup {None}]
  BY <1>2 DEF Keys, CheckoutTypes
<1>4. PICK step \in {"lock", "refused", "replayed", "conflict"} :
        /\ Goto(r, step) /\ (step = "lock" => answer[Key[r]] = None)
        /\ \/ UNCHANGED replayed
           \/ replayed' = [replayed EXCEPT ![r] = a] /\ a # None /\ body[a] = body[r] /\ step = "replayed"
  BY <1>1 DEF LookUp, Replay, SameRequest
<1>5. step \in Steps
  BY DEF Steps, Ended
<1>6. pc'[r] = step /\ pc' \in [Requests -> Steps] /\ r \notin sold /\ r \notin Ordered /\ r \notin partly
  BY <1>1, <1>2, <1>4, <1>5, GoneOn DEF StepsTaken
<1>7. StepsTaken(r)'
  BY <1>2, <1>4, <1>6 DEF StepsTaken, Answered, Ordered
<1>8. LocksAreHeld'
  BY <1>2, <1>4, <1>5, LocksStay DEF Ended
<1>9. CheckoutTypes' /\ AnswersAreOwn'
  <2>1. CASE UNCHANGED replayed
    <3>1. AnswersAreOwn'
      BY <1>1, <1>2, <1>4, <1>5, <2>1, AnswersStay DEF Answered
    <3>2. QED
      BY <1>2, <1>6, <2>1, <3>1 DEF CheckoutTypes
  <2>2. CASE replayed' = [replayed EXCEPT ![r] = a] /\ a # None /\ body[a] = body[r] /\ step = "replayed"
    <3>1. a \in Requests /\ Answered(a)
      BY <1>2, <1>3, <2>2 DEF CheckoutTypes, AnswersAreOwn
    <3>2. \A s \in Requests : Answered(s) => Answered(s)'
      BY <1>1, <1>2, <1>4, <1>5, GoneOn DEF Answered
    <3>3. CheckoutTypes'
      BY <1>2, <1>3, <1>6, <2>2, <3>1 DEF CheckoutTypes
    <3>4. \A k \in Keys : answer'[k] # None => Answered(answer[k])'
      BY <1>2, <3>2 DEF CheckoutTypes, AnswersAreOwn
    <3>7. \A s \in Requests : Answered(s)' => answer'[Key[s]] # None
      BY <1>2, <1>4, <1>5, <2>2, GoneOn DEF AnswersAreOwn, Answered
    <3>5. ASSUME NEW s \in Requests, replayed'[s] # None
          PROVE  Answered(replayed[s])' /\ body'[replayed'[s]] = body'[s]
      <4>1. CASE s = r
        <5>1. replayed'[s] = a
          BY <1>3, <2>2, <4>1
        <5>2. Answered(a)
          BY <3>1
        <5>3. pc'[replayed'[s]] \in {"unlock", "done"}
          BY <3>1, <3>2, <5>1 DEF Answered
        <5>4. QED
          BY <1>2, <2>2, <4>1, <5>1, <5>3 DEF Answered
      <4>2. CASE s # r
        BY <1>2, <1>3, <2>2, <3>2, <3>5, <4>2 DEF CheckoutTypes, AnswersAreOwn, Answered
      <4>3. QED
        BY <4>1, <4>2
    <3>6. QED
      BY <3>3, <3>4, <3>5, <3>7 DEF AnswersAreOwn
  <2>3. QED
    BY <1>4, <2>1, <2>2
<1>10. MarksLive'
  <2>1. step \in Ended \/ (pc[r] = "begin" /\ answer[Key[r]] = None) \/ r \in UnderWay
    BY <1>1, <1>4 DEF Ended, UnderWay
  <2>2. QED
    BY <1>2, <1>4, <1>5, <2>1, MarksStay
<1>11. QED
  BY <1>2, <1>4, <1>5, <1>7, <1>8, <1>9, <1>10, StepKeeps

LEMMA TakeLockKeeps ==
  ASSUME CheckoutInv, NEW r \in Requests, TakeLock(r)
  PROVE  CheckoutInv'
<1>1. /\ CheckoutTypes /\ StepsTaken(r) /\ pc[r] = "lock" /\ LocksAreHeld
      /\ UNCHANGED <<body, answer, bought, verdict, sold, partly, orders, logged, replayed, lost, broken>>
  BY DEF CheckoutInv, TakeLock, stores
<1>2. Key[r] \in Keys /\ lock \in [Keys -> Requests \cup {None}]
  BY <1>1 DEF Keys, CheckoutTypes
<1>3. PICK step \in {"fraud", "again"} :
        /\ Goto(r, step)
        /\ step = "fraud" => lock[Key[r]] = None /\ lock' = [lock EXCEPT ![Key[r]] = r]
        /\ step = "again" => lock' = lock
  BY DEF TakeLock, MayLock
<1>4. step \in Steps
  BY DEF Steps
<1>5. /\ pc'[r] = step /\ pc' \in [Requests -> Steps]
      /\ \A s \in Requests : s # r => pc'[s] = pc[s]
  BY <1>1, <1>3, <1>4, GoneOn
<1>6. CheckoutTypes'
  BY <1>1, <1>2, <1>3, <1>5 DEF CheckoutTypes
<1>7. StepsTaken(r)'
  BY <1>1, <1>5 DEF StepsTaken, Answered, Ordered
<1>8. LocksAreHeld'
  <2>1. CASE step = "again"
    BY <1>1, <1>3, <1>4, <2>1, LocksStay
  <2>2. CASE step = "fraud"
    <3>1. lock[Key[r]] = None /\ lock' = [lock EXCEPT ![Key[r]] = r]
      BY <1>3, <2>2
    <3>2. ASSUME NEW s \in Running', s \notin lost PROVE lock'[Key[s]] = s
      <4>1. CASE s = r
        BY <1>2, <3>1, <4>1
      <4>2. CASE s # r
        <5>1. s \in Running /\ s \in Requests
          BY <1>5, <4>2 DEF Running
        <5>2. lock[Key[s]] = s /\ s # None
          BY <1>1, <3>2, <5>1, CheckoutAssumption DEF LocksAreHeld
        <5>3. Key[s] # Key[r] /\ Key[s] \in Keys
          BY <3>1, <5>1, <5>2 DEF Keys
        <5>4. QED
          BY <1>2, <3>1, <5>2, <5>3
      <4>3. QED
        BY <4>1, <4>2
    <3>3. QED
      BY <1>1, <3>2 DEF LocksAreHeld
  <2>3. QED
    BY <1>3, <2>1, <2>2
<1>9. AnswersAreOwn'
  BY <1>1, <1>3, <1>4, AnswersStay DEF Answered
<1>10. MarksLive'
  <2>1. r \in UnderWay
    BY <1>1 DEF UnderWay, Ended
  <2>2. QED
    BY <1>1, <1>3, <1>4, <2>1, MarksStay
<1>11. QED
  BY <1>1, <1>3, <1>4, <1>6, <1>7, <1>8, <1>9, <1>10, StepKeeps

LEMMA InvalidKeeps ==
  ASSUME CheckoutInv, NEW r \in Requests, Invalid(r)
  PROVE  CheckoutInv'
<1>1. /\ CheckoutTypes /\ StepsTaken(r) /\ pc[r] \in {"fraud"}
      /\ UNCHANGED <<body, answer, lock, bought, verdict, sold, partly, orders, logged, replayed, lost, broken>>
  BY DEF CheckoutInv, Invalid, stores
<1>2. PICK step \in {"release"} :
        /\ Goto(r, step)
  BY DEF Invalid, Without
<1>3. step \in Steps /\ step \notin {"sell"}
  BY <1>1 DEF CheckoutTypes, Steps, Ended
<1>4. /\ pc'[r] = step /\ pc' \in [Requests -> Steps]
      /\ \A s \in Requests : s # r => pc'[s] = pc[s]
  BY <1>1, <1>2, <1>3, GoneOn
<1>5. CheckoutTypes'
  BY <1>1, <1>2, <1>3, <1>4 DEF CheckoutTypes
<1>6. Ordered' = Ordered
  BY <1>1 DEF Ordered
<1>7. StepsTaken(r)'
  BY <1>1, <1>2, <1>4, <1>6 DEF StepsTaken, Answered
<1>8. r \in Running /\ r \in UnderWay
  BY <1>1 DEF Running, UnderWay, Ended
<1>9. LocksAreHeld'
  BY <1>1, <1>2, <1>3, <1>8, LocksStay
<1>10. AnswersAreOwn' /\ MarksLive'
  BY <1>1, <1>2, <1>3, <1>8, AnswersStay, MarksStay DEF Answered
<1>11. QED
  BY <1>1, <1>2, <1>3, <1>5, <1>7, <1>9, <1>10, StepKeeps

LEMMA SellKeeps ==
  ASSUME CheckoutInv, NEW r \in Requests, Sell(r)
  PROVE  CheckoutInv'
<1>1. /\ CheckoutTypes /\ StepsTaken(r) /\ pc[r] \in {"sell"}
      /\ UNCHANGED <<body, answer, lock, bought, verdict, orders, logged, replayed, lost, broken>>
  BY DEF CheckoutInv, Sell, stores
<1>2. PICK step \in {"insert", "release"} :
        /\ Goto(r, step)
        /\ step = "insert" => sold' = sold \cup {r} /\ partly' = partly
        /\ step = "release" => sold' = sold /\ partly' \in {partly, partly \cup {r}}
  BY DEF Sell, Without
<1>3. step \in Steps /\ step \notin {"sell"}
  BY <1>1 DEF CheckoutTypes, Steps, Ended
<1>4. /\ pc'[r] = step /\ pc' \in [Requests -> Steps]
      /\ \A s \in Requests : s # r => pc'[s] = pc[s]
  BY <1>1, <1>2, <1>3, GoneOn
<1>5. CheckoutTypes'
  BY <1>1, <1>2, <1>3, <1>4 DEF CheckoutTypes
<1>6. Ordered' = Ordered
  BY <1>1 DEF Ordered
<1>7. StepsTaken(r)'
  BY <1>1, <1>2, <1>4, <1>6 DEF StepsTaken, Answered
<1>8. r \in Running /\ r \in UnderWay
  BY <1>1 DEF Running, UnderWay, Ended
<1>9. LocksAreHeld'
  BY <1>1, <1>2, <1>3, <1>8, LocksStay
<1>10. AnswersAreOwn' /\ MarksLive'
  BY <1>1, <1>2, <1>3, <1>8, AnswersStay, MarksStay DEF Answered
<1>11. QED
  BY <1>1, <1>2, <1>3, <1>5, <1>7, <1>9, <1>10, StepKeeps

LEMMA UnsellKeeps ==
  ASSUME CheckoutInv, NEW r \in Requests, Unsell(r)
  PROVE  CheckoutInv'
<1>1. /\ CheckoutTypes /\ StepsTaken(r) /\ pc[r] \in {"unsell"}
      /\ UNCHANGED <<body, answer, lock, bought, verdict, partly, orders, logged, replayed, lost, broken>>
  BY DEF CheckoutInv, Unsell, stores
<1>2. PICK step \in {"release"} :
        /\ Goto(r, step)
        /\ sold' = sold \ {r}
  BY DEF Unsell, Without
<1>3. step \in Steps /\ step \notin {"sell"}
  BY <1>1 DEF CheckoutTypes, Steps, Ended
<1>4. /\ pc'[r] = step /\ pc' \in [Requests -> Steps]
      /\ \A s \in Requests : s # r => pc'[s] = pc[s]
  BY <1>1, <1>2, <1>3, GoneOn
<1>5. CheckoutTypes'
  BY <1>1, <1>2, <1>3, <1>4 DEF CheckoutTypes
<1>6. Ordered' = Ordered
  BY <1>1 DEF Ordered
<1>7. StepsTaken(r)'
  BY <1>1, <1>2, <1>4, <1>6 DEF StepsTaken, Answered
<1>8. r \in Running /\ r \in UnderWay
  BY <1>1 DEF Running, UnderWay, Ended
<1>9. LocksAreHeld'
  BY <1>1, <1>2, <1>3, <1>8, LocksStay
<1>10. AnswersAreOwn' /\ MarksLive'
  BY <1>1, <1>2, <1>3, <1>8, AnswersStay, MarksStay DEF Answered
<1>11. QED
  BY <1>1, <1>2, <1>3, <1>5, <1>7, <1>9, <1>10, StepKeeps

LEMMA BreakOffKeeps ==
  ASSUME CheckoutInv, NEW r \in Requests, BreakOff(r)
  PROVE  CheckoutInv'
<1>1. /\ CheckoutTypes /\ StepsTaken(r) /\ pc[r] \in {"log", "mark"}
      /\ UNCHANGED <<body, answer, lock, bought, verdict, sold, partly, orders, logged, replayed, lost>>
  BY DEF CheckoutInv, BreakOff, stores
<1>2. PICK step \in {"release"} :
        /\ Goto(r, step)
        /\ broken' = broken \cup {r}
  BY DEF BreakOff, Without
<1>3. step \in Steps /\ step \notin {"sell"}
  BY <1>1 DEF CheckoutTypes, Steps, Ended
<1>4. /\ pc'[r] = step /\ pc' \in [Requests -> Steps]
      /\ \A s \in Requests : s # r => pc'[s] = pc[s]
  BY <1>1, <1>2, <1>3, GoneOn
<1>5. CheckoutTypes'
  BY <1>1, <1>2, <1>3, <1>4 DEF CheckoutTypes
<1>6. Ordered' = Ordered
  BY <1>1 DEF Ordered
<1>7. StepsTaken(r)'
  BY <1>1, <1>2, <1>4, <1>6 DEF StepsTaken, Answered
<1>8. r \in Running /\ r \in UnderWay
  BY <1>1 DEF Running, UnderWay, Ended
<1>9. LocksAreHeld'
  BY <1>1, <1>2, <1>3, <1>8, LocksStay
<1>10. AnswersAreOwn' /\ MarksLive'
  BY <1>1, <1>2, <1>3, <1>8, AnswersStay, MarksStay DEF Answered
<1>11. QED
  BY <1>1, <1>2, <1>3, <1>5, <1>7, <1>9, <1>10, StepKeeps

LEMMA LogKeeps ==
  ASSUME CheckoutInv, NEW r \in Requests, Log(r)
  PROVE  CheckoutInv'
<1>1. /\ CheckoutTypes /\ StepsTaken(r) /\ pc[r] \in {"log"}
      /\ UNCHANGED <<body, answer, lock, bought, verdict, sold, partly, orders, replayed, lost, broken>>
  BY DEF CheckoutInv, Log, stores
<1>2. PICK step \in {"mark"} :
        /\ Goto(r, step)
        /\ logged' = logged \cup {r}
  BY DEF Log, Without
<1>3. step \in Steps /\ step \notin {"sell"}
  BY <1>1 DEF CheckoutTypes, Steps, Ended
<1>4. /\ pc'[r] = step /\ pc' \in [Requests -> Steps]
      /\ \A s \in Requests : s # r => pc'[s] = pc[s]
  BY <1>1, <1>2, <1>3, GoneOn
<1>5. CheckoutTypes'
  BY <1>1, <1>2, <1>3, <1>4 DEF CheckoutTypes
<1>6. Ordered' = Ordered
  BY <1>1 DEF Ordered
<1>7. StepsTaken(r)'
  BY <1>1, <1>2, <1>4, <1>6 DEF StepsTaken, Answered
<1>8. r \in Running /\ r \in UnderWay
  BY <1>1 DEF Running, UnderWay, Ended
<1>9. LocksAreHeld'
  BY <1>1, <1>2, <1>3, <1>8, LocksStay
<1>10. AnswersAreOwn' /\ MarksLive'
  BY <1>1, <1>2, <1>3, <1>8, AnswersStay, MarksStay DEF Answered
<1>11. QED
  BY <1>1, <1>2, <1>3, <1>5, <1>7, <1>9, <1>10, StepKeeps

LEMMA MarkBoughtKeeps ==
  ASSUME CheckoutInv, NEW r \in Requests, MarkBought(r)
  PROVE  CheckoutInv'
<1>1. /\ CheckoutTypes /\ StepsTaken(r) /\ pc[r] \in {"mark"}
      /\ UNCHANGED <<body, answer, lock, verdict, sold, partly, orders, logged, replayed, lost, broken>>
  BY DEF CheckoutInv, MarkBought, stores
<1>2. PICK step \in {"store"} :
        /\ Goto(r, step)
        /\ bought' = bought \cup {body[r]}
  BY DEF MarkBought, Without
<1>3. step \in Steps /\ step \notin {"sell"}
  BY <1>1 DEF CheckoutTypes, Steps, Ended
<1>4. /\ pc'[r] = step /\ pc' \in [Requests -> Steps]
      /\ \A s \in Requests : s # r => pc'[s] = pc[s]
  BY <1>1, <1>2, <1>3, GoneOn
<1>5. CheckoutTypes'
  BY <1>1, <1>2, <1>3, <1>4 DEF CheckoutTypes
<1>6. Ordered' = Ordered
  BY <1>1 DEF Ordered
<1>7. StepsTaken(r)'
  BY <1>1, <1>2, <1>4, <1>6 DEF StepsTaken, Answered
<1>8. r \in Running /\ r \in UnderWay
  BY <1>1 DEF Running, UnderWay, Ended
<1>9. LocksAreHeld'
  BY <1>1, <1>2, <1>3, <1>8, LocksStay
<1>10. AnswersAreOwn' /\ MarksLive'
  BY <1>1, <1>2, <1>3, <1>8, AnswersStay, MarksStay DEF Answered
<1>11. QED
  BY <1>1, <1>2, <1>3, <1>5, <1>7, <1>9, <1>10, StepKeeps

(* The duplicate rule alone rejects.                                        *)
LEMMA DuplicateIsRejected ==
  ASSUME NEW rules, rules = {Rule(85, "reject")}
  PROVE  Verdict(rules) = Rule(85, "reject")
<1> DEFINE rule == Rule(85, "reject")
<1>1. rules = {rule}
  OBVIOUS
<1>2. rule.priority = 85 /\ rule.action = "reject"
  BY DEF Rule
<1> HIDE DEF rule
<1>3. {m \in rules : \A n \in rules : n.priority <= m.priority} = {rule}
  BY <1>1, <1>2
<1>4. Verdict(rules) = (CHOOSE m \in {rule} : \A n \in {rule} : Rank[n.action] <= Rank[m.action])
  BY <1>1, <1>3 DEF Verdict
<1>5. Rank["reject"] <= Rank["reject"]
  BY DEF Rank
<1>6. (CHOOSE m \in {rule} : \A n \in {rule} : Rank[n.action] <= Rank[m.action]) = rule
  BY <1>2, <1>5
<1>7. QED
  BY <1>4, <1>6 DEF rule

LEMMA VerdictType ==
  ASSUME NEW burst \in BOOLEAN, NEW dup \in BOOLEAN
  PROVE  Verdict(VelocityRule(burst) \cup DuplicateRule(dup)) \in Judged
<1> DEFINE rules == VelocityRule(burst) \cup DuplicateRule(dup)
           top == {m \in rules : \A n \in rules : n.priority <= m.priority}
           Strongest(m) == \A n \in top : Rank[n.action] <= Rank[m.action]
<1>1. \A m \in rules : m \in {Rule(90, "manual_review"), Rule(85, "reject")}
  BY DEF VelocityRule, DuplicateRule
<1>2. /\ Rule(90, "manual_review").priority = 90 /\ Rule(90, "manual_review").action = "manual_review"
      /\ Rule(85, "reject").priority = 85 /\ Rule(85, "reject").action = "reject"
  BY DEF Rule
<1>3. Rank["manual_review"] = 2 /\ Rank["reject"] = 3
  BY DEF Rank
<1> HIDE DEF rules
<1>4. CASE rules = {}
  BY <1>4 DEF Verdict, Judged, rules
<1>5. CASE rules # {}
  <2>1. \E m \in top : Strongest(m)
    BY <1>1, <1>2, <1>3, <1>5
  <2>2. PICK m : m = CHOOSE x \in top : Strongest(x)
    OBVIOUS
  <2>3. m \in top
    BY <2>1, <2>2
  <2>4. m \in Judged
    BY <1>1, <2>3 DEF Judged
  <2>5. Verdict(rules) = m
    BY <1>5, <2>2 DEF Verdict
  <2>6. QED
    BY <2>4, <2>5 DEF rules
<1>6. QED
  BY <1>4, <1>5

(* A burst outranks it.                                                     *)
LEMMA OverrulesDuplicate ==
  ASSUME NEW rules, Rule(90, "manual_review") \in rules,
         \A m \in rules : m = Rule(90, "manual_review") \/ m = Rule(85, "reject")
  PROVE  Verdict(rules) = Rule(90, "manual_review")
<1> DEFINE rule == Rule(90, "manual_review")
<1>1. rule \in rules /\ \A m \in rules : m = rule \/ m = Rule(85, "reject")
  OBVIOUS
<1>2. rule.priority = 90 /\ rule.action = "manual_review" /\ Rule(85, "reject").priority = 85
  BY DEF Rule
<1> HIDE DEF rule
<1>3. {m \in rules : \A n \in rules : n.priority <= m.priority} = {rule}
  BY <1>1, <1>2
<1>4. Verdict(rules) = (CHOOSE m \in {rule} : \A n \in {rule} : Rank[n.action] <= Rank[m.action])
  BY <1>1, <1>3 DEF Verdict
<1>5. Rank["manual_review"] <= Rank["manual_review"]
  BY DEF Rank
<1>6. (CHOOSE m \in {rule} : \A n \in {rule} : Rank[n.action] <= Rank[m.action]) = rule
  BY <1>2, <1>5
<1>7. QED
  BY <1>4, <1>6 DEF rule

LEMMA JudgeKeeps ==
  ASSUME CheckoutInv, NEW r \in Requests, Judge(r)
  PROVE  CheckoutInv'
<1>1. /\ CheckoutTypes /\ pc[r] = "fraud" /\ FirstToOrder /\ OrdersHaveCause /\ LocksAreHeld /\ MarksLive
      /\ UNCHANGED <<body, answer, lock, bought, sold, partly, orders, logged, replayed, lost, broken>>
      /\ \A s \in Requests : StepsTaken(s)
  BY DEF CheckoutInv, Judge
<1> DEFINE Found(burst) == Verdict(VelocityRule(burst) \cup DuplicateRule(body[r] \in bought))
<1>2. PICK v : /\ v \in {Found(burst) : burst \in BOOLEAN} \cup {Error, Allow}
               /\ FraudEnabled => v \in {Found(burst) : burst \in BOOLEAN} \cup {Error}
               /\ verdict' = [verdict EXCEPT ![r] = v]
               /\ Goto(r, IF v.action = "reject" THEN "release" ELSE "sell")
  BY DEF Judge, Judgements
<1>3. v \in Judged
  <2>1. (body[r] \in bought) \in BOOLEAN
    OBVIOUS
  <2>2. \A burst \in BOOLEAN : Found(burst) \in Judged
    BY <2>1, VerdictType
  <2> HIDE DEF Found
  <2>3. QED
    BY <1>2, <2>2 DEF Judged
<1>4. PICK step \in {"release", "sell"} : Goto(r, step) /\ (v.action = "reject" => step = "release")
  BY <1>2
<1>5. step \in Steps
  BY DEF Steps
<1>6. /\ pc'[r] = step /\ pc' \in [Requests -> Steps]
      /\ \A s \in Requests : s # r => pc'[s] = pc[s]
  BY <1>1, <1>4, <1>5, GoneOn
<1>7. /\ verdict' \in [Requests -> Judged] /\ verdict'[r] = v
      /\ \A s \in Requests : s # r => verdict'[s] = verdict[s]
  BY <1>1, <1>2, <1>3 DEF CheckoutTypes
<1>8. CheckoutTypes'
  BY <1>1, <1>6, <1>7 DEF CheckoutTypes
<1>9. Ordered' = Ordered /\ r \notin Ordered /\ r \notin sold
  BY <1>1 DEF Ordered, StepsTaken
<1>10. ASSUME NEW s \in Requests PROVE StepsTaken(s)'
  <2>1. CASE s = r
    BY <1>1, <1>4, <1>6, <1>9, <2>1 DEF StepsTaken, Answered
  <2>2. CASE s # r
    BY <1>1, <1>6, <1>9, <2>2, OthersStay
  <2>3. QED
    BY <2>1, <2>2
<1>11. r \in Running
  BY <1>1 DEF Running, Ended
<1>12. LocksAreHeld' /\ AnswersAreOwn' /\ MarksLive'
  <2>1. r \in UnderWay
    BY <1>1 DEF UnderWay, Ended
  <2>2. QED
    BY <1>1, <1>4, <1>5, <1>11, <2>1, LocksStay, AnswersStay, MarksStay DEF Answered
<1>13. FirstToOrder'
  <2>1. ASSUME FraudEnabled, NEW t \in Requests, pc'[t] \in {"sell", "insert"}, ~Excused(t)',
               NEW s \in Ordered, Alike(s, t)
        PROVE  s \in lost \cup broken
    <3>1. CASE t # r
      <4>1. pc[t] \in {"sell", "insert"} /\ ~Excused(t)
        BY <1>1, <1>6, <1>7, <2>1, <3>1 DEF Excused
      <4>2. QED
        BY <1>1, <2>1, <4>1 DEF FirstToOrder
    <3>2. CASE t = r
      <4>1. v # Error /\ ~(v.priority > 85) /\ v.action # "reject" /\ r \notin lost
        BY <1>1, <1>4, <1>6, <1>7, <2>1, <3>2 DEF Excused
      <4>2. body[r] \notin bought
        <5>1. Rule(90, "manual_review").priority = 90 /\ Rule(85, "reject").action = "reject"
          BY DEF Rule
        <5>2. Found(TRUE) = Rule(90, "manual_review")
          <6> DEFINE rules == VelocityRule(TRUE) \cup DuplicateRule(body[r] \in bought)
          <6>1. /\ Rule(90, "manual_review") \in rules
                /\ \A m \in rules : m = Rule(90, "manual_review") \/ m = Rule(85, "reject")
            BY DEF VelocityRule, DuplicateRule
          <6> HIDE DEF rules
          <6>2. Verdict(rules) = Rule(90, "manual_review")
            BY <6>1, OverrulesDuplicate
          <6>3. QED
            BY <6>2 DEF rules
        <5>3. ASSUME body[r] \in bought PROVE Found(FALSE) = Rule(85, "reject")
          <6>1. VelocityRule(FALSE) \cup DuplicateRule(body[r] \in bought) = {Rule(85, "reject")}
            BY <5>3 DEF VelocityRule, DuplicateRule
          <6>2. QED
            BY <6>1, DuplicateIsRejected
        <5> HIDE DEF Found
        <5>4. v = Found(TRUE) \/ v = Found(FALSE)
          BY <1>2, <2>1, <4>1
        <5>5. CASE v = Found(TRUE)
          <6>1. v.priority = 90
            BY <5>1, <5>2, <5>5
          <6>2. QED
            BY <4>1, <6>1
        <5>6. CASE v = Found(FALSE)
          <6>1. body[r] \in bought => v.action = "reject"
            BY <5>1, <5>3, <5>6
          <6>2. QED
            BY <4>1, <6>1
        <5>7. QED
          BY <5>4, <5>5, <5>6
      <4>3. SUFFICES ASSUME s \notin lost, s \notin broken PROVE FALSE
        OBVIOUS
      <4>4. s \in Requests /\ s # r
        BY <1>1, <1>9 DEF Ordered, CheckoutTypes
      <4>5. s \notin Running
        BY <1>1, <1>11, <2>1, <3>2, <4>1, <4>3, <4>4 DEF LocksAreHeld, Alike
      <4>6. pc[s] \in Ended \cup {"begin", "lock", "again"}
        BY <4>4, <4>5 DEF Running
      <4>7. Answered(s)
        BY <1>1, <4>3, <4>4, <4>6 DEF Ended, StepsTaken, Answered
      <4>8. body[s] \in bought
        <5>1. r \in UnderWay
          BY <1>1 DEF UnderWay, Ended
        <5>2. QED
          BY <1>1, <2>1, <3>2, <4>1, <4>3, <4>4, <4>7, <5>1 DEF MarksLive
      <4>9. QED
        BY <2>1, <3>2, <4>2, <4>8 DEF Alike
    <3>3. QED
      BY <3>1, <3>2
  <2>2. QED
    BY <1>1, <1>9, <2>1 DEF FirstToOrder, Alike
<1>14. OrdersHaveCause'
  <2>1. \A i \in DOMAIN orders : orders[i] \in Requests /\ orders[i] # r
    BY <1>1, <1>9 DEF CheckoutTypes, Ordered
  <2>2. \A i \in DOMAIN orders : Excused(orders[i]) => Excused(orders[i])'
    BY <1>1, <1>7, <2>1 DEF Excused
  <2>3. QED
    BY <1>1, <2>2 DEF OrdersHaveCause, Alike
<1>15. QED
  BY <1>8, <1>10, <1>12, <1>13, <1>14 DEF CheckoutInv

(* An order more: it has a cause, or it is the first of its kind that no    *)
(* fault has touched.                                                       *)
LEMMA InsertKeeps ==
  ASSUME CheckoutInv, NEW r \in Requests, Insert(r)
  PROVE  CheckoutInv'
<1>1. /\ CheckoutTypes /\ pc[r] = "insert" /\ FirstToOrder /\ OrdersHaveCause /\ LocksAreHeld
      /\ UNCHANGED <<body, answer, lock, bought, verdict, sold, partly, logged, replayed, lost>>
      /\ \A s \in Requests : StepsTaken(s)
  BY DEF CheckoutInv, Insert
<1>2. PICK step \in {"log", "unsell"} :
        /\ Goto(r, step)
        /\ \/ orders' = orders /\ broken' = broken /\ step = "unsell"
           \/ orders' = Append(orders, r) /\ broken' = broken /\ step = "log"
           \/ orders' = Append(orders, r) /\ broken' = broken \cup {r}
  BY DEF Insert
<1>3. step \in Steps
  BY DEF Steps
<1>4. /\ pc'[r] = step /\ pc' \in [Requests -> Steps]
      /\ \A s \in Requests : s # r => pc'[s] = pc[s]
  BY <1>1, <1>2, <1>3, GoneOn
<1>5. r \in Running
  BY <1>1 DEF Running, Ended
<1>6. LocksAreHeld' /\ AnswersAreOwn' /\ MarksLive'
  <2>1. r \in UnderWay
    BY <1>1 DEF UnderWay, Ended
  <2>2. broken \subseteq broken'
    BY <1>2
  <2>3. QED
    BY <1>1, <1>2, <1>3, <1>5, <2>1, LocksStay, AnswersStay, MarksStay DEF Answered
<1>7. r \in sold /\ r \notin partly /\ r \notin Ordered /\ orders \in Seq(Requests)
  BY <1>1 DEF StepsTaken, CheckoutTypes
<1>8. CASE orders' = orders /\ broken' = broken /\ step = "unsell"
  <2>1. CheckoutTypes'
    BY <1>1, <1>4, <1>8 DEF CheckoutTypes
  <2>2. StepsTaken(r)'
    BY <1>1, <1>4, <1>7, <1>8 DEF StepsTaken, Answered, Ordered
  <2>3. QED
    BY <1>1, <1>2, <1>3, <1>6, <1>8, <2>1, <2>2, StepKeeps
<1>9. CASE orders' = Append(orders, r) /\ broken \subseteq broken' /\ broken' \subseteq broken \cup {r}
           /\ (step = "unsell" => r \in broken')
  <2>1. /\ orders' \in Seq(Requests) /\ Len(orders) \in Nat /\ DOMAIN orders = 1 .. Len(orders)
        /\ DOMAIN orders' = 1 .. Len(orders) + 1 /\ orders'[Len(orders) + 1] = r
        /\ \A i \in DOMAIN orders : orders'[i] = orders[i]
    BY <1>7, <1>9, AppendProperties, LenProperties
  <2>2. \A i \in DOMAIN orders' : i \in DOMAIN orders \/ i = Len(orders) + 1
    BY <2>1
  <2>3. Ordered' = Ordered \cup {r}
    BY <2>1, <2>2 DEF Ordered
  <2>4. CheckoutTypes'
    BY <1>1, <1>4, <1>9, <2>1 DEF CheckoutTypes
  <2>5. ASSUME NEW s \in Requests PROVE StepsTaken(s)'
    <3>1. CASE s = r
      BY <1>1, <1>2, <1>4, <1>7, <1>9, <2>3, <3>1 DEF StepsTaken, Answered
    <3>2. CASE s # r
      BY <1>1, <1>4, <1>9, <2>3, <3>2, OthersStay
    <3>3. QED
      BY <3>1, <3>2
  <2>6. FirstToOrder'
    <3>1. ASSUME FraudEnabled, NEW t \in Requests, pc'[t] \in {"sell", "insert"}, ~Excused(t)',
                 NEW s \in Ordered \cup {r}, Alike(s, t)
          PROVE  s \in lost \cup broken'
      <4>1. t # r /\ pc[t] \in {"sell", "insert"} /\ ~Excused(t)
        BY <1>1, <1>2, <1>4, <3>1 DEF Excused
      <4>2. CASE s = r
        <5>1. t \in Running /\ t \notin lost
          BY <4>1 DEF Running, Ended, Excused
        <5>2. Key[r] = Key[t]
          BY <3>1, <4>2 DEF Alike
        <5>3. r \in lost
          BY <1>1, <1>5, <4>1, <5>1, <5>2 DEF LocksAreHeld
        <5>4. QED
          BY <4>2, <5>3
      <4>3. CASE s # r
        BY <1>1, <1>9, <3>1, <4>1, <4>3 DEF FirstToOrder
      <4>4. QED
        BY <4>2, <4>3
    <3>2. QED
      BY <1>1, <2>3, <3>1 DEF FirstToOrder, Alike
  <2>7. OrdersHaveCause'
    <3>1. ASSUME FraudEnabled, NEW i \in DOMAIN orders', NEW j \in DOMAIN orders', i < j, Alike(orders'[i], orders'[j])
          PROVE  orders'[i] \in lost \cup broken' \/ Excused(orders[j])'
      <4>1. i \in DOMAIN orders
        BY <2>1, <2>2, <3>1
      <4>2. CASE j = Len(orders) + 1
        <5>1. orders'[j] = r /\ orders'[i] \in Ordered
          BY <2>1, <4>1, <4>2 DEF Ordered
        <5>2. Excused(r) => Excused(orders[j])'
          BY <1>1, <5>1 DEF Excused
        <5>3. ~Excused(r) => orders'[i] \in lost \cup broken
          BY <1>1, <3>1, <5>1 DEF FirstToOrder
        <5>4. QED
          BY <1>9, <5>2, <5>3
      <4>3. CASE j \in DOMAIN orders
        <5>1. orders[i] \in lost \cup broken \/ Excused(orders[j])
          BY <1>1, <2>1, <3>1, <4>1, <4>3 DEF OrdersHaveCause
        <5>2. Excused(orders[j]) => Excused(orders[j])'
          BY <1>1, <2>1, <4>3 DEF Excused
        <5>3. QED
          BY <1>9, <2>1, <4>1, <4>3, <5>1, <5>2
      <4>4. QED
        BY <2>2, <4>2, <4>3
    <3>2. QED
      BY <1>1, <3>1 DEF OrdersHaveCause, Alike
  <2>8. QED
    BY <1>6, <2>4, <2>5, <2>6, <2>7 DEF CheckoutInv
<1>10. QED
  BY <1>2, <1>8, <1>9

LEMMA StoreKeeps ==
  ASSUME CheckoutInv, NEW r \in Requests, Store(r)
  PROVE  CheckoutInv'
<1>1. /\ CheckoutTypes /\ StepsTaken(r) /\ pc[r] = "store" /\ AnswersAreOwn
      /\ UNCHANGED <<body, lock, bought, verdict, sold, partly, orders, logged, replayed, lost>>
  BY DEF CheckoutInv, Store, stores
<1>2. PICK step \in {"unlock", "unanswered"} :
        /\ Goto(r, step)
        /\ step = "unlock" => answer' = [answer EXCEPT ![Key[r]] = r] /\ broken' = broken
        /\ step = "unanswered" => answer' = answer /\ broken' = broken \cup {r}
  BY DEF Store
<1>3. step \in Steps /\ Key[r] \in Keys
  BY <1>1 DEF CheckoutTypes, Steps, Ended, Keys
<1>4. /\ pc'[r] = step /\ pc' \in [Requests -> Steps]
      /\ \A s \in Requests : s # r => pc'[s] = pc[s]
  BY <1>1, <1>2, <1>3, GoneOn
<1>5. CheckoutTypes'
  BY <1>1, <1>2, <1>3, <1>4 DEF CheckoutTypes
<1>6. Ordered' = Ordered
  BY <1>1 DEF Ordered
<1>7. StepsTaken(r)'
  BY <1>1, <1>2, <1>4, <1>6 DEF StepsTaken, Answered
<1>8. r \in Running
  BY <1>1 DEF Running, Ended
<1>9. LocksAreHeld' /\ MarksLive'
  <2>1. r \in UnderWay
    BY <1>1 DEF UnderWay, Ended
  <2>2. QED
    BY <1>1, <1>2, <1>3, <1>8, <2>1, LocksStay, MarksStay
<1>10. AnswersAreOwn'
  <2>1. \A s \in Requests : Answered(s) => Answered(s)'
    BY <1>1, <1>4 DEF Answered
  <2>2. \A k \in Keys : answer'[k] = answer[k] \/ (answer'[k] = r /\ step = "unlock")
    BY <1>1, <1>2, <1>3 DEF CheckoutTypes
  <2>3. step = "unlock" => Answered(r)'
    BY <1>4 DEF Answered
  <2>4. ASSUME NEW k \in Keys, answer'[k] # None PROVE Answered(answer[k])'
    <3>1. CASE answer'[k] = answer[k]
      <4>1. answer[k] \in Requests /\ Answered(answer[k])
        BY <1>1, <2>4, <3>1 DEF CheckoutTypes, AnswersAreOwn
      <4>2. pc'[answer'[k]] \in {"unlock", "done"}
        BY <2>1, <3>1, <4>1 DEF Answered
      <4>3. QED
        BY <4>2 DEF Answered
    <3>2. CASE answer'[k] = r /\ step = "unlock"
      BY <1>4, <3>2 DEF Answered
    <3>3. QED
      BY <2>2, <3>1, <3>2
  <2>5. \A s \in Requests : replayed'[s] # None => Answered(replayed[s])' /\ body'[replayed'[s]] = body'[s]
    BY <1>1, <2>1 DEF CheckoutTypes, AnswersAreOwn
  <2>6. ASSUME NEW s \in Requests, Answered(s)' PROVE answer'[Key[s]] # None
    <3>1. Key[s] \in Keys /\ (s = r => step = "unlock") /\ (s # r => Answered(s))
      BY <1>2, <1>4, <2>6 DEF Keys, Answered
    <3>2. QED
      BY <1>1, <1>2, <1>3, <2>2, <3>1, CheckoutAssumption DEF AnswersAreOwn, CheckoutTypes
  <2>7. QED
    BY <2>4, <2>5, <2>6 DEF AnswersAreOwn
<1>11. QED
  BY <1>1, <1>2, <1>3, <1>5, <1>7, <1>9, <1>10, StepKeeps

(* Whoever still runs with the lock that goes has lost it.                  *)
LEMMA UnlockKeeps ==
  ASSUME CheckoutInv, NEW r \in Requests, Unlock(r)
  PROVE  CheckoutInv'
<1>1. /\ CheckoutTypes /\ StepsTaken(r) /\ pc[r] \in {"unlock", "release"} /\ LocksAreHeld
      /\ UNCHANGED <<body, answer, bought, verdict, sold, partly, orders, logged, replayed, broken>>
      /\ lock' = [lock EXCEPT ![Key[r]] = None] /\ lost' = lost \cup ({lock[Key[r]]} \ {r, None})
  BY DEF CheckoutInv, Unlock, stores
<1>2. PICK step \in {"done", "failed"} :
        Goto(r, step) /\ (step = "done") = (pc[r] = "unlock")
  BY <1>1 DEF Unlock
<1>3. step \in Steps /\ Key[r] \in Keys
  BY <1>1 DEF CheckoutTypes, Steps, Ended, Keys
<1>4. /\ pc'[r] = step /\ pc' \in [Requests -> Steps]
      /\ \A s \in Requests : s # r => pc'[s] = pc[s]
  BY <1>1, <1>2, <1>3, GoneOn
<1>5. lock[Key[r]] \in Requests \cup {None} /\ lost' \subseteq Requests
  BY <1>1, <1>3 DEF CheckoutTypes
<1>6. CheckoutTypes'
  BY <1>1, <1>3, <1>4, <1>5 DEF CheckoutTypes
<1>7. StepsTaken(r)'
  BY <1>1, <1>2, <1>4 DEF StepsTaken, Answered, Ordered
<1>8. LocksAreHeld'
  <2>1. ASSUME NEW s \in Running', s \notin lost' PROVE lock'[Key[s]] = s
    <3>1. s # r /\ s \in Running /\ s \in Requests /\ s \notin lost
      BY <1>1, <1>2, <1>4, <2>1 DEF Running, Ended
    <3>2. lock[Key[s]] = s /\ Key[s] \in Keys
      BY <1>1, <3>1 DEF LocksAreHeld, Keys
    <3>3. Key[s] # Key[r]
      BY <1>1, <2>1, <3>1, <3>2, CheckoutAssumption
    <3>4. QED
      BY <1>1, <3>2, <3>3 DEF CheckoutTypes
  <2>2. QED
    BY <2>1 DEF LocksAreHeld
<1>9. AnswersAreOwn'
  BY <1>1, <1>2, <1>3, AnswersStay DEF Answered
<1>10. MarksLive'
  BY <1>1, <1>2, <1>3, MarksStay DEF Answered, Ended
<1>11. QED
  BY <1>1, <1>2, <1>3, <1>6, <1>7, <1>8, <1>9, <1>10, StepKeeps

LEMMA LockExpiresKeeps ==
  ASSUME CheckoutInv, LockExpires
  PROVE  CheckoutInv'
<1>1. PICK k \in Keys : /\ lock[k] # None /\ lock' = [lock EXCEPT ![k] = None]
                        /\ lost' = lost \cup {lock[k]}
  BY DEF LockExpires
<1>2. /\ CheckoutTypes /\ LocksAreHeld /\ AnswersAreOwn
      /\ UNCHANGED <<pc, body, answer, bought, verdict, sold, partly, orders, logged, replayed, broken>>
      /\ \A s \in Requests : StepsTaken(s)
  BY DEF CheckoutInv, LockExpires, stores
<1>3. lock \in [Keys -> Requests \cup {None}] /\ lock[k] \in Requests
  BY <1>1, <1>2 DEF CheckoutTypes
<1>4. CheckoutTypes'
  BY <1>1, <1>2, <1>3 DEF CheckoutTypes
<1>5. LocksAreHeld'
  <2>1. ASSUME NEW s \in Running', s \notin lost' PROVE lock'[Key[s]] = s
    <3>1. s \in Running /\ s \in Requests /\ s \notin lost
      BY <1>1, <1>2, <2>1 DEF Running
    <3>2. lock[Key[s]] = s /\ Key[s] \in Keys
      BY <1>2, <3>1 DEF LocksAreHeld, Keys
    <3>3. Key[s] # k
      BY <1>1, <2>1, <3>2
    <3>4. QED
      BY <1>1, <1>3, <3>2, <3>3
  <2>2. QED
    BY <2>1 DEF LocksAreHeld
<1>6. AnswersAreOwn'
  BY <1>2 DEF AnswersAreOwn, Answered
<1>7. \A s \in Requests : StepsTaken(s)'
  BY <1>2 DEF StepsTaken, Answered, Ordered
<1>8. FirstToOrder' /\ OrdersHaveCause'
  BY <1>1, <1>2, <1>3, CausesStay
<1>9. MarksLive'
  BY <1>1, <1>2 DEF CheckoutInv, MarksLive, UnderWay, Answered, Alike
<1>10. QED
  BY <1>4, <1>5, <1>6, <1>7, <1>8, <1>9 DEF CheckoutInv

LEMMA MarkExpiresKeeps ==
  ASSUME CheckoutInv, MarkExpires
  PROVE  CheckoutInv'
<1>1. PICK b \in bought : (\A r \in UnderWay \ lost : body[r] # b) /\ bought' = bought \ {b}
  BY DEF MarkExpires
<1>2. /\ CheckoutTypes /\ LocksAreHeld /\ AnswersAreOwn /\ MarksLive
      /\ UNCHANGED <<pc, body, answer, lock, verdict, sold, partly, orders, logged, replayed, lost, broken>>
      /\ \A s \in Requests : StepsTaken(s)
  BY DEF CheckoutInv, MarkExpires
<1>3. CheckoutTypes'
  BY <1>1, <1>2 DEF CheckoutTypes
<1>4. LocksAreHeld' /\ AnswersAreOwn'
  BY <1>2 DEF LocksAreHeld, Running, AnswersAreOwn, Answered
<1>5. \A s \in Requests : StepsTaken(s)'
  BY <1>2 DEF StepsTaken, Answered, Ordered
<1>6. FirstToOrder' /\ OrdersHaveCause'
  BY <1>2, CausesStay
<1>7. MarksLive'
  BY <1>1, <1>2 DEF MarksLive, UnderWay, Answered, Alike
<1>8. QED
  BY <1>3, <1>4, <1>5, <1>6, <1>7 DEF CheckoutInv

LEMMA CheckoutStep ==
  ASSUME CheckoutInv, [CheckoutNext]_checkoutVars
  PROVE  CheckoutInv'
<1>1. CASE UNCHANGED checkoutVars
  BY <1>1 DEF checkoutVars, CheckoutInv, CheckoutTypes, LocksAreHeld, Running, StepsTaken, Answered,
              Ordered, AnswersAreOwn, MarksLive, UnderWay, FirstToOrder, OrdersHaveCause, Excused, Alike
<1>2. QED
  BY <1>1, LookUpKeeps, TakeLockKeeps, InvalidKeeps, JudgeKeeps, SellKeeps,
     InsertKeeps, UnsellKeeps, BreakOffKeeps, LogKeeps, MarkBoughtKeeps, StoreKeeps, UnlockKeeps,
     LockExpiresKeeps, MarkExpiresKeeps DEF CheckoutNext

(* The inductive invariant of the checkout.                                 *)
THEOREM CheckoutInvHolds == CheckoutSpec => []CheckoutInv
<1>1. CheckoutInit => CheckoutInv
  BY CheckoutInitially
<1>2. CheckoutInv /\ [CheckoutNext]_checkoutVars => CheckoutInv'
  BY CheckoutStep
<1>3. QED
  BY <1>1, <1>2, PTL DEF CheckoutSpec

(* The stores have their types, and the lock is with whoever runs with it.  *)
THEOREM CheckoutTypeOKHolds == CheckoutSpec => []CheckoutTypeOK
<1>1. CheckoutInv => CheckoutTypeOK
  BY DEF CheckoutInv, CheckoutTypes, LocksAreHeld, CheckoutTypeOK
<1>2. QED
  BY <1>1, CheckoutInvHolds, PTL

(* Whatever fails, and however the requests of a key overlap: a request     *)
(* that ended holds the stock of its cart exactly if its order is stored,   *)
(* but for an insert that was applied without an acknowledgement, and a     *)
(* part of it only if it was refused.                                       *)
THEOREM SaleMatchesOrderHolds == CheckoutSpec => []SaleMatchesOrder
<1>1. CheckoutInv => SaleMatchesOrder
  <2>1. ASSUME CheckoutInv, NEW r \in Requests, pc[r] \in Ended
        PROVE  /\ (r \in sold <=> r \in Ordered) \/ r \in Ordered \cap broken
               /\ r \in partly => r \notin Ordered
    BY <2>1 DEF CheckoutInv, StepsTaken, Answered, Ended
  <2>2. QED
    BY <2>1 DEF SaleMatchesOrder
<1>2. QED
  BY <1>1, CheckoutInvHolds, PTL

(* A stored answer is replayed to the same cart only, and it is the answer  *)
(* of an order that is completely there.                                    *)
THEOREM ReplayIsOwnOrderHolds == CheckoutSpec => []ReplayIsOwnOrder
<1>1. CheckoutInv => ReplayIsOwnOrder
  <2>1. ASSUME CheckoutInv, NEW r \in Requests, replayed[r] # None
        PROVE  /\ replayed[r] \in Ordered \cap logged \cap sold
               /\ body[replayed[r]] = body[r]
    <3>1. replayed[r] \in Requests /\ Answered(replayed[r]) /\ body[replayed[r]] = body[r]
      BY <2>1 DEF CheckoutInv, CheckoutTypes, AnswersAreOwn
    <3>2. QED
      BY <2>1, <3>1 DEF CheckoutInv, StepsTaken
  <2>2. QED
    BY <2>1 DEF ReplayIsOwnOrder
<1>2. QED
  BY <1>1, CheckoutInvHolds, PTL

(* One key, one cart, two orders: with the fraud check on, never without a  *)
(* lock that went too early, a request that broke off with its order        *)
(* stored, a check that failed, or a rule that outranked the duplicate.     *)
THEOREM SecondOrderHasCauseHolds == CheckoutSpec => []SecondOrderHasCause
<1>1. CheckoutInv => SecondOrderHasCause
  BY DEF CheckoutInv, OrdersHaveCause, Alike, Excused, SecondOrderHasCause
<1>2. QED
  BY <1>1, CheckoutInvHolds, PTL

-----------------------------------------------------------------------------
(* The breaker: the attempts that are still to come once it is open.        *)

Working == {"attempt", "succeeded", "failed", "expire", "trip", "clear", "clearAndNote", "note", "reset"}
CallType == [pc : {"idle", "gate"} \cup Working, gate : 0 .. 2, inside : BOOLEAN,
             tries : 0 .. Retries, count : Nat]
InsideOf(p) == {c \in Callers : Home[c] = p /\ call[c].inside}
Inside == {c \in Callers : call[c].inside}

GuardTypes ==
  /\ call \in [Callers -> CallType] /\ failures \in Nat /\ window \in BOOLEAN
  /\ open \in BOOLEAN /\ notice \in BOOLEAN /\ late \in Nat /\ deaths \in Nat
  /\ window => failures > 0

(* In the bulkhead is who has passed it and has not returned.               *)
BulkheadFirst ==
  /\ \A c \in Callers : /\ call[c].pc = "gate" => call[c].gate \in 1 .. 2
                        /\ call[c].inside = (call[c].pc \in Working
                                             \/ (call[c].pc = "gate" /\ call[c].gate = 2))
  /\ \A p \in Processes : Cardinality(InsideOf(p)) <= Limit

Left == {a \in Callers \X (0 .. Retries) : call[a[1]].pc = "attempt" /\ a[2] >= call[a[1]].tries}
Shielded == open => late + Cardinality(Left) <= (Cardinality(Processes) * Limit - 1) * (Retries + 1)
Forgotten == deaths = 0 /\ failures > 0 => window \/ \E c \in Callers : call[c].pc = "expire"

GuardInv == GuardTypes /\ BulkheadFirst /\ Shielded /\ Forgotten

LEMMA FinitelyMany ==
  ASSUME GuardTypes
  PROVE  /\ IsFiniteSet(Left) /\ Cardinality(Left) \in Nat
         /\ IsFiniteSet(Processes) /\ Cardinality(Processes) \in Nat
         /\ IsFiniteSet(Inside) /\ \A p : IsFiniteSet(InsideOf(p)) /\ Cardinality(InsideOf(p)) \in Nat
<1>1. IsFiniteSet(Callers) /\ Retries \in Nat
  BY GuardAssumption
<1>2. IsFiniteSet(Callers \X (0 .. Retries))
  <2>1. IsFiniteSet(0 .. Retries)
    BY <1>1, FS_Interval
  <2>2. QED
    BY <1>1, <2>1, FS_Product
<1>3. IsFiniteSet(Left)
  BY <1>2, FS_Subset DEF Left
<1>4. IsFiniteSet(Processes)
  <2> DEFINE f == [c \in Callers |-> Home[c]]
  <2>1. f \in Surjection(Callers, Processes)
    BY DEF Processes, Surjection
  <2>2. QED
    BY <1>1, <2>1, FS_Surjection
<1>5. IsFiniteSet(Inside) /\ \A p : IsFiniteSet(InsideOf(p))
  BY <1>1, FS_Subset DEF Inside, InsideOf
<1>6. QED
  BY <1>3, <1>4, <1>5, FS_CardinalityType

(* What a caller does to its own call: it enters no bulkhead, and makes an  *)
(* attempt of one at most.                                                  *)
LEMMA CallKeeps ==
  ASSUME GuardTypes, BulkheadFirst, NEW c \in Callers, NEW x \in CallType,
         call' = [call EXCEPT ![c] = x], x.inside => call[c].inside,
         x.pc = "gate" => x.gate \in 1 .. 2,
         x.inside = (x.pc \in Working \/ (x.pc = "gate" /\ x.gate = 2))
  PROVE  /\ call' \in [Callers -> CallType] /\ call'[c] = x
         /\ \A d \in Callers : d # c => call'[d] = call[d]
         /\ BulkheadFirst'
         /\ (x.pc = "attempt" => call[c].pc = "attempt" /\ x.tries >= call[c].tries) =>
              /\ Left' \subseteq Left
              /\ Cardinality(Left') \in Nat /\ Cardinality(Left') <= Cardinality(Left)
<1>1. call \in [Callers -> CallType] /\ Retries \in Nat /\ Limit \in Nat
  BY GuardAssumption DEF GuardTypes
<1>2. /\ call' \in [Callers -> CallType] /\ call'[c] = x
      /\ \A d \in Callers : d # c => call'[d] = call[d]
  BY <1>1
<1>3. \A p : InsideOf(p)' \subseteq InsideOf(p)
  <2>1. ASSUME NEW p, NEW d \in InsideOf(p)' PROVE d \in InsideOf(p)
    <3>1. d \in Callers /\ Home[d] = p /\ call'[d].inside
      BY <2>1 DEF InsideOf
    <3>2. call[d].inside
      BY <1>2, <3>1
    <3>3. QED
      BY <3>1, <3>2 DEF InsideOf
  <2>2. QED
    BY <2>1
<1>4. \A p : Cardinality(InsideOf(p)') <= Cardinality(InsideOf(p)) /\ Cardinality(InsideOf(p)') \in Nat
  BY <1>3, FinitelyMany, FS_Subset, FS_CardinalityType
<1>5. BulkheadFirst'
  <2>1. \A p \in Processes : Cardinality(InsideOf(p)') <= Limit
    BY <1>1, <1>4, FinitelyMany DEF BulkheadFirst
  <2>2. ASSUME NEW d \in Callers
        PROVE  /\ call'[d].pc = "gate" => call'[d].gate \in 1 .. 2
               /\ call'[d].inside = (call'[d].pc \in Working
                                     \/ (call'[d].pc = "gate" /\ call'[d].gate = 2))
    BY <1>2 DEF BulkheadFirst
  <2>3. QED
    BY <2>1, <2>2 DEF BulkheadFirst
<1>6. ASSUME x.pc = "attempt" => call[c].pc = "attempt" /\ x.tries >= call[c].tries
      PROVE  Left' \subseteq Left
  <2>1. ASSUME NEW a \in Left' PROVE a \in Left
    <3>1. /\ a \in Callers \X (0 .. Retries) /\ call'[a[1]].pc = "attempt" /\ a[2] >= call'[a[1]].tries
          /\ a[1] \in Callers /\ a[2] \in 0 .. Retries
      BY <2>1 DEF Left
    <3>2. x.tries \in Int /\ call[c].tries \in Int
      BY <1>1 DEF CallType
    <3>3. call[a[1]].pc = "attempt" /\ a[2] >= call[a[1]].tries
      BY <1>2, <1>6, <3>1, <3>2
    <3>4. QED
      BY <3>1, <3>3 DEF Left
  <2>2. QED
    BY <2>1
<1>7. Left' \subseteq Left => Cardinality(Left') \in Nat /\ Cardinality(Left') <= Cardinality(Left)
  BY FinitelyMany, FS_Subset, FS_CardinalityType
<1>8. QED
  BY <1>2, <1>5, <1>6, <1>7

(* Each process lets Limit callers in, so all of them as many times that.   *)
LEMMA BulkheadsTogether ==
  ASSUME GuardTypes, BulkheadFirst
  PROVE  Cardinality(Inside) <= Cardinality(Processes) * Limit
<1>1. Limit \in Nat /\ Cardinality(Processes) \in Nat /\ IsFiniteSet(Processes)
  BY GuardAssumption, FinitelyMany
<1>2. ASSUME NEW p \in Processes PROVE \E g : g \in Injection(InsideOf(p), 1 .. Limit)
  <2>1. /\ IsFiniteSet(InsideOf(p)) /\ Cardinality(InsideOf(p)) \in Nat
        /\ Cardinality(InsideOf(p)) <= Limit
    BY FinitelyMany DEF BulkheadFirst
  <2>2. PICK h : h \in Bijection(1 .. Cardinality(InsideOf(p)), InsideOf(p))
    BY <2>1, FS_CardinalityType, Zenon DEF ExistsBijection
  <2>3. PICK g : g \in Bijection(InsideOf(p), 1 .. Cardinality(InsideOf(p)))
    BY <2>2, Fun_BijInverse
  <2>4. g \in Injection(InsideOf(p), 1 .. Limit)
    BY <1>1, <2>1, <2>3 DEF Bijection, Injection, IsInjective
  <2>5. QED
    BY <2>4
<1> DEFINE Seat(p) == CHOOSE g : g \in Injection(InsideOf(p), 1 .. Limit)
           f == [c \in Inside |-> <<Home[c], Seat(Home[c])[c]>>]
<1>3. \A p \in Processes : Seat(p) \in Injection(InsideOf(p), 1 .. Limit)
  BY <1>2, Zenon
<1> HIDE DEF Seat
<1>4. \A c \in Inside : Home[c] \in Processes /\ c \in InsideOf(Home[c])
  BY DEF Inside, InsideOf, Processes
<1>5. f \in Injection(Inside, Processes \X (1 .. Limit))
  <2>1. \A c \in Inside : Seat(Home[c])[c] \in 1 .. Limit
    BY <1>3, <1>4 DEF Injection
  <2>2. ASSUME NEW c \in Inside, NEW d \in Inside, f[c] = f[d] PROVE c = d
    <3>1. Home[c] = Home[d] /\ Seat(Home[c])[c] = Seat(Home[c])[d]
      BY <2>2
    <3>2. c \in InsideOf(Home[c]) /\ d \in InsideOf(Home[c]) /\ Home[c] \in Processes
      BY <1>4, <3>1
    <3>3. QED
      BY <1>3, <3>1, <3>2 DEF Injection, IsInjective
  <2>3. f \in [Inside -> Processes \X (1 .. Limit)]
    BY <1>4, <2>1
  <2>4. QED
    BY <2>2, <2>3 DEF Injection, IsInjective
<1>6. IsFiniteSet(1 .. Limit) /\ Cardinality(1 .. Limit) = Limit
  BY <1>1, FS_Interval
<1>7. /\ IsFiniteSet(Processes \X (1 .. Limit))
      /\ Cardinality(Processes \X (1 .. Limit)) = Cardinality(Processes) * Limit
  BY <1>1, <1>6, FS_Product
<1> HIDE DEF f
<1>8. QED
  BY <1>5, <1>7, FS_Injection

(* Who trips the breaker makes no attempt any more: the others have at most *)
(* all of theirs left.                                                      *)
LEMMA AttemptsAreBounded ==
  ASSUME GuardTypes, BulkheadFirst, NEW c \in Callers, call[c].pc = "trip"
  PROVE  Cardinality(Left) <= (Cardinality(Processes) * Limit - 1) * (Retries + 1)
<1> DEFINE Others == Inside \ {c}
<1>1. c \in Inside
  BY DEF BulkheadFirst, Inside, Working
<1>2. IsFiniteSet(Others) /\ Cardinality(Others) = Cardinality(Inside) - 1
  BY <1>1, FinitelyMany, FS_RemoveElement
<1>3. Retries \in Nat /\ IsFiniteSet(0 .. Retries) /\ Cardinality(0 .. Retries) = Retries + 1
  <2>1. Retries \in Nat
    BY GuardAssumption
  <2>2. /\ IsFiniteSet(0 .. Retries)
        /\ Cardinality(0 .. Retries) = IF 0 > Retries THEN 0 ELSE Retries - 0 + 1
    <3> HIDE DEF Others
    <3>1. QED
      BY <2>1, FS_Interval
  <2>3. QED
    BY <2>1, <2>2
<1>4. Left \subseteq Others \X (0 .. Retries)
  <2>1. ASSUME NEW a \in Left PROVE a \in Others \X (0 .. Retries)
    <3>1. a \in Callers \X (0 .. Retries) /\ call[a[1]].pc = "attempt" /\ a[1] \in Callers
      BY <2>1 DEF Left
    <3>2. a[1] \in Inside /\ a[1] # c
      BY <3>1 DEF BulkheadFirst, Inside, Working
    <3>3. QED
      BY <3>1, <3>2
  <2>2. QED
    BY <2>1
<1>5. /\ IsFiniteSet(Others \X (0 .. Retries))
      /\ Cardinality(Others \X (0 .. Retries)) = Cardinality(Others) * (Retries + 1)
  BY <1>2, <1>3, FS_Product
<1>6. Cardinality(Left) <= Cardinality(Others) * (Retries + 1)
  BY <1>4, <1>5, FS_Subset
<1> HIDE DEF Others
<1>7. /\ Cardinality(Others) \in Nat /\ Cardinality(Left) \in Nat /\ Cardinality(Inside) \in Nat
      /\ Cardinality(Processes) * Limit \in Nat
  BY <1>2, FinitelyMany, FS_CardinalityType, GuardAssumption
<1>8. Cardinality(Others) <= Cardinality(Processes) * Limit - 1
  BY <1>2, <1>7, BulkheadsTogether
<1>9. \A m, n, k \in Int : m <= n /\ k >= 0 => m * k <= n * k
  OBVIOUS
<1>10. PICK m \in Int, n \in Int : m = Cardinality(Others) /\ n = Cardinality(Processes) * Limit - 1
  BY <1>7
<1>11. m * (Retries + 1) <= n * (Retries + 1)
  BY <1>3, <1>8, <1>9, <1>10
<1>12. QED
  BY <1>3, <1>6, <1>7, <1>10, <1>11

(* A call that is over its attempts goes on, or returns.                    *)
LEMMA MovesOn ==
  ASSUME GuardTypes, BulkheadFirst, NEW c \in Callers, NEW next \in Working \ {"attempt"},
         (Step(c, next) /\ call[c].pc \in Working) \/ ReturnFrom(c)
  PROVE  /\ call' \in [Callers -> CallType] /\ call'[c].pc \in {"idle", next}
         /\ Step(c, next) => call'[c].pc = next
         /\ \A d \in Callers : d # c => call'[d] = call[d]
         /\ BulkheadFirst' /\ Left' \subseteq Left
         /\ Cardinality(Left') \in Nat /\ Cardinality(Left') <= Cardinality(Left)
<1>1. call \in [Callers -> CallType] /\ call[c] \in CallType
  BY DEF GuardTypes
<1>2. CASE Step(c, next) /\ call[c].pc \in Working
  <2> DEFINE x == [call[c] EXCEPT !.pc = next]
  <2>1. /\ x \in CallType /\ x.pc = next /\ x.inside = call[c].inside
        /\ call' = [call EXCEPT ![c] = x]
    BY <1>1, <1>2 DEF Step, CallType
  <2>2. x.inside = (x.pc \in Working \/ (x.pc = "gate" /\ x.gate = 2)) /\ x.pc # "gate" /\ x.pc # "attempt"
    BY <1>2, <2>1 DEF BulkheadFirst, Working
  <2> HIDE DEF x
  <2>3. QED
    BY <2>1, <2>2, CallKeeps
<1>3. CASE ReturnFrom(c)
  <2>1. /\ NoCall.pc = "idle" /\ NoCall.inside = FALSE /\ NoCall \in CallType
        /\ call' = [call EXCEPT ![c] = NoCall]
    BY <1>3, GuardAssumption DEF NoCall, CallType, ReturnFrom
  <2>2. NoCall.inside = (NoCall.pc \in Working \/ (NoCall.pc = "gate" /\ NoCall.gate = 2))
    BY <2>1 DEF Working
  <2>3. Step(c, next) => call'[c].pc = next
    BY <1>1 DEF Step, CallType
  <2>4. QED
    BY <2>1, <2>2, <2>3, CallKeeps
<1>4. QED
  BY <1>2, <1>3

LEMMA ShieldStays ==
  ASSUME GuardTypes, Shielded, open' => open, late' = late, Cardinality(Left') \in Nat,
         Cardinality(Left') <= Cardinality(Left)
  PROVE  Shielded'
<1>1. PICK n : n = (Cardinality(Processes) * Limit - 1) * (Retries + 1)
  OBVIOUS
<1>2. n \in Int /\ late \in Nat /\ Cardinality(Left) \in Nat
  BY <1>1, FinitelyMany, GuardAssumption DEF GuardTypes
<1>3. open' => late' + Cardinality(Left') <= n
  BY <1>1, <1>2 DEF Shielded
<1>4. QED
  BY <1>1, <1>3 DEF Shielded

LEMMA RequestKeeps ==
  ASSUME GuardInv, NEW c \in Callers, Request(c)
  PROVE  GuardInv'
<1> DEFINE x == [NoCall EXCEPT !.pc = "gate", !.gate = 1]
<1>1. /\ GuardTypes /\ BulkheadFirst /\ call[c].pc = "idle" /\ call' = [call EXCEPT ![c] = x]
      /\ UNCHANGED <<open, failures, window, notice, late, deaths>>
  BY DEF GuardInv, Request
<1>2. /\ x \in CallType /\ x.pc = "gate" /\ x.gate = 1 /\ x.inside = FALSE
  <2> DEFINE y == [NoCall EXCEPT !.pc = "gate"]
  <2>1. NoCall \in CallType /\ NoCall.inside = FALSE
    BY GuardAssumption DEF NoCall, CallType
  <2>2. y \in CallType /\ y.pc = "gate" /\ y.inside = FALSE
    BY <2>1 DEF CallType
  <2>3. x = [y EXCEPT !.gate = 1] /\ 1 \in 0 .. 2
    BY <2>1 DEF CallType
  <2> HIDE DEF x, y
  <2>4. QED
    BY <2>2, <2>3 DEF CallType
<1> HIDE DEF x
<1>3. x.inside = (x.pc \in Working \/ (x.pc = "gate" /\ x.gate = 2))
  <2> DEFINE b == x.pc \in Working \/ (x.pc = "gate" /\ x.gate = 2)
  <2>1. ~b /\ b \in BOOLEAN
    BY <1>2 DEF Working
  <2>2. SUFFICES x.inside = b
    OBVIOUS
  <2> HIDE DEF b
  <2>3. b = FALSE
    BY <2>1
  <2>4. QED
    BY <1>2, <2>3
<1>4. /\ call' \in [Callers -> CallType] /\ \A d \in Callers : d # c => call'[d] = call[d]
      /\ BulkheadFirst' /\ Cardinality(Left') \in Nat /\ Cardinality(Left') <= Cardinality(Left)
  <2>1. x.pc # "attempt" /\ (x.pc = "gate" => x.gate \in 1 .. 2) /\ (x.inside => call[c].inside)
    BY <1>2
  <2>2. QED
    BY <1>1, <1>2, <1>3, <2>1, CallKeeps
<1>5. GuardTypes'
  BY <1>1, <1>4 DEF GuardTypes
<1>6. Shielded'
  BY <1>1, <1>4, ShieldStays DEF GuardInv
<1>7. Forgotten'
  BY <1>1, <1>4 DEF GuardInv, Forgotten
<1>8. QED
  BY <1>4, <1>5, <1>6, <1>7 DEF GuardInv

LEMMA EnterBulkheadKeeps ==
  ASSUME GuardInv, NEW c \in Callers, EnterBulkhead(c)
  PROVE  GuardInv'
<1> DEFINE x == [call[c] EXCEPT !.gate = 2, !.inside = TRUE]
<1>1. /\ GuardTypes /\ BulkheadFirst /\ call[c].pc = "gate" /\ call[c].gate = 1
      /\ call \in [Callers -> CallType] /\ call[c] \in CallType /\ Limit \in Nat
      /\ Cardinality(InsideOf(Home[c])) < Limit
      /\ UNCHANGED <<open, failures, window, notice, late, deaths>>
  <2>1. call[c].pc = "gate" /\ call[c].gate \in 1 .. 2 /\ Gates[call[c].gate] = "bulkhead"
    BY DEF GuardInv, BulkheadFirst, EnterBulkhead, AtGate
  <2>2. call[c].gate = 1
    BY <2>1 DEF Gates
  <2>3. QED
    BY <2>1, <2>2, GuardAssumption DEF GuardInv, GuardTypes, EnterBulkhead, InsideOf
<1>2. call' = [call EXCEPT ![c] = x]
  <2>1. Len(Gates) = 2
    BY DEF Gates
  <2>2. Passed(c) = [call[c] EXCEPT !.gate = 2]
    BY <1>1, <2>1 DEF Passed, CallType
  <2>3. QED
    BY <1>1, <2>2 DEF EnterBulkhead
<1>3. x \in CallType /\ x.pc = "gate" /\ x.gate = 2 /\ x.inside = TRUE
  <2> DEFINE y == [call[c] EXCEPT !.gate = 2]
  <2>1. y \in CallType /\ y.pc = "gate" /\ y.gate = 2
    BY <1>1 DEF CallType
  <2>2. x = [y EXCEPT !.inside = TRUE]
    OBVIOUS
  <2> HIDE DEF x, y
  <2>3. QED
    BY <2>1, <2>2 DEF CallType
<1> HIDE DEF x
<1>4. /\ call' \in [Callers -> CallType] /\ call'[c] = x
      /\ \A d \in Callers : d # c => call'[d] = call[d]
  BY <1>1, <1>2, <1>3
<1>5. BulkheadFirst'
  <2>1. ASSUME NEW d \in Callers
        PROVE  /\ call'[d].pc = "gate" => call'[d].gate \in 1 .. 2
               /\ call'[d].inside = (call'[d].pc \in Working
                                     \/ (call'[d].pc = "gate" /\ call'[d].gate = 2))
    <3>1. CASE d = c
      <4>1. call'[d] = x
        BY <1>4, <3>1
      <4>2. x.inside = (x.pc \in Working \/ (x.pc = "gate" /\ x.gate = 2))
        BY <1>3, Zenon
      <4>3. x.gate \in 1 .. 2
        BY <1>3
      <4>4. QED
        BY <4>1, <4>2, <4>3, Zenon
    <3>2. CASE d # c
      <4>1. call'[d] = call[d]
        BY <1>4, <3>2
      <4>2. QED
        BY <1>1, <4>1 DEF BulkheadFirst
    <3>3. QED
      BY <3>1, <3>2
  <2>2. ASSUME NEW p \in Processes PROVE Cardinality(InsideOf(p)') <= Limit
    <3>1. CASE p = Home[c]
      <4>1. InsideOf(p)' = InsideOf(p) \cup {c}
        BY <1>3, <1>4, <3>1 DEF InsideOf
      <4>2. c \notin InsideOf(p)
        <5>1. call[c].inside = (call[c].pc \in Working \/ (call[c].pc = "gate" /\ call[c].gate = 2))
          BY <1>1 DEF BulkheadFirst
        <5>2. ~(call[c].pc \in Working \/ (call[c].pc = "gate" /\ call[c].gate = 2))
          BY <1>1 DEF Working
        <5>3. ~call[c].inside
          BY <5>1, <5>2
        <5>4. QED
          BY <5>3 DEF InsideOf
      <4>3. Cardinality(InsideOf(p)') = Cardinality(InsideOf(p)) + 1 /\ Cardinality(InsideOf(p)) \in Nat
        BY <1>1, <4>1, <4>2, FinitelyMany, FS_AddElement
      <4>4. QED
        BY <1>1, <3>1, <4>3
    <3>2. CASE p # Home[c]
      <4>1. InsideOf(p)' = InsideOf(p)
        BY <1>4, <3>2 DEF InsideOf
      <4>2. QED
        BY <1>1, <4>1 DEF BulkheadFirst
    <3>3. QED
      BY <3>1, <3>2
  <2>3. QED
    BY <2>1, <2>2 DEF BulkheadFirst
<1>6. Left' = Left
  BY <1>1, <1>3, <1>4 DEF Left
<1>7. Cardinality(Left') \in Nat /\ Cardinality(Left') <= Cardinality(Left)
  BY <1>1, <1>6, FinitelyMany
<1>8. GuardTypes'
  BY <1>1, <1>4 DEF GuardTypes
<1>9. Shielded'
  BY <1>1, <1>7, ShieldStays DEF GuardInv
<1>10. Forgotten'
  BY <1>1, <1>4 DEF GuardInv, Forgotten
<1>11. QED
  BY <1>5, <1>8, <1>9, <1>10 DEF GuardInv

(* Only a closed breaker lets a call through to its attempts.               *)
LEMMA AskBreakerKeeps ==
  ASSUME GuardInv, NEW c \in Callers, AskBreaker(c)
  PROVE  GuardInv'
<1>1. /\ GuardTypes /\ BulkheadFirst /\ call[c].pc = "gate" /\ call[c].gate = 2 /\ open \in BOOLEAN
      /\ call \in [Callers -> CallType] /\ call[c] \in CallType
      /\ UNCHANGED <<open, failures, window, notice, late, deaths>>
  <2>1. call[c].pc = "gate" /\ call[c].gate \in 1 .. 2 /\ Gates[call[c].gate] = "breaker"
    BY DEF GuardInv, BulkheadFirst, AskBreaker, AtGate
  <2>2. call[c].gate = 2
    BY <2>1 DEF Gates
  <2>3. QED
    BY <2>1, <2>2 DEF GuardInv, GuardTypes, AskBreaker
<1>2. CASE open
  <2>1. ReturnFrom(c) /\ "trip" \in Working \ {"attempt"}
    BY <1>2 DEF AskBreaker, Working
  <2>2. /\ call' \in [Callers -> CallType] /\ \A d \in Callers : d # c => call'[d] = call[d]
        /\ BulkheadFirst' /\ Cardinality(Left') \in Nat /\ Cardinality(Left') <= Cardinality(Left)
    BY <1>1, <2>1, MovesOn
  <2>3. GuardTypes'
    BY <1>1, <2>2 DEF GuardTypes
  <2>4. Shielded'
    BY <1>1, <2>2, ShieldStays DEF GuardInv
  <2>5. Forgotten'
    BY <1>1, <2>2 DEF GuardInv, Forgotten
  <2>6. QED
    BY <2>2, <2>3, <2>4, <2>5 DEF GuardInv
<1>3. CASE ~open
  <2> DEFINE x == [call[c] EXCEPT !.pc = "attempt"]
  <2>1. x \in CallType /\ x.pc = "attempt" /\ x.inside = call[c].inside
    BY <1>1 DEF CallType, Working
  <2>2. call' = [call EXCEPT ![c] = x]
    <3>1. Len(Gates) = 2
      BY DEF Gates
    <3>2. Passed(c) = x
      BY <1>1, <3>1 DEF Passed
    <3>3. QED
      BY <1>3, <3>2 DEF AskBreaker
  <2>3. x.inside = (x.pc \in Working \/ (x.pc = "gate" /\ x.gate = 2)) /\ x.pc # "gate"
    BY <1>1, <2>1 DEF BulkheadFirst, Working
  <2> HIDE DEF x
  <2>4. /\ call' \in [Callers -> CallType] /\ \A d \in Callers : d # c => call'[d] = call[d]
        /\ BulkheadFirst'
    BY <1>1, <2>1, <2>2, <2>3, CallKeeps
  <2>5. GuardTypes'
    BY <1>1, <2>4 DEF GuardTypes
  <2>6. Shielded'
    BY <1>1, <1>3 DEF Shielded
  <2>7. Forgotten'
    BY <1>1, <2>4 DEF GuardInv, Forgotten
  <2>8. QED
    BY <2>4, <2>5, <2>6, <2>7 DEF GuardInv
<1>4. QED
  BY <1>2, <1>3

(* An attempt is one less to come.                                          *)
LEMMA AttemptKeeps ==
  ASSUME GuardInv, NEW c \in Callers, Attempt(c)
  PROVE  GuardInv'
<1>1. /\ GuardTypes /\ BulkheadFirst /\ call[c].pc = "attempt" /\ late \in Nat /\ open \in BOOLEAN
      /\ call \in [Callers -> CallType] /\ call[c] \in CallType /\ Retries \in Nat
      /\ late' = IF open THEN late + 1 ELSE late
      /\ UNCHANGED <<open, failures, window, notice, deaths>>
  BY GuardAssumption DEF GuardInv, GuardTypes, Attempt
<1>2. PICK x \in CallType :
        /\ call' = [call EXCEPT ![c] = x] /\ x.inside = call[c].inside
        /\ x.pc \in {"succeeded", "failed"} \/ (x.pc = "attempt" /\ x.tries = call[c].tries + 1)
  <2>1. CASE Step(c, "succeeded")
    <3>1. [call[c] EXCEPT !.pc = "succeeded"] \in CallType
      BY <1>1 DEF CallType, Working
    <3>2. QED
      BY <1>1, <2>1, <3>1 DEF Step, CallType
  <2>2. CASE call[c].tries < Retries /\ call' = [call EXCEPT ![c].tries = @ + 1]
    <3>1. [call[c] EXCEPT !.tries = call[c].tries + 1] \in CallType
      BY <1>1, <2>2 DEF CallType
    <3>2. QED
      BY <1>1, <2>2, <3>1 DEF CallType
  <2>3. CASE Step(c, "failed")
    <3>1. [call[c] EXCEPT !.pc = "failed"] \in CallType
      BY <1>1 DEF CallType, Working
    <3>2. QED
      BY <1>1, <2>3, <3>1 DEF Step, CallType
  <2>4. QED
    BY <2>1, <2>2, <2>3 DEF Attempt
<1>3. x.inside = (x.pc \in Working \/ (x.pc = "gate" /\ x.gate = 2)) /\ x.pc # "gate"
  BY <1>1, <1>2 DEF BulkheadFirst, Working
<1>4. /\ x.tries \in Nat /\ call[c].tries \in 0 .. Retries
      /\ x.pc = "attempt" => call[c].pc = "attempt" /\ x.tries >= call[c].tries
      /\ x.inside => call[c].inside
  <2>1. x.tries \in Nat /\ call[c].tries \in 0 .. Retries
    BY <1>1, <1>2 DEF CallType
  <2>2. x.pc = "attempt" => call[c].pc = "attempt" /\ x.tries >= call[c].tries
    BY <1>1, <1>2, <2>1
  <2>3. QED
    BY <1>2, <2>1, <2>2
<1>5. /\ call' \in [Callers -> CallType] /\ call'[c] = x
      /\ \A d \in Callers : d # c => call'[d] = call[d]
      /\ BulkheadFirst' /\ Left' \subseteq Left
  BY <1>1, <1>2, <1>3, <1>4, CallKeeps
<1>6. <<c, call[c].tries>> \in Left /\ <<c, call[c].tries>> \notin Left'
  BY <1>1, <1>2, <1>4, <1>5 DEF Left
<1>7. Cardinality(Left') \in Nat /\ Cardinality(Left') <= Cardinality(Left) - 1 /\ Cardinality(Left) \in Nat
  <2>1. Left' \subseteq Left \ {<<c, call[c].tries>>}
    BY <1>5, <1>6
  <2>2. /\ IsFiniteSet(Left \ {<<c, call[c].tries>>})
        /\ Cardinality(Left \ {<<c, call[c].tries>>}) = Cardinality(Left) - 1
    BY <1>1, <1>6, FinitelyMany, FS_RemoveElement
  <2>3. IsFiniteSet(Left') /\ Cardinality(Left') <= Cardinality(Left) - 1
    BY <2>1, <2>2, FS_Subset
  <2>4. QED
    BY <1>1, <2>3, FinitelyMany, FS_CardinalityType
<1>8. GuardTypes'
  BY <1>1, <1>5 DEF GuardTypes
<1>9. Shielded'
  <2>1. SUFFICES ASSUME open
                 PROVE  late' + Cardinality(Left') <= (Cardinality(Processes) * Limit - 1) * (Retries + 1)
    BY <1>1 DEF Shielded
  <2>2. PICK n : n = (Cardinality(Processes) * Limit - 1) * (Retries + 1)
    OBVIOUS
  <2>3. n \in Int
    BY <1>1, <2>2, FinitelyMany, GuardAssumption
  <2>4. late + Cardinality(Left) <= n /\ late' = late + 1
    BY <1>1, <2>1, <2>2 DEF GuardInv, Shielded
  <2>5. late' + Cardinality(Left') <= n
    BY <1>1, <1>7, <2>3, <2>4
  <2>6. QED
    BY <2>2, <2>5
<1>10. Forgotten'
  BY <1>1, <1>5 DEF GuardInv, Forgotten
<1>11. QED
  BY <1>5, <1>8, <1>9, <1>10 DEF GuardInv

(* What follows the attempts changes neither the breaker nor who may still  *)
(* make one.                                                                *)
LEMMA LaterKeeps ==
  ASSUME GuardInv, NEW c \in Callers, NEW next \in Working \ {"attempt"},
         (Step(c, next) /\ call[c].pc \in Working) \/ ReturnFrom(c),
         UNCHANGED <<open, late, deaths>>, failures' \in Nat, window' \in BOOLEAN, notice' \in BOOLEAN,
         window' => failures' > 0,
         deaths = 0 /\ failures' > 0 => window' \/ \E d \in Callers : d # c /\ call[d].pc = "expire"
  PROVE  GuardInv'
<1>1. GuardTypes /\ BulkheadFirst /\ Shielded
  BY DEF GuardInv
<1>2. /\ call' \in [Callers -> CallType] /\ \A d \in Callers : d # c => call'[d] = call[d]
      /\ BulkheadFirst' /\ Cardinality(Left') \in Nat /\ Cardinality(Left') <= Cardinality(Left)
  BY <1>1, MovesOn
<1>3. GuardTypes'
  BY <1>1, <1>2 DEF GuardTypes
<1>4. Shielded'
  BY <1>1, <1>2, ShieldStays
<1>5. Forgotten'
  BY <1>2 DEF Forgotten
<1>6. QED
  BY <1>2, <1>3, <1>4, <1>5 DEF GuardInv

LEMMA CountFailureKeeps ==
  ASSUME GuardInv, NEW c \in Callers, CountFailure(c)
  PROVE  GuardInv'
<1>1. /\ GuardTypes /\ BulkheadFirst /\ Shielded /\ call[c].pc = "failed"
      /\ failures \in Nat /\ failures' = failures + 1
      /\ call \in [Callers -> CallType] /\ call[c] \in CallType
      /\ window \in BOOLEAN /\ notice \in BOOLEAN
      /\ UNCHANGED <<open, window, notice, late, deaths>>
  BY DEF GuardInv, GuardTypes, CountFailure
<1>2. CASE failures + 1 = 1
  <2> DEFINE x == [call[c] EXCEPT !.pc = "expire", !.count = 1]
  <2>1. call' = [call EXCEPT ![c] = x]
    BY <1>1, <1>2 DEF CountFailure
  <2>2. x \in CallType /\ x.pc = "expire" /\ x.inside = call[c].inside
    <3> DEFINE y == [call[c] EXCEPT !.pc = "expire"]
    <3>1. y \in CallType /\ y.pc = "expire" /\ y.inside = call[c].inside
      BY <1>1 DEF CallType, Working
    <3>2. x = [y EXCEPT !.count = 1]
      OBVIOUS
    <3> HIDE DEF x, y
    <3>3. QED
      BY <3>1, <3>2 DEF CallType
  <2>3. x.inside = (x.pc \in Working \/ (x.pc = "gate" /\ x.gate = 2)) /\ x.pc # "gate" /\ x.pc # "attempt"
    BY <1>1, <2>2 DEF BulkheadFirst, Working
  <2> HIDE DEF x
  <2>4. /\ call' \in [Callers -> CallType] /\ call'[c] = x
        /\ BulkheadFirst' /\ Cardinality(Left') \in Nat /\ Cardinality(Left') <= Cardinality(Left)
    BY <1>1, <2>1, <2>2, <2>3, CallKeeps
  <2>5. GuardTypes'
    BY <1>1, <2>4 DEF GuardTypes
  <2>6. Shielded'
    BY <1>1, <2>4, ShieldStays
  <2>7. Forgotten'
    BY <2>2, <2>4 DEF Forgotten
  <2>8. QED
    BY <2>4, <2>5, <2>6, <2>7 DEF GuardInv
<1>3. CASE failures + 1 # 1
  <2>1. failures > 0 /\ failures' \in Nat /\ failures' > 0
    BY <1>1, <1>3
  <2>2. Step(c, "trip") \/ ReturnFrom(c)
    BY <1>1, <1>3 DEF CountFailure
  <2>3. deaths = 0 => window \/ \E d \in Callers : d # c /\ call[d].pc = "expire"
    BY <1>1, <2>1 DEF GuardInv, Forgotten
  <2>4. "trip" \in Working \ {"attempt"} /\ call[c].pc \in Working
    BY <1>1 DEF Working
  <2>5. QED
    BY <1>1, <2>1, <2>2, <2>3, <2>4, LaterKeeps
<1>4. QED
  BY <1>2, <1>3

LEMMA StartWindowKeeps ==
  ASSUME GuardInv, NEW c \in Callers, StartWindow(c)
  PROVE  GuardInv'
<1>1. /\ failures \in Nat /\ notice \in BOOLEAN /\ window' = (failures > 0)
      /\ UNCHANGED <<open, failures, notice, late, deaths>>
  BY DEF GuardInv, GuardTypes, StartWindow
<1>2. Step(c, "trip") \/ ReturnFrom(c)
  BY DEF StartWindow
<1>3. "trip" \in Working \ {"attempt"} /\ call[c].pc \in Working
  BY DEF Working, StartWindow
<1>4. failures' \in Nat /\ notice' \in BOOLEAN /\ failures' = failures
  BY <1>1
<1>5. CASE failures > 0
  <2>1. window' = TRUE
    BY <1>1, <1>5
  <2>2. window' \in BOOLEAN /\ failures' > 0
    BY <1>4, <1>5, <2>1
  <2>3. QED
    BY <1>1, <1>2, <1>3, <1>4, <2>1, <2>2, LaterKeeps
<1>6. CASE ~(failures > 0)
  <2>1. window' = FALSE
    <3> DEFINE some == failures > 0
    <3>1. window' = some /\ ~some /\ some \in BOOLEAN
      BY <1>1, <1>6
    <3> HIDE DEF some
    <3>2. QED
      BY <3>1
  <2>2. QED
    BY <1>1, <1>2, <1>3, <1>4, <1>6, <2>1, LaterKeeps
<1>7. QED
  BY <1>5, <1>6

(* The breaker opens: what may still come is what AttemptsAreBounded counts. *)
LEMMA TripKeeps ==
  ASSUME GuardInv, NEW c \in Callers, Trip(c)
  PROVE  GuardInv'
<1>1. /\ GuardTypes /\ BulkheadFirst /\ Shielded /\ call[c].pc = "trip" /\ open' = TRUE
      /\ failures \in Nat /\ window \in BOOLEAN /\ notice \in BOOLEAN /\ late \in Nat /\ deaths \in Nat
      /\ window => failures > 0
      /\ UNCHANGED <<failures, window, notice, deaths>>
  BY DEF GuardInv, GuardTypes, Trip
<1>2. call[c].pc \in Working /\ {"clear", "clearAndNote"} \subseteq Working \ {"attempt"}
  BY <1>1 DEF Working
<1>3. PICK next \in {"clear", "clearAndNote"} : Step(c, next) /\ (open => late' = late) /\ (~open => late' = 0)
  BY DEF Trip
<1>4. /\ call' \in [Callers -> CallType] /\ \A d \in Callers : d # c => call'[d] = call[d]
      /\ BulkheadFirst' /\ Cardinality(Left') \in Nat /\ Cardinality(Left') <= Cardinality(Left)
  BY <1>1, <1>2, <1>3, MovesOn
<1>5. GuardTypes'
  BY <1>1, <1>3, <1>4 DEF GuardTypes
<1>6. Shielded'
  <2>1. CASE open
    BY <1>1, <1>3, <1>4, <2>1, ShieldStays
  <2>2. CASE ~open
    <3>1. PICK n : n = (Cardinality(Processes) * Limit - 1) * (Retries + 1)
      OBVIOUS
    <3>2. n \in Int /\ Cardinality(Left) \in Nat
      BY <1>1, <3>1, FinitelyMany, GuardAssumption
    <3>3. Cardinality(Left) <= n /\ late' = 0
      BY <1>1, <1>3, <2>2, <3>1, AttemptsAreBounded
    <3>4. late' + Cardinality(Left') <= n
      BY <1>4, <3>2, <3>3
    <3>5. QED
      BY <3>1, <3>4 DEF Shielded
  <2>3. QED
    BY <2>1, <2>2
<1>7. Forgotten'
  BY <1>1, <1>4 DEF GuardInv, Forgotten
<1>8. QED
  BY <1>4, <1>5, <1>6, <1>7 DEF GuardInv

(* The steps that only write what the breaker remembers.                    *)
LEMMA RecordKeeps ==
  ASSUME GuardInv, NEW c \in Callers,
         ClearFailures(c) \/ SetNotice(c) \/ Succeed(c) \/ TakeNotice(c)
  PROVE  GuardInv'
<1>1. /\ failures \in Nat /\ window \in BOOLEAN /\ notice \in BOOLEAN /\ (window => failures > 0)
      /\ deaths = 0 /\ failures > 0 => window \/ \E d \in Callers : call[d].pc = "expire"
  BY DEF GuardInv, GuardTypes, Forgotten
<1>2. PICK next \in {"note", "reset"} : Step(c, next) \/ ReturnFrom(c)
  BY DEF ClearFailures, SetNotice, Succeed, TakeNotice
<1>3. /\ call[c].pc \in Working /\ call[c].pc # "expire" /\ {"note", "reset"} \subseteq Working \ {"attempt"}
  BY DEF Working, ClearFailures, SetNotice, Succeed, TakeNotice
<1>4. /\ UNCHANGED <<open, late, deaths>> /\ notice' \in BOOLEAN
      /\ (failures' = 0 /\ window' = FALSE) \/ UNCHANGED <<failures, window>>
  <2>1. CASE ClearFailures(c)
    BY <1>1, <2>1 DEF ClearFailures, ForgetFailures
  <2>2. CASE SetNotice(c)
    BY <2>2 DEF SetNotice
  <2>3. CASE Succeed(c)
    BY <1>1, <2>3 DEF Succeed, ForgetFailures
  <2>4. CASE TakeNotice(c)
    BY <2>4 DEF TakeNotice
  <2>5. QED
    BY <2>1, <2>2, <2>3, <2>4
<1>5. failures' \in Nat /\ window' \in BOOLEAN /\ (window' => failures' > 0)
  <2>1. CASE failures' = 0 /\ window' = FALSE
    BY <2>1
  <2>2. CASE UNCHANGED <<failures, window>>
    BY <1>1, <2>2
  <2>3. QED
    BY <1>4, <2>1, <2>2
<1>6. deaths = 0 /\ failures' > 0 => window' \/ \E d \in Callers : d # c /\ call[d].pc = "expire"
  BY <1>1, <1>3, <1>4
<1>7. QED
  BY <1>2, <1>3, <1>4, <1>5, <1>6, LaterKeeps

(* Keys expire; the calls are as they were.                                 *)
LEMMA ExpiryKeeps ==
  ASSUME GuardInv, CooldownEnds \/ WindowEnds \/ NoticeExpires \/ UNCHANGED guardVars
  PROVE  GuardInv'
<1>1. /\ GuardTypes /\ BulkheadFirst /\ Shielded /\ Forgotten
      /\ failures \in Nat /\ window \in BOOLEAN /\ notice \in BOOLEAN /\ open \in BOOLEAN
  BY DEF GuardInv, GuardTypes
<1>2. /\ UNCHANGED <<call, late, deaths>> /\ open' \in BOOLEAN /\ notice' \in BOOLEAN /\ (open' => open)
      /\ (failures' = 0 /\ window' = FALSE) \/ UNCHANGED <<failures, window>>
  <2>1. CASE CooldownEnds
    BY <1>1, <2>1 DEF CooldownEnds
  <2>2. CASE WindowEnds
    BY <1>1, <2>2 DEF WindowEnds, ForgetFailures
  <2>3. CASE NoticeExpires
    BY <1>1, <2>3 DEF NoticeExpires
  <2>4. CASE UNCHANGED guardVars
    BY <1>1, <2>4 DEF guardVars
  <2>5. QED
    BY <2>1, <2>2, <2>3, <2>4
<1>3. BulkheadFirst' /\ Left' = Left
  <2>1. \A p : InsideOf(p)' = InsideOf(p)
    BY <1>2 DEF InsideOf
  <2>2. Left' = Left
    BY <1>2 DEF Left
  <2>3. QED
    BY <1>1, <1>2, <2>1, <2>2 DEF BulkheadFirst
<1>4. GuardTypes'
  <2>1. CASE failures' = 0 /\ window' = FALSE
    BY <1>1, <1>2, <2>1 DEF GuardTypes
  <2>2. CASE UNCHANGED <<failures, window>>
    BY <1>1, <1>2, <2>2 DEF GuardTypes
  <2>3. QED
    BY <1>2, <2>1, <2>2
<1>5. Shielded'
  BY <1>1, <1>2, <1>3, FinitelyMany, ShieldStays
<1>6. Forgotten'
  BY <1>1, <1>2 DEF Forgotten
<1>7. QED
  BY <1>3, <1>4, <1>5, <1>6 DEF GuardInv

(* A process dies, and its calls with it.                                   *)
LEMMA DieKeeps ==
  ASSUME GuardInv, NEW p \in Processes, Die(p)
  PROVE  GuardInv'
<1>1. /\ GuardTypes /\ BulkheadFirst /\ Shielded /\ call \in [Callers -> CallType] /\ deaths \in Nat
      /\ call' = [c \in Callers |-> IF Home[c] = p THEN NoCall ELSE call[c]]
      /\ deaths' = deaths + 1 /\ Limit \in Nat
      /\ UNCHANGED <<open, failures, window, notice, late>>
  BY GuardAssumption DEF GuardInv, GuardTypes, Die
<1>2. NoCall \in CallType /\ NoCall.pc = "idle" /\ NoCall.inside = FALSE
  BY GuardAssumption DEF NoCall, CallType
<1>3. NoCall.inside = (NoCall.pc \in Working \/ (NoCall.pc = "gate" /\ NoCall.gate = 2))
  BY <1>2 DEF Working
<1>4. \A c \in Callers : call'[c] = NoCall \/ call'[c] = call[c]
  BY <1>1
<1>5. GuardTypes'
  BY <1>1, <1>2 DEF GuardTypes
<1>6. ASSUME NEW q \in Processes PROVE Cardinality(InsideOf(q)') <= Limit
  <2>1. InsideOf(q)' \subseteq InsideOf(q)
    <3>1. ASSUME NEW d \in InsideOf(q)' PROVE d \in InsideOf(q)
      <4>1. d \in Callers /\ Home[d] = q /\ call'[d].inside
        BY <3>1 DEF InsideOf
      <4>2. call[d].inside
        BY <1>2, <1>4, <4>1
      <4>3. QED
        BY <4>1, <4>2 DEF InsideOf
    <3>2. QED
      BY <3>1
  <2>2. Cardinality(InsideOf(q)') <= Cardinality(InsideOf(q)) /\ Cardinality(InsideOf(q)') \in Nat
    BY <1>1, <2>1, FinitelyMany, FS_Subset, FS_CardinalityType
  <2>3. QED
    BY <1>1, <2>2, FinitelyMany DEF BulkheadFirst
<1>7. ASSUME NEW d \in Callers
      PROVE  /\ call'[d].pc = "gate" => call'[d].gate \in 1 .. 2
             /\ call'[d].inside = (call'[d].pc \in Working
                                   \/ (call'[d].pc = "gate" /\ call'[d].gate = 2))
  <2>1. CASE call'[d] = NoCall
    BY <1>2, <1>3, <2>1
  <2>2. CASE call'[d] = call[d]
    BY <1>1, <2>2 DEF BulkheadFirst
  <2>3. QED
    BY <1>4, <2>1, <2>2
<1>8. BulkheadFirst'
  BY <1>6, <1>7 DEF BulkheadFirst
<1>9. Left' \subseteq Left
  <2>1. ASSUME NEW a \in Left' PROVE a \in Left
    <3>1. /\ a \in Callers \X (0 .. Retries) /\ a[1] \in Callers
          /\ call'[a[1]].pc = "attempt" /\ a[2] >= call'[a[1]].tries
      BY <2>1 DEF Left
    <3>2. call'[a[1]] = call[a[1]]
      BY <1>2, <1>4, <3>1
    <3>3. QED
      BY <3>1, <3>2 DEF Left
  <2>2. QED
    BY <2>1
<1>10. Cardinality(Left') \in Nat /\ Cardinality(Left') <= Cardinality(Left)
  BY <1>1, <1>9, FinitelyMany, FS_Subset, FS_CardinalityType
<1>11. Shielded'
  BY <1>1, <1>10, ShieldStays
<1>12. Forgotten'
  BY <1>1 DEF Forgotten
<1>13. QED
  BY <1>5, <1>8, <1>11, <1>12 DEF GuardInv

LEMMA GuardStart ==
  ASSUME GuardInit
  PROVE  GuardInv
<1>1. NoCall \in CallType /\ NoCall.pc = "idle" /\ NoCall.inside = FALSE
  BY GuardAssumption DEF NoCall, CallType
<1>2. GuardTypes /\ open = FALSE /\ failures = 0 /\ \A c \in Callers : call[c] = NoCall
  BY <1>1 DEF GuardInit, GuardTypes
<1>3. \A p : InsideOf(p) = {}
  BY <1>1, <1>2 DEF InsideOf
<1>4. Cardinality({}) <= Limit
  BY GuardAssumption, FS_EmptySet
<1>5. NoCall.inside = (NoCall.pc \in Working \/ (NoCall.pc = "gate" /\ NoCall.gate = 2))
  BY <1>1 DEF Working
<1>6. BulkheadFirst
  BY <1>1, <1>2, <1>3, <1>4, <1>5 DEF BulkheadFirst
<1>7. QED
  BY <1>2, <1>6 DEF GuardInv, Shielded, Forgotten

LEMMA GuardStepKeeps ==
  ASSUME GuardInv, [GuardNext]_guardVars
  PROVE  GuardInv'
<1>1. ASSUME NEW c \in Callers,
             \/ Request(c) \/ EnterBulkhead(c) \/ AskBreaker(c) \/ Attempt(c)
             \/ CountFailure(c) \/ StartWindow(c) \/ Trip(c) \/ ClearFailures(c)
             \/ SetNotice(c) \/ Succeed(c) \/ TakeNotice(c)
      PROVE  GuardInv'
  BY <1>1, RequestKeeps, EnterBulkheadKeeps, AskBreakerKeeps, AttemptKeeps, CountFailureKeeps,
     StartWindowKeeps, TripKeeps, RecordKeeps
<1>2. ASSUME NEW p \in Processes, Die(p) PROVE GuardInv'
  BY <1>2, DieKeeps
<1>3. QED
  BY <1>1, <1>2, ExpiryKeeps DEF GuardNext

(* However many callers, processes and retries there are: in the bulkhead   *)
(* is who passed it and did not return, and the attempts made since the     *)
(* breaker opened and those still to come stay within the bound.            *)
THEOREM GuardInvHolds == GuardSpec => []GuardInv
<1>1. GuardInit => GuardInv
  BY GuardStart
<1>2. GuardInv /\ [GuardNext]_guardVars => GuardInv'
  BY GuardStepKeeps
<1>3. QED
  BY <1>1, <1>2, PTL DEF GuardSpec

(* No bulkhead ever holds more callers than its limit, whoever dies.        *)
THEOREM GuardTypeOKHolds == GuardSpec => []GuardTypeOK
<1>1. GuardInv => GuardTypeOK
  BY DEF GuardInv, GuardTypes, BulkheadFirst, InsideOf, GuardTypeOK
<1>2. QED
  BY <1>1, GuardInvHolds, PTL

(* Since the breaker opened, the dependency hears at most the attempts of   *)
(* the callers the bulkheads had let in, but for the one that opened it.    *)
THEOREM OpenBreakerShieldsHolds == GuardSpec => []OpenBreakerShields
<1>1. GuardInv => OpenBreakerShields
  <2>1. SUFFICES ASSUME GuardInv PROVE OpenBreakerShields
    OBVIOUS
  <2>2. PICK n : n = (Cardinality(Processes) * Limit - 1) * (Retries + 1)
    OBVIOUS
  <2>3. n \in Int /\ Cardinality(Left) \in Nat /\ late \in Nat
    BY <2>1, <2>2, FinitelyMany, GuardAssumption DEF GuardInv, GuardTypes
  <2>4. open => late + Cardinality(Left) <= n
    BY <2>1, <2>2 DEF GuardInv, Shielded
  <2>5. open => late <= n
    BY <2>3, <2>4
  <2>6. QED
    BY <2>1, <2>2, <2>5 DEF GuardInv, Forgotten, OpenBreakerShields
<1>2. QED
  BY <1>1, GuardInvHolds, PTL

-----------------------------------------------------------------------------
(* The bill: whose invoice number a number is.                              *)

Doc == [id : 0 .. MaxIds, number : 0 .. MaxNumbers]
DraftType == [pc : {"idle"}]
             \cup [pc : {"count", "claim", "reread"}, sale : Sales, number : 0 .. MaxNumbers]

BillTypes ==
  /\ book \in [Sales -> Doc] /\ file \in [Sales -> Doc] /\ seq \in 0 .. MaxNumbers
  /\ draft \in [Clerks -> DraftType] /\ told \in [Sales -> SUBSET (1 .. MaxNumbers)]
  /\ dbLost \in BOOLEAN
  /\ restoring \in [mode : {"none", "bundle", "merge", "wipe"}, left : SUBSET Sales]

(* The number of a document was given out; a backup may lag behind, but not *)
(* be ahead.  Who lost no number has the one that was told.                 *)
GivenOut ==
  \A o \in Sales :
    /\ book[o].number # 0 => book[o].number \in told[o]
    /\ file[o].number # 0 => file[o].number \in told[o]
    /\ o \notin reverted => told[o] \subseteq {book[o].number} \ {0}

Claims(c) == draft[c].pc = "claim"
(* As long as the counter counts, what it will give and what a request      *)
(* holds was never told.                                                    *)
Fresh ==
  ~dbLost =>
    /\ \A o \in Sales : told[o] \subseteq 1 .. seq
    /\ \A o, p \in Sales : o # p => told[o] \cap told[p] = {}
    /\ \A c \in Clerks : Claims(c) => /\ draft[c].number \in 1 .. seq
                                      /\ \A o \in Sales : draft[c].number \notin told[o]
    /\ \A c, d \in Clerks : Claims(c) /\ Claims(d) /\ c # d => draft[c].number # draft[d].number

ClaimsANumber == \A c \in Clerks : Claims(c) => draft[c].number # 0

BillInv == BillTypes /\ GivenOut /\ ClaimsANumber /\ Fresh

LEMMA BillStart ==
  ASSUME BillInit
  PROVE  BillInv
<1>1. /\ NoDoc \in Doc /\ NoDoc.number = 0 /\ NoDraft \in DraftType /\ NoDraft.pc = "idle"
      /\ NoRestore \in [mode : {"none", "bundle", "merge", "wipe"}, left : SUBSET Sales]
  BY BillAssumption DEF NoDoc, Doc, NoDraft, DraftType, NoRestore
<1>2. BillTypes
  <2>1. book \in [Sales -> Doc] /\ file \in [Sales -> Doc] /\ draft \in [Clerks -> DraftType]
    BY <1>1 DEF BillInit
  <2>2. told \in [Sales -> SUBSET (1 .. MaxNumbers)] /\ seq \in 0 .. MaxNumbers
    BY BillAssumption DEF BillInit
  <2>3. QED
    BY <1>1, <2>1, <2>2 DEF BillInit, BillTypes
<1>3. /\ \A o \in Sales : book[o].number = 0 /\ file[o].number = 0 /\ told[o] = {}
      /\ \A c \in Clerks : draft[c].pc = "idle"
  BY <1>1 DEF BillInit
<1>4. GivenOut /\ ClaimsANumber /\ Fresh
  BY <1>3 DEF GivenOut, ClaimsANumber, Fresh, Claims
<1>5. QED
  BY <1>2, <1>4 DEF BillInv

(* A number read from the order was told before.                            *)
LEMMA NothingNewIsTold ==
  ASSUME BillInv, NEW o \in Sales, book[o].number # 0, Told(o, book[o].number)
  PROVE  told' = told
<1>1. told \in [Sales -> SUBSET (1 .. MaxNumbers)] /\ book[o].number \in told[o]
  BY DEF BillInv, BillTypes, GivenOut
<1>2. told[o] \cup {book[o].number} = told[o]
  BY <1>1
<1>3. QED
  BY <1>1, <1>2 DEF Told

(* A request that holds no number of its own.                               *)
LEMMA DraftKeeps ==
  ASSUME BillInv, NEW c \in Clerks, NEW x \in DraftType, x.pc # "claim",
         draft' = [draft EXCEPT ![c] = x],
         UNCHANGED <<book, seq, file, restoring, told, reverted, dbLost>>
  PROVE  BillInv'
<1>1. BillTypes /\ GivenOut /\ ClaimsANumber /\ Fresh /\ draft \in [Clerks -> DraftType]
  BY DEF BillInv, BillTypes
<1>2. BillTypes' /\ GivenOut'
  BY <1>1 DEF BillTypes, GivenOut
<1>3. \A d \in Clerks : Claims(d)' => Claims(d) /\ draft'[d] = draft[d]
  BY <1>1 DEF Claims
<1>4. ClaimsANumber'
  BY <1>1, <1>3 DEF ClaimsANumber
<1>5. Fresh'
  BY <1>1, <1>3 DEF Fresh
<1>6. QED
  BY <1>2, <1>4, <1>5 DEF BillInv

(* The orders change, and no number is given.                               *)
LEMMA BookKeeps ==
  ASSUME BillInv, UNCHANGED <<seq, file, draft, told, dbLost>>, book' \in [Sales -> Doc],
         restoring' \in [mode : {"none", "bundle", "merge", "wipe"}, left : SUBSET Sales],
         \A o \in Sales :
           /\ book'[o].number # 0 => book'[o].number \in told[o]
           /\ o \notin reverted' => told[o] \subseteq {book'[o].number} \ {0}
  PROVE  BillInv'
<1>1. BillTypes'
  BY DEF BillInv, BillTypes
<1>2. GivenOut'
  BY DEF BillInv, GivenOut
<1>3. ClaimsANumber' /\ Fresh'
  BY DEF BillInv, ClaimsANumber, Fresh, Claims
<1>4. QED
  BY <1>1, <1>2, <1>3 DEF BillInv

LEMMA OpenInvoiceKeeps ==
  ASSUME BillInv, NEW c \in Clerks, NEW o \in Sales, OpenInvoice(c, o)
  PROVE  BillInv'
<1>1. CASE book[o].number # 0
  <2>1. told' = told /\ UNCHANGED <<book, seq, file, draft, restoring, reverted, dbLost>>
    BY <1>1, NothingNewIsTold DEF OpenInvoice
  <2>2. QED
    BY <2>1, BookKeeps DEF BillInv, BillTypes, GivenOut
<1>2. CASE book[o].number = 0
  <2> DEFINE x == [pc |-> "count", sale |-> o, number |-> 0]
  <2>1. x \in DraftType /\ x.pc # "claim"
    BY BillAssumption DEF DraftType
  <2>2. /\ draft' = [draft EXCEPT ![c] = x]
        /\ UNCHANGED <<book, seq, file, restoring, told, reverted, dbLost>>
    BY <1>2 DEF OpenInvoice
  <2> HIDE DEF x
  <2>3. QED
    BY <2>1, <2>2, DraftKeeps
<1>3. QED
  BY <1>1, <1>2

(* The counter gives a number nobody was told and no request holds.         *)
LEMMA CountInvoiceKeeps ==
  ASSUME BillInv, NEW c \in Clerks, CountInvoice(c)
  PROVE  BillInv'
<1> DEFINE x == [draft[c] EXCEPT !.pc = "claim", !.number = seq + 1]
<1>1. /\ BillTypes /\ GivenOut /\ ClaimsANumber /\ Fresh
      /\ draft \in [Clerks -> DraftType] /\ draft[c].pc = "count" /\ draft[c] \in DraftType
      /\ seq \in 0 .. MaxNumbers /\ seq < MaxNumbers /\ seq' = seq + 1 /\ MaxNumbers \in Nat
      /\ draft' = [draft EXCEPT ![c] = x]
      /\ UNCHANGED <<book, file, restoring, told, reverted, dbLost>>
  BY BillAssumption DEF BillInv, BillTypes, CountInvoice
<1>2. x \in DraftType /\ x.pc = "claim" /\ x.number = seq + 1
  <2> DEFINE y == [draft[c] EXCEPT !.pc = "claim"]
  <2>1. y \in [pc : {"count", "claim", "reread"}, sale : Sales, number : 0 .. MaxNumbers] /\ y.pc = "claim"
    BY <1>1 DEF DraftType
  <2>2. x = [y EXCEPT !.number = seq + 1] /\ seq + 1 \in 0 .. MaxNumbers
    BY <1>1
  <2> HIDE DEF x, y
  <2>3. QED
    BY <2>1, <2>2 DEF DraftType
<1> HIDE DEF x
<1>3. /\ draft' \in [Clerks -> DraftType] /\ draft'[c] = x
      /\ \A d \in Clerks : d # c => draft'[d] = draft[d]
  BY <1>1, <1>2
<1>4. BillTypes' /\ GivenOut'
  BY <1>1, <1>3 DEF BillTypes, GivenOut
<1>5. \A d \in Clerks : d # c /\ Claims(d)' => Claims(d) /\ draft'[d].number = draft[d].number
  BY <1>3 DEF Claims
<1>6. ClaimsANumber'
  <2>1. \A d \in Clerks : Claims(d)' => draft'[d].number # 0
    BY <1>1, <1>2, <1>3, <1>5 DEF ClaimsANumber
  <2>2. QED
    BY <2>1 DEF ClaimsANumber
<1>7. Fresh'
  <2>1. SUFFICES ASSUME ~dbLost PROVE Fresh'
    BY <1>1 DEF Fresh
  <2>2. /\ \A o \in Sales : told[o] \subseteq 1 .. seq
        /\ \A o, p \in Sales : o # p => told[o] \cap told[p] = {}
        /\ \A d \in Clerks : Claims(d) => /\ draft[d].number \in 1 .. seq
                                          /\ \A o \in Sales : draft[d].number \notin told[o]
        /\ \A d, e \in Clerks : Claims(d) /\ Claims(e) /\ d # e => draft[d].number # draft[e].number
    BY <1>1, <2>1 DEF Fresh
  <2>3. \A o \in Sales : told[o] \subseteq 1 .. seq + 1 /\ seq + 1 \notin told[o]
    BY <1>1, <2>2
  <2>4. ASSUME NEW d \in Clerks, Claims(d)'
        PROVE  /\ draft'[d].number \in 1 .. seq + 1
               /\ \A o \in Sales : draft'[d].number \notin told[o]
    <3>1. CASE d = c
      BY <1>1, <1>2, <1>3, <2>3, <3>1
    <3>2. CASE d # c
      BY <1>1, <1>5, <2>2, <2>4, <3>2
    <3>3. QED
      BY <3>1, <3>2
  <2>5. ASSUME NEW d \in Clerks, NEW e \in Clerks, Claims(d)', Claims(e)', d # e
        PROVE  draft'[d].number # draft'[e].number
    <3>1. CASE d = c
      <4>1. draft'[d].number = seq + 1 /\ draft'[e].number \in 1 .. seq
        BY <1>2, <1>3, <1>5, <2>2, <2>5, <3>1
      <4>2. QED
        BY <1>1, <4>1
    <3>2. CASE e = c
      <4>1. draft'[e].number = seq + 1 /\ draft'[d].number \in 1 .. seq
        BY <1>2, <1>3, <1>5, <2>2, <2>5, <3>2
      <4>2. QED
        BY <1>1, <4>1
    <3>3. CASE d # c /\ e # c
      BY <1>5, <2>2, <2>5, <3>3
    <3>4. QED
      BY <3>1, <3>2, <3>3
  <2>6. QED
    BY <1>1, <2>2, <2>3, <2>4, <2>5 DEF Fresh
<1>8. QED
  BY <1>4, <1>6, <1>7 DEF BillInv

(* The order without a number takes the one of the request: the request     *)
(* holds it no more.                                                        *)
LEMMA ClaimNumberKeeps ==
  ASSUME BillInv, NEW c \in Clerks, ClaimNumber(c)
  PROVE  BillInv'
<1>1. /\ BillTypes /\ GivenOut /\ ClaimsANumber /\ Fresh
      /\ draft \in [Clerks -> DraftType] /\ draft[c].pc = "claim" /\ draft[c] \in DraftType
      /\ book \in [Sales -> Doc] /\ told \in [Sales -> SUBSET (1 .. MaxNumbers)] /\ MaxNumbers \in Nat
      /\ UNCHANGED <<seq, file, restoring, reverted, dbLost>>
  BY BillAssumption DEF BillInv, BillTypes, ClaimNumber
<1>2. PICK o : o = draft[c].sale
  OBVIOUS
<1>3. PICK n : n = draft[c].number
  OBVIOUS
<1>4. o \in Sales /\ n \in 1 .. MaxNumbers /\ Claims(c)
  <2>1. draft[c].sale \in Sales /\ draft[c].number \in 0 .. MaxNumbers
    BY <1>1 DEF DraftType
  <2>2. draft[c].number # 0 /\ Claims(c)
    BY <1>1 DEF ClaimsANumber, Claims
  <2>3. QED
    BY <1>1, <1>2, <1>3, <2>1, <2>2
<1>5. CASE Unnumbered(o)
  <2> DEFINE x == [book[o] EXCEPT !.number = n]
  <2>1. /\ book' = [book EXCEPT ![o] = x] /\ book[o].number = 0
        /\ told' = [told EXCEPT ![o] = told[o] \cup {n}]
        /\ draft' = [draft EXCEPT ![c] = NoDraft]
    BY <1>2, <1>3, <1>5 DEF ClaimNumber, Unnumbered, Told, EndDraft
  <2>2. x \in Doc /\ x.number = n
    BY <1>1, <1>4 DEF Doc
  <2>3. NoDraft \in DraftType /\ NoDraft.pc = "idle"
    BY DEF NoDraft, DraftType
  <2> HIDE DEF x
  <2>4. /\ book' \in [Sales -> Doc] /\ book'[o].number = n
        /\ \A p \in Sales : p # o => book'[p] = book[p] /\ told'[p] = told[p]
        /\ told' \in [Sales -> SUBSET (1 .. MaxNumbers)] /\ told'[o] = told[o] \cup {n}
        /\ draft' \in [Clerks -> DraftType] /\ draft'[c].pc = "idle"
        /\ \A d \in Clerks : d # c => draft'[d] = draft[d]
    BY <1>1, <1>4, <2>1, <2>2, <2>3
  <2>5. BillTypes'
    BY <1>1, <2>4 DEF BillTypes
  <2>6. GivenOut'
    <3>1. ASSUME NEW p \in Sales
          PROVE  /\ book'[p].number # 0 => book'[p].number \in told'[p]
                 /\ file[p].number # 0 => file[p].number \in told'[p]
                 /\ p \notin reverted => told'[p] \subseteq {book'[p].number} \ {0}
      <4>1. CASE p = o
        <5>1. o \notin reverted => told[o] \subseteq {}
          BY <1>1, <1>4, <2>1 DEF GivenOut
        <5>2. QED
          BY <1>1, <1>4, <2>4, <4>1, <5>1 DEF GivenOut
      <4>2. CASE p # o
        BY <1>1, <2>4, <4>2 DEF GivenOut
      <4>3. QED
        BY <4>1, <4>2
    <3>2. QED
      BY <1>1, <3>1 DEF GivenOut
  <2>7. \A d \in Clerks : Claims(d)' => d # c /\ Claims(d) /\ draft'[d].number = draft[d].number
    BY <2>4 DEF Claims
  <2>8. ClaimsANumber'
    BY <1>1, <2>7 DEF ClaimsANumber
  <2>9. Fresh'
    <3>1. SUFFICES ASSUME ~dbLost PROVE Fresh'
      BY <1>1 DEF Fresh
    <3>2. /\ \A p \in Sales : told[p] \subseteq 1 .. seq
          /\ \A p, q \in Sales : p # q => told[p] \cap told[q] = {}
          /\ \A d \in Clerks : Claims(d) => /\ draft[d].number \in 1 .. seq
                                            /\ \A p \in Sales : draft[d].number \notin told[p]
          /\ \A d, e \in Clerks : Claims(d) /\ Claims(e) /\ d # e => draft[d].number # draft[e].number
      BY <1>1, <3>1 DEF Fresh
    <3>3. n \in 1 .. seq /\ \A p \in Sales : n \notin told[p]
      BY <1>3, <1>4, <3>2
    <3>4. \A p \in Sales : told'[p] \subseteq told[p] \cup {n} /\ (p # o => told'[p] = told[p])
      BY <2>4
    <3>5. \A p \in Sales : told'[p] \subseteq 1 .. seq
      BY <3>2, <3>3, <3>4
    <3>6. \A p, q \in Sales : p # q => told'[p] \cap told'[q] = {}
      <4>1. ASSUME NEW p \in Sales, NEW q \in Sales, p # q PROVE told'[p] \cap told'[q] = {}
        <5>1. CASE p = o
          BY <3>2, <3>3, <3>4, <4>1, <5>1
        <5>2. CASE p # o
          BY <3>2, <3>3, <3>4, <4>1, <5>2
        <5>3. QED
          BY <5>1, <5>2
      <4>2. QED
        BY <4>1
    <3>7. ASSUME NEW d \in Clerks, Claims(d)'
          PROVE  draft'[d].number \in 1 .. seq /\ \A p \in Sales : draft'[d].number \notin told'[p]
      <4>1. d # c /\ Claims(d) /\ draft'[d].number = draft[d].number
        BY <2>7, <3>7
      <4>2. draft[d].number # n
        BY <1>3, <1>4, <3>2, <4>1
      <4>3. QED
        BY <3>2, <3>4, <4>1, <4>2
    <3>8. \A d, e \in Clerks : Claims(d)' /\ Claims(e)' /\ d # e => draft'[d].number # draft'[e].number
      BY <2>7, <3>2
    <3>9. QED
      BY <1>1, <3>5, <3>6, <3>7, <3>8 DEF Fresh
  <2>10. QED
    BY <2>5, <2>6, <2>8, <2>9 DEF BillInv
<1>6. CASE ~Unnumbered(o)
  <2> DEFINE x == [draft[c] EXCEPT !.pc = "reread"]
  <2>1. x \in DraftType /\ x.pc # "claim"
    BY <1>1 DEF DraftType
  <2>2. draft' = [draft EXCEPT ![c] = x] /\ UNCHANGED <<book, told>>
    BY <1>2, <1>6 DEF ClaimNumber
  <2> HIDE DEF x
  <2>3. QED
    BY <1>1, <2>1, <2>2, DraftKeeps
<1>7. QED
  BY <1>5, <1>6

LEMMA RereadKeeps ==
  ASSUME BillInv, NEW c \in Clerks, Reread(c)
  PROVE  BillInv'
<1>1. PICK o : o = draft[c].sale
  OBVIOUS
<1>2. o \in Sales
  BY <1>1 DEF BillInv, BillTypes, Reread, DraftType
<1>3. told' = told
  BY <1>1, <1>2, NothingNewIsTold DEF Reread
<1>4. NoDraft \in DraftType /\ NoDraft.pc # "claim" /\ draft' = [draft EXCEPT ![c] = NoDraft]
  BY DEF NoDraft, DraftType, Reread, EndDraft
<1>5. QED
  BY <1>3, <1>4, DraftKeeps DEF Reread

LEMMA PlaceSaleKeeps ==
  ASSUME BillInv, NEW o \in Sales, PlaceSale(o)
  PROVE  BillInv'
<1> DEFINE x == [id |-> 1, number |-> 0]
<1>1. /\ x \in Doc /\ x.number = 0 /\ NoDoc.number = 0
  BY BillAssumption DEF Doc, NoDoc
<1>2. /\ book \in [Sales -> Doc] /\ GivenOut /\ BillTypes
      /\ book' = [book EXCEPT ![o] = x] /\ book[o].number = 0
      /\ UNCHANGED <<seq, file, draft, restoring, told, reverted, dbLost>>
  BY <1>1 DEF BillInv, BillTypes, PlaceSale
<1> HIDE DEF x
<1>3. book' \in [Sales -> Doc] /\ \A p \in Sales : book'[p].number = book[p].number
  BY <1>1, <1>2
<1>4. QED
  BY <1>2, <1>3, BookKeeps DEF BillTypes, GivenOut

LEMMA ExportKeeps ==
  ASSUME BillInv, NEW o \in Sales, Export(o)
  PROVE  BillInv'
<1>1. /\ book \in [Sales -> Doc] /\ file \in [Sales -> Doc] /\ GivenOut /\ BillTypes
      /\ file' = [file EXCEPT ![o] = book[o]]
      /\ UNCHANGED <<seq, book, draft, restoring, told, reverted, dbLost>>
  BY DEF BillInv, BillTypes, Export
<1>2. file' \in [Sales -> Doc] /\ \A p \in Sales : file'[p] \in {book[p], file[p]}
  BY <1>1
<1>3. BillTypes'
  BY <1>1, <1>2 DEF BillTypes
<1>4. GivenOut'
  <2>1. ASSUME NEW p \in Sales PROVE file'[p].number # 0 => file'[p].number \in told[p]
    BY <1>1, <1>2 DEF GivenOut
  <2>2. QED
    BY <1>1, <2>1 DEF GivenOut
<1>5. ClaimsANumber' /\ Fresh'
  BY <1>1 DEF BillInv, ClaimsANumber, Fresh, Claims
<1>6. QED
  BY <1>3, <1>4, <1>5 DEF BillInv

LEMMA StartRestoreKeeps ==
  ASSUME BillInv, NEW mode \in {"bundle", "merge", "wipe"}, StartRestore(mode)
  PROVE  BillInv'
<1>1. /\ book \in [Sales -> Doc] /\ GivenOut /\ BillTypes /\ NoDoc \in Doc /\ NoDoc.number = 0
      /\ UNCHANGED <<seq, file, draft, told, dbLost>>
  BY BillAssumption DEF BillInv, BillTypes, StartRestore, NoDoc, Doc
<1>2. restoring' \in [mode : {"none", "bundle", "merge", "wipe"}, left : SUBSET Sales]
  BY DEF StartRestore
<1>3. CASE mode = "wipe"
  <2>1. /\ book' = [o \in Sales |-> NoDoc]
        /\ reverted' = reverted \cup {o \in Sales : book[o].number # 0}
    BY <1>3 DEF StartRestore
  <2>2. book' \in [Sales -> Doc] /\ \A o \in Sales : book'[o].number = 0
    BY <1>1, <2>1
  <2>3. ASSUME NEW o \in Sales, o \notin reverted' PROVE told[o] \subseteq {}
    BY <1>1, <2>1, <2>3 DEF GivenOut
  <2>4. QED
    BY <1>1, <1>2, <2>2, <2>3, BookKeeps
<1>4. CASE mode # "wipe"
  <2>1. UNCHANGED <<book, reverted>>
    BY <1>4 DEF StartRestore
  <2>2. QED
    BY <1>1, <1>2, <2>1, BookKeeps DEF GivenOut
<1>5. QED
  BY <1>3, <1>4

(* A restored document brings a number that was told, or takes one away.    *)
LEMMA RestoreDocKeeps ==
  ASSUME BillInv, NEW o \in Sales, RestoreDoc(o)
  PROVE  BillInv'
<1>1. /\ book \in [Sales -> Doc] /\ file \in [Sales -> Doc] /\ GivenOut /\ BillTypes
      /\ restoring \in [mode : {"none", "bundle", "merge", "wipe"}, left : SUBSET Sales]
      /\ book[o] \in Doc /\ file[o] \in Doc
      /\ UNCHANGED <<seq, file, draft, told, dbLost>>
  BY DEF BillInv, BillTypes, RestoreDoc
<1>2. restoring' \in [mode : {"none", "bundle", "merge", "wipe"}, left : SUBSET Sales]
  BY <1>1 DEF RestoreDoc, NoRestore
<1>3. CASE UNCHANGED <<book, reverted>>
  BY <1>1, <1>2, <1>3, BookKeeps DEF GivenOut
<1>4. CASE ~UNCHANGED <<book, reverted>>
  <2>1. PICK id \in 0 .. MaxIds : Replace(o, [file[o] EXCEPT !.id = id])
    <3>1. /\ file[o].id \in 0 .. MaxIds /\ book[o].id \in 0 .. MaxIds /\ MaxIds \in Nat
          /\ file[o].id < MaxIds => file[o].id + 1 \in 0 .. MaxIds
      BY <1>1, BillAssumption DEF Doc
    <3>2. QED
      BY <1>4, <3>1 DEF RestoreDoc
  <2>2. PICK x : x = [file[o] EXCEPT !.id = id]
    OBVIOUS
  <2>3. x \in Doc /\ x.number = file[o].number
    BY <1>1, <2>2 DEF Doc
  <2>4. /\ book' = [book EXCEPT ![o] = x]
        /\ reverted' = IF book[o].number \notin {0, x.number} THEN reverted \cup {o} ELSE reverted
    BY <2>1, <2>2 DEF Replace
  <2>5. book' \in [Sales -> Doc] /\ book'[o] = x /\ \A p \in Sales : p # o => book'[p] = book[p]
    BY <1>1, <2>3, <2>4
  <2>6. ASSUME NEW p \in Sales
        PROVE  /\ book'[p].number # 0 => book'[p].number \in told[p]
               /\ p \notin reverted' => told[p] \subseteq {book'[p].number} \ {0}
    <3>1. CASE p # o
      <4>1. book'[p] = book[p] /\ (p \notin reverted' => p \notin reverted)
        BY <2>4, <2>5, <3>1
      <4>2. QED
        BY <1>1, <4>1 DEF GivenOut
    <3>2. CASE p = o
      <4>1. book'[p].number = file[o].number
        BY <2>3, <2>5, <3>2
      <4>2. file[o].number # 0 => file[o].number \in told[o]
        BY <1>1 DEF GivenOut
      <4>3. ASSUME o \notin reverted' PROVE told[o] \subseteq {file[o].number} \ {0}
        <5>1. o \notin reverted /\ (book[o].number = 0 \/ book[o].number = file[o].number)
          BY <2>3, <2>4, <4>3
        <5>2. told[o] \subseteq {book[o].number} \ {0}
          BY <1>1, <5>1 DEF GivenOut
        <5>3. QED
          BY <5>1, <5>2
      <4>4. QED
        BY <3>2, <4>1, <4>2, <4>3
    <3>3. QED
      BY <3>1, <3>2
  <2>7. QED
    BY <1>1, <1>2, <2>5, <2>6, BookKeeps
<1>5. QED
  BY <1>3, <1>4

(* The counters are lost: what is left is that nobody is told two numbers.  *)
LEMMA LoseDatabaseKeeps ==
  ASSUME BillInv, LoseDatabase
  PROVE  BillInv'
<1>1. /\ NoDoc \in Doc /\ NoDoc.number = 0 /\ NoDraft \in DraftType /\ NoDraft.pc = "idle"
      /\ NoRestore \in [mode : {"none", "bundle", "merge", "wipe"}, left : SUBSET Sales]
  BY BillAssumption DEF NoDoc, Doc, NoDraft, DraftType, NoRestore
<1>2. /\ BillTypes /\ GivenOut /\ dbLost' = TRUE
      /\ book' = [o \in Sales |-> NoDoc] /\ seq' = 0
      /\ reverted' = reverted \cup {o \in Sales : book[o].number # 0}
      /\ draft' = [c \in Clerks |-> NoDraft] /\ restoring' = NoRestore
      /\ UNCHANGED <<file, told>>
  BY DEF BillInv, LoseDatabase
<1>3. BillTypes'
  BY <1>1, <1>2, BillAssumption DEF BillTypes
<1>4. GivenOut'
  <2>1. \A o \in Sales : book'[o].number = 0
    BY <1>1, <1>2
  <2>2. \A o \in Sales : o \notin reverted' => told[o] \subseteq {}
    BY <1>2 DEF GivenOut
  <2>3. QED
    BY <1>2, <2>1, <2>2 DEF GivenOut
<1>5. ClaimsANumber' /\ Fresh'
  BY <1>1, <1>2 DEF ClaimsANumber, Claims, Fresh
<1>6. QED
  BY <1>3, <1>4, <1>5 DEF BillInv

LEMMA BillStepKeeps ==
  ASSUME BillInv, [BillNext]_billVars
  PROVE  BillInv'
<1>1. ASSUME NEW o \in Sales,
             PlaceSale(o) \/ Export(o) \/ RestoreDoc(o) \/ \E c \in Clerks : OpenInvoice(c, o)
      PROVE  BillInv'
  BY <1>1, PlaceSaleKeeps, ExportKeeps, RestoreDocKeeps, OpenInvoiceKeeps
<1>2. ASSUME NEW c \in Clerks, CountInvoice(c) \/ ClaimNumber(c) \/ Reread(c)
      PROVE  BillInv'
  BY <1>2, CountInvoiceKeeps, ClaimNumberKeeps, RereadKeeps
<1>3. ASSUME NEW mode \in {"bundle", "merge", "wipe"}, StartRestore(mode)
      PROVE  BillInv'
  BY <1>3, StartRestoreKeeps
<1>4. CASE BreakOffRestore
  <2>1. NoRestore \in [mode : {"none", "bundle", "merge", "wipe"}, left : SUBSET Sales]
    BY DEF NoRestore
  <2>2. QED
    BY <1>4, <2>1, BookKeeps DEF BreakOffRestore, BillInv, BillTypes, GivenOut
<1>5. CASE UNCHANGED billVars
  BY <1>5, BookKeeps DEF billVars, BillInv, BillTypes, GivenOut
<1>6. QED
  BY <1>1, <1>2, <1>3, <1>4, <1>5, LoseDatabaseKeeps DEF BillNext

(* However many orders, requests and numbers there are: every number on an  *)
(* order or in its backup was told for it, and what the counter still gives *)
(* was told for none.                                                       *)
THEOREM BillInvHolds == BillSpec => []BillInv
<1>1. BillInit => BillInv
  BY BillStart
<1>2. BillInv /\ [BillNext]_billVars => BillInv'
  BY BillStepKeeps
<1>3. QED
  BY <1>1, <1>2, PTL DEF BillSpec

(* An order has one invoice number, unless a restore took it away, and no   *)
(* two orders the same one, unless the counters were lost.                  *)
THEOREM InvoicesNumberedOnceHolds == BillSpec => []InvoicesNumberedOnce
<1>1. BillInv => InvoicesNumberedOnce
  <2>1. ASSUME BillInv, NEW o \in Sales \ reverted PROVE Cardinality(told[o]) <= 1
    <3>1. told[o] \subseteq {book[o].number}
      BY <2>1 DEF BillInv, GivenOut
    <3>2. IsFiniteSet({book[o].number}) /\ Cardinality({book[o].number}) = 1
      BY FS_Singleton
    <3>3. QED
      BY <3>1, <3>2, FS_Subset, FS_CardinalityType
  <2>2. QED
    BY <2>1 DEF BillInv, Fresh, InvoicesNumberedOnce
<1>2. QED
  BY <1>1, BillInvHolds, PTL
-----------------------------------------------------------------------------
(* Sums.  The library's induction theorems speak of operators; minimal      *)
(* elements of a set do as well.                                            *)
LEMMA Smallest ==
  ASSUME NEW T \in SUBSET Nat, T # {}
  PROVE  \E m \in T : \A n \in T : m <= n
<1>1. PICK m \in T : \A n \in T : <<n, m>> \notin OpToRel(<, Nat)
  BY NatLessThanWellFounded, WFMin
<1>2. ASSUME NEW n \in T PROVE m <= n
  <2>1. <<n, m>> \notin OpToRel(<, Nat)
    BY <1>1
  <2>2. n \in Nat /\ m \in Nat /\ ~(n < m)
    BY <2>1 DEF OpToRel
  <2>3. QED
    BY <2>2
<1>3. QED
  BY <1>2

LEMMA Counting ==
  ASSUME NEW T \in SUBSET Nat, 0 \in T, NEW n \in Nat,
         \A k \in T : k < n => k + 1 \in T
  PROVE  \A k \in 0 .. n : k \in T
<1> SUFFICES ASSUME NEW k \in 0 .. n, k \notin T PROVE FALSE
  OBVIOUS
<1>1. PICK m \in (0 .. n) \ T : \A j \in (0 .. n) \ T : m <= j
  <2>1. (0 .. n) \ T \in SUBSET Nat /\ (0 .. n) \ T # {}
    OBVIOUS
  <2>2. QED
    BY <2>1, Smallest
<1>2. m # 0 /\ m - 1 \in 0 .. n /\ m - 1 \in T /\ m - 1 < n
  BY <1>1
<1>3. QED
  BY <1>1, <1>2

(* FoldLeft adds from the left: g is a table of sums over sets of indices.  *)
IsIter(g, s, S) ==
  g = [t \in SUBSET S |-> IF t = {} THEN 0 ELSE g[t \ {Max(t)}] + s[Max(t)]]

LEMMA SumIs ==
  ASSUME NEW s
  PROVE  Sum(s) = (CHOOSE g : IsIter(g, s, DOMAIN s))[DOMAIN s]
BY DEF Sum, FoldLeft, MapThenFoldSet, IsIter

LEMMA MaxIs ==
  ASSUME NEW k \in Nat, NEW t \in SUBSET (1 .. k), k \in t
  PROVE  Max(t) = k
<1>1. \A m \in t : (\A x \in t : m >= x) => m = k
  OBVIOUS
<1>2. \A x \in t : k >= x
  OBVIOUS
<1>3. QED
  BY <1>1, <1>2 DEF Max

LEMMA IterExists ==
  ASSUME NEW s, NEW n \in Nat
  PROVE  \E g : IsIter(g, s, 1 .. n)
<1> DEFINE T == {k \in Nat : \E g : IsIter(g, s, 1 .. k)}
<1>1. 0 \in T
  <2> DEFINE g == [t \in SUBSET (1 .. 0) |-> 0]
  <2>1. \A t \in SUBSET (1 .. 0) : t = {}
    OBVIOUS
  <2>2. IsIter(g, s, 1 .. 0)
    BY <2>1 DEF IsIter
  <2>3. QED
    BY <2>2
<1>2. ASSUME NEW k \in T PROVE k + 1 \in T
  <2>1. PICK g : IsIter(g, s, 1 .. k)
    OBVIOUS
  <2> DEFINE h == [t \in SUBSET (1 .. k + 1) |->
                     IF k + 1 \in t THEN g[t \ {k + 1}] + s[k + 1] ELSE g[t]]
  <2>2. ASSUME NEW t \in SUBSET (1 .. k + 1)
        PROVE  h[t] = IF t = {} THEN 0 ELSE h[t \ {Max(t)}] + s[Max(t)]
    <3>1. CASE k + 1 \in t
      <4>1. Max(t) = k + 1
        BY <3>1, MaxIs
      <4>2. t \ {k + 1} \in SUBSET (1 .. k + 1) /\ k + 1 \notin t \ {k + 1}
        OBVIOUS
      <4>3. h[t \ {k + 1}] = g[t \ {k + 1}]
        BY <4>2
      <4>4. QED
        BY <3>1, <4>1, <4>3
    <3>2. CASE k + 1 \notin t
      <4>1. t \in SUBSET (1 .. k) /\ h[t] = g[t]
        BY <3>2
      <4>2. t \ {Max(t)} \in SUBSET (1 .. k + 1) /\ k + 1 \notin t \ {Max(t)}
        BY <3>2
      <4>3. h[t \ {Max(t)}] = g[t \ {Max(t)}]
        BY <4>2
      <4>4. g[t] = IF t = {} THEN 0 ELSE g[t \ {Max(t)}] + s[Max(t)]
        BY <2>1, <4>1 DEF IsIter
      <4>5. QED
        BY <4>1, <4>3, <4>4
    <3>3. QED
      BY <3>1, <3>2
  <2>3. h = [t \in SUBSET (1 .. k + 1) |-> h[t]]
    OBVIOUS
  <2> HIDE DEF h
  <2>4. IsIter(h, s, 1 .. k + 1)
    BY <2>2, <2>3 DEF IsIter
  <2>5. QED
    BY <2>4
<1>3. T \in SUBSET Nat /\ n \in Nat /\ n \in 0 .. n
  OBVIOUS
<1> HIDE DEF T
<1>4. n \in T
  BY <1>3, <1>1, <1>2, Counting
<1>5. QED
  BY <1>4 DEF T

(* Up(f, s, n): f tells the sums of the prefixes of s, up to n.             *)
Up(f, s, n) ==
  /\ f \in [0 .. n -> Int] /\ f[0] = 0
  /\ \A k \in 1 .. n : f[k] = f[k - 1] + s[k]

LEMMA SumUp ==
  ASSUME NEW n \in Nat, NEW s \in [1 .. n -> Int]
  PROVE  \E f : Up(f, s, n) /\ Sum(s) = f[n]
<1> DEFINE g == CHOOSE g : IsIter(g, s, DOMAIN s)
           f == [k \in 0 .. n |-> g[1 .. k]]
<1>1. DOMAIN s = 1 .. n /\ \A k \in 1 .. n : s[k] \in Int
  OBVIOUS
<1>2. IsIter(g, s, 1 .. n)
  BY <1>1, IterExists
<1>3. Sum(s) = f[n]
  BY <1>1, SumIs
<1> HIDE DEF g
<1>4. f[0] = 0
  BY <1>1, <1>2 DEF IsIter
<1>5. ASSUME NEW k \in 1 .. n PROVE f[k] = f[k - 1] + s[k]
  <2>1. Max(1 .. k) = k
    BY MaxIs
  <2>2. 1 .. k # {} /\ 1 .. k \in SUBSET (1 .. n)
    OBVIOUS
  <2>3. (1 .. k) \ {k} = 1 .. k - 1
    OBVIOUS
  <2>4. g[1 .. k] = g[1 .. k - 1] + s[k]
    BY <1>2, <2>1, <2>2, <2>3 DEF IsIter
  <2>5. f[k] = g[1 .. k] /\ f[k - 1] = g[1 .. k - 1]
    OBVIOUS
  <2>6. QED
    BY <2>4, <2>5
<1>6. f \in [0 .. n -> Int]
  <2> DEFINE T == {k \in Nat : k <= n => f[k] \in Int}
  <2>1. \A k \in T : k < n => k + 1 \in T
    <3> SUFFICES ASSUME NEW k \in T, k < n PROVE f[k + 1] \in Int
      OBVIOUS
    <3> HIDE DEF f
    <3>1. k + 1 \in 1 .. n /\ (k + 1) - 1 = k /\ f[k] \in Int
      BY <1>1
    <3>2. QED
      BY <1>1, <1>5, <3>1
  <2>2. 0 \in T
    BY <1>4
  <2>3. T \in SUBSET Nat
    OBVIOUS
  <2> HIDE DEF T
  <2>4. \A k \in 0 .. n : k \in T
    BY <2>1, <2>2, <2>3, Counting
  <2>5. QED
    BY <2>4 DEF T
<1>7. QED
  BY <1>3, <1>4, <1>5, <1>6 DEF Up

LEMMA UpToo ==
  ASSUME NEW n \in Nat, NEW m \in Nat, NEW l \in Nat, l <= n, l <= m, NEW s, NEW r, NEW f, NEW g,
         Up(f, s, n), Up(g, r, m), \A k \in 1 .. l : s[k] = r[k]
  PROVE  f[l] = g[l]
<1> DEFINE T == {k \in Nat : k <= l => f[k] = g[k]}
<1>1. T \in SUBSET Nat /\ l \in 0 .. l
  OBVIOUS
<1>2. 0 \in T
  BY DEF Up
<1>3. \A k \in T : k < l => k + 1 \in T
  <2> SUFFICES ASSUME NEW k \in T, k < l PROVE f[k + 1] = g[k + 1]
    OBVIOUS
  <2>1. k + 1 \in 1 .. n /\ k + 1 \in 1 .. m /\ k + 1 \in 1 .. l /\ (k + 1) - 1 = k
    OBVIOUS
  <2>2. QED
    BY <2>1 DEF Up
<1> HIDE DEF T
<1>4. l \in T
  BY <1>1, <1>2, <1>3, Counting
<1>5. QED
  BY <1>4 DEF T

(* Where nothing is added any more, the sum stays.                          *)
LEMMA UpFlat ==
  ASSUME NEW n \in Nat, NEW m \in 0 .. n, NEW s, NEW f, Up(f, s, n),
         \A k \in 1 .. n : k > m => s[k] = 0
  PROVE  f[n] = f[m]
<1> DEFINE T == {k \in Nat : m <= k /\ k <= n => f[k] = f[m]}
<1>1. T \in SUBSET Nat /\ n \in 0 .. n /\ m <= n
  OBVIOUS
<1>2. 0 \in T
  OBVIOUS
<1>3. \A k \in T : k < n => k + 1 \in T
  <2> SUFFICES ASSUME NEW k \in T, k < n, m <= k + 1 PROVE f[k + 1] = f[m]
    OBVIOUS
  <2>1. k + 1 \in 1 .. n /\ (k + 1) - 1 = k /\ f[m] \in Int
    BY DEF Up
  <2>2. CASE m = k + 1
    BY <2>2
  <2>3. CASE m <= k
    <3>1. f[k] = f[m] /\ s[k + 1] = 0
      BY <2>1, <2>3
    <3>2. f[k + 1] = f[k] + s[k + 1]
      BY <2>1 DEF Up
    <3>3. QED
      BY <2>1, <3>1, <3>2
  <2>4. QED
    BY <2>2, <2>3
<1> HIDE DEF T
<1>4. n \in T
  BY <1>1, <1>2, <1>3, Counting
<1>5. QED
  BY <1>1, <1>4 DEF T

(* money() rounds to the nearest paisa, a half up.                          *)
LEMMA QuotientIs ==
  ASSUME NEW a \in Int, NEW b \in Nat \ {0}
  PROVE  /\ Quotient(a, b) \in Int
         /\ 2 * (b * Quotient(a, b)) <= 2 * a + b
         /\ 2 * a < 2 * (b * Quotient(a, b)) + b
<1> DEFINE x == 2 * a + b
           y == 2 * b
<1>1. x \in Int /\ y \in Int /\ y > 0
  OBVIOUS
<1> HIDE DEF x, y
<1>2. x \div y \in Int /\ y * (x \div y) <= x /\ x < y * (x \div y) + y
  BY <1>1
<1>3. Quotient(a, b) = x \div y
  BY DEF Quotient, x, y
<1>4. y * Quotient(a, b) = 2 * (b * Quotient(a, b))
  BY <1>2, <1>3 DEF y
<1>5. QED
  BY <1>2, <1>3, <1>4 DEF x, y

LEMMA QuotientOfZero ==
  ASSUME NEW b \in Nat \ {0}
  PROVE  Quotient(0, b) = 0
<1> DEFINE q == Quotient(0, b)
<1>1. q \in Int /\ 2 * (b * q) <= b /\ 0 < 2 * (b * q) + b
  BY QuotientIs
<1> HIDE DEF q
<1>2. q >= 1 => b * q >= b
  BY <1>1
<1>3. q <= -1 => b * q <= -b
  BY <1>1
<1>4. QED
  BY <1>1, <1>2, <1>3 DEF q

LEMMA TaxLineIs ==
  ASSUME NEW net \in Int, NEW rate \in Nat
  PROVE  LET line == TaxLine(net, rate)
         IN /\ line.taxable \in Int /\ line.cgst \in Int /\ line.sgst \in Int
            /\ line.taxable + line.cgst + line.sgst = net
            /\ line.cgst - line.sgst \in {0, 1}
<1> DEFINE taxable == Quotient(net * 100, 100 + rate)
           half == Quotient(net - taxable, 2)
<1>1. taxable \in Int
  BY QuotientIs
<1> HIDE DEF taxable
<1>2. half \in Int /\ 2 * (2 * half) <= 2 * (net - taxable) + 2
      /\ 2 * (net - taxable) < 2 * (2 * half) + 2
  BY <1>1, QuotientIs
<1> HIDE DEF half
<1>3. TaxLine(net, rate) = [taxable |-> taxable, cgst |-> half, sgst |-> net - taxable - half]
  BY DEF TaxLine, taxable, half
<1>4. QED
  BY <1>1, <1>2, <1>3

LEMMA LeastIs ==
  ASSUME NEW a \in Nat, NEW b \in Nat
  PROVE  Least(a, b) \in Nat /\ Least(a, b) <= a /\ Least(a, b) <= b
BY DEF Least

LEMMA SumOfNat ==
  ASSUME NEW n \in Nat, NEW s \in [1 .. n -> Nat]
  PROVE  \E f \in [0 .. n -> Nat] : Up(f, s, n) /\ Sum(s) = f[n]
<1>1. PICK f : Up(f, s, n) /\ Sum(s) = f[n]
  BY SumUp
<1> DEFINE T == {k \in Nat : k <= n => f[k] \in Nat}
<1>2. 0 \in T
  BY <1>1 DEF Up
<1>3. \A k \in T : k < n => k + 1 \in T
  <2> SUFFICES ASSUME NEW k \in T, k < n PROVE f[k + 1] \in Nat
    OBVIOUS
  <2>1. k + 1 \in 1 .. n /\ (k + 1) - 1 = k /\ f[k] \in Nat
    OBVIOUS
  <2>2. s[k + 1] \in Nat /\ f[k + 1] = f[k] + s[k + 1]
    BY <1>1, <2>1 DEF Up
  <2>3. QED
    BY <2>1, <2>2
<1>4. T \in SUBSET Nat
  OBVIOUS
<1> HIDE DEF T
<1>5. \A k \in 0 .. n : k \in T
  BY <1>2, <1>3, <1>4, Counting
<1>6. \A k \in 0 .. n : f[k] \in Nat
  BY <1>5 DEF T
<1>7. QED
  BY <1>1, <1>6 DEF Up

LEMMA EligibleIs ==
  ASSUME NEW n \in Nat, NEW lines \in [1 .. n -> Nat], NEW mask \in [1 .. n -> BOOLEAN]
  PROVE  LET a == Eligible(lines, mask)
         IN /\ a \in [1 .. n -> Nat]
            /\ \A i \in 1 .. n : a[i] = IF mask[i] THEN lines[i] ELSE 0
BY DEF Eligible

LEMMA CartIs ==
  ASSUME NEW q, IsCart(q)
  PROVE  LET n == Len(q.lines)
         IN /\ n \in Nat /\ q.lines \in [1 .. n -> Nat] /\ q.mask \in [1 .. n -> BOOLEAN]
            /\ q.percent \in BOOLEAN /\ q.amount \in Nat /\ (q.percent => q.amount <= 100)
            /\ q.shipping \in Nat /\ q.rate \in Nat
BY DEF IsCart

(* The discount never exceeds the lines the coupon names.                   *)
LEMMA DiscountIs ==
  ASSUME NEW q, IsCart(q)
  PROVE  /\ Discount(q) \in Nat /\ Discount(q) <= Sum(Eligible(q.lines, q.mask))
         /\ Sum(Eligible(q.lines, q.mask)) \in Nat /\ Sum(q.lines) \in Nat
<1> DEFINE n == Len(q.lines)
           a == Eligible(q.lines, q.mask)
<1>1. /\ n \in Nat /\ q.lines \in [1 .. n -> Nat] /\ q.mask \in [1 .. n -> BOOLEAN]
      /\ q.amount \in Nat /\ (q.percent => q.amount <= 100)
  BY CartIs
<1> HIDE DEF n
<1>2. a \in [1 .. n -> Nat]
  BY <1>1, EligibleIs
<1> HIDE DEF a
<1>3. Sum(a) \in Nat /\ Sum(q.lines) \in Nat
  <2>1. \A r \in [1 .. n -> Nat] : Sum(r) \in Nat
    <3> TAKE r \in [1 .. n -> Nat]
    <3>1. PICK f \in [0 .. n -> Nat] : Sum(r) = f[n]
      BY <1>1, SumOfNat
    <3>2. QED
      BY <1>1, <3>1
  <2>2. QED
    BY <1>1, <1>2, <2>1
<1> DEFINE product == Sum(a) * q.amount
           percent == Quotient(product, 100)
<1>4. q.percent => percent \in Nat /\ percent <= Sum(a)
  <2> SUFFICES ASSUME q.percent PROVE percent \in Nat /\ percent <= Sum(a)
    OBVIOUS
  <2>1. q.amount \in Nat /\ q.amount <= 100
    BY <1>1
  <2>2. product \in Nat /\ product <= 100 * Sum(a)
    BY <1>3, <2>1
  <2> HIDE DEF product
  <2>3. /\ percent \in Int /\ 2 * (100 * percent) <= 2 * product + 100
        /\ 2 * product < 2 * (100 * percent) + 100
    BY <2>2, QuotientIs
  <2> HIDE DEF percent
  <2>4. QED
    BY <1>3, <2>2, <2>3
<1> DEFINE computed == IF q.percent THEN percent ELSE Least(q.amount, Sum(a))
<1>5. computed \in Nat /\ computed <= Sum(a)
  BY <1>1, <1>3, <1>4, LeastIs
<1>6. Discount(q) = Least(computed, Sum(q.lines))
  BY DEF Discount, a
<1> HIDE DEF computed
<1>7. Discount(q) \in Nat /\ Discount(q) <= computed
  BY <1>3, <1>5, <1>6, LeastIs
<1>8. QED
  BY <1>3, <1>5, <1>7 DEF a

LEMMA DriftStep ==
  ASSUME NEW s \in Nat, NEW e \in Nat, NEW k \in Nat,
         NEW f \in Int, NEW g \in Int, NEW x \in Int, NEW y \in Int,
         2 * (s * f - e * g) <= k * e, -(2 * (s * f - e * g)) <= k * e,
         2 * (e * y) <= 2 * (s * x) + e, 2 * (s * x) < 2 * (e * y) + e
  PROVE  /\ 2 * (s * (f + x) - e * (g + y)) <= (k + 1) * e
         /\ -(2 * (s * (f + x) - e * (g + y))) <= (k + 1) * e
<1>1. 2 * (s * (f + x) - e * (g + y)) = 2 * (s * f - e * g) + 2 * (s * x) - 2 * (e * y)
  OBVIOUS
<1>2. (k + 1) * e = k * e + e
  OBVIOUS
<1> DEFINE d == 2 * (s * f - e * g)
           sx == s * x
           ey == e * y
           ke == k * e
<1>3. d \in Int /\ sx \in Int /\ ey \in Int /\ ke \in Int
  OBVIOUS
<1>4. d <= ke /\ -d <= ke /\ 2 * ey <= 2 * sx + e /\ 2 * sx < 2 * ey + e
  OBVIOUS
<1> HIDE DEF d, sx, ey, ke
<1>5. d + 2 * sx - 2 * ey <= ke + e /\ -(d + 2 * sx - 2 * ey) <= ke + e
  BY <1>3, <1>4
<1>6. QED
  BY <1>1, <1>2, <1>5 DEF d, sx, ey, ke

LEMMA OffIs ==
  ASSUME NEW s \in Nat, NEW e \in Nat, NEW n \in Nat \ {0}, NEW x \in Int, NEW y \in Int,
         2 * (e * y) <= 2 * (s * x) + e, 2 * (s * x) < 2 * (e * y) + e
  PROVE  2 * (y * e - s * x) <= n * e /\ -(2 * (y * e - s * x)) <= n * e
<1>1. e <= n * e /\ n * e \in Nat
  OBVIOUS
<1>2. 2 * (y * e - s * x) = 2 * (e * y) - 2 * (s * x)
  OBVIOUS
<1>3. 2 * (e * y) \in Int /\ 2 * (s * x) \in Int
  OBVIOUS
<1>4. QED
  BY <1>1, <1>2, <1>3

LEMMA RestIs ==
  ASSUME NEW s \in Nat, NEW e \in Nat, NEW n \in Nat, NEW l \in Nat, l <= n,
         NEW f \in Int, NEW g \in Int, NEW x \in Int, f + x = e,
         2 * (s * f - e * g) <= l * e, -(2 * (s * f - e * g)) <= l * e
  PROVE  2 * ((s - g) * e - s * x) <= n * e /\ -(2 * ((s - g) * e - s * x)) <= n * e
<1>1. l * e <= n * e
  OBVIOUS
<1>2. x = e - f
  OBVIOUS
<1>3. 2 * ((s - g) * e - s * x) = 2 * (s * f - e * g)
  BY <1>2
<1>4. 2 * (s * f - e * g) \in Int /\ l * e \in Int /\ n * e \in Int
  OBVIOUS
<1>5. QED
  BY <1>1, <1>3, <1>4

\* Up to l the summands are those of p, the last one is at m = l + 1.
Ends(s, m, n, l, p, P) ==
  /\ n \in Nat /\ m \in 1 .. n /\ l \in Nat /\ l + 1 = m
  /\ s \in [1 .. n -> Int] /\ P \in [0 .. n -> Int] /\ Up(P, p, n)
  /\ \A k \in 1 .. l : s[k] = p[k]
  /\ \A k \in 1 .. n : k > m => s[k] = 0

LEMMA SumOfEnds ==
  ASSUME NEW s, NEW m, NEW n, NEW l, NEW p, NEW P, Ends(s, m, n, l, p, P)
  PROVE  Sum(s) = P[l] + s[m]
<1> SUFFICES ASSUME n \in Nat, m \in 1 .. n, l \in Nat, l + 1 = m,
                    s \in [1 .. n -> Int], P \in [0 .. n -> Int], Up(P, p, n),
                    \A k \in 1 .. l : s[k] = p[k], \A k \in 1 .. n : k > m => s[k] = 0
             PROVE  Sum(s) = P[l] + s[m]
  BY DEF Ends
<1>1. PICK f : Up(f, s, n) /\ Sum(s) = f[n]
  BY SumUp
<1>2. f[n] = f[m]
  BY <1>1, UpFlat
<1>3. f[l] = P[l]
  <2>1. l <= n
    OBVIOUS
  <2>2. \A k \in 1 .. l : s[k] = p[k]
    OBVIOUS
  <2>3. \A q, r, g, h : Up(g, q, n) /\ Up(h, r, n) /\ (\A k \in 1 .. l : q[k] = r[k]) => g[l] = h[l]
    BY <2>1, UpToo
  <2>4. QED
    BY <1>1, <2>2, <2>3
<1>4. f[m] = f[l] + s[m] /\ P[l] \in Int
  <2>1. m - 1 = l /\ l \in 0 .. n
    OBVIOUS
  <2>2. f[m] = f[m - 1] + s[m]
    BY <1>1 DEF Up
  <2>3. QED
    BY <2>1, <2>2
<1>5. QED
  BY <1>1, <1>2, <1>3, <1>4

\* What allocate_shares makes of a share of n lines.
SharesOf(lines, mask, share, n) ==
  LET shares == AllocateShares(lines, share, mask)
      eligible == Sum(Eligible(lines, mask))
  IN /\ shares \in [1 .. n -> Int] /\ Sum(shares) = share
     /\ \A i \in 1 .. n :
          /\ ~mask[i] => shares[i] = 0
          /\ mask[i] => /\ 2 * (shares[i] * eligible - share * lines[i]) <= n * eligible
                        /\ -(2 * (shares[i] * eligible - share * lines[i])) <= n * eligible

LEMMA SharesAre ==
  ASSUME NEW n \in Nat, NEW lines \in [1 .. n -> Nat], NEW mask \in [1 .. n -> BOOLEAN],
         NEW share \in Nat, Sum(Eligible(lines, mask)) \in Nat, share <= Sum(Eligible(lines, mask))
  PROVE  SharesOf(lines, mask, share, n)
<1> SUFFICES ASSUME NEW E \in Nat, E = Sum(Eligible(lines, mask)), share <= E,
                    NEW shares, shares = AllocateShares(lines, share, mask)
             PROVE  /\ shares \in [1 .. n -> Int] /\ Sum(shares) = share
                    /\ \A i \in 1 .. n :
                         /\ ~mask[i] => shares[i] = 0
                         /\ mask[i] => /\ 2 * (shares[i] * E - share * lines[i]) <= n * E
                                       /\ -(2 * (shares[i] * E - share * lines[i])) <= n * E
  BY DEF SharesOf
<1>1. PICK a : a = Eligible(lines, mask)
  OBVIOUS
<1>2. PICK p : p = [i \in 1 .. n |-> IF E = 0 THEN 0 ELSE Quotient(share * a[i], E)]
  OBVIOUS
<1> DEFINE last(i) == \A j \in 1 .. n : mask[j] => j <= i
<1>3. a \in [1 .. n -> Nat] /\ \A i \in 1 .. n : a[i] = IF mask[i] THEN lines[i] ELSE 0
  BY <1>1, EligibleIs
<1>4. \A i \in 1 .. n :
        /\ p[i] \in Int
        /\ (E = 0 \/ share = 0 \/ a[i] = 0) => p[i] = 0
        /\ E > 0 => /\ 2 * (E * p[i]) <= 2 * (share * a[i]) + E
                    /\ 2 * (share * a[i]) < 2 * (E * p[i]) + E
  <2> TAKE i \in 1 .. n
  <2> DEFINE x == share * a[i]
  <2>1. a[i] \in Nat
    BY <1>3
  <2>2. x \in Nat /\ ((share = 0 \/ a[i] = 0) => x = 0)
    BY <2>1
  <2>3. p[i] = IF E = 0 THEN 0 ELSE Quotient(x, E)
    BY <1>2
  <2> HIDE DEF x
  <2>4. CASE E = 0
    BY <2>3, <2>4
  <2>5. CASE E > 0
    <3>1. p[i] = Quotient(x, E) /\ E \in Nat \ {0} /\ x \in Int
      BY <2>2, <2>3, <2>5
    <3>2. p[i] \in Int /\ 2 * (E * p[i]) <= 2 * x + E /\ 2 * x < 2 * (E * p[i]) + E
      BY <3>1, QuotientIs
    <3>3. x = 0 => p[i] = 0
      BY <3>1, QuotientOfZero
    <3>4. QED
      BY <2>2, <2>5, <3>2, <3>3 DEF x
  <2>6. QED
    BY <2>4, <2>5
<1>5. p \in [1 .. n -> Int]
  BY <1>4, <1>2
<1>6. shares = [i \in 1 .. n |-> IF share > 0 /\ mask[i] /\ last(i)
                                       THEN share - Sum(SubSeq(p, 1, i - 1)) ELSE p[i]]
  <2>1. Least(share, E) = share
    BY DEF Least
  <2>2. QED
    BY <1>1, <1>2, <2>1 DEF AllocateShares, RestOf
<1>7. CASE share = 0
  <2>1. \A i \in 1 .. n : shares[i] = 0
    BY <1>3, <1>4, <1>6, <1>7
  <2>2. shares \in [1 .. n -> Int]
    BY <1>6, <2>1
  <2>3. PICK f : Up(f, shares, n) /\ Sum(shares) = f[n]
    BY <2>2, SumUp
  <2>4. f[n] = f[0] /\ f[0] = 0
    <3>1. f[n] = f[0]
      BY <2>1, <2>3, UpFlat
    <3>2. QED
      BY <2>3, <3>1 DEF Up
  <2>5. ASSUME NEW i \in 1 .. n
        PROVE  2 * (shares[i] * E - share * lines[i]) = 0
    <3>1. shares[i] * E = 0 /\ share * lines[i] = 0
      BY <1>3, <1>7, <2>1
    <3>2. QED
      BY <3>1
  <2>6. n * E \in Nat
    BY <1>3
  <2>7. \A i \in 1 .. n :
          /\ 2 * (shares[i] * E - share * lines[i]) <= n * E
          /\ -(2 * (shares[i] * E - share * lines[i])) <= n * E
    <3> TAKE i \in 1 .. n
    <3> DEFINE off == 2 * (shares[i] * E - share * lines[i])
    <3>1. off = 0
      BY <2>5
    <3> HIDE DEF off
    <3>2. off <= n * E /\ -off <= n * E
      BY <2>6, <3>1
    <3>3. QED
      BY <3>2 DEF off
  <2>8. Sum(shares) = share
    BY <1>7, <2>3, <2>4
  <2>9. QED
    BY <2>1, <2>2, <2>7, <2>8
<1>8. CASE share > 0
  <2>1. PICK F \in [0 .. n -> Nat] : Up(F, a, n) /\ E = F[n]
    <3>1. E = Sum(a)
      BY <1>1
    <3>2. QED
      BY <1>3, <3>1, SumOfNat
  <2>2. PICK P : Up(P, p, n) /\ P \in [0 .. n -> Int]
    BY <1>5, SumUp DEF Up
  <2>3. PICK m \in 1 .. n : mask[m] /\ last(m)
    <3> DEFINE T == {k \in 0 .. n : \A j \in 1 .. n : mask[j] => j <= k}
    <3>1. T \in SUBSET Nat /\ n \in T
      BY <1>3
    <3>2. PICK m \in T : \A k \in T : m <= k
      <4> HIDE DEF T
      <4>1. QED
        BY <3>1, Smallest
    <3>3. m # 0
      <4> SUFFICES ASSUME m = 0 PROVE FALSE
        OBVIOUS
      <4>1. \A j \in 1 .. n : ~mask[j]
        BY <1>3
      <4>2. \A k \in 1 .. n : k > 0 => a[k] = 0
        BY <1>3, <4>1
      <4>3. F[n] = F[0] /\ F[0] = 0
        <5>1. F[n] = F[0]
          BY <2>1, <4>2, UpFlat
        <5>2. QED
          BY <2>1, <5>1 DEF Up
      <4>4. QED
        BY <1>8, <2>1, <4>3
    <3>4. mask[m]
      <4> SUFFICES ASSUME ~mask[m] PROVE FALSE
        OBVIOUS
      <4>1. m - 1 \in T /\ m \in Nat
        <5>1. m \in Nat /\ m - 1 \in 0 .. n
          BY <3>3
        <5>2. \A j \in 1 .. n : mask[j] => j <= m /\ j # m
          OBVIOUS
        <5>3. QED
          BY <5>1, <5>2
      <4> HIDE DEF T
      <4>2. QED
        BY <3>2, <4>1
    <3>5. QED
      BY <3>3, <3>4
  <2> HIDE DEF last
  <2>4. PICK l \in 0 .. n : m = l + 1 /\ l = m - 1 /\ m \in 0 .. n /\ l \in Nat /\ m \in Nat
               /\ l <= n /\ n \in Nat \ {0}
    OBVIOUS
  <2>5. m \in 0 .. n
    OBVIOUS
  <2>6. shares[m] = share - P[l]
    <3> DEFINE r == SubSeq(p, 1, l)
    <3>1. r = [k \in 1 .. l |-> p[k]]
      BY <1>5
    <3>2. shares[m] = share - Sum(r)
      BY <1>3, <1>6, <1>8, <2>4, <2>3
    <3> HIDE DEF r
    <3>3. \A k \in 1 .. l : k \in 1 .. n
      OBVIOUS
    <3>4. r \in [1 .. l -> Int] /\ \A k \in 1 .. l : p[k] = r[k]
      BY <1>5, <3>3, <3>1
    <3>5. PICK f : Up(f, r, l) /\ Sum(r) = f[l]
      BY <2>4, <3>4, SumUp
    <3>6. /\ Up(P, p, n) /\ Up(f, r, l) /\ l \in Nat /\ l <= n
          /\ \A k \in 1 .. l : p[k] = r[k]
      BY <2>4, <2>2, <3>4, <3>5
    <3>7. P[l] = f[l]
      BY <3>6, UpToo
    <3>8. QED
      BY <3>2, <3>5, <3>7
  <2>7. \A i \in (1 .. n) \ {m} : shares[i] = p[i]
    <3> SUFFICES ASSUME NEW i \in (1 .. n) \ {m} PROVE ~(mask[i] /\ last(i))
      BY <1>3, <1>6
    <3>1. QED
      BY <1>3, <2>3 DEF last
  <2>8. \A i \in 1 .. n : i > m => ~mask[i] /\ a[i] = 0 /\ p[i] = 0
    <3>1. \A i \in 1 .. n : i > m => ~mask[i]
      BY <1>3, <2>3 DEF last
    <3>2. QED
      BY <1>3, <1>4, <3>1
  <2>9. F[l] + a[m] = E
    <3>1. F[n] = F[m]
      <4>1. PICK f : f = F
        OBVIOUS
      <4>2. Up(f, a, n) /\ \A k \in 1 .. n : k > m => a[k] = 0
        BY <2>1, <2>8, <4>1
      <4>3. f[n] = f[m]
        BY <2>5, <4>2, UpFlat
      <4>4. QED
        BY <4>1, <4>3
    <3>2. QED
      BY <2>4, <2>1, <3>1 DEF Up
  <2>10. \A k \in 0 .. n : /\ 2 * (share * F[k] - E * P[k]) <= k * E
                          /\ -(2 * (share * F[k] - E * P[k])) <= k * E
    <3> DEFINE drift(k) == 2 * (share * F[k] - E * P[k])
               T == {k \in Nat : k <= n => drift(k) <= k * E /\ -drift(k) <= k * E}
    <3>1. 0 \in T
      <4>1. F[0] = 0 /\ P[0] = 0
        BY <2>1, <2>2 DEF Up
      <4>2. QED
        BY <4>1
    <3>2. ASSUME NEW k \in Nat, k \in T, k < n PROVE k + 1 \in T
      <4>1. k \in 0 .. n /\ k + 1 \in 1 .. n /\ (k + 1) - 1 = k
        BY <3>2
      <4>2. drift(k) <= k * E /\ -drift(k) <= k * E
        BY <3>2
      <4>3. F[k + 1] = F[k] + a[k + 1] /\ P[k + 1] = P[k] + p[k + 1]
        BY <1>3, <1>5, <2>1, <2>2, <4>1 DEF Up
      <4>4. F[k] \in Nat /\ P[k] \in Int /\ a[k + 1] \in Nat /\ p[k + 1] \in Int
        BY <1>3, <1>4, <2>1, <2>2, <4>1
      <4>5. /\ 2 * (E * p[k + 1]) <= 2 * (share * a[k + 1]) + E
            /\ 2 * (share * a[k + 1]) < 2 * (E * p[k + 1]) + E
        BY <1>4, <1>8, <4>1
      <4>6. PICK f, g, x, y \in Int : /\ f = F[k] /\ g = P[k] /\ x = a[k + 1] /\ y = p[k + 1]
        BY <4>4
      <4>7. drift(k + 1) = 2 * (share * (f + x) - E * (g + y)) /\ drift(k) = 2 * (share * f - E * g)
        BY <4>3, <4>6, Zenon
      <4>8. 2 * (E * y) <= 2 * (share * x) + E /\ 2 * (share * x) < 2 * (E * y) + E
        BY <4>5, <4>6, Zenon
      <4> HIDE DEF drift
      <4>9. drift(k + 1) <= (k + 1) * E /\ -drift(k + 1) <= (k + 1) * E
        <5>1. 2 * (share * f - E * g) <= k * E /\ -(2 * (share * f - E * g)) <= k * E
          BY <4>2, <4>7, Zenon
        <5>2. /\ 2 * (share * (f + x) - E * (g + y)) <= (k + 1) * E
              /\ -(2 * (share * (f + x) - E * (g + y))) <= (k + 1) * E
          BY <4>8, <5>1, DriftStep, Zenon
        <5>3. QED
          BY <4>7, <5>2, Zenon
      <4>10. QED
        BY <4>1, <4>9
    <3>3. T \in SUBSET Nat /\ n \in Nat
      BY <1>3
    <3> HIDE DEF T
    <3>4. \A k \in 0 .. n : k \in T
      BY <3>1, <3>2, <3>3, Counting
    <3>5. QED
      BY <3>4 DEF T
  <2>11. shares \in [1 .. n -> Int]
    <3>1. shares[m] \in Int
      BY <2>2, <2>6
    <3>2. \A i \in 1 .. n : shares[i] \in Int
      BY <1>4, <2>7, <3>1
    <3>3. QED
      BY <1>6, <3>2
  <2>12. Sum(shares) = share
    <3>1. \A k \in 1 .. l : shares[k] = p[k]
      <4>1. \A k \in 1 .. l : k \in (1 .. n) \ {m}
        BY <2>4
      <4>2. QED
        BY <2>7, <4>1
    <3>2. \A k \in 1 .. n : k > m => shares[k] = 0
      <4>1. \A k \in 1 .. n : k > m => k \in (1 .. n) \ {m}
        OBVIOUS
      <4>2. QED
        BY <2>7, <2>8, <4>1
    <3>3. l + 1 = m /\ l \in Nat /\ share \in Int
      BY <2>4
    <3>4. QED
      <4>1. Up(P, p, n) /\ P \in [0 .. n -> Int] /\ P[l] \in Int
        BY <2>2, <3>3
      <4>2. Sum(shares) = P[l] + shares[m]
        <5>1. Ends(shares, m, n, l, p, P)
          BY <2>11, <3>1, <3>2, <3>3, <4>1 DEF Ends
        <5>2. QED
          BY <5>1, SumOfEnds
      <4>3. QED
        BY <2>6, <3>3, <4>1, <4>2
  <2>13. \A i \in 1 .. n : ~mask[i] => shares[i] = 0
    BY <1>3, <1>4, <2>3, <2>7
  <2>14. ASSUME NEW i \in 1 .. n, mask[i]
         PROVE  /\ 2 * (shares[i] * E - share * lines[i]) <= n * E
                /\ -(2 * (shares[i] * E - share * lines[i])) <= n * E
    <3>1. CASE i # m
      <4>1. PICK x, y \in Int : x = lines[i] /\ y = shares[i] /\ x = a[i] /\ y = p[i]
        BY <1>3, <1>4, <2>7, <2>14, <3>1
      <4>2. 2 * (E * y) <= 2 * (share * x) + E /\ 2 * (share * x) < 2 * (E * y) + E
        BY <1>4, <1>8, <4>1
      <4>3. 2 * (y * E - share * x) <= n * E /\ -(2 * (y * E - share * x)) <= n * E
        BY <2>4, <4>2, OffIs, Zenon
      <4>4. QED
        BY <4>1, <4>3, Zenon
    <3>2. CASE i = m
      <4>1. PICK f, g, x \in Int : f = F[l] /\ g = P[l] /\ x = a[m] /\ x = lines[m]
        <5>1. F[l] \in Int /\ P[l] \in Int /\ a[m] \in Int /\ a[m] = lines[m]
          BY <1>3, <2>2, <2>3
        <5>2. QED
          BY <5>1
      <4>2. shares[m] = share - g /\ f + x = E
        BY <2>4, <2>6, <2>9, <4>1
      <4>3. 2 * (share * f - E * g) <= l * E /\ -(2 * (share * f - E * g)) <= l * E
        BY <2>10, <4>1, Zenon
      <4>4. /\ 2 * ((share - g) * E - share * x) <= n * E
            /\ -(2 * ((share - g) * E - share * x)) <= n * E
        BY <2>4, <4>2, <4>3, RestIs, Zenon
      <4>5. QED
        BY <3>2, <4>1, <4>2, <4>4, Zenon
    <3>3. QED
      BY <3>1, <3>2
  <2>15. QED
    BY <2>11, <2>12, <2>13, <2>14
<1>9. QED
  BY <1>7, <1>8

LEMMA SumOfDifferences ==
  ASSUME NEW n \in Nat, NEW s \in [1 .. n -> Int], NEW r \in [1 .. n -> Int],
         NEW t \in [1 .. n -> Int], \A i \in 1 .. n : t[i] = s[i] - r[i]
  PROVE  Sum(t) = Sum(s) - Sum(r)
<1>1. PICK f : Up(f, s, n) /\ Sum(s) = f[n]
  BY SumUp
<1>2. PICK g : Up(g, r, n) /\ Sum(r) = g[n]
  BY SumUp
<1>3. PICK h : Up(h, t, n) /\ Sum(t) = h[n]
  BY SumUp
<1> DEFINE T == {k \in Nat : k <= n => h[k] = f[k] - g[k]}
<1>4. 0 \in T
  BY <1>1, <1>2, <1>3 DEF Up
<1>5. \A k \in T : k < n => k + 1 \in T
  <2> SUFFICES ASSUME NEW k \in Nat, k \in T, k < n PROVE h[k + 1] = f[k + 1] - g[k + 1]
    OBVIOUS
  <2>1. k + 1 \in 1 .. n /\ (k + 1) - 1 = k /\ k \in 0 .. n
    OBVIOUS
  <2>2. h[k] = f[k] - g[k] /\ f[k] \in Int /\ g[k] \in Int
    BY <1>1, <1>2, <2>1 DEF Up
  <2>3. /\ f[k + 1] = f[k] + s[k + 1] /\ g[k + 1] = g[k] + r[k + 1]
        /\ h[k + 1] = h[k] + t[k + 1]
    BY <1>1, <1>2, <1>3, <2>1 DEF Up
  <2>4. t[k + 1] = s[k + 1] - r[k + 1] /\ s[k + 1] \in Int /\ r[k + 1] \in Int
    BY <2>1
  <2>5. QED
    BY <2>2, <2>3, <2>4
<1>6. T \in SUBSET Nat /\ n \in 0 .. n
  OBVIOUS
<1> HIDE DEF T
<1>7. n \in T
  BY <1>4, <1>5, <1>6, Counting
<1>8. QED
  BY <1>1, <1>2, <1>3, <1>7 DEF T

LEMMA CartAddsUp ==
  ASSUME IsCart(quote)
  PROVE  InvoiceAddsUp
<1> DEFINE n == Len(quote.lines)
           eligible == Sum(Eligible(quote.lines, quote.mask))
           discount == Discount(quote)
           shares == AllocateShares(quote.lines, discount, quote.mask)
           net(i) == quote.lines[i] - shares[i]
           lines == InvoiceLines(quote)
           sums == [i \in DOMAIN lines |-> lines[i].taxable + lines[i].cgst + lines[i].sgst]
<1>1. /\ n \in Nat /\ quote.lines \in [1 .. n -> Nat] /\ quote.mask \in [1 .. n -> BOOLEAN]
      /\ quote.shipping \in Nat /\ quote.rate \in Nat
  BY CartIs
<1>2. /\ discount \in Nat /\ discount <= eligible /\ eligible \in Nat /\ Sum(quote.lines) \in Nat
  BY DiscountIs
<1>3. lines = [i \in 1 .. n |-> TaxLine(net(i), quote.rate)]
  BY <1>1 DEF InvoiceLines
<1>4. Total(quote) = Sum(quote.lines) - discount + quote.shipping
  BY DEF Total
<1> HIDE DEF n, eligible, discount
<1>5. /\ shares \in [1 .. n -> Int] /\ Sum(shares) = discount
      /\ \A i \in 1 .. n :
           /\ ~quote.mask[i] => shares[i] = 0
           /\ quote.mask[i] =>
                /\ 2 * (shares[i] * eligible - discount * quote.lines[i]) <= n * eligible
                /\ -(2 * (shares[i] * eligible - discount * quote.lines[i])) <= n * eligible
  <2>1. SharesOf(quote.lines, quote.mask, discount, n)
    BY <1>1, <1>2, SharesAre DEF eligible
  <2>2. QED
    BY <2>1 DEF SharesOf, eligible
<1> HIDE DEF shares
<1>6. ASSUME NEW i \in 1 .. n
      PROVE  /\ net(i) \in Int /\ sums[i] = net(i)
             /\ lines[i].cgst - lines[i].sgst \in {0, 1}
  <2>1. net(i) \in Int
    BY <1>1, <1>5
  <2>2. lines[i] = TaxLine(net(i), quote.rate) /\ DOMAIN lines = 1 .. n
    BY <1>3
  <2> HIDE DEF lines, net
  <2>3. QED
    BY <1>1, <2>1, <2>2, TaxLineIs
<1>7. DOMAIN lines = 1 .. n /\ Len(lines) = n
  BY <1>1, <1>3
<1> HIDE DEF lines
<1>8. Sum(sums) = Sum(quote.lines) - discount
  <2>1. sums \in [1 .. n -> Int]
    BY <1>6, <1>7
  <2>2. \A i \in 1 .. n : sums[i] = quote.lines[i] - shares[i]
    BY <1>6
  <2>3. quote.lines \in [1 .. n -> Int]
    BY <1>1
  <2> HIDE DEF sums
  <2>4. QED
    BY <1>1, <1>5, <2>1, <2>2, <2>3, SumOfDifferences
<1>9. Sum(sums) + quote.shipping = Total(quote)
  BY <1>1, <1>2, <1>4, <1>8
<1>10. QED
  BY <1>5, <1>6, <1>7, <1>9 DEF InvoiceAddsUp, lines, shares, discount, eligible

(* Whatever cart, coupon and tax rate: the lines of the invoice, tax        *)
(* included, and the shipping add up to what was charged; only lines the    *)
(* coupon names bear the discount, each its part of it up to rounding.      *)
THEOREM InvoiceAddsUpHolds == BillSpec => []InvoiceAddsUp
<1>1. BillInit => quote \in Quotes
  BY DEF BillInit
<1>2. quote \in Quotes /\ [BillNext]_billVars => (quote \in Quotes)'
  BY DEF BillNext, billVars, PlaceSale, Export, RestoreDoc, OpenInvoice, CountInvoice, ClaimNumber,
         Reread, StartRestore, BreakOffRestore, LoseDatabase
<1>3. quote \in Quotes => InvoiceAddsUp
  BY QuotesAssumption, CartAddsUp
<1>4. QED
  BY <1>1, <1>2, <1>3, PTL DEF BillSpec

-----------------------------------------------------------------------------
(* RateLimit: the stored bucket is compared with an ideal one that fills by *)
(* time alone and pays only for the requests that were granted, and with    *)
(* what the scripts that came late had refilled twice.                      *)

Entries == [tokens : Nat, last : Nat, touched : Nat]

RateTypes ==
  /\ clock \in Nat \ {0}
  /\ bucket \in [BucketIds -> Entries]
  /\ allowance \in [BucketIds -> Int] /\ delay \in [BucketIds -> Nat]

Asks == [pc : {"idle", "next", "consume", "retry"}, i : 1 .. Len(Buckets), now : Nat]

\* The clock a request carries is never ahead of the one that runs.
AskInv ==
  /\ ask \in [Clients -> Asks]
  /\ \A c \in Clients : ask[c].now <= clock

\* The ideal bucket and the delays are never behind the stored one; a
\* forgotten one is full.
Covered(b) ==
  \/ allowance[b] + delay[b] >= Capacity[b]
  \/ /\ bucket[b] # Gone
     /\ allowance[b] + delay[b] >= bucket[b].tokens + Refill[b] * (clock - bucket[b].last)

Dated(b) ==
  bucket[b] # Gone => bucket[b].last <= bucket[b].touched /\ bucket[b].touched <= clock

BucketInv == RateTypes /\ \A b \in BucketIds : Covered(b) /\ Dated(b)

-----------------------------------------------------------------------------
LEMMA MinOfTwo ==
  ASSUME NEW x \in Int, NEW y \in Int
  PROVE  Min({x, y}) = IF x <= y THEN x ELSE y
BY DEF Min

LEMMA Monotonic ==
  ASSUME NEW r \in Nat, NEW x \in Nat, NEW y \in Nat, x <= y
  PROVE  r * x \in Nat /\ r * y \in Nat /\ r * x <= r * y
<1>1. r * y = r * x + r * (y - x)
  OBVIOUS
<1>2. y - x \in Nat /\ r * x \in Nat /\ r * (y - x) \in Nat
  OBVIOUS
<1>3. QED
  BY <1>1, <1>2

LEMMA Limits ==
  ASSUME NEW b \in BucketIds
  PROVE  Capacity[b] \in Nat /\ Refill[b] \in Nat /\ Cost \in Nat /\ Lifetime \in Nat
BY RefillAssumption

LEMMA AskedBuckets == Len(Buckets) \in Nat \ {0} /\ DOMAIN Buckets = 1 .. Len(Buckets)
BY RefillAssumption

LEMMA EntryTypes ==
  ASSUME RateTypes, NEW b \in BucketIds
  PROVE  /\ bucket[b].tokens \in Nat /\ bucket[b].last \in Nat /\ bucket[b].touched \in Nat
         /\ allowance[b] \in Int /\ delay[b] \in Nat /\ clock \in Nat
BY DEF RateTypes, Entries

\* What the script finds is within the burst and covered.
LEMMA LevelOK ==
  ASSUME BucketInv, NEW b \in BucketIds, NEW now \in Nat, now <= clock
  PROVE  /\ Level(b, now) \in Nat /\ Level(b, now) <= Capacity[b]
         /\ Level(b, now) <= allowance[b] + delay[b]
<1>1. /\ Capacity[b] \in Nat /\ Refill[b] \in Nat
      /\ bucket[b].tokens \in Nat /\ bucket[b].last \in Nat /\ bucket[b].touched \in Nat
      /\ allowance[b] \in Int /\ delay[b] \in Nat /\ clock \in Nat
  BY Limits, EntryTypes DEF BucketInv
<1>2. CASE bucket[b] = Gone
  BY <1>1, <1>2 DEF Level, BucketInv, Covered
<1>3. CASE bucket[b] # Gone
  <2> DEFINE elapsed == IF now > bucket[b].last THEN now - bucket[b].last ELSE 0
  <2>1. elapsed \in Nat /\ clock - bucket[b].last \in Nat /\ elapsed <= clock - bucket[b].last
    BY <1>1, <1>3 DEF BucketInv, Dated
  <2>2. /\ elapsed * Refill[b] \in Nat
        /\ elapsed * Refill[b] <= Refill[b] * (clock - bucket[b].last)
    <3>1. /\ Refill[b] * elapsed \in Nat
          /\ Refill[b] * elapsed <= Refill[b] * (clock - bucket[b].last)
      BY <1>1, <2>1, Monotonic
    <3>2. elapsed * Refill[b] = Refill[b] * elapsed
      BY <1>1, <2>1
    <3>3. QED
      BY <3>1, <3>2
  <2>3. Level(b, now) = LET n == bucket[b].tokens + elapsed * Refill[b]
                        IN IF n <= Capacity[b] THEN n ELSE Capacity[b]
    <3>1. Level(b, now) = Capped(bucket[b].tokens + elapsed * Refill[b], b)
      BY <1>3 DEF Level
    <3>2. bucket[b].tokens + elapsed * Refill[b] \in Int
      BY <1>1, <2>2
    <3> HIDE DEF elapsed
    <3>3. QED
      BY <1>1, <3>1, <3>2, MinOfTwo DEF Capped
  <2> HIDE DEF elapsed
  <2>4. \/ allowance[b] + delay[b] >= Capacity[b]
        \/ allowance[b] + delay[b] >= bucket[b].tokens + Refill[b] * (clock - bucket[b].last)
    BY DEF BucketInv, Covered
  <2>5. Refill[b] * (clock - bucket[b].last) \in Nat
    BY <1>1, <2>1, Monotonic
  <2>6. QED
    BY <1>1, <2>2, <2>3, <2>4, <2>5
<1>4. QED
  BY <1>2, <1>3

LEMMA WriteOK ==
  ASSUME BucketInv, NEW b \in BucketIds, NEW now \in Nat, now <= clock,
         NEW charge \in Nat, NEW spent \in Nat, spent <= charge, charge <= Level(b, now),
         Write(b, now, charge, spent), clock' = clock
  PROVE  BucketInv'
<1> DEFINE level == Level(b, now)
           granted == Refill[b] * (clock - now)
<1>1. /\ Capacity[b] \in Nat /\ Refill[b] \in Nat /\ clock \in Nat \ {0}
      /\ allowance[b] \in Int /\ delay[b] \in Nat
      /\ level \in Nat /\ level <= Capacity[b] /\ level <= allowance[b] + delay[b]
      /\ granted \in Nat
  <2>1. clock - now \in Nat
    BY DEF BucketInv, RateTypes
  <2>2. granted \in Nat
    BY <2>1, Limits, Monotonic
  <2>3. QED
    BY <2>2, Limits, LevelOK DEF BucketInv, RateTypes
<1> DEFINE entry == [tokens |-> level - charge, last |-> now, touched |-> clock]
           left == allowance[b] - spent
           due == delay[b] + granted
<1>2. /\ bucket' = [bucket EXCEPT ![b] = entry] /\ allowance' = [allowance EXCEPT ![b] = left]
      /\ delay' = [delay EXCEPT ![b] = due]
  BY DEF Write
<1>3. entry \in Entries /\ left \in Int /\ due \in Nat /\ entry # Gone
      /\ entry.tokens = level - charge /\ entry.last = now /\ entry.touched = clock
  BY <1>1 DEF Entries, Gone
<1>4. left + due >= level - charge + Refill[b] * (clock - now)
  BY <1>1
<1> HIDE DEF entry, left, due, level, granted
<1>5. RateTypes'
  BY <1>1, <1>2, <1>3 DEF BucketInv, RateTypes
<1>6. /\ bucket'[b] = entry /\ allowance'[b] = left /\ delay'[b] = due
      /\ \A d \in BucketIds \ {b} :
           bucket'[d] = bucket[d] /\ allowance'[d] = allowance[d] /\ delay'[d] = delay[d]
  BY <1>2 DEF BucketInv, RateTypes
<1>7. ASSUME NEW d \in BucketIds
      PROVE  Covered(d)' /\ Dated(d)'
  <2>1. CASE d = b
    BY <1>1, <1>3, <1>4, <1>6, <2>1 DEF Covered, Dated
  <2>2. CASE d # b
    BY <1>6, <2>2 DEF BucketInv, Covered, Dated, Gone
  <2>3. QED
    BY <2>1, <2>2
<1>8. QED
  BY <1>5, <1>7 DEF BucketInv

LEMMA TickOK ==
  ASSUME BucketInv, Tick
  PROVE  BucketInv'
<1>1. RateTypes' /\ \A b \in BucketIds :
        allowance'[b] = IF Capacity[b] <= allowance[b] + Refill[b] THEN Capacity[b]
                        ELSE allowance[b] + Refill[b]
  <2>1. ASSUME NEW b \in BucketIds
        PROVE  Min({Capacity[b], allowance[b] + Refill[b]})
                 = IF Capacity[b] <= allowance[b] + Refill[b] THEN Capacity[b]
                   ELSE allowance[b] + Refill[b]
    <3>1. Capacity[b] \in Int /\ allowance[b] + Refill[b] \in Int
      BY Limits DEF BucketInv, RateTypes
    <3>2. QED
      BY <3>1, MinOfTwo
  <2>2. allowance' = [b \in BucketIds |->
          IF Capacity[b] <= allowance[b] + Refill[b] THEN Capacity[b]
          ELSE allowance[b] + Refill[b]]
    BY <2>1 DEF Tick
  <2>3. QED
    BY <2>2, Limits DEF Tick, BucketInv, RateTypes
<1>2. ASSUME NEW b \in BucketIds
      PROVE  Covered(b)' /\ Dated(b)'
  <2>1. /\ Capacity[b] \in Nat /\ Refill[b] \in Nat
        /\ bucket[b].tokens \in Nat /\ bucket[b].last \in Nat /\ bucket[b].touched \in Nat
        /\ allowance[b] \in Int /\ delay[b] \in Nat /\ clock \in Nat
    BY Limits, EntryTypes DEF BucketInv
  <2>2. clock' = clock + 1 /\ bucket' = bucket /\ delay' = delay
    BY DEF Tick
  <2>3. Refill[b] * (clock + 1 - bucket[b].last)
          = Refill[b] * (clock - bucket[b].last) + Refill[b]
    BY <2>1
  <2>4. Refill[b] * (clock - bucket[b].last) \in Int
    BY <2>1
  <2>5. Dated(b)'
    BY <2>1, <2>2 DEF BucketInv, Dated, Gone
  <2>6. Covered(b)'
    BY <1>1, <2>1, <2>2, <2>3, <2>4 DEF BucketInv, Covered, Gone
  <2>7. QED
    BY <2>5, <2>6
<1>3. QED
  BY <1>1, <1>2 DEF BucketInv

\* A forgotten bucket was idle for so long that it would be full.
LEMMA ExpireOK ==
  ASSUME BucketInv, BucketExpires
  PROVE  BucketInv'
<1>1. PICK b \in BucketIds : /\ bucket[b] # Gone /\ clock >= bucket[b].touched + Lifetime
                             /\ bucket' = [bucket EXCEPT ![b] = Gone]
                             /\ clock' = clock /\ allowance' = allowance /\ delay' = delay
  BY DEF BucketExpires
<1>2. RateTypes'
  BY <1>1 DEF BucketInv, RateTypes, Entries, Gone
<1>3. bucket'[b] = Gone /\ \A d \in BucketIds \ {b} : bucket'[d] = bucket[d]
  BY <1>1 DEF BucketInv, RateTypes
<1>4. allowance[b] + delay[b] >= Capacity[b]
  <2>1. /\ Capacity[b] \in Nat /\ Refill[b] \in Nat /\ Lifetime \in Nat
        /\ bucket[b].tokens \in Nat /\ bucket[b].last \in Nat /\ bucket[b].touched \in Nat
        /\ allowance[b] \in Int /\ delay[b] \in Nat /\ clock \in Nat
    BY Limits, EntryTypes DEF BucketInv
  <2>2. clock - bucket[b].last \in Nat /\ Lifetime <= clock - bucket[b].last
    BY <1>1, <2>1 DEF BucketInv, Dated
  <2>3. Refill[b] * Lifetime <= Refill[b] * (clock - bucket[b].last)
        /\ Refill[b] * Lifetime \in Nat /\ Refill[b] * (clock - bucket[b].last) \in Nat
    BY <2>1, <2>2, Monotonic
  <2>4. Capacity[b] <= Refill[b] * Lifetime
    BY RefillAssumption
  <2>5. CASE allowance[b] + delay[b] >= bucket[b].tokens + Refill[b] * (clock - bucket[b].last)
    <3> DEFINE x == Refill[b] * (clock - bucket[b].last)
               y == Refill[b] * Lifetime
    <3>1. x \in Nat /\ y \in Nat /\ y <= x /\ Capacity[b] <= y /\ allowance[b] + delay[b] >= bucket[b].tokens + x
      BY <2>3, <2>4, <2>5
    <3> HIDE DEF x, y
    <3>2. QED
      BY <2>1, <3>1
  <2>6. QED
    BY <2>5 DEF BucketInv, Covered
<1>5. QED
  BY <1>1, <1>2, <1>3, <1>4 DEF BucketInv, Covered, Dated, Gone

-----------------------------------------------------------------------------
LEMMA AskInvStep ==
  ASSUME BucketInv, AskInv, [RateNext]_rateVars
  PROVE  AskInv'
<1>1. clock \in Nat /\ clock' \in Nat /\ clock <= clock'
  BY DEF BucketInv, RateTypes, RateNext, rateVars, ReadClock, Grant, Refuse, EvalShaFails,
         Unreachable, Tick, BucketExpires
<1>2. Resting \in Asks /\ Resting.now = 0 /\ 0 <= clock
  BY <1>1, AskedBuckets DEF Resting, Asking, Asks
<1>3. ASSUME NEW c \in Clients, NEW a \in Asks,
             a.now <= clock, ask' = [ask EXCEPT ![c] = a]
      PROVE  AskInv'
  BY <1>1, <1>3 DEF AskInv, Asks
<1>4. ASSUME NEW c \in Clients, ReadClock(c) \/ Grant(c) \/ Refuse(c) \/ EvalShaFails(c) \/ Unreachable(c)
      PROVE  AskInv'
  <2>1. ask[c] \in Asks /\ ask[c].now <= clock
    BY DEF AskInv
  <2>2. CASE ReadClock(c)
    <3> DEFINE a == Asking("consume", ask[c].i, clock)
    <3>1. a \in Asks /\ a.now <= clock
      BY <1>1, <2>1 DEF Asking, Asks
    <3>2. QED
      BY <1>3, <2>2, <3>1 DEF ReadClock
  <2>3. CASE EvalShaFails(c)
    <3> DEFINE a == Asking("retry", ask[c].i, ask[c].now)
    <3>1. a \in Asks /\ a.now <= clock
      BY <2>1 DEF Asking, Asks
    <3>2. QED
      BY <1>3, <2>3, <3>1 DEF EvalShaFails
  <2>4. CASE Refuse(c) \/ Unreachable(c)
    BY <1>1, <1>2, <1>3, <2>4 DEF Refuse, Unreachable
  <2>5. CASE Grant(c) /\ ask[c].i = Len(Buckets)
    <3>1. ask' = [ask EXCEPT ![c] = Resting]
      BY <2>5 DEF Grant
    <3>2. Resting \in Asks /\ Resting.now <= clock
      BY <1>2
    <3>3. QED
      BY <1>3, <3>1, <3>2
  <2>6. CASE Grant(c) /\ ask[c].i # Len(Buckets)
    <3> DEFINE a == Asking("next", ask[c].i + 1, 0)
    <3>1. a \in Asks /\ a.now <= clock
      BY <1>1, <2>1, <2>6, AskedBuckets DEF Asking, Asks
    <3>2. ask' = [ask EXCEPT ![c] = a]
      BY <2>6 DEF Grant
    <3>3. QED
      BY <1>3, <3>1, <3>2
  <2>7. QED
    BY <1>4, <2>2, <2>3, <2>4, <2>5, <2>6
<1>5. CASE UNCHANGED ask
  BY <1>1, <1>5 DEF AskInv, Asks
<1>6. QED
  BY <1>4, <1>5 DEF RateNext, rateVars, Tick, BucketExpires

LEMMA BucketInvStep ==
  ASSUME BucketInv, AskInv, [RateNext]_rateVars
  PROVE  BucketInv'
<1>1. ASSUME NEW c \in Clients
      PROVE  /\ Asked(c) \in BucketIds /\ ask[c].now \in Nat /\ ask[c].now <= clock
             /\ Level(Asked(c), ask[c].now) \in Nat /\ Cost \in Nat
  <2>1. Asked(c) \in BucketIds /\ ask[c].now \in Nat /\ ask[c].now <= clock
    BY AskedBuckets DEF AskInv, Asks, Asked, BucketIds
  <2>2. QED
    BY <2>1, LevelOK, Limits
<1>2. CASE UNCHANGED <<clock, bucket, allowance, delay>>
  BY <1>2 DEF BucketInv, RateTypes, Covered, Dated, Gone
<1>3. ASSUME NEW c \in Clients, Grant(c)
      PROVE  BucketInv'
  BY <1>1, <1>3, WriteOK DEF Grant, Sufficient
<1>4. ASSUME NEW c \in Clients, Refuse(c)
      PROVE  BucketInv'
  BY <1>1, <1>4, WriteOK DEF Refuse
<1>5. ASSUME NEW c \in Clients, EvalShaFails(c)
      PROVE  BucketInv'
  <2>1. CASE UNCHANGED <<bucket, allowance, delay>>
    BY <1>2, <1>5, <2>1 DEF EvalShaFails
  <2>2. CASE Sufficient(Asked(c), ask[c].now) /\ Write(Asked(c), ask[c].now, Cost, 0)
    BY <1>1, <1>5, <2>2, WriteOK DEF EvalShaFails, Sufficient
  <2>3. CASE Write(Asked(c), ask[c].now, 0, 0)
    BY <1>1, <1>5, <2>3, WriteOK DEF EvalShaFails
  <2>4. QED
    BY <1>5, <2>1, <2>2, <2>3 DEF EvalShaFails
<1>6. QED
  BY <1>2, <1>3, <1>4, <1>5, TickOK, ExpireOK DEF RateNext, rateVars, ReadClock, Unreachable

LEMMA BucketInvInit == RateInit => BucketInv /\ AskInv
<1>1. SUFFICES ASSUME RateInit PROVE BucketInv /\ AskInv
  OBVIOUS
<1>2. RateTypes
  BY <1>1, RefillAssumption DEF RateInit, RateTypes, Entries, Gone
<1>3. \A b \in BucketIds : Covered(b) /\ Dated(b)
  BY <1>1, Limits DEF RateInit, Covered, Dated
<1>4. AskInv
  BY <1>1, AskedBuckets DEF RateInit, AskInv, Resting, Asking, Asks
<1>5. QED
  BY <1>2, <1>3, <1>4 DEF BucketInv

\* The buckets (rate_limit_lua.lua, rate_limit.py:57-105): each stored bucket
\* stays within the ideal one that fills by time alone and what late scripts
\* refill once more.
THEOREM BucketInvHolds == RateSpec => [](BucketInv /\ AskInv)
<1>1. BucketInv /\ AskInv /\ [RateNext]_rateVars => BucketInv' /\ AskInv'
  BY AskInvStep, BucketInvStep
<1>2. QED
  BY <1>1, BucketInvInit, PTL DEF RateSpec

\* A bucket grants no more than its burst, what is refilled and what the delays
\* of its scripts refill once more, whatever requests interleave, replies are
\* lost and keys expire, when the key lives at least as long as an empty bucket
\* takes to fill.
THEOREM BurstIsBoundedHolds == RateSpec => []BurstIsBounded
<1>1. BucketInv => BurstIsBounded
  <2>1. SUFFICES ASSUME BucketInv, NEW b \in BucketIds PROVE allowance[b] + delay[b] >= 0
    BY DEF BurstIsBounded
  <2>2. Level(b, 0) \in Nat /\ Level(b, 0) <= allowance[b] + delay[b] /\ allowance[b] + delay[b] \in Int
    BY <2>1, LevelOK, EntryTypes DEF BucketInv
  <2>3. QED
    BY <2>2
<1>2. QED
  BY <1>1, BucketInvHolds, PTL

(* No stored bucket is above its burst, and the clock keeps to its bound.   *)
RateBounds ==
  /\ clock <= MaxClock
  /\ \A b \in BucketIds : bucket[b].tokens <= Capacity[b]

LEMMA RateBoundsInit == RateInit => RateBounds
BY RefillAssumption, Limits DEF RateInit, RateBounds, Gone

LEMMA WriteIsBounded ==
  ASSUME BucketInv, RateBounds, NEW b \in BucketIds, NEW now \in Nat, now <= clock,
         NEW charge \in Nat, NEW spent, Write(b, now, charge, spent), clock' = clock
  PROVE  RateBounds'
<1> DEFINE level == Level(b, now)
           entry == [tokens |-> level - charge, last |-> now, touched |-> clock]
<1>1. level \in Nat /\ level <= Capacity[b] /\ Capacity[b] \in Nat
  BY LevelOK, Limits
<1>2. bucket' = [bucket EXCEPT ![b] = entry]
  BY DEF Write
<1>3. entry.tokens <= Capacity[b]
  <2>1. entry.tokens = level - charge
    OBVIOUS
  <2> HIDE DEF level
  <2>2. QED
    BY <1>1, <2>1
<1> HIDE DEF entry, level
<1>4. bucket'[b] = entry /\ \A d \in BucketIds \ {b} : bucket'[d] = bucket[d]
  BY <1>2 DEF BucketInv, RateTypes
<1>5. QED
  BY <1>3, <1>4 DEF RateBounds

LEMMA RateBoundsStep ==
  ASSUME BucketInv, AskInv, RateBounds, [RateNext]_rateVars
  PROVE  RateBounds'
<1>1. ASSUME NEW c \in Clients
      PROVE  /\ Asked(c) \in BucketIds /\ ask[c].now \in Nat /\ ask[c].now <= clock
             /\ 0 \in Nat /\ Cost \in Nat
  BY AskedBuckets, Limits, RefillAssumption DEF AskInv, Asks, Asked, BucketIds
<1>2. CASE UNCHANGED <<clock, bucket>>
  BY <1>2 DEF RateBounds
<1>3. ASSUME NEW c \in Clients, Grant(c) \/ Refuse(c)
      PROVE  RateBounds'
  BY <1>1, <1>3, WriteIsBounded DEF Grant, Refuse
<1>4. ASSUME NEW c \in Clients, EvalShaFails(c)
      PROVE  RateBounds'
  <2>1. CASE UNCHANGED <<bucket, allowance, delay>>
    BY <1>2, <1>4, <2>1 DEF EvalShaFails
  <2>2. CASE Write(Asked(c), ask[c].now, Cost, 0)
    BY <1>1, <1>4, <2>2, WriteIsBounded DEF EvalShaFails
  <2>3. CASE Write(Asked(c), ask[c].now, 0, 0)
    BY <1>1, <1>4, <2>3, WriteIsBounded DEF EvalShaFails
  <2>4. QED
    BY <1>4, <2>1, <2>2, <2>3 DEF EvalShaFails
<1>5. CASE Tick
  BY <1>5, RefillAssumption DEF Tick, RateBounds, BucketInv, RateTypes
<1>6. CASE BucketExpires
  <2>1. PICK b \in BucketIds : bucket' = [bucket EXCEPT ![b] = Gone]
    BY <1>6 DEF BucketExpires
  <2>2. bucket'[b] = Gone /\ \A d \in BucketIds \ {b} : bucket'[d] = bucket[d]
    BY <2>1 DEF BucketInv, RateTypes
  <2>3. Gone.tokens <= Capacity[b] /\ clock' = clock
    BY <1>6, Limits DEF Gone, BucketExpires
  <2>4. QED
    BY <2>2, <2>3 DEF RateBounds
<1>7. QED
  BY <1>2, <1>3, <1>4, <1>5, <1>6 DEF RateNext, rateVars, ReadClock, Unreachable

LEMMA RateTypesFollow ==
  ASSUME BucketInv, AskInv, RateBounds
  PROVE  RateTypeOK
<1>1. clock \in 1 .. MaxClock
  BY RefillAssumption DEF BucketInv, RateTypes, RateBounds
<1>2. ASSUME NEW b \in BucketIds
      PROVE  bucket[b].tokens \in 0 .. Capacity[b] /\ bucket[b].last <= clock
  <2>1. /\ bucket[b].tokens \in Nat /\ bucket[b].tokens <= Capacity[b] /\ Capacity[b] \in Nat
        /\ bucket[b].last \in Nat /\ bucket[b].touched \in Nat /\ clock \in Nat
    BY EntryTypes, Limits DEF BucketInv, RateBounds
  <2>2. bucket[b].last <= clock
    BY <2>1 DEF BucketInv, Dated, Gone
  <2>3. QED
    BY <2>1, <2>2
<1>3. \A c \in Clients : ask[c].i \in DOMAIN Buckets /\ ask[c].now <= clock
  BY AskedBuckets DEF AskInv, Asks
<1>4. QED
  BY <1>1, <1>2, <1>3 DEF RateTypeOK

\* No bucket is ever above its burst or dated in the future, and no request
\* asks one that is not there.
THEOREM RateTypeOKHolds == RateSpec => []RateTypeOK
<1>1. /\ BucketInv /\ AskInv /\ RateBounds /\ [RateNext]_rateVars => RateBounds'
      /\ BucketInv /\ AskInv /\ RateBounds => RateTypeOK
  BY RateBoundsStep, RateTypesFollow
<1>2. QED
  BY <1>1, RateBoundsInit, BucketInvHolds, PTL DEF RateSpec

-----------------------------------------------------------------------------
(* The parts together, as TLC follows them.                                 *)

\* Every behaviour of the composition is one of each part: what is proved of a
\* part holds of what TLC checks, which only leaves behaviours out.
THEOREM PartsAreFollowed ==
  StorefrontSpec => /\ CheckoutSpec /\ RateSpec /\ GuardSpec
                    /\ BillSpec /\ ContentSpec /\ StreamSpec
<1>1. StorefrontInit => /\ CheckoutInit /\ RateInit /\ GuardInit
                        /\ BillInit /\ ContentInit /\ StreamInit
  BY DEF StorefrontInit
<1>2. [StorefrontNext]_storefrontVars =>
        /\ [CheckoutNext]_checkoutVars /\ [RateNext]_rateVars /\ [GuardNext]_guardVars
        /\ [BillNext]_billVars /\ [ContentNext]_contentVars /\ [StreamNext]_streamVars
  BY DEF StorefrontNext, storefrontVars
<1>3. QED
  BY <1>1, <1>2, PTL DEF StorefrontSpec, CheckoutSpec, RateSpec, GuardSpec, BillSpec,
                         ContentSpec, StreamSpec

LEMMA BillTypesFollow == BillInv => BillTypeOK
BY DEF BillInv, BillTypes, BillTypeOK, Doc

\* Every variable of every part has its type, and no bulkhead is over its limit,
\* whichever part a behaviour follows.
THEOREM StorefrontTypeOKHolds == StorefrontSpec => []StorefrontTypeOK
<1>1. StorefrontInit => focus \in Subjects
  BY FociAssumption DEF StorefrontInit
<1>2. focus \in Subjects /\ [StorefrontNext]_storefrontVars => (focus \in Subjects)'
  BY DEF StorefrontNext, storefrontVars
<1>3. ASSUME focus \in Subjects, CheckoutTypeOK, RateTypeOK, GuardTypeOK, BillTypeOK,
             ContentTypeOK, StreamTypeOK
      PROVE  StorefrontTypeOK
  <2>1. CASE focus = "checkout" \/ focus = "buckets" \/ focus = "breaker"
    BY <1>3, <2>1 DEF StorefrontTypeOK
  <2>2. CASE focus \in {"invoices", "quotes"}
    BY <1>3, <2>2 DEF StorefrontTypeOK
  <2>3. CASE focus = "pages" \/ focus = "stream"
    BY <1>3, <2>3 DEF StorefrontTypeOK
  <2>4. QED
    BY <1>3, <2>1, <2>2, <2>3 DEF Subjects
<1>4. QED
  BY <1>1, <1>2, <1>3, PartsAreFollowed, CheckoutTypeOKHolds, RateTypeOKHolds, GuardTypeOKHolds,
     BillInvHolds, BillTypesFollow, ContentTypeOKHolds, StreamTypes, PTL DEF StorefrontSpec
=============================================================================
