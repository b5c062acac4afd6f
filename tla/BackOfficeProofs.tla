-------------------------- MODULE BackOfficeProofs --------------------------
(* Behind the storefront, for any number of orders, payments, pages, tasks, *)
(* writers, administrators and faults: what reconciliation may cancel and   *)
(* call an orphan, what a check before a write is worth, what an order's    *)
(* ledger can tell about it, that the consumers of alerts use the stream as *)
(* it is meant to be used and tell a customer twice only for a reason, and  *)
(* that the parts put beside each other in MCShipment are those parts.      *)
EXTENDS MCShipment, EventStreamProofs, SequenceTheorems, FiniteSetTheorems, FunctionTheorems,
        WellFoundedInduction, TLAPS

(* A set of natural numbers that is not empty has a smallest member.        *)
LEMMA SmallestMember ==
  ASSUME NEW S \in SUBSET Nat, S # {}
  PROVE  \E m \in S : \A x \in S : m <= x
<1>1. \A x, y \in Nat : <<y, x>> \in OpToRel(<, Nat) <=> y < x
  BY DEF OpToRel
<1>2. \E R : IsWellFoundedOn(R, Nat) /\ \A x, y \in Nat : <<y, x>> \in R <=> y < x
  BY <1>1, NatLessThanWellFounded, Zenon
<1>3. PICK R : IsWellFoundedOn(R, Nat) /\ \A x, y \in Nat : <<y, x>> \in R <=> y < x
  BY <1>2
<1>4. PICK m \in S : \A y \in S : ~ (<<y, m>> \in R)
  BY <1>3, WFMin
<1>5. ASSUME NEW x \in S PROVE m <= x
  <2>1. <<x, m>> \notin R /\ x \in Nat /\ m \in Nat
    BY <1>4
  <2>2. ~(x < m)
    BY <1>3, <2>1, Zenon
  <2>3. QED
    BY <2>1, <2>2
<1>6. QED
  BY <1>5

LEMMA FirstIsMember ==
  ASSUME NEW S \in SUBSET Checkouts, S # {}
  PROVE  First(S) \in S /\ First(S) \in Checkouts
<1>1. S \in SUBSET Nat
  BY ReconciliationAssumption DEF Checkouts
<1>2. \E m \in S : \A x \in S : m <= x
  BY <1>1, SmallestMember
<1>3. QED
  BY <1>2 DEF First

-----------------------------------------------------------------------------
(* Reconciliation: what a pass abandons, and what it reports.               *)

Owners == Checkouts \cup {Foreign}
PassType ==
  [pc : {"asleep", "fetch", "match", "look", "abandon", "orders", "attempts"},
   rows : SUBSET Checkouts, todo : SUBSET Checkouts, left : SUBSET Checkouts,
   found : SUBSET Owners, known : SUBSET Owners, until : Nat, order : Owners]

ReconTypes ==
  /\ attempts \in [Checkouts -> {"none", "pending", "resolved", "abandoned"}]
  /\ placed \subseteq Checkouts
  /\ payments \in Seq(Owners)
  /\ agedRows \in Nat /\ agedPays \in Nat
  /\ pass \in PassType /\ pass.until <= Len(payments)
  /\ During("abandon") => pass.order \in Checkouts

(* An attempt that is given up, or about to be: if it was paid, nobody made *)
(* its order, and the payment came late or was hidden.                      *)
GivenUp(o) == attempts[o] = "abandoned" \/ (During("abandon") /\ pass.order = o)
LateOrHidden ==
  \A o \in Checkouts : GivenUp(o) /\ IsPaid(o) /\ o \notin placed => o \in excused

(* Nothing is paid before its attempt is recorded, and what a pass fetched  *)
(* was paid.                                                                *)
PaidIsRecorded ==
  /\ \A o \in Checkouts : IsPaid(o) => attempts[o] # "none"
  /\ pass.found \subseteq ToSet(payments)

ReconInv == ReconTypes /\ LateOrHidden /\ PaidIsRecorded /\ OrphansAreForeign

LEMMA AppendedSet ==
  ASSUME NEW S, NEW s \in Seq(S), NEW e \in S
  PROVE  ToSet(Append(s, e)) = ToSet(s) \cup {e} /\ Append(s, e) \in Seq(S)
<1>1. Len(s) \in Nat /\ DOMAIN s = 1 .. Len(s)
  OBVIOUS
<1>2. DOMAIN Append(s, e) = 1 .. Len(s) + 1
  OBVIOUS
<1>3. \A i \in 1 .. Len(s) : Append(s, e)[i] = s[i]
  OBVIOUS
<1>4. Append(s, e)[Len(s) + 1] = e
  OBVIOUS
<1>5. QED
  BY <1>1, <1>2, <1>3, <1>4 DEF ToSet

LEMMA ReconInitInv == ReconInit => ReconInv
  BY DEF ReconInit, ReconInv, ReconTypes, LateOrHidden, PaidIsRecorded, OrphansAreForeign,
         PassType, NoPass, Owners, GivenUp, IsPaid, During, ToSet, Foreign

(* Completing an order gives nothing up.                                    *)
LEMMA CompleteKeeps ==
  ASSUME ReconInv, NEW o \in Checkouts, Complete(o), UNCHANGED payments
  PROVE  /\ attempts' \in [Checkouts -> {"none", "pending", "resolved", "abandoned"}]
         /\ placed' \subseteq Checkouts /\ placed \subseteq placed'
         /\ \A x \in Checkouts : /\ attempts'[x] = "abandoned" <=> attempts[x] = "abandoned"
                                 /\ attempts'[x] = "none" <=> attempts[x] = "none"
  BY DEF Complete, MarkResolved, ReconInv, ReconTypes

LEMMA CheckoutSteps ==
  ASSUME ReconInv, NEW o \in Checkouts, RecordAttempt(o) \/ Confirm(o)
  PROVE  ReconInv'
<1> USE DEF ReconInv, ReconTypes, LateOrHidden, PaidIsRecorded, OrphansAreForeign, GivenUp,
            IsPaid, During
<1>1. CASE RecordAttempt(o)
  BY <1>1 DEF RecordAttempt
<1>2. CASE Confirm(o)
  <2>1. /\ attempts' \in [Checkouts -> {"none", "pending", "resolved", "abandoned"}]
        /\ placed' \subseteq Checkouts /\ placed \subseteq placed'
        /\ \A x \in Checkouts : /\ attempts'[x] = "abandoned" <=> attempts[x] = "abandoned"
                                /\ attempts'[x] = "none" <=> attempts[x] = "none"
    BY <1>2, CompleteKeeps DEF Confirm
  <2>2. QED
    BY <2>1, <1>2 DEF Confirm
<1>3. QED
  BY <1>1, <1>2

LEMMA CaptureKeeps ==
  ASSUME ReconInv, NEW o \in Owners, Capture(o)
  PROVE  ReconInv'
<1> USE DEF ReconInv, ReconTypes, LateOrHidden, PaidIsRecorded, OrphansAreForeign, GivenUp,
            IsPaid, During, Capture
<1>1. ToSet(payments') = ToSet(payments) \cup {o} /\ payments' \in Seq(Owners)
  BY AppendedSet
<1>2. Len(payments') = Len(payments) + 1 /\ Len(payments) \in Nat
  BY AppendProperties
<1>3. ReconTypes' /\ OrphansAreForeign'
  BY <1>1, <1>2 DEF PassType
<1>4. PaidIsRecorded'
  BY <1>1
<1>5. ASSUME NEW x \in Checkouts, GivenUp(x), IsPaid(x)', x \notin placed
      PROVE  x \in excused'
  BY <1>1, <1>5
<1>6. LateOrHidden'
  BY <1>5
<1>7. QED
  BY <1>3, <1>4, <1>6

LEMMA PassBegins ==
  ASSUME ReconInv, BeginPass
  PROVE  ReconInv'
<1> USE DEF ReconInv, ReconTypes, LateOrHidden, PaidIsRecorded, OrphansAreForeign, GivenUp,
            IsPaid, During, BeginPass
<1>1. agedRows' \in Nat /\ agedPays' \in Nat
  BY ReconciliationAssumption DEF MoveWindow
<1>2. Len(payments) \in Nat
  OBVIOUS
<1>3. pass' \in PassType /\ pass'.pc = "fetch" /\ pass'.found = {} /\ pass'.until = Len(payments)
  BY <1>2 DEF PassType, NoPass, OldestOf, Owners
<1>4. QED
  BY <1>1, <1>2, <1>3

LEMMA PassFetches ==
  ASSUME ReconInv, FetchWindow
  PROVE  ReconInv'
<1> USE DEF ReconInv, ReconTypes, LateOrHidden, PaidIsRecorded, OrphansAreForeign, GivenUp,
            IsPaid, During, FetchWindow
<1>1. Fetched \subseteq ToSet(payments)
  <2> DEFINE first == IF pass.until - agedPays > PageCap THEN pass.until - PageCap ELSE agedPays
  <2>1. first \in Nat /\ pass.until \in Nat /\ pass.until <= Len(payments)
    BY ReconciliationAssumption DEF PassType
  <2>2. ASSUME NEW i \in DOMAIN SubSeq(payments, first + 1, pass.until)
        PROVE  SubSeq(payments, first + 1, pass.until)[i] \in ToSet(payments)
    <3>1. CASE first < pass.until
      <4>1. first + 1 \in Int /\ pass.until \in Int /\ first + 1 <= pass.until
        BY <2>1, <3>1
      <4>2. \A k \in first + 1 .. pass.until : k \in DOMAIN payments
        BY <2>1, LenProperties
      <4>3. \A k \in first + 1 .. pass.until : payments[k] \in ToSet(payments)
        BY <4>2 DEF ToSet
      <4>4. SubSeq(payments, first + 1, pass.until) \in Seq(ToSet(payments))
        BY <4>1, <4>3, SubSeqProperties
      <4>5. QED
        BY <4>4, ElementOfSeq, LenProperties
    <3>2. CASE ~(first < pass.until)
      <4>1. /\ SubSeq(payments, first + 1, pass.until) \in Seq({})
            /\ Len(SubSeq(payments, first + 1, pass.until)) = 0
        BY <2>1, <3>2, SubSeqProperties
      <4>2. QED
        BY <4>1, LenProperties
    <3>3. QED
      BY <3>1, <3>2
  <2>3. QED
    BY <2>2 DEF Fetched, ToSet
<1>2. ToSet(payments) \subseteq Owners
  BY DEF ToSet
<1>3. pass' \in PassType /\ pass'.pc = "match" /\ pass'.found \subseteq ToSet(payments) /\ pass'.until = 0
  BY <1>1, <1>2 DEF PassType
<1>4. QED
  BY <1>1, <1>3

LEMMA PassMatches ==
  ASSUME ReconInv, Match
  PROVE  ReconInv'
<1> DEFINE o == First(pass.todo)
<1>1. o \in Checkouts
  BY FirstIsMember DEF Match, ReconInv, ReconTypes, PassType
<1> HIDE DEF o
<1>2. pass' \in PassType /\ pass'.pc = "match" /\ pass'.found = pass.found /\ pass'.until = pass.until
  <2>1. \/ pass' = [pass EXCEPT !.todo = pass.todo \ {o}]
        \/ pass' = [pass EXCEPT !.todo = pass.todo \ {o}, !.left = pass.left \cup {o}]
    BY DEF Match, o
  <2>2. pass \in PassType /\ pass.pc = "match"
    BY DEF Match, During, ReconInv, ReconTypes
  <2>3. CASE pass' = [pass EXCEPT !.todo = pass.todo \ {o}]
    BY <2>2, <2>3 DEF PassType
  <2>4. CASE pass' = [pass EXCEPT !.todo = pass.todo \ {o}, !.left = pass.left \cup {o}]
    BY <1>1, <2>2, <2>4 DEF PassType
  <2>5. QED
    BY <2>1, <2>3, <2>4
<1>a. (Complete(o) \/ UNCHANGED <<attempts, placed>>) /\ During("match")
      /\ UNCHANGED <<payments, agedRows, agedPays, passes, orphans, excused>>
  BY DEF Match, o
<1> USE DEF ReconInv, ReconTypes, LateOrHidden, PaidIsRecorded, OrphansAreForeign, GivenUp,
            IsPaid, During
<1>3. /\ attempts' \in [Checkouts -> {"none", "pending", "resolved", "abandoned"}]
      /\ placed' \subseteq Checkouts /\ placed \subseteq placed'
      /\ \A x \in Checkouts : /\ attempts'[x] = "abandoned" <=> attempts[x] = "abandoned"
                              /\ attempts'[x] = "none" <=> attempts[x] = "none"
  <2>1. CASE Complete(o)
    BY <1>1, <1>a, <2>1, CompleteKeeps
  <2>2. CASE UNCHANGED <<attempts, placed>>
    BY <2>2
  <2>3. QED
    BY <1>a, <2>1, <2>2
<1>4. QED
  BY <1>a, <1>2, <1>3

LEMMA PassGoesOn ==
  ASSUME ReconInv, NextStage \/ EndPass \/ AskOrders
  PROVE  ReconInv'
<1> USE DEF ReconInv, ReconTypes, LateOrHidden, PaidIsRecorded, OrphansAreForeign, GivenUp,
            IsPaid, During
<1>1. CASE NextStage
  BY <1>1 DEF NextStage, PassType
<1>2. CASE EndPass
  BY <1>2 DEF EndPass, PassType, NoPass, Owners
<1>3. CASE AskOrders
  BY <1>3 DEF AskOrders, PassType, Unmatched
<1>4. QED
  BY <1>1, <1>2, <1>3

LEMMA PassLooks ==
  ASSUME ReconInv, LookAtOrder
  PROVE  ReconInv'
<1> DEFINE o == First(pass.todo)
<1>1. o \in Checkouts
  BY FirstIsMember DEF LookAtOrder, ReconInv, ReconTypes, PassType
<1> HIDE DEF o
<1>2. /\ pass' \in PassType /\ pass'.found = pass.found /\ pass'.until = pass.until
      /\ pass'.pc = "look" \/ (pass'.pc = "abandon" /\ pass'.order = o)
  <2>1. \/ pass' = [pass EXCEPT !.todo = pass.todo \ {o}]
        \/ pass' = [pass EXCEPT !.todo = pass.todo \ {o}, !.order = o, !.pc = "abandon"]
    BY DEF LookAtOrder, o
  <2>2. pass \in PassType /\ pass.pc = "look"
    BY DEF LookAtOrder, During, ReconInv, ReconTypes
  <2>3. CASE pass' = [pass EXCEPT !.todo = pass.todo \ {o}]
    BY <2>2, <2>3 DEF PassType
  <2>4. CASE pass' = [pass EXCEPT !.todo = pass.todo \ {o}, !.order = o, !.pc = "abandon"]
    BY <1>1, <2>2, <2>4 DEF PassType, Owners
  <2>5. QED
    BY <2>1, <2>3, <2>4
<1>5. \/ /\ IsPaid(o) /\ Complete(o) /\ UNCHANGED excused
         /\ pass' = [pass EXCEPT !.todo = pass.todo \ {o}]
      \/ /\ UNCHANGED <<attempts, placed>>
         /\ (~IsPaid(o) /\ UNCHANGED excused) \/ excused' = excused \cup {o}
  BY DEF LookAtOrder, o
<1>b. During("look") /\ UNCHANGED <<payments, agedRows, agedPays, passes, orphans>>
  BY DEF LookAtOrder
<1> USE DEF ReconInv, ReconTypes, LateOrHidden, PaidIsRecorded, OrphansAreForeign, GivenUp,
            IsPaid, During
<1>3. CASE Complete(o) /\ pass' = [pass EXCEPT !.todo = pass.todo \ {o}] /\ UNCHANGED excused
  <2>0. pass'.pc = "look"
    BY <1>3, <1>b DEF PassType
  <2>1. /\ attempts' \in [Checkouts -> {"none", "pending", "resolved", "abandoned"}]
        /\ placed' \subseteq Checkouts /\ placed \subseteq placed'
        /\ \A x \in Checkouts : /\ attempts'[x] = "abandoned" <=> attempts[x] = "abandoned"
                                /\ attempts'[x] = "none" <=> attempts[x] = "none"
    BY <1>1, <1>3, <1>b, CompleteKeeps
  <2>2. QED
    BY <1>2, <1>3, <1>b, <2>0, <2>1
<1>4. CASE /\ UNCHANGED <<attempts, placed>>
           /\ (~IsPaid(o) /\ UNCHANGED excused) \/ excused' = excused \cup {o}
  BY <1>1, <1>2, <1>4, <1>b
<1>6. QED
  BY <1>3, <1>4, <1>5

LEMMA PassAbandons ==
  ASSUME ReconInv, Abandon
  PROVE  ReconInv'
<1> USE DEF ReconInv, ReconTypes, LateOrHidden, PaidIsRecorded, OrphansAreForeign, GivenUp,
            IsPaid, During, Abandon
<1>1. pass.order \in Checkouts
  OBVIOUS
<1>2. pass' \in PassType /\ pass'.found = pass.found /\ pass'.until = pass.until /\ pass'.pc = "look"
  BY DEF PassType, Owners
<1>3. attempts' \in [Checkouts -> {"none", "pending", "resolved", "abandoned"}]
  OBVIOUS
<1>4. \A x \in Checkouts : /\ attempts'[x] = "abandoned" => GivenUp(x)
                           /\ attempts'[x] = "none" => attempts[x] = "none"
  BY <1>1
<1>5. QED
  BY <1>2, <1>3, <1>4

(* What is reported has neither an order nor an attempt, so it did not      *)
(* start here.                                                              *)
LEMMA PassReports ==
  ASSUME ReconInv, AskAttempts
  PROVE  ReconInv'
<1> USE DEF ReconInv, ReconTypes, LateOrHidden, PaidIsRecorded, OrphansAreForeign, GivenUp,
            IsPaid, During, AskAttempts
<1>1. \A o \in Unmatched : o \in Checkouts => attempts[o] # "none"
  BY DEF Unmatched
<1>2. Unmatched \subseteq Owners
  BY DEF Unmatched, PassType
<1>3. orphans' \subseteq {Foreign}
  BY <1>1, <1>2 DEF Owners
<1>4. pass' \in PassType /\ pass'.pc = "asleep" /\ pass'.found = {} /\ pass'.until = 0
  BY DEF NoPass, PassType, Owners
<1>5. QED
  BY <1>3, <1>4

LEMMA ReconStep == ReconInv /\ [ReconNext]_reconVars => ReconInv'
<1> SUFFICES ASSUME ReconInv, [ReconNext]_reconVars PROVE ReconInv'
  OBVIOUS
<1>1. CASE UNCHANGED reconVars
  BY <1>1 DEF reconVars, ReconInv, ReconTypes, LateOrHidden, PaidIsRecorded, OrphansAreForeign,
              GivenUp, IsPaid, During, PassType
<1>2. CASE \E o \in Checkouts : RecordAttempt(o) \/ Confirm(o)
  BY <1>2, CheckoutSteps
<1>3. CASE \E o \in Checkouts \cup {Foreign} : Capture(o)
  BY <1>3, CaptureKeeps DEF Owners
<1>4. CASE BeginPass \/ FetchWindow \/ Match \/ NextStage \/ LookAtOrder \/ Abandon
           \/ AskOrders \/ AskAttempts \/ EndPass
  BY <1>4, PassBegins, PassFetches, PassMatches, PassGoesOn, PassLooks, PassAbandons, PassReports
<1>5. QED
  BY <1>1, <1>2, <1>3, <1>4 DEF ReconNext

(* What a pass knows of payments and attempts stays true while customers    *)
(* check out, pay and confirm between its steps.                            *)
THEOREM ReconInvHolds == ReconSpec => []ReconInv
  BY ReconInitInv, ReconStep, PTL DEF ReconSpec

(* No cap of a pass, and no delay of the worker, makes it give up an order  *)
(* that was paid before the last look at it and could be seen.              *)
THEOREM PaidIsNotAbandonedHolds == ReconSpec => []PaidIsNotAbandoned
<1>1. ReconInv => PaidIsNotAbandoned
  BY DEF ReconInv, LateOrHidden, GivenUp, PaidIsNotAbandoned
<1>2. QED
  BY <1>1, ReconInvHolds, PTL

(* A payment that is reported as unknown did not start in this shop.        *)
THEOREM OrphansAreForeignHolds == ReconSpec => []OrphansAreForeign
<1>1. ReconInv => OrphansAreForeign
  BY DEF ReconInv
<1>2. QED
  BY <1>1, ReconInvHolds, PTL

-----------------------------------------------------------------------------
(* Records: what a check before a write is worth.                           *)

Stages == {"idle", "unset", "insert", "set", "rate", "letter", "subscribe", "renew", "code",
           "validate", "coupon"}
CouponType == [indicator : Indicators \cup {"none"}, amount : Amounts \cup {Unset}]
WriterType == [at : Stages, row : Nat, default : BOOLEAN, seen : CouponType, new : CouponType]

RecordTypes ==
  /\ lastRow \in Nat /\ addresses \subseteq 1 .. lastRow /\ defaults \subseteq addresses
  /\ inbox \subseteq 1 .. lastRow
  /\ delivered \in BOOLEAN /\ ratings \in Nat /\ letters \in Nat
  /\ coupon \in CouponType /\ torn \in BOOLEAN
  /\ writer \in [Writers -> WriterType]
  /\ \A p \in Writers : /\ Writing(p, "idle") => writer[p] = NoWriter
                        /\ Writing(p, "insert") => writer[p].row = Unset

(* The requests that passed their check and did not write yet.              *)
RatingSoon == {p \in Writers : Writing(p, "rate")}
LetterSoon == {p \in Writers : Writing(p, "letter")}
InboxSoon == {p \in Writers : Writing(p, "subscribe")}
Inserting == {p \in Writers : Writing(p, "insert")
                              \/ (Writing(p, "unset") /\ writer[p].row = Unset)}
Choosing == {p \in Writers : (Writing(p, "insert") \/ Writing(p, "set")) /\ writer[p].default}
Chosen == {writer[p].row : p \in Choosing}

(* Each leaves room for one row more than its check allowed.                *)
RoomForAddresses ==
  Cardinality(addresses) + Cardinality(Inserting) <= MaxAddresses + Cardinality(Writers) - 1
RoomForDefaults == Cardinality(defaults \ Chosen) + Cardinality(Choosing) <= Cardinality(Writers)
RoomForRatings == ratings + Cardinality(RatingSoon) <= Cardinality(Writers)
RoomForLetters == letters + Cardinality(LetterSoon) <= Cardinality(Writers)
RoomForInbox == Cardinality(inbox) + Cardinality(InboxSoon) <= Cardinality(Writers)
CouponsValidated ==
  \A p \in Writers : /\ Writing(p, "code") => Valid(writer[p].new)
                     /\ Writing(p, "coupon") => Valid(Merge(writer[p].seen, writer[p].new))

RecordsInv ==
  /\ RecordTypes /\ RoomForAddresses /\ RoomForDefaults /\ RoomForRatings
  /\ RoomForLetters /\ RoomForInbox /\ CouponsValidated /\ CouponIsValid


LEMMA RecordsInitInv == RecordsInit => RecordsInv
<1> SUFFICES ASSUME RecordsInit PROVE RecordsInv
  OBVIOUS
<1> USE DEF RecordsInit
<1>1. RecordTypes
  BY DEF RecordTypes, NoWriter, WriterType, Stages, CouponType, NoCoupon, Writing, Unset
<1>2. /\ RatingSoon = {} /\ LetterSoon = {} /\ InboxSoon = {}
      /\ Inserting = {} /\ Choosing = {} /\ defaults \ Chosen = {}
  BY DEF RatingSoon, LetterSoon, InboxSoon, Inserting, Choosing, Writing, NoWriter
<1>3. Cardinality({}) = 0 /\ Cardinality(Writers) \in Nat
  BY FS_EmptySet, FS_CardinalityType, RecordsAssumption
<1>4. /\ RoomForAddresses /\ RoomForDefaults /\ RoomForRatings /\ RoomForLetters /\ RoomForInbox
  BY <1>2, <1>3, RecordsAssumption
     DEF RoomForAddresses, RoomForDefaults, RoomForRatings, RoomForLetters, RoomForInbox
<1>5. CouponsValidated /\ CouponIsValid
  BY DEF CouponsValidated, CouponIsValid, Writing, NoWriter
<1>6. QED
  BY <1>1, <1>4, <1>5 DEF RecordsInv

LEMMA WritersCounted ==
  ASSUME NEW S \in SUBSET Writers
  PROVE  /\ IsFiniteSet(S) /\ Cardinality(S) \in Nat /\ Cardinality(Writers) \in Nat
         /\ Cardinality(S) <= Cardinality(Writers)
  BY FS_Subset, FS_CardinalityType, RecordsAssumption

(* A set that grows by nothing is no larger.                                *)
LEMMA SmallerCounted ==
  ASSUME NEW S, IsFiniteSet(S), NEW T, T \subseteq S
  PROVE  /\ IsFiniteSet(T) /\ Cardinality(T) \in Nat /\ Cardinality(S) \in Nat
         /\ Cardinality(T) <= Cardinality(S)
  BY FS_Subset, FS_CardinalityType

LEMMA RowsCounted ==
  ASSUME RecordTypes, NEW S, S \subseteq 1 .. lastRow
  PROVE  /\ IsFiniteSet(S) /\ Cardinality(S) \in Nat
         /\ IsFiniteSet(S \cup {lastRow + 1})
         /\ Cardinality(S \cup {lastRow + 1}) = Cardinality(S) + 1
<1>1. IsFiniteSet(1 .. lastRow) /\ lastRow + 1 \notin S
  BY FS_Interval DEF RecordTypes
<1>2. IsFiniteSet(S)
  BY <1>1, FS_Subset
<1>3. QED
  BY <1>1, <1>2, FS_AddElement, FS_CardinalityType

(* One request moves, the others stay where they are.                       *)
LEMMA OneMoves ==
  ASSUME RecordTypes, NEW p \in Writers, NEW w \in WriterType,
         writer' = [writer EXCEPT ![p] = w]
  PROVE  /\ writer' \in [Writers -> WriterType] /\ writer'[p] = w
         /\ \A q \in Writers \ {p} : writer'[q] = writer[q]
  BY DEF RecordTypes

LEMMA StageMoves ==
  ASSUME RecordTypes, NEW p \in Writers, NEW w \in WriterType,
         writer' = [writer EXCEPT ![p] = w]
  PROVE  /\ RatingSoon' \ {p} = RatingSoon \ {p} /\ (p \in RatingSoon' <=> w.at = "rate")
         /\ LetterSoon' \ {p} = LetterSoon \ {p} /\ (p \in LetterSoon' <=> w.at = "letter")
         /\ InboxSoon' \ {p} = InboxSoon \ {p} /\ (p \in InboxSoon' <=> w.at = "subscribe")
<1>1. /\ writer'[p] = w /\ \A q \in Writers \ {p} : writer'[q] = writer[q]
  BY OneMoves
<1>2. QED
  BY <1>1 DEF RatingSoon, LetterSoon, InboxSoon, Writing

LEMMA InsertingMoves ==
  ASSUME RecordTypes, NEW p \in Writers, NEW w \in WriterType,
         writer' = [writer EXCEPT ![p] = w]
  PROVE  /\ w.at = "insert" \/ (w.at = "unset" /\ w.row = Unset) => Inserting' = Inserting \cup {p}
         /\ w.at # "insert" /\ (w.at # "unset" \/ w.row # Unset) => Inserting' = Inserting \ {p}
  BY OneMoves DEF Inserting, Writing

LEMMA ChoosingMoves ==
  ASSUME RecordTypes, NEW p \in Writers, NEW w \in WriterType,
         writer' = [writer EXCEPT ![p] = w]
  PROVE  /\ w.at \in {"insert", "set"} /\ w.default => Choosing' = Choosing \cup {p}
         /\ w.at \notin {"insert", "set"} \/ ~w.default => Choosing' = Choosing \ {p}
<1>1. ASSUME NEW q \in Writers, q # p PROVE q \in Choosing' <=> q \in Choosing
  <2>1. writer'[q] = writer[q]
    BY <1>1, OneMoves
  <2>2. QED
    BY <2>1, Zenon DEF Choosing, Writing
<1>2. p \in Choosing' <=> w.at \in {"insert", "set"} /\ w.default
  <2>1. writer'[p] = w
    BY OneMoves
  <2>2. QED
    BY <2>1, Zenon DEF Choosing, Writing
<1>3. Choosing \subseteq Writers /\ Choosing' \subseteq Writers
  BY DEF Choosing
<1>4. CASE w.at \in {"insert", "set"} /\ w.default
  BY <1>1, <1>2, <1>3, <1>4
<1>5. CASE w.at \notin {"insert", "set"} \/ ~w.default
  BY <1>1, <1>2, <1>3, <1>5
<1>6. QED
  BY <1>4, <1>5

LEMMA ChosenKept ==
  ASSUME RecordTypes, NEW p \in Writers, NEW w \in WriterType,
         writer' = [writer EXCEPT ![p] = w], p \notin Choosing,
         ~(w.at \in {"insert", "set"} /\ w.default)
  PROVE  Choosing' = Choosing /\ Chosen' = Chosen
<1>1. Choosing' = Choosing
  BY ChoosingMoves
<1>2. \A q \in Choosing : writer'[q] = writer[q]
  BY OneMoves DEF Choosing
<1>3. QED
  BY <1>1, <1>2 DEF Chosen

-----------------------------------------------------------------------------
(* What leaves the counted rows and requests alone leaves room.             *)

LEMMA AddressRoomKept ==
  ASSUME RecordsInv, addresses' \subseteq addresses, Inserting' \subseteq Inserting
  PROVE  RoomForAddresses'
<1>1. Inserting \subseteq Writers
  BY DEF Inserting
<1>2. IsFiniteSet(addresses) /\ IsFiniteSet(Inserting)
  BY <1>1, RowsCounted, WritersCounted DEF RecordsInv, RecordTypes
<1>3. /\ Cardinality(addresses') \in Nat /\ Cardinality(addresses) \in Nat
      /\ Cardinality(addresses') <= Cardinality(addresses)
  BY <1>2, SmallerCounted
<1>4. /\ Cardinality(Inserting') \in Nat /\ Cardinality(Inserting) \in Nat
      /\ Cardinality(Inserting') <= Cardinality(Inserting)
  BY <1>2, SmallerCounted
<1>5. QED
  BY <1>3, <1>4, WritersCounted, RecordsAssumption DEF RecordsInv, RoomForAddresses

LEMMA DefaultRoomKept ==
  ASSUME RecordsInv, defaults' \subseteq defaults, Choosing' = Choosing, Chosen' = Chosen
  PROVE  RoomForDefaults'
<1>1. Choosing \subseteq Writers
  BY DEF Choosing
<1>2. IsFiniteSet(defaults \ Chosen) /\ Cardinality(Choosing) \in Nat
  BY <1>1, RowsCounted, WritersCounted DEF RecordsInv, RecordTypes
<1>3. /\ Cardinality(defaults' \ Chosen') \in Nat /\ Cardinality(defaults \ Chosen) \in Nat
      /\ Cardinality(defaults' \ Chosen') <= Cardinality(defaults \ Chosen)
  BY <1>2, SmallerCounted
<1>4. QED
  BY <1>2, <1>3, WritersCounted DEF RecordsInv, RoomForDefaults

LEMMA SubsetsCounted ==
  ASSUME NEW S, NEW T, S \subseteq Writers, T \subseteq S
  PROVE  /\ Cardinality(T) \in Nat /\ Cardinality(S) \in Nat /\ Cardinality(Writers) \in Nat
         /\ Cardinality(T) <= Cardinality(S)
  BY WritersCounted, SmallerCounted

LEMMA RatingRoomKept ==
  ASSUME RecordsInv, ratings' = ratings, RatingSoon' \subseteq RatingSoon
  PROVE  RoomForRatings'
<1>1. RatingSoon \subseteq Writers
  BY DEF RatingSoon
<1>2. QED
  BY <1>1, SubsetsCounted DEF RecordsInv, RecordTypes, RoomForRatings

LEMMA LetterRoomKept ==
  ASSUME RecordsInv, letters' = letters, LetterSoon' \subseteq LetterSoon
  PROVE  RoomForLetters'
<1>1. LetterSoon \subseteq Writers
  BY DEF LetterSoon
<1>2. QED
  BY <1>1, SubsetsCounted DEF RecordsInv, RecordTypes, RoomForLetters

LEMMA InboxRoomKept ==
  ASSUME RecordsInv, inbox' \subseteq inbox, InboxSoon' \subseteq InboxSoon
  PROVE  RoomForInbox'
<1>1. InboxSoon \subseteq Writers
  BY DEF InboxSoon
<1>2. /\ Cardinality(inbox') \in Nat /\ Cardinality(inbox) \in Nat
      /\ Cardinality(inbox') <= Cardinality(inbox)
  BY RowsCounted, SmallerCounted DEF RecordsInv, RecordTypes
<1>3. QED
  BY <1>1, <1>2, SubsetsCounted DEF RecordsInv, RoomForInbox

LEMMA OtherRoomKept ==
  ASSUME RecordsInv, ratings' = ratings, letters' = letters, inbox' \subseteq inbox,
         RatingSoon' \subseteq RatingSoon, LetterSoon' \subseteq LetterSoon,
         InboxSoon' \subseteq InboxSoon
  PROVE  RoomForRatings' /\ RoomForLetters' /\ RoomForInbox'
  BY RatingRoomKept, LetterRoomKept, InboxRoomKept

-----------------------------------------------------------------------------
(* One lemma per group of actions.                                          *)

AddressesKept == UNCHANGED <<addressVars, lastRow>>
OthersKept == UNCHANGED <<ratingVars, letterVars, couponVars>>

(* A request that passes a check of its own or steps on between checks and  *)
(* writes nothing yet.                                                      *)
LEMMA CouponsKept ==
  ASSUME RecordsInv, NEW p \in Writers, NEW w \in WriterType,
         writer' = [writer EXCEPT ![p] = w],
         w.at = "code" => Valid(w.new), w.at = "coupon" => Valid(Merge(w.seen, w.new))
  PROVE  CouponsValidated'
<1>1. \A q \in Writers \ {p} : writer'[q] = writer[q]
  BY OneMoves DEF RecordsInv
<1>2. writer'[p] = w
  BY OneMoves DEF RecordsInv
<1>3. ASSUME NEW q \in Writers
      PROVE  /\ writer'[q].at = "code" => Valid(writer'[q].new)
             /\ writer'[q].at = "coupon" => Valid(Merge(writer'[q].seen, writer'[q].new))
  BY <1>1, <1>2 DEF RecordsInv, CouponsValidated, Writing
<1>4. QED
  BY <1>3 DEF CouponsValidated, Writing, Valid, Merge

LEMMA NoWriterTyped == NoWriter \in WriterType /\ NoWriter.at = "idle"
  BY DEF NoWriter, WriterType, Stages, CouponType, NoCoupon, Unset

LEMMA StepsAbout ==
  ASSUME RecordsInv, NEW p \in Writers, NEW w \in WriterType,
         writer' = [writer EXCEPT ![p] = w],
         w.at = "idle" => w = NoWriter, w.at = "insert" => w.row = Unset
  PROVE  /\ writer' \in [Writers -> WriterType]
         /\ \A q \in Writers : /\ Writing(q, "idle")' => writer'[q] = NoWriter
                               /\ Writing(q, "insert")' => writer'[q].row = Unset
<1>1. /\ writer' \in [Writers -> WriterType] /\ writer'[p] = w
      /\ \A q \in Writers \ {p} : writer'[q] = writer[q]
  BY OneMoves DEF RecordsInv
<1>2. QED
  BY <1>1 DEF RecordsInv, RecordTypes, Writing

LEMMA AddressChecks ==
  ASSUME RecordsInv, NEW p \in Writers, CreateAddress(p) \/ UpdateAddress(p), OthersKept
  PROVE  RecordsInv'
<1>1. PICK w \in WriterType :
        /\ writer' = [writer EXCEPT ![p] = w] /\ w.at \in {"unset", "insert", "set"}
        /\ w.at = "insert" => w.row = Unset
        /\ w.at # "unset" => ~w.default
        /\ (w.at = "insert" \/ w.row = Unset) => Cardinality(addresses) < MaxAddresses
  <2>1. CASE CreateAddress(p)
    <3>1. PICK default \in BOOLEAN :
            writer' = [writer EXCEPT ![p] =
              [NoWriter EXCEPT !.at = IF default THEN "unset" ELSE "insert", !.default = default]]
      BY <2>1 DEF CreateAddress, RecordsInv, RecordTypes
    <3>2. Cardinality(addresses) < MaxAddresses
      BY <2>1 DEF CreateAddress
    <3>3. QED
      BY <3>1, <3>2, NoWriterTyped DEF NoWriter, WriterType, Stages
  <2>2. CASE UpdateAddress(p)
    <3>1. PICK a \in addresses, default \in BOOLEAN :
            writer' = [writer EXCEPT ![p] =
              [NoWriter EXCEPT !.at = IF default THEN "unset" ELSE "set", !.row = a,
                               !.default = default]]
      BY <2>2 DEF UpdateAddress, RecordsInv, RecordTypes
    <3>2. a \in Nat /\ a # Unset
      BY DEF RecordsInv, RecordTypes, Unset
    <3> DEFINE w == [NoWriter EXCEPT !.at = IF default THEN "unset" ELSE "set", !.row = a,
                                     !.default = default]
    <3>3. /\ w \in WriterType /\ w.row = a /\ w.at \in {"unset", "set"}
          /\ w.at # "unset" => ~w.default
      <4>1. CASE default
        BY <3>2, <4>1, NoWriterTyped DEF NoWriter, WriterType, Stages
      <4>2. CASE ~default
        BY <3>2, <4>2, NoWriterTyped DEF NoWriter, WriterType, Stages
      <4>3. QED
        BY <4>1, <4>2
    <3>4. writer' = [writer EXCEPT ![p] = w]
      BY <3>1
    <3> HIDE DEF w
    <3>5. QED
      BY <3>2, <3>3, <3>4
  <2>3. QED
    BY <2>1, <2>2
<1>2. /\ Writing(p, "idle") /\ AddressesKept
  BY DEF CreateAddress, UpdateAddress, AddressesKept
<1>3. p \notin Choosing
  BY <1>2 DEF Choosing, Writing
<1>4. RecordTypes'
  BY <1>1, <1>2, StepsAbout
     DEF RecordsInv, RecordTypes, AddressesKept, OthersKept, addressVars, ratingVars, letterVars,
         couponVars
<1>5. RoomForAddresses'
  <2>1. CASE w.at = "insert" \/ w.row = Unset
    <3>1. Cardinality(addresses) < MaxAddresses /\ addresses' = addresses
      BY <1>1, <1>2, <2>1 DEF AddressesKept, addressVars
    <3>2. Inserting' \subseteq Writers
      BY DEF Inserting
    <3>3. /\ Cardinality(Inserting') \in Nat /\ Cardinality(Writers) \in Nat
          /\ Cardinality(Inserting') <= Cardinality(Writers)
      BY <3>2, WritersCounted
    <3>4. Cardinality(addresses) \in Nat
      BY RowsCounted DEF RecordsInv, RecordTypes
    <3>5. QED
      BY <3>1, <3>3, <3>4, RecordsAssumption DEF RoomForAddresses
  <2>2. CASE ~(w.at = "insert" \/ w.row = Unset)
    <3>1. Inserting' \subseteq Inserting
      BY <1>1, <2>2, InsertingMoves DEF RecordsInv
    <3>2. QED
      BY <1>2, <3>1, AddressRoomKept DEF AddressesKept, addressVars
  <2>3. QED
    BY <2>1, <2>2
<1>6. RoomForDefaults'
  BY <1>1, <1>2, <1>3, ChosenKept, DefaultRoomKept
     DEF AddressesKept, addressVars, RecordsInv
<1>7. RoomForRatings' /\ RoomForLetters' /\ RoomForInbox'
  <2>1. /\ RatingSoon' \subseteq RatingSoon /\ LetterSoon' \subseteq LetterSoon
        /\ InboxSoon' \subseteq InboxSoon
    BY <1>1, StageMoves DEF RecordsInv
  <2>2. QED
    BY <2>1, OtherRoomKept DEF OthersKept, ratingVars, letterVars
<1>8. CouponsValidated' /\ CouponIsValid'
  BY <1>1, CouponsKept DEF OthersKept, couponVars, CouponIsValid, RecordsInv, Valid
<1>9. QED
  BY <1>4, <1>5, <1>6, <1>7, <1>8 DEF RecordsInv

LEMMA DefaultsAreUnset ==
  ASSUME RecordsInv, NEW p \in Writers, UnsetDefaults(p), OthersKept
  PROVE  RecordsInv'
<1> DEFINE w == [writer[p] EXCEPT !.at = IF writer[p].row = Unset THEN "insert" ELSE "set"]
<1>1. /\ writer[p] \in WriterType /\ writer[p].at = "unset"
      /\ w \in WriterType /\ w.row = writer[p].row /\ w.default = writer[p].default
      /\ w.at = IF writer[p].row = Unset THEN "insert" ELSE "set"
  BY DEF UnsetDefaults, Writing, RecordsInv, RecordTypes, WriterType, Stages
<1>2. /\ writer' = [writer EXCEPT ![p] = w]
      /\ defaults' = defaults \cap {writer[p].row} /\ UNCHANGED <<addresses, lastRow>>
  BY DEF UnsetDefaults, Proceed, Writing
<1> HIDE DEF w
<1>4. RecordTypes'
  BY <1>1, <1>2, StepsAbout
     DEF RecordsInv, RecordTypes, OthersKept, ratingVars, letterVars, couponVars
<1>5. RoomForAddresses'
  <2>1. p \in Inserting <=> writer[p].row = Unset
    BY <1>1 DEF Inserting, Writing
  <2>2. Inserting' \subseteq Inserting
    BY <1>1, <1>2, <2>1, InsertingMoves DEF RecordsInv
  <2>3. QED
    BY <1>2, <2>2, AddressRoomKept
<1>6. RoomForDefaults'
  <2>1. Choosing' \subseteq Writers
    BY DEF Choosing
  <2>2. CASE writer[p].default
    <3>1. p \in Choosing' /\ writer'[p] = w
      BY <1>1, <1>2, <2>2, OneMoves, ChoosingMoves DEF RecordsInv
    <3>2. writer[p].row \in Chosen'
      BY <1>1, <3>1 DEF Chosen
    <3>3. defaults' \ Chosen' = {}
      BY <1>2, <3>2
    <3>4. QED
      BY <2>1, <3>3, WritersCounted, FS_EmptySet DEF RoomForDefaults
  <2>3. CASE ~writer[p].default
    <3>1. p \notin Choosing
      BY <1>1 DEF Choosing, Writing
    <3>2. QED
      BY <1>1, <1>2, <2>3, <3>1, ChosenKept, DefaultRoomKept DEF RecordsInv
  <2>4. QED
    BY <2>2, <2>3
<1>7. RoomForRatings' /\ RoomForLetters' /\ RoomForInbox'
  <2>1. /\ RatingSoon' \subseteq RatingSoon /\ LetterSoon' \subseteq LetterSoon
        /\ InboxSoon' \subseteq InboxSoon
    BY <1>1, <1>2, StageMoves DEF RecordsInv
  <2>2. QED
    BY <2>1, OtherRoomKept DEF OthersKept, ratingVars, letterVars
<1>8. CouponsValidated' /\ CouponIsValid'
  BY <1>1, <1>2, CouponsKept DEF OthersKept, couponVars, CouponIsValid, RecordsInv, Valid
<1>9. QED
  BY <1>4, <1>5, <1>6, <1>7, <1>8 DEF RecordsInv

(* The request is done.                                                     *)
LEMMA WriterDone ==
  ASSUME RecordsInv, NEW p \in Writers, Written(p)
  PROVE  /\ NoWriter \in WriterType /\ writer' = [writer EXCEPT ![p] = NoWriter]
         /\ writer' \in [Writers -> WriterType]
         /\ \A q \in Writers : /\ Writing(q, "idle")' => writer'[q] = NoWriter
                               /\ Writing(q, "insert")' => writer'[q].row = Unset
         /\ Inserting' = Inserting \ {p} /\ Choosing' = Choosing \ {p}
         /\ RatingSoon' = RatingSoon \ {p} /\ LetterSoon' = LetterSoon \ {p}
         /\ InboxSoon' = InboxSoon \ {p} /\ CouponsValidated'
<1>1. NoWriter \in WriterType /\ writer' = [writer EXCEPT ![p] = NoWriter]
  BY NoWriterTyped DEF Written
<1>2. NoWriter.at = "idle"
  BY NoWriterTyped
<1>3. /\ writer' \in [Writers -> WriterType]
      /\ \A q \in Writers : /\ Writing(q, "idle")' => writer'[q] = NoWriter
                            /\ Writing(q, "insert")' => writer'[q].row = Unset
  BY <1>1, <1>2, StepsAbout
<1>4. Inserting' = Inserting \ {p} /\ Choosing' = Choosing \ {p}
  BY <1>1, <1>2, InsertingMoves, ChoosingMoves DEF RecordsInv
<1>5. /\ RatingSoon' = RatingSoon \ {p} /\ LetterSoon' = LetterSoon \ {p}
      /\ InboxSoon' = InboxSoon \ {p}
  BY <1>1, <1>2, StageMoves DEF RecordsInv
<1>6. CouponsValidated'
  BY <1>1, <1>2, CouponsKept
<1>7. QED
  BY <1>1, <1>3, <1>4, <1>5, <1>6

LEMMA OneMore ==
  ASSUME NEW S, IsFiniteSet(S), NEW e
  PROVE  IsFiniteSet(S \cup {e}) /\ Cardinality(S \cup {e}) <= Cardinality(S) + 1
<1>1. Cardinality(S) \in Nat
  BY FS_CardinalityType
<1>2. /\ IsFiniteSet(S \cup {e})
      /\ Cardinality(S \cup {e}) = IF e \in S THEN Cardinality(S) ELSE Cardinality(S) + 1
  BY FS_AddElement
<1>3. QED
  BY <1>1, <1>2

LEMMA OneLess ==
  ASSUME NEW S, IsFiniteSet(S), NEW p \in S
  PROVE  Cardinality(S \ {p}) = Cardinality(S) - 1 /\ Cardinality(S) \in Nat
  BY FS_RemoveElement, FS_CardinalityType

LEMMA AddressInserted ==
  ASSUME RecordsInv, NEW p \in Writers, InsertAddress(p), OthersKept
  PROVE  RecordsInv'
<1>1. /\ Writing(p, "insert") /\ lastRow' = lastRow + 1 /\ addresses' = addresses \cup {lastRow + 1}
      /\ Written(p) /\ writer[p].row = Unset /\ lastRow \in Nat
  BY DEF InsertAddress, NextRow, Insert, RecordsInv, RecordTypes
<1>2. \/ writer[p].default /\ defaults' = defaults \cup {lastRow + 1}
      \/ ~writer[p].default /\ defaults' = defaults
  BY Zenon DEF InsertAddress, Insert
<1>3. RecordTypes'
  <2>1. \A n \in 1 .. lastRow : n \in 1 .. lastRow + 1
    BY <1>1
  <2>2. lastRow' \in Nat /\ addresses' \subseteq 1 .. lastRow' /\ inbox' \subseteq 1 .. lastRow'
    BY <1>1, <2>1 DEF RecordsInv, RecordTypes, OthersKept, letterVars
  <2>3. defaults' \subseteq addresses'
    <3>1. defaults' \subseteq defaults \cup {lastRow + 1}
      BY <1>2
    <3>2. QED
      BY <1>1, <3>1 DEF RecordsInv, RecordTypes
  <2>4. QED
    BY <1>1, <2>2, <2>3, WriterDone
       DEF RecordsInv, RecordTypes, OthersKept, ratingVars, letterVars, couponVars
<1>4. RoomForAddresses'
  <2>1. p \in Inserting /\ Inserting \subseteq Writers
    BY <1>1 DEF Inserting
  <2>2. Cardinality(Inserting') = Cardinality(Inserting) - 1 /\ Cardinality(Inserting) \in Nat
    BY <1>1, <2>1, WriterDone, OneLess, WritersCounted
  <2>3. Cardinality(addresses') = Cardinality(addresses) + 1 /\ Cardinality(addresses) \in Nat
    BY <1>1, RowsCounted DEF RecordsInv, RecordTypes
  <2>4. QED
    BY <2>2, <2>3, WritersCounted, RecordsAssumption DEF RoomForAddresses, RecordsInv
<1>5. RoomForDefaults'
  <2>1. Choosing \subseteq Writers
    BY DEF Choosing
  <2>2. CASE writer[p].default
    <3>1. p \in Choosing
      BY <1>1, <2>2 DEF Choosing
    <3>2. Cardinality(Choosing') = Cardinality(Choosing) - 1 /\ Cardinality(Choosing) \in Nat
      BY <1>1, <2>1, <3>1, WriterDone, OneLess, WritersCounted
    <3>3. ASSUME NEW r \in Chosen, r # Unset PROVE r \in Chosen'
      <4>1. PICK q \in Choosing : r = writer[q].row
        BY DEF Chosen
      <4>2. q # p
        BY <1>1, <3>3, <4>1
      <4>3. q \in Choosing' /\ writer'[q] = writer[q]
        BY <1>1, <2>1, <4>1, <4>2, WriterDone, OneMoves DEF RecordsInv
      <4>4. QED
        BY <4>1, <4>3 DEF Chosen
    <3>4. defaults' \ Chosen' \subseteq (defaults \ Chosen) \cup {lastRow + 1}
      BY <1>2, <2>2, <3>3 DEF RecordsInv, RecordTypes, Unset
    <3>5. defaults \ Chosen \subseteq 1 .. lastRow
      BY DEF RecordsInv, RecordTypes
    <3>6. /\ Cardinality((defaults \ Chosen) \cup {lastRow + 1}) = Cardinality(defaults \ Chosen) + 1
          /\ IsFiniteSet((defaults \ Chosen) \cup {lastRow + 1})
          /\ Cardinality(defaults \ Chosen) \in Nat
      BY <3>5, RowsCounted DEF RecordsInv
    <3>7. /\ Cardinality(defaults' \ Chosen') \in Nat
          /\ Cardinality(defaults' \ Chosen') <= Cardinality(defaults \ Chosen) + 1
      BY <3>4, <3>6, SmallerCounted
    <3>8. QED
      BY <3>2, <3>6, <3>7, WritersCounted DEF RoomForDefaults, RecordsInv
  <2>3. CASE ~writer[p].default
    <3>1. p \notin Choosing /\ NoWriter.at = "idle"
      BY <2>3, NoWriterTyped DEF Choosing
    <3>2. QED
      BY <1>1, <1>2, <2>3, <3>1, WriterDone, ChosenKept, DefaultRoomKept DEF RecordsInv
  <2>4. QED
    BY <2>2, <2>3
<1>6. RoomForRatings' /\ RoomForLetters' /\ RoomForInbox'
  BY <1>1, WriterDone, OtherRoomKept DEF OthersKept, ratingVars, letterVars
<1>7. CouponsValidated' /\ CouponIsValid'
  BY <1>1, WriterDone DEF OthersKept, couponVars, CouponIsValid, RecordsInv, Valid
<1>8. QED
  BY <1>3, <1>4, <1>5, <1>6, <1>7 DEF RecordsInv

LEMMA AddressSet ==
  ASSUME RecordsInv, NEW p \in Writers, SetAddress(p), OthersKept
  PROVE  RecordsInv'
<1>1. /\ Writing(p, "set") /\ UNCHANGED <<addresses, lastRow>> /\ Written(p)
  BY DEF SetAddress
<1>2. \/ writer[p].default /\ defaults' = defaults \cup (addresses \cap {writer[p].row})
      \/ ~writer[p].default /\ defaults' \subseteq defaults
  BY DEF SetAddress
<1>3. RecordTypes'
  BY <1>1, <1>2, WriterDone
     DEF RecordsInv, RecordTypes, OthersKept, ratingVars, letterVars, couponVars
<1>4. RoomForAddresses'
  BY <1>1, WriterDone, AddressRoomKept
<1>5. RoomForDefaults'
  <2>1. Choosing \subseteq Writers
    BY DEF Choosing
  <2>2. CASE writer[p].default
    <3>1. p \in Choosing
      BY <1>1, <2>2 DEF Choosing
    <3>2. Cardinality(Choosing') = Cardinality(Choosing) - 1 /\ Cardinality(Choosing) \in Nat
      BY <1>1, <2>1, <3>1, WriterDone, OneLess, WritersCounted
    <3>3. ASSUME NEW r \in Chosen, r # writer[p].row PROVE r \in Chosen'
      <4>1. PICK q \in Choosing : r = writer[q].row
        BY DEF Chosen
      <4>2. q # p
        BY <3>3, <4>1
      <4>3. q \in Choosing' /\ writer'[q] = writer[q]
        BY <1>1, <2>1, <4>1, <4>2, WriterDone, OneMoves DEF RecordsInv
      <4>4. QED
        BY <4>1, <4>3 DEF Chosen
    <3>4. defaults' \ Chosen' \subseteq (defaults \ Chosen) \cup {writer[p].row}
      BY <1>2, <2>2, <3>3
    <3>5. defaults \ Chosen \subseteq 1 .. lastRow
      BY DEF RecordsInv, RecordTypes
    <3>6. IsFiniteSet(defaults \ Chosen) /\ Cardinality(defaults \ Chosen) \in Nat
      BY <3>5, RowsCounted DEF RecordsInv
    <3>7. /\ Cardinality((defaults \ Chosen) \cup {writer[p].row}) <= Cardinality(defaults \ Chosen) + 1
          /\ IsFiniteSet((defaults \ Chosen) \cup {writer[p].row})
      BY <3>6, OneMore
    <3>8. /\ Cardinality(defaults' \ Chosen') \in Nat
          /\ Cardinality(defaults' \ Chosen') <= Cardinality(defaults \ Chosen) + 1
      BY <3>4, <3>6, <3>7, SmallerCounted
    <3>9. QED
      BY <3>2, <3>6, <3>8, WritersCounted DEF RoomForDefaults, RecordsInv
  <2>3. CASE ~writer[p].default
    <3>1. p \notin Choosing /\ NoWriter.at = "idle"
      BY <2>3, NoWriterTyped DEF Choosing
    <3>2. QED
      BY <1>1, <1>2, <2>3, <3>1, WriterDone, ChosenKept, DefaultRoomKept DEF RecordsInv
  <2>4. QED
    BY <2>2, <2>3
<1>6. RoomForRatings' /\ RoomForLetters' /\ RoomForInbox'
  BY <1>1, WriterDone, OtherRoomKept DEF OthersKept, ratingVars, letterVars
<1>7. CouponsValidated' /\ CouponIsValid'
  BY <1>1, WriterDone DEF OthersKept, couponVars, CouponIsValid, RecordsInv, Valid
<1>8. QED
  BY <1>3, <1>4, <1>5, <1>6, <1>7 DEF RecordsInv

(* What changes no request at work leaves its counts alone.                 *)
LEMMA WritersStay ==
  ASSUME writer' = writer
  PROVE  /\ Inserting' = Inserting /\ Choosing' = Choosing /\ Chosen' = Chosen
         /\ RatingSoon' = RatingSoon /\ LetterSoon' = LetterSoon /\ InboxSoon' = InboxSoon
         /\ CouponsValidated' = CouponsValidated
  BY DEF Inserting, Choosing, Chosen, RatingSoon, LetterSoon, InboxSoon, CouponsValidated,
         Writing, Valid, Merge

LEMMA AddressDeleted ==
  ASSUME RecordsInv, DeleteAddress, OthersKept
  PROVE  RecordsInv'
<1>1. /\ addresses' \subseteq addresses /\ defaults' \subseteq defaults
      /\ defaults' \subseteq addresses' /\ UNCHANGED <<lastRow, writer>>
  BY DEF DeleteAddress, RecordsInv, RecordTypes
<1>2. RecordTypes'
  BY <1>1 DEF RecordsInv, RecordTypes, OthersKept, ratingVars, letterVars, couponVars, Writing
<1>3. RoomForAddresses' /\ RoomForDefaults' /\ RoomForRatings' /\ RoomForLetters' /\ RoomForInbox'
  BY <1>1, WritersStay, AddressRoomKept, DefaultRoomKept, OtherRoomKept
     DEF OthersKept, ratingVars, letterVars
<1>4. CouponsValidated' /\ CouponIsValid'
  BY <1>1, WritersStay DEF OthersKept, couponVars, CouponIsValid, RecordsInv, Valid
<1>5. QED
  BY <1>2, <1>3, <1>4 DEF RecordsInv

LEMMA AddressSteps ==
  ASSUME RecordsInv, AddressNext
  PROVE  RecordsInv'
<1>1. OthersKept
  BY DEF AddressNext, OthersKept
<1>2. QED
  BY <1>1, AddressChecks, DefaultsAreUnset, AddressInserted, AddressSet, AddressDeleted
     DEF AddressNext

(* Requests about something else leave the addresses room.                  *)
LEMMA OtherRequests ==
  ASSUME RecordsInv, NEW p \in Writers, NEW w \in WriterType,
         writer' = [writer EXCEPT ![p] = w], UNCHANGED addressVars,
         w.at \notin {"unset", "insert", "set"}, ~Writing(p, "insert"), ~Writing(p, "set")
  PROVE  RoomForAddresses' /\ RoomForDefaults'
<1>1. p \notin Choosing /\ ~(w.at \in {"insert", "set"} /\ w.default)
  BY DEF Choosing
<1>2. Inserting' \subseteq Inserting
  BY InsertingMoves DEF RecordsInv
<1>3. QED
  BY <1>1, <1>2, ChosenKept, AddressRoomKept, DefaultRoomKept DEF RecordsInv, addressVars

(* A request passes its check: it was idle, and now is at its write.        *)
LEMMA StepsOn ==
  ASSUME RecordsInv, NEW p \in Writers, NEW at \in Stages, Writing(p, "idle") \/ Writing(p, "validate"),
         Proceed(p, at), at \notin {"idle", "unset", "insert", "set"}
  PROVE  \E w \in WriterType : /\ writer' = [writer EXCEPT ![p] = w] /\ w.at = at
                               /\ w.new = writer[p].new
<1> DEFINE w == [writer[p] EXCEPT !.at = at]
<1>1. w \in WriterType /\ w.at = at /\ w.new = writer[p].new
  BY DEF RecordsInv, RecordTypes, WriterType
<1>2. writer' = [writer EXCEPT ![p] = w]
  BY DEF Proceed
<1>3. QED
  BY <1>1, <1>2

LEMMA RatingSteps ==
  ASSUME RecordsInv, RatingNext
  PROVE  RecordsInv'
<1> USE DEF RatingNext, addressVars, letterVars, couponVars
<1>1. CASE SetDelivered
  <2>1. writer' = writer /\ ratings' = ratings /\ delivered' \in BOOLEAN
    BY <1>1 DEF SetDelivered
  <2>2. RecordTypes'
    BY <2>1 DEF RecordsInv, RecordTypes, Writing
  <2>3. /\ RoomForAddresses' /\ RoomForDefaults' /\ RoomForRatings' /\ RoomForLetters'
        /\ RoomForInbox'
    BY <2>1, WritersStay, AddressRoomKept, DefaultRoomKept, OtherRoomKept
  <2>4. QED
    BY <2>1, <2>2, <2>3, WritersStay DEF RecordsInv, CouponIsValid, Valid
<1>2. ASSUME NEW p \in Writers, CheckRating(p) PROVE RecordsInv'
  <2>1. /\ Writing(p, "idle") /\ ratings = 0 /\ Proceed(p, "rate") /\ UNCHANGED ratingVars
    BY <1>2 DEF CheckRating, CanRate
  <2>2. PICK w \in WriterType : writer' = [writer EXCEPT ![p] = w] /\ w.at = "rate"
    BY <2>1, StepsOn DEF Stages
  <2>3. RecordTypes' /\ CouponsValidated'
    BY <2>1, <2>2, StepsAbout, CouponsKept DEF RecordsInv, RecordTypes, ratingVars
  <2>4. RoomForAddresses' /\ RoomForDefaults'
    BY <2>1, <2>2, OtherRequests DEF Writing
  <2>5. LetterSoon' \subseteq LetterSoon /\ InboxSoon' \subseteq InboxSoon
    BY <2>2, StageMoves DEF RecordsInv
  <2>6. RoomForRatings'
    <3>1. RatingSoon' \subseteq Writers
      BY DEF RatingSoon
    <3>2. QED
      BY <2>1, <3>1, WritersCounted DEF RoomForRatings, ratingVars
  <2>7. RoomForLetters' /\ RoomForInbox'
    BY <2>1, <2>5, LetterRoomKept, InboxRoomKept
  <2>8. QED
    BY <2>1, <2>3, <2>4, <2>6, <2>7 DEF RecordsInv, CouponIsValid, Valid
<1>3. ASSUME NEW p \in Writers, InsertRating(p) PROVE RecordsInv'
  <2>1. Writing(p, "rate") /\ ratings' = ratings + 1 /\ Written(p) /\ delivered' = delivered
    BY <1>3 DEF InsertRating
  <2>2. RecordTypes' /\ CouponsValidated'
    BY <2>1, WriterDone DEF RecordsInv, RecordTypes
  <2>3. RoomForAddresses' /\ RoomForDefaults'
    BY <2>1, WriterDone, NoWriterTyped, OtherRequests DEF Writing
  <2>4. RoomForLetters' /\ RoomForInbox'
    BY <2>1, WriterDone, LetterRoomKept, InboxRoomKept
  <2>5. RoomForRatings'
    <3>1. p \in RatingSoon /\ RatingSoon \subseteq Writers
      BY <2>1 DEF RatingSoon
    <3>2. Cardinality(RatingSoon') = Cardinality(RatingSoon) - 1 /\ Cardinality(RatingSoon) \in Nat
      BY <2>1, <3>1, WriterDone, OneLess, WritersCounted
    <3>3. QED
      BY <2>1, <3>2, WritersCounted DEF RoomForRatings, RecordsInv, RecordTypes
  <2>6. QED
    BY <2>2, <2>3, <2>4, <2>5 DEF RecordsInv, CouponIsValid, Valid
<1>4. QED
  BY <1>1, <1>2, <1>3

LEMMA LetterSteps ==
  ASSUME RecordsInv, LetterNext
  PROVE  RecordsInv'
<1> USE DEF LetterNext, addressVars, ratingVars, couponVars
<1>1. ASSUME NEW p \in Writers, CheckLetter(p) PROVE RecordsInv'
  <2>1. /\ Writing(p, "idle") /\ letters = 0 /\ Proceed(p, "letter") /\ UNCHANGED <<letterVars, lastRow>>
    BY <1>1 DEF CheckLetter
  <2>2. PICK w \in WriterType : writer' = [writer EXCEPT ![p] = w] /\ w.at = "letter"
    BY <2>1, StepsOn DEF Stages
  <2>3. RecordTypes' /\ CouponsValidated'
    BY <2>1, <2>2, StepsAbout, CouponsKept DEF RecordsInv, RecordTypes, letterVars
  <2>4. RoomForAddresses' /\ RoomForDefaults'
    BY <2>1, <2>2, OtherRequests DEF Writing
  <2>5. RatingSoon' \subseteq RatingSoon /\ InboxSoon' \subseteq InboxSoon
    BY <2>2, StageMoves DEF RecordsInv
  <2>6. RoomForLetters'
    <3>1. LetterSoon' \subseteq Writers
      BY DEF LetterSoon
    <3>2. QED
      BY <2>1, <3>1, WritersCounted DEF RoomForLetters, letterVars
  <2>7. RoomForRatings' /\ RoomForInbox'
    BY <2>1, <2>5, RatingRoomKept, InboxRoomKept DEF letterVars
  <2>8. QED
    BY <2>1, <2>3, <2>4, <2>6, <2>7 DEF RecordsInv, CouponIsValid, Valid
<1>2. ASSUME NEW p \in Writers, InsertLetter(p) PROVE RecordsInv'
  <2>1. /\ Writing(p, "letter") /\ letters' = letters + 1 /\ Written(p)
        /\ UNCHANGED <<inbox, unread, lastRow>>
    BY <1>2 DEF InsertLetter
  <2>2. RecordTypes' /\ CouponsValidated'
    BY <2>1, WriterDone DEF RecordsInv, RecordTypes
  <2>3. RoomForAddresses' /\ RoomForDefaults'
    BY <2>1, WriterDone, NoWriterTyped, OtherRequests DEF Writing
  <2>4. RoomForRatings' /\ RoomForInbox'
    BY <2>1, WriterDone, RatingRoomKept, InboxRoomKept
  <2>5. RoomForLetters'
    <3>1. p \in LetterSoon /\ LetterSoon \subseteq Writers
      BY <2>1 DEF LetterSoon
    <3>2. Cardinality(LetterSoon') = Cardinality(LetterSoon) - 1 /\ Cardinality(LetterSoon) \in Nat
      BY <2>1, <3>1, WriterDone, OneLess, WritersCounted
    <3>3. QED
      BY <2>1, <3>2, WritersCounted DEF RoomForLetters, RecordsInv, RecordTypes
  <2>6. QED
    BY <2>2, <2>3, <2>4, <2>5 DEF RecordsInv, CouponIsValid, Valid
<1>3. ASSUME NEW p \in Writers, FindSubscription(p) PROVE RecordsInv'
  <2>1. /\ Writing(p, "idle") /\ UNCHANGED <<letterVars, lastRow>>
    BY <1>3 DEF FindSubscription
  <2>2. PICK w \in WriterType : /\ writer' = [writer EXCEPT ![p] = w]
                                /\ (w.at = "subscribe" /\ inbox = {}) \/ w.at = "renew"
    <3>1. CASE inbox = {} /\ Proceed(p, "subscribe")
      BY <2>1, <3>1, StepsOn DEF Stages
    <3>2. ASSUME NEW s \in inbox,
                 writer' = [writer EXCEPT ![p] = [writer[p] EXCEPT !.at = "renew", !.row = s]]
          PROVE  \E w \in WriterType : writer' = [writer EXCEPT ![p] = w] /\ w.at = "renew"
      <4>1. s \in Nat
        BY DEF RecordsInv, RecordTypes
      <4>2. [writer[p] EXCEPT !.at = "renew", !.row = s] \in WriterType
        BY <4>1 DEF RecordsInv, RecordTypes, WriterType, Stages
      <4>3. [writer[p] EXCEPT !.at = "renew", !.row = s].at = "renew"
        BY DEF RecordsInv, RecordTypes, WriterType, Stages
      <4>4. QED
        BY <3>2, <4>2, <4>3
    <3>3. QED
      BY <1>3, <3>1, <3>2 DEF FindSubscription
  <2>3. RecordTypes' /\ CouponsValidated'
    BY <2>1, <2>2, StepsAbout, CouponsKept DEF RecordsInv, RecordTypes, letterVars
  <2>4. RoomForAddresses' /\ RoomForDefaults'
    BY <2>1, <2>2, OtherRequests DEF Writing
  <2>5. RatingSoon' \subseteq RatingSoon /\ LetterSoon' \subseteq LetterSoon
    BY <2>2, StageMoves DEF RecordsInv
  <2>6. RoomForInbox'
    <3>1. CASE w.at = "subscribe" /\ inbox = {}
      <4>1. InboxSoon' \subseteq Writers
        BY DEF InboxSoon
      <4>2. Cardinality(inbox') = 0
        BY <2>1, <3>1, FS_EmptySet DEF letterVars
      <4>3. QED
        BY <4>1, <4>2, WritersCounted DEF RoomForInbox
    <3>2. CASE w.at = "renew"
      <4>1. InboxSoon' \subseteq InboxSoon
        BY <2>2, <3>2, StageMoves DEF RecordsInv
      <4>2. QED
        BY <2>1, <4>1, InboxRoomKept DEF letterVars
    <3>3. QED
      BY <2>2, <3>1, <3>2
  <2>7. RoomForRatings' /\ RoomForLetters'
    BY <2>1, <2>5, RatingRoomKept, LetterRoomKept DEF letterVars
  <2>8. QED
    BY <2>1, <2>3, <2>4, <2>6, <2>7 DEF RecordsInv, CouponIsValid, Valid
<1>4. ASSUME NEW p \in Writers, Subscribe(p) PROVE RecordsInv'
  <2>1. /\ Writing(p, "subscribe") /\ lastRow' = lastRow + 1 /\ inbox' = inbox \cup {lastRow + 1}
        /\ Written(p) /\ letters' = letters /\ lastRow \in Nat
    BY <1>4 DEF Subscribe, NextRow, Insert, RecordsInv, RecordTypes
  <2>2. RecordTypes' /\ CouponsValidated'
    <3>1. \A n \in 1 .. lastRow : n \in 1 .. lastRow + 1
      BY <2>1
    <3>2. /\ lastRow' \in Nat /\ addresses' \subseteq 1 .. lastRow' /\ inbox' \subseteq 1 .. lastRow'
      BY <2>1, <3>1 DEF RecordsInv, RecordTypes
    <3>3. QED
      BY <2>1, <3>2, WriterDone DEF RecordsInv, RecordTypes
  <2>3. RoomForAddresses' /\ RoomForDefaults'
    BY <2>1, WriterDone, NoWriterTyped, OtherRequests DEF Writing
  <2>4. RoomForRatings' /\ RoomForLetters'
    BY <2>1, WriterDone, RatingRoomKept, LetterRoomKept
  <2>5. RoomForInbox'
    <3>1. p \in InboxSoon /\ InboxSoon \subseteq Writers
      BY <2>1 DEF InboxSoon
    <3>2. Cardinality(InboxSoon') = Cardinality(InboxSoon) - 1 /\ Cardinality(InboxSoon) \in Nat
      BY <2>1, <3>1, WriterDone, OneLess, WritersCounted
    <3>3. Cardinality(inbox') = Cardinality(inbox) + 1 /\ Cardinality(inbox) \in Nat
      BY <2>1, RowsCounted DEF RecordsInv, RecordTypes
    <3>4. QED
      BY <3>2, <3>3, WritersCounted DEF RoomForInbox, RecordsInv
  <2>6. QED
    BY <2>2, <2>3, <2>4, <2>5 DEF RecordsInv, CouponIsValid, Valid
<1>5. ASSUME NEW p \in Writers, Renew(p) PROVE RecordsInv'
  <2>1. Writing(p, "renew") /\ Written(p) /\ UNCHANGED <<letters, inbox, lastRow>>
    BY <1>5 DEF Renew
  <2>2. RecordTypes' /\ CouponsValidated'
    BY <2>1, WriterDone DEF RecordsInv, RecordTypes
  <2>3. RoomForAddresses' /\ RoomForDefaults'
    BY <2>1, WriterDone, NoWriterTyped, OtherRequests DEF Writing
  <2>4. RoomForRatings' /\ RoomForLetters' /\ RoomForInbox'
    BY <2>1, WriterDone, OtherRoomKept
  <2>5. QED
    BY <2>2, <2>3, <2>4 DEF RecordsInv, CouponIsValid, Valid
<1>6. CASE MarkRead \/ DeleteSubscription
  <2>1. writer' = writer /\ letters' = letters /\ inbox' \subseteq inbox /\ lastRow' = lastRow
    BY <1>6 DEF MarkRead, DeleteSubscription
  <2>2. RecordTypes'
    BY <2>1 DEF RecordsInv, RecordTypes, Writing
  <2>3. /\ RoomForAddresses' /\ RoomForDefaults' /\ RoomForRatings' /\ RoomForLetters'
        /\ RoomForInbox'
    BY <2>1, WritersStay, AddressRoomKept, DefaultRoomKept, OtherRoomKept
  <2>4. QED
    BY <2>1, <2>2, <2>3, WritersStay DEF RecordsInv, CouponIsValid, Valid
<1>7. QED
  BY <1>1, <1>2, <1>3, <1>4, <1>5, <1>6

LEMMA MergeTyped ==
  ASSUME NEW c \in CouponType, NEW e \in CouponType
  PROVE  Merge(c, e) \in CouponType
  BY DEF Merge, CouponType

LEMMA CouponSteps ==
  ASSUME RecordsInv, CouponNext
  PROVE  RecordsInv'
<1> USE DEF CouponNext, addressVars, ratingVars, letterVars
<1>1. ASSUME NEW p \in Writers, CreateCoupon(p) \/ EditCoupon(p) PROVE RecordsInv'
  <2>1. PICK e \in CouponType, at \in {"code", "validate"} :
          /\ writer' = [writer EXCEPT ![p] = [writer[p] EXCEPT !.at = at, !.new = e]]
          /\ at = "code" => Valid(e)
    <3>1. Edits \subseteq CouponType
      BY DEF Edits, CouponType
    <3>2. CASE CreateCoupon(p)
      BY <3>1, <3>2 DEF CreateCoupon
    <3>3. CASE EditCoupon(p)
      BY <3>1, <3>3 DEF EditCoupon
    <3>4. QED
      BY <1>1, <3>2, <3>3
  <2>2. Writing(p, "idle") /\ UNCHANGED couponVars
    BY <1>1 DEF CreateCoupon, EditCoupon
  <2> DEFINE w == [writer[p] EXCEPT !.at = at, !.new = e]
  <2>3. w \in WriterType /\ w.at = at /\ w.new = e
    BY DEF RecordsInv, RecordTypes, WriterType, Stages
  <2>4. writer' = [writer EXCEPT ![p] = w]
    BY <2>1
  <2> HIDE DEF w
  <2>5. RecordTypes' /\ CouponsValidated'
    BY <2>1, <2>2, <2>3, <2>4, StepsAbout, CouponsKept DEF RecordsInv, RecordTypes, couponVars
  <2>6. RoomForAddresses' /\ RoomForDefaults'
    BY <2>2, <2>3, <2>4, OtherRequests DEF Writing
  <2>7. /\ RatingSoon' \subseteq RatingSoon /\ LetterSoon' \subseteq LetterSoon
        /\ InboxSoon' \subseteq InboxSoon
    BY <2>3, <2>4, StageMoves DEF RecordsInv
  <2>8. RoomForRatings' /\ RoomForLetters' /\ RoomForInbox'
    BY <2>7, OtherRoomKept
  <2>9. QED
    BY <2>2, <2>5, <2>6, <2>8 DEF RecordsInv, CouponIsValid, Valid, couponVars
<1>2. ASSUME NEW p \in Writers, Written(p), NEW at, Writing(p, at),
             at \in {"code", "validate", "coupon"},
             coupon' \in CouponType, torn' \in BOOLEAN, CouponIsValid'
      PROVE  RecordsInv'
  <2>1. RecordTypes' /\ CouponsValidated'
    BY <1>2, WriterDone DEF RecordsInv, RecordTypes
  <2>2. RoomForAddresses' /\ RoomForDefaults'
    BY <1>2, WriterDone, NoWriterTyped, OtherRequests DEF Writing
  <2>3. RoomForRatings' /\ RoomForLetters' /\ RoomForInbox'
    BY <1>2, WriterDone, OtherRoomKept
  <2>4. QED
    BY <1>2, <2>1, <2>2, <2>3 DEF RecordsInv
<1>3. ASSUME NEW p \in Writers, InsertCoupon(p) PROVE RecordsInv'
  <2>1. /\ Writing(p, "code") /\ Written(p) /\ torn' = torn
        /\ coupon' = coupon \/ coupon' = writer[p].new
    BY <1>3 DEF InsertCoupon
  <2>2. writer[p].new \in CouponType /\ Valid(writer[p].new)
    BY <2>1 DEF RecordsInv, RecordTypes, WriterType, CouponsValidated
  <2>3. coupon' \in CouponType /\ torn' \in BOOLEAN /\ CouponIsValid'
    BY <2>1, <2>2 DEF RecordsInv, RecordTypes, CouponIsValid, Valid
  <2>4. QED
    BY <1>2, <2>1, <2>3
<1>4. ASSUME NEW p \in Writers, ValidateCoupon(p) PROVE RecordsInv'
  <2>1. CASE Written(p)
    <3>1. Writing(p, "validate") /\ UNCHANGED couponVars
      BY <1>4 DEF ValidateCoupon
    <3>2. coupon' \in CouponType /\ torn' \in BOOLEAN /\ CouponIsValid'
      BY <3>1 DEF RecordsInv, RecordTypes, CouponIsValid, Valid, couponVars
    <3>3. QED
      BY <1>2, <2>1, <3>1, <3>2
  <2>2. CASE ~Written(p)
    <3>1. /\ Writing(p, "validate") /\ UNCHANGED couponVars /\ Valid(Merge(coupon, writer[p].new))
          /\ writer' = [writer EXCEPT ![p] = [writer[p] EXCEPT !.at = "coupon", !.seen = coupon]]
      BY <1>4, <2>2 DEF ValidateCoupon
    <3> DEFINE w == [writer[p] EXCEPT !.at = "coupon", !.seen = coupon]
    <3>2. w \in WriterType /\ w.at = "coupon" /\ w.seen = coupon /\ w.new = writer[p].new
      BY DEF RecordsInv, RecordTypes, WriterType, Stages
    <3>3. writer' = [writer EXCEPT ![p] = w]
      BY <3>1
    <3> HIDE DEF w
    <3>4. RecordTypes' /\ CouponsValidated'
      BY <3>1, <3>2, <3>3, StepsAbout, CouponsKept DEF RecordsInv, RecordTypes, couponVars
    <3>5. RoomForAddresses' /\ RoomForDefaults'
      BY <3>1, <3>2, <3>3, OtherRequests DEF Writing
    <3>6. /\ RatingSoon' \subseteq RatingSoon /\ LetterSoon' \subseteq LetterSoon
          /\ InboxSoon' \subseteq InboxSoon
      BY <3>2, <3>3, StageMoves DEF RecordsInv
    <3>7. RoomForRatings' /\ RoomForLetters' /\ RoomForInbox'
      BY <3>6, OtherRoomKept
    <3>8. QED
      BY <3>1, <3>4, <3>5, <3>7 DEF RecordsInv, CouponIsValid, Valid, couponVars
  <2>3. QED
    BY <2>1, <2>2
<1>5. ASSUME NEW p \in Writers, WriteCoupon(p) PROVE RecordsInv'
  <2>1. /\ Writing(p, "coupon") /\ Written(p)
        /\ coupon' = IF coupon = NoCoupon THEN coupon ELSE Merge(coupon, writer[p].new)
        /\ torn' = (torn \/ coupon # writer[p].seen)
    BY <1>5 DEF WriteCoupon
  <2>2. writer[p].new \in CouponType /\ Valid(Merge(writer[p].seen, writer[p].new))
    BY <2>1 DEF RecordsInv, RecordTypes, WriterType, CouponsValidated
  <2>3. coupon' \in CouponType /\ torn' \in BOOLEAN
    BY <2>1, <2>2, MergeTyped DEF RecordsInv, RecordTypes
  <2>4. CouponIsValid'
    <3>1. CASE coupon = NoCoupon
      BY <2>1, <3>1 DEF CouponIsValid
    <3>2. CASE coupon # NoCoupon /\ coupon = writer[p].seen
      <4>1. coupon' = Merge(writer[p].seen, writer[p].new)
        BY <2>1, <3>2
      <4>2. Valid(coupon')
        BY <2>2, <4>1
      <4>3. QED
        BY <4>2 DEF CouponIsValid, Valid
    <3>3. CASE coupon # writer[p].seen
      BY <2>1, <3>3 DEF CouponIsValid
    <3>4. QED
      BY <3>1, <3>2, <3>3
  <2>5. QED
    BY <1>2, <2>1, <2>3, <2>4
<1>6. CASE DeleteCoupon
  <2>1. writer' = writer /\ coupon' = NoCoupon /\ torn' = torn
    BY <1>6 DEF DeleteCoupon
  <2>2. RecordTypes'
    BY <2>1 DEF RecordsInv, RecordTypes, Writing, CouponType, NoCoupon
  <2>3. /\ RoomForAddresses' /\ RoomForDefaults' /\ RoomForRatings' /\ RoomForLetters'
        /\ RoomForInbox'
    BY <2>1, WritersStay, AddressRoomKept, DefaultRoomKept, OtherRoomKept
  <2>4. QED
    BY <2>1, <2>2, <2>3, WritersStay DEF RecordsInv, CouponIsValid
<1>7. QED
  BY <1>1, <1>3, <1>4, <1>5, <1>6

(* The count of every check, with the requests between check and write,     *)
(* stays within the number of requests, whatever they do and however many   *)
(* there are.                                                               *)
THEOREM RecordsInvHolds == RecordsSpec => []RecordsInv
<1>1. RecordsInit => RecordsInv
  BY RecordsInitInv
<1>2. RecordsInv /\ [RecordsNext]_recordVars => RecordsInv'
  <2>1. CASE RecordsInv /\ RecordsNext
    BY <2>1, AddressSteps, RatingSteps, LetterSteps, CouponSteps DEF RecordsNext
  <2>2. CASE RecordsInv /\ UNCHANGED recordVars
    <3>1. /\ RoomForAddresses' /\ RoomForDefaults' /\ RoomForRatings' /\ RoomForLetters'
          /\ RoomForInbox'
      BY <2>2, WritersStay, AddressRoomKept, DefaultRoomKept, OtherRoomKept DEF recordVars
    <3>2. RecordTypes' /\ CouponsValidated' /\ CouponIsValid'
      BY <2>2, WritersStay
         DEF recordVars, RecordsInv, RecordTypes, CouponIsValid, Valid, Writing
    <3>3. QED
      BY <3>1, <3>2 DEF RecordsInv
  <2>3. QED
    BY <2>1, <2>2
<1>3. QED
  BY <1>1, <1>2, PTL DEF RecordsSpec

(* A check before a write errs by at most the requests at work at the same  *)
(* time: addresses, defaults, ratings and subscriptions stay bounded, and a *)
(* coupon that could not have been created was written over an edit that    *)
(* its writer had not seen.                                                 *)
THEOREM DamageIsBoundedHolds == RecordsSpec => []DamageIsBounded
<1>1. RecordsInv => DamageIsBounded
  <2> SUFFICES ASSUME RecordsInv PROVE DamageIsBounded
    OBVIOUS
  <2>1. /\ Inserting \subseteq Writers /\ Choosing \subseteq Writers /\ RatingSoon \subseteq Writers
        /\ LetterSoon \subseteq Writers /\ InboxSoon \subseteq Writers
    BY DEF Inserting, Choosing, RatingSoon, LetterSoon, InboxSoon
  <2>2. \A S \in SUBSET Writers : Cardinality(S) \in Nat
    BY WritersCounted
  <2>3. \A S \in SUBSET (1 .. lastRow) : IsFiniteSet(S) /\ Cardinality(S) \in Nat
    BY RowsCounted DEF RecordsInv
  <2>4. Cardinality(Writers) \in Nat
    BY <2>2
  <2>5. AddressesBounded
    BY <2>1, <2>2, <2>3, <2>4, RecordsAssumption
       DEF RecordsInv, RecordTypes, RoomForAddresses, AddressesBounded
  <2>6. AtMostOneEach(ratings) /\ AtMostOneEach(letters) /\ AtMostOneEach(Cardinality(inbox))
    BY <2>1, <2>2, <2>3, <2>4
       DEF RecordsInv, RecordTypes, RoomForRatings, RoomForLetters, RoomForInbox, AtMostOneEach
  <2>7. AtMostOneEach(Cardinality(defaults))
    <3>1. /\ IsFiniteSet(Choosing) /\ Cardinality(Choosing) \in Nat
          /\ IsFiniteSet(defaults \ Chosen) /\ Cardinality(defaults \ Chosen) \in Nat
      BY <2>1, <2>2, <2>3, WritersCounted DEF RecordsInv, RecordTypes
    <3>2. IsFiniteSet(Chosen) /\ Cardinality(Chosen) <= Cardinality(Choosing)
      <4> DEFINE f == [q \in Choosing |-> writer[q].row]
      <4>1. f \in Surjection(Choosing, Chosen)
        BY DEF Surjection, Chosen
      <4>2. QED
        BY <3>1, <4>1, FS_Surjection
    <3>3. /\ IsFiniteSet(defaults \cap Chosen) /\ Cardinality(defaults \cap Chosen) \in Nat
          /\ Cardinality(Chosen) \in Nat
          /\ Cardinality(defaults \cap Chosen) <= Cardinality(Chosen)
      BY <3>2, SmallerCounted
    <3>4. Cardinality(defaults) = Cardinality(defaults \ Chosen) + Cardinality(defaults \cap Chosen)
      <4>1. defaults \subseteq 1 .. lastRow
        BY DEF RecordsInv, RecordTypes
      <4>2. IsFiniteSet(defaults) /\ Cardinality(defaults) \in Nat
        BY <2>3, <4>1
      <4>3. Cardinality(defaults \ Chosen) = Cardinality(defaults) - Cardinality(defaults \cap Chosen)
        BY <4>2, FS_Difference
      <4>4. QED
        BY <3>1, <3>3, <4>2, <4>3
    <3>5. QED
      BY <2>4, <3>1, <3>2, <3>3, <3>4 DEF RecordsInv, RoomForDefaults, AtMostOneEach
  <2>8. QED
    BY <2>5, <2>6, <2>7 DEF DamageIsBounded, RecordsInv
<1>2. QED
  BY <1>1, RecordsInvHolds, PTL

-----------------------------------------------------------------------------
(* Desk: the ledger knows what the order says.                              *)

DeskStages == {"rest", "stock", "insert", "log", "announce", "write", "append"}
Words == {"none", "unread", "accepted", "rejected", "delivered", "refunded", "completed",
          "pending", "packed", "noted"}
Job == [at : DeskStages, field : Fields, from : Words, to : Words]
LedgerEntry == [field : Fields \cup {"created"}, from : Words, to : Words]

DeskTypes ==
  /\ desk \in [Fields -> Words] /\ taken \in Nat /\ ledger \in Seq(LedgerEntry)
  /\ task \in [Actors -> Job] /\ edits \in Nat /\ lost \in BOOLEAN /\ crossed \in BOOLEAN
  /\ courier \subseteq Words

Announcing(a) == Engaged(a, "log") \/ Engaged(a, "announce")
Owed(field) == {task[a].to : a \in {b \in Actors : Engaged(b, "append") /\ task[b].field = field}}

(* The creation: one administrator, one step after the other.               *)
InStep(a) ==
  /\ Engaged(a, "stock") \/ Engaged(a, "insert") => ~Exists
  /\ Engaged(a, "append") \/ Engaged(a, "write") \/ Announcing(a) => Exists
  /\ Engaged(a, "write") /\ task[a].field = "payment" => task[a].to # "none"
  /\ Engaged(a, "stock") => task[a].to = "completed" /\ taken = 0
  /\ Engaged(a, "insert") \/ Announcing(a) =>
       /\ task[a].to \in {"completed", "pending"}
       /\ taken = IF task[a].to = "completed" THEN 1 ELSE 0
  /\ Announcing(a) => EntriesOf("created") = {}
CreationInOrder ==
  /\ edits = 0 => ~Exists /\ taken = 0 /\ \A a \in Actors : Resting(a)
  /\ \A a \in Actors : InStep(a)
  /\ \A a, b \in Actors : /\ ~Exists /\ ~Resting(a) /\ ~Resting(b) => a = b
                          /\ Announcing(a) /\ Announcing(b) => a = b
  /\ ~Exists => ledger = <<>> /\ desk = Blank /\ courier = {}
  /\ ~Exists /\ (\A a \in Actors : Resting(a)) => taken \in {0, 1}

WritesAreKnown ==
  ~lost /\ Exists =>
    /\ desk.status \in {Blank.status} \cup Told("status") \cup Owed("status") \cup courier
    /\ \A f \in Fields \ {"status", "payment"} : desk[f] \in {Blank[f]} \cup Told(f) \cup Owed(f)
    /\ desk.payment \in Told("created") \cup Told("payment") \cup Owed("payment")
                         \cup {task[a].to : a \in {b \in Actors : Announcing(b)}}
    /\ (\A a \in Actors : ~Announcing(a)) => (taken = 1) = ("completed" \in Told("created"))

(* As long as nobody crossed anybody and the courier wrote nothing.         *)
OneAtATime == ~crossed => \A a, b \in Actors : a = b \/ Resting(a) \/ Resting(b)
HistoryOf(f) ==
  /\ \A i \in EntriesOf(f) : ledger[i].from = Said(f, i - 1)
  /\ (\A a \in Actors : ~(Engaged(a, "append") /\ task[a].field = f)) =>
       desk[f] = Said(f, Len(ledger))
  /\ \A a \in Actors : task[a].field = f =>
       /\ Engaged(a, "write") /\ a # Courier => task[a].from = Said(f, Len(ledger))
       /\ Engaged(a, "append") => /\ task[a].from = Said(f, Len(ledger))
                                  /\ desk[f] = task[a].to
HistoryGoesOn ==
  ~lost /\ ~crossed /\ courier = {} => \A f \in {"status", "custom_status"} : HistoryOf(f)

DeskInv == DeskTypes /\ CreationInOrder /\ WritesAreKnown /\ OneAtATime /\ HistoryGoesOn

LEMMA LastEntry ==
  ASSUME NEW n \in Nat, NEW S \in SUBSET (1 .. n), S # {}
  PROVE  Max(S) \in S /\ \A x \in S : x <= Max(S)
<1> DEFINE T == {n - x : x \in S}
<1>1. T \in SUBSET Nat /\ T # {}
  <2>1. \A x \in S : n - x \in Nat
    OBVIOUS
  <2>2. QED
    BY <2>1
<1>2. PICK m \in T : \A t \in T : m <= t
  BY <1>1, SmallestMember
<1>3. PICK y \in S : m = n - y
  BY <1>2
<1>4. \A x \in S : n - y <= n - x
  BY <1>2, <1>3
<1>5. \A x \in S : y >= x
  BY <1>4
<1>6. QED
  BY <1>3, <1>5 DEF Max

LEMMA EntriesInLedger ==
  ASSUME DeskTypes, NEW field
  PROVE  EntriesOf(field) \subseteq 1 .. Len(ledger) /\ Len(ledger) \in Nat
  BY LenProperties DEF EntriesOf, DeskTypes

(* An entry more: what the others said stays, and the last word is its own. *)
LEMMA LedgerAppended ==
  ASSUME DeskTypes, NEW e \in LedgerEntry, ledger' = Append(ledger, e)
  PROVE  /\ ledger \in Seq(LedgerEntry) /\ ledger' \in Seq(LedgerEntry)
         /\ Len(ledger') = Len(ledger) + 1 /\ Len(ledger) \in Nat
         /\ DOMAIN ledger = 1 .. Len(ledger)
         /\ DOMAIN ledger' = (1 .. Len(ledger)) \cup {Len(ledger) + 1}
         /\ ledger'[Len(ledger) + 1] = e
         /\ \A i \in 1 .. Len(ledger) : ledger'[i] = ledger[i]
<1>1. /\ ledger \in Seq(LedgerEntry) /\ ledger' \in Seq(LedgerEntry)
      /\ Len(ledger') = Len(ledger) + 1 /\ Len(ledger) \in Nat
      /\ DOMAIN ledger = 1 .. Len(ledger) /\ DOMAIN ledger' = 1 .. Len(ledger) + 1
      /\ ledger'[Len(ledger')] = e
      /\ \A i \in 1 .. Len(ledger) : ledger'[i] = ledger[i]
  BY AppendProperties, LenProperties DEF DeskTypes
<1>2. 1 .. Len(ledger) + 1 = (1 .. Len(ledger)) \cup {Len(ledger) + 1}
  BY <1>1
<1>3. QED
  BY <1>1, <1>2

LEMMA OthersSay ==
  ASSUME DeskTypes, NEW e \in LedgerEntry, ledger' = Append(ledger, e), NEW field
  PROVE  /\ \A i \in EntriesOf(field) : i \in EntriesOf(field)' /\ ledger'[i] = ledger[i]
         /\ \A i \in EntriesOf(field)' : i \in EntriesOf(field) \/ i = Len(ledger) + 1
         /\ \A n \in 0 .. Len(ledger) : Said(field, n)' = Said(field, n)
<1>1. \A i \in EntriesOf(field) : i \in EntriesOf(field)' /\ ledger'[i] = ledger[i]
  BY LedgerAppended DEF EntriesOf
<1>2. \A i \in EntriesOf(field)' : i \in EntriesOf(field) \/ i = Len(ledger) + 1
  BY LedgerAppended DEF EntriesOf
<1>3. ASSUME NEW n \in 0 .. Len(ledger) PROVE Said(field, n)' = Said(field, n)
  <2> DEFINE S == EntriesOf(field) \cap 1 .. n
  <2>1. Len(ledger) \in Nat /\ n \in Nat /\ Len(ledger) + 1 \notin 1 .. n
    BY LedgerAppended
  <2>2. EntriesOf(field)' \cap 1 .. n = S
    BY <1>1, <1>2, <2>1
  <2>3. CASE S = {}
    BY <2>2, <2>3 DEF Said
  <2>4. CASE S # {}
    <3>1. Max(S) \in S
      BY <2>1, <2>4, LastEntry
    <3>2. ledger'[Max(S)] = ledger[Max(S)]
      BY <1>1, <3>1
    <3> HIDE DEF S
    <3>3. Said(field, n)' = ledger'[Max(S)].to
      BY <2>2, <2>4 DEF Said
    <3>4. Said(field, n) = ledger[Max(S)].to
      BY <2>4 DEF Said, S
    <3>5. QED
      BY <3>2, <3>3, <3>4
  <2>5. QED
    BY <2>3, <2>4
<1>4. QED
  BY <1>1, <1>2, <1>3

LEMMA OwnWord ==
  ASSUME DeskTypes, NEW e \in LedgerEntry, ledger' = Append(ledger, e)
  PROVE  /\ EntriesOf(e.field)' = EntriesOf(e.field) \cup {Len(ledger) + 1}
         /\ Told(e.field)' = Told(e.field) \cup {e.to}
         /\ Said(e.field, Len(ledger))' = e.to
<1>1. Len(ledger) + 1 \in EntriesOf(e.field)' /\ Len(ledger) \in Nat
  BY LedgerAppended DEF EntriesOf
<1>2. EntriesOf(e.field)' = EntriesOf(e.field) \cup {Len(ledger) + 1}
  BY <1>1, OthersSay
<1>3. Told(e.field)' = Told(e.field) \cup {e.to}
  <2>1. \A i \in EntriesOf(e.field) : ledger'[i] = ledger[i]
    BY OthersSay
  <2>2. ledger'[Len(ledger) + 1] = e
    BY LedgerAppended
  <2>3. QED
    BY <1>2, <2>1, <2>2 DEF Told
<1>4. Said(e.field, Len(ledger))' = e.to
  <2> DEFINE S == EntriesOf(e.field)' \cap 1 .. Len(ledger')
  <2>1. Len(ledger') = Len(ledger) + 1 /\ ledger'[Len(ledger) + 1] = e
    BY LedgerAppended
  <2>2. Len(ledger) + 1 \in S /\ S \in SUBSET (1 .. Len(ledger) + 1) /\ Len(ledger) + 1 \in Nat
    BY <1>1, <2>1
  <2>3. Max(S) \in S /\ Len(ledger) + 1 <= Max(S)
    BY <2>2, LastEntry
  <2>4. Max(S) = Len(ledger) + 1
    BY <1>1, <2>2, <2>3
  <2>5. Said(e.field, Len(ledger))' = ledger'[Max(S)].to
    BY <2>2 DEF Said
  <2>6. QED
    BY <2>1, <2>4, <2>5
<1>5. QED
  BY <1>2, <1>3, <1>4

LEMMA OtherFields ==
  ASSUME DeskTypes, NEW e \in LedgerEntry, ledger' = Append(ledger, e), NEW field, field # e.field
  PROVE  /\ EntriesOf(field)' = EntriesOf(field) /\ Told(field)' = Told(field)
         /\ Said(field, Len(ledger))' = Said(field, Len(ledger))
<1>1. ledger'[Len(ledger) + 1] = e /\ Len(ledger') = Len(ledger) + 1 /\ Len(ledger) \in Nat
  BY LedgerAppended
<1>2. Len(ledger) + 1 \notin EntriesOf(field)'
  BY <1>1 DEF EntriesOf
<1>3. EntriesOf(field)' = EntriesOf(field)
  BY <1>2, OthersSay
<1>4. Told(field)' = Told(field)
  <2>1. \A i \in EntriesOf(field) : ledger'[i] = ledger[i]
    BY OthersSay
  <2>2. QED
    BY <1>3, <2>1 DEF Told
<1>5. Said(field, Len(ledger))' = Said(field, Len(ledger))
  <2> DEFINE S == EntriesOf(field) \cap 1 .. Len(ledger)
  <2>2. EntriesOf(field)' \cap 1 .. Len(ledger') = S
    BY <1>1, <1>3, EntriesInLedger
  <2>3. CASE S = {}
    BY <2>2, <2>3 DEF Said
  <2>4. CASE S # {}
    <3>1. Max(S) \in S
      BY <1>1, <2>4, LastEntry
    <3>2. ledger'[Max(S)] = ledger[Max(S)]
      BY <3>1, OthersSay
    <3> HIDE DEF S
    <3>3. Said(field, Len(ledger))' = ledger'[Max(S)].to
      BY <2>2, <2>4 DEF Said
    <3>4. Said(field, Len(ledger)) = ledger[Max(S)].to
      BY <2>4 DEF Said, S
    <3>5. QED
      BY <3>2, <3>3, <3>4
  <2>5. QED
    BY <2>3, <2>4
<1>6. QED
  BY <1>3, <1>4, <1>5

LEMMA LedgerStays ==
  ASSUME ledger' = ledger, NEW field
  PROVE  /\ EntriesOf(field)' = EntriesOf(field) /\ Told(field)' = Told(field)
         /\ \A n : Said(field, n)' = Said(field, n)
         /\ Said(field, Len(ledger))' = Said(field, Len(ledger))
  BY DEF EntriesOf, Told, Said

LEMMA RestIsAJob ==
  /\ Rest \in Job /\ Rest.at = "rest" /\ Rest.field = "status"
  /\ Blank \in [Fields -> Words] /\ Blank.payment = "none"
<1>1. "none" \in Words
  BY DEF Words
<1>2. "rest" \in DeskStages /\ "status" \in Fields
  BY DEF DeskStages, Fields
<1>3. Rest \in Job /\ Rest.at = "rest" /\ Rest.field = "status"
  BY <1>1, <1>2 DEF Rest, Job
<1>4. DOMAIN Blank = Fields /\ Blank.payment = "none"
  BY DEF Blank, Fields
<1>5. \A f \in Fields : Blank[f] \in Words
  BY DEF Blank, Fields, Words
<1>6. Blank \in [Fields -> Words]
  BY <1>4, <1>5 DEF Blank
<1>7. QED
  BY <1>3, <1>4, <1>6

LEMMA DeskInitially ==
  ASSUME DeskInit
  PROVE  DeskInv
<1>1. /\ desk = Blank /\ taken = 0 /\ ledger = <<>> /\ task = [a \in Actors |-> Rest] /\ edits = 0
      /\ lost = FALSE /\ crossed = FALSE /\ courier = {}
  BY DEF DeskInit
<1>2. Rest \in Job /\ Blank \in [Fields -> Words]
  BY RestIsAJob
<1>3. DeskTypes
  <2>1. <<>> \in Seq(LedgerEntry)
    BY EmptySeq
  <2>2. task \in [Actors -> Job]
    BY <1>1, <1>2
  <2>3. QED
    BY <1>1, <1>2, <2>1, <2>2 DEF DeskTypes
<1>4. \A a \in Actors : task[a].at = "rest" /\ Resting(a)
  BY <1>1 DEF Rest, Resting, Engaged
<1>5. ~Exists
  BY <1>1 DEF Exists, Blank
<1>6. CreationInOrder
  BY <1>1, <1>4, <1>5 DEF CreationInOrder, InStep, Announcing, Engaged
<1>7. WritesAreKnown
  BY <1>5 DEF WritesAreKnown
<1>8. OneAtATime
  BY <1>4 DEF OneAtATime
<1>9. HistoryGoesOn
  <2>1. ASSUME NEW f PROVE EntriesOf(f) = {} /\ \A n : Said(f, n) = Blank[f]
    BY <1>1 DEF EntriesOf, Said
  <2>2. QED
    BY <1>1, <1>4, <2>1 DEF HistoryGoesOn, HistoryOf, Engaged
<1>10. QED
  BY <1>3, <1>6, <1>7, <1>8, <1>9 DEF DeskInv

(* What the steps of the desk do to the task of the one who takes them.     *)
LEMMA TaskOn ==
  ASSUME DeskTypes, NEW a \in Actors, NEW at \in DeskStages, On(a, at)
  PROVE  /\ task' \in [Actors -> Job] /\ task'[a] = [task[a] EXCEPT !.at = at]
         /\ task'[a].at = at /\ task'[a].field = task[a].field
         /\ task'[a].from = task[a].from /\ task'[a].to = task[a].to
         /\ \A b \in Actors : b # a => task'[b] = task[b]
<1>1. task \in [Actors -> Job] /\ task[a] \in Job
  BY DEF DeskTypes
<1>2. [task[a] EXCEPT !.at = at] \in Job
  BY <1>1 DEF Job
<1>3. task' = [task EXCEPT ![a] = [task[a] EXCEPT !.at = at]]
  BY <1>1 DEF On
<1>4. QED
  BY <1>1, <1>2, <1>3 DEF Job

LEMMA TaskOff ==
  ASSUME DeskTypes, NEW a \in Actors, Off(a)
  PROVE  /\ task' \in [Actors -> Job] /\ task'[a] = Rest /\ task'[a].at = "rest"
         /\ \A b \in Actors : b # a => task'[b] = task[b]
<1>1. task \in [Actors -> Job] /\ Rest \in Job /\ Rest.at = "rest"
  BY RestIsAJob DEF DeskTypes
<1>2. QED
  BY <1>1 DEF Off

LEMMA TaskBegun ==
  ASSUME DeskTypes, NEW a \in Actors, NEW job \in Job, Begin(a, job)
  PROVE  /\ task' \in [Actors -> Job] /\ task'[a] = job /\ crossed' \in BOOLEAN
         /\ \A b \in Actors : b # a => task'[b] = task[b]
         /\ Resting(a) /\ task[a].at = "rest"
         /\ ~crossed' => ~crossed /\ \A b \in Actors : Resting(b)
<1>1. task \in [Actors -> Job] /\ crossed \in BOOLEAN
  BY DEF DeskTypes
<1>2. /\ task' = [task EXCEPT ![a] = job]
      /\ crossed' = (crossed \/ \E b \in Actors : ~Resting(b)) /\ Resting(a)
  BY DEF Begin
<1>3. task' \in [Actors -> Job] /\ task'[a] = job /\ \A b \in Actors : b # a => task'[b] = task[b]
  BY <1>1, <1>2
<1>4. crossed' \in BOOLEAN /\ (~crossed' => ~crossed /\ \A b \in Actors : Resting(b))
  BY <1>1, <1>2
<1>5. Resting(a) /\ task[a].at = "rest"
  BY <1>2 DEF Resting, Engaged
<1>6. QED
  BY <1>3, <1>4, <1>5

LEMMA TakeOrderKeeps ==
  ASSUME DeskInv, NEW a \in Admins, TakeOrder(a)
  PROVE  DeskInv'
<1> USE DEF DeskInv
<1>1. PICK paid \in {"completed", "pending"} :
        Begin(a, [Rest EXCEPT !.at = IF paid = "completed" THEN "stock" ELSE "insert", !.to = paid])
  BY DEF TakeOrder
<1> DEFINE at == IF paid = "completed" THEN "stock" ELSE "insert"
           job == [Rest EXCEPT !.at = at, !.to = paid]
<1>2. /\ a \in Actors /\ ~Exists /\ edits' = 1 /\ desk' = desk /\ taken' = taken /\ ledger' = ledger
      /\ lost' = lost /\ courier' = courier /\ \A b \in Actors : Resting(b)
  BY DEF TakeOrder, Actors
<1>3. job \in Job /\ job.at = at /\ job.to = paid
  BY RestIsAJob DEF Job, DeskStages, Words
<1>4. at \in {"stock", "insert"} /\ (at = "stock" => paid = "completed") /\ (at = "insert" => paid = "pending")
  OBVIOUS
<1> HIDE DEF job, at
<1>5. /\ task' \in [Actors -> Job] /\ task'[a] = job /\ crossed' \in BOOLEAN
      /\ \A b \in Actors : b # a => task'[b] = task[b]
      /\ ~crossed' => ~crossed
  BY <1>1, <1>2, <1>3, TaskBegun DEF job, at
<1>6. /\ task'[a].at = at /\ task'[a].to = paid
      /\ \A b \in Actors : b # a => task'[b].at = "rest"
  BY <1>2, <1>3, <1>5 DEF Resting, Engaged
<1>7. ~Exists'
  BY <1>2 DEF Exists
<1>8. DeskTypes'
  BY <1>2, <1>5 DEF DeskTypes
<1>9. CreationInOrder'
  <2>1. taken = 0
    BY DEF CreationInOrder, InStep, TakeOrder
  <2>2. QED
    BY <2>1, <1>2, <1>4, <1>6, <1>7 DEF CreationInOrder, InStep, Announcing, Engaged, Resting
<1>10. WritesAreKnown'
  BY <1>7 DEF WritesAreKnown
<1>11. OneAtATime'
  BY <1>6 DEF OneAtATime, Resting, Engaged
<1>12. HistoryGoesOn'
  BY <1>2, <1>4, <1>5, <1>6, LedgerStays DEF HistoryGoesOn, HistoryOf, Engaged, Resting
<1>13. QED
  BY <1>8, <1>9, <1>10, <1>11, <1>12

LEMMA TakeStockKeeps ==
  ASSUME DeskInv, NEW a \in Admins, TakeStock(a)
  PROVE  DeskInv'
<1> USE DEF DeskInv
<1>1. /\ a \in Actors /\ task[a].at = "stock" /\ edits' = edits /\ desk' = desk /\ ledger' = ledger
      /\ lost' = lost /\ courier' = courier /\ crossed' = crossed
  BY DEF TakeStock, Actors, Engaged
<1>2. ~Exists /\ ~Exists' /\ taken = 0 /\ task[a].to = "completed" /\ edits # 0
  BY <1>1 DEF CreationInOrder, InStep, Engaged, Exists, Resting
<1>3. task' \in [Actors -> Job] /\ \A b \in Actors : b # a => task'[b] = task[b]
  BY <1>1, TaskOn, TaskOff DEF TakeStock, DeskStages
<1>4. \/ task'[a].at = "insert" /\ task'[a].to = "completed" /\ taken' = 1
      \/ task'[a].at = "rest" /\ taken' = 0
  <2>1. On(a, "insert") => task'[a].at = "insert" /\ task'[a].to = "completed"
    BY <1>1, <1>2, TaskOn DEF DeskStages
  <2>2. Off(a) => task'[a].at = "rest"
    BY <1>1, TaskOff
  <2>3. \/ On(a, "insert") /\ taken' = taken + 1
        \/ Off(a) /\ taken' = taken
    BY DEF TakeStock
  <2>4. QED
    BY <1>2, <2>1, <2>2, <2>3
<1>5. \A b \in Actors : b # a => task'[b].at = "rest"
  BY <1>1, <1>2, <1>3 DEF CreationInOrder, InStep, Resting, Engaged
<1>6. DeskTypes'
  BY <1>1, <1>3, <1>4 DEF DeskTypes
<1>7. CreationInOrder'
  BY <1>1, <1>2, <1>3, <1>4, <1>5 DEF CreationInOrder, InStep, Announcing, Engaged, Resting
<1>8. WritesAreKnown'
  BY <1>2 DEF WritesAreKnown
<1>9. OneAtATime'
  BY <1>5 DEF OneAtATime, Resting, Engaged
<1>10. HistoryGoesOn'
  BY <1>1, <1>3, <1>4, <1>5, LedgerStays DEF HistoryGoesOn, HistoryOf, Engaged, Resting
<1>11. QED
  BY <1>6, <1>7, <1>8, <1>9, <1>10

(* The order appears as it was asked for; nobody has entered anything yet.  *)
LEMMA InsertOrderKeeps ==
  ASSUME DeskInv, NEW a \in Admins, InsertOrder(a)
  PROVE  DeskInv'
<1> USE DEF DeskInv
<1> DEFINE inserted == [desk EXCEPT !.payment = task[a].to]
<1>1. /\ a \in Actors /\ task[a].at = "insert" /\ edits' = edits /\ ledger' = ledger
      /\ courier' = courier /\ crossed' = crossed
  BY DEF InsertOrder, Actors, Engaged
<1>2. /\ ~Exists /\ edits # 0 /\ ledger = <<>> /\ desk = Blank /\ courier = {}
      /\ task[a].to \in {"completed", "pending"} /\ taken \in {0, 1}
      /\ (taken = 1) = (task[a].to = "completed")
  BY <1>1 DEF CreationInOrder, InStep, Engaged, Resting
<1>3. task' \in [Actors -> Job] /\ \A b \in Actors : b # a => task'[b] = task[b]
  BY <1>1, TaskOn, TaskOff DEF InsertOrder, DeskStages
<1>4. \A b \in Actors : b # a => task'[b].at = "rest"
  BY <1>1, <1>2, <1>3 DEF CreationInOrder, InStep, Resting, Engaged
<1>5. /\ inserted \in [Fields -> Words] /\ inserted.payment = task[a].to /\ task[a].to # "none"
      /\ \A f \in Fields \ {"payment"} : inserted[f] = Blank[f]
  <2>1. task[a].to \in Words /\ task[a].to # "none"
    BY <1>2 DEF Words
  <2>2. desk \in [Fields -> Words] /\ "payment" \in Fields
    BY DEF DeskTypes, Fields
  <2>3. QED
    BY <1>2, <2>1, <2>2
<1>6. \A f : EntriesOf(f)' = {} /\ Told(f)' = {} /\ \A n : Said(f, n)' = Blank[f]
  BY <1>1, <1>2 DEF EntriesOf, Told, Said
<1> HIDE DEF inserted
<1>7. CASE desk' = inserted /\ On(a, "log") /\ taken' = taken /\ lost' = lost
  <2>1. task'[a].at = "log" /\ task'[a].to = task[a].to
    BY <1>1, <1>7, TaskOn DEF DeskStages
  <2>2. Exists' /\ desk'.payment = task'[a].to
    BY <1>5, <1>7, <2>1 DEF Exists
  <2>3. DeskTypes'
    BY <1>1, <1>3, <1>5, <1>7 DEF DeskTypes
  <2>4. CreationInOrder'
    BY <1>1, <1>2, <1>4, <1>6, <1>7, <2>1, <2>2 DEF CreationInOrder, InStep, Announcing, Engaged, Resting
  <2>5. WritesAreKnown'
    <3>1. Announcing(a)'
      BY <2>1 DEF Announcing, Engaged
    <3>2. desk'.payment \in {task[b].to : b \in {c \in Actors : Announcing(c)}}'
      BY <1>1, <2>2, <3>1
    <3>3. \A f \in Fields \ {"payment"} : desk'[f] = Blank[f]
      BY <1>5, <1>7
    <3>4. "status" \in Fields
      BY DEF Fields
    <3>5. QED
      BY <1>1, <3>1, <3>2, <3>3, <3>4 DEF WritesAreKnown
  <2>6. OneAtATime'
    BY <1>4 DEF OneAtATime, Resting, Engaged
  <2>7. HistoryGoesOn'
    <3>1. \A b \in Actors : task'[b].at \notin {"write", "append"}
      BY <1>4, <2>1
    <3>2. \A f \in {"status", "custom_status"} : desk'[f] = Blank[f]
      BY <1>5, <1>7 DEF Fields
    <3>3. QED
      BY <1>6, <3>1, <3>2 DEF HistoryGoesOn, HistoryOf, Engaged
  <2>8. QED
    BY <2>3, <2>4, <2>5, <2>6, <2>7
<1>8. CASE taken' = 0 /\ Off(a) /\ desk' = desk /\ lost' = lost
  <2>1. \A b \in Actors : task'[b].at = "rest"
    BY <1>1, <1>4, <1>8, TaskOff
  <2>2. ~Exists'
    BY <1>2, <1>8 DEF Exists
  <2>3. DeskTypes'
    BY <1>1, <1>3, <1>8 DEF DeskTypes
  <2>4. CreationInOrder'
    BY <1>1, <1>2, <1>8, <2>1, <2>2 DEF CreationInOrder, InStep, Announcing, Engaged, Resting
  <2>5. WritesAreKnown'
    BY <2>2 DEF WritesAreKnown
  <2>6. OneAtATime'
    BY <2>1 DEF OneAtATime, Resting, Engaged
  <2>7. HistoryGoesOn'
    BY <1>2, <1>6, <1>8, <2>1 DEF HistoryGoesOn, HistoryOf, Engaged
  <2>8. QED
    BY <2>3, <2>4, <2>5, <2>6, <2>7
<1>9. CASE taken' = 0 /\ Off(a) /\ desk' = inserted /\ lost' = TRUE
  <2>1. \A b \in Actors : task'[b].at = "rest"
    BY <1>1, <1>4, <1>9, TaskOff
  <2>2. Exists'
    BY <1>5, <1>9 DEF Exists
  <2>3. DeskTypes'
    BY <1>1, <1>3, <1>5, <1>9 DEF DeskTypes
  <2>4. CreationInOrder'
    BY <1>1, <1>2, <1>9, <2>1, <2>2 DEF CreationInOrder, InStep, Announcing, Engaged, Resting
  <2>5. WritesAreKnown' /\ HistoryGoesOn'
    BY <1>9 DEF WritesAreKnown, HistoryGoesOn, HistoryOf
  <2>6. OneAtATime'
    BY <2>1 DEF OneAtATime, Resting, Engaged
  <2>7. QED
    BY <2>3, <2>4, <2>5, <2>6
<1>10. QED
  BY <1>7, <1>8, <1>9 DEF InsertOrder, inserted

LEMMA LogOrderKeeps ==
  ASSUME DeskInv, NEW a \in Admins, LogOrder(a)
  PROVE  DeskInv'
<1> USE DEF DeskInv
<1>1. /\ a \in Actors /\ task[a].at = "log" /\ edits' = edits /\ ledger' = ledger /\ desk' = desk
      /\ taken' = taken /\ courier' = courier /\ crossed' = crossed
  BY DEF LogOrder, Actors, Engaged
<1>2. Exists /\ Exists' /\ edits # 0
  BY <1>1 DEF CreationInOrder, InStep, Engaged, Resting, Announcing, Exists
<1>3. task' \in [Actors -> Job] /\ \A b \in Actors : b # a => task'[b] = task[b]
  BY <1>1, TaskOn, TaskOff DEF LogOrder, DeskStages
<1>4. \A f : /\ EntriesOf(f)' = EntriesOf(f) /\ Told(f)' = Told(f) /\ \A n : Said(f, n)' = Said(f, n)
             /\ Said(f, Len(ledger))' = Said(f, Len(ledger))
  BY <1>1, LedgerStays
<1>5. CASE On(a, "announce") /\ lost' = lost
  <2>1. task'[a].at = "announce" /\ task'[a].to = task[a].to
    BY <1>1, <1>5, TaskOn DEF DeskStages
  <2>2. \A b \in Actors : /\ Announcing(b)' = Announcing(b) /\ task'[b].to = task[b].to
                          /\ Engaged(b, "append")' = Engaged(b, "append")
                          /\ Engaged(b, "write")' = Engaged(b, "write")
                          /\ Engaged(b, "append") => task'[b] = task[b]
                          /\ Engaged(b, "write") => task'[b] = task[b]
                          /\ Resting(b)' = Resting(b)
    BY <1>1, <1>3, <2>1 DEF Announcing, Engaged, Resting
  <2>3. DeskTypes'
    BY <1>1, <1>3, <1>5 DEF DeskTypes
  <2>4. CreationInOrder'
    BY <1>1, <1>2, <1>3, <1>4, <1>5, <2>1, <2>2 DEF CreationInOrder, InStep, Announcing, Engaged, Resting
  <2>5. WritesAreKnown'
    <3>1. \A f : Owed(f)' = Owed(f)
      BY <2>2 DEF Owed
    <3>2. {task[b].to : b \in {c \in Actors : Announcing(c)}}' = {task[b].to : b \in {c \in Actors : Announcing(c)}}
      BY <2>2
    <3>3. QED
      BY <1>1, <1>2, <1>4, <1>5, <2>2, <3>1, <3>2 DEF WritesAreKnown
  <2>6. OneAtATime'
    BY <1>1, <2>2 DEF OneAtATime
  <2>7. HistoryGoesOn'
    BY <1>1, <1>4, <1>5, <2>2 DEF HistoryGoesOn, HistoryOf
  <2>8. QED
    BY <2>3, <2>4, <2>5, <2>6, <2>7
<1>6. CASE Off(a) /\ lost' = TRUE
  <2>1. task'[a].at = "rest"
    BY <1>1, <1>6, TaskOff
  <2>2. DeskTypes'
    BY <1>1, <1>3, <1>6 DEF DeskTypes
  <2>3. CreationInOrder'
    BY <1>1, <1>2, <1>3, <1>4, <2>1 DEF CreationInOrder, InStep, Announcing, Engaged, Resting
  <2>4. WritesAreKnown' /\ HistoryGoesOn'
    BY <1>6 DEF WritesAreKnown, HistoryGoesOn, HistoryOf
  <2>5. OneAtATime'
    BY <1>1, <1>3, <2>1 DEF OneAtATime, Resting, Engaged
  <2>6. QED
    BY <2>2, <2>3, <2>4, <2>5
<1>7. QED
  BY <1>5, <1>6 DEF LogOrder

LEMMA AnnounceKeeps ==
  ASSUME DeskInv, NEW a \in Admins, Announce(a)
  PROVE  DeskInv'
<1> USE DEF DeskInv
<1> DEFINE e == Entry("created", "none", task[a].to)
<1>1. /\ a \in Actors /\ task[a].at = "announce" /\ edits' = edits /\ desk' = desk
      /\ taken' = taken /\ courier' = courier /\ crossed' = crossed /\ Off(a) /\ AppendEvent(e)
  BY DEF Announce, Actors, Engaged
<1>2. Announcing(a) /\ Exists /\ Exists' /\ edits # 0 /\ EntriesOf("created") = {}
  BY <1>1 DEF CreationInOrder, InStep, Engaged, Resting, Announcing, Exists
<1>3. /\ task' \in [Actors -> Job] /\ \A b \in Actors : b # a => task'[b] = task[b]
      /\ task'[a].at = "rest"
  BY <1>1, TaskOff
<1>4. e \in LedgerEntry /\ e.field = "created" /\ e.to = task[a].to
  <2>1. task[a].to \in Words /\ "none" \in Words
    BY <1>1 DEF DeskTypes, Job, Words
  <2>2. QED
    BY <2>1 DEF Entry, LedgerEntry
<1> HIDE DEF e
<1>5. \A b \in Actors : ~Announcing(b)'
  BY <1>1, <1>2, <1>3 DEF CreationInOrder, InStep, Announcing, Engaged
<1>6. \A b \in Actors : /\ Engaged(b, "append")' = Engaged(b, "append")
                        /\ Engaged(b, "write")' = Engaged(b, "write")
                        /\ Engaged(b, "append") => task'[b] = task[b]
                        /\ Engaged(b, "write") => task'[b] = task[b]
  BY <1>1, <1>3 DEF Engaged
<1>7. OneAtATime'
  BY <1>1, <1>3 DEF OneAtATime, Resting, Engaged
<1>8. CreationInOrder'
  BY <1>1, <1>2, <1>3, <1>5 DEF CreationInOrder, InStep, Announcing, Engaged, Resting
<1>9. CASE ledger' = ledger /\ lost' = TRUE
  <2>1. DeskTypes'
    BY <1>1, <1>3, <1>9 DEF DeskTypes
  <2>2. WritesAreKnown' /\ HistoryGoesOn'
    BY <1>9 DEF WritesAreKnown, HistoryGoesOn, HistoryOf
  <2>3. QED
    BY <1>7, <1>8, <2>1, <2>2
<1>10. CASE ledger' = Append(ledger, e) /\ lost' = lost
  <2>1. DeskTypes'
    BY <1>1, <1>3, <1>4, <1>10, LedgerAppended DEF DeskTypes
  <2>2. Told("created")' = {task[a].to}
    <3>1. Told("created") = {}
      BY <1>2 DEF Told
    <3>2. QED
      BY <1>4, <1>10, <3>1, OwnWord
  <2>3. \A f \in Fields : /\ EntriesOf(f)' = EntriesOf(f) /\ Told(f)' = Told(f)
                          /\ Said(f, Len(ledger))' = Said(f, Len(ledger))
    <3>1. "created" \notin Fields
      BY DEF Fields
    <3>2. QED
      BY <1>4, <1>10, <3>1, OtherFields
  <2>4. WritesAreKnown'
    <3>1. \A f : Owed(f)' = Owed(f)
      BY <1>6 DEF Owed
    <3>2. ASSUME ~lost
          PROVE  desk.payment \in Told("created")' \cup Told("payment")' \cup Owed("payment")'
      <4>1. {task[b].to : b \in {c \in Actors : Announcing(c)}} = {task[a].to}
        BY <1>1, <1>2 DEF CreationInOrder, InStep
      <4>2. Told("created") = {}
        BY <1>2 DEF Told
      <4>3. "payment" \in Fields
        BY DEF Fields
      <4>4. QED
        BY <1>2, <2>2, <2>3, <3>1, <3>2, <4>1, <4>2, <4>3 DEF WritesAreKnown
    <3>3. (taken = 1) = ("completed" \in Told("created")')
      <4>1. taken = IF task[a].to = "completed" THEN 1 ELSE 0
        BY <1>1, <1>2 DEF CreationInOrder, InStep
      <4>2. QED
        BY <2>2, <4>1
    <3>4. "status" \in Fields
      BY DEF Fields
    <3>5. QED
      BY <1>1, <1>2, <1>10, <2>3, <3>1, <3>2, <3>3, <3>4 DEF WritesAreKnown
  <2>5. HistoryGoesOn'
    <3>1. {"status", "custom_status"} \subseteq Fields
      BY DEF Fields
    <3>2. \A f \in {"status", "custom_status"} : \A i \in EntriesOf(f) :
            ledger'[i] = ledger[i] /\ Said(f, i - 1)' = Said(f, i - 1)
      <4>1. ASSUME NEW f \in {"status", "custom_status"}, NEW i \in EntriesOf(f)
            PROVE  ledger'[i] = ledger[i] /\ Said(f, i - 1)' = Said(f, i - 1)
        <5>1. i - 1 \in 0 .. Len(ledger)
          BY EntriesInLedger
        <5>2. QED
          BY <1>4, <1>10, <5>1, OthersSay
      <4>2. QED
        BY <4>1
    <3>3. ASSUME NEW f \in {"status", "custom_status"}, HistoryOf(f) PROVE HistoryOf(f)'
      <4>1. \A i \in EntriesOf(f)' : ledger'[i].from = Said(f, i - 1)'
        BY <2>3, <3>1, <3>2, <3>3 DEF HistoryOf
      <4>2. (\A b \in Actors : ~(Engaged(b, "append")' /\ task'[b].field = f)) =>
               desk'[f] = Said(f, Len(ledger))'
        BY <1>1, <1>6, <2>3, <3>1, <3>3 DEF HistoryOf
      <4>3. \A b \in Actors : task'[b].field = f =>
              /\ Engaged(b, "write")' /\ b # Courier => task'[b].from = Said(f, Len(ledger))'
              /\ Engaged(b, "append")' => /\ task'[b].from = Said(f, Len(ledger))'
                                          /\ desk'[f] = task'[b].to
        BY <1>1, <1>6, <2>3, <3>1, <3>3 DEF HistoryOf
      <4>4. QED
        BY <4>1, <4>2, <4>3 DEF HistoryOf
    <3>4. QED
      BY <1>1, <1>10, <3>3 DEF HistoryGoesOn
  <2>6. QED
    BY <1>7, <1>8, <2>1, <2>4, <2>5
<1>11. QED
  BY <1>1, <1>9, <1>10 DEF AppendEvent

LEMMA LeaveDeskKeeps ==
  ASSUME DeskInv, NEW a \in Admins, LeaveDesk(a)
  PROVE  DeskInv'
<1> USE DEF DeskInv
<1>1. /\ a \in Actors /\ edits' = edits /\ desk' = desk /\ ledger' = ledger /\ ~Resting(a)
      /\ taken' = taken /\ courier' = courier /\ crossed' = crossed /\ Off(a)
  BY DEF LeaveDesk, Actors
<1>2. lost \in BOOLEAN /\ lost' = (lost \/ task[a].at \in {"append", "log", "announce"})
  BY DEF LeaveDesk, DeskTypes
<1>3. /\ task' \in [Actors -> Job] /\ \A b \in Actors : b # a => task'[b] = task[b]
      /\ task'[a].at = "rest"
  BY <1>1, TaskOff
<1>4. edits # 0 /\ Exists' = Exists /\ task[a].at \in DeskStages \ {"rest"}
  BY <1>1 DEF CreationInOrder, InStep, Exists, DeskTypes, Job, Resting, Engaged
<1>5. \A f : /\ EntriesOf(f)' = EntriesOf(f) /\ Told(f)' = Told(f) /\ \A n : Said(f, n)' = Said(f, n)
             /\ Said(f, Len(ledger))' = Said(f, Len(ledger))
  BY <1>1, LedgerStays
<1>6. DeskTypes'
  BY <1>1, <1>2, <1>3 DEF DeskTypes
<1>7. CreationInOrder'
  <2>1. ~Exists => taken \in {0, 1}
    BY <1>1, <1>4 DEF CreationInOrder, InStep, Announcing, Engaged, Resting, DeskStages
  <2>2. ~Exists => ledger = <<>> /\ desk = Blank /\ courier = {}
    BY DEF CreationInOrder, InStep
  <2>3. \A b \in Actors : b # a => /\ Engaged(b, "stock")' = Engaged(b, "stock")
                                   /\ Engaged(b, "insert")' = Engaged(b, "insert")
                                   /\ Engaged(b, "append")' = Engaged(b, "append")
                                   /\ Engaged(b, "write")' = Engaged(b, "write")
                                   /\ Announcing(b)' = Announcing(b)
                                   /\ Resting(b)' = Resting(b) /\ task'[b] = task[b]
    BY <1>3 DEF Announcing, Engaged, Resting
  <2>4. /\ ~Engaged(a, "stock")' /\ ~Engaged(a, "insert")' /\ ~Engaged(a, "append")'
        /\ ~Engaged(a, "write")' /\ ~Announcing(a)' /\ Resting(a)'
    BY <1>3 DEF Announcing, Engaged, Resting
  <2>5. QED
    BY <1>1, <1>4, <1>5, <2>1, <2>2, <2>3, <2>4 DEF CreationInOrder, InStep
<1>8. OneAtATime'
  BY <1>1, <1>3 DEF OneAtATime, Resting, Engaged
<1>9. CASE lost'
  BY <1>6, <1>7, <1>8, <1>9 DEF WritesAreKnown, HistoryGoesOn, HistoryOf
<1>10. CASE ~lost'
  <2>1. ~lost /\ task[a].at \notin {"append", "log", "announce"}
    BY <1>2, <1>10
  <2>2. \A b \in Actors : /\ Engaged(b, "append")' = Engaged(b, "append")
                          /\ Engaged(b, "write")' => Engaged(b, "write")
                          /\ Engaged(b, "append") => task'[b] = task[b]
                          /\ Engaged(b, "write")' => task'[b] = task[b]
                          /\ Announcing(b)' = Announcing(b)
                          /\ Announcing(b) => task'[b] = task[b]
    BY <1>3, <2>1 DEF Announcing, Engaged
  <2>3. WritesAreKnown'
    <3>1. \A f : Owed(f)' = Owed(f)
      BY <2>2 DEF Owed
    <3>2. {task[b].to : b \in {c \in Actors : Announcing(c)}}' = {task[b].to : b \in {c \in Actors : Announcing(c)}}
      BY <2>2
    <3>3. QED
      BY <1>1, <1>4, <1>5, <2>1, <2>2, <3>1, <3>2 DEF WritesAreKnown
  <2>4. HistoryGoesOn'
    BY <1>1, <1>5, <2>1, <2>2 DEF HistoryGoesOn, HistoryOf
  <2>5. QED
    BY <1>6, <1>7, <1>8, <2>3, <2>4
<1>11. QED
  BY <1>9, <1>10

(* A write that was begun: its "from" is what the order says.               *)
LEMMA BegunKeeps ==
  ASSUME DeskInv, NEW a \in Actors, NEW job \in Job, Begin(a, job), job.at = "write",
         job.field = "payment" => job.to # "none",
         a = Courier \/ job.field \in {"status", "custom_status"} => a = Courier \/ job.from = desk[job.field],
         Exists, edits' = edits + 1, UNCHANGED <<desk, taken, ledger, lost, courier>>
  PROVE  DeskInv'
<1> USE DEF DeskInv
<1>1. /\ task' \in [Actors -> Job] /\ task'[a] = job /\ crossed' \in BOOLEAN
      /\ \A b \in Actors : b # a => task'[b] = task[b]
      /\ Resting(a) /\ task[a].at = "rest"
      /\ ~crossed' => ~crossed /\ \A b \in Actors : Resting(b)
  BY TaskBegun
<1>2. Exists' /\ edits' # 0 /\ edits' \in Nat
  BY DEF Exists, DeskTypes
<1>3. \A f : /\ EntriesOf(f)' = EntriesOf(f) /\ Told(f)' = Told(f) /\ \A n : Said(f, n)' = Said(f, n)
             /\ Said(f, Len(ledger))' = Said(f, Len(ledger))
  BY LedgerStays
<1>4. DeskTypes'
  BY <1>1, <1>2 DEF DeskTypes
<1>5. \A b \in Actors : /\ Announcing(b)' = Announcing(b)
                        /\ Announcing(b) => task'[b] = task[b]
                        /\ Engaged(b, "append")' = Engaged(b, "append")
                        /\ Engaged(b, "append") => task'[b] = task[b]
                        /\ Engaged(b, "stock")' = Engaged(b, "stock")
                        /\ Engaged(b, "insert")' = Engaged(b, "insert")
  BY <1>1 DEF Announcing, Engaged
<1>6. CreationInOrder'
  <2>1. ASSUME NEW b \in Actors PROVE InStep(b)'
    <3>1. CASE b = a
      BY <1>1, <1>2, <1>3, <1>5, <3>1 DEF InStep, Announcing, Engaged
    <3>2. CASE b # a
      <4>1. task'[b] = task[b] /\ InStep(b) /\ EntriesOf("created")' = EntriesOf("created")
        BY <1>1, <1>2, <1>3, <1>5, <3>2 DEF CreationInOrder
      <4>2. QED
        BY <1>1, <1>2, <1>3, <1>5, <4>1 DEF InStep, Announcing, Engaged
    <3>3. QED
      BY <3>1, <3>2
  <2>2. \A b, c \in Actors : Announcing(b)' /\ Announcing(c)' => b = c
    BY <1>1, <1>2, <1>3, <1>5 DEF CreationInOrder
  <2>3. QED
    BY <1>1, <1>2, <1>3, <1>5, <2>1, <2>2 DEF CreationInOrder
<1>7. WritesAreKnown'
  <2>1. \A f : Owed(f)' = Owed(f)
    BY <1>5 DEF Owed
  <2>2. {task[b].to : b \in {c \in Actors : Announcing(c)}}' = {task[b].to : b \in {c \in Actors : Announcing(c)}}
    BY <1>5
  <2>3. QED
    BY <1>2, <1>3, <1>5, <2>1, <2>2 DEF WritesAreKnown
<1>8. OneAtATime'
  BY <1>1 DEF OneAtATime, Resting, Engaged
<1>9. HistoryGoesOn'
  <2>1. ASSUME NEW f \in {"status", "custom_status"}, HistoryOf(f), ~crossed' PROVE HistoryOf(f)'
    <3>1. \A b \in Actors : task[b].at = "rest" /\ (b # a => task'[b].at = "rest")
      BY <1>1, <2>1 DEF Resting, Engaged
    <3>2. desk[f] = Said(f, Len(ledger))
      BY <2>1, <3>1 DEF HistoryOf, Engaged
    <3>3. QED
      BY <1>1, <1>3, <2>1, <3>1, <3>2 DEF HistoryOf, Engaged
  <2>2. QED
    BY <1>1, <2>1 DEF HistoryGoesOn
<1>10. QED
  BY <1>4, <1>6, <1>7, <1>8, <1>9

LEMMA EditOrderKeeps ==
  ASSUME DeskInv, NEW a \in Admins, NEW field \in Fields, EditOrder(a, field)
  PROVE  DeskInv'
<1>1. PICK to \in Values[field] :
       Begin(a, [at |-> "write", field |-> field, to |-> to,
                 from |-> IF Reads(field) THEN desk[field] ELSE "unread"])
  BY DEF EditOrder
<1> DEFINE job == [at |-> "write", field |-> field, to |-> to,
                   from |-> IF Reads(field) THEN desk[field] ELSE "unread"]
<1>2. a \in Actors /\ Exists /\ edits' = edits + 1 /\ UNCHANGED <<desk, taken, ledger, lost, courier>>
  BY DEF EditOrder, Actors
<1>3. to \in Words /\ (field = "payment" => to # "none")
  BY DEF Values, Words, Fields
<1>4. desk[field] \in Words /\ "unread" \in Words
  BY DEF DeskInv, DeskTypes, Words
<1>5. job.from \in Words /\ (field \in {"status", "custom_status"} => job.from = desk[field])
  BY <1>4 DEF Reads
<1>6. job \in Job
  BY <1>3, <1>5 DEF Job, DeskStages
<1>7. job.at = "write" /\ job.field = field /\ job.to = to
  OBVIOUS
<1> HIDE DEF job
<1>8. Begin(a, job)
  BY <1>1 DEF job
<1>9. QED
  BY <1>2, <1>3, <1>5, <1>6, <1>7, <1>8, BegunKeeps

LEMMA CourierReadsKeeps ==
  ASSUME DeskInv, CourierReads
  PROVE  DeskInv'
<1> DEFINE job == [Rest EXCEPT !.at = "write", !.to = "delivered"]
<1>1. /\ Courier \in Actors /\ Exists /\ edits' = edits + 1 /\ Begin(Courier, job)
      /\ UNCHANGED <<desk, taken, ledger, lost, courier>>
  BY DEF CourierReads, Actors
<1>2. job \in Job /\ job.at = "write" /\ job.field = "status"
  BY RestIsAJob DEF Job, DeskStages, Words
<1> HIDE DEF job
<1>3. QED
  BY <1>1, <1>2, BegunKeeps

LEMMA CourierWritesKeeps ==
  ASSUME DeskInv, CourierWrites
  PROVE  DeskInv'
<1> USE DEF DeskInv
<1> DEFINE to == task[Courier].to
<1>1. /\ Courier \in Actors /\ task[Courier].at = "write" /\ Off(Courier) /\ edits' = edits
      /\ desk' = [desk EXCEPT !.status = to] /\ courier' = courier \cup {to}
      /\ taken' = taken /\ ledger' = ledger /\ lost' = lost /\ crossed' = crossed
  BY DEF CourierWrites, Actors, Engaged
<1>2. /\ task' \in [Actors -> Job] /\ \A b \in Actors : b # Courier => task'[b] = task[b]
      /\ task'[Courier].at = "rest"
  BY <1>1, TaskOff
<1>3. /\ to \in Words /\ desk' \in [Fields -> Words] /\ desk'.status = to
      /\ \A f \in Fields \ {"status"} : desk'[f] = desk[f]
      /\ desk'.payment = desk.payment
  <2>1. /\ to \in Words /\ desk \in [Fields -> Words] /\ "status" \in Fields
        /\ "payment" \in Fields \ {"status"}
    BY <1>1 DEF DeskTypes, Job, Fields
  <2>2. QED
    BY <1>1, <2>1
<1> HIDE DEF to
<1>4. Exists /\ Exists' /\ edits # 0
  BY <1>1, <1>3 DEF CreationInOrder, InStep, Exists, Engaged, Resting
<1>5. \A f : EntriesOf(f)' = EntriesOf(f) /\ Told(f)' = Told(f)
  BY <1>1, LedgerStays
<1>6. \A b \in Actors : /\ Announcing(b)' = Announcing(b)
                        /\ Announcing(b) => task'[b] = task[b]
                        /\ Engaged(b, "append")' = Engaged(b, "append")
                        /\ Engaged(b, "append") => task'[b] = task[b]
                        /\ Engaged(b, "stock")' = Engaged(b, "stock")
                        /\ Engaged(b, "insert")' = Engaged(b, "insert")
                        /\ Engaged(b, "write")' => Engaged(b, "write") /\ task'[b] = task[b]
  BY <1>1, <1>2 DEF Announcing, Engaged
<1>7. DeskTypes'
  BY <1>1, <1>2, <1>3 DEF DeskTypes
<1>8. CreationInOrder'
  <2>1. ASSUME NEW b \in Actors PROVE InStep(b)'
    <3>1. CASE b = Courier
      BY <1>1, <1>2, <1>4, <1>5, <1>6, <3>1 DEF InStep, Announcing, Engaged
    <3>2. CASE b # Courier
      <4>1. task'[b] = task[b] /\ InStep(b) /\ EntriesOf("created")' = EntriesOf("created")
        BY <1>1, <1>2, <1>4, <1>5, <1>6, <3>2 DEF CreationInOrder
      <4>2. QED
        BY <1>1, <1>2, <1>4, <1>5, <1>6, <4>1 DEF InStep, Announcing, Engaged
    <3>3. QED
      BY <3>1, <3>2
  <2>2. \A b, c \in Actors : Announcing(b)' /\ Announcing(c)' => b = c
    BY <1>1, <1>2, <1>4, <1>5, <1>6 DEF CreationInOrder
  <2>3. QED
    BY <1>1, <1>2, <1>4, <1>5, <1>6, <2>1, <2>2 DEF CreationInOrder
<1>9. WritesAreKnown'
  <2>1. \A f : Owed(f)' = Owed(f)
    BY <1>6 DEF Owed
  <2>2. {task[b].to : b \in {c \in Actors : Announcing(c)}}' = {task[b].to : b \in {c \in Actors : Announcing(c)}}
    BY <1>6
  <2>3. desk'.status \in courier'
    BY <1>1, <1>3
  <2>4. QED
    <3>1. CASE lost
      BY <1>1, <3>1 DEF WritesAreKnown
    <3>2. CASE ~lost
      <4>0. lost = FALSE
        BY <3>2 DEF DeskTypes
      <4>1. /\ \A f \in Fields \ {"status", "payment"} : desk'[f] \in {Blank[f]} \cup Told(f)' \cup Owed(f)'
            /\ desk'.payment \in Told("created")' \cup Told("payment")' \cup Owed("payment")'
                               \cup {task[b].to : b \in {c \in Actors : Announcing(c)}}'
        BY <1>3, <1>4, <1>5, <2>1, <2>2, <3>2, <4>0 DEF WritesAreKnown
      <4>2. (\A b \in Actors : ~Announcing(b)') => (taken' = 1) = ("completed" \in Told("created")')
        BY <1>1, <1>4, <1>5, <1>6, <3>2 DEF WritesAreKnown
      <4>3. QED
        BY <2>3, <4>1, <4>2 DEF WritesAreKnown
    <3>3. QED
      BY <3>1, <3>2
<1>10. OneAtATime'
  BY <1>1, <1>2 DEF OneAtATime, Resting, Engaged
<1>11. HistoryGoesOn'
  BY <1>1 DEF HistoryGoesOn
<1>12. QED
  BY <1>7, <1>8, <1>9, <1>10, <1>11

LEMMA WriteFieldKeeps ==
  ASSUME DeskInv, NEW a \in Admins, WriteField(a)
  PROVE  DeskInv'
<1> USE DEF DeskInv
<1> DEFINE g == task[a].field
           to == task[a].to
<1>1. /\ a \in Actors /\ a # Courier /\ task[a].at = "write" /\ On(a, "append") /\ edits' = edits
      /\ desk' = [desk EXCEPT ![g] = to] /\ courier' = courier
      /\ taken' = taken /\ ledger' = ledger /\ lost' = lost /\ crossed' = crossed
  BY DEF WriteField, Actors, Engaged
<1>2. /\ task' \in [Actors -> Job] /\ \A b \in Actors : b # a => task'[b] = task[b]
      /\ task'[a].at = "append" /\ task'[a].field = g /\ task'[a].to = to
      /\ task'[a].from = task[a].from
  <2>1. "append" \in DeskStages
    BY DEF DeskStages
  <2>2. QED
    BY <1>1, <2>1, TaskOn
<1>3. /\ g \in Fields /\ to \in Words /\ desk' \in [Fields -> Words] /\ desk'[g] = to
      /\ \A f \in Fields \ {g} : desk'[f] = desk[f]
  <2>1. g \in Fields /\ to \in Words /\ desk \in [Fields -> Words]
    BY <1>1 DEF DeskTypes, Job
  <2>2. QED
    BY <1>1, <2>1
<1>4. Exists /\ InStep(a) /\ edits # 0
  BY <1>1 DEF CreationInOrder, InStep, Engaged, Resting
<1>5. Exists'
  <2>1. g = "payment" => to # "none"
    BY <1>1, <1>4 DEF InStep, Engaged
  <2>2. "payment" \in Fields
    BY DEF Fields
  <2>3. QED
    BY <1>3, <1>4, <2>1, <2>2 DEF Exists
<1> HIDE DEF g, to
<1>6. \A f : /\ EntriesOf(f)' = EntriesOf(f) /\ Told(f)' = Told(f) /\ \A n : Said(f, n)' = Said(f, n)
             /\ Said(f, Len(ledger))' = Said(f, Len(ledger))
  BY <1>1, LedgerStays
<1>7. \A b \in Actors : /\ Announcing(b)' = Announcing(b)
                        /\ Announcing(b) => task'[b] = task[b]
                        /\ Engaged(b, "append")' = (Engaged(b, "append") \/ b = a)
                        /\ Engaged(b, "append") => task'[b] = task[b] /\ b # a
                        /\ Engaged(b, "stock")' = Engaged(b, "stock")
                        /\ Engaged(b, "insert")' = Engaged(b, "insert")
                        /\ Engaged(b, "write")' => Engaged(b, "write") /\ task'[b] = task[b]
  BY <1>1, <1>2 DEF Announcing, Engaged
<1>8. DeskTypes'
  BY <1>1, <1>2, <1>3 DEF DeskTypes
<1>9. CreationInOrder'
  <2>1. ASSUME NEW b \in Actors PROVE InStep(b)'
    <3>1. CASE b = a
      BY <1>1, <1>2, <1>4, <1>5, <1>6, <1>7, <3>1 DEF InStep, Announcing, Engaged
    <3>2. CASE b # a
      <4>1. task'[b] = task[b] /\ InStep(b) /\ EntriesOf("created")' = EntriesOf("created")
        BY <1>1, <1>2, <1>6, <3>2 DEF CreationInOrder
      <4>2. QED
        BY <1>1, <1>2, <1>4, <1>5, <1>6, <4>1 DEF InStep, Announcing, Engaged
    <3>3. QED
      BY <3>1, <3>2
  <2>2. \A b, c \in Actors : Announcing(b)' /\ Announcing(c)' => b = c
    BY <1>7 DEF CreationInOrder
  <2>3. QED
    BY <1>1, <1>4, <1>5, <2>1, <2>2 DEF CreationInOrder
<1>10. WritesAreKnown'
  <2>1. \A f : /\ \A x \in Owed(f) : x \in Owed(f)'
               /\ f = g => to \in Owed(f)'
    <3>1. ASSUME NEW f, NEW x \in Owed(f) PROVE x \in Owed(f)'
      <4>1. PICK b \in Actors : Engaged(b, "append") /\ task[b].field = f /\ x = task[b].to
        BY DEF Owed
      <4>2. Engaged(b, "append")' /\ task'[b].field = f /\ x = task'[b].to
        BY <1>7, <4>1
      <4>3. b \in {c \in Actors : Engaged(c, "append") /\ task[c].field = f}'
        BY <4>2
      <4>4. QED
        BY <4>2, <4>3 DEF Owed
    <3>2. ASSUME NEW f, f = g PROVE to \in Owed(f)'
      <4>1. a \in {c \in Actors : Engaged(c, "append") /\ task[c].field = f}'
        BY <1>1, <1>2, <3>2 DEF Engaged
      <4>2. QED
        BY <1>2, <4>1 DEF Owed
    <3>3. QED
      BY <3>1, <3>2
  <2>2. {task[b].to : b \in {c \in Actors : Announcing(c)}}' = {task[b].to : b \in {c \in Actors : Announcing(c)}}
    BY <1>7
  <2>3. \A f \in Fields : desk'[f] \in Owed(f)' \/ desk'[f] = desk[f]
    BY <1>3, <2>1
  <2>4. "status" \in Fields /\ "payment" \in Fields
    BY DEF Fields
  <2>5. CASE lost
    BY <1>1, <2>5 DEF WritesAreKnown
  <2>6. CASE ~lost
    <3>1. desk'.status \in {Blank.status} \cup Told("status")' \cup Owed("status")' \cup courier'
      BY <1>1, <1>4, <1>6, <2>1, <2>3, <2>4, <2>6 DEF WritesAreKnown
    <3>2. \A f \in Fields \ {"status", "payment"} : desk'[f] \in {Blank[f]} \cup Told(f)' \cup Owed(f)'
      BY <1>4, <1>6, <2>1, <2>3, <2>6 DEF WritesAreKnown
    <3>3. desk'.payment \in Told("created")' \cup Told("payment")' \cup Owed("payment")'
                               \cup {task[b].to : b \in {c \in Actors : Announcing(c)}}'
      BY <1>4, <1>6, <2>1, <2>2, <2>3, <2>4, <2>6 DEF WritesAreKnown
    <3>4. (\A b \in Actors : ~Announcing(b)') => (taken' = 1) = ("completed" \in Told("created")')
      BY <1>1, <1>4, <1>6, <1>7, <2>6 DEF WritesAreKnown
    <3>5. QED
      BY <3>1, <3>2, <3>3, <3>4 DEF WritesAreKnown
  <2>7. QED
    BY <2>5, <2>6
<1>11. OneAtATime'
  BY <1>1, <1>2 DEF OneAtATime, Resting, Engaged
<1>12. HistoryGoesOn'
  <2>1. ASSUME NEW f \in {"status", "custom_status"}, HistoryOf(f), ~crossed PROVE HistoryOf(f)'
    <3>1. \A b \in Actors : b # a => task[b].at = "rest" /\ task'[b].at = "rest"
      BY <1>1, <1>2, <2>1 DEF OneAtATime, Resting, Engaged
    <3>2. desk[f] = Said(f, Len(ledger))
      BY <1>1, <2>1, <3>1 DEF HistoryOf, Engaged
    <3>3. \A i \in EntriesOf(f)' : ledger'[i].from = Said(f, i - 1)'
      BY <1>1, <1>6, <2>1 DEF HistoryOf
    <3>4. CASE f = g
      <4>1. task[a].from = Said(f, Len(ledger))
        BY <1>1, <2>1, <3>4 DEF HistoryOf, Engaged, g
      <4>2. /\ Engaged(a, "append")' /\ ~Engaged(a, "write")' /\ task'[a].field = f
            /\ task'[a].from = Said(f, Len(ledger))' /\ desk'[f] = task'[a].to
        BY <1>2, <1>3, <1>6, <3>4, <4>1 DEF Engaged
      <4>3. \A b \in Actors : b # a => ~Engaged(b, "append")' /\ ~Engaged(b, "write")'
        BY <3>1 DEF Engaged
      <4>4. QED
        BY <1>1, <3>3, <4>2, <4>3 DEF HistoryOf
    <3>5. CASE f # g
      <4>1. f \in Fields
        BY DEF Fields
      <4>2. QED
        BY <1>2, <1>3, <1>6, <3>1, <3>2, <3>3, <3>5, <4>1 DEF HistoryOf, Engaged
    <3>6. QED
      BY <3>4, <3>5
  <2>2. QED
    BY <1>1, <2>1 DEF HistoryGoesOn
<1>13. QED
  BY <1>8, <1>9, <1>10, <1>11, <1>12

LEMMA AppendFieldKeeps ==
  ASSUME DeskInv, NEW a \in Admins, AppendField(a)
  PROVE  DeskInv'
<1> USE DEF DeskInv
<1>1. PICK e : e = Entry(task[a].field, task[a].from, task[a].to)
  OBVIOUS
<1>2. /\ a \in Actors /\ task[a].at = "append" /\ edits' = edits /\ desk' = desk
      /\ taken' = taken /\ courier' = courier /\ crossed' = crossed /\ Off(a) /\ AppendEvent(e)
  BY <1>1 DEF AppendField, Actors, Engaged
<1>3. /\ e \in LedgerEntry /\ e.field = task[a].field /\ e.field \in Fields
      /\ e.to = task[a].to /\ e.from = task[a].from
  <2>1. task[a] \in Job
    BY <1>2 DEF DeskTypes
  <2>2. QED
    BY <1>1, <2>1 DEF Entry, LedgerEntry, Job
<1>4. /\ task' \in [Actors -> Job] /\ \A b \in Actors : b # a => task'[b] = task[b]
      /\ task'[a].at = "rest"
  BY <1>2, TaskOff
<1>5. Exists /\ Exists' /\ edits # 0
  BY <1>2 DEF CreationInOrder, InStep, Engaged, Resting, Exists
<1>6. \A b \in Actors : /\ Announcing(b)' = Announcing(b)
                        /\ Announcing(b) => task'[b] = task[b]
                        /\ Engaged(b, "append")' => Engaged(b, "append") /\ b # a
                        /\ Engaged(b, "append") /\ b # a => Engaged(b, "append")' /\ task'[b] = task[b]
                        /\ Engaged(b, "write")' = Engaged(b, "write")
                        /\ Engaged(b, "write") => task'[b] = task[b]
  BY <1>2, <1>4 DEF Announcing, Engaged
<1>7. OneAtATime'
  BY <1>2, <1>4 DEF OneAtATime, Resting, Engaged
<1>8. DeskTypes' /\ EntriesOf("created")' = EntriesOf("created") /\ Told("created")' = Told("created")
  <2>1. CASE ledger' = ledger /\ lost' = TRUE
    BY <1>2, <1>4, <2>1, LedgerStays DEF DeskTypes
  <2>2. CASE ledger' = Append(ledger, e) /\ lost' = lost
    <3>1. DeskTypes'
      BY <1>2, <1>3, <1>4, <2>2, LedgerAppended DEF DeskTypes
    <3>2. e.field # "created"
      BY <1>3 DEF Fields
    <3>3. QED
      BY <1>3, <2>2, <3>1, <3>2, OtherFields
  <2>3. QED
    BY <1>2, <2>1, <2>2 DEF AppendEvent
<1>9. CreationInOrder'
  <2>1. ASSUME NEW b \in Actors PROVE InStep(b)'
    <3>1. CASE b = a
      BY <1>4, <3>1 DEF InStep, Announcing, Engaged
    <3>2. CASE b # a
      <4>1. task'[b] = task[b] /\ InStep(b)
        BY <1>4, <3>2 DEF CreationInOrder
      <4>2. QED
        BY <1>2, <1>5, <1>8, <4>1 DEF InStep, Announcing, Engaged
    <3>3. QED
      BY <3>1, <3>2
  <2>2. \A b, c \in Actors : Announcing(b)' /\ Announcing(c)' => b = c
    BY <1>6 DEF CreationInOrder
  <2>3. QED
    BY <1>2, <1>5, <2>1, <2>2 DEF CreationInOrder
<1>10. CASE lost'
  BY <1>7, <1>8, <1>9, <1>10 DEF WritesAreKnown, HistoryGoesOn
<1>11. CASE ~lost'
  <2>1. ledger' = Append(ledger, e) /\ lost' = lost /\ lost = FALSE
    BY <1>2, <1>8, <1>11 DEF AppendEvent, DeskTypes
  <2>2. \A f : f # e.field => /\ EntriesOf(f)' = EntriesOf(f) /\ Told(f)' = Told(f)
                            /\ Said(f, Len(ledger))' = Said(f, Len(ledger))
    BY <1>3, <2>1, OtherFields
  <2>3. ASSUME NEW f PROVE f = e.field =>
               /\ EntriesOf(f)' = EntriesOf(f) \cup {Len(ledger) + 1}
               /\ Told(f)' = Told(f) \cup {e.to} /\ Said(f, Len(ledger))' = e.to
    BY <1>3, <2>1, OwnWord
  <2>4. ASSUME NEW f \in Fields
        PROVE  \A x \in Told(f) \cup Owed(f) : x \in Told(f)' \cup Owed(f)'
    <3>1. \A x \in Told(f) : x \in Told(f)'
      BY <2>2, <2>3
    <3>2. ASSUME NEW x \in Owed(f) PROVE x \in Told(f)' \cup Owed(f)'
      <4>1. PICK b \in Actors : Engaged(b, "append") /\ task[b].field = f /\ x = task[b].to
        BY <3>2 DEF Owed
      <4>2. CASE b = a
        BY <1>3, <2>3, <4>1, <4>2
      <4>3. CASE b # a
        <5>1. Engaged(b, "append")' /\ task'[b].field = f /\ x = task'[b].to
          BY <1>6, <4>1, <4>3
        <5>2. b \in {c \in Actors : Engaged(c, "append") /\ task[c].field = f}'
          BY <5>1
        <5>3. x \in Owed(f)'
          BY <5>1, <5>2 DEF Owed
        <5>4. QED
          BY <5>3
      <4>4. QED
        BY <4>2, <4>3
    <3>3. QED
      BY <3>1, <3>2
  <2>5. WritesAreKnown'
    <3>1. {task[b].to : b \in {c \in Actors : Announcing(c)}}' = {task[b].to : b \in {c \in Actors : Announcing(c)}}
      BY <1>6
    <3>2. "status" \in Fields /\ "payment" \in Fields
      BY DEF Fields
    <3>3. desk'.status \in {Blank.status} \cup Told("status")' \cup Owed("status")' \cup courier'
      BY <1>2, <1>5, <2>1, <2>4, <3>2 DEF WritesAreKnown
    <3>4. ASSUME NEW f \in Fields \ {"status", "payment"}
          PROVE  desk'[f] \in {Blank[f]} \cup Told(f)' \cup Owed(f)'
      <4>1. desk[f] = Blank[f] \/ desk[f] \in Told(f) \cup Owed(f)
        BY <1>5, <2>1 DEF WritesAreKnown
      <4>2. QED
        BY <1>2, <2>4, <4>1
    <3>5. desk'.payment \in Told("created")' \cup Told("payment")' \cup Owed("payment")'
                               \cup {task[b].to : b \in {c \in Actors : Announcing(c)}}'
      BY <1>2, <1>5, <1>8, <2>1, <2>4, <3>1, <3>2 DEF WritesAreKnown
    <3>6. (\A b \in Actors : ~Announcing(b)') => (taken' = 1) = ("completed" \in Told("created")')
      BY <1>2, <1>5, <1>6, <1>8, <2>1 DEF WritesAreKnown
    <3>7. QED
      BY <3>3, <3>4, <3>5, <3>6 DEF WritesAreKnown
  <2>6. HistoryGoesOn'
    <3>1. ASSUME NEW f \in {"status", "custom_status"}, HistoryOf(f), ~crossed PROVE HistoryOf(f)'
      <4>1. \A b \in Actors : task'[b].at = "rest" /\ (b # a => task[b].at = "rest")
        BY <1>2, <1>4, <3>1 DEF OneAtATime, Resting, Engaged
      <4>2. \A i \in EntriesOf(f) : ledger'[i] = ledger[i] /\ Said(f, i - 1)' = Said(f, i - 1)
        <5>1. ASSUME NEW i \in EntriesOf(f)
              PROVE  ledger'[i] = ledger[i] /\ Said(f, i - 1)' = Said(f, i - 1)
          <6>1. i - 1 \in 0 .. Len(ledger)
            BY EntriesInLedger
          <6>2. QED
            BY <1>3, <2>1, <6>1, OthersSay
        <5>2. QED
          BY <5>1
      <4>3. CASE f # e.field
        <5>1. desk[f] = Said(f, Len(ledger))
          BY <1>2, <1>3, <3>1, <4>1, <4>3 DEF HistoryOf, Engaged
        <5>2. \A i \in EntriesOf(f)' : ledger'[i].from = Said(f, i - 1)'
          BY <2>2, <3>1, <4>2, <4>3 DEF HistoryOf
        <5>3. QED
          BY <1>2, <2>2, <4>1, <4>3, <5>1, <5>2 DEF HistoryOf, Engaged
      <4>4. CASE f = e.field
        <5>1. e.from = Said(f, Len(ledger)) /\ desk[f] = e.to
          BY <1>2, <1>3, <3>1, <4>4 DEF HistoryOf, Engaged
        <5>2. /\ ledger'[Len(ledger) + 1] = e /\ Len(ledger) \in Nat
          BY <1>3, <2>1, LedgerAppended
        <5>3. \A n \in 0 .. Len(ledger) : Said(f, n)' = Said(f, n)
          BY <1>3, <2>1, OthersSay
        <5>4. PICK n \in Nat : n = Len(ledger)
          BY <5>2
        <5>5. Said(f, n)' = Said(f, n) /\ (n + 1) - 1 = n
          BY <5>3, <5>4
        <5>6. ASSUME NEW i \in EntriesOf(f)' PROVE ledger'[i].from = Said(f, i - 1)'
          <6>1. CASE i \in EntriesOf(f)
            BY <3>1, <4>2, <6>1 DEF HistoryOf
          <6>2. CASE i = n + 1
            <7>1. i - 1 = n
              BY <6>2
            <7>2. QED
              BY <5>1, <5>2, <5>4, <5>5, <6>2, <7>1
          <6>3. QED
            BY <2>3, <4>4, <5>4, <6>1, <6>2
        <5>7. desk'[f] = Said(f, Len(ledger))'
          BY <1>2, <2>3, <4>4, <5>1
        <5>8. QED
          BY <4>1, <5>6, <5>7 DEF HistoryOf, Engaged
      <4>5. QED
        BY <4>3, <4>4
    <3>2. QED
      BY <1>2, <2>1, <3>1 DEF HistoryGoesOn
  <2>7. QED
    BY <1>7, <1>8, <1>9, <2>5, <2>6
<1>12. QED
  BY <1>10, <1>11

LEMMA DeskStep ==
  ASSUME DeskInv, [DeskNext]_deskVars
  PROVE  DeskInv'
<1>1. ASSUME NEW a \in Admins,
             \/ ChangeStatus(a) \/ MarkPaymentCollected(a) \/ SetCustomStatus(a) \/ AddNote(a) \/ PackOrder(a)
      PROVE  DeskInv'
  <2>1. PICK field \in Fields : EditOrder(a, field)
    BY <1>1 DEF ChangeStatus, MarkPaymentCollected, SetCustomStatus, AddNote, PackOrder, Fields
  <2>2. QED
    BY <2>1, EditOrderKeeps
<1>2. CASE UNCHANGED deskVars
  <2>1. UNCHANGED <<desk, taken, ledger, task, edits, lost, crossed, courier>>
    BY <1>2 DEF deskVars
  <2>2. /\ Exists' = Exists
        /\ \A f : /\ EntriesOf(f)' = EntriesOf(f) /\ Told(f)' = Told(f) /\ \A n : Said(f, n)' = Said(f, n)
                  /\ Said(f, Len(ledger))' = Said(f, Len(ledger)) /\ Owed(f)' = Owed(f)
    BY <2>1, LedgerStays DEF Exists, Owed, Engaged
  <2>3. \A a \in Actors : /\ Announcing(a)' = Announcing(a) /\ Resting(a)' = Resting(a)
                          /\ \A at : Engaged(a, at)' = Engaged(a, at)
    BY <2>1 DEF Announcing, Engaged, Resting
  <2>4. DeskTypes' /\ OneAtATime'
    BY <2>1 DEF DeskInv, DeskTypes, OneAtATime, Resting, Engaged
  <2>5. CreationInOrder'
    BY <2>1, <2>2 DEF DeskInv, CreationInOrder, InStep, Announcing, Engaged, Resting
  <2>6. WritesAreKnown'
    BY <2>1, <2>2, <2>3 DEF DeskInv, WritesAreKnown
  <2>7. HistoryGoesOn'
    BY <2>1, <2>2 DEF DeskInv, HistoryGoesOn, HistoryOf, Engaged
  <2>8. QED
    BY <2>4, <2>5, <2>6, <2>7 DEF DeskInv
<1>3. QED
  BY <1>1, <1>2, TakeOrderKeeps, TakeStockKeeps, InsertOrderKeeps, LogOrderKeeps, AnnounceKeeps,
     WriteFieldKeeps, AppendFieldKeeps, LeaveDeskKeeps, CourierReadsKeeps, CourierWritesKeeps
  DEF DeskNext

(* The inductive invariant of the desk.                                     *)
THEOREM DeskInvHolds == DeskSpec => []DeskInv
<1>1. DeskInit => DeskInv
  BY DeskInitially
<1>2. DeskInv /\ [DeskNext]_deskVars => DeskInv'
  BY DeskStep
<1>3. QED
  BY <1>1, <1>2, PTL DEF DeskSpec

(* With everybody at rest nothing is owed and nobody announces any more.    *)
THEOREM LedgerTellsHistoryHolds == DeskSpec => []LedgerTellsHistory
<1>1. DeskInv => LedgerTellsHistory
  <2>1. SUFFICES ASSUME DeskInv, ~lost, Exists, \A a \in Actors : Resting(a)
                 PROVE  LedgerTellsHistory
    BY DEF LedgerTellsHistory
  <2>2. \A a \in Actors : task[a].at = "rest"
    BY <2>1 DEF Resting, Engaged
  <2>3. \A f : Owed(f) = {}
    BY <2>2 DEF Owed, Engaged
  <2>4. \A a \in Actors : ~Announcing(a)
    BY <2>2 DEF Announcing, Engaged
  <2>5. /\ desk.status \in {Blank.status} \cup Told("status") \cup courier
        /\ \A f \in Fields \ {"status", "payment"} : desk[f] \in {Blank[f]} \cup Told(f)
        /\ desk.payment \in Told("created") \cup Told("payment")
        /\ (taken = 1) = ("completed" \in Told("created"))
    BY <2>1, <2>3, <2>4 DEF DeskInv, WritesAreKnown
  <2>6. ASSUME ~crossed, courier = {}, NEW f \in {"status", "custom_status"}
        PROVE  /\ \A i \in EntriesOf(f) : ledger[i].from = Said(f, i - 1)
               /\ desk[f] = Said(f, Len(ledger))
    BY <2>1, <2>2, <2>6 DEF DeskInv, HistoryGoesOn, HistoryOf, Engaged
  <2>7. QED
    BY <2>5, <2>6 DEF LedgerTellsHistory
<1>2. QED
  BY <1>1, DeskInvHolds, PTL

-----------------------------------------------------------------------------
(* Alerts: a customer is told twice only for a reason.                      *)

(* What a consumer holds was delivered, and nothing pending is yet to be.   *)
HeldIsDelivered ==
  /\ \A w \in Workers : Holding(w) \subseteq (1 .. sent) \ Undelivered
  /\ Pending \subseteq (1 .. sent) \ Undelivered

StepsInHandlers == \A w \in Workers : Stage(w, "handle") \/ Stage(w, "drop") \/ step[w] = 0

EventNotInRest ==
  \A w \in Workers : IF Stage(w, "down") \/ Stage(w, "loop") THEN worker[w].rest = {}
                     ELSE Event(w) \notin worker[w].rest

(* A handler or an acknowledgement failed before.                           *)
FailuresHaveCause ==
  \A w \in Workers : Stage(w, "failed") \/ Stage(w, "dead") \/ Stage(w, "drop") => Event(w) \in again

IsTold(n) == \E what \in Customers : told[n][what] > 0
Past(w) == {Chain[kind[Event(w)]][i] : i \in 1 .. step[w]}

(* An event without a reason to be handled twice has one consumer, which    *)
(* tells each channel once, in its turn, and keeps the event until it is    *)
(* acknowledged.                                                            *)
OneHandling ==
  \A n \in Events \ again :
    /\ \A what \in Customers : told[n][what] <= 1
    /\ \A v, w \in Workers : n \in Holding(v) /\ n \in Holding(w) => v = w
    /\ IsTold(n) => /\ n <= sent /\ n \notin Undelivered
                    /\ n \in Pending => \E w \in Workers : n \in Holding(w)
    /\ \A w \in Workers :
         /\ n \in worker[w].rest => ~IsTold(n)
         /\ Stage(w, "handle") /\ Event(w) = n =>
              \A what \in Customers : told[n][what] > 0 => what \in Past(w)

AlertInv ==
  /\ AlertTypeOK /\ HeldIsDelivered /\ StepsInHandlers /\ EventNotInRest /\ FailuresHaveCause
  /\ OneHandling

AlertsInv == StreamInv /\ AlertInv

LEMMA ChainFacts ==
  ASSUME NEW k \in Kinds
  PROVE  /\ Len(Chain[k]) \in 0 .. 3
         /\ \A i, j \in 1 .. Len(Chain[k]) : Chain[k][i] = Chain[k][j] => i = j
<1> USE DEF OrderCreated, ShipmentUpdate, SettingsChanged, PriceChanged, ContactSubmitted,
            NewsletterSubscribed, SystemError, Fallback
<1>1. k \in {"order", "price", "contact", "newsletter", "shipment", "settings", "system", "other"}
  BY DEF Kinds, Chain
<1>2. CASE k \in {"order", "shipment"}
  <2>1. Chain[k] = <<"sms", "mail", "telegram">>
    BY <1>2 DEF Chain
  <2>2. QED
    BY <2>1
<1>3. CASE k \in {"price", "contact", "newsletter", "settings", "system"}
  <2>1. Chain[k] = <<"telegram">>
    BY <1>3 DEF Chain
  <2>2. QED
    BY <2>1
<1>4. CASE k = "other"
  <2>1. Chain[k] = <<>>
    BY <1>4 DEF Chain
  <2>2. QED
    BY <2>1
<1>5. QED
  BY <1>1, <1>2, <1>3, <1>4

(* A step of the alerts is one of the stream's, or leaves the stream alone. *)
LEMMA AlertStepIsStreamStep ==
  ASSUME AlertNext
  PROVE  [StreamNext]_streamVars
<1>1. ASSUME NEW k \in Published, PublishAlert(k) PROVE StreamNext
  BY <1>1 DEF PublishAlert, StreamNext
<1>2. ASSUME NEW w \in Workers,
             LifecycleSms(w) \/ OrderMail(w) \/ SendToChannel(w) \/ Handled(w) \/ LogGivenUp(w)
      PROVE  [StreamNext]_streamVars
  BY <1>2 DEF LifecycleSms, OrderMail, Tell, SendToChannel, ChannelFails, Handled, LogGivenUp,
              StreamNext
<1>3. ASSUME NEW w \in Workers,
             \/ AlertStart(w) \/ AlertRead(w) \/ AlertClaim(w) \/ AlertAck(w) \/ AlertFailed(w)
             \/ AlertDead(w) \/ AlertDrop(w) \/ AlertStop(w)
      PROVE  StreamNext
  BY <1>3 DEF AlertStart, AlertRead, AlertClaim, AlertAck, AlertFailed, AlertDead, AlertDrop,
              AlertStop, StreamNext
<1>4. AlertWipe => StreamNext
  BY DEF AlertWipe, StreamNext
<1>5. QED
  BY <1>1, <1>2, <1>3, <1>4 DEF AlertNext

(* The alerts use the stream as the order events do: whatever holds of the  *)
(* stream holds of theirs, so no alert is lost on its way either.           *)
THEOREM AlertsUseTheStream == AlertSpec => StreamSpec
<1>1. AlertInit => StreamInit
  BY DEF AlertInit
<1>2. [AlertNext]_alertingVars => [StreamNext]_streamVars
  BY AlertStepIsStreamStep DEF alertingVars
<1>3. QED
  BY <1>1, <1>2, PTL DEF AlertSpec, StreamSpec

LEMMA AlertInitInv == AlertInit => AlertsInv
<1> SUFFICES ASSUME AlertInit PROVE AlertsInv
  OBVIOUS
<1>1. StreamInv
  BY InitInv DEF AlertInit
<1>2. /\ \A w \in Workers : worker[w] = Down /\ Stage(w, "down") /\ ~Stage(w, "handle")
                            /\ ~Stage(w, "failed") /\ ~Stage(w, "dead") /\ ~Stage(w, "drop")
      /\ Pending = {} /\ again = {}
  BY DEF AlertInit, StreamInit, Down, Stage, Pending
<1>3. \A n \in Events, what \in Customers : told[n][what] = 0
  BY DEF AlertInit
<1>4. AlertTypeOK
  <2>1. "other" \in Kinds
    BY DEF Kinds, Chain
  <2>2. QED
    BY <1>1, <2>1 DEF AlertInit, AlertTypeOK, StreamInv
<1>5. /\ HeldIsDelivered /\ StepsInHandlers /\ EventNotInRest /\ FailuresHaveCause
  BY <1>2 DEF HeldIsDelivered, StepsInHandlers, EventNotInRest, FailuresHaveCause, Holding,
              AlertInit, Down
<1>6. OneHandling
  BY <1>2, <1>3 DEF OneHandling, IsTold, Holding, Down
<1>7. QED
  BY <1>1, <1>4, <1>5, <1>6 DEF AlertsInv, AlertInv

Busy(w) == ~Stage(w, "down") /\ ~Stage(w, "loop")

LEMMA HoldingStays ==
  ASSUME NEW w \in Workers, worker'[w] = worker[w]
  PROVE  /\ Holding(w)' = Holding(w) /\ Event(w)' = Event(w)
         /\ \A pc : Stage(w, pc)' <=> Stage(w, pc)
  BY DEF Holding, Event, Stage

LEMMA TakesHand ==
  ASSUME AlertsInv, NEW w \in Workers, NEW hand \in SUBSET Events, Batch(w, hand)
  PROVE  /\ \A v \in Workers \ {w} : worker'[v] = worker[v]
         /\ Holding(w)' = hand /\ worker'[w].rest \subseteq hand
         /\ Stage(w, "loop")' \/ Stage(w, "handle")'
         /\ IF Stage(w, "loop")' THEN worker'[w].rest = {} ELSE Event(w)' \notin worker'[w].rest
<1>1. CASE hand = {} /\ worker' = [worker EXCEPT ![w] = Looping]
  BY <1>1 DEF AlertsInv, StreamInv, StreamTypeOK, Looping, Down, Stage, Holding
<1>2. CASE \E n \in Oldest(hand) :
             worker' = [worker EXCEPT ![w] = [pc |-> "handle", event |-> n, rest |-> hand \ {n}]]
  BY <1>2 DEF AlertsInv, StreamInv, StreamTypeOK, Stage, Holding, Event, Oldest
<1>3. QED
  BY <1>1, <1>2 DEF Batch

(* A consumer takes a batch, or the rest of one: whatever it may not handle *)
(* twice nobody else has and nobody was told of.                            *)
LEMMA TakingKeeps ==
  ASSUME AlertsInv, StreamInv', NEW w \in Workers, NEW hand \in SUBSET Events, Batch(w, hand),
         UNCHANGED <<kind, channels, told, sent>>, again \subseteq again', again' \subseteq Events,
         step' \in [Workers -> 0 .. 3], step'[w] = 0, \A v \in Workers \ {w} : step'[v] = step[v],
         Undelivered' \subseteq Undelivered, hand \cup Pending' \subseteq (1 .. sent) \ Undelivered',
         \A n \in Events \ again' : IsTold(n) /\ n \in Pending' => n \in Pending /\ n \notin Holding(w),
         \A n \in hand \ again' : ~IsTold(n) /\ \A v \in Workers \ {w} : n \notin Holding(v)
  PROVE  AlertsInv'
<1>1. /\ \A v \in Workers \ {w} : worker'[v] = worker[v]
      /\ Holding(w)' = hand /\ worker'[w].rest \subseteq hand
      /\ Stage(w, "loop")' \/ Stage(w, "handle")'
      /\ IF Stage(w, "loop")' THEN worker'[w].rest = {} ELSE Event(w)' \notin worker'[w].rest
  BY TakesHand
<1>2. \A v \in Workers \ {w} : /\ Holding(v)' = Holding(v) /\ Event(v)' = Event(v)
                               /\ \A pc : Stage(v, pc)' <=> Stage(v, pc)
  BY <1>1, HoldingStays
<1>3. AlertTypeOK'
  BY DEF AlertsInv, AlertInv, AlertTypeOK, StreamInv
<1>4. HeldIsDelivered'
  BY <1>1, <1>2 DEF AlertsInv, AlertInv, HeldIsDelivered
<1>5. StepsInHandlers' /\ FailuresHaveCause'
  BY <1>1, <1>2 DEF AlertsInv, AlertInv, StepsInHandlers, FailuresHaveCause, Stage
<1>6. EventNotInRest'
  BY <1>1, <1>2 DEF AlertsInv, AlertInv, EventNotInRest, Stage
<1>7. ASSUME NEW n \in Events \ again'
      PROVE  /\ \A what \in Customers : told'[n][what] <= 1
             /\ \A u, v \in Workers : n \in Holding(u)' /\ n \in Holding(v)' => u = v
             /\ IsTold(n)' => /\ n <= sent' /\ n \notin Undelivered'
                              /\ n \in Pending' => \E v \in Workers : n \in Holding(v)'
  <2>1. n \in Events \ again /\ told' = told /\ sent' = sent /\ (IsTold(n)' <=> IsTold(n))
    BY DEF IsTold
  <2>2. \A what \in Customers : told'[n][what] <= 1
    BY <2>1 DEF AlertsInv, AlertInv, OneHandling
  <2>3. \A u, v \in Workers : n \in Holding(u)' /\ n \in Holding(v)' => u = v
    BY <1>1, <1>2, <2>1 DEF AlertsInv, AlertInv, OneHandling
  <2>4. ASSUME IsTold(n)
        PROVE  /\ n <= sent' /\ n \notin Undelivered'
               /\ n \in Pending' => \E v \in Workers : n \in Holding(v)'
    <3>1. n <= sent' /\ n \notin Undelivered'
      BY <2>1, <2>4 DEF AlertsInv, AlertInv, OneHandling
    <3>2. ASSUME n \in Pending' PROVE \E v \in Workers : n \in Holding(v)'
      <4>1. n \in Pending /\ n \notin Holding(w)
        BY <2>4, <3>2
      <4>2. PICK v \in Workers : n \in Holding(v)
        BY <2>1, <2>4, <4>1 DEF AlertsInv, AlertInv, OneHandling
      <4>3. QED
        BY <1>2, <4>1, <4>2
    <3>3. QED
      BY <3>1, <3>2
  <2>5. QED
    BY <2>1, <2>2, <2>3, <2>4
<1>8. ASSUME NEW n \in Events \ again', NEW v \in Workers
      PROVE  /\ n \in worker'[v].rest => ~IsTold(n)'
             /\ Stage(v, "handle")' /\ Event(v)' = n =>
                  \A what \in Customers : told'[n][what] > 0 => what \in Past(v)'
  <2>1. n \in Events \ again /\ told' = told /\ (IsTold(n)' <=> IsTold(n))
    BY DEF IsTold
  <2>2. CASE v = w
    <3>1. n \in worker'[w].rest => ~IsTold(n)'
      BY <1>1, <2>1
    <3>2. Stage(w, "handle")' /\ Event(w)' = n => n \in Holding(w)'
      BY DEF Holding, Stage
    <3>3. Stage(w, "handle")' /\ Event(w)' = n => ~IsTold(n)
      BY <1>1, <3>2
    <3>4. QED
      BY <2>1, <2>2, <3>1, <3>3 DEF IsTold
  <2>3. CASE v # w
    <3>1. worker'[v] = worker[v] /\ step'[v] = step[v] /\ Event(v)' = Event(v)
          /\ (Stage(v, "handle")' <=> Stage(v, "handle"))
      BY <1>1, <1>2, <2>3
    <3>2. Past(v)' = Past(v)
      BY <3>1 DEF Past
    <3>3. QED
      BY <2>1, <3>1, <3>2 DEF AlertsInv, AlertInv, OneHandling
  <2>4. QED
    BY <2>2, <2>3
<1>9. OneHandling'
  BY <1>7, <1>8 DEF OneHandling
<1>10. QED
  BY <1>3, <1>4, <1>5, <1>6, <1>9 DEF AlertsInv, AlertInv

(* No consumer moves, and nothing gets pending that anybody was told of.    *)
LEMMA StayingKeeps ==
  ASSUME AlertsInv, StreamInv', UNCHANGED <<worker, step, kind, channels, told, sent>>,
         again \subseteq again', again' \subseteq Events,
         Undelivered' \subseteq Undelivered, Pending' \subseteq (1 .. sent) \ Undelivered',
         \A n \in Events \ again' : IsTold(n) /\ n \in Pending' => n \in Pending
  PROVE  AlertsInv'
<1>1. \A v \in Workers : /\ Holding(v)' = Holding(v) /\ Event(v)' = Event(v) /\ Past(v)' = Past(v)
                         /\ \A pc : Stage(v, pc)' <=> Stage(v, pc)
  BY HoldingStays DEF Past, Event
<1>2. AlertTypeOK'
  BY DEF AlertsInv, AlertInv, AlertTypeOK, StreamInv
<1>3. HeldIsDelivered' /\ StepsInHandlers' /\ FailuresHaveCause' /\ EventNotInRest'
  BY <1>1 DEF AlertsInv, AlertInv, HeldIsDelivered, StepsInHandlers, FailuresHaveCause,
              EventNotInRest
<1>4. \A n \in Events : IsTold(n)' <=> IsTold(n)
  BY DEF IsTold
<1>5. OneHandling'
  BY <1>1, <1>4 DEF AlertsInv, AlertInv, OneHandling
<1>6. QED
  BY <1>2, <1>3, <1>5 DEF AlertsInv, AlertInv

(* A consumer is done with the handler, and still has its event.            *)
LEMMA MovingKeeps ==
  ASSUME AlertsInv, StreamInv', NEW w \in Workers, Busy(w),
         NEW pc \in {"ack", "failed", "dead", "drop"}, MoveTo(w, pc),
         pc \in {"failed", "dead", "drop"} => Event(w) \in again',
         UNCHANGED <<kind, channels, told, sent>>, again \subseteq again', again' \subseteq Events,
         step' \in [Workers -> 0 .. 3], step'[w] = 0, \A v \in Workers \ {w} : step'[v] = step[v],
         Undelivered' = Undelivered, Pending' \subseteq Pending
  PROVE  AlertsInv'
<1>1. /\ \A v \in Workers \ {w} : worker'[v] = worker[v]
      /\ worker'[w].pc = pc /\ Event(w)' = Event(w) /\ worker'[w].rest = worker[w].rest
  BY DEF AlertsInv, StreamInv, StreamTypeOK, Work, MoveTo, Event
<1>2. \A v \in Workers : /\ Holding(v)' = Holding(v) /\ Event(v)' = Event(v)
                         /\ worker'[v].rest = worker[v].rest
  BY <1>1 DEF Holding, Busy, Stage, Event
<1>3. \A v \in Workers \ {w} : /\ Past(v)' = Past(v)
                               /\ \A q : Stage(v, q)' <=> Stage(v, q)
  BY <1>1 DEF Past, Event, Stage
<1>4. AlertTypeOK'
  BY DEF AlertsInv, AlertInv, AlertTypeOK, StreamInv
<1>5. HeldIsDelivered'
  BY <1>2 DEF AlertsInv, AlertInv, HeldIsDelivered
<1>6. StepsInHandlers' /\ FailuresHaveCause'
  BY <1>1, <1>2, <1>3 DEF AlertsInv, AlertInv, StepsInHandlers, FailuresHaveCause, Stage
<1>7. EventNotInRest'
  BY <1>1, <1>2, <1>3 DEF AlertsInv, AlertInv, EventNotInRest, Stage, Busy
<1>8. \A n \in Events : IsTold(n)' <=> IsTold(n)
  BY DEF IsTold
<1>9. OneHandling'
  BY <1>1, <1>2, <1>3, <1>8 DEF AlertsInv, AlertInv, OneHandling, Stage
<1>10. QED
  BY <1>4, <1>5, <1>6, <1>7, <1>9 DEF AlertsInv, AlertInv

(* A consumer dies, with whatever it had, or starts with nothing.           *)
LEMMA RestartKeeps ==
  ASSUME AlertsInv, StreamInv', NEW w \in Workers, NEW idle \in {Down, Looping},
         worker' = [worker EXCEPT ![w] = idle], again' = again \cup Holding(w),
         UNCHANGED <<kind, channels, told, sent>>,
         step' = [step EXCEPT ![w] = 0], Undelivered' = Undelivered, Pending' = Pending
  PROVE  AlertsInv'
<1>1. /\ \A v \in Workers \ {w} : worker'[v] = worker[v]
      /\ worker'[w] = idle /\ idle.pc \in {"down", "loop"} /\ idle.rest = {}
  BY DEF AlertsInv, StreamInv, StreamTypeOK, Down, Looping
<1>2. \A v \in Workers \ {w} : /\ Holding(v)' = Holding(v) /\ Event(v)' = Event(v)
                               /\ Past(v)' = Past(v) /\ \A pc : Stage(v, pc)' <=> Stage(v, pc)
  <2>1. \A v \in Workers \ {w} : step'[v] = step[v]
    BY DEF AlertsInv, AlertInv, AlertTypeOK
  <2>2. QED
    BY <1>1, <2>1, HoldingStays DEF Past, Event
<1>3. /\ Holding(w)' = {} /\ ~Stage(w, "handle")' /\ ~Stage(w, "failed")' /\ ~Stage(w, "dead")'
      /\ ~Stage(w, "drop")' /\ (Stage(w, "down")' \/ Stage(w, "loop")')
  BY <1>1 DEF Holding, Stage
<1>4. AlertTypeOK' /\ step'[w] = 0 /\ \A v \in Workers \ {w} : step'[v] = step[v]
  <2>1. again' \subseteq Events
    <3>1. 1 .. sent \subseteq Events
      BY Numbers DEF AlertsInv, StreamInv
    <3>2. QED
      BY <3>1 DEF AlertsInv, AlertInv, AlertTypeOK, HeldIsDelivered
  <2>2. QED
    BY <2>1 DEF AlertsInv, AlertInv, AlertTypeOK, StreamInv
<1>5. HeldIsDelivered'
  BY <1>2, <1>3 DEF AlertsInv, AlertInv, HeldIsDelivered
<1>6. StepsInHandlers' /\ FailuresHaveCause'
  BY <1>2, <1>3, <1>4 DEF AlertsInv, AlertInv, StepsInHandlers, FailuresHaveCause
<1>7. EventNotInRest'
  BY <1>1, <1>2, <1>3 DEF AlertsInv, AlertInv, EventNotInRest
<1>8. \A n \in Events : IsTold(n)' <=> IsTold(n)
  BY DEF IsTold
<1>9. ASSUME NEW n \in Events \ again'
      PROVE  /\ \A what \in Customers : told'[n][what] <= 1
             /\ \A u, v \in Workers : n \in Holding(u)' /\ n \in Holding(v)' => u = v
             /\ IsTold(n)' => /\ n <= sent' /\ n \notin Undelivered'
                              /\ n \in Pending' => \E v \in Workers : n \in Holding(v)'
  BY <1>2, <1>3, <1>8 DEF AlertsInv, AlertInv, OneHandling
<1>10. ASSUME NEW n \in Events \ again', NEW v \in Workers
       PROVE  /\ n \in worker'[v].rest => ~IsTold(n)'
              /\ Stage(v, "handle")' /\ Event(v)' = n =>
                   \A what \in Customers : told'[n][what] > 0 => what \in Past(v)'
  BY <1>1, <1>2, <1>3, <1>8 DEF AlertsInv, AlertInv, OneHandling
<1>11. OneHandling'
  BY <1>9, <1>10 DEF OneHandling
<1>12. QED
  BY <1>4, <1>5, <1>6, <1>7, <1>11 DEF AlertsInv, AlertInv

(* A handler goes on to its next channel, or logs an entry it gave up.      *)
LEMMA TellingKeeps ==
  ASSUME AlertsInv, NEW w \in Workers, NEW what \in {"sms", "mail", "telegram"},
         Doing(w, what), Advance(w), UNCHANGED <<streamVars, kind, channels, again>>,
         \/ told' = told
         \/ /\ what \in Customers
            /\ told' = [told EXCEPT ![Event(w)][what] = IF @ = 0 THEN 1 ELSE 2]
  PROVE  AlertsInv'
<1> DEFINE n == Event(w)
<1>1. /\ worker' = worker /\ sent' = sent /\ StreamInv' /\ Undelivered' = Undelivered
      /\ Pending' = Pending
  BY DEF streamVars, Undelivered, Pending, AlertsInv, StreamInv, StreamTypeOK, EventsAccountedFor,
         PendingIsHeld, AckedLast, Stage, Event
<1>2. /\ Stage(w, "handle") /\ n \in Events /\ n \in Holding(w) /\ step[w] \in 0 .. 3
      /\ step[w] < Len(Chain[kind[n]]) /\ Chain[kind[n]][step[w] + 1] = what /\ kind[n] \in Kinds
  <2>1. Stage(w, "handle") /\ n \in Events
    BY DEF Doing, AlertsInv, StreamInv, StreamTypeOK, Stage
  <2>2. QED
    BY <2>1 DEF Doing, AlertsInv, AlertInv, AlertTypeOK, Holding, Stage
<1>3. step[w] + 1 \in 1 .. Len(Chain[kind[n]]) /\ step[w] + 1 \in 0 .. 3 /\ step[w] \in Nat
  BY <1>2, ChainFacts
<1>4. /\ step' \in [Workers -> 0 .. 3] /\ step'[w] = step[w] + 1
      /\ \A v \in Workers \ {w} : step'[v] = step[v]
  BY <1>3 DEF Advance, AlertsInv, AlertInv, AlertTypeOK
<1>5. \A v \in Workers : /\ Holding(v)' = Holding(v) /\ Event(v)' = Event(v)
                         /\ \A pc : Stage(v, pc)' <=> Stage(v, pc)
  BY <1>1, HoldingStays
<1>6. /\ told' \in [Events -> [Customers -> 0 .. 2]]
      /\ \A m \in Events, c \in Customers : told'[m][c] # told[m][c] =>
           /\ m = n /\ c = what /\ told[n][what] = 0 => told'[n][what] = 1
           /\ m = n /\ c = what
  <2>1. CASE told' = told
    BY <2>1 DEF AlertsInv, AlertInv, AlertTypeOK
  <2>2. CASE what \in Customers /\ told' = [told EXCEPT ![Event(w)][what] = IF @ = 0 THEN 1 ELSE 2]
    BY <1>2, <2>2 DEF AlertsInv, AlertInv, AlertTypeOK
  <2>3. QED
    BY <2>1, <2>2
<1>7. Past(w)' = Past(w) \cup {what}
  <2>1. 1 .. step'[w] = (1 .. step[w]) \cup {step[w] + 1}
    BY <1>3, <1>4
  <2>2. QED
    BY <1>1, <1>2, <1>5, <2>1 DEF Past, Event
<1>8. \A v \in Workers \ {w} : Past(v)' = Past(v)
  BY <1>1, <1>4, <1>5 DEF Past, Event
<1>9. what \notin Past(w)
  <2>1. ASSUME NEW i \in 1 .. step[w], Chain[kind[n]][i] = what PROVE FALSE
    <3>1. i \in 1 .. Len(Chain[kind[n]]) /\ i # step[w] + 1
      BY <1>2, <1>3, ChainFacts
    <3>2. QED
      BY <1>2, <1>3, <2>1, <3>1, ChainFacts
  <2>2. QED
    BY <2>1 DEF Past
<1> HIDE DEF n
<1>10. AlertTypeOK'
  BY <1>1, <1>4, <1>6 DEF AlertsInv, AlertInv, AlertTypeOK, StreamInv
<1>11. HeldIsDelivered' /\ StepsInHandlers' /\ FailuresHaveCause' /\ EventNotInRest'
  BY <1>1, <1>2, <1>4, <1>5 DEF AlertsInv, AlertInv, HeldIsDelivered, StepsInHandlers,
     FailuresHaveCause, EventNotInRest
<1>12. \A m \in Events \ {n} : IsTold(m)' <=> IsTold(m)
  BY <1>6 DEF IsTold
<1>13. n \notin again => \A c \in Customers : told[n][c] > 0 => c \in Past(w)
  BY <1>2 DEF n, AlertsInv, AlertInv, OneHandling
<1>14. ASSUME NEW m \in Events \ again, NEW c \in Customers PROVE told'[m][c] <= 1
  <2>1. told[m][c] <= 1 /\ told[m][c] \in 0 .. 2
    BY DEF AlertsInv, AlertInv, OneHandling, AlertTypeOK
  <2>2. CASE told'[m][c] # told[m][c]
    <3>1. m = n /\ c = what /\ ~(told[n][what] > 0)
      BY <1>6, <1>9, <1>13, <2>2
    <3>2. QED
      BY <1>6, <2>1, <2>2, <3>1
  <2>3. QED
    BY <2>1, <2>2
<1>15. ASSUME NEW m \in Events \ again'
       PROVE  /\ \A u, v \in Workers : m \in Holding(u)' /\ m \in Holding(v)' => u = v
              /\ IsTold(m)' => /\ m <= sent' /\ m \notin Undelivered'
                               /\ m \in Pending' => \E v \in Workers : m \in Holding(v)'
  <2>1. CASE m = n
    <3>1. m <= sent' /\ m \notin Undelivered'
      BY <1>1, <1>2, <2>1 DEF AlertsInv, AlertInv, HeldIsDelivered
    <3>2. QED
      BY <1>1, <1>2, <1>5, <2>1, <3>1 DEF AlertsInv, AlertInv, OneHandling
  <2>2. CASE m # n
    BY <1>1, <1>5, <1>12, <2>2 DEF AlertsInv, AlertInv, OneHandling
  <2>3. QED
    BY <2>1, <2>2
<1>16. ASSUME NEW m \in Events \ again', NEW v \in Workers
       PROVE  /\ m \in worker'[v].rest => ~IsTold(m)'
              /\ Stage(v, "handle")' /\ Event(v)' = m =>
                   \A c \in Customers : told'[m][c] > 0 => c \in Past(v)'
  <2>1. m \in Events \ again
    OBVIOUS
  <2>2. CASE m = n
    <3>1. ASSUME n \in worker[v].rest PROVE FALSE
      <4>1. n \in Holding(v)
        BY <3>1 DEF Holding, AlertsInv, AlertInv, EventNotInRest
      <4>2. v = w
        BY <1>2, <2>1, <2>2, <4>1 DEF AlertsInv, AlertInv, OneHandling
      <4>3. QED
        BY <1>2, <3>1, <4>2 DEF n, AlertsInv, AlertInv, EventNotInRest, Stage
    <3>2. ASSUME Stage(v, "handle"), Event(v) = n PROVE v = w
      <4>1. n \in Holding(v)
        BY <3>2 DEF Holding, Stage
      <4>2. QED
        BY <1>2, <2>1, <2>2, <4>1 DEF AlertsInv, AlertInv, OneHandling
    <3>3. \A c \in Customers : told'[n][c] > 0 => c \in Past(w)'
      BY <1>6, <1>7, <1>13, <2>1, <2>2
    <3>4. QED
      BY <1>1, <1>5, <2>2, <3>1, <3>2, <3>3
  <2>3. CASE m # n
    <3>1. Past(v) \subseteq Past(v)'
      BY <1>7, <1>8
    <3>2. QED
      BY <1>1, <1>5, <1>6, <1>12, <2>1, <2>3, <3>1 DEF AlertsInv, AlertInv, OneHandling
  <2>4. QED
    BY <2>2, <2>3
<1>17. OneHandling'
  BY <1>14, <1>15, <1>16 DEF OneHandling
<1>18. QED
  BY <1>1, <1>10, <1>11, <1>17 DEF AlertsInv, AlertInv

(* A new event has nobody and was told to nobody.                           *)
LEMMA PublishingKeeps ==
  ASSUME AlertsInv, Publish, NEW k \in Kinds, kind' = [kind EXCEPT ![sent'] = k],
         UNCHANGED <<channels, told, again>>, step' \in [Workers -> 0 .. 3],
         \A v \in Workers : ~Stage(v, "drop") => step'[v] = step[v]
  PROVE  AlertsInv'
<1>1. StreamInv' /\ worker' = worker /\ deliveries' = deliveries
  BY PublishKeeps DEF AlertsInv, Publish
<1>2. sent \in Nat /\ sent' = sent + 1 /\ sent' \in Events
  BY Numbers, StreamAssumption DEF AlertsInv, StreamInv, Publish, Events
<1>3. Undelivered' \subseteq Undelivered \cup {sent'} /\ Pending' = Pending
  BY DEF Publish, Undelivered, Pending
<1>4. \A v \in Workers : /\ Holding(v)' = Holding(v) /\ Event(v)' = Event(v)
                         /\ \A pc : Stage(v, pc)' <=> Stage(v, pc)
  BY <1>1, HoldingStays
<1>5. \A n \in 1 .. sent : n \in 1 .. sent' /\ n # sent'
  BY <1>2
<1>6. AlertTypeOK'
  BY <1>1, <1>2 DEF AlertsInv, AlertInv, AlertTypeOK, StreamInv
<1>7. HeldIsDelivered'
  BY <1>3, <1>4, <1>5 DEF AlertsInv, AlertInv, HeldIsDelivered
<1>8. StepsInHandlers' /\ FailuresHaveCause' /\ EventNotInRest'
  BY <1>1, <1>4 DEF AlertsInv, AlertInv, StepsInHandlers, FailuresHaveCause, EventNotInRest
<1>9. \A n \in Events : IsTold(n)' <=> IsTold(n)
  BY DEF IsTold
<1>10. ASSUME NEW v \in Workers, Stage(v, "handle") PROVE Past(v)' = Past(v)
  <2>1. Event(v) \in Holding(v)
    BY <1>10 DEF Holding, Stage
  <2>2. Event(v) \in 1 .. sent
    BY <2>1 DEF AlertsInv, AlertInv, HeldIsDelivered
  <2>3. Event(v) # sent' /\ Event(v) \in Events
    BY <1>5, <2>2, Numbers DEF AlertsInv, StreamInv
  <2>4. kind'[Event(v)] = kind[Event(v)]
    BY <2>3 DEF AlertsInv, AlertInv, AlertTypeOK
  <2>5. step'[v] = step[v]
    BY <1>10 DEF Stage
  <2>6. QED
    BY <1>4, <2>4, <2>5 DEF Past, Event
<1>11. ASSUME NEW n \in Events \ again'
       PROVE  /\ \A what \in Customers : told'[n][what] <= 1
              /\ \A u, v \in Workers : n \in Holding(u)' /\ n \in Holding(v)' => u = v
              /\ IsTold(n)' => /\ n <= sent' /\ n \notin Undelivered'
                               /\ n \in Pending' => \E v \in Workers : n \in Holding(v)'
  <2>1. /\ \A what \in Customers : told[n][what] <= 1
        /\ \A u, v \in Workers : n \in Holding(u) /\ n \in Holding(v) => u = v
        /\ IsTold(n) => /\ n <= sent /\ n \notin Undelivered
                        /\ n \in Pending => \E v \in Workers : n \in Holding(v)
    BY DEF AlertsInv, AlertInv, OneHandling
  <2>2. IsTold(n) => n <= sent' /\ n \notin Undelivered'
    BY <1>2, <1>3, <2>1 DEF Events
  <2>3. QED
    BY <1>3, <1>4, <1>9, <2>1, <2>2
<1>12. ASSUME NEW n \in Events \ again', NEW v \in Workers
       PROVE  /\ n \in worker'[v].rest => ~IsTold(n)'
              /\ Stage(v, "handle")' /\ Event(v)' = n =>
                   \A what \in Customers : told'[n][what] > 0 => what \in Past(v)'
  BY <1>1, <1>4, <1>9, <1>10 DEF AlertsInv, AlertInv, OneHandling
<1>13. OneHandling'
  BY <1>11, <1>12 DEF OneHandling
<1>14. QED
  BY <1>1, <1>6, <1>7, <1>8, <1>13 DEF AlertsInv, AlertInv

LEMMA ReadingKeeps ==
  ASSUME AlertsInv, NEW w \in Workers, AlertRead(w)
  PROVE  AlertsInv'
<1>1. Read(w) /\ UNCHANGED <<step, again, kind, channels, told>>
  BY DEF AlertRead, Quiet
<1>2. StreamInv'
  BY <1>1, ReadKeeps DEF AlertsInv
<1>3. PICK last \in Undelivered :
        /\ cursor' = last
        /\ deliveries' = [n \in Events |-> IF n \in {m \in Undelivered : m <= last} THEN 1
                                           ELSE deliveries[n]]
        /\ Received(w, {n \in Undelivered : n <= last})
  BY <1>1 DEF Read
<1> DEFINE hand == {n \in Undelivered : n <= last}
<1>4. /\ Stage(w, "loop") /\ group /\ UNCHANGED <<sent, stream, group>>
      /\ hand \subseteq Undelivered /\ hand \subseteq Events /\ Undelivered \subseteq stream
      /\ stream \subseteq 1 .. sent /\ sent \in Nat /\ cursor \in Nat
  <2>1. /\ Stage(w, "loop") /\ group /\ UNCHANGED <<sent, stream, group>>
    BY <1>1 DEF Read
  <2>2. /\ stream \subseteq 1 .. sent /\ sent \in Nat /\ cursor \in Nat
        /\ Undelivered \subseteq stream /\ stream \subseteq Events
    BY Numbers DEF AlertsInv, StreamInv, StreamTypeOK
  <2>3. QED
    BY <2>1, <2>2
<1>5. Undelivered' = {n \in stream : n > last} /\ Undelivered = {n \in stream : n > cursor}
  BY <1>3, <1>4 DEF Undelivered
<1>6. Undelivered' \subseteq Undelivered /\ hand \cap Undelivered' = {}
  <2>1. last > cursor /\ last \in Nat /\ \A n \in stream : n \in Nat
    BY <1>4, <1>5
  <2>2. \A n \in Undelivered' : n \in Undelivered
    BY <1>4, <1>5, <2>1
  <2>3. \A n \in hand : n \notin Undelivered'
    BY <1>4, <1>5, <2>1
  <2>4. QED
    BY <2>2, <2>3
<1>7. Pending' = Pending \cup hand
  BY <1>3, <1>4 DEF Pending
<1>8. /\ Pending' \subseteq (1 .. sent) \ Undelivered' /\ hand \subseteq (1 .. sent) \ Undelivered'
  BY <1>4, <1>6, <1>7 DEF AlertsInv, AlertInv, HeldIsDelivered
<1>9. \A n \in hand \ again : ~IsTold(n) /\ \A v \in Workers \ {w} : n \notin Holding(v)
  BY <1>4 DEF AlertsInv, AlertInv, HeldIsDelivered, OneHandling
<1>10. step[w] = 0 /\ Holding(w) = {} /\ step \in [Workers -> 0 .. 3] /\ again \subseteq Events
  BY <1>4 DEF AlertsInv, AlertInv, StepsInHandlers, Stage, Holding, AlertTypeOK
<1>11. Received(w, hand)
  BY <1>3
<1> HIDE DEF hand
<1>12. CASE Batch(w, hand)
  BY <1>1, <1>2, <1>4, <1>6, <1>7, <1>8, <1>9, <1>10, <1>12, TakingKeeps
<1>13. CASE UNCHANGED worker
  BY <1>1, <1>2, <1>4, <1>6, <1>7, <1>8, <1>9, <1>10, <1>13, StayingKeeps
<1>14. QED
  BY <1>11, <1>12, <1>13 DEF Received

LEMMA ClaimingKeeps ==
  ASSUME AlertsInv, NEW w \in Workers, AlertClaim(w)
  PROVE  AlertsInv'
<1>1. /\ Claim(w) /\ UNCHANGED <<step, kind, channels, told>>
      /\ again' = again \cup {n \in Holding(w)' : \E v \in Workers \ {w} : n \in Holding(v)}
  BY DEF AlertClaim, Quiet
<1>2. StreamInv'
  BY <1>1, ClaimKeeps DEF AlertsInv
<1>3. PICK stale \in SUBSET Pending :
        /\ deliveries' = [n \in Events |-> IF n \notin stale THEN deliveries[n]
                                           ELSE IF n \in stream THEN deliveries[n] + 1 ELSE 0]
        /\ Received(w, stale \cap stream)
  BY <1>1 DEF Claim
<1> DEFINE hand == stale \cap stream
<1>4. /\ Stage(w, "loop") /\ UNCHANGED <<sent, stream, group, cursor>>
      /\ hand \subseteq Pending /\ Pending \subseteq Events
  BY <1>1, Numbers DEF Claim, AlertsInv, StreamInv
<1>5. Undelivered' = Undelivered
  BY <1>4 DEF Undelivered
<1>6. Pending' \subseteq Pending
  BY <1>3 DEF Pending
<1>7. Pending' \subseteq (1 .. sent) \ Undelivered' /\ hand \subseteq (1 .. sent) \ Undelivered'
  BY <1>4, <1>5, <1>6 DEF AlertsInv, AlertInv, HeldIsDelivered
<1>8. /\ step[w] = 0 /\ Holding(w) = {} /\ step \in [Workers -> 0 .. 3] /\ again \subseteq Events
      /\ again \subseteq again'
  BY <1>1, <1>4 DEF AlertsInv, AlertInv, StepsInHandlers, Stage, Holding, AlertTypeOK
<1>9. Received(w, hand)
  BY <1>3
<1> HIDE DEF hand
<1>10. CASE Batch(w, hand)
  <2>1. Holding(w)' = hand /\ hand \in SUBSET Events
    BY <1>4, <1>10, TakesHand
  <2>2. again' \subseteq Events
    BY <1>1, <1>8, <2>1
  <2>3. ASSUME NEW n \in hand \ again'
        PROVE  ~IsTold(n) /\ \A v \in Workers \ {w} : n \notin Holding(v)
    <3>1. \A v \in Workers \ {w} : n \notin Holding(v)
      BY <1>1, <2>1
    <3>2. n \in Pending /\ n \in Events \ again
      BY <1>4, <1>8
    <3>3. IsTold(n) => \E v \in Workers : n \in Holding(v)
      BY <3>2 DEF AlertsInv, AlertInv, OneHandling
    <3>4. QED
      BY <1>8, <3>1, <3>3
  <2>4. \A n \in Events \ again' : IsTold(n) /\ n \in Pending' => n \in Pending /\ n \notin Holding(w)
    BY <1>6, <1>8
  <2>5. QED
    BY <1>1, <1>2, <1>4, <1>5, <1>7, <1>8, <1>10, <2>1, <2>2, <2>3, <2>4, TakingKeeps
<1>11. CASE UNCHANGED worker
  <2>1. Holding(w)' = {}
    BY <1>8, <1>11, HoldingStays
  <2>2. again' \subseteq Events
    BY <1>1, <1>8, <2>1
  <2>3. \A n \in Events \ again' : IsTold(n) /\ n \in Pending' => n \in Pending
    BY <1>6
  <2>4. QED
    BY <1>1, <1>2, <1>4, <1>5, <1>7, <1>8, <1>11, <2>2, <2>3, StayingKeeps
<1>12. QED
  BY <1>9, <1>10, <1>11 DEF Received

(* A consumer lets go of its event, acknowledged or with a reason to be     *)
(* handled again, and turns to the rest of its batch or gives it up.        *)
LEMMA LettingGoKeeps ==
  ASSUME AlertsInv, StreamInv', NEW w \in Workers, Busy(w),
         NEW hand \in {{}, worker[w].rest}, Batch(w, hand),
         Event(w) \in again \/ Event(w) \notin Pending',
         UNCHANGED <<kind, channels, told, sent, again, stream, group, cursor>>,
         step' = [step EXCEPT ![w] = 0], Pending' \subseteq Pending
  PROVE  AlertsInv'
<1>1. /\ hand \subseteq worker[w].rest /\ worker[w].rest \subseteq Events
      /\ Holding(w) = {Event(w)} \cup worker[w].rest
  BY DEF Holding, Busy, AlertsInv, StreamInv, StreamTypeOK, Work
<1>2. /\ step' \in [Workers -> 0 .. 3] /\ step'[w] = 0 /\ again \subseteq Events
      /\ \A v \in Workers \ {w} : step'[v] = step[v]
  BY DEF AlertsInv, AlertInv, AlertTypeOK
<1>3. Undelivered' = Undelivered
  BY DEF Undelivered
<1>4. Pending' \subseteq (1 .. sent) \ Undelivered' /\ hand \subseteq (1 .. sent) \ Undelivered'
  BY <1>1, <1>3 DEF AlertsInv, AlertInv, HeldIsDelivered
<1>5. ASSUME NEW n \in worker[w].rest, n \notin again PROVE ~IsTold(n)
  BY <1>1, <1>5 DEF AlertsInv, AlertInv, OneHandling
<1>6. \A n \in Events \ again' : IsTold(n) /\ n \in Pending' => n \in Pending /\ n \notin Holding(w)
  BY <1>1, <1>5
<1>7. \A n \in hand \ again' : ~IsTold(n) /\ \A v \in Workers \ {w} : n \notin Holding(v)
  BY <1>1, <1>5 DEF AlertsInv, AlertInv, OneHandling
<1>8. QED
  BY <1>1, <1>2, <1>3, <1>4, <1>6, <1>7, TakingKeeps

LEMMA AckedCounts ==
  ASSUME AlertsInv, NEW n, Acked(n)
  PROVE  n \notin Pending' /\ Pending' \subseteq Pending
  BY DEF Acked, Pending, AlertsInv, StreamInv, StreamTypeOK

LEMMA AckingKeeps ==
  ASSUME AlertsInv, NEW w \in Workers, AlertAck(w) \/ AlertFailed(w) \/ AlertDrop(w)
  PROVE  AlertsInv'
<1>1. UNCHANGED <<sent, stream, group, cursor, kind, channels, told>>
  BY DEF AlertAck, AlertFailed, AlertDrop, Ack, Failed, Drop, Quiet
<1>2. Undelivered' = Undelivered
  BY <1>1 DEF Undelivered
<1>3. Busy(w)
  BY DEF AlertAck, AlertFailed, AlertDrop, Ack, Failed, Drop, Busy, Stage
<1>4. step \in [Workers -> 0 .. 3] /\ again \subseteq Events /\ Event(w) \in Events
  BY <1>3 DEF AlertsInv, AlertInv, AlertTypeOK, StreamInv, StreamTypeOK, Busy
<1>5. CASE AlertAck(w)
  <2>1. Stage(w, "ack") /\ Ack(w) /\ step' = step /\ step[w] = 0
    BY <1>5 DEF AlertAck, Ack, AlertsInv, AlertInv, StepsInHandlers, Stage
  <2>2. StreamInv'
    BY <2>1, AckKeeps DEF AlertsInv
  <2>3. again' = IF Stage(w, "failed")' THEN again \cup {Event(w)} ELSE again
    BY <1>5 DEF AlertAck
  <2>4. CASE Acked(Event(w)) /\ NextEntry(w)
    <3>1. /\ worker[w].rest \in SUBSET Events /\ Batch(w, worker[w].rest)
      BY <2>4 DEF NextEntry, AlertsInv, StreamInv, StreamTypeOK, Work
    <3>2. again' = again
      BY <2>3, <3>1, TakesHand DEF Stage
    <3>3. step' = [step EXCEPT ![w] = 0]
      BY <1>4, <2>1
    <3>4. Event(w) \notin Pending' /\ Pending' \subseteq Pending
      BY <2>4, AckedCounts
    <3>5. QED
      BY <1>1, <1>3, <2>2, <3>1, <3>2, <3>3, <3>4, LettingGoKeeps
  <2>5. CASE MoveTo(w, "failed") /\ (Acked(Event(w)) \/ UNCHANGED deliveries)
    <3>1. Pending' \subseteq Pending
      BY <2>5, AckedCounts DEF Pending
    <3>2. Stage(w, "failed")'
      BY <2>5 DEF MoveTo, Stage, AlertsInv, StreamInv, StreamTypeOK, Work
    <3>3. /\ again' = again \cup {Event(w)} /\ again \subseteq again' /\ again' \subseteq Events
          /\ Event(w) \in again'
      BY <1>4, <2>3, <3>2
    <3>4. QED
      BY <1>1, <1>2, <1>3, <1>4, <2>1, <2>2, <2>5, <3>1, <3>3, MovingKeeps
  <2>6. QED
    BY <2>1, <2>4, <2>5 DEF Ack
<1>6. CASE AlertFailed(w)
  <2>1. /\ Stage(w, "failed") /\ Failed(w) /\ step' = step /\ step[w] = 0 /\ again' = again
        /\ deliveries' = deliveries /\ Event(w) \in again
    BY <1>6 DEF AlertFailed, Failed, AlertsInv, AlertInv, StepsInHandlers, FailuresHaveCause, Stage
  <2>2. StreamInv' /\ Pending' = Pending
    BY <2>1, FailedKeeps DEF AlertsInv, Pending
  <2>3. CASE MoveTo(w, "dead")
    BY <1>1, <1>2, <1>3, <1>4, <2>1, <2>2, <2>3, MovingKeeps
  <2>4. CASE NextEntry(w)
    <3>1. Batch(w, worker[w].rest) /\ step' = [step EXCEPT ![w] = 0]
      BY <1>4, <2>1, <2>4 DEF NextEntry
    <3>2. QED
      BY <1>1, <1>3, <2>1, <2>2, <3>1, LettingGoKeeps
  <2>5. QED
    BY <2>1, <2>3, <2>4 DEF Failed
<1>7. CASE AlertDrop(w)
  <2>1. /\ Stage(w, "drop") /\ Drop(w) /\ step' = [step EXCEPT ![w] = 0] /\ again' = again
        /\ Event(w) \in again
    BY <1>7 DEF AlertDrop, Drop, AlertsInv, AlertInv, FailuresHaveCause
  <2>2. StreamInv'
    BY <2>1, AckKeeps DEF AlertsInv
  <2>3. PICK hand \in {{}, worker[w].rest} : Batch(w, hand)
    BY <2>1 DEF Drop, NextEntry
  <2>4. Pending' \subseteq Pending
    BY <2>1, AckedCounts DEF Drop, Pending
  <2>5. QED
    BY <1>1, <1>3, <2>1, <2>2, <2>3, <2>4, LettingGoKeeps
<1>8. QED
  BY <1>5, <1>6, <1>7

LEMMA HandlingKeeps ==
  ASSUME AlertsInv, NEW w \in Workers,
         LifecycleSms(w) \/ OrderMail(w) \/ SendToChannel(w) \/ Handled(w)
  PROVE  AlertsInv'
<1>1. ASSUME NEW what \in Customers, NEW answers, Tell(w, what, answers) PROVE AlertsInv'
  <2>1. what \in {"sms", "mail", "telegram"}
    BY DEF Customers
  <2>2. \/ told' = told
        \/ told' = [told EXCEPT ![Event(w)][what] = IF @ = 0 THEN 1 ELSE 2]
    BY <1>1 DEF Tell
  <2>3. QED
    BY <1>1, <2>1, <2>2, TellingKeeps DEF Tell
<1>2. CASE /\ Doing(w, "telegram") /\ Advance(w)
           /\ UNCHANGED <<streamVars, kind, channels, told, again>>
  BY <1>2, TellingKeeps
<1>3. ASSUME Handle(w), step' = [step EXCEPT ![w] = 0], UNCHANGED <<kind, channels, told>>,
             \/ Stage(w, "ack")' /\ again' = again
             \/ Stage(w, "failed")' /\ again' = again \cup {Event(w)}
      PROVE  AlertsInv'
  <2>1. StreamInv' /\ Stage(w, "handle")
    BY <1>3, HandleKeeps DEF AlertsInv, Handle
  <2>2. Undelivered' = Undelivered /\ Pending' = Pending /\ sent' = sent
    BY <1>3 DEF Handle, Undelivered, Pending
  <2>3. Busy(w) /\ Event(w) \in Events
    BY <2>1 DEF Busy, Stage, AlertsInv, StreamInv, StreamTypeOK
  <2>4. /\ step' \in [Workers -> 0 .. 3] /\ step'[w] = 0 /\ again \subseteq Events
        /\ \A v \in Workers \ {w} : step'[v] = step[v]
    BY <1>3 DEF AlertsInv, AlertInv, AlertTypeOK
  <2>5. PICK pc \in {"ack", "failed"} : MoveTo(w, pc)
    BY <1>3 DEF Handle
  <2>6. Stage(w, pc)'
    BY <2>5 DEF MoveTo, Stage, AlertsInv, StreamInv, StreamTypeOK, Work
  <2>7. /\ again \subseteq again' /\ again' \subseteq Events
        /\ pc \in {"failed", "dead", "drop"} => Event(w) \in again'
    BY <1>3, <2>3, <2>4, <2>6 DEF Stage
  <2>8. QED
    BY <1>3, <2>1, <2>2, <2>3, <2>4, <2>5, <2>7, MovingKeeps
<1>4. QED
  BY <1>1, <1>2, <1>3 DEF LifecycleSms, OrderMail, SendToChannel, ChannelFails, Handled, Customers

LEMMA GivingUpKeeps ==
  ASSUME AlertsInv, NEW w \in Workers, LogGivenUp(w) \/ AlertDead(w)
  PROVE  AlertsInv'
<1>1. CASE LogGivenUp(w)
  <2>1. /\ Stage(w, "drop") /\ step' = [step EXCEPT ![w] = 1] /\ UNCHANGED <<channels, told, again>>
    BY <1>1 DEF LogGivenUp
  <2>2. step' \in [Workers -> 0 .. 3] /\ \A v \in Workers : ~Stage(v, "drop") => step'[v] = step[v]
    BY <2>1 DEF AlertsInv, AlertInv, AlertTypeOK
  <2>3. CASE Publish /\ kind' = [kind EXCEPT ![sent'] = "system"]
    <3>1. "system" \in Kinds
      BY DEF Kinds, Chain
    <3>2. QED
      BY <2>1, <2>2, <2>3, <3>1, PublishingKeeps
  <2>4. CASE UNCHANGED <<streamVars, kind>>
    <3>1. StreamInv' /\ worker' = worker /\ sent' = sent
      BY <2>4, NextKeeps DEF AlertsInv, streamVars
    <3>2. Undelivered' = Undelivered /\ Pending' = Pending
      BY <2>4 DEF streamVars, Undelivered, Pending
    <3>3. \A v \in Workers : /\ Holding(v)' = Holding(v) /\ Event(v)' = Event(v)
                             /\ \A pc : Stage(v, pc)' <=> Stage(v, pc)
      BY <3>1, HoldingStays
    <3>4. \A v \in Workers : Stage(v, "handle") => Past(v)' = Past(v)
      BY <2>1, <2>2, <2>4, <3>3 DEF Past, Event, Stage
    <3>5. AlertTypeOK'
      BY <2>1, <2>2, <2>4, <3>1 DEF AlertsInv, AlertInv, AlertTypeOK, StreamInv
    <3>6. HeldIsDelivered' /\ StepsInHandlers' /\ FailuresHaveCause' /\ EventNotInRest'
      BY <2>1, <2>2, <3>1, <3>2, <3>3
         DEF AlertsInv, AlertInv, HeldIsDelivered, StepsInHandlers, FailuresHaveCause,
             EventNotInRest
    <3>7. \A n \in Events : IsTold(n)' <=> IsTold(n)
      BY <2>1 DEF IsTold
    <3>8. OneHandling'
      BY <2>1, <3>1, <3>2, <3>3, <3>4, <3>7 DEF AlertsInv, AlertInv, OneHandling
    <3>9. QED
      BY <3>1, <3>5, <3>6, <3>8 DEF AlertsInv, AlertInv
  <2>5. QED
    BY <1>1, <2>3, <2>4 DEF LogGivenUp
<1>2. CASE AlertDead(w)
  <2>1. /\ DeadLetter(w) /\ Stage(w, "dead") /\ MoveTo(w, "drop")
        /\ UNCHANGED <<step, again, kind, channels, told, sent, stream, group, cursor, deliveries>>
    BY <1>2 DEF AlertDead, DeadLetter, Quiet
  <2>2. StreamInv' /\ Undelivered' = Undelivered /\ Pending' = Pending
    BY <2>1, DeadLetterKeeps DEF AlertsInv, Undelivered, Pending
  <2>3. /\ Busy(w) /\ step[w] = 0 /\ Event(w) \in again /\ step \in [Workers -> 0 .. 3]
        /\ again \subseteq Events
    BY <2>1 DEF Busy, Stage, AlertsInv, AlertInv, StepsInHandlers, FailuresHaveCause, AlertTypeOK
  <2>4. QED
    BY <2>1, <2>2, <2>3, MovingKeeps
<1>3. QED
  BY <1>1, <1>2

LEMMA StartingKeeps ==
  ASSUME AlertsInv, NEW w \in Workers, AlertStart(w) \/ AlertStop(w)
  PROVE  AlertsInv'
<1>1. CASE AlertStart(w)
  <2>1. /\ StartWorker(w) /\ UNCHANGED <<step, again, kind, channels, told, sent, stream, deliveries>>
        /\ worker' = [worker EXCEPT ![w] = Looping] /\ Stage(w, "down")
    BY <1>1 DEF AlertStart, StartWorker, Quiet
  <2>2. StreamInv' /\ Pending' = Pending
    BY <2>1, StartKeeps DEF AlertsInv, Pending
  <2>3. Undelivered' = Undelivered
    <3>1. group' = TRUE /\ cursor' = IF group THEN cursor ELSE 0
      BY <2>1 DEF StartWorker, EnsureGroup
    <3>2. stream \subseteq 1 .. sent
      BY DEF AlertsInv, StreamInv, StreamTypeOK
    <3>3. CASE group
      BY <2>1, <3>1, <3>3 DEF Undelivered
    <3>4. CASE ~group
      <4>1. \A n \in stream : n > 0
        BY <3>2, Numbers DEF AlertsInv, StreamInv
      <4>2. QED
        BY <2>1, <3>1, <3>4, <4>1 DEF Undelivered
    <3>5. QED
      BY <3>3, <3>4
  <2>4. Holding(w) = {} /\ step[w] = 0 /\ step \in [Workers -> 0 .. 3]
    BY <2>1 DEF Holding, Stage, AlertsInv, AlertInv, StepsInHandlers, AlertTypeOK
  <2>5. step' = [step EXCEPT ![w] = 0] /\ again' = again \cup Holding(w)
    BY <2>1, <2>4
  <2>6. QED
    BY <2>1, <2>2, <2>3, <2>5, RestartKeeps
<1>2. CASE AlertStop(w)
  <2>1. /\ StopWorker(w) /\ UNCHANGED <<kind, channels, told, sent, stream, group, cursor, deliveries>>
        /\ worker' = [worker EXCEPT ![w] = Down] /\ step' = [step EXCEPT ![w] = 0]
        /\ again' = again \cup Holding(w)
    BY <1>2 DEF AlertStop, StopWorker, Quiet
  <2>2. StreamInv' /\ Pending' = Pending /\ Undelivered' = Undelivered
    BY <2>1, StopKeeps DEF AlertsInv, Pending, Undelivered
  <2>3. QED
    BY <2>1, <2>2, RestartKeeps
<1>3. QED
  BY <1>1, <1>2

LEMMA WipingKeeps ==
  ASSUME AlertsInv, AlertWipe
  PROVE  AlertsInv'
<1>1. /\ Wipe /\ UNCHANGED <<step, again, kind, channels, told, sent, worker>>
      /\ stream' = {} /\ deliveries' = [n \in Events |-> 0]
  BY DEF AlertWipe, Wipe, Quiet
<1>2. StreamInv' /\ Undelivered' = {} /\ Pending' = {}
  BY <1>1, WipeKeeps DEF AlertsInv, Undelivered, Pending
<1>3. again \subseteq Events
  BY DEF AlertsInv, AlertInv, AlertTypeOK
<1>4. QED
  BY <1>1, <1>2, <1>3, StayingKeeps

LEMMA AlertStep == AlertsInv /\ [AlertNext]_alertingVars => AlertsInv'
<1>1. ASSUME AlertsInv, NEW k \in Published, PublishAlert(k) PROVE AlertsInv'
  <2>1. k \in Kinds
    BY PublishedAssumption
  <2>2. step \in [Workers -> 0 .. 3]
    BY <1>1 DEF AlertsInv, AlertInv, AlertTypeOK
  <2>3. QED
    BY <1>1, <2>1, <2>2, PublishingKeeps DEF PublishAlert
<1>2. ASSUME AlertsInv, UNCHANGED alertingVars PROVE AlertsInv'
  <2>1. UNCHANGED streamVars /\ UNCHANGED alertVars
    BY <1>2 DEF alertingVars
  <2>2. StreamInv'
    BY <1>2, <2>1, NextKeeps DEF AlertsInv
  <2>3. Undelivered' = Undelivered /\ Pending' = Pending
    BY <2>1 DEF streamVars, Undelivered, Pending
  <2>4. again \subseteq Events /\ Pending \subseteq (1 .. sent) \ Undelivered
    BY <1>2 DEF AlertsInv, AlertInv, AlertTypeOK, HeldIsDelivered
  <2>5. QED
    BY <1>2, <2>1, <2>2, <2>3, <2>4, StayingKeeps DEF streamVars, alertVars
<1>3. QED
  BY <1>1, <1>2, HandlingKeeps, GivingUpKeeps, StartingKeeps, WipingKeeps, ReadingKeeps,
     ClaimingKeeps, AckingKeeps DEF AlertNext

(* A customer is told of one event twice by one channel only when there was *)
(* a reason to handle it again: Telegram failed, an acknowledgement raised, *)
(* a worker died over it or another one took it over.                       *)
THEOREM ToldAgainHasCauseHolds == AlertSpec => []ToldAgainHasCause
<1>1. AlertInit => AlertsInv
  BY AlertInitInv
<1>2. AlertsInv /\ [AlertNext]_alertingVars => AlertsInv'
  BY AlertStep
<1>3. AlertsInv => ToldAgainHasCause
  <2> SUFFICES ASSUME AlertsInv PROVE ToldAgainHasCause
    OBVIOUS
  <2>1. ASSUME NEW n \in Events, NEW what \in Customers, told[n][what] > 1, n \notin again
        PROVE  FALSE
    <3>1. told[n][what] <= 1 /\ told[n][what] \in 0 .. 2
      BY <2>1 DEF AlertsInv, AlertInv, OneHandling, AlertTypeOK
    <3>2. QED
      BY <2>1, <3>1
  <2>2. QED
    BY <2>1 DEF ToldAgainHasCause
<1>4. QED
  BY <1>1, <1>2, <1>3, PTL DEF AlertSpec

(* The stream keeps its promise whatever the handlers do to the customers:  *)
(* no event that an alert consumer is to handle gets lost.                  *)
THEOREM NoAlertLost == AlertSpec => []EventsAccountedFor
  BY AlertsUseTheStream, NoEventLost, PTL

-----------------------------------------------------------------------------
(* The parts together, as TLC follows them.                                 *)

(* Every behaviour of the composition is one of each part: what is proved   *)
(* of a part holds of what TLC checks, which only leaves behaviours out.    *)
THEOREM PartsAreFollowed ==
  ParcelSpec => /\ ShipSpec /\ ReconSpec /\ AlertSpec /\ RecordsSpec /\ DeskSpec
<1>1. ParcelInit => ShipInit /\ ReconInit /\ AlertInit /\ RecordsInit /\ DeskInit
  BY DEF ParcelInit
<1>2. [ParcelNext]_parcelVars =>
        /\ [ShipNext]_shipVars /\ [ReconNext]_reconVars /\ [AlertNext]_alertingVars
        /\ [RecordsNext]_recordVars /\ [DeskNext]_deskVars
  BY DEF ParcelNext, parcelVars, RecordsNext
<1>3. QED
  BY <1>1, <1>2, PTL DEF ParcelSpec, ShipSpec, ReconSpec, AlertSpec, RecordsSpec, DeskSpec
=============================================================================
