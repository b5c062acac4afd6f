------------------------------- MODULE Records -------------------------------
(* The small records of the shop that are checked before they are written:  *)
(* the addresses of one customer, the ratings of one product of one order,  *)
(* the newsletter, the inbox and one coupon.  The check and the write are   *)
(* two commands, and only the code of a coupon has a unique index.          *)
EXTENDS Integers, FiniteSets

CONSTANTS Writers,       \* requests that write at the same time
          MaxAddresses,  \* addresses of a customer, 5 in the code
          MaxRows        \* bound: rows of one kind that are ever inserted

ASSUME RecordsAssumption ==
  /\ IsFiniteSet(Writers) /\ MaxAddresses \in Nat \ {0} /\ MaxRows \in Nat

VARIABLES addresses,  \* the rows of shipping_addresses
          defaults,   \* those with is_default
          delivered,  \* whether the status of the order is "delivered"
          ratings,    \* ratings of its product
          letters,    \* rows of newsletters, by the query interface
          inbox,      \* rows of newsletter_subscriptions, by the shop's page
          unread,     \* those an administrator has not read
          lastRow,    \* the number of the last row inserted
          coupon,     \* its indicator and amount, NoCoupon when there is none
          writer,     \* what each request has read and wants to write
          torn        \* history: a coupon was written over one that was not read

recordVars == <<addresses, defaults, delivered, ratings, letters, inbox, unread, lastRow,
                coupon, writer, torn>>
addressVars == <<addresses, defaults>>
ratingVars == <<delivered, ratings>>
letterVars == <<letters, inbox, unread>>
couponVars == <<coupon, torn>>

Rows == 1 .. MaxRows
Indicators == {"PERCENT", "AMOUNT"}
Amounts == {50, 250}
Unset == 0
NoCoupon == [indicator |-> "none", amount |-> Unset]
NoWriter == [at |-> "idle", row |-> Unset, default |-> FALSE, seen |-> NoCoupon, new |-> NoCoupon]

RecordsInit ==
  /\ addresses = {} /\ defaults = {}
  /\ delivered = FALSE /\ ratings = 0
  /\ letters = 0 /\ inbox = {} /\ unread = {} /\ lastRow = 0
  /\ coupon = NoCoupon /\ torn = FALSE
  /\ writer = [p \in Writers |-> NoWriter]

Writing(p, at) == writer[p].at = at
Proceed(p, at) == writer' = [writer EXCEPT ![p].at = at]
Written(p) == writer' = [writer EXCEPT ![p] = NoWriter]
NextRow == lastRow < MaxRows /\ lastRow' = lastRow + 1
Insert(rows) == rows' = rows \cup {lastRow + 1}

-----------------------------------------------------------------------------
(* Addresses *)

CreateAddress(p) ==
  /\ Writing(p, "idle") /\ Cardinality(addresses) < MaxAddresses
  /\ \E default \in BOOLEAN :
       writer' = [writer EXCEPT ![p] = [@ EXCEPT !.at = IF default THEN "unset" ELSE "insert",
                                                 !.default = default]]
  /\ UNCHANGED <<addressVars, lastRow>>

UpdateAddress(p) ==
  /\ Writing(p, "idle")
  /\ \E a \in addresses, default \in BOOLEAN :
       writer' = [writer EXCEPT ![p] = [@ EXCEPT !.at = IF default THEN "unset" ELSE "set",
                                                 !.row = a, !.default = default]]
  /\ UNCHANGED <<addressVars, lastRow>>

(* Mutant of UnsetDefaults: the other addresses stay the default.           *)
KeepDefaults(p) ==
  /\ Writing(p, "unset") /\ Proceed(p, IF writer[p].row = Unset THEN "insert" ELSE "set")
  /\ UNCHANGED <<addressVars, lastRow>>

(* Every other address of the customer stops being the default.             *)
UnsetDefaults(p) ==
  /\ Writing(p, "unset") /\ Proceed(p, IF writer[p].row = Unset THEN "insert" ELSE "set")
  /\ defaults' = defaults \cap {writer[p].row}
  /\ UNCHANGED <<addresses, lastRow>>

InsertAddress(p) ==
  /\ Writing(p, "insert") /\ NextRow /\ Insert(addresses) /\ Written(p)
  /\ IF writer[p].default THEN Insert(defaults) ELSE UNCHANGED defaults

(* An address that is gone by now is not made again; what an update leaves  *)
(* out keeps its value.                                                     *)
SetAddress(p) ==
  /\ Writing(p, "set") /\ Written(p)
  /\ \/ writer[p].default /\ defaults' = defaults \cup (addresses \cap {writer[p].row})
     \/ ~writer[p].default /\ defaults' \in {defaults, defaults \ {writer[p].row}}
  /\ UNCHANGED <<addresses, lastRow>>

DeleteAddress ==
  /\ \E a \in addresses : addresses' = addresses \ {a} /\ defaults' = defaults \ {a}
  /\ UNCHANGED <<lastRow, writer>>

AddressNext ==
  /\ \/ \E p \in Writers : CreateAddress(p) \/ UpdateAddress(p) \/ UnsetDefaults(p)
                           \/ InsertAddress(p) \/ SetAddress(p)
     \/ DeleteAddress
  /\ UNCHANGED <<ratingVars, letterVars, couponVars>>

-----------------------------------------------------------------------------
(* Ratings *)

SetDelivered == delivered' \in BOOLEAN /\ UNCHANGED <<ratings, writer>>

(* The customer's own order, delivered, with the product, and not rated.    *)
CanRate == delivered /\ ratings = 0
CheckRating(p) ==
  /\ Writing(p, "idle") /\ CanRate /\ Proceed(p, "rate")
  /\ UNCHANGED ratingVars
InsertRating(p) ==
  /\ Writing(p, "rate") /\ ratings' = ratings + 1 /\ Written(p) /\ UNCHANGED delivered

RatingNext ==
  /\ SetDelivered \/ \E p \in Writers : CheckRating(p) \/ InsertRating(p)
  /\ UNCHANGED <<addressVars, letterVars, couponVars, lastRow>>

-----------------------------------------------------------------------------
(* The newsletter, twice: a query interface that refuses a known address,   *)
(* and a page that brings a known subscription back to the administrators.  *)

CheckLetter(p) ==
  /\ Writing(p, "idle") /\ letters = 0 /\ Proceed(p, "letter")
  /\ UNCHANGED <<letterVars, lastRow>>
InsertLetter(p) ==
  /\ Writing(p, "letter") /\ letters' = letters + 1 /\ Written(p)
  /\ UNCHANGED <<inbox, unread, lastRow>>

FindSubscription(p) ==
  /\ Writing(p, "idle")
  /\ \/ inbox = {} /\ Proceed(p, "subscribe")
     \/ \E s \in inbox : writer' = [writer EXCEPT ![p] = [@ EXCEPT !.at = "renew", !.row = s]]
  /\ UNCHANGED <<letterVars, lastRow>>
Subscribe(p) ==
  /\ Writing(p, "subscribe") /\ NextRow /\ Insert(inbox) /\ Insert(unread) /\ Written(p)
  /\ UNCHANGED letters
Renew(p) ==
  /\ Writing(p, "renew") /\ Written(p)
  /\ unread' = unread \cup (inbox \cap {writer[p].row})
  /\ UNCHANGED <<letters, inbox, lastRow>>
MarkRead ==
  /\ \E s \in inbox : unread' \in {unread \ {s}, unread \cup {s}}
  /\ UNCHANGED <<letters, inbox, lastRow, writer>>
DeleteSubscription ==
  /\ \E s \in inbox : inbox' = inbox \ {s} /\ unread' = unread \ {s}
  /\ UNCHANGED <<letters, lastRow, writer>>

LetterNext ==
  /\ \/ \E p \in Writers : CheckLetter(p) \/ InsertLetter(p) \/ FindSubscription(p)
                           \/ Subscribe(p) \/ Renew(p)
     \/ MarkRead \/ DeleteSubscription
  /\ UNCHANGED <<addressVars, ratingVars, couponVars>>

-----------------------------------------------------------------------------
(* The coupon *)

Valid(c) ==
  /\ c.indicator \in Indicators /\ c.amount > 0
  /\ c.indicator = "PERCENT" => c.amount <= 100

(* The fields an edit sets replace those of the coupon.                     *)
Merge(old, edit) ==
  [indicator |-> IF edit.indicator = "none" THEN old.indicator ELSE edit.indicator,
   amount |-> IF edit.amount = Unset THEN old.amount ELSE edit.amount]
Edits == [indicator : Indicators \cup {"none"}, amount : Amounts \cup {Unset}] \ {NoCoupon}

CreateCoupon(p) ==
  /\ Writing(p, "idle") /\ coupon = NoCoupon
  /\ \E c \in Edits : Valid(c) /\ writer' = [writer EXCEPT ![p] = [@ EXCEPT !.at = "code", !.new = c]]
  /\ UNCHANGED couponVars
InsertCoupon(p) ==
  /\ Writing(p, "code") /\ Written(p) /\ UNCHANGED torn
  /\ coupon' = IF coupon = NoCoupon THEN writer[p].new ELSE coupon

(* The route merges the edit into the coupon it reads and validates that.   *)
EditCoupon(p) ==
  /\ Writing(p, "idle") /\ coupon # NoCoupon
  /\ \E e \in Edits :
       /\ Valid(Merge(coupon, e))
       /\ writer' = [writer EXCEPT ![p] = [@ EXCEPT !.at = "validate", !.new = e]]
  /\ UNCHANGED couponVars

(* And the service once more.                                               *)
ValidateCoupon(p) ==
  /\ Writing(p, "validate") /\ UNCHANGED couponVars
  /\ IF Valid(Merge(coupon, writer[p].new))
     THEN writer' = [writer EXCEPT ![p] = [@ EXCEPT !.at = "coupon", !.seen = coupon]]
     ELSE Written(p)

(* Only the fields of the edit are written, over whatever is there by now.  *)
WriteCoupon(p) ==
  /\ Writing(p, "coupon") /\ Written(p)
  /\ coupon' = IF coupon = NoCoupon THEN coupon ELSE Merge(coupon, writer[p].new)
  /\ torn' = (torn \/ coupon # writer[p].seen)
DeleteCoupon == coupon # NoCoupon /\ coupon' = NoCoupon /\ UNCHANGED <<torn, writer>>

CouponNext ==
  /\ \/ \E p \in Writers : CreateCoupon(p) \/ InsertCoupon(p) \/ EditCoupon(p)
                           \/ ValidateCoupon(p) \/ WriteCoupon(p)
     \/ DeleteCoupon
  /\ UNCHANGED <<addressVars, ratingVars, letterVars, lastRow>>

RecordsNext == AddressNext \/ RatingNext \/ LetterNext \/ CouponNext
RecordsSpec == RecordsInit /\ [][RecordsNext]_recordVars

-----------------------------------------------------------------------------
(* The checks before the writes hold up to the number of requests at work   *)
(* at the same time, however long they go on: a customer has at most one    *)
(* address more per further request than allowed, and as many defaults,     *)
(* ratings and subscriptions as there are requests; and a coupon that could *)
(* not have been created was written over an edit nobody had seen.          *)
AddressesBounded == Cardinality(addresses) <= MaxAddresses + Cardinality(Writers) - 1
AtMostOneEach(n) == n <= Cardinality(Writers)
CouponIsValid == coupon = NoCoupon \/ Valid(coupon) \/ torn
DamageIsBounded ==
  /\ AddressesBounded
  /\ AtMostOneEach(Cardinality(defaults)) /\ AtMostOneEach(ratings)
  /\ AtMostOneEach(letters) /\ AtMostOneEach(Cardinality(inbox))
  /\ CouponIsValid
=============================================================================
