---------------------------- MODULE MCStorefront ----------------------------
(* The parts of a shop request that share no state: its checkout, the       *)
(* buckets in front of it, the breaker around a provider, the bill, the     *)
(* pages it was ordered from and the events it leaves to the worker.  A     *)
(* behaviour follows one of them, the others stand still.                   *)
EXTENDS Checkout, RateLimit, Guarded, Billing, Content, EventStream, TLC

CONSTANTS TheKey, Api,
          Foci  \* the parts that are followed
VARIABLE focus

Subjects == {"checkout", "buckets", "breaker", "invoices", "quotes", "pages", "stream"}
ASSUME FociAssumption == Foci \subseteq Subjects

MCKey == [r \in Requests |-> TheKey]

MCBuckets == <<"ip", "email">>
MCCapacity == [ip |-> 4, email |-> 2]
MCRefill == [ip |-> 2, email |-> 1]

MCHome == [c \in Callers |-> IF c \in Api THEN "api" ELSE "worker"]

Prices == {0, 100, 105, 333}
Coupons == {[percent |-> TRUE, amount |-> 10], [percent |-> TRUE, amount |-> 33],
            [percent |-> FALSE, amount |-> 250]}
Cart(lines, mask, coupon) ==
  [lines |-> lines, mask |-> mask, percent |-> coupon.percent, amount |-> coupon.amount,
   shipping |-> 70, rate |-> 3]
MCQuotes == {Cart(l, m, c) : l \in [1 .. 3 -> Prices], m \in [1 .. 3 -> BOOLEAN], c \in Coupons}
            \cup {Cart(<<>>, <<>>, c) : c \in Coupons}
NothingToBill == Cart(<<>>, <<>>, [percent |-> TRUE, amount |-> 10])

AllPages == DOMAIN Shop
StorefrontInit ==
  /\ focus \in Foci
  /\ CheckoutInit /\ (focus # "checkout" => \A r, s \in Requests : body[r] = body[s])
  /\ BillInit /\ (focus # "quotes" => quote = NothingToBill)
  /\ ContentInit /\ (focus # "pages" => page = "home" /\ ~store["home_page"])
  /\ RateInit /\ GuardInit /\ StreamInit

StorefrontNext ==
  /\ UNCHANGED focus
  /\ \/ /\ focus = "checkout" /\ CheckoutNext
        /\ UNCHANGED <<rateVars, guardVars, billVars, contentVars, streamVars>>
     \/ /\ focus = "buckets" /\ RateNext
        /\ UNCHANGED <<checkoutVars, guardVars, billVars, contentVars, streamVars>>
     \/ /\ focus = "breaker" /\ GuardNext
        /\ UNCHANGED <<checkoutVars, rateVars, billVars, contentVars, streamVars>>
     \/ /\ focus = "invoices" /\ BillNext
        /\ UNCHANGED <<checkoutVars, rateVars, guardVars, contentVars, streamVars>>
     \/ /\ focus = "pages" /\ ContentNext
        /\ UNCHANGED <<checkoutVars, rateVars, guardVars, billVars, streamVars>>
     \/ /\ focus = "stream" /\ StreamNext
        /\ UNCHANGED <<checkoutVars, rateVars, guardVars, billVars, contentVars>>

storefrontVars ==
  <<focus, checkoutVars, rateVars, guardVars, billVars, contentVars, streamVars>>
StorefrontSpec == StorefrontInit /\ [][StorefrontNext]_storefrontVars

(* Every variable of the parts has its type, and no bulkhead is over   *)
(* its limit.                                                               *)
StorefrontTypeOK ==
  CASE focus = "checkout" -> CheckoutTypeOK
    [] focus = "buckets" -> RateTypeOK
    [] focus = "breaker" -> GuardTypeOK
    [] focus \in {"invoices", "quotes"} -> BillTypeOK
    [] focus = "pages" -> ContentTypeOK
    [] focus = "stream" -> StreamTypeOK

(* The parts share their model values: one permutation serves them all.     *)
StorefrontSymmetry == Permutations(Requests) \cup Permutations(Bodies)
=============================================================================
