------------------------------- MODULE Totals -------------------------------
(***************************************************************************)
(* What an order costs and which promotions it uses up: evaluateAutomatic  *)
(* of PromotionsService, OrderTotalsService, the coupon's discount and the *)
(* amounts of the order row that checkout and POS insert.                  *)
(*                                                                         *)
(* Several checkouts run at a time.  Each locks all automatic promotions   *)
(* for itself, counts their redemptions, goes through them by priority,    *)
(* adds up, and writes order and redemptions when it commits.  A promotion *)
(* row here is active, in its time window and meant for this day; nobody   *)
(* edits promotions meanwhile.  Carts, keys and the limits of coupons are  *)
(* the business of module Checkout.                                        *)
(***************************************************************************)
EXTENDS Integers, FiniteSets

CONSTANTS Requests,       \* checkouts and POS orders, each places at most one order
          Customers, Items,
          Promos,         \* ids of the automatic promotions, in the order of the ids
          Offers,         \* per promotion, the rows it may have
          Groups, NoGroup, \* stacking groups
          Orders,         \* what may be ordered
          NoOrder, NoCoupon,
          MinimumOrder, TaxRate, TaxExcluded,  \* columns of the restaurant
          NULL            \* no limit, no cap

VARIABLES offer,          \* the row of each promotion
          redeemed,       \* per promotion, the requests that redeemed it
          step,           \* where each request is
          order,          \* what it orders
          counts,         \* the redemptions it has counted
          pending,        \* promotions its loop has not reached
          applied,        \* promotions it has applied
          saved, savedFee, \* what these take off the goods and off the delivery
          row             \* the amounts of its order row

vars == <<offer, redeemed, step, order, counts, pending, applied, saved, savedFee, row>>

MaybeNat == Nat \cup {NULL}

OfferRows ==
  [type : {"percentage", "fixed_amount", "free_delivery", "unsupported"},
   value : Nat, minOrder : Nat, cap : MaybeNat, priority : Int,
   group : Groups \cup {NoGroup}, incompatible : SUBSET Groups, couponCompatible : BOOLEAN,
   eligible : SUBSET Items, excluded : SUBSET Items,
   totalLimit : MaybeNat, customerLimit : MaybeNat]

\* A coupon's cap of 0 is no cap, as null is.
Coupons == [type : {"percentage", "fixed_amount", "free_delivery"},
            value : Nat, minOrder : Nat, cap : Nat]

\* The amounts are the sums over the lines of the cart; line is what they
\* were computed from.
IsOrder(o) ==
  /\ o.customer \in Customers /\ o.items \subseteq Items /\ o.pos \in BOOLEAN
  /\ o.coupon = NoCoupon \/ o.coupon \in Coupons
  /\ o.subtotal \in Nat /\ o.options \in Int /\ o.fee \in Nat
  /\ o.subtotal + o.options \in Nat    \* no unit price is negative
  /\ o.pos => o.fee = 0 /\ o.coupon = NoCoupon

ASSUME TotalsAssumption ==
  /\ IsFiniteSet(Requests)
  /\ Promos \subseteq Nat
  /\ NULL \notin Nat /\ NoGroup \notin Groups /\ NoCoupon \notin Coupons
  /\ NoOrder \notin Orders
  /\ \A p \in Promos : Offers[p] \subseteq OfferRows
  /\ \A o \in Orders : IsOrder(o)
  /\ MinimumOrder \in Nat /\ TaxRate \in Nat /\ TaxExcluded \in BOOLEAN

Lower(a, b)  == IF a <= b THEN a ELSE b
Higher(a, b) == IF a >= b THEN a ELSE b
Goods(o)     == o.subtotal + o.options
Percent(amount, value) == (amount * value) \div 100

(***************************************************************************)
(* Promotions.                                                             *)
(***************************************************************************)

Before(p, q) ==
  \/ offer[p].priority > offer[q].priority
  \/ offer[p].priority = offer[q].priority /\ p < q

Reached(uses, limit) == limit # NULL /\ Cardinality(uses) >= limit

LinesEligible(f, o) ==
  /\ f.excluded \cap o.items = {}
  /\ f.eligible = {} \/ f.eligible \cap o.items # {}

Qualifies(r, p) ==
  /\ Goods(order[r]) >= offer[p].minOrder
  /\ ~Reached(counts[r][p], offer[p].totalLimit)
  /\ ~Reached({q \in counts[r][p] : order[q].customer = order[r].customer},
              offer[p].customerLimit)
  /\ LinesEligible(offer[p], order[r])
  /\ order[r].coupon # NoCoupon => offer[p].couponCompatible

\* Two promotions that may not be combined.  One without a group has a group
\* of its own, which nobody lists.
Conflict(p, q) ==
  \/ offer[p].group # NoGroup /\ offer[p].group = offer[q].group
  \/ offer[q].group \in offer[p].incompatible
  \/ offer[p].group \in offer[q].incompatible

Discount(f, o) ==
  LET plain == CASE f.type = "percentage"   -> Percent(Goods(o), f.value)
                 [] f.type = "fixed_amount" -> f.value
                 [] OTHER                   -> 0
  IN  Lower(Goods(o), IF f.cap = NULL THEN plain ELSE Lower(plain, f.cap))

DeliveryDiscount(f, o) == IF f.type = "free_delivery" THEN o.fee ELSE 0

Saves(r, p) == Discount(offer[p], order[r]) + DeliveryDiscount(offer[p], order[r]) > 0

\* A fault: only the promotion that comes later is asked what it goes with.
ApplicableOneWay(r, p) ==
  /\ Qualifies(r, p) /\ Saves(r, p)
  /\ \A q \in applied[r] :
       /\ offer[q].group \notin offer[p].incompatible
       /\ offer[p].group # NoGroup => offer[p].group # offer[q].group

Applicable(r, p) ==
  Qualifies(r, p) /\ Saves(r, p) /\ \A q \in applied[r] : ~Conflict(q, p)

(***************************************************************************)
(* Totals.                                                                 *)
(***************************************************************************)

CouponDiscount(c, goods) ==
  IF goods < c.minOrder THEN 0
  ELSE CASE c.type = "percentage" /\ c.cap = 0 -> Percent(goods, c.value)
         [] c.type = "percentage" /\ c.cap > 0 -> Lower(Percent(goods, c.value), c.cap)
         [] c.type = "fixed_amount"            -> Lower(c.value, goods)
         [] c.type = "free_delivery"           -> 0

\* OrderTotalsService.calculate
Calculate(o, promotion, coupon, delivery) ==
  LET taxable == Higher(0, Goods(o) + o.fee - promotion - coupon - Lower(o.fee, delivery))
      tax     == IF TaxExcluded THEN (taxable * TaxRate + 5000) \div 10000 ELSE 0
  IN  [tax |-> tax, total |-> Higher(0, taxable + tax)]

\* A fault: the discount of the row counts free delivery twice.
OrderRowTwice(o, onGoods, onFee) ==
  LET promotion == Lower(Goods(o), onGoods)
      coupon    == IF o.coupon = NoCoupon THEN 0 ELSE CouponDiscount(o.coupon, Goods(o))
      couponFee == IF o.coupon # NoCoupon /\ o.coupon.type = "free_delivery" THEN o.fee ELSE 0
      delivery  == Lower(o.fee, onFee) + couponFee
      totals    == Calculate(o, promotion, coupon, delivery)
  IN  [subtotal |-> o.subtotal, options |-> o.options, fee |-> o.fee,
       discount |-> promotion + coupon + delivery,
       promotion |-> promotion, coupon |-> coupon, delivery |-> delivery,
       tax |-> totals.tax, total |-> totals.total]

\* The amounts of the order row.
OrderRow(o, onGoods, onFee) ==
  LET promotion == Lower(Goods(o), onGoods)
      coupon    == IF o.coupon = NoCoupon THEN 0 ELSE CouponDiscount(o.coupon, Goods(o))
      couponFee == IF o.coupon # NoCoupon /\ o.coupon.type = "free_delivery" THEN o.fee ELSE 0
      delivery  == Lower(o.fee, Lower(o.fee, onFee) + couponFee)
      totals    == Calculate(o, promotion, coupon, delivery)
  IN  [subtotal |-> o.subtotal, options |-> o.options, fee |-> o.fee,
       discount |-> promotion + coupon + delivery,
       promotion |-> promotion, coupon |-> coupon, delivery |-> delivery,
       tax |-> totals.tax, total |-> totals.total]

NoRow == [subtotal |-> 0, options |-> 0, fee |-> 0, discount |-> 0, promotion |-> 0,
          coupon |-> 0, delivery |-> 0, tax |-> 0, total |-> 0]

\* The CHECKs of the table orders.
Storable(t) ==
  /\ t.subtotal >= 0 /\ t.options >= 0 /\ t.fee >= 0 /\ t.tax >= 0 /\ t.total >= 0
  /\ t.discount >= 0 /\ t.promotion >= 0 /\ t.coupon >= 0
  /\ t.total = Higher(0, t.subtotal + t.options + t.fee + t.tax - t.discount)

(***************************************************************************)
(* Requests.                                                               *)
(***************************************************************************)

Steps == {"idle", "waiting", "evaluating", "totalled", "placed", "refused"}

\* The locks on the promotions are kept to the end of the transaction.
HoldsPromotions(r) == step[r] \in {"evaluating", "totalled"} /\ ~order[r].pos

Init ==
  /\ offer \in {f \in [Promos -> UNION {Offers[p] : p \in Promos}] :
                  \A p \in Promos : f[p] \in Offers[p]}
  /\ redeemed = [p \in Promos |-> {}]
  /\ step = [r \in Requests |-> "idle"]
  /\ order = [r \in Requests |-> NoOrder]
  /\ counts = [r \in Requests |-> [p \in Promos |-> {}]]
  /\ pending = [r \in Requests |-> {}]
  /\ applied = [r \in Requests |-> {}]
  /\ saved = [r \in Requests |-> 0]
  /\ savedFee = [r \in Requests |-> 0]
  /\ row = [r \in Requests |-> NoRow]

\* A request arrives and its cart has been priced.
Request(r, o) ==
  /\ step[r] = "idle"
  /\ o.pos \/ Goods(o) >= MinimumOrder
  /\ step' = [step EXCEPT ![r] = "waiting"]
  /\ order' = [order EXCEPT ![r] = o]
  /\ UNCHANGED <<offer, redeemed, counts, pending, applied, saved, savedFee, row>>

\* A fault: promotions are read without a lock.
LockPromotionsUnlocked(r) ==
  /\ step[r] = "waiting" /\ ~order[r].pos
  /\ step' = [step EXCEPT ![r] = "evaluating"]
  /\ counts' = [counts EXCEPT ![r] = redeemed]
  /\ pending' = [pending EXCEPT ![r] = Promos]
  /\ UNCHANGED <<offer, redeemed, order, applied, saved, savedFee, row>>

\* SELECT ... FOR UPDATE of the promotions, then the count of their redemptions.
LockPromotions(r) ==
  /\ step[r] = "waiting" /\ ~order[r].pos
  /\ \A q \in Requests : ~HoldsPromotions(q)
  /\ step' = [step EXCEPT ![r] = "evaluating"]
  /\ counts' = [counts EXCEPT ![r] = redeemed]
  /\ pending' = [pending EXCEPT ![r] = Promos]
  /\ UNCHANGED <<offer, redeemed, order, applied, saved, savedFee, row>>

\* One round of the loop.
Consider(r, p) ==
  /\ step[r] = "evaluating" /\ p \in pending[r]
  /\ \A q \in pending[r] : q # p => Before(p, q)
  /\ pending' = [pending EXCEPT ![r] = @ \ {p}]
  /\ \/ /\ Applicable(r, p)
        /\ applied' = [applied EXCEPT ![r] = @ \cup {p}]
        /\ saved' = [saved EXCEPT ![r] = @ + Discount(offer[p], order[r])]
        /\ savedFee' = [savedFee EXCEPT ![r] = @ + DeliveryDiscount(offer[p], order[r])]
     \/ ~Applicable(r, p) /\ UNCHANGED <<applied, saved, savedFee>>
  /\ UNCHANGED <<offer, redeemed, step, order, counts, row>>

\* POS orders have no discounts, so nothing is evaluated for them.
Total(r) ==
  /\ \/ step[r] = "evaluating" /\ pending[r] = {}
     \/ step[r] = "waiting" /\ order[r].pos
  /\ step' = [step EXCEPT ![r] = "totalled"]
  /\ row' = [row EXCEPT ![r] = OrderRow(order[r], saved[r], savedFee[r])]
  /\ UNCHANGED <<offer, redeemed, order, counts, pending, applied, saved, savedFee>>

\* The order and the redemptions are inserted, the transaction commits.
Place(r) ==
  /\ step[r] = "totalled" /\ Storable(row[r])
  /\ step' = [step EXCEPT ![r] = "placed"]
  /\ redeemed' = [p \in Promos |->
                    IF p \in applied[r] THEN redeemed[p] \cup {r} ELSE redeemed[p]]
  /\ UNCHANGED <<offer, order, counts, pending, applied, saved, savedFee, row>>

\* The restaurant is closed, a row violates a CHECK, the process dies: the
\* transaction rolls back.
Refuse(r) ==
  /\ step[r] \in {"waiting", "evaluating", "totalled"}
  /\ step' = [step EXCEPT ![r] = "refused"]
  /\ UNCHANGED <<offer, redeemed, order, counts, pending, applied, saved, savedFee, row>>

Next ==
  \E r \in Requests :
     \/ \E o \in Orders : Request(r, o)
     \/ LockPromotions(r)
     \/ \E p \in Promos : Consider(r, p)
     \/ Total(r)
     \/ Place(r)
     \/ Refuse(r)

Spec == Init /\ [][Next]_vars

(***************************************************************************)
(* Properties.                                                             *)
(***************************************************************************)

\* Types, and that the sums never run below zero.
TypeOK ==
  /\ offer \in [Promos -> OfferRows] /\ redeemed \in [Promos -> SUBSET Requests]
  /\ step \in [Requests -> Steps] /\ DOMAIN order = Requests
  /\ counts \in [Requests -> [Promos -> SUBSET Requests]]
  /\ pending \in [Requests -> SUBSET Promos] /\ applied \in [Requests -> SUBSET Promos]
  /\ saved \in [Requests -> Nat] /\ savedFee \in [Requests -> Nat]
  /\ \A r \in Requests : step[r] # "idle" => order[r] # NoOrder /\ IsOrder(order[r])

Evaluated(r) ==
  step[r] \in {"evaluating", "totalled", "placed"} /\ ~order[r].pos /\ pending[r] = {}

\* The stacking policy: of promotions that may not be combined only one is
\* applied, and one that qualifies is left out only for one that comes before
\* it by priority, then id.  The loop sees only what it has applied so far.
StackingPolicy ==
  \A r \in Requests : Evaluated(r) =>
     /\ \A p, q \in applied[r] : p # q => ~Conflict(p, q)
     /\ \A p \in applied[r] : Qualifies(r, p)
     /\ \A p \in Promos \ applied[r] :
          Qualifies(r, p) /\ Saves(r, p) =>
            \E q \in applied[r] : Conflict(q, p) /\ Before(q, p)

\* No promotion is redeemed beyond its limits, however many checkouts count
\* and commit at the same time.
PromotionsWithinLimits ==
  \A p \in Promos :
     /\ offer[p].totalLimit # NULL => Cardinality(redeemed[p]) <= offer[p].totalLimit
     /\ offer[p].customerLimit # NULL =>
          \A u \in Customers :
             Cardinality({r \in redeemed[p] : order[r].customer = u}) <= offer[p].customerLimit

\* Whatever combination of promotions, coupon, fee and tax an order has, the
\* amounts agree with the CHECKs of its table; only option charges, which a
\* choice with a negative price can make negative, may be refused.
TotalsAreStorable ==
  \A r \in Requests :
     step[r] \in {"totalled", "placed"} /\ order[r].options >= 0 => Storable(row[r])
=============================================================================
