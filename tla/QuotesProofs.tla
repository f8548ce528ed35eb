---------------------------- MODULE QuotesProofs ----------------------------
(***************************************************************************)
(* Theorems about prices, promotions and totals, for any menu, promotions, *)
(* orders and number of requests: types, stacking, limits, that what is    *)
(* totalled can be stored, that more does not cost less, and that what can *)
(* be ordered is shown.                                                    *)
(***************************************************************************)
EXTENDS Quotes, FiniteSetTheorems, TLAPS

(***************************************************************************)
(* Types, with what is known of requests that evaluate nothing, and that   *)
(* only orders that were placed are ever counted.                          *)
(***************************************************************************)

NothingApplied ==
  \A r \in Requests :
     step[r] \in {"idle", "waiting"} \/ (step[r] # "idle" /\ order[r].pos) => applied[r] = {}

OnlyPlacedCount ==
  /\ \A p \in Promos : \A q \in redeemed[p] : step[q] = "placed"
  /\ \A r \in Requests : \A p \in Promos : \A q \in counts[r][p] : step[q] = "placed"

OnlyCheckoutsEvaluate == \A r \in Requests : step[r] = "evaluating" => ~order[r].pos

TypeInv == TypeOK /\ NothingApplied /\ OnlyPlacedCount /\ OnlyCheckoutsEvaluate

LEMMA GoodsAreNat == ASSUME NEW o, IsOrder(o) PROVE Goods(o) \in Nat
BY DEF IsOrder, Goods

LEMMA PercentIsNat ==
  ASSUME NEW amount \in Nat, NEW value \in Nat PROVE Percent(amount, value) \in Nat
<1>1. amount * value \in Nat
  OBVIOUS
<1>2. \A n \in Nat : n \div 100 \in Nat
  OBVIOUS
<1> QED
  BY <1>1, <1>2 DEF Percent

\* What a promotion takes off is a natural number, whatever its row holds.
LEMMA DiscountsAreNat ==
  ASSUME NEW f \in OfferRows, NEW o, IsOrder(o)
  PROVE  Discount(f, o) \in Nat /\ DeliveryDiscount(f, o) \in Nat
<1>1. Goods(o) \in Nat
  BY GoodsAreNat
<1>2. f.value \in Nat /\ f.cap \in Nat \cup {NULL}
  BY DEF OfferRows, MaybeNat
<1>3. Percent(Goods(o), f.value) \in Nat
  BY <1>1, <1>2, PercentIsNat
<1> DEFINE plain == CASE f.type = "percentage"   -> Percent(Goods(o), f.value)
                      [] f.type = "fixed_amount" -> f.value
                      [] OTHER                   -> 0
<1>4. plain \in Nat
  BY <1>2, <1>3
<1>5. Discount(f, o) = Lower(Goods(o), IF f.cap = NULL THEN plain ELSE Lower(plain, f.cap))
  BY DEF Discount
<1> HIDE DEF plain
<1>6. Discount(f, o) \in Nat
  BY <1>1, <1>2, <1>4, <1>5 DEF Lower
<1>7. DeliveryDiscount(f, o) \in Nat
  BY DEF DeliveryDiscount, IsOrder
<1> QED
  BY <1>6, <1>7

LEMMA TypeInit == Init => TypeInv
<1> SUFFICES ASSUME Init PROVE TypeInv
  OBVIOUS
<1>1. offer \in [Promos -> OfferRows]
  BY TotalsAssumption DEF Init
<1>2. TypeOK
  BY <1>1 DEF Init, TypeOK, Steps
<1>3. NothingApplied /\ OnlyPlacedCount /\ OnlyCheckoutsEvaluate
  BY DEF Init, NothingApplied, OnlyPlacedCount, OnlyCheckoutsEvaluate
<1> QED
  BY <1>2, <1>3 DEF TypeInv

LEMMA RequestType ==
  ASSUME TypeInv, NEW r \in Requests, NEW o \in Orders, Request(r, o) PROVE TypeInv'
<1> USE DEF TypeInv
<1>1. IsOrder(o) /\ o # NoOrder
  BY TotalsAssumption
<1>2. TypeOK'
  BY <1>1 DEF TypeOK, Request, Steps
<1>3. NothingApplied'
  BY DEF TypeOK, NothingApplied, Request
<1>4. OnlyPlacedCount' /\ OnlyCheckoutsEvaluate'
  BY DEF TypeOK, OnlyPlacedCount, OnlyCheckoutsEvaluate, Request
<1> QED
  BY <1>2, <1>3, <1>4

LEMMA LockType ==
  ASSUME TypeInv, NEW r \in Requests, LockPromotions(r) PROVE TypeInv'
<1> USE DEF TypeInv
<1>1. TypeOK'
  BY DEF TypeOK, LockPromotions, Steps
<1>2. NothingApplied'
  BY DEF TypeOK, NothingApplied, LockPromotions
<1>3. OnlyPlacedCount' /\ OnlyCheckoutsEvaluate'
  BY DEF TypeOK, OnlyPlacedCount, OnlyCheckoutsEvaluate, LockPromotions
<1> QED
  BY <1>1, <1>2, <1>3

LEMMA ConsiderType ==
  ASSUME TypeInv, NEW r \in Requests, NEW p \in Promos, Consider(r, p) PROVE TypeInv'
<1> USE DEF TypeInv
<1>1. IsOrder(order[r]) /\ offer[p] \in OfferRows
  BY DEF TypeOK, Consider
<1>2. /\ Discount(offer[p], order[r]) \in Nat
      /\ DeliveryDiscount(offer[p], order[r]) \in Nat
  BY <1>1, DiscountsAreNat
<1>3. PICK d \in Nat, e \in Nat :
        /\ saved' = saved \/ saved' = [saved EXCEPT ![r] = saved[r] + d]
        /\ savedFee' = savedFee \/ savedFee' = [savedFee EXCEPT ![r] = savedFee[r] + e]
  BY <1>2 DEF Consider
<1>s. applied' = applied \/ applied' = [applied EXCEPT ![r] = applied[r] \cup {p}]
  BY DEF Consider
<1>4. saved' \in [Requests -> Nat] /\ savedFee' \in [Requests -> Nat]
  <2>1. saved \in [Requests -> Nat] /\ savedFee \in [Requests -> Nat]
    BY DEF TypeOK
  <2>2. saved[r] + d \in Nat /\ savedFee[r] + e \in Nat
    BY <2>1
  <2>3. /\ [saved EXCEPT ![r] = saved[r] + d] \in [Requests -> Nat]
        /\ [savedFee EXCEPT ![r] = savedFee[r] + e] \in [Requests -> Nat]
    BY <2>1, <2>2
  <2> QED
    BY <1>3, <2>1, <2>3
<1>5. TypeOK'
  <2>1. applied' \in [Requests -> SUBSET Promos]
    <3>1. applied \in [Requests -> SUBSET Promos]
      BY DEF TypeOK
    <3>2. [applied EXCEPT ![r] = applied[r] \cup {p}] \in [Requests -> SUBSET Promos]
      BY <3>1
    <3> QED
      BY <1>s, <3>1, <3>2
  <2>2. pending' \in [Requests -> SUBSET Promos]
    BY DEF TypeOK, Consider
  <2>3. UNCHANGED <<offer, redeemed, step, order, counts>>
    BY DEF Consider
  <2> QED
    BY <1>4, <2>1, <2>2, <2>3 DEF TypeOK
<1>6. ~order[r].pos /\ step[r] = "evaluating"
  BY DEF OnlyCheckoutsEvaluate, Consider
<1>7. NothingApplied'
  BY <1>s, <1>6 DEF TypeOK, NothingApplied, Consider
<1>u. UNCHANGED <<redeemed, step, order, counts>>
  BY DEF Consider
<1>8. OnlyPlacedCount'
  BY <1>u DEF OnlyPlacedCount
<1>9. OnlyCheckoutsEvaluate'
  BY <1>u DEF OnlyCheckoutsEvaluate
<1> QED
  BY <1>5, <1>7, <1>8, <1>9

LEMMA TotalType == ASSUME TypeInv, NEW r \in Requests, Total(r) PROVE TypeInv'
<1> USE DEF TypeInv
<1>1. TypeOK'
  BY DEF TypeOK, Total, Steps
<1>2. NothingApplied'
  BY DEF TypeOK, NothingApplied, Total
<1>3. OnlyPlacedCount' /\ OnlyCheckoutsEvaluate'
  BY DEF TypeOK, OnlyPlacedCount, OnlyCheckoutsEvaluate, Total
<1> QED
  BY <1>1, <1>2, <1>3

LEMMA PlaceType == ASSUME TypeInv, NEW r \in Requests, Place(r) PROVE TypeInv'
<1> USE DEF TypeInv
<1>1. TypeOK'
  BY DEF TypeOK, Place, Steps
<1>2. NothingApplied'
  BY DEF TypeOK, NothingApplied, Place
<1>3. OnlyPlacedCount' /\ OnlyCheckoutsEvaluate'
  BY DEF TypeOK, OnlyPlacedCount, OnlyCheckoutsEvaluate, Place
<1> QED
  BY <1>1, <1>2, <1>3

LEMMA RefuseType == ASSUME TypeInv, NEW r \in Requests, Refuse(r) PROVE TypeInv'
<1> USE DEF TypeInv
<1>1. TypeOK'
  BY DEF TypeOK, Refuse, Steps
<1>2. NothingApplied'
  BY DEF TypeOK, NothingApplied, Refuse
<1>3. OnlyPlacedCount' /\ OnlyCheckoutsEvaluate'
  BY DEF TypeOK, OnlyPlacedCount, OnlyCheckoutsEvaluate, Refuse
<1> QED
  BY <1>1, <1>2, <1>3

LEMMA TypeStep == TypeInv /\ [Next]_vars => TypeInv'
<1> SUFFICES ASSUME TypeInv, [Next]_vars PROVE TypeInv'
  OBVIOUS
<1>1. ASSUME UNCHANGED vars PROVE TypeInv'
  BY <1>1 DEF vars, TypeInv, TypeOK, NothingApplied, OnlyPlacedCount, OnlyCheckoutsEvaluate
<1> QED
  BY <1>1, RequestType, LockType, ConsiderType, TotalType, PlaceType, RefuseType DEF Next

\* Types, for any promotions, orders and number of requests; the sums of the
\* discounts never run below zero.
THEOREM TotalsTypeCorrect == Spec => []TypeOK
<1>1. TypeInv => TypeOK
  BY DEF TypeInv
<1> QED
  BY <1>1, TypeInit, TypeStep, PTL DEF Spec

(***************************************************************************)
(* Stacking.                                                               *)
(***************************************************************************)

Considering(r) ==
  step[r] \in {"evaluating", "totalled", "placed"} /\ ~order[r].pos

\* What has been considered comes before what has not.
InOrder(r) ==
  /\ applied[r] \cap pending[r] = {}
  /\ \A p \in Promos \ pending[r] : \A q \in pending[r] : Before(p, q)

Combinable(r) == \A p, q \in applied[r] : p # q => ~Conflict(p, q)

\* What was left out had a reason.
Justified(r) ==
  /\ \A p \in applied[r] : Qualifies(r, p)
  /\ \A p \in Promos \ (applied[r] \cup pending[r]) :
       Qualifies(r, p) /\ Saves(r, p) => \E q \in applied[r] : Conflict(q, p) /\ Before(q, p)

Stacked(r) == InOrder(r) /\ Combinable(r) /\ Justified(r)

StackInv == \A r \in Requests : Considering(r) => Stacked(r)

\* Orders do not change once they have been read.
OrdersStay ==
  /\ offer' = offer
  /\ \A q \in Requests : step[q] # "idle" => order'[q] = order[q]

LEMMA StepKeepsOrders ==
  ASSUME TypeInv, [Next]_vars PROVE OrdersStay
<1>1. ASSUME NEW r \in Requests, NEW o \in Orders, Request(r, o) PROVE OrdersStay
  BY <1>1 DEF TypeInv, TypeOK, Request, OrdersStay
<1>2. ASSUME offer' = offer, order' = order PROVE OrdersStay
  BY <1>2 DEF OrdersStay
<1> QED
  BY <1>1, <1>2 DEF Next, vars, LockPromotions, Consider, Total, Place, Refuse

\* A request sees the same promotions for as long as it evaluates them.
LEMMA QualifiesStays ==
  ASSUME TypeInv, OrdersStay, NEW r \in Requests, step[r] # "idle", counts'[r] = counts[r]
  PROVE  /\ \A p \in Promos : Qualifies(r, p)' <=> Qualifies(r, p)
         /\ \A p \in Promos : Saves(r, p)' <=> Saves(r, p)
<1>1. order'[r] = order[r] /\ offer' = offer
  BY DEF OrdersStay
<1>2. ASSUME NEW p \in Promos
      PROVE  {q \in counts'[r][p] : order'[q].customer = order'[r].customer}
               = {q \in counts[r][p] : order[q].customer = order[r].customer}
  <2>1. \A q \in counts[r][p] : q \in Requests /\ step[q] = "placed"
    BY DEF TypeInv, TypeOK, OnlyPlacedCount
  <2>2. \A q \in counts[r][p] : order'[q] = order[q]
    BY <2>1 DEF OrdersStay
  <2> QED
    BY <1>1, <2>2
<1>3. ASSUME NEW p \in Promos PROVE Qualifies(r, p)' <=> Qualifies(r, p)
  <2>1. /\ Goods(order[r])' = Goods(order[r])
        /\ LinesEligible(offer[p], order[r])' <=> LinesEligible(offer[p], order[r])
    BY <1>1 DEF Goods, LinesEligible
  <2> QED
    BY <1>1, <1>2, <2>1 DEF Qualifies, Reached
<1>4. ASSUME NEW p \in Promos PROVE Saves(r, p)' <=> Saves(r, p)
  BY <1>1 DEF Saves, Discount, DeliveryDiscount, Goods
<1> QED
  BY <1>3, <1>4

LEMMA StackStays ==
  ASSUME TypeInv, OrdersStay, NEW r \in Requests, Considering(r), Stacked(r),
         counts'[r] = counts[r], pending'[r] = pending[r], applied'[r] = applied[r]
  PROVE  Stacked(r)'
<1>1. step[r] # "idle" /\ offer' = offer
  BY DEF Considering, OrdersStay
<1>2. /\ \A p \in Promos : Qualifies(r, p)' <=> Qualifies(r, p)
      /\ \A p \in Promos : Saves(r, p)' <=> Saves(r, p)
  BY <1>1, QualifiesStays
<1>3. \A p, q \in Promos : (Conflict(p, q)' <=> Conflict(p, q)) /\ (Before(p, q)' <=> Before(p, q))
  BY <1>1 DEF Conflict, Before
<1>4. applied[r] \subseteq Promos /\ pending[r] \subseteq Promos
  BY DEF TypeInv, TypeOK
<1>5. InOrder(r)'
  BY <1>3, <1>4 DEF Stacked, InOrder
<1>6. Combinable(r)'
  BY <1>3, <1>4 DEF Stacked, Combinable
<1>7. Justified(r)'
  BY <1>2, <1>3, <1>4 DEF Stacked, Justified
<1> QED
  BY <1>5, <1>6, <1>7 DEF Stacked

\* One round of the loop keeps the policy.
LEMMA ConsiderStacks ==
  ASSUME TypeInv, OrdersStay, NEW r \in Requests, NEW p \in Promos, Consider(r, p),
         Stacked(r)
  PROVE  Stacked(r)'
<1>1. /\ step[r] = "evaluating" /\ p \in pending[r]
      /\ \A q \in pending[r] : q # p => Before(p, q)
      /\ pending'[r] = pending[r] \ {p}
      /\ counts' = counts /\ offer' = offer
  BY DEF Consider, TypeInv, TypeOK
<1>2. /\ \A q \in Promos : Qualifies(r, q)' <=> Qualifies(r, q)
      /\ \A q \in Promos : Saves(r, q)' <=> Saves(r, q)
  BY <1>1, QualifiesStays
<1>3. \A a, b \in Promos : (Conflict(a, b)' <=> Conflict(a, b)) /\ (Before(a, b)' <=> Before(a, b))
  BY <1>1 DEF Conflict, Before
<1>4. applied[r] \subseteq Promos /\ pending[r] \subseteq Promos
  BY DEF TypeInv, TypeOK
<1>5. \A a, b \in Promos : Conflict(a, b) <=> Conflict(b, a)
  BY DEF Conflict
<1>6. p \notin applied[r] /\ \A q \in applied[r] : Before(q, p)
  BY <1>1, <1>4 DEF Stacked, InOrder
<1>7. CASE Applicable(r, p) /\ applied'[r] = applied[r] \cup {p}
  <2>1. InOrder(r)'
    BY <1>1, <1>3, <1>4, <1>7 DEF Stacked, InOrder
  <2>2. Combinable(r)'
    BY <1>3, <1>4, <1>5, <1>7 DEF Stacked, Combinable, Applicable
  <2>3. Justified(r)'
    BY <1>1, <1>2, <1>3, <1>4, <1>7 DEF Stacked, Justified, Applicable
  <2> QED
    BY <2>1, <2>2, <2>3 DEF Stacked
<1>8. CASE ~Applicable(r, p) /\ applied'[r] = applied[r]
  <2>1. InOrder(r)'
    BY <1>1, <1>3, <1>4, <1>8 DEF Stacked, InOrder
  <2>2. Combinable(r)'
    BY <1>3, <1>4, <1>8 DEF Stacked, Combinable
  <2>3. Qualifies(r, p) /\ Saves(r, p) => \E q \in applied[r] : Conflict(q, p) /\ Before(q, p)
    BY <1>6, <1>8 DEF Applicable
  <2>4. Justified(r)'
    BY <1>1, <1>2, <1>3, <1>4, <1>8, <2>3 DEF Stacked, Justified
  <2> QED
    BY <2>1, <2>2, <2>4 DEF Stacked
<1>9. \/ Applicable(r, p) /\ applied'[r] = applied[r] \cup {p}
      \/ ~Applicable(r, p) /\ applied'[r] = applied[r]
  BY DEF Consider, TypeInv, TypeOK
<1> QED
  BY <1>7, <1>8, <1>9

LEMMA StackInit == Init => StackInv
BY DEF Init, StackInv, Considering

LEMMA StackStep == TypeInv /\ StackInv /\ [Next]_vars => StackInv'
<1> SUFFICES ASSUME TypeInv, StackInv, [Next]_vars, NEW s \in Requests, Considering(s)'
             PROVE  Stacked(s)'
  BY DEF StackInv
<1>t. /\ step \in [Requests -> Steps] /\ counts \in [Requests -> [Promos -> SUBSET Requests]]
      /\ pending \in [Requests -> SUBSET Promos] /\ applied \in [Requests -> SUBSET Promos]
      /\ DOMAIN order = Requests
  BY DEF TypeInv, TypeOK
<1>o. OrdersStay
  BY StepKeepsOrders
<1>1. ASSUME Considering(s), counts'[s] = counts[s], pending'[s] = pending[s],
             applied'[s] = applied[s]
      PROVE  Stacked(s)'
  BY <1>1, <1>o, StackStays DEF StackInv
<1>2. ASSUME NEW r \in Requests, NEW o \in Orders, Request(r, o) PROVE Stacked(s)'
  <2>1. s # r /\ Considering(s)
    BY <1>2, <1>t DEF Request, Considering
  <2> QED
    BY <1>1, <1>2, <2>1 DEF Request
<1>3. ASSUME NEW r \in Requests, LockPromotions(r) PROVE Stacked(s)'
  <2>1. CASE s = r
    <3>1. pending'[s] = Promos /\ applied'[s] = {}
      BY <1>3, <1>t, <2>1 DEF LockPromotions, TypeInv, NothingApplied
    <3> QED
      BY <3>1 DEF Stacked, InOrder, Combinable, Justified
  <2>2. CASE s # r
    <3>1. Considering(s) /\ counts'[s] = counts[s] /\ pending'[s] = pending[s]
      BY <1>3, <1>t, <2>2 DEF LockPromotions, Considering
    <3> QED
      BY <1>1, <1>3, <3>1 DEF LockPromotions
  <2> QED
    BY <2>1, <2>2
<1>4. ASSUME NEW r \in Requests, NEW p \in Promos, Consider(r, p) PROVE Stacked(s)'
  <2>1. Considering(s) /\ counts'[s] = counts[s]
    BY <1>4 DEF Consider, Considering
  <2>2. CASE s = r
    BY <1>4, <1>o, <2>1, <2>2, ConsiderStacks DEF StackInv
  <2>3. CASE s # r
    <3>1. pending'[s] = pending[s] /\ applied'[s] = applied[s]
      BY <1>4, <1>t, <2>3 DEF Consider
    <3> QED
      BY <1>1, <2>1, <3>1
  <2> QED
    BY <2>2, <2>3
<1>5. ASSUME NEW r \in Requests, Total(r) \/ Place(r) \/ Refuse(r) PROVE Stacked(s)'
  <2>1. Considering(s)
    BY <1>5, <1>t DEF Total, Place, Refuse, Considering
  <2>2. UNCHANGED <<counts, pending, applied>>
    BY <1>5 DEF Total, Place, Refuse
  <2> QED
    BY <1>1, <2>1, <2>2
<1>6. CASE UNCHANGED vars
  BY <1>1, <1>6 DEF vars, Considering
<1> QED
  BY <1>2, <1>3, <1>4, <1>5, <1>6 DEF Next

\* The promotions of an order are a choice the stacking policy allows, for any
\* promotions, groups and priorities.
THEOREM StackingCorrect == Spec => []StackingPolicy
<1>1. ASSUME TypeInv, StackInv PROVE StackingPolicy
  <2> SUFFICES ASSUME NEW r \in Requests, Evaluated(r)
               PROVE  /\ \A p, q \in applied[r] : p # q => ~Conflict(p, q)
                      /\ \A p \in applied[r] : Qualifies(r, p)
                      /\ \A p \in Promos \ applied[r] :
                           Qualifies(r, p) /\ Saves(r, p) =>
                             \E q \in applied[r] : Conflict(q, p) /\ Before(q, p)
    BY DEF StackingPolicy
  <2>1. Stacked(r) /\ pending[r] = {}
    BY <1>1 DEF Evaluated, Considering, StackInv
  <2> QED
    BY <2>1 DEF Stacked, Combinable, Justified
<1> QED
  BY <1>1, TypeInit, StackInit, TypeStep, StackStep, PTL DEF Spec

(***************************************************************************)
(* Limits.                                                                 *)
(***************************************************************************)

\* Who holds the promotions is alone, and nobody has redeemed one since its count.
CountIsFresh ==
  \A r \in Requests : HoldsPromotions(r) =>
     /\ counts[r] = redeemed
     /\ \A q \in Requests \ {r} : ~HoldsPromotions(q)

LimitInv == CountIsFresh /\ PromotionsWithinLimits

\* A limit that has not been reached admits one more.
LEMMA OneMoreRedemption ==
  ASSUME NEW S, IsFiniteSet(S), NEW r, NEW limit \in Nat, ~Reached(S, limit)
  PROVE  Cardinality(S \cup {r}) <= limit
<1>1. Cardinality(S) \in Nat
  BY FS_CardinalityType
<1>2. Cardinality(S \cup {r}) = IF r \in S THEN Cardinality(S) ELSE Cardinality(S) + 1
  BY FS_AddElement
<1>3. ~(Cardinality(S) >= limit)
  BY TotalsAssumption DEF Reached
<1> DEFINE n == Cardinality(S)
<1>4. n \in Nat /\ ~(n >= limit) /\ Cardinality(S \cup {r}) \in {n, n + 1}
  BY <1>1, <1>2, <1>3
<1> HIDE DEF n
<1> QED
  BY <1>4

LEMMA LimitInit == Init => LimitInv
<1> SUFFICES ASSUME Init PROVE LimitInv
  OBVIOUS
<1>1. CountIsFresh
  BY DEF Init, CountIsFresh, HoldsPromotions
<1>2. \A p \in Promos : redeemed[p] = {}
  BY DEF Init
<1>3. Cardinality({}) = 0
  BY FS_EmptySet
<1>4. ASSUME NEW p \in Promos
      PROVE  offer[p].totalLimit \in MaybeNat /\ offer[p].customerLimit \in MaybeNat
  BY TypeInit DEF TypeInv, TypeOK, OfferRows
<1>5. ASSUME NEW p \in Promos, NEW u PROVE {r \in redeemed[p] : order[r].customer = u} = {}
  BY <1>2
<1>6. ASSUME NEW limit \in MaybeNat, limit # NULL PROVE Cardinality({}) <= limit
  BY <1>3, <1>6 DEF MaybeNat
<1>7. PromotionsWithinLimits
  BY <1>2, <1>4, <1>5, <1>6 DEF PromotionsWithinLimits
<1> QED
  BY <1>1, <1>7 DEF LimitInv

\* While nothing is redeemed and nobody takes the promotions, nothing changes.
LEMMA LimitStays ==
  ASSUME TypeInv, OrdersStay, LimitInv, UNCHANGED redeemed,
         \A q \in Requests : HoldsPromotions(q)' =>
            HoldsPromotions(q) /\ counts'[q] = counts[q]
  PROVE  LimitInv'
<1>1. CountIsFresh'
  BY DEF LimitInv, CountIsFresh
<1>2. ASSUME NEW p \in Promos, NEW u
      PROVE  {q \in redeemed[p] : order'[q].customer = u}
               = {q \in redeemed[p] : order[q].customer = u}
  <2>1. \A q \in redeemed[p] : q \in Requests /\ step[q] = "placed"
    BY DEF TypeInv, TypeOK, OnlyPlacedCount
  <2> QED
    BY <2>1 DEF OrdersStay
<1>3. PromotionsWithinLimits'
  BY <1>2 DEF LimitInv, PromotionsWithinLimits, OrdersStay
<1> QED
  BY <1>1, <1>3 DEF LimitInv

LEMMA LimitLock ==
  ASSUME TypeInv, OrdersStay, LimitInv, NEW r \in Requests, LockPromotions(r)
  PROVE  LimitInv'
<1>t. /\ step \in [Requests -> Steps] /\ counts \in [Requests -> [Promos -> SUBSET Requests]]
  BY DEF TypeInv, TypeOK
<1>1. /\ \A q \in Requests : ~HoldsPromotions(q)
      /\ step' = [step EXCEPT ![r] = "evaluating"]
      /\ counts' = [counts EXCEPT ![r] = redeemed]
      /\ UNCHANGED <<offer, redeemed, order>>
  BY DEF LockPromotions
<1>2. \A q \in Requests \ {r} : ~HoldsPromotions(q)'
  BY <1>1, <1>t DEF HoldsPromotions
<1>3. CountIsFresh'
  BY <1>1, <1>2, <1>t DEF CountIsFresh
<1>4. PromotionsWithinLimits'
  BY <1>1 DEF LimitInv, PromotionsWithinLimits
<1> QED
  BY <1>3, <1>4 DEF LimitInv

\* Who places an order holds the promotions it redeems and has counted them.
LEMMA LimitPlace ==
  ASSUME TypeInv, StackInv, LimitInv, NEW r \in Requests, Place(r), ~order[r].pos
  PROVE  LimitInv'
<1>t. /\ step \in [Requests -> Steps] /\ redeemed \in [Promos -> SUBSET Requests]
      /\ offer \in [Promos -> OfferRows] /\ IsOrder(order[r]) /\ applied[r] \subseteq Promos
  BY DEF TypeInv, TypeOK, Place
<1>1. /\ step[r] = "totalled" /\ step' = [step EXCEPT ![r] = "placed"]
      /\ redeemed' = [p \in Promos |-> IF p \in applied[r] THEN redeemed[p] \cup {r}
                                                            ELSE redeemed[p]]
      /\ UNCHANGED <<offer, order, counts>>
  BY DEF Place
<1>2. counts[r] = redeemed /\ \A q \in Requests \ {r} : ~HoldsPromotions(q)
  BY <1>1 DEF LimitInv, CountIsFresh, HoldsPromotions
<1>3. \A q \in Requests : ~HoldsPromotions(q)'
  BY <1>1, <1>2, <1>t DEF HoldsPromotions
<1>4. \A p \in applied[r] : Qualifies(r, p)
  BY <1>1 DEF StackInv, Considering, Stacked, Justified
<1>5. ASSUME NEW p \in Promos
      PROVE  /\ offer[p].totalLimit # NULL => Cardinality(redeemed'[p]) <= offer[p].totalLimit
             /\ offer[p].customerLimit # NULL =>
                  \A u \in Customers :
                     Cardinality({q \in redeemed'[p] : order[q].customer = u})
                       <= offer[p].customerLimit
  <2> DEFINE uses(u) == {q \in redeemed[p] : order[q].customer = u}
  <2>1. CASE p \notin applied[r]
    BY <1>1, <2>1 DEF LimitInv, PromotionsWithinLimits
  <2>2. CASE p \in applied[r]
    <3>1. redeemed'[p] = redeemed[p] \cup {r}
      BY <1>1, <2>2
    <3>2. IsFiniteSet(redeemed[p]) /\ \A u : IsFiniteSet(uses(u))
      BY <1>t, TotalsAssumption, FS_Subset
    <3>3. /\ ~Reached(redeemed[p], offer[p].totalLimit)
          /\ ~Reached(uses(order[r].customer), offer[p].customerLimit)
      BY <1>2, <1>4, <2>2 DEF Qualifies
    <3>4. offer[p].totalLimit \in MaybeNat /\ offer[p].customerLimit \in MaybeNat
      BY <1>t DEF OfferRows
    <3>5. offer[p].totalLimit # NULL => Cardinality(redeemed'[p]) <= offer[p].totalLimit
      BY <3>1, <3>2, <3>3, <3>4, OneMoreRedemption DEF MaybeNat
    <3>6. ASSUME NEW u \in Customers, offer[p].customerLimit # NULL
          PROVE  Cardinality({q \in redeemed'[p] : order[q].customer = u})
                   <= offer[p].customerLimit
      <4>1. CASE u = order[r].customer
        <5>1. {q \in redeemed'[p] : order[q].customer = u} = uses(u) \cup {r}
          BY <3>1, <4>1
        <5>2. Cardinality(uses(u) \cup {r}) <= offer[p].customerLimit
          BY <3>2, <3>3, <3>4, <3>6, <4>1, OneMoreRedemption DEF MaybeNat
        <5> QED
          BY <5>1, <5>2
      <4>2. CASE u # order[r].customer
        <5>1. {q \in redeemed'[p] : order[q].customer = u} = uses(u)
          BY <3>1, <4>2
        <5> QED
          BY <3>6, <5>1 DEF LimitInv, PromotionsWithinLimits
      <4> QED
        BY <4>1, <4>2
    <3> QED
      BY <3>5, <3>6
  <2> QED
    BY <2>1, <2>2
<1>6. PromotionsWithinLimits'
  BY <1>1, <1>5 DEF PromotionsWithinLimits
<1>7. CountIsFresh'
  BY <1>3 DEF CountIsFresh
<1> QED
  BY <1>6, <1>7 DEF LimitInv

LEMMA LimitStep == TypeInv /\ StackInv /\ LimitInv /\ [Next]_vars => LimitInv'
<1> SUFFICES ASSUME TypeInv, StackInv, LimitInv, [Next]_vars PROVE LimitInv'
  OBVIOUS
<1>t. /\ step \in [Requests -> Steps] /\ counts \in [Requests -> [Promos -> SUBSET Requests]]
      /\ redeemed \in [Promos -> SUBSET Requests] /\ DOMAIN order = Requests
  BY DEF TypeInv, TypeOK
<1>o. OrdersStay
  BY StepKeepsOrders
<1>1. ASSUME NEW r \in Requests, NEW o \in Orders, Request(r, o) PROVE LimitInv'
  <2>1. \A q \in Requests : HoldsPromotions(q)' => HoldsPromotions(q)
    BY <1>1, <1>t DEF Request, HoldsPromotions
  <2> QED
    BY <1>1, <1>o, <2>1, LimitStays DEF Request
<1>2. ASSUME NEW r \in Requests, LockPromotions(r) PROVE LimitInv'
  BY <1>2, <1>o, LimitLock
<1>3. ASSUME NEW r \in Requests, NEW p \in Promos, Consider(r, p) PROVE LimitInv'
  <2>1. UNCHANGED <<step, order, counts, redeemed>>
    BY <1>3 DEF Consider
  <2> QED
    BY <1>o, <2>1, LimitStays DEF HoldsPromotions
<1>4. ASSUME NEW r \in Requests, Total(r) \/ Refuse(r) PROVE LimitInv'
  <2>1. UNCHANGED <<order, counts, redeemed>>
    BY <1>4 DEF Total, Refuse
  <2>2. \A q \in Requests : HoldsPromotions(q)' => HoldsPromotions(q)
    BY <1>4, <1>t, <2>1 DEF Total, Refuse, HoldsPromotions
  <2> QED
    BY <1>o, <2>1, <2>2, LimitStays
<1>5. ASSUME NEW r \in Requests, Place(r) PROVE LimitInv'
  <2>1. CASE ~order[r].pos
    BY <1>5, <2>1, LimitPlace
  <2>2. CASE order[r].pos
    <3>1. applied[r] = {}
      BY <1>5, <2>2 DEF Place, TypeInv, NothingApplied
    <3>2. redeemed' = redeemed /\ UNCHANGED <<order, counts>>
      BY <1>5, <1>t, <3>1 DEF Place
    <3>3. \A q \in Requests : HoldsPromotions(q)' => HoldsPromotions(q)
      BY <1>5, <1>t, <3>2 DEF Place, HoldsPromotions
    <3> QED
      BY <1>o, <3>2, <3>3, LimitStays
  <2> QED
    BY <2>1, <2>2
<1>6. CASE UNCHANGED vars
  BY <1>6, <1>o, LimitStays DEF vars, HoldsPromotions
<1> QED
  BY <1>1, <1>2, <1>3, <1>4, <1>5, <1>6 DEF Next

\* Concurrent checkouts never redeem a promotion beyond its total limit or a
\* customer's, whatever the limits are.
THEOREM LimitsCorrect == Spec => []PromotionsWithinLimits
<1>1. LimitInv => PromotionsWithinLimits
  BY DEF LimitInv
<1> QED
  BY <1>1, TypeInit, StackInit, LimitInit, TypeStep, StackStep, LimitStep, PTL DEF Spec

(***************************************************************************)
(* Totals.                                                                 *)
(***************************************************************************)

RowInv ==
  /\ DOMAIN row = Requests
  /\ \A r \in Requests : step[r] \in {"totalled", "placed"} =>
       row[r] = OrderRow(order[r], saved[r], savedFee[r])

LEMMA CouponDiscountIsNat ==
  ASSUME NEW c \in Coupons, NEW goods \in Nat
  PROVE  CouponDiscount(c, goods) \in Nat
<1>1. c.value \in Nat /\ c.cap \in Nat /\ c.minOrder \in Nat
      /\ c.type \in {"percentage", "fixed_amount", "free_delivery"}
  BY DEF Coupons
<1>2. Percent(goods, c.value) \in Nat
  BY <1>1, PercentIsNat
<1>3. CASE goods < c.minOrder
  BY <1>3 DEF CouponDiscount
<1>4. CASE ~(goods < c.minOrder) /\ c.type = "percentage" /\ c.cap = 0
  BY <1>2, <1>4 DEF CouponDiscount
<1>5. CASE ~(goods < c.minOrder) /\ c.type = "percentage" /\ c.cap > 0
  <2>1. CouponDiscount(c, goods) = Lower(Percent(goods, c.value), c.cap)
    BY <1>1, <1>5 DEF CouponDiscount
  <2> QED
    BY <1>1, <1>2, <2>1 DEF Lower
<1>6. CASE ~(goods < c.minOrder) /\ c.type = "fixed_amount"
  BY <1>1, <1>6 DEF CouponDiscount, Lower
<1>7. CASE ~(goods < c.minOrder) /\ c.type = "free_delivery"
  BY <1>7 DEF CouponDiscount
<1> QED
  BY <1>1, <1>3, <1>4, <1>5, <1>6, <1>7

\* No tax is raised on nothing.
LEMMA TaxIsNat ==
  ASSUME NEW taxable \in Nat
  PROVE  /\ (taxable * TaxRate + 5000) \div 10000 \in Nat
         /\ taxable = 0 => (taxable * TaxRate + 5000) \div 10000 = 0
<1>1. taxable * TaxRate \in Nat
  BY TotalsAssumption
<1>2. \A n \in Nat : (n + 5000) \div 10000 \in Nat
  OBVIOUS
<1>3. taxable = 0 => taxable * TaxRate = 0
  BY TotalsAssumption
<1>4. (0 + 5000) \div 10000 = 0
  OBVIOUS
<1> QED
  BY <1>1, <1>2, <1>3, <1>4

\* Rounding the taxable amount and the total up to zero, as OrderTotalsService
\* does, and once more in the CHECK, comes to the same.
LEMMA ClampedTotals ==
  ASSUME NEW x \in Int, NEW tax \in Nat, Higher(0, x) = 0 => tax = 0
  PROVE  Higher(0, Higher(0, x) + tax) = Higher(0, x + tax)
BY DEF Higher

LEMMA RowsAreStorable ==
  ASSUME NEW o, IsOrder(o), o.options >= 0, NEW onGoods \in Nat, NEW onFee \in Nat
  PROVE  Storable(OrderRow(o, onGoods, onFee))
<1> DEFINE promotion == Lower(Goods(o), onGoods)
           coupon    == IF o.coupon = NoCoupon THEN 0 ELSE CouponDiscount(o.coupon, Goods(o))
           couponFee == IF o.coupon # NoCoupon /\ o.coupon.type = "free_delivery" THEN o.fee ELSE 0
           delivery  == Lower(o.fee, Lower(o.fee, onFee) + couponFee)
           balance   == Goods(o) + o.fee - promotion - coupon - Lower(o.fee, delivery)
           taxable   == Higher(0, balance)
           tax       == IF TaxExcluded THEN (taxable * TaxRate + 5000) \div 10000 ELSE 0
           t         == OrderRow(o, onGoods, onFee)
<1>1. /\ Goods(o) \in Nat /\ Goods(o) = o.subtotal + o.options
      /\ o.subtotal \in Nat /\ o.options \in Nat /\ o.fee \in Nat
  BY GoodsAreNat DEF IsOrder, Goods
<1>2. t = [subtotal |-> o.subtotal, options |-> o.options, fee |-> o.fee,
           discount |-> promotion + coupon + delivery,
           promotion |-> promotion, coupon |-> coupon, delivery |-> delivery,
           tax |-> tax, total |-> Higher(0, taxable + tax)]
  BY DEF OrderRow, Calculate
<1>3. promotion \in Nat
  BY <1>1 DEF Lower
<1>4. coupon \in Nat
  BY <1>1, CouponDiscountIsNat DEF IsOrder
<1>5. delivery \in Nat /\ Lower(o.fee, delivery) = delivery
  BY <1>1 DEF Lower
<1>6. /\ balance \in Int
      /\ balance = o.subtotal + o.options + o.fee - (promotion + coupon + delivery)
  <2> HIDE DEF promotion, coupon, delivery
  <2> QED
    BY <1>1, <1>3, <1>4, <1>5
<1>7. taxable \in Nat
  <2> HIDE DEF balance
  <2> QED
    BY <1>6 DEF Higher
<1>8. tax \in Nat /\ (taxable = 0 => tax = 0)
  <2> HIDE DEF taxable
  <2> QED
    BY <1>7, TaxIsNat
<1> HIDE DEF promotion, coupon, delivery, balance, tax, t
<1>9. Higher(0, taxable + tax) = Higher(0, balance + tax)
  BY <1>6, <1>8, ClampedTotals
<1>10. balance + tax = o.subtotal + o.options + o.fee + tax - (promotion + coupon + delivery)
  BY <1>1, <1>3, <1>4, <1>5, <1>6, <1>8
<1>11. Higher(0, taxable + tax) >= 0 /\ promotion + coupon + delivery >= 0
  BY <1>3, <1>4, <1>5, <1>7, <1>8 DEF Higher
<1> HIDE DEF taxable
<1>12. /\ t.subtotal = o.subtotal /\ t.options = o.options /\ t.fee = o.fee /\ t.tax = tax
       /\ t.promotion = promotion /\ t.coupon = coupon
       /\ t.discount = promotion + coupon + delivery /\ t.total = Higher(0, taxable + tax)
  BY <1>2
<1>13. t.total = Higher(0, t.subtotal + t.options + t.fee + t.tax - t.discount)
  BY <1>9, <1>10, <1>12
<1>14. Storable(t)
  BY <1>1, <1>3, <1>4, <1>8, <1>11, <1>12, <1>13 DEF Storable
<1> QED
  BY <1>14 DEF t

LEMMA RowInit == Init => RowInv
BY DEF Init, RowInv

LEMMA RowStep == TypeInv /\ RowInv /\ [Next]_vars => RowInv'
<1>d. ASSUME TypeInv, RowInv, [Next]_vars PROVE DOMAIN row' = Requests
  BY <1>d DEF RowInv, Next, vars, Request, LockPromotions, Consider, Total, Place, Refuse
<1> SUFFICES ASSUME TypeInv, RowInv, [Next]_vars, NEW s \in Requests,
                    step'[s] \in {"totalled", "placed"}
             PROVE  row'[s] = OrderRow(order'[s], saved'[s], savedFee'[s])
  BY <1>d DEF RowInv, OrderRow, Calculate
<1>r. DOMAIN row = Requests
  BY DEF RowInv
<1>t. /\ step \in [Requests -> Steps] /\ DOMAIN order = Requests
      /\ saved \in [Requests -> Nat] /\ savedFee \in [Requests -> Nat]
  BY DEF TypeInv, TypeOK
<1>1. ASSUME step[s] \in {"totalled", "placed"}, row'[s] = row[s], order'[s] = order[s],
             saved'[s] = saved[s], savedFee'[s] = savedFee[s]
      PROVE  row'[s] = OrderRow(order'[s], saved'[s], savedFee'[s])
  BY <1>1 DEF RowInv
<1>2. ASSUME NEW r \in Requests, NEW o \in Orders, Request(r, o)
      PROVE  row'[s] = OrderRow(order'[s], saved'[s], savedFee'[s])
  <2>1. s # r /\ step'[s] = step[s] /\ order'[s] = order[s]
    BY <1>2, <1>t DEF Request
  <2> QED
    BY <1>1, <1>2, <2>1 DEF Request
<1>3. ASSUME NEW r \in Requests, NEW p \in Promos, Consider(r, p)
      PROVE  row'[s] = OrderRow(order'[s], saved'[s], savedFee'[s])
  <2>1. UNCHANGED <<step, order, row>> /\ step[r] = "evaluating"
    BY <1>3 DEF Consider
  <2>2. s # r
    BY <2>1
  <2>3. saved'[s] = saved[s] /\ savedFee'[s] = savedFee[s]
    BY <1>3, <1>t, <2>2 DEF Consider
  <2> QED
    BY <1>1, <2>1, <2>3
<1>4. ASSUME NEW r \in Requests, Total(r)
      PROVE  row'[s] = OrderRow(order'[s], saved'[s], savedFee'[s])
  <2>1. /\ step' = [step EXCEPT ![r] = "totalled"]
        /\ row' = [row EXCEPT ![r] = OrderRow(order[r], saved[r], savedFee[r])]
        /\ UNCHANGED <<order, saved, savedFee>>
    BY <1>4 DEF Total
  <2>2. CASE s = r
    BY <1>r, <2>1, <2>2
  <2>3. CASE s # r
    BY <1>1, <1>t, <2>1, <2>3
  <2> QED
    BY <2>2, <2>3
<1>5. ASSUME NEW r \in Requests, LockPromotions(r) \/ Place(r) \/ Refuse(r)
      PROVE  row'[s] = OrderRow(order'[s], saved'[s], savedFee'[s])
  <2>1. UNCHANGED <<order, saved, savedFee, row>> /\ step[s] \in {"totalled", "placed"}
    BY <1>5, <1>t DEF LockPromotions, Place, Refuse
  <2> QED
    BY <1>1, <2>1
<1>6. CASE UNCHANGED vars
  BY <1>1, <1>6 DEF vars
<1> QED
  BY <1>2, <1>3, <1>4, <1>5, <1>6 DEF Next

\* Whatever combination of promotions, coupon, fee and tax rate an order has,
\* its row satisfies the CHECKs of the table unless its options are negative.
THEOREM TotalsCorrect == Spec => []TotalsAreStorable
<1>1. ASSUME TypeInv, RowInv PROVE TotalsAreStorable
  BY <1>1, RowsAreStorable DEF TypeInv, TypeOK, RowInv, TotalsAreStorable
<1> QED
  BY <1>1, TypeInit, RowInit, TypeStep, RowStep, PTL DEF Spec

(***************************************************************************)
(* Sums over choices, as numbers of units.                                 *)
(***************************************************************************)

LEMMA UnitsAreFinite ==
  ASSUME NEW S, IsFiniteSet(S), NEW f, \A c \in S : f[c] \in Nat
  PROVE  IsFiniteSet(Units(f, S)) /\ Sum(f, S) \in Nat
<1> DEFINE piles == {{c} \X (1 .. f[c]) : c \in S}
           pile  == [c \in S |-> {c} \X (1 .. f[c])]
<1>1. pile \in Surjection(S, piles)
  BY DEF Surjection
<1>2. IsFiniteSet(piles)
  BY <1>1, FS_Surjection
<1>3. ASSUME NEW c \in S PROVE IsFiniteSet({c} \X (1 .. f[c]))
  <2>1. f[c] \in Int /\ 1 \in Int
    OBVIOUS
  <2>2. IsFiniteSet(1 .. f[c])
    BY <2>1, FS_Interval
  <2>3. IsFiniteSet({c})
    BY FS_Singleton
  <2> QED
    BY <2>2, <2>3, FS_Product
<1>4. \A t \in piles : IsFiniteSet(t)
  BY <1>3
<1>5. IsFiniteSet(UNION piles)
  BY <1>2, <1>4, FS_UNION
<1> QED
  BY <1>5, FS_CardinalityType DEF Units, Sum

LEMMA SumSplits ==
  ASSUME NEW S, IsFiniteSet(S), NEW T, IsFiniteSet(T), S \cap T = {},
         NEW f, \A c \in S \cup T : f[c] \in Nat
  PROVE  Sum(f, S \cup T) = Sum(f, S) + Sum(f, T)
<1>1. Units(f, S \cup T) = Units(f, S) \cup Units(f, T)
  BY DEF Units
<1>2. Units(f, S) \cap Units(f, T) = {}
  BY DEF Units
<1>3. IsFiniteSet(Units(f, S)) /\ IsFiniteSet(Units(f, T)) /\ Sum(f, S) \in Nat /\ Sum(f, T) \in Nat
  BY UnitsAreFinite
<1>4. Cardinality(Units(f, S) \cup Units(f, T))
        = Cardinality(Units(f, S)) + Cardinality(Units(f, T)) - Cardinality({})
  BY <1>2, <1>3, FS_Union
<1>5. Cardinality({}) = 0
  BY FS_EmptySet
<1>6. Sum(f, S \cup T) = Sum(f, S) + Sum(f, T) - 0
  BY <1>1, <1>4, <1>5 DEF Sum
<1> QED
  BY <1>3, <1>6

LEMMA SumOfOne == ASSUME NEW c, NEW f, f[c] \in Nat PROVE Sum(f, {c}) = f[c]
<1>1. Units(f, {c}) = {c} \X (1 .. f[c])
  BY DEF Units
<1>2. 1 \in Int /\ f[c] \in Int
  OBVIOUS
<1>3. IsFiniteSet(1 .. f[c]) /\ Cardinality(1 .. f[c]) = f[c]
  BY <1>2, FS_Interval
<1>4. IsFiniteSet({c}) /\ Cardinality({c}) = 1
  BY FS_Singleton
<1>5. Cardinality({c} \X (1 .. f[c])) = 1 * f[c]
  BY <1>3, <1>4, FS_Product
<1>6. 1 * f[c] = f[c]
  OBVIOUS
<1> QED
  BY <1>1, <1>5, <1>6 DEF Sum

\* One choice taken out of a sum.
LEMMA SumWithout ==
  ASSUME NEW S, IsFiniteSet(S), NEW c \in S, NEW f, \A d \in S : f[d] \in Nat
  PROVE  Sum(f, S) = Sum(f, S \ {c}) + f[c] /\ Sum(f, S \ {c}) \in Nat
<1>1. IsFiniteSet(S \ {c}) /\ IsFiniteSet({c}) /\ (S \ {c}) \cup {c} = S
  BY FS_RemoveElement, FS_Singleton
<1>2. Sum(f, (S \ {c}) \cup {c}) = Sum(f, S \ {c}) + Sum(f, {c})
  BY <1>1, SumSplits
<1>3. Sum(f, {c}) = f[c] /\ Sum(f, S \ {c}) \in Nat
  BY <1>1, SumOfOne, UnitsAreFinite
<1> QED
  BY <1>1, <1>2, <1>3

LEMMA SumOfSame ==
  ASSUME NEW S, NEW f, NEW g, \A c \in S : f[c] = g[c] PROVE Sum(f, S) = Sum(g, S)
<1>1. Units(f, S) = Units(g, S)
  BY DEF Units
<1> QED
  BY <1>1 DEF Sum

LEMMA SumIsBounded ==
  ASSUME NEW S, IsFiniteSet(S), NEW f, \A c \in S : f[c] \in Nat, NEW m \in Nat
  PROVE  /\ (\A c \in S : f[c] <= m) => Sum(f, S) <= Cardinality(S) * m
         /\ (\A c \in S : m <= f[c]) => Cardinality(S) * m <= Sum(f, S)
<1>1. 1 \in Int /\ m \in Int
  OBVIOUS
<1>2. IsFiniteSet(1 .. m) /\ Cardinality(1 .. m) = m
  BY <1>1, FS_Interval
<1>3. IsFiniteSet(S \X (1 .. m)) /\ Cardinality(S \X (1 .. m)) = Cardinality(S) * m
  BY <1>2, FS_Product
<1>4. IsFiniteSet(Units(f, S))
  BY UnitsAreFinite
<1>5. ASSUME \A c \in S : f[c] <= m PROVE Units(f, S) \in SUBSET (S \X (1 .. m))
  BY <1>5 DEF Units
<1>6. ASSUME \A c \in S : m <= f[c] PROVE (S \X (1 .. m)) \in SUBSET Units(f, S)
  BY <1>6 DEF Units
<1> QED
  BY <1>3, <1>4, <1>5, <1>6, FS_Subset DEF Sum

(***************************************************************************)
(* The cheapest choices.                                                   *)
(***************************************************************************)

LEMMA LeastNumber ==
  ASSUME NEW N \in SUBSET Nat, N # {} PROVE \E m \in N : \A n \in N : m <= n
<1>1. PICK m \in N : \A n \in N : ~(<<n, m>> \in OpToRel(<, Nat))
  BY NatLessThanWellFounded, WFMin
<1>2. ASSUME NEW n \in N PROVE m <= n
  <2>1. ~(n < m)
    BY <1>1 DEF OpToRel
  <2> QED
    BY <2>1
<1> QED
  BY <1>2

LEMMA SubsetOfSize ==
  ASSUME NEW S, IsFiniteSet(S), NEW k \in Nat, k <= Cardinality(S)
  PROVE  \E T \in SUBSET S : Cardinality(T) = k
<1>1. Cardinality(S) \in Nat
  BY FS_CardinalityType
<1>2. PICK b : b \in Bijection(1 .. Cardinality(S), S)
  BY FS_CardinalityType DEF ExistsBijection
<1>3. /\ b \in [1 .. Cardinality(S) -> S]
      /\ \A i, j \in 1 .. Cardinality(S) : b[i] = b[j] => i = j
  BY <1>2 DEF Bijection, Injection, IsInjective
<1>4. 1 .. k \subseteq 1 .. Cardinality(S)
  BY <1>1
<1> DEFINE T == {b[i] : i \in 1 .. k}
           h == [i \in 1 .. k |-> b[i]]
<1>5. h \in [1 .. k -> T] /\ (\A i, j \in 1 .. k : h[i] = h[j] => i = j)
  BY <1>3, <1>4
<1>6. h \in Injection(1 .. k, T) /\ h \in Surjection(1 .. k, T)
  BY <1>5 DEF Injection, Surjection, IsInjective
<1>7. ExistsBijection(1 .. k, T)
  BY <1>6 DEF ExistsBijection, Bijection
<1>8. 1 \in Int /\ k \in Int
  OBVIOUS
<1>9. IsFiniteSet(1 .. k) /\ Cardinality(1 .. k) = k
  BY <1>8, FS_Interval
<1>10. Cardinality(T) = k
  BY <1>7, <1>9, FS_Bijection
<1>11. T \in SUBSET S
  BY <1>3, <1>4
<1> QED
  BY <1>10, <1>11

LEMMA ValuesAreNat ==
  /\ \A c \in OptionChoices : Value[c] \in Nat /\ Reduction[c] \in Nat
  /\ \A S \in SUBSET OptionChoices : IsFiniteSet(S) /\ \A c \in S : Value[c] \in Nat
<1>1. ASSUME NEW c \in OptionChoices PROVE Value[c] \in Nat /\ Reduction[c] \in Nat
  BY QuotesAssumption DEF Value, Reduction, Above
<1>2. ASSUME NEW S \in SUBSET OptionChoices PROVE IsFiniteSet(S)
  BY QuotesAssumption, FS_Subset
<1> QED
  BY <1>1, <1>2

Least(a, b) == IF a < b THEN a ELSE b

LEMMA CheapestAre ==
  ASSUME NEW n \in Nat, NEW S, NEW T
  PROVE  T \in Cheapest(n, S) <=>
           /\ T \in SUBSET S /\ Cardinality(T) = Least(n, Cardinality(S))
           /\ \A f \in T, c \in S \ T : Value[f] <= Value[c]
BY DEF Cheapest, Least

\* There are such choices: those with the least sum.
LEMMA CheapestExist ==
  ASSUME NEW n \in Nat, NEW S \in SUBSET OptionChoices
  PROVE  \E T : T \in Cheapest(n, S)
<1>1. IsFiniteSet(S) /\ Cardinality(S) \in Nat
  BY ValuesAreNat, FS_CardinalityType
<1>2. Least(n, Cardinality(S)) \in Nat /\ Least(n, Cardinality(S)) <= Cardinality(S)
  BY <1>1 DEF Least
<1> DEFINE sized == {T \in SUBSET S : Cardinality(T) = Least(n, Cardinality(S))}
           sums  == {Sum(Value, T) : T \in sized}
<1>3. sized # {}
  BY <1>1, <1>2, SubsetOfSize
<1>4. ASSUME NEW T \in sized PROVE Sum(Value, T) \in Nat
  BY ValuesAreNat, UnitsAreFinite
<1>5. sums \in SUBSET Nat /\ sums # {}
  BY <1>3, <1>4
<1>6. PICK m \in sums : \A s \in sums : m <= s
  BY <1>5, LeastNumber
<1>7. PICK T \in sized : m = Sum(Value, T)
  BY <1>6
<1>8. ASSUME NEW f \in T, NEW c \in S \ T, ~(Value[f] <= Value[c]) PROVE FALSE
  <2> DEFINE U == (T \ {f}) \cup {c}
  <2>1. IsFiniteSet(T) /\ T \in SUBSET OptionChoices /\ Cardinality(T) \in Nat
        /\ Value[f] \in Nat /\ Value[c] \in Nat
    BY <1>1, ValuesAreNat, FS_Subset, FS_CardinalityType
  <2>2. IsFiniteSet(T \ {f}) /\ Cardinality(T \ {f}) = Cardinality(T) - 1
    BY <2>1, FS_RemoveElement
  <2>3. IsFiniteSet(U) /\ Cardinality(U) = Cardinality(T \ {f}) + 1
    BY <1>8, <2>2, FS_AddElement
  <2>4. U \in sized
    BY <1>8, <2>1, <2>2, <2>3
  <2>5. Sum(Value, T) = Sum(Value, T \ {f}) + Value[f] /\ Sum(Value, T \ {f}) \in Nat
    BY <1>8, <2>1, ValuesAreNat, SumWithout
  <2>6. c \in U /\ U \ {c} = T \ {f} /\ \A d \in U : Value[d] \in Nat
    BY <1>8, <2>1, ValuesAreNat
  <2>7. Sum(Value, U) = Sum(Value, T \ {f}) + Value[c]
    BY <2>3, <2>6, SumWithout
  <2>8. Sum(Value, T) <= Sum(Value, U)
    BY <1>6, <1>7, <2>4
  <2> QED
    BY <1>8, <2>1, <2>5, <2>7, <2>8
<1>9. T \in Cheapest(n, S)
  BY <1>7, <1>8, CheapestAre
<1> QED
  BY <1>9

\* No others, as many of them, are cheaper.
LEMMA CheapestCostLeast ==
  ASSUME NEW n \in Nat, NEW S \in SUBSET OptionChoices, NEW F, F \in Cheapest(n, S),
         NEW G \in SUBSET S, Cardinality(G) = Cardinality(F)
  PROVE  Sum(Value, F) <= Sum(Value, G)
<1> DEFINE X == F \ G
           Y == G \ F
           Z == F \cap G
<1>1. F \in SUBSET S /\ \A f \in F, c \in S \ F : Value[f] <= Value[c]
  BY CheapestAre
<1>2. /\ F \in SUBSET OptionChoices /\ G \in SUBSET OptionChoices /\ X \in SUBSET OptionChoices
      /\ Y \in SUBSET OptionChoices /\ Z \in SUBSET OptionChoices
  BY <1>1
<1>3. /\ IsFiniteSet(F) /\ IsFiniteSet(G) /\ IsFiniteSet(X) /\ IsFiniteSet(Y) /\ IsFiniteSet(Z)
      /\ \A c \in F \cup G : Value[c] \in Nat
  <2>1. \A T \in SUBSET OptionChoices : IsFiniteSet(T) /\ \A c \in T : Value[c] \in Nat
    BY ValuesAreNat
  <2> HIDE DEF X, Y, Z
  <2> QED
    BY <1>2, <2>1
<1>4. Sum(Value, F) = Sum(Value, X) + Sum(Value, Z)
  <2>1. F = X \cup Z /\ X \cap Z = {} /\ \A c \in X \cup Z : Value[c] \in Nat
    BY <1>3
  <2> HIDE DEF X, Z
  <2> QED
    BY <1>3, <2>1, SumSplits
<1>5. Sum(Value, G) = Sum(Value, Y) + Sum(Value, Z)
  <2>1. G = Y \cup Z /\ Y \cap Z = {} /\ \A c \in Y \cup Z : Value[c] \in Nat
    BY <1>3
  <2> HIDE DEF Y, Z
  <2> QED
    BY <1>3, <2>1, SumSplits
<1>6. /\ Sum(Value, X) \in Nat /\ Sum(Value, Y) \in Nat /\ Sum(Value, Z) \in Nat
      /\ Cardinality(X) \in Nat /\ Cardinality(Y) \in Nat
  <2>1. /\ \A c \in X : Value[c] \in Nat
        /\ \A c \in Y : Value[c] \in Nat
        /\ \A c \in Z : Value[c] \in Nat
    BY <1>3
  <2> HIDE DEF X, Y, Z
  <2> QED
    BY <1>3, <2>1, UnitsAreFinite, FS_CardinalityType
<1>7. Cardinality(X) = Cardinality(Y)
  <2>1. /\ Cardinality(X) = Cardinality(F) - Cardinality(F \cap G)
        /\ Cardinality(Y) = Cardinality(G) - Cardinality(G \cap F)
    BY <1>3, FS_Difference
  <2>2. F \cap G = G \cap F
    OBVIOUS
  <2> HIDE DEF X, Y
  <2> QED
    BY <2>1, <2>2
<1>8. CASE Y = {}
  <2>1. Cardinality(X) = 0
    <3> HIDE DEF X, Y
    <3> QED
      BY <1>7, <1>8, FS_EmptySet
  <2>2. X = {}
    <3> HIDE DEF X
    <3> QED
      BY <1>3, <2>1, FS_EmptySet
  <2>3. F = G
    BY <1>8, <2>2
  <2> QED
    BY <1>4, <1>6, <2>3
<1>9. CASE Y # {}
  <2> DEFINE values == {Value[c] : c \in Y}
  <2>1. values \in SUBSET Nat /\ values # {}
    BY <1>3, <1>9
  <2>2. PICK m \in values : \A v \in values : m <= v
    BY <2>1, LeastNumber
  <2>3. PICK y \in Y : m = Value[y]
    BY <2>2
  <2>4. /\ m \in Nat /\ \A c \in Y : m <= Value[c]
        /\ \A c \in X : Value[c] <= m
    BY <1>1, <2>1, <2>2, <2>3
  <2>5. (\A c \in X : Value[c] \in Nat) /\ (\A c \in Y : Value[c] \in Nat)
    BY <1>3
  <2> HIDE DEF X, Y, Z
  <2>6. Sum(Value, X) <= Cardinality(X) * m
    BY <1>3, <2>4, <2>5, SumIsBounded
  <2>7. Cardinality(Y) * m <= Sum(Value, Y)
    BY <1>3, <2>4, <2>5, SumIsBounded
  <2>8. Cardinality(X) * m \in Nat
    BY <1>6, <2>4
  <2> QED
    BY <1>4, <1>5, <1>6, <1>7, <2>6, <2>7, <2>8
<1> QED
  BY <1>8, <1>9

\* What is free does not shrink by more than the price of what is taken away.
LEMMA FreeWithout ==
  ASSUME NEW n \in Nat, NEW S \in SUBSET OptionChoices, NEW c \in S,
         NEW F, F \in Cheapest(n, S), NEW G, G \in Cheapest(n, S \ {c})
  PROVE  Sum(Value, F) <= Sum(Value, G) + Value[c]
<1>1. /\ IsFiniteSet(S) /\ Cardinality(S) \in Nat
      /\ Cardinality(S \ {c}) = Cardinality(S) - 1 /\ IsFiniteSet(S \ {c})
  BY ValuesAreNat, FS_CardinalityType, FS_RemoveElement
<1>2. /\ F \in SUBSET S /\ Cardinality(F) = Least(n, Cardinality(S))
      /\ G \in SUBSET (S \ {c}) /\ Cardinality(G) = Least(n, Cardinality(S \ {c}))
  BY CheapestAre
<1>3. /\ Value[c] \in Nat /\ Sum(Value, F) \in Nat /\ Sum(Value, G) \in Nat
  <2>1. F \in SUBSET OptionChoices /\ G \in SUBSET OptionChoices
    BY <1>2
  <2> QED
    BY <2>1, ValuesAreNat, UnitsAreFinite
<1>4. CASE n < Cardinality(S)
  <2>1. Cardinality(F) = n /\ Cardinality(G) = n
    BY <1>1, <1>2, <1>4 DEF Least
  <2>2. G \in SUBSET S
    BY <1>2
  <2>3. Sum(Value, F) <= Sum(Value, G)
    BY <2>1, <2>2, CheapestCostLeast
  <2> QED
    BY <1>3, <2>3
<1>5. CASE ~(n < Cardinality(S))
  <2>1. Cardinality(F) = Cardinality(S) /\ Cardinality(G) = Cardinality(S \ {c})
    BY <1>1, <1>2, <1>5 DEF Least
  <2>2. F = S /\ G = S \ {c}
    BY <1>1, <1>2, <2>1, FS_Subset
  <2>3. Sum(Value, S) = Sum(Value, S \ {c}) + Value[c]
    BY <1>1, ValuesAreNat, SumWithout
  <2> QED
    BY <1>3, <2>2, <2>3
<1> QED
  BY <1>4, <1>5

(***************************************************************************)
(* Prices.                                                                 *)
(***************************************************************************)

LEMMA FreeIsCheapest ==
  ASSUME NEW conf \in [OptionChoices -> Nat]
  PROVE  FreeOf(conf) \in Cheapest(FreeToppings, InGroup(conf, ToppingsGroup))
<1>1. InGroup(conf, ToppingsGroup) \in SUBSET OptionChoices /\ FreeToppings \in Nat
  BY PizzaBuilderAssumption DEF InGroup, Selected, IsRule
<1> QED
  BY <1>1, CheapestExist DEF FreeOf

LEMMA PartsAreInt ==
  ASSUME NEW conf \in [OptionChoices -> Nat]
  PROVE  /\ Parts(conf) \in Int /\ Sum(Value, FreeOf(conf)) \in Nat
         /\ Sum([c \in OptionChoices |-> conf[c] * Value[c]], OptionChoices) \in Nat
         /\ Sum([c \in OptionChoices |-> conf[c] * Reduction[c]], OptionChoices) \in Nat
<1> DEFINE charged == [c \in OptionChoices |-> conf[c] * Value[c]]
           reduced == [c \in OptionChoices |-> conf[c] * Reduction[c]]
<1>1. \A c \in OptionChoices : charged[c] \in Nat /\ reduced[c] \in Nat
  BY ValuesAreNat
<1>2. FreeOf(conf) \in SUBSET OptionChoices
  <2>1. FreeOf(conf) \in SUBSET InGroup(conf, ToppingsGroup)
    BY FreeIsCheapest, PizzaBuilderAssumption, CheapestAre DEF IsRule
  <2> QED
    BY <2>1 DEF InGroup, Selected
<1>3. Sum(Value, FreeOf(conf)) \in Nat
  BY <1>2, ValuesAreNat, UnitsAreFinite
<1> HIDE DEF charged, reduced
<1>4. Sum(charged, OptionChoices) \in Nat /\ Sum(reduced, OptionChoices) \in Nat
  BY <1>1, QuotesAssumption, UnitsAreFinite
<1>5. Portion * Sum(Value, FreeOf(conf)) \in Nat
  BY <1>3, QuotesAssumption
<1>6. Parts(conf)
        = Sum(charged, OptionChoices) - Sum(reduced, OptionChoices)
            - Portion * Sum(Value, FreeOf(conf))
  BY DEF Parts, charged, reduced
<1>7. Parts(conf) \in Int
  BY <1>4, <1>5, <1>6
<1> QED
  BY <1>3, <1>4, <1>7 DEF charged, reduced

\* The prices of a configuration with and without one of its choices.
LEMMA CheaperWithout ==
  ASSUME NEW conf \in [OptionChoices -> Nat], NEW d \in Selected(conf), PriceOf[d] >= 0,
         GroupOf[d] = ToppingsGroup => conf[d] >= Portion
  PROVE  Parts([conf EXCEPT ![d] = 0]) <= Parts(conf)
<1> DEFINE less == [conf EXCEPT ![d] = 0]
           charged(q) == [c \in OptionChoices |-> q[c] * Value[c]]
           reduced(q) == [c \in OptionChoices |-> q[c] * Reduction[c]]
           T == InGroup(conf, ToppingsGroup)
<1>1. d \in OptionChoices /\ less \in [OptionChoices -> Nat] /\ less[d] = 0
      /\ (\A c \in OptionChoices \ {d} : less[c] = conf[c]) /\ conf[d] \in Nat
  BY DEF Selected
<1>2. Value[d] \in Nat /\ Reduction[d] = 0 /\ IsFiniteSet(OptionChoices) /\ Portion \in Nat
  BY <1>1, ValuesAreNat, QuotesAssumption DEF Reduction, Above
<1>3. Sum(charged(conf), OptionChoices) = Sum(charged(less), OptionChoices) + conf[d] * Value[d]
  <2> DEFINE A == charged(conf)
             B == charged(less)
  <2>1. \A c \in OptionChoices : A[c] \in Nat /\ B[c] \in Nat
    BY <1>1, ValuesAreNat
  <2>2. A[d] = conf[d] * Value[d] /\ B[d] = 0
    <3>1. 0 * Value[d] = 0
      BY <1>2
    <3> QED
      BY <1>1, <3>1
  <2>3. \A c \in OptionChoices \ {d} : A[c] = B[c]
    BY <1>1
  <2> HIDE DEF A, B
  <2>4. Sum(A, OptionChoices) = Sum(A, OptionChoices \ {d}) + A[d]
        /\ Sum(A, OptionChoices \ {d}) \in Nat
    BY <1>1, <1>2, <2>1, SumWithout
  <2>5. Sum(B, OptionChoices) = Sum(B, OptionChoices \ {d}) + B[d]
        /\ Sum(B, OptionChoices \ {d}) \in Nat
    BY <1>1, <1>2, <2>1, SumWithout
  <2>6. Sum(A, OptionChoices \ {d}) = Sum(B, OptionChoices \ {d})
    BY <2>3, SumOfSame
  <2>7. Sum(A, OptionChoices) = Sum(B, OptionChoices) + conf[d] * Value[d]
    BY <2>2, <2>4, <2>5, <2>6
  <2> QED
    BY <2>7 DEF A, B
<1>4. Sum(reduced(conf), OptionChoices) = Sum(reduced(less), OptionChoices)
  <2> DEFINE A == reduced(conf)
             B == reduced(less)
  <2>1. conf[d] * Reduction[d] = 0 /\ less[d] * Reduction[d] = 0
    BY <1>1, <1>2
  <2>2. \A c \in OptionChoices : A[c] = B[c]
    BY <1>1, <2>1
  <2> HIDE DEF A, B
  <2>3. Sum(A, OptionChoices) = Sum(B, OptionChoices)
    BY <2>2, SumOfSame
  <2> QED
    BY <2>3 DEF A, B
<1>5. Portion * Sum(Value, FreeOf(conf))
        <= Portion * Sum(Value, FreeOf(less)) + conf[d] * Value[d]
  <2>0. Sum(Value, FreeOf(conf)) \in Nat /\ Sum(Value, FreeOf(less)) \in Nat
    BY <1>1, PartsAreInt
  <2>1. CASE GroupOf[d] = ToppingsGroup
    <3>1. d \in T /\ InGroup(less, ToppingsGroup) = T \ {d} /\ T \in SUBSET OptionChoices
      BY <1>1, <2>1 DEF InGroup, Selected
    <3>2. FreeOf(conf) \in Cheapest(FreeToppings, T)
          /\ FreeOf(less) \in Cheapest(FreeToppings, T \ {d})
      BY <1>1, <3>1, FreeIsCheapest
    <3>3. Sum(Value, FreeOf(conf)) <= Sum(Value, FreeOf(less)) + Value[d]
      <4> HIDE DEF T, less
      <4> QED
        BY <3>1, <3>2, FreeWithout, PizzaBuilderAssumption DEF IsRule
    <3>4. \A a, b, v, p, k \in Nat : a <= b + v /\ p <= k => p * a <= p * b + k * v
      <4>1. ASSUME NEW a \in Nat, NEW b \in Nat, NEW v \in Nat, NEW p \in Nat, NEW k \in Nat,
                   a <= b + v, p <= k
            PROVE  p * a <= p * b + k * v
        <5>1. p * a <= p * (b + v)
          BY <4>1
        <5>2. p * (b + v) = p * b + p * v
          BY <4>1
        <5>3. p * v <= k * v
          BY <4>1
        <5>4. p * a \in Nat /\ p * b \in Nat /\ p * v \in Nat /\ k * v \in Nat
          BY <4>1
        <5> QED
          BY <5>1, <5>2, <5>3, <5>4
      <4> QED
        BY <4>1
    <3> HIDE DEF less
    <3> QED
      BY <1>1, <1>2, <2>0, <2>1, <3>3, <3>4
  <2>2. CASE GroupOf[d] # ToppingsGroup
    <3>1. InGroup(less, ToppingsGroup) = T
      BY <1>1, <2>2 DEF InGroup, Selected
    <3>2. FreeOf(less) = FreeOf(conf)
      BY <3>1 DEF FreeOf
    <3>3. conf[d] * Value[d] \in Nat /\ Portion * Sum(Value, FreeOf(conf)) \in Nat
      BY <1>1, <1>2, <2>0
    <3> HIDE DEF less
    <3> QED
      BY <3>2, <3>3
  <2> QED
    BY <2>1, <2>2
<1>6. Parts(conf) = Sum(charged(conf), OptionChoices) - Sum(reduced(conf), OptionChoices)
                      - Portion * Sum(Value, FreeOf(conf))
  BY DEF Parts
<1>7. Parts(less) = Sum(charged(less), OptionChoices) - Sum(reduced(less), OptionChoices)
                      - Portion * Sum(Value, FreeOf(less))
  BY DEF Parts
<1>8. /\ Sum(charged(conf), OptionChoices) \in Nat /\ Sum(reduced(conf), OptionChoices) \in Nat
      /\ Sum(charged(less), OptionChoices) \in Nat /\ Sum(reduced(less), OptionChoices) \in Nat
      /\ Sum(Value, FreeOf(conf)) \in Nat /\ Sum(Value, FreeOf(less)) \in Nat
  BY <1>1, PartsAreInt
<1>9. /\ Portion * Sum(Value, FreeOf(conf)) \in Nat /\ Portion * Sum(Value, FreeOf(less)) \in Nat
      /\ conf[d] * Value[d] \in Nat
  BY <1>1, <1>2, <1>8
<1> HIDE DEF less, charged, reduced
<1>10. Parts(less) <= Parts(conf)
  BY <1>3, <1>4, <1>5, <1>6, <1>7, <1>8, <1>9
<1> QED
  BY <1>10 DEF less

\* Requests ask for what may be ordered.
OrdersRead == \A r \in Requests : step[r] # "idle" => order[r] \in Orders

LEMMA ReadInit == Init => OrdersRead
BY DEF Init, OrdersRead

LEMMA ReadStep == TypeInv /\ OrdersRead /\ [Next]_vars => OrdersRead'
<1> SUFFICES ASSUME TypeInv, OrdersRead, [Next]_vars PROVE OrdersRead'
  OBVIOUS
<1>t. step \in [Requests -> Steps] /\ DOMAIN order = Requests
  BY DEF TypeInv, TypeOK
<1>1. ASSUME NEW r \in Requests, NEW o \in Orders, Request(r, o) PROVE OrdersRead'
  BY <1>1, <1>t DEF OrdersRead, Request
<1>2. ASSUME order' = order, NEW r \in Requests, step[r] # "idle",
             \A q \in Requests : q # r => step'[q] = step[q]
      PROVE  OrdersRead'
  BY <1>2 DEF OrdersRead
<1>3. ASSUME order' = order, step' = step PROVE OrdersRead'
  BY <1>3 DEF OrdersRead
<1>4. ASSUME NEW r \in Requests, LockPromotions(r) PROVE OrdersRead'
  <2>1. order' = order /\ step[r] # "idle" /\ \A q \in Requests : q # r => step'[q] = step[q]
    BY <1>4, <1>t DEF LockPromotions
  <2> QED
    BY <1>2, <2>1
<1>5. ASSUME NEW r \in Requests, NEW p \in Promos, Consider(r, p) PROVE OrdersRead'
  BY <1>3, <1>5 DEF Consider
<1>6. ASSUME NEW r \in Requests, Total(r) PROVE OrdersRead'
  <2>1. order' = order /\ step[r] # "idle" /\ \A q \in Requests : q # r => step'[q] = step[q]
    BY <1>6, <1>t DEF Total
  <2> QED
    BY <1>2, <2>1
<1>7. ASSUME NEW r \in Requests, Place(r) PROVE OrdersRead'
  <2>1. order' = order /\ step[r] # "idle" /\ \A q \in Requests : q # r => step'[q] = step[q]
    BY <1>7, <1>t DEF Place
  <2> QED
    BY <1>2, <2>1
<1>8. ASSUME NEW r \in Requests, Refuse(r) PROVE OrdersRead'
  <2>1. order' = order /\ step[r] # "idle" /\ \A q \in Requests : q # r => step'[q] = step[q]
    BY <1>8, <1>t DEF Refuse
  <2> QED
    BY <1>2, <2>1
<1>9. ASSUME UNCHANGED vars PROVE OrdersRead'
  BY <1>3, <1>9 DEF vars
<1> QED
  BY <1>1, <1>4, <1>5, <1>6, <1>7, <1>8, <1>9 DEF Next

\* An order is priced in cents: its options are its parts.
LEMMA OptionsInParts ==
  ASSUME NEW o \in Orders
  PROVE  Portion * o.options = Parts(o.line.conf) * o.line.quantity
<1>1. /\ o.line.conf \in [OptionChoices -> Nat] /\ o.line.quantity \in Nat
      /\ Parts(o.line.conf) % Portion = 0
      /\ o.options = (Parts(o.line.conf) \div Portion) * o.line.quantity
  BY QuotesAssumption DEF IsPriced, Sellable, OptionCharges, OptionAdjustments
<1>2. Parts(o.line.conf) \in Int /\ Portion \in Nat \ {0}
  BY <1>1, PartsAreInt, QuotesAssumption
<1>3. \A a \in Int, b \in Nat \ {0} : a % b = 0 => a = b * (a \div b) /\ a \div b \in Int
  OBVIOUS
<1> DEFINE cents == Parts(o.line.conf) \div Portion
<1>4. cents \in Int /\ Parts(o.line.conf) = Portion * cents
  BY <1>1, <1>2, <1>3
<1>5. o.options = cents * o.line.quantity
  BY <1>1
<1>6. \A a, b, c \in Int : a * (b * c) = (a * b) * c
  OBVIOUS
<1> HIDE DEF cents
<1>7. Portion \in Int /\ o.line.quantity \in Int
  BY <1>1, <1>2
<1>8. Portion * (cents * o.line.quantity) = (Portion * cents) * o.line.quantity
  BY <1>4, <1>6, <1>7, Zenon
<1> QED
  BY <1>4, <1>5, <1>8

\* A choice that has a price never makes an order cheaper, on any menu.
THEOREM PricesCorrect == Spec => []MoreCostsNoLess
<1>1. ASSUME OrdersRead PROVE MoreCostsNoLess
  <2> SUFFICES ASSUME NEW r \in Requests, step[r] # "idle",
                      NEW c \in Selected(order[r].line.conf), PriceOf[c] >= 0,
                      GroupOf[c] = ToppingsGroup => order[r].line.conf[c] >= Portion
               PROVE  Parts([order[r].line.conf EXCEPT ![c] = 0]) * order[r].line.quantity
                        <= Portion * order[r].options
    BY DEF MoreCostsNoLess
  <2> DEFINE conf == order[r].line.conf
             quantity == order[r].line.quantity
             less == [conf EXCEPT ![c] = 0]
  <2>1. order[r] \in Orders
    BY <1>1 DEF OrdersRead
  <2>2. conf \in [OptionChoices -> Nat] /\ quantity \in Nat
    BY <2>1, QuotesAssumption DEF IsPriced
  <2>3. less \in [OptionChoices -> Nat]
    BY <2>2
  <2>4. Portion * order[r].options = Parts(conf) * quantity
    BY <2>1, OptionsInParts
  <2>5. Parts(less) <= Parts(conf)
    BY <2>2, CheaperWithout
  <2>6. Parts(less) \in Int /\ Parts(conf) \in Int
    BY <2>2, <2>3, PartsAreInt
  <2>7. \A a, b \in Int, n \in Nat : a <= b => a * n <= b * n
    OBVIOUS
  <2> HIDE DEF conf, quantity, less
  <2>8. Parts(less) * quantity <= Portion * order[r].options
    BY <2>2, <2>4, <2>5, <2>6, <2>7
  <2> QED
    BY <2>8 DEF conf, quantity, less
<1> QED
  BY <1>1, TypeInit, ReadInit, TypeStep, ReadStep, PTL DEF Spec

(***************************************************************************)
(* The page.                                                               *)
(***************************************************************************)

LEMMA BoundsAdmit ==
  ASSUME BuildYourOwn, NEW conf, Accepted(conf), NEW g \in ShownGroups \cap Attached,
         MinOverride[g] = Null, MaxOverride[g] = Null
  PROVE  Shown(conf, g)
<1> DEFINE count == Cardinality(InGroup(conf, g))
<1>1. count \in Nat
  <2>1. InGroup(conf, g) \in SUBSET OptionChoices
    BY DEF InGroup, Selected
  <2> QED
    BY <2>1, ValuesAreNat, FS_CardinalityType
<1>2. g \in OptionGroups \cap Attached /\ g \in DOMAIN MinSelect
  BY PizzaBuilderAssumption DEF ShownGroups, AreGroups
<1>3. MaxSelect[g] \in Nat \cup {Null}
  BY <1>2, PizzaBuilderAssumption DEF AreGroups
<1>4. count >= MinSelect[g] /\ Within(count, MaxSelect[g])
  BY <1>2 DEF Accepted, GroupsAccept, Overridden
<1>5. count >= MinSelections(g)
  BY <1>4 DEF MinSelections
<1>6. CASE g = ToppingsGroup
  <2>1. Within(count, MaxToppings)
    BY <1>6 DEF Accepted, BuilderAccepts
  <2>2. MaxSelections(g) = Overridden(MaxToppings, MaxSelect[g])
    BY <1>6 DEF MaxSelections
  <2> HIDE DEF count
  <2>3. MaxSelections(g) = Null \/ count <= MaxSelections(g)
    BY <1>1, <1>3, <2>1, <2>2 DEF Within, Overridden
  <2> QED
    BY <1>5, <2>3 DEF Shown, count
<1>7. CASE g # ToppingsGroup
  <2>1. MaxSelections(g) = Overridden(MaxSelect[g], 1)
    BY <1>7 DEF MaxSelections
  <2> HIDE DEF count
  <2>2. MaxSelections(g) = Null \/ count <= MaxSelections(g)
    BY <1>1, <1>3, <1>4, <2>1 DEF Within, Overridden
  <2> QED
    BY <1>5, <2>2 DEF Shown, count
<1> QED
  BY <1>6, <1>7

\* The page of the pizza builder never keeps a customer from a pizza that can
\* be ordered, whatever the columns of the menu hold.
THEOREM PageCorrect == Spec => []OrderableIsShown
<1>1. ASSUME OrdersRead PROVE OrderableIsShown
  <2> SUFFICES ASSUME NEW r \in Requests, step[r] # "idle", BuildYourOwn,
                      NEW g \in BuilderGroups \cup {ToppingsGroup},
                      MinOverride[g] = Null, MaxOverride[g] = Null
               PROVE  /\ g \notin ShownGroups => InGroup(order[r].line.conf, g) = {}
                      /\ g \in ShownGroups \cap Attached => Shown(order[r].line.conf, g)
    BY DEF OrderableIsShown
  <2>1. Accepted(order[r].line.conf)
    BY <1>1, QuotesAssumption DEF OrdersRead, IsPriced, Sellable
  <2>2. g \notin ShownGroups => InGroup(order[r].line.conf, g) = {}
    BY <2>1 DEF Accepted, ShownGroups, InGroup
  <2> QED
    BY <2>1, <2>2, BoundsAdmit
<1> QED
  BY <1>1, TypeInit, ReadInit, TypeStep, ReadStep, PTL DEF Spec
=============================================================================
