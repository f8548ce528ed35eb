------------------------------ MODULE MCQuotes ------------------------------
(* A menu with one pizza to build, three promotions and a few coupons.       *)
EXTENDS Quotes, TLC

Symmetry == Permutations(Requests)

(* Dough and sauce are required, one of two toppings that may go together is *)
(* free, "bare" takes something off the price, "nuts" are in a group that    *)
(* has no maximum, "dip" in one that is not attached to the pizza.           *)
MCGroupOf == [thin |-> "dough", thick |-> "dough", red |-> "sauce", basil |-> "toppings",
              ham |-> "toppings", truffle |-> "toppings", bare |-> "box", nuts |-> "extras",
              dip |-> "dips"]
MCPriceOf == [thin |-> 0, thick |-> 1, red |-> 0, basil |-> 1, ham |-> 2, truffle |-> 4,
              bare |-> -2, nuts |-> 1, dip |-> 1]
MCMinSelect == [dough |-> 1, sauce |-> 0, toppings |-> 0, box |-> 0, extras |-> 0, dips |-> 0]
MCMaxSelect == [dough |-> 1, sauce |-> 2, toppings |-> 3, box |-> 2, extras |-> Null, dips |-> 1]
NoOverride == [g \in DOMAIN MCMinSelect |-> Null]
MCMaxOverride == [NoOverride EXCEPT !["box"] = 1]

(* Half a portion of ham or basil, or two of ham; one of everything else,    *)
(* and the box belongs to the thin dough.                                    *)
Quantities == [c \in DOMAIN MCPriceOf |->
                 CASE c = "ham"   -> {0, 1, 2, 4}
                   [] c = "basil" -> {0, 1, 2}
                   [] OTHER       -> {0, 2}]
Configurations ==
  {conf \in {[thin |-> t, thick |-> k, red |-> s, basil |-> b, ham |-> h, truffle |-> u,
              bare |-> e, nuts |-> n, dip |-> d] :
                t \in Quantities["thin"], k \in Quantities["thick"], s \in Quantities["red"],
                b \in Quantities["basil"], h \in Quantities["ham"],
                u \in Quantities["truffle"], e \in Quantities["bare"],
                n \in Quantities["nuts"], d \in Quantities["dip"]} :
     Sellable(9, conf) /\ (conf["bare"] = 0 \/ conf["thick"] = 0)}

Priced(line, who, items, fee, coupon, pos) ==
  [line |-> line, subtotal |-> Subtotal(line.base, line.quantity),
   options |-> OptionCharges(line.conf, line.quantity), customer |-> who, items |-> items,
   fee |-> fee, coupon |-> coupon, pos |-> pos]

Dear == [base |-> 9, quantity |-> 2, conf |-> Build({"thin", "red"}, {"ham", "truffle"})]

MCCoupons ==
  {[type |-> "percentage", value |-> 150, minOrder |-> 0, cap |-> 0],
   [type |-> "percentage", value |-> 50, minOrder |-> 0, cap |-> 5],
   [type |-> "fixed_amount", value |-> 7, minOrder |-> 0, cap |-> 0],
   [type |-> "free_delivery", value |-> 0, minOrder |-> 30, cap |-> 0]}

QuotedOrders ==
  {Priced([base |-> 9, quantity |-> 1, conf |-> conf], "anna", {"pizza"}, 0, NoCoupon, FALSE) :
     conf \in Configurations}
  \cup {Priced(Dear, who, {"pizza"}, 4, NoCoupon, FALSE) : who \in {"anna", "bruno"}}
  \cup {Priced(Dear, "anna", {"pizza"}, 4, coupon, FALSE) : coupon \in MCCoupons}
  \cup {Priced(Dear, "anna", {"pizza", "beer"}, 4, NoCoupon, FALSE)}
  \cup {Priced(Dear, "anna", {"pizza"}, 0, NoCoupon, TRUE)}

Plain == [type |-> "percentage", value |-> 100, minOrder |-> 0, cap |-> NULL, priority |-> 0,
          group |-> NoGroup, incompatible |-> {}, couponCompatible |-> TRUE,
          eligible |-> {}, excluded |-> {}, totalLimit |-> NULL, customerLimit |-> NULL]

MCOffers ==
  1 :> {[Plain EXCEPT !.value = 50, !.totalLimit = 1, !.group = "lunch"],
        [Plain EXCEPT !.value = 25, !.cap = 3, !.customerLimit = 1, !.group = "lunch",
                      !.priority = 1, !.incompatible = {"drinks"}]}
  @@ 2 :> {[Plain EXCEPT !.type = "free_delivery", !.minOrder = 20, !.priority = 1,
                         !.group = "drinks", !.totalLimit = 1],
           [Plain EXCEPT !.type = "fixed_amount", !.value = 6, !.excluded = {"beer"},
                         !.priority = 2, !.group = "drinks", !.customerLimit = 1]}
  @@ 3 :> {[Plain EXCEPT !.eligible = {"beer"}, !.incompatible = {"lunch"}, !.priority = 2],
           [Plain EXCEPT !.couponCompatible = FALSE, !.priority = 1],
           [Plain EXCEPT !.type = "unsupported", !.group = "lunch", !.priority = 3]}
=============================================================================
