------------------------------- MODULE Quotes -------------------------------
(***************************************************************************)
(* Prices and totals together: every order has been priced by              *)
(* PricingService before its totals are computed.  An order has one line   *)
(* here: its amounts are sums over the lines, and that is all the totals   *)
(* see of them.                                                            *)
(***************************************************************************)
EXTENDS Totals, PizzaBuilder

\* The part of an order that is computed from its line, with
\* line = [base, conf, quantity].
IsPriced(o) ==
  /\ o.line.base \in Nat /\ o.line.quantity \in Nat \ {0}
  /\ o.line.conf \in [OptionChoices -> Nat]
  /\ Sellable(o.line.base, o.line.conf)
  /\ o.subtotal = Subtotal(o.line.base, o.line.quantity)
  /\ o.options = OptionCharges(o.line.conf, o.line.quantity)

ASSUME QuotesAssumption ==
  /\ IsFiniteSet(OptionChoices) /\ \A c \in OptionChoices : PriceOf[c] \in Int
  /\ Portion \in Nat \ {0}
  /\ \A o \in Orders : IsPriced(o)

\* The toppings that are free are the cheapest ones, so they move to others
\* when a topping is added.  A choice that has a price never makes an order
\* cheaper: without it the same configuration would not cost more.  A topping
\* of less than a portion is left out, it may be free for more than it costs.
MoreCostsNoLess ==
  \A r \in Requests : step[r] # "idle" =>
     LET line == order[r].line
     IN  \A c \in Selected(line.conf) :
            PriceOf[c] >= 0 /\ (GroupOf[c] = ToppingsGroup => line.conf[c] >= Portion) =>
              Parts([line.conf EXCEPT ![c] = 0]) * line.quantity <= Portion * order[r].options

\* The builder's page and PricingService read the limits of a group each in its
\* own way, the page without the overrides for the item and with limits of its
\* own where a column is null.  The page never keeps a customer from a pizza
\* that can be ordered: of a group that is attached it shows the choices, and
\* its bounds admit as many, whatever else is attached to the item; a group
\* that it does not show is not needed.
OrderableIsShown ==
  \A r \in Requests : step[r] # "idle" /\ BuildYourOwn =>
     \A g \in BuilderGroups \cup {ToppingsGroup} :
        MinOverride[g] = Null /\ MaxOverride[g] = Null =>
          LET conf == order[r].line.conf
          IN  /\ g \notin ShownGroups => InGroup(conf, g) = {}
              /\ g \in ShownGroups \cap Attached => Shown(conf, g)
=============================================================================
