------------------------------ MODULE Pricing ------------------------------
(***************************************************************************)
(* PricingService.calculate: which configurations of a menu item are       *)
(* accepted, and what they cost.                                           *)
(*                                                                         *)
(* A configuration maps every choice to its quantity, counted in parts of  *)
(* a portion, 0 when it is not selected.  One item of the menu is          *)
(* modelled, with the option groups of its restaurant and its rule of the  *)
(* pizza builder; that item, size and choices exist and are available is   *)
(* assumed.  Removed ingredients change no price and are left out, and so  *)
(* is the rounding of products of fractions.                               *)
(***************************************************************************)
EXTENDS Integers, FiniteSets

CONSTANTS OptionGroups,   \* active groups of the restaurant
          Attached,       \* groups menu_item_option_groups attaches to the item
          GroupOf,        \* the group of each choice
          PriceOf,        \* option_choices.price_adjustment_minor, may be negative
          MinSelect, MaxSelect,      \* per group; a maximum may be Null
          MinOverride, MaxOverride,  \* per group, for this item, or Null
          Counted,        \* groups that allow quantities
          Portion,        \* parts of a portion, 100: quantities have two decimals
          Incompatible,   \* option_incompatibilities, as sets of two choices
          BuildYourOwn,   \* is the item built by the customer?
          BuilderGroups,  \* the rule's dough, sauce and cheese groups
          ToppingsGroup, MaxToppings, FreeToppings,  \* the rest of the rule
          Null            \* a column without a value

OptionChoices  == DOMAIN PriceOf
Selected(conf) == {c \in OptionChoices : conf[c] > 0}
InGroup(conf, g) == {c \in Selected(conf) : GroupOf[c] = g}

\* The driver returns null for a missing maximum, which is not undefined:
\* the comparison count > null asks whether anything is selected.
Within(count, maximum) == IF maximum = Null THEN count = 0 ELSE count <= maximum

Overridden(override, column) == IF override # Null THEN override ELSE column

\* A fault: only the minimum of a group is looked at.
GroupsAcceptMore(conf) ==
  \A g \in OptionGroups \cap Attached :
     Cardinality(InGroup(conf, g)) >= Overridden(MinOverride[g], MinSelect[g])

GroupsAccept(conf) ==
  \A g \in OptionGroups \cap Attached :
     LET count == Cardinality(InGroup(conf, g))
     IN  /\ count >= Overridden(MinOverride[g], MinSelect[g])
         /\ Within(count, Overridden(MaxOverride[g], MaxSelect[g]))

BuilderAccepts(conf) ==
  BuildYourOwn =>
    /\ \A g \in BuilderGroups : InGroup(conf, g) # {}
    /\ Within(Cardinality(InGroup(conf, ToppingsGroup)), MaxToppings)

Accepted(conf) ==
  /\ \A c \in Selected(conf) : GroupOf[c] \in OptionGroups \cap Attached
  /\ \A c \in Selected(conf) : conf[c] = Portion \/ GroupOf[c] \in Counted
  /\ GroupsAccept(conf)
  /\ \A pair \in Incompatible : ~(pair \subseteq Selected(conf))
  /\ BuilderAccepts(conf)

Above(n) == IF n > 0 THEN n ELSE 0

\* The choices by what they add to a price, and by what they take off it.
Value     == [c \in OptionChoices |-> Above(PriceOf[c])]
Reduction == [c \in OptionChoices |-> Above(-PriceOf[c])]

\* Units of money, and the sum of a function of choices, as a number of units.
Units(f, S) == UNION {{c} \X (1 .. f[c]) : c \in S}
Sum(f, S)   == Cardinality(Units(f, S))

\* Prices in ascending order, cut at a number: as many choices as there are
\* up to that number, none dearer than one that is left.
Cheapest(number, choices) ==
  LET count == IF number < Cardinality(choices) THEN number ELSE Cardinality(choices)
  IN  {cheap \in SUBSET choices :
         /\ Cardinality(cheap) = count
         /\ \A f \in cheap, c \in choices \ cheap : Value[f] <= Value[c]}

\* A fault: the wrong end of the prices is taken off.
FreeOfRest(conf) ==
  LET toppings == InGroup(conf, ToppingsGroup)
  IN  toppings \ CHOOSE paid \in Cheapest(FreeToppings, toppings) : TRUE

FreeOf(conf) ==
  CHOOSE free \in Cheapest(FreeToppings, InGroup(conf, ToppingsGroup)) : TRUE

\* optionAdjustmentsMinor in parts: a choice is charged by its quantity, a free
\* topping is taken off at the price of a portion.
Parts(conf) ==
  Sum([c \in OptionChoices |-> conf[c] * Value[c]], OptionChoices)
    - Sum([c \in OptionChoices |-> conf[c] * Reduction[c]], OptionChoices)
    - Portion * Sum(Value, FreeOf(conf))
OptionAdjustments(conf) == Parts(conf) \div Portion

\* The price of a unit is a whole number of cents and not negative.
Sellable(base, conf) ==
  Accepted(conf) /\ Parts(conf) % Portion = 0 /\ base + OptionAdjustments(conf) >= 0

\* What a line of the cart adds to the amounts of its order.
Subtotal(base, quantity)      == base * quantity
OptionCharges(conf, quantity) == OptionAdjustments(conf) * quantity
=============================================================================
