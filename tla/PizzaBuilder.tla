---------------------------- MODULE PizzaBuilder ----------------------------
(***************************************************************************)
(* PizzaBuilderService: the page on which a pizza is put together, and the *)
(* configuration it sends.  The page reads the rule and the groups itself  *)
(* and shows its own bounds; PricingService decides what is accepted.      *)
(***************************************************************************)
EXTENDS Pricing

\* getConfiguration: the groups of the rule that are active, attached to the
\* item or not.
ShownGroups == (BuilderGroups \cup {ToppingsGroup}) \cap OptionGroups

\* minSelections and maxSelections; an override for the item is not read, and
\* Null is shown as no limit.  The flag "required" is left out.
MinSelections(g) == MinSelect[g]
MaxSelections(g) ==
  CASE g = ToppingsGroup -> Overridden(MaxToppings, MaxSelect[g])
    [] OTHER             -> Overridden(MaxSelect[g], 1)

Shown(conf, g) ==
  LET count == Cardinality(InGroup(conf, g))
  IN  /\ count >= MinSelections(g)
      /\ MaxSelections(g) = Null \/ count <= MaxSelections(g)

\* build: at most one choice of each group but the toppings, each once.
Build(choices, toppings) ==
  [c \in OptionChoices |-> IF c \in choices \cup toppings THEN Portion ELSE 0]

\* What the table of rules admits ...
IsRule == MaxToppings \in Nat \cup {Null} /\ FreeToppings \in Nat

\* ... and what validateReferences checks when a rule is saved: its groups
\* exist.  They were active then and need not be any more.
ReferencesExist == BuilderGroups \cup {ToppingsGroup} \subseteq DOMAIN MinSelect

\* The CHECKs of option_groups and menu_item_option_groups.
AreGroups ==
  /\ OptionGroups \cup Attached \subseteq DOMAIN MinSelect
  /\ \A g \in DOMAIN MinSelect :
        /\ MinSelect[g] \in Nat
        /\ MaxSelect[g] \in Nat \cup {Null}
        /\ MaxSelect[g] # Null => MaxSelect[g] >= MinSelect[g]
        /\ {MinOverride[g], MaxOverride[g]} \subseteq Nat \cup {Null}
  /\ \A c \in OptionChoices : GroupOf[c] \in DOMAIN MinSelect

ASSUME PizzaBuilderAssumption == IsRule /\ ReferencesExist /\ AreGroups
=============================================================================
