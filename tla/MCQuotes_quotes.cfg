\* Two orders at a time, of a pizza in all its configurations.
SPECIFICATION Spec
CONSTANTS
  Requests = {r1, r2}
  Customers = {"anna", "bruno"}
  Items = {"pizza", "beer"}
  Promos = {1, 2, 3}
  Offers <- MCOffers
  Groups = {"lunch", "drinks"}
  NoGroup = NoGroup
  Orders <- QuotedOrders
  NoOrder = NoOrder
  NoCoupon = NoCoupon
  MinimumOrder = 8
  TaxRate = 1000
  TaxExcluded = TRUE
  NULL = NULL
  OptionGroups = {"dough", "sauce", "toppings", "box", "extras", "dips"}
  Attached = {"dough", "sauce", "toppings", "box", "extras"}
  GroupOf <- MCGroupOf
  PriceOf <- MCPriceOf
  MinSelect <- MCMinSelect
  MaxSelect <- MCMaxSelect
  MinOverride <- NoOverride
  MaxOverride <- MCMaxOverride
  Counted = {"toppings"}
  Portion = 2
  Incompatible = {{"basil", "truffle"}}
  BuildYourOwn = TRUE
  BuilderGroups = {"dough", "sauce"}
  ToppingsGroup = "toppings"
  MaxToppings = 2
  FreeToppings = 1
  Null = Null
SYMMETRY Symmetry
INVARIANTS
  StackingPolicy
  PromotionsWithinLimits
  TotalsAreStorable
  MoreCostsNoLess
  
\* Every request may have ended.
CHECK_DEADLOCK FALSE
