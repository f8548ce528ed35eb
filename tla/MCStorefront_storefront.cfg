\* Days of ten units, the second with a change of the clocks, and two requests at a time.
SPECIFICATION Spec
CONSTANTS
  DayLength = 10
  Interval = 2
  Week = 2
  Horizon = 1
  MinTransit = 1
  Change = 11
  Before = 1
  After = 2
  Requests = {r1, r2}
  Openings = {4, 8}
  PrepTimes = {0, 2}
  DeliveryTimes = {1, 3}
  DefaultPrep = 2
  FirstNow = 9
  LastNow = 12
  OrderTimes = {12}
SYMMETRY Symmetry
INVARIANTS
  SlotsAreAccepted
  AcceptedAreShown
  ShownIsMeant
  KitchenHasItsTime
PROPERTIES
  OrdersAreInHours
\* Every row there may be has been used up.
CHECK_DEADLOCK FALSE
