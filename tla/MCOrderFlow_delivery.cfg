\* One cash order to deliver, two drivers and two collections.
SPECIFICATION Spec
CONSTANTS
  o1 = o1
  Orders = {o1}
  Method <- AllCash
  OrderType <- AllDelivery
  PosOrders = {}
  Drivers = {d1, d2}
  NoDriver = NoDriver
  MaxTxns = 2
  Staff = Staff
  Retryable = TRUE
  RefundIds = {}
  Amount = 2
INVARIANTS
  HistoryFollowsTheTable
  DeliveryMatchesOrder
  PaidBeforeHandOver
  CollectedOnce
PROPERTIES
  ImplementsJourney
\* Every request of every bounded kind may have been made.
CHECK_DEADLOCK FALSE
