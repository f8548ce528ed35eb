\* Two checkouts of one card order under the fairness of the webhook loop.
SPECIFICATION FairSpec
CONSTANTS
  o1 = o1
  Orders = {o1}
  Method <- AllCard
  OrderType <- AllPickup
  PosOrders = {}
  Drivers = {}
  NoDriver = NoDriver
  MaxTxns = 2
  Staff = Staff
  Retryable = FALSE
  RefundIds = {}
  Amount = 2
INVARIANTS
  ConfirmedAtMostOnce
  PaidHasReceipt
PROPERTIES
  PaidUntilRefunded
  CaptureReachesTheOrder
\* Every request of every bounded kind may have been made.
CHECK_DEADLOCK FALSE
