\* Two refunds of one card order picked up at the restaurant.
SPECIFICATION Spec
CONSTANTS
  o1 = o1
  Orders = {o1}
  Method <- AllCard
  OrderType <- AllPickup
  PosOrders = {}
  Drivers = {}
  NoDriver = NoDriver
  MaxTxns = 1
  Staff = Staff
  Retryable = TRUE
  RefundIds = {r1, r2}
  Amount = 2
INVARIANTS
  CapturedHasReceipt
  RefundsWithinCapture
  FullRefundIsShown
\* Every request of every bounded kind may have been made.
CHECK_DEADLOCK FALSE
