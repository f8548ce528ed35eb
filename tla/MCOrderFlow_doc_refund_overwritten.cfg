\* Two approvals of one refund.
SPECIFICATION Spec
CONSTANTS
  o1 = o1
  Orders = {o1}
  Method <- AllCard
  OrderType <- AllPickup
  PosOrders = {}
  Drivers = {}
  NoDriver = NoDriver
  MaxTxns = 1
  Staff = Staff
  Retryable = FALSE
  RefundIds = {r1}
  Amount = 2
PROPERTIES
  RefundedIsFinal
\* Every request of every bounded kind may have been made.
CHECK_DEADLOCK FALSE
