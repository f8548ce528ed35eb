\* As many requests at a time as the pool has connections.
SPECIFICATION FairSpec
CONSTANTS
  Requests = {r1, r2}
  Customers = {c1}
  Cashiers = {s1}
  Keys = {k1}
  NoKey = NoKey
  Bodies = {plain, coupon}
  NoBody = NoBody
  CouponBodies = {coupon}
  MaxCarts = 2
  MaxItems = 2
  MaxOrders = 2
  TotalLimit = 1
  CustomerLimit = 1
  NULL = NULL
  PoolSize = 2
PROPERTIES
  RequestsEnd
\* Every row there may be has been inserted.
CHECK_DEADLOCK FALSE
