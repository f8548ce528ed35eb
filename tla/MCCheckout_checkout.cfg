\* Two requests at a time of two customers and a cashier, with a coupon to be used once, and a connection to spare in the pool.
SPECIFICATION FairSpec
CONSTANTS
  Requests = {r1, r2}
  Customers = {c1, c2}
  Cashiers = {s1}
  Keys = {k1}
  NoKey = NoKey
  Bodies = {plain, coupon}
  NoBody = NoBody
  CouponBodies = {coupon}
  MaxCarts = 2
  MaxItems = 2
  MaxOrders = 2
  TotalLimit = 1
  CustomerLimit = 1
  NULL = NULL
  PoolSize = 3
INVARIANTS
  OneOrderPerCart
  OneOrderPerKey
  CouponWithinLimits
PROPERTIES
  ImplementsPurchases
  RequestsEnd
\* Every row there may be has been inserted.
CHECK_DEADLOCK FALSE
