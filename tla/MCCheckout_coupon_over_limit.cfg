SPECIFICATION Spec
CONSTANTS
  p1 = p1
  p2 = p2
  o1 = o1
  o2 = o2
  r1 = r1
  r2 = r2
  Products = {p1, p2}
  Carts <- DisjointCarts
  InitialStock <- Scarce
  Orders = {o1, o2}
  NoOrder = NoOrder
  Customers = {}
  Guest = Guest
  CouponCarts <- DisjointCarts
  UsageLimit = 1
  PerCustomerLimit = 1
  Reqs = {r1, r2}
  NoReq = NoReq
  Cancellers = {}
CHECK_DEADLOCK FALSE
INVARIANTS CouponLimitsKept
