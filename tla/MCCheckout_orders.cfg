SPECIFICATION Spec
CONSTANTS
  p1 = p1
  p2 = p2
  o1 = o1
  o2 = o2
  o3 = o3
  c1 = c1
  r1 = r1
  r2 = r2
  Products = {p1, p2}
  Carts <- MixedCarts
  InitialStock <- Scarce
  Orders = {o1, o2, o3}
  NoOrder = NoOrder
  Customers = {c1}
  Guest = Guest
  CouponCarts <- P1Only
  UsageLimit = 2
  PerCustomerLimit = 1
  Reqs = {r1, r2}
  NoReq = NoReq
  Cancellers = {r1}
SYMMETRY Symmetry
CHECK_DEADLOCK FALSE
INVARIANTS StockConserved CouponLimitsKept
PROPERTIES StockPromiseKept
