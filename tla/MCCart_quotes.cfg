SPECIFICATION CartSpec
CONSTANTS
  Goods = {"saree", "blouse"}
  Variants = {"red"}
  Pricings <- Complete
  Prices = {85}
  CouponForms <- CouponStates
  MaxStock = 2
CHECK_DEADLOCK FALSE
INVARIANTS PricesAgree QuoteMatchesOrder CachedIsCurrent
