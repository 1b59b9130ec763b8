------------------------------- MODULE Quotes -------------------------------
(***************************************************************************)
(* The cart of module Cart under names that a specification of orders does *)
(* not use, so that the two can be read, and reasoned about, side by side: *)
(* goods for products, coupon forms for the states of a coupon.            *)
(***************************************************************************)
EXTENDS Integers, FiniteSets

CONSTANTS Goods, Variants, Pricings, Prices, CouponForms, MaxStock

ASSUME GoodsAssumption == IsFiniteSet(Goods) /\ IsFiniteSet(Variants) /\ MaxStock \in Nat \ {0}

VARIABLES product, line, form, applied, cached, edited

K == INSTANCE Cart WITH Products <- Goods, Coupons <- CouponForms, coupon <- form

CartSpec == K!Spec

-----------------------------------------------------------------------------

\* "the same resolution CartService uses, so order totals always match the
\* price the customer was shown": page, cart and order agree on every price, and
\* no save takes the price away from a product that was published with one.
\* (order_service.py, cart_service.py)
PricesAgree == K!PricesAgree

\* "the cart display and the placed order can never disagree": an order for
\* what a fresh cart shows, when it is accepted, costs what the cart says.
\* (order_service.py place_order, cart_service.py)
QuoteMatchesOrder == K!QuoteMatchesOrder

\* "evicted on every mutation anyway": but for edits of the desk, the cached
\* cart is the one that would be built now.
\* (cart_service.py get_cart)
CachedIsCurrent == K!CachedIsCurrent
=============================================================================
