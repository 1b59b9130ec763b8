-------------------------------- MODULE Cart --------------------------------
(***************************************************************************)
(* The customer's cart and what its goods cost (CartService, the pricing   *)
(* engine of ProductService, and the prices of OrderService.place_order).  *)
(*                                                                         *)
(* Three places work out a price: the product page, the cart and the       *)
(* order.  The cart is restored (lines dropped and clamped), quoted and    *)
(* cached; the order is priced again from the catalog.  The desk edits     *)
(* prices, stock and the coupon in between.                                *)
(*                                                                         *)
(* A customer's requests come one at a time.  Two rows of one line, which  *)
(* the cart merges, need overlapping requests or colours that differ in    *)
(* case only, and are left out; so is the order's own effect on the stock, *)
(* which is module Checkout's.                                             *)
(***************************************************************************)
EXTENDS Integers, Functions

CONSTANTS
  Products, Variants,   \* colours and sizes: a line is a product and a variant
  Pricings,             \* what the desk may save: [mrp, selling, type, value]
  Prices,               \* what it may save without a pricing block
  Coupons,              \* the states of the coupon the desk may choose
  MaxStock              \* bound: units in stock

VARIABLES
  product,   \* catalog_product: live, stock, price, original, pricing
  line,      \* commerce_cart_item: quantities
  coupon,    \* commerce_coupon
  applied,   \* the cart has the coupon
  cached,    \* cart:{customer_id}
  edited     \* the desk has edited something since the cart was cached

vars == <<product, line, coupon, applied, cached, edited>>

Keys == Products \X Variants
NoPricing == [type |-> "absent"]
NoQuote == [lines |-> "absent"]

FREE_SHIPPING_THRESHOLD == 5000
FLAT_SHIPPING_FEE == 99
EXPRESS_SHIPPING_FEE == 199
COD_FEE == 49

\* Python's round of n / 100: to the nearest, and a tie to the even one.
RoundHundredths(n) ==
  LET q == n \div 100  rest == n % 100 IN
  IF rest > 50 \/ (rest = 50 /\ q % 2 = 1) THEN q + 1 ELSE q

NotBelowZero(n) == IF n < 0 THEN 0 ELSE n
Or(x, y) == IF x # 0 THEN x ELSE y   \* Python's or, with None as 0
Least(x, y) == IF x < y THEN x ELSE y

Discounted(selling, pricing) ==
  IF pricing.type = "percentage" THEN NotBelowZero(RoundHundredths(100 * selling - selling * pricing.value))
  ELSE IF pricing.type = "fixed" THEN NotBelowZero(selling - pricing.value)
  ELSE selling

-----------------------------------------------------------------------------
(* Three prices of a product.                                              *)

\* compute_pricing: what is wrong with a pricing block.
Errors(pricing) ==
  \/ Or(pricing.mrp, pricing.selling) <= 0 \/ pricing.selling <= 0
  \/ pricing.mrp > 0 /\ pricing.selling > pricing.mrp
  \/ pricing.type = "percentage" /\ pricing.value \notin 0..100
  \/ pricing.type = "fixed" /\ pricing.value \notin 0..pricing.selling

\* _to_storefront.
PagePrice(p) ==
  IF p.pricing = NoPricing THEN p.price ELSE NotBelowZero(Discounted(p.pricing.selling, p.pricing))

\* _effective_price.
CartPrice(p) ==
  IF p.pricing = NoPricing THEN p.price ELSE Discounted(Or(p.pricing.selling, p.price), p.pricing)

OrderPrice_Down(p) ==   \* mutant: the rupee is cut off, not rounded
  IF p.pricing = NoPricing THEN p.price
  ELSE LET selling == Or(p.pricing.selling, Or(p.original, p.price)) IN
       IF p.pricing.type = "percentage" THEN NotBelowZero((100 * selling - selling * p.pricing.value) \div 100)
       ELSE Discounted(selling, p.pricing)
\* _resolve_unit_price.
OrderPrice(p) ==
  IF p.pricing = NoPricing THEN p.price
  ELSE Discounted(Or(p.pricing.selling, Or(p.original, p.price)), p.pricing)

-----------------------------------------------------------------------------
(* The cart's quote and the order's total.                                 *)

\* _restore_cart: what is not for sale goes, what is left is clamped to the stock.
Restored(lines) ==
  [k \in Keys |-> IF product[k[1]].live THEN Least(lines[k], product[k[1]].stock) ELSE 0]

InCart == [p \in Products |-> CartPrice(product[p])]
InOrder == [p \in Products |-> OrderPrice(product[p])]

\* What lines of some products are worth at these prices.
Worth(price, lines, some) ==
  SumFunction([k \in Keys |-> IF k[1] \in some THEN price[k[1]] * lines[k] ELSE 0])

\* The products a coupon counts.
Counted(c) ==
  {p \in Products : p \notin c.excluded /\ (c.eligible # {} => p \in c.eligible)}

Amount(c, eligible) ==
  IF c.type = "percentage" THEN RoundHundredths(eligible * c.value)
  ELSE IF c.type = "fixed" THEN Least(c.value, eligible)
  ELSE 0   \* free_shipping

\* _validate_coupon_still_live.
StillLive == coupon.active /\ ~coupon.usedUp

\* _build_cart_response, with _compute_coupon_discount.
Quote(lines) ==
  LET subtotal == Worth(InCart, lines, Products) IN
  [lines |-> lines, subtotal |-> subtotal, coupon |-> applied /\ StillLive,
   discount |-> IF applied /\ StillLive /\ subtotal >= coupon.minimum
                THEN Amount(coupon, Worth(InCart, lines, Counted(coupon))) ELSE 0]

Shipping(amount, delivery) ==
  IF delivery = "express" THEN EXPRESS_SHIPPING_FEE
  ELSE IF delivery \in {"normal", "free"} \/ amount >= FREE_SHIPPING_THRESHOLD THEN 0
  ELSE FLAT_SHIPPING_FEE
Cod(payment) == IF payment = "cod" THEN COD_FEE ELSE 0

\* get_totals, from the response get_cart gives it.
CartTotal(quote, delivery, payment) ==
  NotBelowZero(quote.subtotal - quote.discount
               + Shipping(quote.subtotal - quote.discount, delivery) + Cod(payment))

\* place_order's checks, for the lines and the coupon the cart shows.
Accepts(quote) ==
  /\ \E k \in Keys : quote.lines[k] > 0
  /\ \A p \in Products :
       LET wanted == SumFunction([v \in Variants |-> quote.lines[<<p, v>>]]) IN
       wanted > 0 => product[p].live /\ wanted <= product[p].stock
  /\ quote.coupon => StillLive /\ coupon.mine
       /\ Worth(InOrder, quote.lines, Products) >= coupon.minimum

OrderDiscount_Everything(quote) ==   \* mutant: the lists of products are not looked at
  IF quote.coupon THEN Amount(coupon, Worth(InOrder, quote.lines, Products)) ELSE 0
OrderDiscount(quote) ==
  IF quote.coupon THEN Amount(coupon, Worth(InOrder, quote.lines, Counted(coupon))) ELSE 0

OrderTotal(quote, delivery, payment) ==
  LET amount == Worth(InOrder, quote.lines, Products) - OrderDiscount(quote) IN
  amount + Shipping(amount, delivery) + Cod(payment)

-----------------------------------------------------------------------------

Init ==
  /\ product = [p \in Products |-> [live |-> FALSE, stock |-> MaxStock, price |-> 0, original |-> 0,
                                    pricing |-> NoPricing]]
  /\ line = [k \in Keys |-> 0]
  /\ coupon \in Coupons
  /\ applied = FALSE /\ edited = FALSE
  /\ cached = NoQuote

-----------------------------------------------------------------------------
(* The desk.                                                               *)

Edit(p, row) ==
  /\ row # product[p]
  /\ product' = [product EXCEPT ![p] = row]
  /\ edited' = TRUE
  /\ UNCHANGED <<line, coupon, applied, cached>>

\* update_product with _derive_pricing: a block that is in order sets the prices.
SavePricing(p, pricing) ==
  LET final == NotBelowZero(Discounted(pricing.selling, pricing))
      mrp == Or(pricing.mrp, pricing.selling) IN
  Edit(p, IF ~Errors(pricing) /\ final > 0
          THEN [product[p] EXCEPT !.pricing = pricing, !.price = final,
                                  !.original = IF mrp > final THEN mrp ELSE 0]
          ELSE [product[p] EXCEPT !.pricing = pricing])

SavePrice(p, price) == Edit(p, [product[p] EXCEPT !.price = price])

\* get_publish_issues, as far as money goes.
Publish(p) ==
  /\ product[p].price > 0 \/ PagePrice(product[p]) > 0
  /\ product[p].pricing # NoPricing => ~Errors(product[p].pricing)
  /\ Edit(p, [product[p] EXCEPT !.live = TRUE])
Withdraw(p) == Edit(p, [product[p] EXCEPT !.live = FALSE])

\* Sales, cancellations, the stock desk.
SetStock(p, n) == Edit(p, [product[p] EXCEPT !.stock = n])

\* api/v1/coupons: create, update, activate, pause, archive; redemptions.
EditCoupon(c) ==
  /\ coupon' = c /\ c # coupon
  /\ edited' = TRUE
  /\ UNCHANGED <<product, line, applied, cached>>

-----------------------------------------------------------------------------
(* The customer: a change restores the other lines and evicts the cart.    *)

Changed(lines, has) ==
  /\ line' = lines /\ applied' = has
  /\ cached' = NoQuote
  /\ edited' = FALSE
  /\ UNCHANGED <<product, coupon>>

Add(k, n) ==
  /\ product[k[1]].live /\ product[k[1]].stock > 0
  /\ Changed([Restored(line) EXCEPT ![k] = Least(line[k] + n, product[k[1]].stock)], applied)

\* update_item and remove_item: below one the line goes.
Update(k, n) ==
  /\ line[k] > 0
  /\ Changed(Restored([line EXCEPT ![k] = n]), applied)

Clear ==
  /\ Changed([k \in Keys |-> 0], FALSE)

ApplyCoupon ==
  /\ StillLive /\ coupon.mine
  /\ Worth(InCart, Restored(line), Products) >= coupon.minimum
  /\ Changed(Restored(line), TRUE)

RemoveCoupon_KeepsCache ==   \* mutant: the cached cart is not evicted
  /\ applied' = FALSE
  /\ UNCHANGED <<product, line, coupon, cached, edited>>
RemoveCoupon == Changed(line, FALSE)

\* get_cart, when nothing is cached; the restored lines are saved.
GetCart ==
  /\ cached = NoQuote
  /\ line' = Restored(line)
  /\ cached' = Quote(Restored(line))
  /\ edited' = FALSE
  /\ UNCHANGED <<product, coupon, applied>>

\* TTL_CART has passed, or the process restarted.
Expire ==
  /\ cached # NoQuote
  /\ cached' = NoQuote /\ edited' = FALSE
  /\ UNCHANGED <<product, line, coupon, applied>>

\* The routes of the customer; GET answers from the cache or computes the cart.
CartCalls ==
  \/ \E k \in Keys : (\E n \in 1..MaxStock : Add(k, n)) \/ \E n \in 0..MaxStock : Update(k, n)
  \/ Clear \/ ApplyCoupon \/ RemoveCoupon \/ GetCart

Next ==
  \/ \E p \in Products :
       \/ \E pricing \in Pricings : SavePricing(p, pricing)
       \/ \E price \in Prices : SavePrice(p, price)
       \/ Publish(p) \/ Withdraw(p)
       \/ \E n \in 0..MaxStock : SetStock(p, n)
  \/ \E c \in Coupons : EditCoupon(c)
  \/ CartCalls \/ Expire

Spec == Init /\ [][Next]_vars

-----------------------------------------------------------------------------
(* Properties.                                                             *)

\* "the same resolution CartService uses, so order totals always match the
\* price the customer was shown": page, cart and order agree on every price, and
\* no save takes the price away from a product that was published with one.
PricesAgree ==
  \A p \in Products : product[p].live =>
    /\ CartPrice(product[p]) > 0 \/ product[p].pricing # NoPricing
    /\ PagePrice(product[p]) = CartPrice(product[p])
    /\ CartPrice(product[p]) = OrderPrice(product[p])

\* "the cart display and the placed order can never disagree": an order for
\* what a fresh cart shows, when it is accepted, costs what the cart says.
QuoteMatchesOrder ==
  LET quote == Quote(Restored(line)) IN
  Accepts(quote) =>
    \A delivery \in {"normal", "standard", "express"}, payment \in {"cod", "online"} :
      CartTotal(quote, delivery, payment) = OrderTotal(quote, delivery, payment)

\* "evicted on every mutation anyway": but for edits of the desk, the cached
\* cart is the one that would be built now.
CachedIsCurrent ==
  cached # NoQuote /\ ~edited => cached = Quote(Restored(line))
=============================================================================
