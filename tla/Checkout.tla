------------------------------ MODULE Checkout ------------------------------
(***************************************************************************)
(* Placing and cancelling orders over the shared rows of checkout: product *)
(* stock, one coupon's usage counter and its redemption records            *)
(* (OrderService.place_order, cancel_order, admin_cancel).                 *)
(*                                                                         *)
(* A request is one transaction at READ COMMITTED.  Product rows are read  *)
(* with SELECT ... FOR UPDATE: a row is locked when it is read and held to *)
(* the commit, and the rows of one request are locked one after the other. *)
(* The order and, when an order is placed, the coupon are read without a   *)
(* lock; the commit overwrites the columns it sets.                        *)
(***************************************************************************)
EXTENDS Integers, FiniteSets, Functions

CONSTANTS
  Products,
  Carts,             \* units per product of the checkouts customers may submit
  InitialStock,      \* catalog_product.stock at the start
  Orders, NoOrder,   \* order numbers; a retried checkout comes with the same one
  Customers, Guest,
  CouponCarts,       \* the carts the coupon applies to (its eligibility conditions)
  UsageLimit,        \* coupon.usage_limit
  PerCustomerLimit,  \* coupon.per_customer_limit
  Reqs, NoReq,       \* requests in flight, and the holder of a free row
  Cancellers         \* the requests that may carry a cancellation

ASSUME CartsAssumption ==
  Carts \subseteq [Products -> Nat] /\ \A cart \in Carts : \E p \in Products : cart[p] > 0
ASSUME StockAssumption == InitialStock \in [Products -> Nat]
ASSUME LimitsAssumption ==
  CouponCarts \subseteq Carts /\ UsageLimit \in Nat /\ PerCustomerLimit \in Nat
ASSUME RequestsAssumption == NoReq \notin Reqs /\ Cancellers \subseteq Reqs
ASSUME OrdersAssumption == IsFiniteSet(Orders)
ASSUME NamesAssumption == Guest \notin Customers /\ NoOrder \notin Orders

VARIABLES
  stock,     \* catalog_product.stock
  usage,     \* coupon.usage_count
  redeemed,  \* orders with a coupon redemption record
  orders,    \* order rows
  returned,  \* how often the units of an order went back to stock
  holder,    \* the request holding each product row's lock
  req        \* requests in flight

vars == <<stock, usage, redeemed, orders, returned, holder, req>>

-----------------------------------------------------------------------------

\* OPEN stands for every status from which an order can be cancelled; the
\* customer matters only to a coupon, and is kept only with one.
OrderRow ==
  [status : {"ABSENT", "OPEN", "CANCELLED"}, paid : BOOLEAN, cart : [Products -> Nat],
   coupon : BOOLEAN, customer : Customers \cup {Guest}]

NoUnits == [p \in Products |-> 0]
AbsentOrder ==
  [status |-> "ABSENT", paid |-> FALSE, cart |-> NoUnits, coupon |-> FALSE, customer |-> Guest]

\* seen: stock as read under the lock; seenUsage: usage_count as read.
Request ==
  [op : {"idle", "place", "checked", "cancel"}, order : Orders \cup {NoOrder}, row : OrderRow,
   seen : [Products -> Nat], seenUsage : Nat, release : BOOLEAN]

Idle == [op |-> "idle", order |-> NoOrder, row |-> AbsentOrder,
         seen |-> NoUnits, seenUsage |-> 0, release |-> FALSE]

TypeOK ==
  /\ stock \in [Products -> Nat]
  /\ usage \in Nat
  /\ redeemed \subseteq Orders
  /\ orders \in [Orders -> OrderRow]
  /\ returned \in [Orders -> Nat]
  /\ holder \in [Products -> Reqs \cup {NoReq}]
  /\ req \in [Reqs -> Request]
  /\ \A r \in Reqs : req[r].op # "idle" => req[r].order \in Orders

Init ==
  /\ stock = InitialStock
  /\ usage = 0
  /\ redeemed = {}
  /\ orders = [o \in Orders |-> AbsentOrder]
  /\ returned = [o \in Orders |-> 0]
  /\ holder = [p \in Products |-> NoReq]
  /\ req = [r \in Reqs |-> Idle]

-----------------------------------------------------------------------------
(* Product rows.                                                           *)

\* The rows a request selects FOR UPDATE: the cart's, or those of a
\* cancelled order whose units go back.
Wanted(r) ==
  IF req[r].op = "place" \/ (req[r].op = "cancel" /\ req[r].release)
  THEN {p \in Products : req[r].row.cart[p] > 0} ELSE {}

Holds(r) == \A p \in Wanted(r) : holder[p] = r

LockRow_NoWait(r, p) ==   \* mutant: the row is read without FOR UPDATE
  /\ p \in Wanted(r) /\ holder[p] # r
  /\ holder' = [holder EXCEPT ![p] = r]
  /\ req' = [req EXCEPT ![r].seen[p] = stock[p]]
  /\ UNCHANGED <<stock, usage, redeemed, orders, returned>>

LockRow(r, p) ==
  /\ p \in Wanted(r) /\ holder[p] = NoReq
  /\ holder' = [holder EXCEPT ![p] = r]
  /\ req' = [req EXCEPT ![r].seen[p] = stock[p]]
  /\ UNCHANGED <<stock, usage, redeemed, orders, returned>>

\* The end of a transaction: its row locks are gone.
Finish(r) ==
  /\ holder' = [p \in Products |-> IF holder[p] = r THEN NoReq ELSE holder[p]]
  /\ req' = [req EXCEPT ![r] = Idle]

\* A request that raises, is chosen by deadlock detection, or dies with its
\* worker is rolled back.
Abort(r) ==
  /\ req[r].op # "idle"
  /\ Finish(r)
  /\ UNCHANGED <<stock, usage, redeemed, orders, returned>>

-----------------------------------------------------------------------------
(* place_order.                                                            *)

\* An order with this number is returned as it is; otherwise start.
PlaceStart(r, o, cart, customer, coupon) ==
  /\ req[r].op = "idle"
  /\ orders[o].status = "ABSENT"
  /\ coupon => cart \in CouponCarts
  /\ LET row == [status |-> "OPEN", paid |-> FALSE, cart |-> cart, coupon |-> coupon,
                 customer |-> IF coupon THEN customer ELSE Guest]
     IN req' = [req EXCEPT ![r] = [@ EXCEPT !.op = "place", !.order = o, !.row = row]]
  /\ UNCHANGED <<stock, usage, redeemed, orders, returned, holder>>

UsesOf(c) == Cardinality({o \in redeemed : orders[o].customer = c})

CouponOK_OffByOne(customer) ==   \* mutant: one use too many
  /\ usage <= UsageLimit
  /\ customer \in Customers => UsesOf(customer) < PerCustomerLimit
\* _revalidate_coupon_for_order: the limits (activity, dates and eligibility
\* do not change under a checkout).
CouponOK(customer) ==
  /\ usage < UsageLimit
  /\ customer \in Customers => UsesOf(customer) < PerCustomerLimit

EnoughStock(r) ==
  \A p \in Wanted(r) : req[r].row.cart[p] <= req[r].seen[p]

PlaceCheck(r) ==
  /\ req[r].op = "place"
  /\ Holds(r)
  /\ EnoughStock(r)
  /\ req[r].row.coupon => CouponOK(req[r].row.customer)
  /\ req' = [req EXCEPT ![r] = [@ EXCEPT !.op = "checked", !.seenUsage = usage]]
  /\ UNCHANGED <<stock, usage, redeemed, orders, returned, holder>>

\* order_number is UNIQUE: of two first attempts only one commits.
PlaceCommit(r) ==
  LET o == req[r].order
      row == req[r].row IN
  /\ req[r].op = "checked"
  /\ orders[o].status = "ABSENT"
  /\ orders' = [orders EXCEPT ![o] = row]
  /\ stock' = [p \in Products |-> IF row.cart[p] > 0 THEN req[r].seen[p] - row.cart[p]
                                                     ELSE stock[p]]
  /\ usage' = IF row.coupon THEN req[r].seenUsage + 1 ELSE usage
  /\ redeemed' = IF row.coupon /\ row.customer \in Customers THEN redeemed \cup {o} ELSE redeemed
  /\ Finish(r)
  /\ UNCHANGED returned

-----------------------------------------------------------------------------
(* cancel_order, admin_cancel and _on_order_cancelled.                     *)

CancelRead_NoGuard(r, o) ==   \* mutant: a cancelled order may be cancelled again
  /\ r \in Cancellers
  /\ req[r].op = "idle"
  /\ orders[o].status # "ABSENT"
  /\ req' = [req EXCEPT ![r] = [@ EXCEPT !.op = "cancel", !.order = o, !.row = orders[o],
                                          !.release = ~orders[o].paid]]
  /\ UNCHANGED <<stock, usage, redeemed, orders, returned, holder>>

\* Units and coupon use are given back if the order was unpaid as read.
CancelRead(r, o) ==
  /\ r \in Cancellers
  /\ req[r].op = "idle"
  /\ orders[o].status = "OPEN"
  /\ req' = [req EXCEPT ![r] = [@ EXCEPT !.op = "cancel", !.order = o, !.row = orders[o],
                                          !.release = ~orders[o].paid]]
  /\ UNCHANGED <<stock, usage, redeemed, orders, returned, holder>>

\* The coupon row is read FOR UPDATE here, so its counter is current.
CancelCommit(r) ==
  LET o == req[r].order
      row == req[r].row IN
  /\ req[r].op = "cancel"
  /\ Holds(r)
  /\ orders' = [orders EXCEPT ![o].status = "CANCELLED"]
  /\ IF req[r].release
     THEN /\ stock' = [p \in Products |-> IF row.cart[p] > 0 THEN req[r].seen[p] + row.cart[p]
                                                             ELSE stock[p]]
          /\ usage' = IF row.coupon /\ usage > 0 THEN usage - 1 ELSE usage
          /\ redeemed' = IF row.coupon THEN redeemed \ {o} ELSE redeemed
          /\ returned' = [returned EXCEPT ![o] = @ + 1]
     ELSE UNCHANGED <<stock, usage, redeemed, returned>>
  /\ Finish(r)

\* The payment service confirms the payment, also of a cancelled order.
ConfirmPaid(o) ==
  /\ orders[o].status # "ABSENT" /\ ~orders[o].paid
  /\ orders' = [orders EXCEPT ![o].paid = TRUE]
  /\ UNCHANGED <<stock, usage, redeemed, returned, holder, req>>

-----------------------------------------------------------------------------

PlaceOrder(r) ==
  \/ \E o \in Orders, cart \in Carts, c \in Customers \cup {Guest}, coupon \in BOOLEAN :
       PlaceStart(r, o, cart, c, coupon)
  \/ PlaceCheck(r) \/ PlaceCommit(r)

CancelOrder(r) == CancelCommit(r) \/ \E o \in Orders : CancelRead(r, o)

Next ==
  \/ \E r \in Reqs :
       \/ PlaceOrder(r) \/ CancelOrder(r) \/ Abort(r)
       \/ \E p \in Products : LockRow(r, p)
  \/ \E o \in Orders : ConfirmPaid(o)

Spec == Init /\ [][Next]_vars

-----------------------------------------------------------------------------
(* Properties.                                                             *)

\* The units each order keeps: all of them until they went back.
UnitsKept(p) == [o \in Orders |-> (1 - returned[o]) * orders[o].cart[p]]

\* No unit is lost or invented, whatever is in flight: the row lock makes
\* every read-modify-write of stock see the last committed value.
StockConserved ==
  \A p \in Products : stock[p] + SumFunction(UnitsKept(p)) = InitialStock[p]

\* The coupon counter counts the orders that used the coupon and did not give
\* it back (checkouts that share a product are serialised by its row lock, and
\* with it their uses of the coupon), so its limits limit: the usage limit the
\* orders that keep the coupon, and the per-customer limit those of one
\* customer, from redemption records.
CouponHolders == {o \in Orders : orders[o].coupon /\ returned[o] = 0}
CouponLimitsKept ==
  /\ usage = Cardinality(CouponHolders)
  /\ Cardinality(CouponHolders) <= UsageLimit
  /\ \A c \in Customers :
       Cardinality({o \in CouponHolders : orders[o].customer = c}) <= PerCustomerLimit

\* Checkout implements StockPromise.
Promise == INSTANCE StockPromise WITH
  Shelf0 <- InitialStock,
  shelf <- stock,
  holds <- [o \in Orders |-> IF returned[o] > 0 THEN NoUnits ELSE orders[o].cart]
StockPromiseKept == Promise!Spec

\* What stock never going negative rests on: what a request read from a row it
\* holds is current, and a request that passed the check holds the rows of its
\* cart, with enough units on them, until it commits.
LockedRowsCurrent ==
  \A r \in Reqs, p \in Products : holder[p] = r => req[r].seen[p] = stock[p]
CheckedHasUnits ==
  \A r \in Reqs : req[r].op = "checked" =>
    \A p \in Products : req[r].row.cart[p] > 0 =>
      holder[p] = r /\ req[r].row.cart[p] <= stock[p]
LocksProtectStock == LockedRowsCurrent /\ CheckedHasUnits
=============================================================================
