--------------------------- MODULE CheckoutProofs ---------------------------
(***************************************************************************)
(* Checkout, for any products, carts, orders, customers, requests and      *)
(* limits.  Stock is never negative, because a request that passed the     *)
(* check holds its rows and knows their current value; units are           *)
(* conserved; and with one cancellation at a time Checkout implements      *)
(* StockPromise, and the coupon's limits hold as long as a product's row   *)
(* lock does the work of the one the coupon lacks.  At the end, that cart, *)
(* page and order work out one price.                                      *)
(***************************************************************************)
EXTENDS Checkout, Quotes, Sums

StockInv == TypeOK /\ LocksProtectStock

\* Cancelling an order and confirming its payment keep the type of its row.
LEMMA OrderRowUpdates ==
  \A row \in OrderRow : /\ [row EXCEPT !.status = "CANCELLED"] \in OrderRow
                        /\ [row EXCEPT !.paid = TRUE] \in OrderRow
BY DEF OrderRow

LEMMA IdleType == Idle \in Request
BY DEF Idle, Request, OrderRow, AbsentOrder, NoUnits

LEMMA InitInv == Init => StockInv
<1> SUFFICES ASSUME Init PROVE StockInv
  OBVIOUS
<1>1. TypeOK
  <2>1. AbsentOrder \in OrderRow
    BY DEF OrderRow, AbsentOrder, NoUnits
  <2>2. \A r \in Reqs : req[r] = Idle
    BY DEF Init
  <2>3. Idle.op = "idle"
    BY DEF Idle
  <2> QED
    BY <2>1, <2>2, <2>3, StockAssumption, IdleType DEF Init, TypeOK
<1>2. LocksProtectStock
  BY RequestsAssumption DEF Init, LocksProtectStock, LockedRowsCurrent, CheckedHasUnits, Idle
<1> QED
  BY <1>1, <1>2 DEF StockInv

\* A finished transaction holds no row, and no other request is disturbed.
LEMMA FinishFacts ==
  ASSUME TypeOK, NEW r \in Reqs, Finish(r)
  PROVE  /\ holder' \in [Products -> Reqs \cup {NoReq}]
         /\ req' \in [Reqs -> Request]
         /\ req'[r].op = "idle"
         /\ \A p \in Products : holder'[p] # r
         /\ \A q \in Reqs \ {r} : /\ req'[q] = req[q]
                                  /\ \A p \in Products : (holder'[p] = q) <=> (holder[p] = q)
<1>1. req' \in [Reqs -> Request] /\ req'[r] = Idle /\ \A q \in Reqs \ {r} : req'[q] = req[q]
  BY IdleType DEF Finish, TypeOK
<1>2. req'[r].op = "idle"
  BY <1>1 DEF Idle
<1>3. /\ holder' \in [Products -> Reqs \cup {NoReq}]
      /\ \A p \in Products : holder'[p] # r
      /\ \A q \in Reqs \ {r}, p \in Products : (holder'[p] = q) <=> (holder[p] = q)
  BY RequestsAssumption DEF Finish, TypeOK
<1> QED
  BY <1>1, <1>2, <1>3

\* A commit that writes only rows it holds leaves what others read current.
LEMMA CommitKeepsLocks ==
  ASSUME StockInv, NEW r \in Reqs, Finish(r),
         \A p \in Products : holder[p] # r => stock'[p] = stock[p]
  PROVE  LocksProtectStock'
<1> USE DEF StockInv
<1>1. LockedRowsCurrent'
  BY FinishFacts DEF LockedRowsCurrent, LocksProtectStock
<1>2. CheckedHasUnits'
  <2> SUFFICES ASSUME NEW q \in Reqs, req'[q].op = "checked",
                      NEW p \in Products, req'[q].row.cart[p] > 0
               PROVE  holder'[p] = q /\ req'[q].row.cart[p] <= stock'[p]
    BY DEF CheckedHasUnits
  <2>1. q # r /\ req'[q] = req[q]
    BY FinishFacts
  <2>2. holder[p] = q /\ req[q].row.cart[p] <= stock[p]
    BY <2>1 DEF CheckedHasUnits, LocksProtectStock
  <2> QED
    BY <2>1, <2>2, FinishFacts
<1> QED
  BY <1>1, <1>2 DEF LocksProtectStock

\* Nor does a step of a request that neither locks nor commits nor passes the
\* check: it only changes what the request remembers.
LEMMA ReadKeepsLocks ==
  ASSUME StockInv, NEW r \in Reqs, NEW new, new.op # "checked", new.seen = req[r].seen,
         req' = [req EXCEPT ![r] = new], UNCHANGED <<stock, holder>>
  PROVE  LocksProtectStock'
<1>1. req'[r] = new /\ \A q \in Reqs \ {r} : req'[q] = req[q]
  BY DEF StockInv, TypeOK
<1>2. LockedRowsCurrent'
  BY <1>1 DEF StockInv, LocksProtectStock, LockedRowsCurrent
<1>3. CheckedHasUnits'
  BY <1>1 DEF StockInv, LocksProtectStock, CheckedHasUnits
<1> QED
  BY <1>2, <1>3 DEF LocksProtectStock

LEMMA StepInv == StockInv /\ [Next]_vars => StockInv'
<1> SUFFICES ASSUME StockInv, [Next]_vars PROVE StockInv'
  OBVIOUS
<1> USE DEF StockInv
<1>1. ASSUME NEW r \in Reqs, NEW o \in Orders, NEW cart \in Carts,
             NEW c \in Customers \cup {Guest}, NEW coupon \in BOOLEAN,
             PlaceStart(r, o, cart, c, coupon)
      PROVE  StockInv'
  <2> DEFINE row == [status |-> "OPEN", paid |-> FALSE, cart |-> cart, coupon |-> coupon,
                     customer |-> IF coupon THEN c ELSE Guest]
             new == [req[r] EXCEPT !.op = "place", !.order = o, !.row = row]
  <2>1. req' = [req EXCEPT ![r] = new]
    BY <1>1 DEF PlaceStart
  <2>2. row \in OrderRow
    BY CartsAssumption, LimitsAssumption DEF OrderRow
  <2>3. req[r] \in Request
    BY DEF TypeOK
  <2>4. new \in Request /\ new.op = "place" /\ new.seen = req[r].seen
    BY <2>2, <2>3 DEF Request
  <2> HIDE DEF new, row
  <2>5. TypeOK'
    BY <1>1, <2>1, <2>4 DEF PlaceStart, TypeOK
  <2>6. LocksProtectStock'
    BY <1>1, <2>1, <2>4, ReadKeepsLocks DEF PlaceStart
  <2> QED
    BY <2>5, <2>6
<1>2. ASSUME NEW r \in Reqs, NEW p \in Products, LockRow(r, p) PROVE StockInv'
  <2>1. /\ req' \in [Reqs -> Request] /\ holder' \in [Products -> Reqs \cup {NoReq}]
        /\ req'[r].order = req[r].order
    <3>1. req[r] \in Request /\ stock[p] \in Nat
      BY DEF TypeOK
    <3>2. [req[r] EXCEPT !.seen[p] = stock[p]] \in Request
      BY <3>1 DEF Request
    <3>3. req' = [req EXCEPT ![r] = [req[r] EXCEPT !.seen[p] = stock[p]]]
      BY <1>2 DEF LockRow
    <3> QED
      BY <1>2, <3>1, <3>2, <3>3 DEF LockRow, TypeOK, Request
  <2>2. /\ req'[r].op = req[r].op /\ req'[r].row = req[r].row
        /\ req'[r].seen[p] = stock[p]
        /\ \A x \in Products \ {p} : req'[r].seen[x] = req[r].seen[x]
        /\ \A q \in Reqs \ {r} : req'[q] = req[q]
    BY <1>2 DEF LockRow, TypeOK, Request
  <2>3. /\ holder[p] = NoReq /\ holder'[p] = r
        /\ \A x \in Products \ {p} : holder'[x] = holder[x]
    BY <1>2 DEF LockRow, TypeOK
  <2>4. TypeOK'
    BY <1>2, <2>1, <2>2 DEF LockRow, TypeOK
  <2>5. LockedRowsCurrent'
    BY <1>2, <2>2, <2>3, RequestsAssumption DEF LockRow, LocksProtectStock, LockedRowsCurrent
  <2>6. CheckedHasUnits'
    <3>1. req[r].op # "checked"
      BY <1>2 DEF LockRow, Wanted
    <3> QED
      BY <1>2, <2>2, <2>3, <3>1, RequestsAssumption
         DEF LockRow, LocksProtectStock, CheckedHasUnits
  <2> QED
    BY <2>4, <2>5, <2>6 DEF LocksProtectStock
<1>3. ASSUME NEW r \in Reqs, PlaceCheck(r) PROVE StockInv'
  <2> DEFINE new == [req[r] EXCEPT !.op = "checked", !.seenUsage = usage]
  <2>1. req' = [req EXCEPT ![r] = new] /\ req[r] \in Request
    BY <1>3 DEF PlaceCheck, TypeOK
  <2>2. new \in Request /\ new.op = "checked" /\ new.seen = req[r].seen /\ new.row = req[r].row
    BY <2>1 DEF TypeOK, Request
  <2> HIDE DEF new
  <2>3. TypeOK'
    BY <1>3, <2>1, <2>2 DEF PlaceCheck, TypeOK
  <2>4. \A p \in Products : req[r].row.cart[p] > 0 =>
          holder[p] = r /\ req[r].row.cart[p] <= stock[p]
    BY <1>3 DEF PlaceCheck, Holds, EnoughStock, Wanted, LocksProtectStock, LockedRowsCurrent
  <2>5. LocksProtectStock'
    <3>1. req'[r] = new /\ \A q \in Reqs \ {r} : req'[q] = req[q]
      BY <2>1 DEF TypeOK
    <3>2. LockedRowsCurrent'
      BY <1>3, <2>2, <3>1 DEF PlaceCheck, LocksProtectStock, LockedRowsCurrent
    <3>3. CheckedHasUnits'
      BY <1>3, <2>2, <2>4, <3>1 DEF PlaceCheck, LocksProtectStock, CheckedHasUnits
    <3> QED
      BY <3>2, <3>3 DEF LocksProtectStock
  <2> QED
    BY <2>3, <2>5
<1>4. ASSUME NEW r \in Reqs, PlaceCommit(r) PROVE StockInv'
  <2> DEFINE row == req[r].row
  <2>1. row \in OrderRow /\ req[r].order \in Orders \cup {NoOrder} /\ req[r].seenUsage \in Nat
    BY DEF TypeOK, Request
  <2>2. \A p \in Products : row.cart[p] > 0 =>
          holder[p] = r /\ req[r].seen[p] = stock[p] /\ row.cart[p] <= stock[p]
    BY <1>4 DEF PlaceCommit, LocksProtectStock, LockedRowsCurrent, CheckedHasUnits
  <2>3. \A p \in Products : stock'[p] = IF row.cart[p] > 0 THEN req[r].seen[p] - row.cart[p]
                                                           ELSE stock[p]
    BY <1>4 DEF PlaceCommit
  <2>4. stock' \in [Products -> Nat]
    <3>1. ASSUME NEW p \in Products
          PROVE  (IF row.cart[p] > 0 THEN req[r].seen[p] - row.cart[p] ELSE stock[p]) \in Nat
      BY <2>1, <2>2 DEF TypeOK, OrderRow
    <3> QED
      BY <1>4, <3>1 DEF PlaceCommit
  <2>5. orders' \in [Orders -> OrderRow] /\ usage' \in Nat /\ returned' \in [Orders -> Nat]
    BY <1>4, <2>1 DEF PlaceCommit, TypeOK
  <2>6. redeemed' \subseteq Orders
    <3>1. req[r].order \in Orders
      BY <1>4 DEF PlaceCommit, TypeOK
    <3> QED
      BY <1>4, <3>1 DEF PlaceCommit, TypeOK
  <2>7. TypeOK'
    BY <1>4, <2>4, <2>5, <2>6, FinishFacts DEF PlaceCommit, TypeOK
  <2>8. LocksProtectStock'
    BY <1>4, <2>2, <2>3, CommitKeepsLocks DEF PlaceCommit
  <2> QED
    BY <2>7, <2>8
<1>5. ASSUME NEW r \in Reqs, NEW o \in Orders, CancelRead(r, o) PROVE StockInv'
  <2> DEFINE new == [req[r] EXCEPT !.op = "cancel", !.order = o, !.row = orders[o],
                                   !.release = ~orders[o].paid]
  <2>1. req' = [req EXCEPT ![r] = new]
    BY <1>5 DEF CancelRead
  <2>2. req[r] \in Request /\ orders[o] \in OrderRow
    BY DEF TypeOK
  <2>3. /\ new \in Request /\ new.op = "cancel" /\ new.order = o
        /\ new.seen = req[r].seen
    BY <2>2 DEF Request, OrderRow
  <2> HIDE DEF new
  <2>4. TypeOK'
    BY <1>5, <2>1, <2>3 DEF CancelRead, TypeOK
  <2>5. LocksProtectStock'
    BY <1>5, <2>1, <2>3, ReadKeepsLocks DEF CancelRead
  <2> QED
    BY <2>4, <2>5
<1>6. ASSUME NEW r \in Reqs, CancelCommit(r) PROVE StockInv'
  <2> DEFINE row == req[r].row
  <2>1. row \in OrderRow /\ req[r].order \in Orders \cup {NoOrder}
        /\ req[r].seen \in [Products -> Nat]
    BY DEF TypeOK, Request
  <2>2. stock' \in [Products -> Nat]
    <3>1. CASE req[r].release
      <4>1. stock' = [p \in Products |-> IF row.cart[p] > 0 THEN req[r].seen[p] + row.cart[p]
                                                           ELSE stock[p]]
        BY <1>6, <3>1 DEF CancelCommit
      <4>2. \A p \in Products : row.cart[p] \in Nat /\ req[r].seen[p] \in Nat /\ stock[p] \in Nat
        BY <2>1 DEF TypeOK, OrderRow
      <4> HIDE DEF row
      <4> QED
        BY <4>1, <4>2
    <3>2. CASE ~req[r].release
      BY <1>6, <3>2 DEF CancelCommit, TypeOK
    <3> QED
      BY <3>1, <3>2
  <2>3. \A p \in Products : holder[p] # r => stock'[p] = stock[p]
    BY <1>6, <2>1 DEF CancelCommit, Holds, Wanted, TypeOK, OrderRow
  <2>4. orders' \in [Orders -> OrderRow]
    <3>1. \A o \in Orders : [orders[o] EXCEPT !.status = "CANCELLED"] \in OrderRow
      BY OrderRowUpdates DEF TypeOK
    <3> QED
      BY <1>6, <3>1 DEF CancelCommit, TypeOK
  <2>5. usage' \in Nat /\ redeemed' \subseteq Orders /\ returned' \in [Orders -> Nat]
    BY <1>6 DEF CancelCommit, TypeOK
  <2>6. TypeOK'
    BY <1>6, <2>2, <2>4, <2>5, FinishFacts DEF CancelCommit, TypeOK
  <2>7. LocksProtectStock'
    BY <1>6, <2>3, CommitKeepsLocks DEF CancelCommit
  <2> QED
    BY <2>6, <2>7
<1>7. ASSUME NEW r \in Reqs, Abort(r) PROVE StockInv'
  <2>1. TypeOK'
    BY <1>7, FinishFacts DEF Abort, TypeOK
  <2>2. LocksProtectStock'
    BY <1>7, CommitKeepsLocks DEF Abort
  <2> QED
    BY <2>1, <2>2
<1>8. ASSUME NEW o \in Orders, ConfirmPaid(o) PROVE StockInv'
  <2>1. TypeOK'
    <3>1. [orders[o] EXCEPT !.paid = TRUE] \in OrderRow
      BY OrderRowUpdates DEF TypeOK
    <3> QED
      BY <1>8, <3>1 DEF ConfirmPaid, TypeOK
  <2>2. LocksProtectStock'
    BY <1>8 DEF ConfirmPaid, LocksProtectStock, LockedRowsCurrent, CheckedHasUnits
  <2> QED
    BY <2>1, <2>2
<1>9. CASE UNCHANGED vars
  BY <1>9 DEF vars, TypeOK, LocksProtectStock, LockedRowsCurrent, CheckedHasUnits
<1> QED
  BY <1>1, <1>2, <1>3, <1>4, <1>5, <1>6, <1>7, <1>8, <1>9 DEF Next, PlaceOrder, CancelOrder

\* What a request holds is current and what it was promised is there.
THEOREM StockProtected == Spec => []LocksProtectStock
BY InitInv, StepInv, PTL DEF Spec, StockInv

\* Stock, the coupon counter and every row keep their types: in particular
\* stock never goes below zero, whatever checkouts and cancellations overlap.
THEOREM StockNeverNegative == Spec => []TypeOK
BY InitInv, StepInv, PTL DEF Spec, StockInv

-----------------------------------------------------------------------------
(* The order a request was started for.                                    *)

\* The row of an order that was placed.
Sold(row) ==
  /\ row.status # "ABSENT"
  /\ row.cart \in Carts
  /\ row.coupon => row.cart \in CouponCarts

\* An order is untouched until it is placed; a request to place one carries
\* its row, and one to cancel it has the units and the coupon it was sold with.
OrdersKnown ==
  /\ \A o \in Orders :
       /\ orders[o].status = "ABSENT" => orders[o] = AbsentOrder /\ returned[o] = 0
       /\ orders[o].status # "ABSENT" => Sold(orders[o])
  /\ \A r \in Reqs : req[r].op \in {"place", "checked"} => req[r].row.status = "OPEN" /\ Sold(req[r].row)
  /\ \A r \in Reqs : req[r].op = "cancel" =>
       /\ r \in Cancellers
       /\ orders[req[r].order].status # "ABSENT"
       /\ req[r].row.cart = orders[req[r].order].cart
       /\ req[r].row.coupon = orders[req[r].order].coupon

OrderInv == StockInv /\ OrdersKnown

LEMMA OrderInit == Init => OrderInv
<1> SUFFICES ASSUME Init PROVE OrderInv
  OBVIOUS
<1>1. \A o \in Orders : orders[o] = AbsentOrder /\ returned[o] = 0
  BY DEF Init
<1>2. \A r \in Reqs : req[r] = Idle
  BY DEF Init
<1>3. AbsentOrder.status = "ABSENT" /\ Idle.op = "idle"
  BY DEF AbsentOrder, Idle
<1> QED
  BY <1>1, <1>2, <1>3, InitInv DEF OrderInv, OrdersKnown

\* A placed order keeps what it was sold with.
SoldTheSame(o) ==
  orders[o].status # "ABSENT" =>
    /\ orders'[o].status # "ABSENT"
    /\ orders'[o].cart = orders[o].cart
    /\ orders'[o].coupon = orders[o].coupon
    /\ orders'[o].customer = orders[o].customer

\* The requests that a step leaves as they are.
LEMMA OthersKnow ==
  ASSUME OrderInv, NEW r \in Reqs, \A q \in Reqs \ {r} : req'[q] = req[q],
         \A o \in Orders : SoldTheSame(o),
         \A o \in Orders : /\ orders'[o].status = "ABSENT" => orders'[o] = AbsentOrder /\ returned'[o] = 0
                           /\ orders'[o].status # "ABSENT" => Sold(orders'[o]),
         req'[r].op \in {"place", "checked"} => req'[r].row.status = "OPEN" /\ Sold(req'[r].row),
         req'[r].op # "cancel"
  PROVE  OrdersKnown'
<1>1. \A q \in Reqs : req[q].op = "cancel" => req[q].order \in Orders
  BY DEF OrderInv, StockInv, TypeOK
<1>2. \A q \in Reqs : req'[q].op = "cancel" => q # r /\ req'[q] = req[q]
  OBVIOUS
<1>3. \A q \in Reqs : req'[q].op \in {"place", "checked"} =>
        req'[q].row.status = "OPEN" /\ Sold(req'[q].row)
  BY DEF OrderInv, OrdersKnown
<1>4. \A q \in Reqs : req'[q].op = "cancel" =>
        /\ q \in Cancellers
        /\ orders'[req'[q].order].status # "ABSENT"
        /\ req'[q].row.cart = orders'[req'[q].order].cart
        /\ req'[q].row.coupon = orders'[req'[q].order].coupon
  BY <1>1, <1>2 DEF OrderInv, OrdersKnown, SoldTheSame
<1> QED
  BY <1>3, <1>4 DEF OrdersKnown, Sold

LEMMA OrderStep == OrderInv /\ [Next]_vars => OrderInv' /\ \A o \in Orders : SoldTheSame(o)
<1> SUFFICES ASSUME OrderInv, [Next]_vars PROVE OrderInv' /\ \A o \in Orders : SoldTheSame(o)
  OBVIOUS
<1>0. StockInv' /\ StockInv /\ TypeOK /\ OrdersKnown
  BY StepInv DEF OrderInv, StockInv
<1> SUFFICES OrdersKnown' /\ \A o \in Orders : SoldTheSame(o)
  BY <1>0 DEF OrderInv
<1>a. UNCHANGED orders => \A o \in Orders : SoldTheSame(o)
  BY DEF SoldTheSame
<1>1. ASSUME NEW r \in Reqs, NEW o \in Orders, NEW cart \in Carts,
             NEW c \in Customers \cup {Guest}, NEW coupon \in BOOLEAN,
             PlaceStart(r, o, cart, c, coupon)
      PROVE  OrdersKnown' /\ \A i \in Orders : SoldTheSame(i)
  <2> DEFINE row == [status |-> "OPEN", paid |-> FALSE, cart |-> cart, coupon |-> coupon,
                     customer |-> IF coupon THEN c ELSE Guest]
             new == [req[r] EXCEPT !.op = "place", !.order = o, !.row = row]
  <2>1. req' = [req EXCEPT ![r] = new] /\ UNCHANGED <<orders, returned>>
    BY <1>1 DEF PlaceStart
  <2>2. row.status = "OPEN" /\ Sold(row)
    BY <1>1 DEF PlaceStart, Sold
  <2>3. new.op = "place" /\ new.row = row
    BY <1>0 DEF TypeOK, Request
  <2> HIDE DEF new, row
  <2>4. req'[r] = new /\ \A q \in Reqs \ {r} : req'[q] = req[q]
    BY <1>0, <2>1 DEF TypeOK
  <2> QED
    BY <1>0, <1>a, <2>1, <2>2, <2>3, <2>4, OthersKnow DEF OrdersKnown
<1>2. ASSUME NEW r \in Reqs, NEW p \in Products, LockRow(r, p)
      PROVE  OrdersKnown' /\ \A i \in Orders : SoldTheSame(i)
  <2>1. UNCHANGED <<orders, returned>> /\ \A q \in Reqs \ {r} : req'[q] = req[q]
    BY <1>0, <1>2 DEF LockRow, TypeOK
  <2>2. req'[r].op = req[r].op /\ req'[r].row = req[r].row /\ req'[r].order = req[r].order
    BY <1>0, <1>2 DEF LockRow, TypeOK, Request
  <2>3. \A q \in Reqs : req'[q].op = req[q].op /\ req'[q].row = req[q].row /\ req'[q].order = req[q].order
    BY <2>1, <2>2
  <2> QED
    BY <1>0, <1>a, <2>1, <2>3 DEF OrdersKnown
<1>3. ASSUME NEW r \in Reqs, PlaceCheck(r) PROVE OrdersKnown' /\ \A i \in Orders : SoldTheSame(i)
  <2>1. UNCHANGED <<orders, returned>> /\ \A q \in Reqs \ {r} : req'[q] = req[q]
    BY <1>0, <1>3 DEF PlaceCheck, TypeOK
  <2>2. req[r].op = "place" /\ req'[r].op = "checked" /\ req'[r].row = req[r].row
    BY <1>0, <1>3 DEF PlaceCheck, TypeOK, Request
  <2> QED
    BY <1>0, <1>a, <2>1, <2>2, OthersKnow DEF OrdersKnown
<1>4. ASSUME NEW r \in Reqs, PlaceCommit(r) PROVE OrdersKnown' /\ \A i \in Orders : SoldTheSame(i)
  <2> DEFINE o == req[r].order
  <2>1. o \in Orders /\ orders[o].status = "ABSENT" /\ req[r].op = "checked" /\ Finish(r)
    BY <1>0, <1>4 DEF PlaceCommit, TypeOK
  <2>2. orders' = [orders EXCEPT ![o] = req[r].row] /\ UNCHANGED returned
    BY <1>4 DEF PlaceCommit
  <2>3. Sold(req[r].row) /\ orders'[o] = req[r].row /\ \A i \in Orders \ {o} : orders'[i] = orders[i]
    BY <1>0, <2>1, <2>2 DEF TypeOK, OrdersKnown
  <2>4. /\ req'[r].op = "idle" /\ \A q \in Reqs \ {r} : req'[q] = req[q]
    BY <1>0, <2>1, FinishFacts
  <2> HIDE DEF o
  <2>5. \A i \in Orders : SoldTheSame(i)
    BY <2>1, <2>3 DEF SoldTheSame
  <2>6. \A i \in Orders : /\ orders'[i].status = "ABSENT" => orders'[i] = AbsentOrder /\ returned'[i] = 0
                          /\ orders'[i].status # "ABSENT" => Sold(orders'[i])
    BY <1>0, <2>2, <2>3 DEF OrdersKnown, Sold
  <2> QED
    BY <2>4, <2>5, <2>6, OthersKnow
<1>5. ASSUME NEW r \in Reqs, NEW o \in Orders, CancelRead(r, o)
      PROVE  OrdersKnown' /\ \A i \in Orders : SoldTheSame(i)
  <2> DEFINE new == [req[r] EXCEPT !.op = "cancel", !.order = o, !.row = orders[o],
                                   !.release = ~orders[o].paid]
  <2>1. req' = [req EXCEPT ![r] = new] /\ UNCHANGED <<orders, returned>>
    BY <1>5 DEF CancelRead
  <2>2. new.op = "cancel" /\ new.order = o /\ new.row = orders[o]
    BY <1>0 DEF TypeOK, Request
  <2> HIDE DEF new
  <2>3. req'[r] = new /\ \A q \in Reqs \ {r} : req'[q] = req[q]
    BY <1>0, <2>1 DEF TypeOK
  <2>4. orders[o].status # "ABSENT" /\ r \in Cancellers
    BY <1>5 DEF CancelRead
  <2>5. \A q \in Reqs : req'[q].op \in {"place", "checked"} => req[q].op \in {"place", "checked"} /\ req'[q] = req[q]
    BY <2>2, <2>3
  <2>6. \A q \in Reqs : req'[q].op = "cancel" =>
          \/ req'[q].order = o /\ req'[q].row = orders[o] /\ q \in Cancellers
          \/ req'[q] = req[q]
    BY <2>2, <2>3, <2>4
  <2>7. OrdersKnown'
    BY <1>0, <2>1, <2>4, <2>5, <2>6 DEF OrdersKnown
  <2> QED
    BY <1>a, <2>1, <2>7
<1>6. ASSUME NEW r \in Reqs, CancelCommit(r) PROVE OrdersKnown' /\ \A i \in Orders : SoldTheSame(i)
  <2> DEFINE o == req[r].order
             row == [orders[o] EXCEPT !.status = "CANCELLED"]
  <2>1. o \in Orders /\ orders[o] \in OrderRow /\ orders[o].status # "ABSENT" /\ Finish(r)
    BY <1>0, <1>6 DEF CancelCommit, TypeOK, OrdersKnown
  <2>2. orders' = [orders EXCEPT ![o] = row]
    BY <1>6 DEF CancelCommit
  <2>3. row.status = "CANCELLED" /\ row.cart = orders[o].cart /\ row.coupon = orders[o].coupon
        /\ row.customer = orders[o].customer
    BY <2>1 DEF OrderRow
  <2>4. \A i \in Orders \ {o} : returned'[i] = returned[i]
    BY <1>0, <1>6 DEF CancelCommit, TypeOK
  <2>5. /\ req'[r].op = "idle" /\ \A q \in Reqs \ {r} : req'[q] = req[q]
    BY <1>0, <2>1, FinishFacts
  <2> HIDE DEF o, row
  <2>6. orders'[o] = row /\ \A i \in Orders \ {o} : orders'[i] = orders[i]
    BY <1>0, <2>1, <2>2 DEF TypeOK
  <2>7. \A i \in Orders : SoldTheSame(i)
    BY <2>1, <2>3, <2>6 DEF SoldTheSame
  <2>8. \A i \in Orders : /\ orders'[i].status = "ABSENT" => orders'[i] = AbsentOrder /\ returned'[i] = 0
                          /\ orders'[i].status # "ABSENT" => Sold(orders'[i])
    BY <1>0, <2>1, <2>3, <2>4, <2>6 DEF OrdersKnown, Sold
  <2> QED
    BY <2>5, <2>7, <2>8, OthersKnow
<1>7. ASSUME NEW r \in Reqs, Abort(r) PROVE OrdersKnown' /\ \A i \in Orders : SoldTheSame(i)
  <2>1. /\ req'[r].op = "idle" /\ \A q \in Reqs \ {r} : req'[q] = req[q]
        /\ UNCHANGED <<orders, returned>>
    BY <1>0, <1>7, FinishFacts DEF Abort
  <2> QED
    BY <1>0, <1>a, <2>1, OthersKnow DEF OrdersKnown
<1>8. ASSUME NEW o \in Orders, ConfirmPaid(o) PROVE OrdersKnown' /\ \A i \in Orders : SoldTheSame(i)
  <2> DEFINE row == [orders[o] EXCEPT !.paid = TRUE]
  <2>1. orders' = [orders EXCEPT ![o] = row] /\ UNCHANGED <<returned, req>>
        /\ orders[o].status # "ABSENT" /\ orders[o] \in OrderRow
    BY <1>0, <1>8 DEF ConfirmPaid, TypeOK
  <2>2. row.status = orders[o].status /\ row.cart = orders[o].cart /\ row.coupon = orders[o].coupon
        /\ row.customer = orders[o].customer
    BY <2>1 DEF OrderRow
  <2> HIDE DEF row
  <2>3. orders'[o] = row /\ \A i \in Orders \ {o} : orders'[i] = orders[i]
    BY <1>0, <2>1 DEF TypeOK
  <2>4. \A i \in Orders : SoldTheSame(i)
    BY <2>1, <2>2, <2>3 DEF SoldTheSame
  <2>5. \A i \in Orders : /\ orders'[i].status = "ABSENT" => orders'[i] = AbsentOrder /\ returned'[i] = 0
                          /\ orders'[i].status # "ABSENT" => Sold(orders'[i])
    BY <1>0, <2>1, <2>2, <2>3 DEF OrdersKnown, Sold
  <2>6. \A q \in Reqs : req[q].op = "cancel" => SoldTheSame(req[q].order)
    BY <1>0, <2>4 DEF TypeOK
  <2>7. OrdersKnown'
    BY <1>0, <2>1, <2>5, <2>6 DEF OrdersKnown, SoldTheSame, Sold
  <2> QED
    BY <2>4, <2>7
<1>9. CASE UNCHANGED vars
  <2>1. OrdersKnown'
    BY <1>0, <1>9 DEF vars, OrdersKnown, Sold
  <2> QED
    BY <1>9, <1>a, <2>1 DEF vars
<1> QED
  BY <1>1, <1>2, <1>3, <1>4, <1>5, <1>6, <1>7, <1>8, <1>9 DEF Next, PlaceOrder, CancelOrder

-----------------------------------------------------------------------------
(* StockConserved.                                                         *)

LEMMA UnitsKeptType ==
  ASSUME TypeOK, NEW p \in Products
  PROVE  UnitsKept(p) \in [Orders -> Int]
<1>1. \A o \in Orders : returned[o] \in Nat /\ orders[o].cart[p] \in Nat
  BY DEF TypeOK, OrderRow
<1> QED
  BY <1>1 DEF UnitsKept

LEMMA ConservedInit == Init => StockConserved
<1> SUFFICES ASSUME Init, NEW p \in Products
             PROVE  stock[p] + SumFunction(UnitsKept(p)) = InitialStock[p]
  BY DEF StockConserved
<1>1. UnitsKept(p) \in [Orders -> Int]
  BY InitInv, UnitsKeptType DEF StockInv
<1>2. \A o \in Orders : UnitsKept(p)[o] = 0
  BY DEF UnitsKept, Init, AbsentOrder, NoUnits
<1>3. SumFunction(UnitsKept(p)) = 0
  BY <1>1, <1>2, SumZero, OrdersAssumption
<1> QED
  BY <1>3, StockAssumption DEF Init

\* Stock and the units one order keeps change by as much, in opposite ways.
LEMMA OneOrderMoves ==
  ASSUME StockInv, StockInv', StockConserved, NEW o \in Orders,
         \A i \in Orders \ {o} : returned'[i] = returned[i] /\ orders'[i].cart = orders[i].cart,
         \A p \in Products :
           stock'[p] - stock[p] = (1 - returned[o]) * orders[o].cart[p] - (1 - returned'[o]) * orders'[o].cart[p]
  PROVE  StockConserved'
<1> SUFFICES ASSUME NEW p \in Products
             PROVE  stock'[p] + SumFunction(UnitsKept(p)') = InitialStock[p]
  BY DEF StockConserved
<1> DEFINE f == UnitsKept(p)
           h == UnitsKept(p)'
<1>1. f \in [Orders -> Int] /\ h \in [Orders -> Int]
  <2>1. \A i \in Orders : returned'[i] \in Nat /\ orders'[i].cart[p] \in Nat
    BY DEF StockInv, TypeOK, OrderRow
  <2>2. h \in [Orders -> Int]
    BY <2>1 DEF UnitsKept
  <2> QED
    BY <2>2, UnitsKeptType DEF StockInv
<1>2. \A i \in Orders \ {o} : h[i] = f[i]
  BY DEF UnitsKept
<1>3. stock'[p] - stock[p] = f[o] - h[o]
  BY DEF UnitsKept
<1>4. stock[p] + SumFunction(f) = InitialStock[p]
  BY DEF StockConserved
<1>5. stock[p] \in Int /\ stock'[p] \in Int
  BY DEF StockInv, TypeOK
<1> HIDE DEF f, h
<1>6. SumFunction(h) = SumFunction(f) + (h[o] - f[o]) /\ SumFunction(f) \in Int
  BY <1>1, <1>2, SumChange, SumType, OrdersAssumption
<1>7. f[o] \in Int /\ h[o] \in Int
  BY <1>1
<1>8. stock'[p] + SumFunction(h) = InitialStock[p]
  BY <1>3, <1>4, <1>5, <1>6, <1>7
<1> QED
  BY <1>8 DEF h

\* How the units of a commit move: (1 - n) * c is c less with one more return.
LEMMA OneMoreReturn ==
  ASSUME NEW n \in Nat, NEW c \in Nat
  PROVE  (1 - n) * c - (1 - (n + 1)) * c = c
OBVIOUS

\* An order is sold: its units leave the stock, where they were.
LEMMA PlaceTakes ==
  ASSUME OrderInv, NEW r \in Reqs, PlaceCommit(r)
  PROVE  LET o == req[r].order
             cart == req[r].row.cart
         IN /\ o \in Orders /\ orders[o] = AbsentOrder /\ returned[o] = 0
            /\ UNCHANGED returned /\ orders' = [orders EXCEPT ![o] = req[r].row]
            /\ \A p \in Products : cart[p] <= stock[p]
            /\ stock' = [p \in Products |-> stock[p] - cart[p]]
<1> DEFINE o == req[r].order
           cart == req[r].row.cart
<1>0. TypeOK /\ LocksProtectStock /\ OrdersKnown
  BY DEF OrderInv, StockInv
<1>1. o \in Orders /\ orders[o].status = "ABSENT"
  BY <1>0 DEF PlaceCommit, TypeOK
<1>2. orders[o] = AbsentOrder /\ returned[o] = 0
  BY <1>0, <1>1 DEF OrdersKnown
<1>3. cart \in [Products -> Nat] /\ stock \in [Products -> Nat]
  BY <1>0 DEF TypeOK, Request, OrderRow
<1>4. \A p \in Products : cart[p] > 0 => req[r].seen[p] = stock[p] /\ cart[p] <= stock[p]
  BY <1>0 DEF PlaceCommit, LocksProtectStock, LockedRowsCurrent, CheckedHasUnits
<1>5. stock' = [p \in Products |-> IF cart[p] > 0 THEN req[r].seen[p] - cart[p] ELSE stock[p]]
  BY DEF PlaceCommit
<1>6. UNCHANGED returned /\ orders' = [orders EXCEPT ![o] = req[r].row]
  BY DEF PlaceCommit
<1> HIDE DEF o, cart
<1>7. \A p \in Products : /\ cart[p] <= stock[p]
                          /\ (IF cart[p] > 0 THEN req[r].seen[p] - cart[p] ELSE stock[p]) = stock[p] - cart[p]
  BY <1>3, <1>4
<1> QED
  BY <1>1, <1>2, <1>5, <1>6, <1>7 DEF o, cart

\* An order is cancelled: its units come back if it was not paid.
LEMMA CancelReturns ==
  ASSUME OrderInv, NEW r \in Reqs, CancelCommit(r)
  PROVE  LET o == req[r].order
         IN /\ o \in Orders /\ r \in Cancellers
            /\ orders' = [orders EXCEPT ![o].status = "CANCELLED"]
            /\ \/ ~req[r].release /\ UNCHANGED <<stock, returned, usage, redeemed>>
               \/ /\ req[r].release
                  /\ returned' = [returned EXCEPT ![o] = @ + 1]
                  /\ stock' = [p \in Products |-> stock[p] + orders[o].cart[p]]
<1> DEFINE o == req[r].order
           cart == orders[o].cart
<1>0. TypeOK /\ LocksProtectStock /\ OrdersKnown
  BY DEF OrderInv, StockInv
<1>1. o \in Orders /\ r \in Cancellers /\ req[r].row.cart = cart
  BY <1>0 DEF CancelCommit, TypeOK, OrdersKnown
<1>2. orders' = [orders EXCEPT ![o].status = "CANCELLED"]
  BY DEF CancelCommit
<1>3. CASE ~req[r].release
  BY <1>1, <1>2, <1>3 DEF CancelCommit
<1>4. CASE req[r].release
  <2>1. cart \in [Products -> Nat] /\ stock \in [Products -> Nat]
    BY <1>0, <1>1 DEF TypeOK, OrderRow
  <2>2. \A p \in Products : cart[p] > 0 => req[r].seen[p] = stock[p]
    BY <1>0, <1>1, <1>4 DEF CancelCommit, Holds, Wanted, LocksProtectStock, LockedRowsCurrent
  <2>3. /\ stock' = [p \in Products |-> IF cart[p] > 0 THEN req[r].seen[p] + cart[p] ELSE stock[p]]
        /\ returned' = [returned EXCEPT ![o] = @ + 1]
    BY <1>1, <1>4 DEF CancelCommit
  <2> HIDE DEF cart
  <2>4. \A p \in Products :
          (IF cart[p] > 0 THEN req[r].seen[p] + cart[p] ELSE stock[p]) = stock[p] + cart[p]
    BY <2>1, <2>2
  <2>5. stock' = [p \in Products |-> stock[p] + cart[p]]
    BY <2>3, <2>4
  <2> QED
    BY <1>1, <1>2, <1>4, <2>3, <2>5 DEF cart
<1> QED
  BY <1>3, <1>4

\* The steps that move no unit.
LEMMA OtherSteps ==
  ASSUME OrderInv, [Next]_vars
  PROVE  \/ \E r \in Reqs : PlaceCommit(r) \/ CancelCommit(r)
         \/ \E o \in Orders : ConfirmPaid(o)
         \/ UNCHANGED <<stock, usage, redeemed, orders, returned>>
BY DEF Next, PlaceOrder, CancelOrder, PlaceStart, PlaceCheck, LockRow, CancelRead, Abort, vars

LEMMA ConservedStep == OrderInv /\ StockConserved /\ [Next]_vars => StockConserved'
<1> SUFFICES ASSUME OrderInv, StockConserved, [Next]_vars PROVE StockConserved'
  OBVIOUS
<1>0. StockInv /\ StockInv' /\ TypeOK
  BY OrderStep DEF OrderInv, StockInv
<1>1. ASSUME NEW r \in Reqs, PlaceCommit(r) PROVE StockConserved'
  <2> DEFINE o == req[r].order
             cart == req[r].row.cart
  <2>1. /\ o \in Orders /\ orders[o] = AbsentOrder /\ returned[o] = 0 /\ UNCHANGED returned
        /\ orders' = [orders EXCEPT ![o] = req[r].row]
        /\ stock' = [p \in Products |-> stock[p] - cart[p]]
    BY <1>1, PlaceTakes
  <2>2. orders'[o].cart = cart /\ \A i \in Orders \ {o} : orders'[i] = orders[i]
    BY <1>0, <2>1 DEF TypeOK
  <2>3. ASSUME NEW p \in Products
        PROVE  stock'[p] - stock[p]
                 = (1 - returned[o]) * orders[o].cart[p] - (1 - returned'[o]) * orders'[o].cart[p]
    <3>1. cart[p] \in Nat /\ stock[p] \in Nat
      BY <1>0 DEF TypeOK, Request, OrderRow
    <3>2. orders[o].cart[p] = 0 /\ returned[o] = 0 /\ returned'[o] = 0 /\ orders'[o].cart[p] = cart[p]
      BY <2>1, <2>2 DEF AbsentOrder, NoUnits
    <3>3. stock'[p] = stock[p] - cart[p]
      BY <2>1
    <3> QED
      BY <3>1, <3>2, <3>3
  <2> HIDE DEF o, cart
  <2> QED
    BY <1>0, <2>1, <2>2, <2>3, OneOrderMoves
<1>2. ASSUME NEW r \in Reqs, CancelCommit(r) PROVE StockConserved'
  <2> DEFINE o == req[r].order
  <2>1. /\ o \in Orders /\ orders' = [orders EXCEPT ![o].status = "CANCELLED"]
        /\ \/ UNCHANGED <<stock, returned>>
           \/ /\ returned' = [returned EXCEPT ![o] = @ + 1]
              /\ stock' = [p \in Products |-> stock[p] + orders[o].cart[p]]
    BY <1>2, CancelReturns
  <2> HIDE DEF o
  <2>2. /\ orders'[o].cart = orders[o].cart
        /\ \A i \in Orders \ {o} : orders'[i] = orders[i] /\ returned'[i] = returned[i]
    <3>1. orders[o] \in OrderRow
      BY <1>0, <2>1 DEF TypeOK
    <3> QED
      BY <1>0, <2>1, <3>1 DEF TypeOK, OrderRow
  <2>3. ASSUME NEW p \in Products
        PROVE  stock'[p] - stock[p]
                 = (1 - returned[o]) * orders[o].cart[p] - (1 - returned'[o]) * orders'[o].cart[p]
    <3>1. orders[o].cart[p] \in Nat /\ stock[p] \in Nat /\ returned[o] \in Nat
      BY <1>0, <2>1 DEF TypeOK, OrderRow
    <3>2. CASE UNCHANGED <<stock, returned>>
      BY <2>2, <3>1, <3>2
    <3>3. CASE /\ returned' = [returned EXCEPT ![o] = @ + 1]
               /\ stock' = [i \in Products |-> stock[i] + orders[o].cart[i]]
      <4>1. returned'[o] = returned[o] + 1 /\ stock'[p] = stock[p] + orders[o].cart[p]
        BY <1>0, <2>1, <3>3 DEF TypeOK
      <4>2. (1 - returned[o]) * orders[o].cart[p] - (1 - (returned[o] + 1)) * orders[o].cart[p]
              = orders[o].cart[p]
        BY <3>1, OneMoreReturn
      <4> QED
        BY <2>2, <3>1, <4>1, <4>2
    <3> QED
      BY <2>1, <3>2, <3>3
  <2> QED
    BY <1>0, <2>1, <2>2, <2>3, OneOrderMoves
<1>3. ASSUME NEW o \in Orders, ConfirmPaid(o) PROVE StockConserved'
  <2>1. /\ UNCHANGED <<stock, returned>> /\ orders' = [orders EXCEPT ![o].paid = TRUE]
        /\ orders[o] \in OrderRow
    BY <1>0, <1>3 DEF ConfirmPaid, TypeOK
  <2>2. \A i \in Orders : orders'[i].cart = orders[i].cart
    BY <1>0, <2>1 DEF TypeOK, OrderRow
  <2>3. \A p \in Products : UnitsKept(p)' = UnitsKept(p)
    BY <2>1, <2>2 DEF UnitsKept
  <2> QED
    BY <2>1, <2>3 DEF StockConserved
<1>4. CASE UNCHANGED <<stock, usage, redeemed, orders, returned>>
  <2>1. \A p \in Products : UnitsKept(p)' = UnitsKept(p)
    BY <1>4 DEF UnitsKept
  <2> QED
    BY <1>4, <2>1 DEF StockConserved
<1> QED
  BY <1>1, <1>2, <1>3, <1>4, OtherSteps

LEMMA OrderInvariant == Spec => []OrderInv
<1>1. OrderInv /\ [Next]_vars => OrderInv'
  BY OrderStep
<1> QED
  BY <1>1, OrderInit, PTL DEF Spec

\* No unit is lost or invented, whatever checkouts and cancellations overlap,
\* and however many cancel the same order.
THEOREM UnitsNeverLost == Spec => []StockConserved
BY OrderInvariant, ConservedInit, ConservedStep, PTL DEF Spec

-----------------------------------------------------------------------------
(* One cancellation at a time: Checkout implements StockPromise, and the   *)
(* coupon's limits hold.                                                   *)

OneCanceller == \A r, q \in Cancellers : r = q

\* What is about to be cancelled is open, and nothing of it came back yet.
CancelInv ==
  /\ OrderInv
  /\ \A o \in Orders : returned[o] <= 1 /\ (orders[o].status = "OPEN" => returned[o] = 0)
  /\ \A r \in Reqs : req[r].op = "cancel" => orders[req[r].order].status = "OPEN"

LEMMA CancelInit == Init => CancelInv
BY OrderInit DEF Init, CancelInv, AbsentOrder, Idle

\* A step that leaves an order's status as it is, but may place one.
LEMMA StatusKept ==
  ASSUME CancelInv, OrderInv', UNCHANGED returned,
         \A o \in Orders : \/ orders'[o].status = orders[o].status
                           \/ orders[o].status = "ABSENT" /\ returned[o] = 0,
         \A r \in Reqs : req'[r].op = "cancel" =>
           \/ req[r].op = "cancel" /\ req'[r].order = req[r].order
           \/ orders[req'[r].order].status = "OPEN"
  PROVE  CancelInv'
<1>1. \A r \in Reqs : req'[r].op = "cancel" => req'[r].order \in Orders
  BY DEF OrderInv, StockInv, TypeOK
<1>2. \A r \in Reqs : req'[r].op = "cancel" => orders[req'[r].order].status = "OPEN"
  BY DEF CancelInv
<1>3. \A r \in Reqs : req'[r].op = "cancel" => orders'[req'[r].order].status = "OPEN"
  BY <1>1, <1>2
<1>4. \A o \in Orders : returned'[o] <= 1 /\ (orders'[o].status = "OPEN" => returned'[o] = 0)
  BY DEF CancelInv
<1> QED
  BY <1>3, <1>4 DEF CancelInv

LEMMA CancelStep == ASSUME OneCanceller PROVE CancelInv /\ [Next]_vars => CancelInv'
<1> SUFFICES ASSUME CancelInv, [Next]_vars PROVE CancelInv'
  OBVIOUS
<1>0. OrderInv /\ OrderInv' /\ TypeOK /\ OrdersKnown
  BY OrderStep DEF CancelInv, OrderInv, StockInv
<1>1. ASSUME NEW r \in Reqs, NEW o \in Orders, NEW cart \in Carts,
             NEW c \in Customers \cup {Guest}, NEW coupon \in BOOLEAN,
             PlaceStart(r, o, cart, c, coupon)
      PROVE  CancelInv'
  <2>1. req'[r].op = "place" /\ \A q \in Reqs \ {r} : req'[q] = req[q]
    BY <1>0, <1>1 DEF PlaceStart, TypeOK, Request
  <2> QED
    BY <1>0, <1>1, <2>1, StatusKept DEF PlaceStart
<1>2. ASSUME NEW r \in Reqs, NEW p \in Products, LockRow(r, p) PROVE CancelInv'
  <2>1. \A q \in Reqs : req'[q].op = req[q].op /\ req'[q].order = req[q].order
    BY <1>0, <1>2 DEF LockRow, TypeOK, Request
  <2> QED
    BY <1>0, <1>2, <2>1, StatusKept DEF LockRow
<1>3. ASSUME NEW r \in Reqs, PlaceCheck(r) PROVE CancelInv'
  <2>1. req'[r].op = "checked" /\ \A q \in Reqs \ {r} : req'[q] = req[q]
    BY <1>0, <1>3 DEF PlaceCheck, TypeOK, Request
  <2> QED
    BY <1>0, <1>3, <2>1, StatusKept DEF PlaceCheck
<1>4. ASSUME NEW r \in Reqs, PlaceCommit(r) PROVE CancelInv'
  <2> DEFINE o == req[r].order
  <2>1. /\ o \in Orders /\ orders[o] = AbsentOrder /\ returned[o] = 0 /\ UNCHANGED returned
        /\ orders' = [orders EXCEPT ![o] = req[r].row]
    BY <1>0, <1>4, PlaceTakes
  <2>2. req'[r].op = "idle" /\ \A q \in Reqs \ {r} : req'[q] = req[q]
    BY <1>0, <1>4, FinishFacts DEF PlaceCommit
  <2> HIDE DEF o
  <2>3. \A i \in Orders : \/ orders'[i].status = orders[i].status
                          \/ orders[i].status = "ABSENT" /\ returned[i] = 0
    BY <1>0, <2>1 DEF TypeOK, AbsentOrder
  <2> QED
    BY <1>0, <2>1, <2>2, <2>3, StatusKept
<1>5. ASSUME NEW r \in Reqs, NEW o \in Orders, CancelRead(r, o) PROVE CancelInv'
  <2>1. req'[r].op = "cancel" /\ req'[r].order = o /\ \A q \in Reqs \ {r} : req'[q] = req[q]
    BY <1>0, <1>5 DEF CancelRead, TypeOK, Request
  <2> QED
    BY <1>0, <1>5, <2>1, StatusKept DEF CancelRead
<1>6. ASSUME NEW r \in Reqs, CancelCommit(r) PROVE CancelInv'
  <2> DEFINE o == req[r].order
  <2>1. /\ o \in Orders /\ orders' = [orders EXCEPT ![o].status = "CANCELLED"]
        /\ UNCHANGED returned \/ returned' = [returned EXCEPT ![o] = @ + 1]
    BY <1>0, <1>6, CancelReturns
  <2>2. req'[r].op = "idle" /\ \A q \in Reqs \ {r} : req'[q] = req[q]
    BY <1>0, <1>6, FinishFacts DEF CancelCommit
  <2>3. \A q \in Reqs \ {r} : req[q].op # "cancel"
    BY <1>0, <1>6 DEF CancelCommit, OrdersKnown, OneCanceller
  <2>4. orders[o].status = "OPEN" /\ returned[o] = 0
    BY <1>6, <2>1 DEF CancelInv, CancelCommit
  <2> HIDE DEF o
  <2>5. orders'[o].status = "CANCELLED"
    <3>1. orders[o] \in OrderRow
      BY <1>0, <2>1 DEF TypeOK
    <3>2. [orders[o] EXCEPT !.status = "CANCELLED"].status = "CANCELLED"
      BY <3>1 DEF OrderRow
    <3> QED
      BY <1>0, <2>1, <3>2 DEF TypeOK
  <2>6. \A i \in Orders \ {o} : orders'[i] = orders[i] /\ returned'[i] = returned[i]
    BY <1>0, <2>1 DEF TypeOK
  <2>7. returned'[o] <= 1
    BY <1>0, <2>1, <2>4 DEF TypeOK
  <2>8. \A i \in Orders : returned'[i] <= 1 /\ (orders'[i].status = "OPEN" => returned'[i] = 0)
    BY <2>5, <2>6, <2>7 DEF CancelInv
  <2> QED
    BY <1>0, <2>2, <2>3, <2>8 DEF CancelInv
<1>7. ASSUME NEW r \in Reqs, Abort(r) PROVE CancelInv'
  <2>1. req'[r].op = "idle" /\ \A q \in Reqs \ {r} : req'[q] = req[q]
    BY <1>0, <1>7, FinishFacts DEF Abort
  <2> QED
    BY <1>0, <1>7, <2>1, StatusKept DEF Abort
<1>8. ASSUME NEW o \in Orders, ConfirmPaid(o) PROVE CancelInv'
  <2>1. orders[o] \in OrderRow /\ orders' = [orders EXCEPT ![o] = [orders[o] EXCEPT !.paid = TRUE]]
    BY <1>0, <1>8 DEF ConfirmPaid, TypeOK
  <2>2. \A i \in Orders : orders'[i].status = orders[i].status
    BY <1>0, <2>1 DEF TypeOK, OrderRow
  <2> QED
    BY <1>0, <1>8, <2>2, StatusKept DEF ConfirmPaid
<1>9. CASE UNCHANGED vars
  BY <1>0, <1>9 DEF vars, CancelInv
<1> QED
  BY <1>1, <1>2, <1>3, <1>4, <1>5, <1>6, <1>7, <1>8, <1>9 DEF Next, PlaceOrder, CancelOrder

LEMMA CancelInvariant == ASSUME OneCanceller PROVE Spec => []CancelInv
<1>1. CancelInv /\ [Next]_vars => CancelInv'
  BY CancelStep
<1> QED
  BY <1>1, CancelInit, PTL DEF Spec

\* What StockPromise calls holds.
Holding == [o \in Orders |-> IF returned[o] > 0 THEN NoUnits ELSE orders[o].cart]

LEMMA PromiseInit == Init => Promise!Init
BY DEF Init, Promise!Init, Promise!None, AbsentOrder, NoUnits

LEMMA PromiseStep ==
  ASSUME OneCanceller
  PROVE  CancelInv /\ [Next]_vars => [Promise!Next]_<<stock, Holding>>
<1> SUFFICES ASSUME CancelInv, [Next]_vars PROVE Promise!Next \/ UNCHANGED <<stock, Holding>>
  OBVIOUS
<1>0. OrderInv /\ TypeOK /\ OrdersKnown
  BY DEF CancelInv, OrderInv, StockInv
<1>1. ASSUME NEW r \in Reqs, PlaceCommit(r) PROVE Promise!Next
  <2>0. req[r].row.cart \in Carts
    BY <1>0, <1>1 DEF PlaceCommit, OrdersKnown, Sold
  <2>1. PICK o \in Orders, cart \in Carts :
          /\ cart = req[r].row.cart
          /\ orders[o] = AbsentOrder /\ returned[o] = 0 /\ UNCHANGED returned
          /\ orders' = [orders EXCEPT ![o] = req[r].row]
          /\ \A p \in Products : cart[p] <= stock[p]
          /\ stock' = [p \in Products |-> stock[p] - cart[p]]
    BY <1>0, <1>1, <2>0, PlaceTakes
  <2>3. orders'[o].cart = cart /\ \A i \in Orders \ {o} : orders'[i] = orders[i]
    BY <1>0, <2>1 DEF TypeOK
  <2>4. Holding[o] = NoUnits
    BY <2>1 DEF Holding, AbsentOrder
  <2>5. Holding' = [Holding EXCEPT ![o] = cart]
    <3>1. \A i \in Orders : (IF returned'[i] > 0 THEN NoUnits ELSE orders'[i].cart)
                             = (IF i = o THEN cart ELSE Holding[i])
      BY <2>1, <2>3 DEF Holding
    <3>2. [Holding EXCEPT ![o] = cart] = [i \in Orders |-> IF i = o THEN cart ELSE Holding[i]]
      BY DEF Holding
    <3> QED
      BY <3>1, <3>2 DEF Holding
  <2>6. Promise!Take(o, cart)
    BY <2>1, <2>4, <2>5 DEF Promise!Take, Promise!None, Holding, NoUnits
  <2> QED
    BY <2>6 DEF Promise!Next
<1>2. ASSUME NEW r \in Reqs, CancelCommit(r) PROVE Promise!Next \/ UNCHANGED <<stock, Holding>>
  <2>1. PICK o \in Orders :
          /\ o = req[r].order /\ orders' = [orders EXCEPT ![o].status = "CANCELLED"]
          /\ \/ UNCHANGED <<stock, returned>>
             \/ /\ returned' = [returned EXCEPT ![o] = @ + 1]
                /\ stock' = [p \in Products |-> stock[p] + orders[o].cart[p]]
    BY <1>0, <1>2, CancelReturns
  <2>2. orders[o].status = "OPEN" /\ returned[o] = 0
    BY <1>2, <2>1 DEF CancelInv, CancelCommit
  <2>3. orders[o].cart \in Carts
    BY <1>0, <2>1, <2>2 DEF OrdersKnown, Sold
  <2>4. \A i \in Orders : orders'[i].cart = orders[i].cart
    <3>1. orders[o] \in OrderRow
      BY <1>0, <2>1 DEF TypeOK
    <3> QED
      BY <1>0, <2>1, <3>1 DEF TypeOK, OrderRow
  <2>5. CASE UNCHANGED <<stock, returned>>
    BY <2>4, <2>5 DEF Holding
  <2>6. CASE /\ returned' = [returned EXCEPT ![o] = @ + 1]
             /\ stock' = [p \in Products |-> stock[p] + orders[o].cart[p]]
    <3>1. returned'[o] = 1 /\ \A i \in Orders \ {o} : returned'[i] = returned[i]
      BY <1>0, <2>1, <2>2, <2>6 DEF TypeOK
    <3>2. Holding[o] = orders[o].cart
      BY <2>1, <2>2 DEF Holding
    <3>3. Holding' = [Holding EXCEPT ![o] = NoUnits]
      <4>1. \A i \in Orders : (IF returned'[i] > 0 THEN NoUnits ELSE orders'[i].cart)
                               = (IF i = o THEN NoUnits ELSE Holding[i])
        BY <2>1, <2>4, <3>1 DEF Holding
      <4>2. [Holding EXCEPT ![o] = NoUnits] = [i \in Orders |-> IF i = o THEN NoUnits ELSE Holding[i]]
        BY DEF Holding
      <4> QED
        BY <4>1, <4>2 DEF Holding
    <3>4. orders[o].cart # NoUnits
      BY <2>3, CartsAssumption DEF NoUnits
    <3>5. Promise!PutBack(o)
      BY <2>6, <3>2, <3>3, <3>4 DEF Promise!PutBack, Promise!None, Holding, NoUnits
    <3> QED
      BY <3>5 DEF Promise!Next
  <2> QED
    BY <2>1, <2>5, <2>6
<1>3. ASSUME NEW o \in Orders, ConfirmPaid(o) PROVE UNCHANGED <<stock, Holding>>
  <2>1. /\ UNCHANGED <<stock, returned>> /\ orders' = [orders EXCEPT ![o].paid = TRUE]
        /\ orders[o] \in OrderRow
    BY <1>0, <1>3 DEF ConfirmPaid, TypeOK
  <2>2. \A i \in Orders : orders'[i].cart = orders[i].cart
    BY <1>0, <2>1 DEF TypeOK, OrderRow
  <2> QED
    BY <2>1, <2>2 DEF Holding
<1>4. CASE UNCHANGED <<stock, usage, redeemed, orders, returned>>
  BY <1>4 DEF Holding
<1> QED
  BY <1>0, <1>1, <1>2, <1>3, <1>4, OtherSteps

\* Checkout implements StockPromise: an order takes its units all together and
\* only if they are there, and puts them back at most once.
THEOREM ImplementsStockPromise == ASSUME OneCanceller PROVE Spec => StockPromiseKept
<1>1. CancelInv /\ [Next]_vars => [Promise!Next]_<<stock, Holding>>
  BY PromiseStep
<1> QED
  BY <1>1, CancelInvariant, PromiseInit, PTL DEF Spec, StockPromiseKept, Promise!Spec, Holding

-----------------------------------------------------------------------------
(* CouponLimitsKept.                                                       *)

\* One product is in every cart the coupon applies to.
SharedProduct == \E p \in Products : \A cart \in CouponCarts : cart[p] > 0

HoldersOf(c) == {o \in CouponHolders : orders[o].customer = c}

\* The redemption records are those of the orders that keep the coupon, and
\* what a request read of the coupon before it commits is still so: the shared
\* product's row keeps every other use of the coupon away.
CouponInv ==
  /\ CancelInv
  /\ CouponLimitsKept
  /\ redeemed = {o \in CouponHolders : orders[o].customer \in Customers}
  /\ \A r \in Reqs : req[r].op = "checked" /\ req[r].row.coupon =>
       req[r].seenUsage = usage /\ CouponOK(req[r].row.customer)

LEMMA HoldersFinite ==
  /\ IsFiniteSet(CouponHolders)
  /\ \A c : IsFiniteSet(HoldersOf(c)) /\ Cardinality(HoldersOf(c)) \in Nat
<1>1. IsFiniteSet(CouponHolders)
  BY OrdersAssumption, FS_Subset DEF CouponHolders
<1>2. \A c : HoldersOf(c) \subseteq CouponHolders
  BY DEF HoldersOf
<1> QED
  BY <1>1, <1>2, FS_Subset, FS_CardinalityType

LEMMA UsesAreHolders ==
  ASSUME CouponInv, NEW c \in Customers
  PROVE  UsesOf(c) = Cardinality(HoldersOf(c))
<1>1. {o \in redeemed : orders[o].customer = c} = HoldersOf(c)
  BY DEF CouponInv, HoldersOf
<1> QED
  BY <1>1 DEF UsesOf

LEMMA CouponInit == Init => CouponInv
<1> SUFFICES ASSUME Init PROVE CouponInv
  OBVIOUS
<1>1. CouponHolders = {} /\ \A c \in Customers : {o \in CouponHolders : orders[o].customer = c} = {}
  BY DEF Init, CouponHolders, AbsentOrder
<1>2. Cardinality({}) = 0
  BY FS_EmptySet
<1>3. CouponLimitsKept
  BY <1>1, <1>2, LimitsAssumption DEF CouponLimitsKept, Init
<1>4. \A r \in Reqs : req[r].op # "checked"
  BY DEF Init, Idle
<1> QED
  BY <1>1, <1>3, <1>4, CancelInit DEF CouponInv, Init

\* A step that touches neither the coupon nor the orders that keep it.
LEMMA CouponUntouched ==
  ASSUME CouponInv, CancelInv', UNCHANGED <<usage, redeemed>>,
         CouponHolders' = CouponHolders,
         \A o \in CouponHolders : orders'[o].customer = orders[o].customer,
         \A r \in Reqs : req'[r].op = "checked" /\ req'[r].row.coupon =>
           req'[r].seenUsage = usage /\ CouponOK(req'[r].row.customer)
  PROVE  CouponInv'
<1>1. \A c : {o \in CouponHolders : orders[o].customer = c}'
               = {o \in CouponHolders : orders[o].customer = c}
  OBVIOUS
<1>2. \A c : {o \in redeemed : orders[o].customer = c}' = {o \in redeemed : orders[o].customer = c}
  BY DEF CouponInv
<1>3. CouponLimitsKept'
  BY <1>1 DEF CouponLimitsKept, CouponInv
<1>4. \A r \in Reqs : CouponOK(req'[r].row.customer) => CouponOK(req[r].row.customer)'
  BY <1>2 DEF CouponOK, UsesOf
<1>5. redeemed' = {o \in CouponHolders : orders[o].customer \in Customers}'
  BY DEF CouponInv
<1> QED
  BY <1>3, <1>4, <1>5 DEF CouponInv

\* While a request that uses, or gives back, the coupon holds its rows, no
\* other request has passed the check with the coupon.
LEMMA OneCouponUse ==
  ASSUME SharedProduct, CouponInv, NEW r \in Reqs, NEW q \in Reqs \ {r},
         req[q].op = "checked", req[q].row.coupon,
         NEW cart \in CouponCarts, \A p \in Products : cart[p] > 0 => holder[p] = r
  PROVE  FALSE
<1>1. PICK p \in Products : \A c \in CouponCarts : c[p] > 0
  BY DEF SharedProduct
<1>2. req[q].row.cart \in CouponCarts
  BY DEF CouponInv, CancelInv, OrderInv, OrdersKnown, Sold
<1>3. holder[p] = q
  BY <1>1, <1>2 DEF CouponInv, CancelInv, OrderInv, StockInv, LocksProtectStock, CheckedHasUnits
<1> QED
  BY <1>1, <1>3

LEMMA CouponStep ==
  ASSUME OneCanceller, SharedProduct
  PROVE  CouponInv /\ [Next]_vars => CouponInv'
<1> SUFFICES ASSUME CouponInv, [Next]_vars PROVE CouponInv'
  OBVIOUS
<1>0. CancelInv /\ CancelInv' /\ OrderInv /\ TypeOK /\ OrdersKnown
  BY CancelStep DEF CouponInv, CancelInv, OrderInv, StockInv
<1>a. \A r \in Reqs : req[r].op = "checked" /\ req[r].row.coupon =>
        req[r].seenUsage = usage /\ CouponOK(req[r].row.customer)
  BY DEF CouponInv
<1>b. UNCHANGED <<orders, returned>> =>
        CouponHolders' = CouponHolders /\ \A o \in CouponHolders : orders'[o].customer = orders[o].customer
  BY DEF CouponHolders
<1>1. ASSUME NEW r \in Reqs, NEW o \in Orders, NEW cart \in Carts,
             NEW c \in Customers \cup {Guest}, NEW coupon \in BOOLEAN,
             PlaceStart(r, o, cart, c, coupon)
      PROVE  CouponInv'
  <2>1. req'[r].op = "place" /\ \A q \in Reqs \ {r} : req'[q] = req[q]
    BY <1>0, <1>1 DEF PlaceStart, TypeOK, Request
  <2>2. UNCHANGED <<usage, redeemed, orders, returned>>
    BY <1>1 DEF PlaceStart
  <2> QED
    BY <1>0, <1>a, <1>b, <2>1, <2>2, CouponUntouched
<1>2. ASSUME NEW r \in Reqs, NEW p \in Products, LockRow(r, p) PROVE CouponInv'
  <2>1. /\ \A q \in Reqs \ {r} : req'[q] = req[q]
        /\ req'[r].op = req[r].op /\ req[r].op # "checked"
    BY <1>0, <1>2 DEF LockRow, TypeOK, Request, Wanted
  <2>2. UNCHANGED <<usage, redeemed, orders, returned>>
    BY <1>2 DEF LockRow
  <2> QED
    BY <1>0, <1>a, <1>b, <2>1, <2>2, CouponUntouched
<1>3. ASSUME NEW r \in Reqs, PlaceCheck(r) PROVE CouponInv'
  <2>1. /\ \A q \in Reqs \ {r} : req'[q] = req[q]
        /\ req'[r].row = req[r].row /\ req'[r].seenUsage = usage
    BY <1>0, <1>3 DEF PlaceCheck, TypeOK, Request
  <2>2. req[r].row.coupon => CouponOK(req[r].row.customer)
    BY <1>3 DEF PlaceCheck
  <2>3. UNCHANGED <<usage, redeemed, orders, returned>>
    BY <1>3 DEF PlaceCheck
  <2>4. \A q \in Reqs : req'[q].op = "checked" /\ req'[q].row.coupon =>
          req'[q].seenUsage = usage /\ CouponOK(req'[q].row.customer)
    BY <1>a, <2>1, <2>2
  <2> QED
    BY <1>0, <1>b, <2>3, <2>4, CouponUntouched
<1>4. ASSUME NEW r \in Reqs, PlaceCommit(r) PROVE CouponInv'
  <2>1. PICK o \in Orders : o = req[r].order /\ orders[o] = AbsentOrder /\ returned[o] = 0
                            /\ UNCHANGED returned /\ orders' = [orders EXCEPT ![o] = req[r].row]
    BY <1>0, <1>4, PlaceTakes
  <2>2. req'[r].op = "idle" /\ \A q \in Reqs \ {r} : req'[q] = req[q]
    BY <1>0, <1>4, FinishFacts DEF PlaceCommit
  <2>3. orders'[o] = req[r].row /\ \A i \in Orders \ {o} : orders'[i] = orders[i]
    BY <1>0, <2>1 DEF TypeOK
  <2>4. o \notin CouponHolders
    BY <2>1 DEF CouponHolders, AbsentOrder
  <2>5. \A i \in CouponHolders : orders'[i].customer = orders[i].customer
    BY <2>3, <2>4 DEF CouponHolders
  <2>6. CASE ~req[r].row.coupon
    <3>1. CouponHolders' = CouponHolders
      BY <2>1, <2>3, <2>4, <2>6 DEF CouponHolders
    <3>2. UNCHANGED <<usage, redeemed>>
      BY <1>4, <2>6 DEF PlaceCommit
    <3> QED
      BY <1>0, <1>a, <2>2, <2>5, <3>1, <3>2, CouponUntouched
  <2>7. CASE req[r].row.coupon
    <3> DEFINE c == req[r].row.customer
    <3>0. req[r].op = "checked" /\ c \in Customers \cup {Guest} /\ req[r].row.cart \in CouponCarts
      BY <1>0, <1>4, <2>7 DEF PlaceCommit, TypeOK, Request, OrderRow, OrdersKnown, Sold
    <3>1. CouponHolders' = CouponHolders \cup {o}
      BY <2>1, <2>3, <2>7 DEF CouponHolders
    <3>2. req[r].seenUsage = usage /\ usage < UsageLimit /\ (c \in Customers => UsesOf(c) < PerCustomerLimit)
      BY <1>a, <2>7, <3>0 DEF CouponOK
    <3>3. /\ usage' = usage + 1
          /\ redeemed' = IF c \in Customers THEN redeemed \cup {o} ELSE redeemed
      BY <1>4, <2>1, <2>7, <3>2 DEF PlaceCommit
    <3>4. \A p \in Products : req[r].row.cart[p] > 0 => holder[p] = r
      BY <1>0, <3>0 DEF OrderInv, StockInv, LocksProtectStock, CheckedHasUnits
    <3>5. \A q \in Reqs : ~(req'[q].op = "checked" /\ req'[q].row.coupon)
      BY <2>2, <3>0, <3>4, OneCouponUse
    <3>6. orders'[o].customer = c /\ \A i \in CouponHolders : orders'[i].customer = orders[i].customer
      BY <2>3, <2>5
    <3>7. ASSUME NEW d \in Customers
          PROVE  Cardinality({i \in CouponHolders' : orders'[i].customer = d}) <= PerCustomerLimit
      <4>1. CASE d = c
        <5>1. {i \in CouponHolders' : orders'[i].customer = d} = HoldersOf(d) \cup {o}
          BY <3>1, <3>6, <4>1 DEF HoldersOf
        <5>0. o \notin HoldersOf(d) /\ IsFiniteSet(HoldersOf(d)) /\ Cardinality(HoldersOf(d)) \in Nat
          BY <2>4, HoldersFinite DEF HoldersOf
        <5>2. Cardinality(HoldersOf(d) \cup {o}) = Cardinality(HoldersOf(d)) + 1
          BY <5>0, FS_AddElement
        <5>3. Cardinality(HoldersOf(d)) < PerCustomerLimit
          BY <3>2, <4>1, UsesAreHolders
        <5>4. Cardinality(HoldersOf(d) \cup {o}) <= PerCustomerLimit
          BY <5>0, <5>2, <5>3, LimitsAssumption
        <5> QED
          BY <5>1, <5>4
      <4>2. CASE d # c
        <5>1. {i \in CouponHolders' : orders'[i].customer = d} = HoldersOf(d)
          BY <2>4, <3>1, <3>6, <4>2 DEF HoldersOf
        <5> QED
          BY <5>1 DEF CouponInv, CouponLimitsKept, HoldersOf
      <4> QED
        BY <4>1, <4>2
    <3>8. Cardinality(CouponHolders') = Cardinality(CouponHolders) + 1
      BY <2>4, <3>1, HoldersFinite, FS_AddElement
    <3>9. usage = Cardinality(CouponHolders) /\ usage \in Nat
      BY <1>0 DEF CouponInv, CouponLimitsKept, TypeOK
    <3>10. CouponLimitsKept'
      BY <3>2, <3>3, <3>7, <3>8, <3>9, LimitsAssumption DEF CouponLimitsKept
    <3>11. redeemed' = {i \in CouponHolders' : orders'[i].customer \in Customers}
      BY <2>4, <3>1, <3>3, <3>6 DEF CouponInv
    <3> QED
      BY <1>0, <3>5, <3>10, <3>11 DEF CouponInv
  <2> QED
    BY <2>6, <2>7
<1>5. ASSUME NEW r \in Reqs, NEW o \in Orders, CancelRead(r, o) PROVE CouponInv'
  <2>1. req'[r].op = "cancel" /\ \A q \in Reqs \ {r} : req'[q] = req[q]
    BY <1>0, <1>5 DEF CancelRead, TypeOK, Request
  <2>2. UNCHANGED <<usage, redeemed, orders, returned>>
    BY <1>5 DEF CancelRead
  <2> QED
    BY <1>0, <1>a, <1>b, <2>1, <2>2, CouponUntouched
<1>6. ASSUME NEW r \in Reqs, CancelCommit(r) PROVE CouponInv'
  <2>1. PICK o \in Orders :
          /\ o = req[r].order /\ orders' = [orders EXCEPT ![o].status = "CANCELLED"]
          /\ \/ ~req[r].release /\ UNCHANGED <<returned, usage, redeemed>>
             \/ req[r].release /\ returned' = [returned EXCEPT ![o] = @ + 1]
    BY <1>0, <1>6, CancelReturns
  <2>2. req'[r].op = "idle" /\ \A q \in Reqs \ {r} : req'[q] = req[q]
    BY <1>0, <1>6, FinishFacts DEF CancelCommit
  <2>3. \A i \in Orders : orders'[i].customer = orders[i].customer /\ orders'[i].coupon = orders[i].coupon
    <3>1. orders[o] \in OrderRow
      BY <1>0 DEF TypeOK
    <3> QED
      BY <1>0, <2>1, <3>1 DEF TypeOK, OrderRow
  <2>4. /\ returned[o] = 0 /\ orders[o].status = "OPEN" /\ req[r].row.coupon = orders[o].coupon
        /\ req[r].row.cart = orders[o].cart
    BY <1>0, <1>6, <2>1 DEF CancelCommit, CancelInv, OrdersKnown
  <2>5. \A i \in CouponHolders : i \in Orders
    BY DEF CouponHolders
  <2>6. CASE ~req[r].release \/ ~orders[o].coupon
    <3>1. UNCHANGED <<usage, redeemed>>
      BY <1>6, <2>1, <2>4, <2>6 DEF CancelCommit
    <3>2. CouponHolders' = CouponHolders
      BY <1>0, <2>1, <2>3, <2>6 DEF CouponHolders, TypeOK
    <3> QED
      BY <1>0, <1>a, <2>2, <2>3, <2>5, <3>1, <3>2, CouponUntouched
  <2>7. CASE req[r].release /\ orders[o].coupon
    <3>1. returned'[o] = 1 /\ \A i \in Orders \ {o} : returned'[i] = returned[i]
      BY <1>0, <2>1, <2>4, <2>7 DEF TypeOK
    <3>2. CouponHolders' = CouponHolders \ {o} /\ o \in CouponHolders
      BY <2>3, <2>4, <2>7, <3>1 DEF CouponHolders
    <3>3. Cardinality(CouponHolders') = Cardinality(CouponHolders) - 1
      BY <3>2, HoldersFinite, FS_RemoveElement
    <3>4. Cardinality(CouponHolders) # 0
      BY <3>2, HoldersFinite, FS_EmptySet
    <3>5. usage = Cardinality(CouponHolders) /\ usage \in Nat /\ usage <= UsageLimit
      BY <1>0 DEF CouponInv, CouponLimitsKept, TypeOK
    <3>6. usage' = usage - 1 /\ redeemed' = redeemed \ {o}
      BY <1>6, <2>1, <2>4, <2>7, <3>4, <3>5 DEF CancelCommit
    <3>7. ASSUME NEW d \in Customers
          PROVE  Cardinality({i \in CouponHolders' : orders'[i].customer = d}) <= PerCustomerLimit
      <4>1. {i \in CouponHolders' : orders'[i].customer = d} \subseteq HoldersOf(d)
        BY <2>3, <2>5, <3>2 DEF HoldersOf
      <4>2. Cardinality({i \in CouponHolders' : orders'[i].customer = d}) <= Cardinality(HoldersOf(d))
            /\ Cardinality({i \in CouponHolders' : orders'[i].customer = d}) \in Nat
        BY <4>1, HoldersFinite, FS_Subset, FS_CardinalityType
      <4>3. Cardinality(HoldersOf(d)) <= PerCustomerLimit
        BY DEF CouponInv, CouponLimitsKept, HoldersOf
      <4> QED
        BY <4>2, <4>3, HoldersFinite, LimitsAssumption
    <3>8. CouponLimitsKept'
      BY <3>3, <3>5, <3>6, <3>7, LimitsAssumption DEF CouponLimitsKept
    <3>9. redeemed' = {i \in CouponHolders' : orders'[i].customer \in Customers}
      BY <2>3, <2>5, <3>2, <3>6 DEF CouponInv
    <3>10. orders[o].cart \in CouponCarts /\ \A p \in Products : orders[o].cart[p] > 0 => holder[p] = r
      BY <1>0, <1>6, <2>1, <2>4, <2>7 DEF CancelCommit, Holds, Wanted, OrdersKnown, Sold
    <3>11. \A q \in Reqs : ~(req'[q].op = "checked" /\ req'[q].row.coupon)
      BY <2>2, <3>10, OneCouponUse
    <3> QED
      BY <1>0, <3>8, <3>9, <3>11 DEF CouponInv
  <2> QED
    BY <2>6, <2>7
<1>7. ASSUME NEW r \in Reqs, Abort(r) PROVE CouponInv'
  <2>1. req'[r].op = "idle" /\ \A q \in Reqs \ {r} : req'[q] = req[q]
    BY <1>0, <1>7, FinishFacts DEF Abort
  <2>2. UNCHANGED <<usage, redeemed, orders, returned>>
    BY <1>7 DEF Abort
  <2> QED
    BY <1>0, <1>a, <1>b, <2>1, <2>2, CouponUntouched
<1>8. ASSUME NEW o \in Orders, ConfirmPaid(o) PROVE CouponInv'
  <2>1. /\ UNCHANGED <<usage, redeemed, returned, req>>
        /\ orders[o] \in OrderRow /\ orders' = [orders EXCEPT ![o] = [orders[o] EXCEPT !.paid = TRUE]]
    BY <1>0, <1>8 DEF ConfirmPaid, TypeOK
  <2>2. \A i \in Orders : orders'[i].customer = orders[i].customer /\ orders'[i].coupon = orders[i].coupon
    BY <1>0, <2>1 DEF TypeOK, OrderRow
  <2>3. CouponHolders' = CouponHolders /\ \A i \in CouponHolders : orders'[i].customer = orders[i].customer
    BY <2>1, <2>2 DEF CouponHolders
  <2> QED
    BY <1>0, <1>a, <2>1, <2>3, CouponUntouched
<1>9. CASE UNCHANGED vars
  BY <1>0, <1>9, <1>a, <1>b, CouponUntouched DEF vars
<1> QED
  BY <1>1, <1>2, <1>3, <1>4, <1>5, <1>6, <1>7, <1>8, <1>9 DEF Next, PlaceOrder, CancelOrder

\* The coupon's counter is the number of orders that keep it, and neither its
\* usage limit nor any customer's is exceeded, if one product is in every cart
\* the coupon applies to: its row puts their uses of the coupon one after the
\* other.  Without it the limit can be passed.
THEOREM CouponNeverOverLimit ==
  ASSUME OneCanceller, SharedProduct
  PROVE  Spec => []CouponLimitsKept
<1>1. CouponInv /\ [Next]_vars => CouponInv'
  BY CouponStep
<1>2. CouponInv => CouponLimitsKept
  BY DEF CouponInv
<1> QED
  BY <1>1, <1>2, CouponInit, PTL DEF Spec

-----------------------------------------------------------------------------
(***************************************************************************)
(* The cart: page, cart and order work out a price in three ways, and      *)
(* agree; so the order costs what the cart showed.                         *)
(***************************************************************************)
\* Every block that is saved has a selling price; without one the page shows 0
\* and the order takes the price from elsewhere.  Nothing else of it is assumed:
\* blocks with errors are saved too.
PricingsComplete ==
  \A pricing \in Pricings :
    /\ pricing.type \in {"percentage", "fixed", "none"}
    /\ pricing.selling \in Nat \ {0}
    /\ pricing.mrp \in Int /\ pricing.value \in Int
PricesPositive == Prices \subseteq Nat \ {0}
\* The coupon forms take no percentage above 100.
CouponsInOrder ==
  \A c \in CouponForms :
    /\ c.value \in Int /\ c.minimum \in Int
    /\ c.type = "percentage" => c.value <= 100

ProductRow ==
  [live : BOOLEAN, stock : Nat, price : Nat, original : Nat, pricing : Pricings \cup {K!NoPricing}]

CartInv ==
  /\ product \in [Goods -> ProductRow]
  /\ \A p \in Goods : product[p].live /\ product[p].pricing = K!NoPricing => product[p].price > 0
  /\ line \in [K!Keys -> Nat]
  /\ form \in CouponForms
  /\ K!CachedIsCurrent

\* The sum in Cart is the sum of the library.
LEMMA CartSums == \A f : K!SumFunction(f) = SumFunction(f)
BY DEF SumFunction, SumFunctionOnSet, FoldFunctionOnSet, MapThenFoldSet,
       K!SumFunction, K!SumFunctionOnSet, K!FoldFunctionOnSet, K!MapThenFoldSet

\* Rounding hundredths gives an integer, and stays within whole bounds.
LEMMA RoundingFacts ==
  ASSUME NEW n \in Int
  PROVE  /\ K!RoundHundredths(n) \in Int
         /\ \A m \in Int : n <= 100 * m => K!RoundHundredths(n) <= m
<1> DEFINE q == n \div 100
           rest == n % 100
<1>1. q \in Int /\ rest \in 0..99 /\ n = 100 * q + rest
  OBVIOUS
<1>2. K!RoundHundredths(n) \in {q, q + 1} /\ (K!RoundHundredths(n) = q + 1 => rest >= 50)
  <2>1. K!RoundHundredths(n) = IF rest > 50 \/ (rest = 50 /\ q % 2 = 1) THEN q + 1 ELSE q
    BY DEF K!RoundHundredths
  <2> QED
    BY <1>1, <2>1
<1> HIDE DEF q, rest
<1> QED
  BY <1>1, <1>2

\* A complete block takes a positive price to a natural number.
LEMMA DiscountedType ==
  ASSUME PricingsComplete, NEW pricing \in Pricings, NEW selling \in Nat \ {0}
  PROVE  K!Discounted(selling, pricing) \in Nat
<1> DEFINE cut == 100 * selling - selling * pricing.value
<1>1. pricing.value \in Int
  BY DEF PricingsComplete
<1>2. selling * pricing.value \in Int
  BY <1>1
<1>3. cut \in Int
  BY <1>2
<1> HIDE DEF cut
<1>4. K!RoundHundredths(cut) \in Int
  BY <1>3, RoundingFacts
<1>5. K!NotBelowZero(K!RoundHundredths(cut)) \in Nat /\ K!NotBelowZero(selling - pricing.value) \in Nat
  BY <1>1, <1>4 DEF K!NotBelowZero
<1> QED
  BY <1>5 DEF K!Discounted, cut

\* The three prices of a row.
LEMMA ThreePrices ==
  ASSUME PricingsComplete, NEW row \in ProductRow
  PROVE  /\ K!CartPrice(row) \in Nat
         /\ K!PagePrice(row) = K!CartPrice(row)
         /\ K!OrderPrice(row) = K!CartPrice(row)
         /\ row.pricing = K!NoPricing => K!CartPrice(row) = row.price
<1>1. CASE row.pricing = K!NoPricing
  BY <1>1 DEF ProductRow, K!CartPrice, K!PagePrice, K!OrderPrice
<1>2. CASE row.pricing # K!NoPricing
  <2>1. row.pricing \in Pricings
    BY <1>2 DEF ProductRow
  <2>2. row.pricing.selling \in Nat \ {0}
    BY <2>1 DEF PricingsComplete
  <2>3. K!Discounted(row.pricing.selling, row.pricing) \in Nat
    BY <2>1, <2>2, DiscountedType
  <2>4. \A other : K!Or(row.pricing.selling, other) = row.pricing.selling
    BY <2>2 DEF K!Or
  <2>5. K!NotBelowZero(K!Discounted(row.pricing.selling, row.pricing)) = K!Discounted(row.pricing.selling, row.pricing)
    BY <2>3 DEF K!NotBelowZero
  <2> QED
    BY <1>2, <2>3, <2>4, <2>5 DEF K!CartPrice, K!PagePrice, K!OrderPrice
<1> QED
  BY <1>1, <1>2

\* Page, cart and order agree in every reachable row.
LEMMA PricesFollow == ASSUME PricingsComplete, CartInv PROVE K!PricesAgree
<1> SUFFICES ASSUME NEW p \in Goods, product[p].live
             PROVE  /\ K!CartPrice(product[p]) > 0 \/ product[p].pricing # K!NoPricing
                    /\ K!PagePrice(product[p]) = K!CartPrice(product[p])
                    /\ K!CartPrice(product[p]) = K!OrderPrice(product[p])
  BY DEF K!PricesAgree
<1>1. product[p] \in ProductRow
  BY DEF CartInv
<1>2. product[p].pricing = K!NoPricing => product[p].price > 0
  BY DEF CartInv
<1> QED
  BY <1>1, <1>2, ThreePrices

LEMMA SamePrices ==
  ASSUME PricingsComplete, CartInv
  PROVE  K!InCart \in [Goods -> Nat] /\ K!InOrder = K!InCart
<1>1. \A p \in Goods : product[p] \in ProductRow
  BY DEF CartInv
<1>2. \A p \in Goods : K!CartPrice(product[p]) \in Nat /\ K!OrderPrice(product[p]) = K!CartPrice(product[p])
  BY <1>1, ThreePrices
<1> QED
  BY <1>2 DEF K!InCart, K!InOrder

\* The worth of a part of the lines is at most that of all of them.
LEMMA WorthOfSome ==
  ASSUME NEW price \in [Goods -> Nat], NEW lines \in [K!Keys -> Nat], NEW some \in SUBSET Goods
  PROVE  /\ K!Worth(price, lines, some) \in Int
         /\ 0 <= K!Worth(price, lines, some)
         /\ K!Worth(price, lines, some) <= K!Worth(price, lines, Goods)
<1> DEFINE part(S) == [k \in K!Keys |-> IF k[1] \in S THEN price[k[1]] * lines[k] ELSE 0]
           none == [k \in K!Keys |-> 0]
<1>1. IsFiniteSet(K!Keys)
  BY FS_Product, GoodsAssumption DEF K!Keys
<1>2. \A k \in K!Keys : k[1] \in Goods
  BY DEF K!Keys
<1>3. \A k \in K!Keys : price[k[1]] * lines[k] \in Nat
  <2> SUFFICES ASSUME NEW k \in K!Keys PROVE price[k[1]] * lines[k] \in Nat
    OBVIOUS
  <2>1. price[k[1]] \in Nat /\ lines[k] \in Nat
    BY <1>2
  <2> QED
    BY <2>1
<1>4. part(some) \in [K!Keys -> Int] /\ part(Goods) \in [K!Keys -> Int] /\ none \in [K!Keys -> Int]
  BY <1>3
<1>5. \A k \in K!Keys : none[k] <= part(some)[k] /\ part(some)[k] <= part(Goods)[k] /\ none[k] = 0
  BY <1>2, <1>3
<1>6. K!Worth(price, lines, some) = SumFunction(part(some)) /\ K!Worth(price, lines, Goods) = SumFunction(part(Goods))
  BY CartSums DEF K!Worth
<1> HIDE DEF part, none
<1>7. SumFunction(none) = 0
  BY <1>1, <1>4, <1>5, SumZero
<1>8. SumFunction(part(some)) \in Int /\ SumFunction(none) <= SumFunction(part(some))
  BY <1>1, <1>4, <1>5, SumType, SumAtMost
<1>9. SumFunction(part(some)) <= SumFunction(part(Goods))
  BY <1>1, <1>4, <1>5, SumAtMost
<1> QED
  BY <1>6, <1>7, <1>8, <1>9

\* A coupon takes at most what it counts.
LEMMA AmountBounded ==
  ASSUME CouponsInOrder, NEW c \in CouponForms, NEW eligible \in Nat
  PROVE  K!Amount(c, eligible) \in Int /\ K!Amount(c, eligible) <= eligible
<1>1. c.value \in Int
  BY DEF CouponsInOrder
<1>2. CASE c.type = "percentage"
  <2>1. c.value <= 100
    BY <1>2 DEF CouponsInOrder
  <2>2. eligible * c.value \in Int /\ eligible * c.value <= 100 * eligible
    <3>1. eligible * c.value \in Int
      BY <1>1
    <3>2. \A v \in Int : v <= 100 => eligible * v <= 100 * eligible
      OBVIOUS
    <3> QED
      BY <1>1, <2>1, <3>1, <3>2
  <2> DEFINE n == eligible * c.value
  <2>3. K!Amount(c, eligible) = K!RoundHundredths(n)
    BY <1>2 DEF K!Amount
  <2> HIDE DEF n
  <2>4. n \in Int /\ n <= 100 * eligible
    BY <2>2 DEF n
  <2> QED
    BY <2>3, <2>4, RoundingFacts
<1>3. CASE c.type = "fixed"
  BY <1>1, <1>3 DEF K!Amount, K!Least
<1>4. CASE c.type \notin {"percentage", "fixed"}
  BY <1>4 DEF K!Amount
<1> QED
  BY <1>2, <1>3, <1>4

\* An order for the cart's lines costs what the cart says.
LEMMA QuoteFollows ==
  ASSUME PricingsComplete, CouponsInOrder, CartInv
  PROVE  K!QuoteMatchesOrder
<1> DEFINE lines == K!Restored(line)
           quote == K!Quote(lines)
           total == K!Worth(K!InCart, lines, Goods)
           eligible == K!Worth(K!InCart, lines, K!Counted(form))
<1>1. lines \in [K!Keys -> Nat]
  <2>1. \A k \in K!Keys : line[k] \in Nat /\ k[1] \in Goods
    BY DEF CartInv, K!Keys
  <2>2. \A k \in K!Keys : product[k[1]].stock \in Nat
    BY <2>1 DEF CartInv, ProductRow
  <2> QED
    BY <2>1, <2>2 DEF K!Restored, K!Least
<1>2. K!InCart \in [Goods -> Nat] /\ K!InOrder = K!InCart
  BY SamePrices
<1>3. K!Counted(form) \in SUBSET Goods /\ Goods \in SUBSET Goods
  BY DEF K!Counted
<1> HIDE DEF lines
<1>4. total \in Int /\ eligible \in Nat /\ eligible <= total
  BY <1>1, <1>2, <1>3, WorthOfSome
<1>5. form \in CouponForms /\ form.minimum \in Int
  BY DEF CartInv, CouponsInOrder
<1> DEFINE discount == IF applied /\ K!StillLive /\ total >= form.minimum THEN K!Amount(form, eligible) ELSE 0
<1>6. quote.lines = lines /\ quote.subtotal = total /\ quote.discount = discount
      /\ (quote.coupon <=> applied /\ K!StillLive)
  BY DEF K!Quote
<1> SUFFICES ASSUME K!Accepts(quote), NEW delivery \in {"normal", "standard", "express"},
                    NEW payment \in {"cod", "online"}
             PROVE  K!CartTotal(quote, delivery, payment) = K!OrderTotal(quote, delivery, payment)
  BY DEF K!QuoteMatchesOrder, lines
<1> HIDE DEF quote
<1>7. quote.coupon => total >= form.minimum
  BY <1>2, <1>6 DEF K!Accepts
<1>8. K!OrderDiscount(quote) = discount
  BY <1>2, <1>6, <1>7 DEF K!OrderDiscount
<1> HIDE DEF total, eligible
<1>9. discount \in Int /\ discount <= total
  BY <1>4, <1>5, AmountBounded
<1> HIDE DEF discount
<1>10. K!Worth(K!InOrder, quote.lines, Goods) = total
  BY <1>2, <1>6 DEF total
<1>11. \A n \in Int : K!Shipping(n, delivery) \in Nat
  BY DEF K!Shipping, K!EXPRESS_SHIPPING_FEE, K!FLAT_SHIPPING_FEE
<1>12. K!Cod(payment) \in Nat
  BY DEF K!Cod, K!COD_FEE
<1>13. total - discount \in Nat
  BY <1>4, <1>9
<1>14. K!NotBelowZero(total - discount + K!Shipping(total - discount, delivery) + K!Cod(payment))
       = total - discount + K!Shipping(total - discount, delivery) + K!Cod(payment)
  BY <1>11, <1>12, <1>13 DEF K!NotBelowZero
<1> QED
  BY <1>6, <1>8, <1>10, <1>14 DEF K!CartTotal, K!OrderTotal

LEMMA CartInit == ASSUME K!Init PROVE CartInv
<1>1. \A p \in Goods : product[p] = [live |-> FALSE, stock |-> MaxStock, price |-> 0, original |-> 0,
                                     pricing |-> K!NoPricing]
  BY DEF K!Init
<1>2. product \in [Goods -> ProductRow]
  BY <1>1, GoodsAssumption DEF K!Init, ProductRow
<1> QED
  BY <1>1, <1>2 DEF K!Init, CartInv, K!CachedIsCurrent

\* What the desk writes: a row of the right kind, never for sale without a price.
LEMMA EditedRow ==
  ASSUME CartInv, NEW p \in Goods, NEW row \in ProductRow,
         row.live /\ row.pricing = K!NoPricing => row.price > 0, K!Edit(p, row)
  PROVE  CartInv'
<1>1. /\ product' = [product EXCEPT ![p] = row] /\ edited' = TRUE
      /\ UNCHANGED <<line, form, applied, cached>>
  BY DEF K!Edit
<1>2. \A s \in Goods : product'[s] = IF s = p THEN row ELSE product[s]
  BY <1>1 DEF CartInv
<1>3. product' \in [Goods -> ProductRow]
  BY <1>1 DEF CartInv
<1>4. K!CachedIsCurrent'
  BY <1>1 DEF K!CachedIsCurrent
<1>5. K!Keys' = K!Keys
  BY DEF K!Keys
<1> QED
  BY <1>1, <1>2, <1>3, <1>4 DEF CartInv

\* The rows that the routes of the desk write.
LEMMA DeskStep ==
  ASSUME PricingsComplete, PricesPositive, CartInv, NEW p \in Goods,
         \/ \E pricing \in Pricings : K!SavePricing(p, pricing)
         \/ \E price \in Prices : K!SavePrice(p, price)
         \/ K!Publish(p) \/ K!Withdraw(p)
         \/ \E n \in 0..MaxStock : K!SetStock(p, n)
  PROVE  CartInv'
<1> DEFINE old == product[p]
<1>0. old \in ProductRow /\ (old.live /\ old.pricing = K!NoPricing => old.price > 0)
  BY DEF CartInv
<1>1. ASSUME NEW pricing \in Pricings, K!SavePricing(p, pricing) PROVE CartInv'
  <2> DEFINE final == K!NotBelowZero(K!Discounted(pricing.selling, pricing))
             mrp == K!Or(pricing.mrp, pricing.selling)
             original == IF mrp > final THEN mrp ELSE 0
             good == [old EXCEPT !.pricing = pricing, !.price = final, !.original = original]
             kept == [old EXCEPT !.pricing = pricing]
  <2>1. pricing.selling \in Nat \ {0} /\ pricing.mrp \in Int /\ pricing # K!NoPricing
    BY DEF PricingsComplete, K!NoPricing
  <2>2. final \in Nat
    <3>1. K!Discounted(pricing.selling, pricing) \in Nat
      BY <2>1, DiscountedType
    <3> QED
      BY <3>1 DEF K!NotBelowZero
  <2>3. K!Edit(p, good) \/ K!Edit(p, kept)
    BY <1>1 DEF K!SavePricing
  <2>4. original \in Nat
    <3>1. mrp \in Int
      BY <2>1 DEF K!Or
    <3> HIDE DEF mrp, final
    <3> QED
      BY <2>2, <3>1
  <2> HIDE DEF final, original
  <2>5. good \in ProductRow /\ good.pricing = pricing
    BY <1>0, <2>2, <2>4 DEF ProductRow
  <2>6. kept \in ProductRow /\ kept.pricing = pricing
    BY <1>0 DEF ProductRow
  <2> HIDE DEF good, kept
  <2> QED
    BY <2>1, <2>3, <2>5, <2>6, EditedRow
<1>2. ASSUME NEW price \in Prices, K!SavePrice(p, price) PROVE CartInv'
  <2> DEFINE row == [old EXCEPT !.price = price]
  <2>1. row \in ProductRow /\ row.price > 0
    BY <1>0 DEF ProductRow, PricesPositive
  <2>2. K!Edit(p, row)
    BY <1>2 DEF K!SavePrice
  <2> HIDE DEF row
  <2> QED
    BY <2>1, <2>2, EditedRow
<1>3. CASE K!Publish(p)
  <2> DEFINE row == [old EXCEPT !.live = TRUE]
  <2>1. row \in ProductRow /\ row.price = old.price /\ row.pricing = old.pricing
    BY <1>0 DEF ProductRow
  <2>2. old.pricing = K!NoPricing => old.price > 0
    BY <1>3 DEF K!Publish, K!PagePrice
  <2>3. K!Edit(p, row)
    BY <1>3 DEF K!Publish
  <2> HIDE DEF row
  <2> QED
    BY <2>1, <2>2, <2>3, EditedRow
<1>4. CASE K!Withdraw(p)
  <2> DEFINE row == [old EXCEPT !.live = FALSE]
  <2>1. row \in ProductRow /\ ~row.live
    BY <1>0 DEF ProductRow
  <2>2. K!Edit(p, row)
    BY <1>4 DEF K!Withdraw
  <2> HIDE DEF row
  <2> QED
    BY <2>1, <2>2, EditedRow
<1>5. ASSUME NEW n \in 0..MaxStock, K!SetStock(p, n) PROVE CartInv'
  <2> DEFINE row == [old EXCEPT !.stock = n]
  <2>1. row \in ProductRow /\ row.live = old.live /\ row.price = old.price /\ row.pricing = old.pricing
    BY <1>0, GoodsAssumption DEF ProductRow
  <2>2. K!Edit(p, row)
    BY <1>5 DEF K!SetStock
  <2> HIDE DEF row
  <2> QED
    BY <1>0, <2>1, <2>2, EditedRow
<1> QED
  BY <1>1, <1>2, <1>3, <1>4, <1>5

LEMMA RestoredType ==
  ASSUME CartInv, NEW lines \in [K!Keys -> Int], \A k \in K!Keys : lines[k] >= 0
  PROVE  K!Restored(lines) \in [K!Keys -> Nat]
<1>1. \A k \in K!Keys : k[1] \in Goods
  BY DEF K!Keys
<1>2. \A k \in K!Keys : product[k[1]].stock \in Nat
  BY <1>1 DEF CartInv, ProductRow
<1> QED
  BY <1>2 DEF K!Restored, K!Least

\* Restoring twice is restoring once.
LEMMA RestoredOnce == ASSUME CartInv PROVE K!Restored(K!Restored(line)) = K!Restored(line)
<1>1. \A k \in K!Keys : k[1] \in Goods
  BY DEF K!Keys
<1>2. \A k \in K!Keys : product[k[1]].stock \in Nat /\ line[k] \in Nat
  BY <1>1 DEF CartInv, ProductRow
<1> QED
  BY <1>2 DEF K!Restored, K!Least

\* A change of the customer's evicts the cached cart.
LEMMA ChangedCart ==
  ASSUME CartInv, NEW lines \in [K!Keys -> Nat], NEW has, K!Changed(lines, has)
  PROVE  CartInv'
BY DEF CartInv, K!Changed, K!CachedIsCurrent, K!Keys

LEMMA CartStep ==
  ASSUME PricingsComplete, PricesPositive
  PROVE  CartInv /\ [K!Next]_(K!vars) => CartInv'
<1> SUFFICES ASSUME CartInv, [K!Next]_(K!vars) PROVE CartInv'
  OBVIOUS
<1>0. line \in [K!Keys -> Nat] /\ K!Restored(line) \in [K!Keys -> Nat]
  BY RestoredType DEF CartInv
<1>1. ASSUME NEW c \in CouponForms, K!EditCoupon(c) PROVE CartInv'
  BY <1>1 DEF CartInv, K!EditCoupon, K!CachedIsCurrent, K!Keys
<1>2. ASSUME NEW k \in K!Keys, NEW n \in 1..MaxStock, K!Add(k, n) PROVE CartInv'
  <2> DEFINE least == K!Least(line[k] + n, product[k[1]].stock)
             lines == [K!Restored(line) EXCEPT ![k] = least]
  <2>1. k[1] \in Goods
    BY DEF K!Keys
  <2>2. product[k[1]].stock \in Nat /\ line[k] \in Nat
    BY <2>1 DEF CartInv, ProductRow
  <2>3. least \in Nat
    BY <2>2, GoodsAssumption DEF K!Least
  <2>4. K!Changed(lines, applied)
    BY <1>2 DEF K!Add
  <2> HIDE DEF least
  <2>5. lines \in [K!Keys -> Nat]
    BY <1>0, <2>3
  <2> QED
    BY <2>4, <2>5, ChangedCart
<1>3. ASSUME NEW k \in K!Keys, NEW n \in 0..MaxStock, K!Update(k, n) PROVE CartInv'
  <2> DEFINE lines == [line EXCEPT ![k] = n]
  <2>1. lines \in [K!Keys -> Int] /\ \A j \in K!Keys : lines[j] >= 0
    BY <1>0, GoodsAssumption
  <2>2. K!Changed(K!Restored(lines), applied)
    BY <1>3 DEF K!Update
  <2> HIDE DEF lines
  <2> QED
    BY <2>1, <2>2, RestoredType, ChangedCart
<1>4. CASE K!Clear
  BY <1>4, ChangedCart DEF K!Clear
<1>5. CASE K!ApplyCoupon
  BY <1>0, <1>5, ChangedCart DEF K!ApplyCoupon
<1>6. CASE K!RemoveCoupon
  BY <1>0, <1>6, ChangedCart DEF K!RemoveCoupon
<1>7. CASE K!GetCart
  <2>1. line' = K!Restored(line) /\ cached' = K!Quote(K!Restored(line)) /\ UNCHANGED <<product, form, applied>>
    BY <1>7 DEF K!GetCart
  <2>2. K!Restored(line)' = K!Restored(K!Restored(line))
    BY <2>1 DEF K!Restored, K!Keys
  <2>3. K!Restored(line)' = K!Restored(line)
    BY <2>2, RestoredOnce
  <2> DEFINE shown == K!Restored(line)
  <2>4. PICK same : same = shown
    OBVIOUS
  <2>5. K!Quote(same)' = K!Quote(same)
    BY <2>1 DEF K!Quote, K!InCart, K!StillLive, K!Counted, K!Worth, K!Keys
  <2>6. K!CachedIsCurrent'
    BY <2>1, <2>3, <2>4, <2>5 DEF K!CachedIsCurrent
  <2> QED
    BY <1>0, <2>1, <2>6 DEF CartInv, K!Keys
<1>8. CASE K!Expire
  BY <1>8 DEF CartInv, K!Expire, K!CachedIsCurrent, K!Keys
<1>9. CASE UNCHANGED K!vars
  BY <1>9 DEF CartInv, K!vars, K!CachedIsCurrent, K!Quote, K!Restored, K!InCart, K!StillLive, K!Counted, K!Worth, K!Keys
<1> QED
  BY <1>1, <1>2, <1>3, <1>4, <1>5, <1>6, <1>7, <1>8, <1>9, DeskStep DEF K!Next, K!CartCalls

\* The initial cart and every step keep the invariant.
LEMMA CartKept ==
  ASSUME PricingsComplete, PricesPositive
  PROVE  CartSpec => []CartInv
<1>1. CartInv /\ [K!Next]_(K!vars) => CartInv'
  BY CartStep
<1> QED
  BY <1>1, CartInit, PTL DEF CartSpec, K!Spec

\* The product page, the cart and the order work out one price, and a product
\* that is for sale never loses it, if every block that is saved is complete.
\* (order_service.py: "the same resolution CartService uses")
THEOREM OnePriceEverywhere ==
  ASSUME PricingsComplete, PricesPositive
  PROVE  CartSpec => []PricesAgree
<1>1. CartInv => PricesAgree
  BY PricesFollow DEF PricesAgree
<1> QED
  BY <1>1, CartKept, PTL

\* An order that is accepted for what a fresh cart shows costs what the cart
\* says, shipping, coupon and cash fee included.
\* (cart_service.py: "can never disagree")
THEOREM OrderCostsTheQuote ==
  ASSUME PricingsComplete, PricesPositive, CouponsInOrder
  PROVE  CartSpec => []QuoteMatchesOrder
<1>1. CartInv => QuoteMatchesOrder
  BY QuoteFollows DEF QuoteMatchesOrder
<1> QED
  BY <1>1, CartKept, PTL

\* Every request of the customer evicts the cached cart, so that only the
\* desk's edits can leave an old one there.
\* (cart_service.py get_cart: "evicted on every mutation anyway")
THEOREM CachedCartStaysCurrent ==
  ASSUME PricingsComplete, PricesPositive
  PROVE  CartSpec => []CachedIsCurrent
<1>1. CartInv => CachedIsCurrent
  BY DEF CartInv, CachedIsCurrent
<1> QED
  BY <1>1, CartKept, PTL
=============================================================================
