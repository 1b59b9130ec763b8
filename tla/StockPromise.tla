---------------------------- MODULE StockPromise ----------------------------
(***************************************************************************)
(* What checkout promises about stock, without requests, row locks or      *)
(* coupons: an order takes its units from the shelf all together, and only *)
(* if they are all there; it may put them back, exactly those it took, and *)
(* then holds nothing any more.                                            *)
(***************************************************************************)
EXTENDS Integers

CONSTANTS Products, Orders, Carts, Shelf0   \* Shelf0: units of each product at the start

VARIABLES shelf,   \* units left, per product
          holds    \* the units each order holds, per product

None == [p \in Products |-> 0]

Init ==
  /\ shelf = Shelf0
  /\ holds = [o \in Orders |-> None]

Take(o, cart) ==
  /\ holds[o] = None
  /\ \A p \in Products : cart[p] <= shelf[p]
  /\ shelf' = [p \in Products |-> shelf[p] - cart[p]]
  /\ holds' = [holds EXCEPT ![o] = cart]

PutBack(o) ==
  /\ holds[o] # None
  /\ shelf' = [p \in Products |-> shelf[p] + holds[o][p]]
  /\ holds' = [holds EXCEPT ![o] = None]

Next == \E o \in Orders : PutBack(o) \/ \E cart \in Carts : Take(o, cart)

Spec == Init /\ [][Next]_<<shelf, holds>>
=============================================================================
