------------------------------- MODULE MCCart -------------------------------
(* The cart for TLC.                                                        *)
EXTENDS Quotes

\* Discounts that end in half a rupee, around the free shipping threshold, and
\* one the desk should not have saved; every block has a selling price.
Complete ==
  {[mrp |-> 2700, selling |-> 2535, type |-> "percentage", value |-> 10],
   [mrp |-> 0, selling |-> 50, type |-> "fixed", value |-> 60]}
\* A block whose selling price is missing.
Incomplete == Complete \cup {[mrp |-> 2700, selling |-> 0, type |-> "none", value |-> 0]}

Base == [active |-> TRUE, usedUp |-> FALSE, mine |-> TRUE, type |-> "percentage", value |-> 15,
         minimum |-> 50, excluded |-> {}, eligible |-> {}]
CouponStates ==
  {[Base EXCEPT !.excluded = {"saree"}],
   [Base EXCEPT !.type = "fixed", !.value = 60, !.eligible = {"blouse"}],
   [Base EXCEPT !.type = "free_shipping", !.usedUp = TRUE],
   [Base EXCEPT !.mine = FALSE]}
=============================================================================
