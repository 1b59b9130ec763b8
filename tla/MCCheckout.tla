----------------------------- MODULE MCCheckout -----------------------------
(* Instances of Checkout for TLC: a bag of p1, of p2, or of both.           *)
EXTENDS Checkout, TLC

CONSTANTS p1, p2

Bag(n1, n2) == p1 :> n1 @@ p2 :> n2

MixedCarts == {Bag(1, 0), Bag(1, 1), Bag(0, 1)}
P1Only == {Bag(1, 0)}
DisjointCarts == {Bag(1, 0), Bag(0, 1)}
Scarce == Bag(3, 1)

Symmetry == Permutations(Orders) \cup Permutations(Cancellers) \cup Permutations(Reqs \ Cancellers)
=============================================================================
