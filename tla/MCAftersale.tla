---------------------------- MODULE MCAftersale ----------------------------
(* The returns of an order of two units of l1 and one of l2, its way to the *)
(* customer, and the warehouse register, for TLC.                           *)
EXTENDS Aftersale, TLC

CONSTANTS l1, l2

TwoAndOne == l1 :> 2 @@ l2 :> 1
Entry(l, n) == [line |-> l, quantity |-> n]

PlainForms == {<<Entry(l1, 1)>>, <<Entry(l1, 2)>>, <<Entry(l1, 1), Entry(l2, 1)>>}
RepeatedLine == {<<Entry(l1, 2), Entry(l1, 2)>>, <<Entry(l2, 1)>>}
OneOutTwoIn == {-1, 2}

Symmetry == Permutations(Returns) \cup Permutations(Desks)
=============================================================================
