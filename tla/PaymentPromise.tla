--------------------------- MODULE PaymentPromise ---------------------------
(***************************************************************************)
(* What the payment service promises about one order, without sessions,    *)
(* requests or webhooks: the order's payment claim follows the money.      *)
(* Money moves at the payment provider; the claim catches up later, one    *)
(* step of the ladder UNPAID, PAID, PARTIALLY_REFUNDED, REFUNDED at a time *)
(* or skipping the partial refund, never back, and never ahead of the      *)
(* money.                                                                  *)
(***************************************************************************)
EXTENDS Integers

CONSTANT Payments   \* the order's payments at the provider

VARIABLES claim,    \* what the order says
          taken,    \* money captured, per payment
          returned  \* money paid back, per payment

Init ==
  /\ claim = "UNPAID"
  /\ taken = [p \in Payments |-> 0]
  /\ returned = [p \in Payments |-> 0]

Take(p) ==
  /\ taken[p] = 0
  /\ taken'[p] \in Nat \ {0}
  /\ taken' = [taken EXCEPT ![p] = taken'[p]]
  /\ UNCHANGED <<claim, returned>>

Return(p) ==
  /\ \E a \in 1..(taken[p] - returned[p]) : returned' = [returned EXCEPT ![p] = @ + a]
  /\ UNCHANGED <<claim, taken>>

ClaimPaid ==
  /\ claim = "UNPAID" /\ \E p \in Payments : taken[p] > 0
  /\ claim' = "PAID"
  /\ UNCHANGED <<taken, returned>>

ClaimPartlyRefunded ==
  /\ claim = "PAID" /\ \E p \in Payments : returned[p] > 0
  /\ claim' = "PARTIALLY_REFUNDED"
  /\ UNCHANGED <<taken, returned>>

ClaimRefunded ==
  /\ claim \in {"PAID", "PARTIALLY_REFUNDED"}
  /\ \E p \in Payments : taken[p] > 0 /\ returned[p] = taken[p]
  /\ claim' = "REFUNDED"
  /\ UNCHANGED <<taken, returned>>

Next ==
  \/ \E p \in Payments : Take(p) \/ Return(p)
  \/ ClaimPaid \/ ClaimPartlyRefunded \/ ClaimRefunded

Spec == Init /\ [][Next]_<<claim, taken, returned>>
=============================================================================
