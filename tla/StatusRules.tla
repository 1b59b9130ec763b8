----------------------------- MODULE StatusRules -----------------------------
(***************************************************************************)
(* The status vocabularies and transition tables of orders, payment        *)
(* sessions and order payments, and the two validators that guard them.    *)
(* A validator is TRUE where the code returns and FALSE where it raises    *)
(* BusinessLogicException (which rolls the whole request back).            *)
(***************************************************************************)

SessionStatuses ==
  {"CREATED", "PENDING", "AUTHORIZED", "CAPTURED", "PAID", "FAILED", "CANCELLED",
   "EXPIRED", "REFUND_PENDING", "PARTIALLY_REFUNDED", "REFUNDED"}

PaymentStatuses ==
  {"PENDING_PAYMENT", "PAYMENT_PROCESSING", "PAID", "PAYMENT_FAILED",
   "PAYMENT_CANCELLED", "PAYMENT_EXPIRED", "REFUND_PENDING",
   "PARTIALLY_REFUNDED", "REFUNDED"}

\* ALLOWED_PAYMENT_SESSION_TRANSITIONS: the four terminal statuses have no row.
AllowedSessionMove(from, to) ==
  \/ /\ from = "CREATED"
     /\ to \in {"PENDING", "AUTHORIZED", "CAPTURED", "PAID", "FAILED", "CANCELLED", "EXPIRED"}
  \/ /\ from = "PENDING"
     /\ to \in {"AUTHORIZED", "CAPTURED", "PAID", "FAILED", "CANCELLED", "EXPIRED"}
  \/ /\ from = "AUTHORIZED"
     /\ to \in {"CAPTURED", "PAID", "FAILED", "CANCELLED", "EXPIRED"}
  \/ /\ from \in {"CAPTURED", "PAID"}
     /\ to \in {"REFUND_PENDING", "PARTIALLY_REFUNDED", "REFUNDED"}
  \/ /\ from = "REFUND_PENDING"
     /\ to \in {"PARTIALLY_REFUNDED", "REFUNDED", "FAILED"}
  \/ from = "PARTIALLY_REFUNDED" /\ to = "REFUNDED"

\* ALLOWED_ORDER_PAYMENT_TRANSITIONS ("PENDING" is the legacy spelling and
\* is never written by the code).
AllowedPaymentMove(from, to) ==
  \/ /\ from = "PENDING_PAYMENT"
     /\ to \in {"PAYMENT_PROCESSING", "PAID", "PAYMENT_FAILED",
                "PAYMENT_CANCELLED", "PAYMENT_EXPIRED"}
  \/ /\ from = "PAYMENT_PROCESSING"
     /\ to \in {"PAID", "PAYMENT_FAILED", "PAYMENT_CANCELLED", "PAYMENT_EXPIRED"}
  \/ /\ from = "PAID"
     /\ to \in {"REFUND_PENDING", "PARTIALLY_REFUNDED", "REFUNDED"}
  \/ /\ from = "REFUND_PENDING"
     /\ to \in {"PARTIALLY_REFUNDED", "REFUNDED", "PAYMENT_FAILED"}
  \/ from = "PARTIALLY_REFUNDED" /\ to = "REFUNDED"

SessionMoveOK_NoRecovery(from, to, evidence) ==   \* mutant: FAILED has no way back
  from = to \/ AllowedSessionMove(from, to)

\* validate_payment_session_transition
SessionMoveOK(from, to, evidence) ==
  \/ from = to
  \/ from = "FAILED" /\ to \in {"PAID", "CAPTURED"} /\ evidence
  \/ AllowedSessionMove(from, to)

\* validate_order_payment_transition
PaymentMoveOK(from, to, evidence) ==
  \/ from = to
  \/ from = "PAYMENT_FAILED" /\ to = "PAID" /\ evidence
  \/ AllowedPaymentMove(from, to)

-----------------------------------------------------------------------------

OrderStatuses ==
  {"PENDING_PAYMENT", "PAYMENT_CONFIRMED", "ORDER_CONFIRMED", "PLACED", "CONFIRMED",
   "PROCESSING", "ALLOCATED", "PICKING", "PACKED", "READY_TO_DISPATCH", "SHIPPED",
   "OUT_FOR_DELIVERY", "DELIVERED", "CANCELLED"}

\* CANCELLABLE_STATUSES (customer) and ADMIN_CANCELLABLE_STATUSES.
CustomerCancellable ==
  {"PENDING_PAYMENT", "PLACED", "PAYMENT_CONFIRMED", "ORDER_CONFIRMED", "CONFIRMED",
   "PROCESSING", "ALLOCATED", "PICKING"}
AdminCancellable == CustomerCancellable \cup {"PACKED", "READY_TO_DISPATCH"}

\* _can_transition over ORDER_TRANSITIONS.
CanTransition(from, to) ==
  \/ from = "PENDING_PAYMENT"   /\ to \in {"PAYMENT_CONFIRMED", "CANCELLED"}
  \/ from = "PAYMENT_CONFIRMED" /\ to = "ORDER_CONFIRMED"
  \/ from = "PLACED"            /\ to \in {"ORDER_CONFIRMED", "ALLOCATED", "CANCELLED"}
  \/ /\ from \in {"ORDER_CONFIRMED", "CONFIRMED", "PROCESSING"}
     /\ to \in {"ALLOCATED", "CANCELLED"}
  \/ from = "ALLOCATED"         /\ to \in {"PICKING", "CANCELLED"}
  \/ from = "PICKING"           /\ to = "PACKED"
  \/ from = "PACKED"            /\ to = "READY_TO_DISPATCH"
  \/ from = "READY_TO_DISPATCH" /\ to = "SHIPPED"
  \/ from = "SHIPPED"           /\ to = "OUT_FOR_DELIVERY"
  \/ from = "OUT_FOR_DELIVERY"  /\ to = "DELIVERED"
=============================================================================
