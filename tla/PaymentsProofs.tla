--------------------------- MODULE PaymentsProofs ---------------------------
(***************************************************************************)
(* Theorems about Payments, for any sessions, requests, amounts and keys:  *)
(* its types, the inductive invariant that relates our books to            *)
(* Razorpay's, that Payments implements PaymentPromise, and what holds     *)
(* when requests are served one at a time.                                 *)
(***************************************************************************)
EXTENDS Payments, FiniteSetTheorems, TLAPS

-----------------------------------------------------------------------------
(* Type correctness.                                                       *)

\* The initial records and the helpers that compute statuses are well typed.
LEMMA ConstantsTyped ==
  /\ Idle \in Request
  /\ Absent \in SessionRow
  /\ \A n \in Nat : RefundStatus(n) \in PaymentStatuses \cap SessionStatuses
BY NamesAssumption
   DEF Idle, Request, Ops, Absent, SessionRow, RefundStatus, OrderStatuses,
       PaymentStatuses, SessionStatuses

\* The program starts in a state of the declared types.
LEMMA InitTyped == Init => TypeOK
BY ConstantsTyped
   DEF Init, TypeOK, OrderStatuses, PaymentStatuses, RazorpayOrder

\* A refund Razorpay accepts is a positive amount within the order's total
\* and leaves its books well typed (out of Sessions nothing changes).
LEMMA RefundedTyped ==
  ASSUME rzp \in [Sessions -> RazorpayOrder],
         NEW s \in Sessions \cup {NoSession}, NEW a \in Nat, Refundable(s, a)
  PROVE  AfterRefund(s, a) \in [Sessions -> RazorpayOrder]
<1>1. CASE s \in Sessions
  <2>1. rzp[s] \in RazorpayOrder
    BY <1>1
  <2>2. rzp[s].refunded \in Nat /\ rzp[s].captured \in 0..Amount
    <3>1. rzp[s].captured \in {0} \cup CapturedAmounts /\ rzp[s].refunded \in Nat
      BY <2>1 DEF RazorpayOrder
    <3>2. \A c \in CapturedAmounts : c \in 1..Amount
      BY CapturedAssumption
    <3>3. \A c \in {0} \cup CapturedAmounts : c \in 0..Amount
      BY <3>2, AmountAssumption
    <3> QED
      BY <3>1, <3>3
  <2>3. rzp[s].refunded + a \in Nat /\ a \in 1..Amount
    BY <2>2, AmountAssumption DEF Refundable
  <2>4. rzp[s].events \cup {a} \in SUBSET (1..Amount)
    BY <2>1, <2>3 DEF RazorpayOrder
  <2>5. [rzp[s] EXCEPT !.refunded = @ + a, !.events = @ \cup {a}] \in RazorpayOrder
    BY <2>1, <2>3, <2>4 DEF RazorpayOrder
  <2>6. AfterRefund(s, a) =
          [rzp EXCEPT ![s] = [rzp[s] EXCEPT !.refunded = @ + a, !.events = @ \cup {a}]]
    BY <1>1, <2>1 DEF AfterRefund, RazorpayOrder
  <2> QED
    BY <2>5, <2>6
<1>2. CASE s \notin Sessions
  BY <1>2 DEF AfterRefund
<1> QED
  BY <1>1, <1>2

\* Every transition of a request keeps the types.
LEMMA RequestTyped ==
  ASSUME TypeOK, NEW r \in Reqs, RequestStep(r)
  PROVE  TypeOK'
<1>0. req[r] \in Request
  BY DEF TypeOK
<1>1. ASSUME CreateRead(r) PROVE TypeOK'
  BY <1>0, <1>1 DEF TypeOK, CreateRead, Request, Ops
<1>2. ASSUME CreateCheckActive(r) PROVE TypeOK'
  BY <1>0, <1>2, ConstantsTyped DEF TypeOK, CreateCheckActive, Request, Ops
<1>3. ASSUME NEW s \in Sessions, CreateRazorpayOrder(r, s) PROVE TypeOK'
  <2>1. rzp' \in [Sessions -> RazorpayOrder]
    BY <1>3 DEF TypeOK, CreateRazorpayOrder, RazorpayOrder
  <2>2. req' \in [Reqs -> Request]
    BY <1>0, <1>3 DEF TypeOK, CreateRazorpayOrder, Request, Ops
  <2> QED
    BY <1>3, <2>1, <2>2 DEF TypeOK, CreateRazorpayOrder
<1>4. ASSUME CreateInsert(r) PROVE TypeOK'
  BY <1>0, <1>4, ConstantsTyped DEF TypeOK, CreateInsert, SessionRow, SessionStatuses
<1>5. ASSUME NEW s \in Sessions, CancelSessionRead(r, s) PROVE TypeOK'
  BY <1>0, <1>5 DEF TypeOK, CancelSessionRead, Request, Ops
<1>6. ASSUME CancelSessionWrite(r) PROVE TypeOK'
  <2>1. \A s \in Sessions : [sess[s] EXCEPT !.status = "CANCELLED"] \in SessionRow
    BY DEF TypeOK, SessionRow, SessionStatuses
  <2> QED
    BY <1>6, <2>1, ConstantsTyped DEF TypeOK, CancelSessionWrite
<1>7. ASSUME CancelOrderRead(r) PROVE TypeOK'
  <2>1. Unpaid \in BOOLEAN
    BY DEF Unpaid
  <2> QED
    BY <1>0, <1>7, <2>1 DEF TypeOK, CancelOrderRead, Request, Ops
<1>8. ASSUME CancelOrderReadSessions(r) PROVE TypeOK'
  BY <1>0, <1>8 DEF TypeOK, CancelOrderReadSessions, Request, Ops
<1>9. ASSUME CancelOrderWrite(r) PROVE TypeOK'
  <2>1. \A s \in Sessions : [sess[s] EXCEPT !.status = "CANCELLED"] \in SessionRow
    BY DEF TypeOK, SessionRow, SessionStatuses
  <2>2. sess' \in [Sessions -> SessionRow]
    BY <1>9, <2>1 DEF TypeOK, CancelOrderWrite
  <2>3. req' \in [Reqs -> Request] /\ released' \in Nat
    BY <1>9, ConstantsTyped DEF TypeOK, CancelOrderWrite
  <2> QED
    BY <1>9, <2>2, <2>3 DEF TypeOK, CancelOrderWrite, OrderStatuses
<1>10. ASSUME NEW to \in StageTargets, StageRead(r, to) PROVE TypeOK'
  BY <1>0, <1>10, TargetsAssumption DEF TypeOK, StageRead, Request, Ops
<1>11. ASSUME NEW to \in ForceTargets, ForceRead(r, to) PROVE TypeOK'
  BY <1>0, <1>11, TargetsAssumption DEF TypeOK, ForceRead, Request, Ops
<1>12. ASSUME SetStatusWrite(r) PROVE TypeOK'
  BY <1>0, <1>12, ConstantsTyped DEF TypeOK, SetStatusWrite, Request
<1>13. ASSUME NEW s \in Sessions, NEW a \in 1..Amount, NEW k \in Keys \cup {NoKey},
              RefundRead(r, s, a, k)
       PROVE  TypeOK'
  <2>1. a \in Nat
    BY AmountAssumption
  <2>2. req' \in [Reqs -> Request]
    BY <1>0, <1>13, <2>1 DEF TypeOK, RefundRead, Request, Ops
  <2> QED
    BY <1>13, <2>2 DEF TypeOK, RefundRead
<1>14. ASSUME RefundGateway(r) PROVE TypeOK'
  <2>1. rzp' \in [Sessions -> RazorpayOrder]
    BY <1>0, <1>14, RefundedTyped DEF TypeOK, RefundGateway, Request
  <2>2. req' \in [Reqs -> Request]
    BY <1>0, <1>14 DEF TypeOK, RefundGateway, Request, Ops
  <2> QED
    BY <1>14, <2>1, <2>2 DEF TypeOK, RefundGateway
<1>15. ASSUME RefundWrite(r) PROVE TypeOK'
  <2> DEFINE s == req[r].sid
             total == sess[s].refunded + req[r].amount
  <2>1. s \in Sessions => total \in Nat
    BY <1>0 DEF TypeOK, Request, SessionRow
  <2>2. sess' \in [Sessions -> SessionRow]
    <3>1. CASE s \in Sessions
      <4>1. RefundStatus(total) \in SessionStatuses /\ sess[s] \in SessionRow
        BY <2>1, <3>1, ConstantsTyped DEF TypeOK
      <4>2. (IF req[r].key = NoKey THEN sess[s].refundKey ELSE req[r].key) \in Keys \cup {NoKey}
        BY <1>0, <4>1 DEF Request, SessionRow
      <4> QED
        BY <1>15, <2>1, <3>1, <4>1, <4>2 DEF TypeOK, RefundWrite, SessionRow
    <3>2. CASE s \notin Sessions
      BY <1>15, <3>2 DEF TypeOK, RefundWrite
    <3> QED
      BY <3>1, <3>2
  <2>3. paymentStatus' \in PaymentStatuses
    BY <1>15 DEF TypeOK, RefundWrite, OrderFollows, RefundStatus, PaymentStatuses
  <2>4. req' \in [Reqs -> Request]
    BY <1>15, ConstantsTyped DEF TypeOK, RefundWrite
  <2> QED
    BY <1>15, <2>2, <2>3, <2>4 DEF TypeOK, RefundWrite
<1>16. ASSUME Abort(r) PROVE TypeOK'
  BY <1>16, ConstantsTyped DEF TypeOK, Abort
<1> QED
  BY <1>1, <1>2, <1>3, <1>4, <1>5, <1>6, <1>7, <1>8, <1>9, <1>10, <1>11, <1>12,
     <1>13, <1>14, <1>15, <1>16 DEF RequestStep, CreatePaymentSession, CancelPaymentSession, CancelOrder,
       SetOrderStatus, RefundPaymentSession

\* What Razorpay does on its side keeps the types.
LEMMA RazorpayTyped ==
  ASSUME TypeOK, NEW s \in Sessions, RazorpayStep(s)
  PROVE  TypeOK'
<1>1. ASSUME AttemptFails(s) PROVE TypeOK'
  <2>1. [rzp[s] EXCEPT !.failed = TRUE] \in RazorpayOrder
    BY DEF TypeOK, RazorpayOrder
  <2> QED
    BY <1>1, <2>1 DEF TypeOK, AttemptFails
<1>2. ASSUME NEW a \in CapturedAmounts, Capture(s, a) PROVE TypeOK'
  BY <1>2 DEF TypeOK, Capture, RazorpayOrder
<1>3. ASSUME NEW a \in 1..Amount, DashboardRefund(s, a) PROVE TypeOK'
  BY <1>3, AmountAssumption, RefundedTyped DEF TypeOK, DashboardRefund
<1> QED
  BY <1>1, <1>2, <1>3 DEF RazorpayStep

\* The handlers that run under the row locks keep the types.
LEMMA LockedTyped ==
  ASSUME TypeOK, NEW s \in Sessions, LockedStep(s)
  PROVE  TypeOK'
<1> USE DEF TypeOK, SessionRow
<1>0. ConfirmOrderPaid => orderStatus' \in OrderStatuses /\ paymentStatus' \in PaymentStatuses
  BY DEF ConfirmOrderPaid, OrderStatuses, PaymentStatuses
<1>1. \A w \in BOOLEAN : MarkPaid(s, w) => sess' \in [Sessions -> SessionRow]
  <2>1. ASSUME NEW w \in BOOLEAN, MarkPaid(s, w) PROVE sess' \in [Sessions -> SessionRow]
    <3>1. sess[s] \in SessionRow
      OBVIOUS
    <3>2. [sess[s] EXCEPT !.status = "PAID", !.paid = IF w THEN TRUE ELSE @,
                          !.refundKey = NoKey] \in SessionRow
      BY <3>1 DEF SessionStatuses
    <3>3. sess' = [sess EXCEPT ![s] = [sess[s] EXCEPT !.status = "PAID",
                                         !.paid = IF w THEN TRUE ELSE @, !.refundKey = NoKey]]
      BY <2>1, <3>1 DEF MarkPaid
    <3> QED
      BY <3>2, <3>3
  <2> QED
    BY <2>1
<1>12. [sess[s] EXCEPT !.status = "FAILED", !.refundKey = NoKey] \in SessionRow
  BY DEF SessionStatuses
<1>2. ASSUME NEW f \in BOOLEAN, VerifyPayment(s, f) PROVE TypeOK'
  <2>1. [sess[s] EXCEPT !.status = "PAID", !.paid = TRUE] \in SessionRow
    BY DEF SessionStatuses
  <2>2. sess' \in [Sessions -> SessionRow]
    BY <1>2, <2>1 DEF VerifyPayment
  <2> QED
    BY <1>0, <1>2, <2>2 DEF VerifyPayment
<1>3. ASSUME VerifyReplay(s) PROVE TypeOK'
  BY <1>0, <1>3 DEF VerifyReplay
<1>4. ASSUME WebhookCaptured(s) PROVE TypeOK'
  BY <1>0, <1>1, <1>4 DEF WebhookCaptured
<1>5. ASSUME WebhookCapturedMismatch(s) PROVE TypeOK'
  <2>1. sess' \in [Sessions -> SessionRow]
    BY <1>5, <1>12 DEF WebhookCapturedMismatch
  <2> QED
    BY <1>5, <2>1 DEF WebhookCapturedMismatch
<1>6. ASSUME WebhookFailed(s) PROVE TypeOK'
  <2>1. sess' \in [Sessions -> SessionRow]
    BY <1>6, <1>12 DEF WebhookFailed
  <2> QED
    BY <1>6, <2>1 DEF WebhookFailed, PaymentStatuses
<1>7. ASSUME WebhookOrderPaid(s) PROVE TypeOK'
  BY <1>0, <1>1, <1>7 DEF WebhookOrderPaid
<1>8. ASSUME NEW a \in 1..Amount, WebhookRefund(s, a) PROVE TypeOK'
  <2> DEFINE total == IF a > sess[s].refunded THEN a ELSE sess[s].refunded
  <2>1. total \in Nat
    BY AmountAssumption
  <2>2. RefundStatus(total) \in PaymentStatuses \cap SessionStatuses
    BY <2>1, ConstantsTyped
  <2>3. sess' \in [Sessions -> SessionRow]
    <3>1. [sess[s] EXCEPT !.status = RefundStatus(total), !.refunded = total,
                          !.refundKey = NoKey] \in SessionRow
      BY <2>1, <2>2
    <3> QED
      BY <1>8, <3>1 DEF WebhookRefund
  <2>4. paymentStatus' \in PaymentStatuses
    BY <1>8, <2>2 DEF WebhookRefund, OrderFollows
  <2> QED
    BY <1>8, <2>3, <2>4 DEF WebhookRefund
<1>9. ASSUME Reconcile(s) PROVE TypeOK'
  BY <1>0, <1>1, <1>9 DEF Reconcile
<1>10. ASSUME AuditCaptured(s) PROVE TypeOK'
  BY <1>0, <1>1, <1>10 DEF AuditCaptured
<1>11. ASSUME AuditRefunded(s) PROVE TypeOK'
  <2>1. sess' \in [Sessions -> SessionRow]
    <3>1. [sess[s] EXCEPT !.status = "REFUNDED", !.refunded = Amount, !.refundKey = NoKey]
            \in SessionRow
      BY AmountAssumption DEF SessionStatuses
    <3> QED
      BY <1>11, <3>1 DEF AuditRefunded
  <2>2. paymentStatus' \in PaymentStatuses
    BY <1>11 DEF AuditRefunded, PaymentStatuses
  <2> QED
    BY <1>11, <2>1, <2>2 DEF AuditRefunded
<1> QED
  BY <1>2, <1>3, <1>4, <1>5, <1>6, <1>7, <1>8, <1>9, <1>10, <1>11 DEF LockedStep, VerifyCallback, RazorpayWebhook, ReconcileBatch

\* Type correctness: every reachable state has the declared types.
THEOREM TypeCorrect == Spec => []TypeOK
<1>1. TypeOK /\ [Next]_vars => TypeOK'
  <2>1. ASSUME TypeOK, Next PROVE TypeOK'
    BY <2>1, RequestTyped, RazorpayTyped, LockedTyped DEF Next
  <2>2. ASSUME TypeOK, UNCHANGED vars PROVE TypeOK'
    BY <2>2 DEF TypeOK, vars
  <2> QED
    BY <2>1, <2>2
<1> QED
  BY InitTyped, <1>1, PTL DEF Spec

-----------------------------------------------------------------------------
(* Safety: IndInv is inductive, and what the runs check follows.           *)

\* Payment amounts are numbers the order's total bounds.
LEMMA CapturedNat ==
  ASSUME TypeOK, NEW s \in Sessions
  PROVE  /\ rzp[s] \in RazorpayOrder /\ sess[s] \in SessionRow
         /\ rzp[s].captured \in 0..Amount /\ rzp[s].captured \in Nat
         /\ rzp[s].refunded \in Nat /\ sess[s].refunded \in Nat
<1>1. rzp[s] \in RazorpayOrder /\ sess[s] \in SessionRow
  BY DEF TypeOK
<1>2. \A c \in CapturedAmounts : c \in 1..Amount
  BY CapturedAssumption
<1>3. \A c \in {0} \cup CapturedAmounts : c \in 0..Amount /\ c \in Nat
  BY <1>2, AmountAssumption
<1>4. rzp[s].captured \in {0} \cup CapturedAmounts
  BY <1>1 DEF RazorpayOrder
<1> QED
  BY <1>1, <1>3, <1>4 DEF RazorpayOrder, SessionRow

\* Razorpay's books of one payment only grow, a capture is final, and a
\* payment that was paid back in full stays so.
MoneyGrows(s) ==
  /\ rzp'[s].refunded >= rzp[s].refunded
  /\ rzp[s].captured > 0 => rzp'[s].captured = rzp[s].captured
  /\ PaidBackInFull(s) => PaidBackInFull(s)'

\* A refund Razorpay accepts keeps its books in order.
LEMMA RefundMoney ==
  ASSUME TypeOK, MoneyBounded, NEW s \in Sessions, NEW a \in Nat,
         Refundable(s, a), rzp' = AfterRefund(s, a)
  PROVE  MoneyBounded' /\ \A t \in Sessions : MoneyGrows(t)
<1>1. \A t \in Sessions : t # s => rzp'[t] = rzp[t]
  BY DEF TypeOK, AfterRefund
<1>2. /\ rzp'[s].captured = rzp[s].captured
      /\ rzp'[s].refunded = rzp[s].refunded + a
      /\ rzp'[s].events = rzp[s].events \cup {a}
  BY CapturedNat DEF TypeOK, AfterRefund, RazorpayOrder
<1>3. \A e \in rzp[s].events : e \in Nat
  BY CapturedNat, AmountAssumption DEF RazorpayOrder
<1>4. MoneyBounded'
  BY <1>1, <1>2, <1>3, CapturedNat DEF MoneyBounded, Refundable
<1>5. \A t \in Sessions : MoneyGrows(t)
  BY <1>1, <1>2, CapturedNat DEF MoneyGrows, PaidBackInFull, Refundable
<1> QED
  BY <1>4, <1>5

\* Every step keeps Razorpay's books in order and only adds to them.
LEMMA MoneyStep ==
  ASSUME TypeOK, MoneyBounded, RefundInFlight, Next
  PROVE  MoneyBounded' /\ \A t \in Sessions : MoneyGrows(t)
<1>1. ASSUME UNCHANGED rzp PROVE MoneyBounded' /\ \A t \in Sessions : MoneyGrows(t)
  BY <1>1, CapturedNat DEF MoneyBounded, MoneyGrows, PaidBackInFull
<1>2. ASSUME NEW s \in Sessions, NEW r \in Reqs, CreateRazorpayOrder(r, s)
      PROVE  MoneyBounded' /\ \A t \in Sessions : MoneyGrows(t)
  <2>1. \A t \in Sessions : /\ rzp'[t].captured = rzp[t].captured
                            /\ rzp'[t].refunded = rzp[t].refunded
                            /\ rzp'[t].events = rzp[t].events
    BY <1>2 DEF CreateRazorpayOrder, TypeOK, RazorpayOrder
  <2> QED
    BY <2>1, CapturedNat DEF MoneyBounded, MoneyGrows, PaidBackInFull
<1>3. ASSUME NEW s \in Sessions, AttemptFails(s)
      PROVE  MoneyBounded' /\ \A t \in Sessions : MoneyGrows(t)
  <2>1. \A t \in Sessions : /\ rzp'[t].captured = rzp[t].captured
                            /\ rzp'[t].refunded = rzp[t].refunded
                            /\ rzp'[t].events = rzp[t].events
    BY <1>3 DEF AttemptFails, TypeOK, RazorpayOrder
  <2> QED
    BY <2>1, CapturedNat DEF MoneyBounded, MoneyGrows, PaidBackInFull
<1>4. ASSUME NEW s \in Sessions, NEW a \in CapturedAmounts, Capture(s, a)
      PROVE  MoneyBounded' /\ \A t \in Sessions : MoneyGrows(t)
  <2>1. \A t \in Sessions : /\ rzp'[t].captured = IF t = s THEN a ELSE rzp[t].captured
                            /\ rzp'[t].refunded = rzp[t].refunded
                            /\ rzp'[t].events = rzp[t].events
    BY <1>4 DEF Capture, TypeOK, RazorpayOrder
  <2>2. rzp[s].captured = 0 /\ a \in Nat
    BY <1>4, CapturedAssumption, AmountAssumption DEF Capture
  <2> QED
    BY <2>1, <2>2, CapturedNat DEF MoneyBounded, MoneyGrows, PaidBackInFull
<1>5. ASSUME NEW s \in Sessions, NEW a \in 1..Amount, DashboardRefund(s, a)
      PROVE  MoneyBounded' /\ \A t \in Sessions : MoneyGrows(t)
  BY <1>5, RefundMoney, AmountAssumption DEF DashboardRefund
<1>6. ASSUME NEW r \in Reqs, RefundGateway(r)
      PROVE  MoneyBounded' /\ \A t \in Sessions : MoneyGrows(t)
  BY <1>6, RefundMoney DEF RefundGateway, RefundInFlight, Refunding, TypeOK, Request
<1>7. ASSUME NEW r \in Reqs, RequestStep(r), ~RefundGateway(r),
             \A s \in Sessions : ~CreateRazorpayOrder(r, s)
      PROVE  UNCHANGED rzp
  BY <1>7 DEF RequestStep, CreatePaymentSession, CancelPaymentSession, CancelOrder,
       SetOrderStatus, RefundPaymentSession, CreateRead, CreateCheckActive, CreateInsert, CancelSessionRead,
     CancelSessionWrite, CancelOrderRead, CancelOrderReadSessions, CancelOrderWrite, StageRead,
     ForceRead, SetStatusWrite, RefundRead, RefundWrite, Abort
<1>8. ASSUME NEW s \in Sessions, LockedStep(s) PROVE UNCHANGED rzp
  BY <1>8 DEF LockedStep, VerifyCallback, RazorpayWebhook, ReconcileBatch, VerifyPayment, VerifyReplay, WebhookCaptured, WebhookCapturedMismatch,
     WebhookFailed, WebhookOrderPaid, WebhookRefund, Reconcile, AuditCaptured, AuditRefunded
<1> QED
  BY <1>1, <1>2, <1>3, <1>4, <1>5, <1>6, <1>7, <1>8 DEF Next, RazorpayStep

-----------------------------------------------------------------------------
(* How the parts of IndInv survive a step, by what the step does.          *)

\* The refunds a step leaves in flight stay covered and exclusive if it does
\* not raise the books of their sessions.
LEMMA RefundsKept ==
  ASSUME TypeOK, TypeOK', RefundInFlight, RefundsExclusive, \A t \in Sessions : MoneyGrows(t),
         \A q \in Reqs : Refunding(q)' =>
           /\ req'[q] = req[q]
           /\ sess'[req[q].sid].refunded <= sess[req[q].sid].refunded
  PROVE  RefundInFlight' /\ RefundsExclusive'
<1>1. ASSUME NEW q \in Reqs, Refunding(q)'
      PROVE  /\ req[q].sid \in Sessions /\ req[q].amount \in Nat /\ Refunding(q)
             /\ req'[q] = req[q]
  BY <1>1 DEF Refunding, RefundInFlight, TypeOK, Request
<1>2. ASSUME NEW q \in Reqs, Refunding(q)', req'[q].op = "refund_done"
      PROVE  \/ sess'[req[q].sid].refunded + req[q].amount <= rzp'[req[q].sid].refunded
             \/ PaidBackInFull(req[q].sid)'
  <2> DEFINE s == req[q].sid
  <2>1. s \in Sessions /\ req[q].amount \in Nat /\ req[q].op = "refund_done" /\ Refunding(q)
    BY <1>1, <1>2
  <2>2. /\ sess[s].refunded \in Nat /\ rzp[s].refunded \in Nat
        /\ sess'[s].refunded \in Nat /\ rzp'[s].refunded \in Nat
    BY <2>1 DEF TypeOK, SessionRow, RazorpayOrder
  <2>3. sess[s].refunded + req[q].amount <= rzp[s].refunded \/ PaidBackInFull(s)
    BY <2>1 DEF RefundInFlight
  <2>4. sess'[s].refunded <= sess[s].refunded /\ MoneyGrows(s)
    BY <1>2, <2>1
  <2> QED
    BY <2>1, <2>2, <2>3, <2>4 DEF MoneyGrows
<1>3. RefundInFlight'
  BY <1>1, <1>2 DEF RefundInFlight, Refunding
<1>4. RefundsExclusive'
  BY <1>1 DEF RefundsExclusive
<1> QED
  BY <1>3, <1>4

\* A step that settles no session and raises no booked refund.
LEMMA SessionsKept ==
  ASSUME TypeOK, TypeOK', PaidHasPayment, RefundsAreReal, \A t \in Sessions : MoneyGrows(t),
         \A t \in Sessions : /\ sess'[t].paid => sess[t].paid
                             /\ sess'[t].status \in Settled => sess[t].status \in Settled
                             /\ sess'[t].refunded <= sess[t].refunded
  PROVE  PaidHasPayment' /\ RefundsAreReal'
<1>1. \A t \in Sessions : /\ rzp[t].captured \in Nat /\ rzp[t].refunded \in Nat
                          /\ rzp'[t].refunded \in Nat
                          /\ sess[t].refunded \in Nat /\ sess'[t].refunded \in Nat
  BY CapturedNat DEF TypeOK, SessionRow, RazorpayOrder
<1>2. PaidHasPayment'
  BY <1>1 DEF PaidHasPayment, MoneyGrows
<1>3. RefundsAreReal'
  BY <1>1 DEF RefundsAreReal, MoneyGrows
<1> QED
  BY <1>2, <1>3

\* A step that touches one session only, for which money was captured, and
\* books no more for it than was paid back.
LEMMA SessionSettled ==
  ASSUME TypeOK, TypeOK', PaidHasPayment, RefundsAreReal, \A t \in Sessions : MoneyGrows(t),
         NEW s \in Sessions, rzp[s].captured > 0,
         \A t \in Sessions \ {s} : sess'[t] = sess[t],
         sess'[s].refunded <= rzp[s].refunded \/ PaidBackInFull(s)
  PROVE  PaidHasPayment' /\ RefundsAreReal'
<1>1. \A t \in Sessions : /\ rzp[t].captured \in Nat /\ rzp[t].refunded \in Nat
                          /\ rzp'[t].refunded \in Nat
                          /\ sess[t].refunded \in Nat /\ sess'[t].refunded \in Nat
  BY CapturedNat DEF TypeOK, SessionRow, RazorpayOrder
<1>2. PaidHasPayment'
  BY <1>1 DEF PaidHasPayment, MoneyGrows
<1>3. RefundsAreReal'
  BY <1>1 DEF RefundsAreReal, MoneyGrows
<1> QED
  BY <1>2, <1>3

\* The order's claim survives a step that leaves it alone, and one that moves
\* it although some payment was captured.
LEMMA ClaimKept ==
  ASSUME TypeOK, OrderClaim, \A t \in Sessions : MoneyGrows(t),
         \/ paymentStatus' = paymentStatus
         \/ /\ paymentStatus' \in Settled
            /\ \E t \in Sessions : rzp[t].captured > 0
         \/ paymentStatus' = "PAYMENT_FAILED"
  PROVE  OrderClaim'
<1>1. \A t \in Sessions : rzp[t].captured > 0 => rzp'[t].captured > 0
  BY CapturedNat DEF MoneyGrows
<1> QED
  BY <1>1 DEF OrderClaim, Settled

-----------------------------------------------------------------------------
(* IndInv is inductive.                                                    *)

Rest == PaidHasPayment /\ RefundsAreReal /\ RefundInFlight /\ RefundsExclusive /\ OrderClaim

\* The program starts with no money, no claims and nothing in flight.
LEMMA InitInv == Init => IndInv
<1> SUFFICES ASSUME Init PROVE IndInv
  OBVIOUS
<1>1. TypeOK
  BY InitTyped
<1>2. \A s \in Sessions : /\ rzp[s].captured = 0 /\ rzp[s].refunded = 0 /\ rzp[s].events = {}
                          /\ sess[s].paid = FALSE /\ sess[s].status = "ABSENT"
                          /\ sess[s].refunded = 0
  BY DEF Init, Absent
<1>3. \A r \in Reqs : ~Refunding(r)
  BY DEF Init, Idle, Refunding
<1> QED
  BY <1>1, <1>2, <1>3 DEF IndInv, Init, MoneyBounded, PaidHasPayment, Settled, RefundsAreReal,
     RefundInFlight, RefundsExclusive, OrderClaim

\* A lock that is free means that no refund is in flight on the session.
LEMMA FreeSession ==
  ASSUME NEW s \in Sessions, ~Locked(s), NEW q \in Reqs, Refunding(q)
  PROVE  req[q].sid # s
BY DEF Locked, Refunding

\* The handlers under the row locks preserve the invariant.
LEMMA LockedInv ==
  ASSUME IndInv, TypeOK', \A t \in Sessions : MoneyGrows(t), NEW s \in Sessions, LockedStep(s)
  PROVE  Rest'
<1> USE DEF IndInv
<1>0. sess[s] \in SessionRow /\ sess \in [Sessions -> SessionRow]
  BY DEF TypeOK
<1>1. /\ UNCHANGED <<rzp, req>>
      /\ \A t \in Sessions \ {s} : sess'[t] = sess[t]
      /\ sess' # sess => ~Locked(s)
  BY <1>0 DEF LockedStep, VerifyCallback, RazorpayWebhook, ReconcileBatch, VerifyPayment, VerifyReplay, WebhookCaptured, WebhookCapturedMismatch,
     WebhookFailed, WebhookOrderPaid, WebhookRefund, Reconcile, AuditCaptured, AuditRefunded,
     MarkPaid, TypeOK
<1>2. RefundInFlight' /\ RefundsExclusive'
  <2>1. \A q \in Reqs : Refunding(q)' => Refunding(q) /\ req'[q] = req[q]
    BY <1>1 DEF Refunding
  <2>2. ASSUME NEW q \in Reqs, Refunding(q)
        PROVE  sess'[req[q].sid].refunded <= sess[req[q].sid].refunded
    <3>1. req[q].sid \in Sessions /\ sess[req[q].sid].refunded \in Nat
      BY <2>2, CapturedNat DEF RefundInFlight
    <3>2. sess'[req[q].sid] = sess[req[q].sid]
      BY <1>1, <2>2, <3>1, FreeSession
    <3> QED
      BY <3>1, <3>2
  <2> QED
    BY <2>1, <2>2, RefundsKept
<1>3. /\ rzp[s].captured \in Nat /\ rzp[s].refunded \in Nat /\ sess[s].refunded \in Nat
      /\ sess[s].refunded <= rzp[s].refunded \/ PaidBackInFull(s)
      /\ sess[s].paid \/ sess[s].status \in Settled => rzp[s].captured > 0
      /\ \A e \in rzp[s].events : e <= rzp[s].refunded
  BY CapturedNat DEF RefundsAreReal, PaidHasPayment, MoneyBounded
<1>4. \A w \in BOOLEAN : MarkPaid(s, w) => sess'[s].refunded = sess[s].refunded
  BY <1>0 DEF MarkPaid, SessionRow
<1>5. ConfirmOrderPaid /\ rzp[s].captured > 0 => OrderClaim'
  BY ClaimKept DEF ConfirmOrderPaid, Settled
<1>6. rzp[s].captured > 0 /\ sess'[s].refunded = sess[s].refunded
        => PaidHasPayment' /\ RefundsAreReal'
  BY <1>1, <1>3, SessionSettled
<1>7. UNCHANGED sess => PaidHasPayment' /\ RefundsAreReal'
  BY <1>1 DEF PaidHasPayment, RefundsAreReal, PaidBackInFull
<1>8. sess'[s].status = "FAILED" /\ sess'[s].paid = sess[s].paid
        /\ sess'[s].refunded = sess[s].refunded
        => PaidHasPayment' /\ RefundsAreReal'
  BY <1>1 DEF PaidHasPayment, RefundsAreReal, PaidBackInFull, Settled
<1>9. rzp[s].captured = Amount => rzp[s].captured > 0
  BY AmountAssumption
<1>10. ASSUME NEW f \in BOOLEAN, VerifyPayment(s, f) PROVE Rest'
  <2>1. sess'[s].refunded = sess[s].refunded
    BY <1>0, <1>10 DEF VerifyPayment, SessionRow
  <2> QED
    BY <1>2, <1>5, <1>6, <1>10, <2>1 DEF VerifyPayment, Rest
<1>11. ASSUME VerifyReplay(s) PROVE Rest'
  BY <1>2, <1>3, <1>5, <1>7, <1>11 DEF VerifyReplay, Rest, Settled
<1>12. ASSUME WebhookCaptured(s) PROVE Rest'
  BY <1>2, <1>4, <1>5, <1>6, <1>9, <1>12 DEF WebhookCaptured, Rest
<1>13. ASSUME WebhookCapturedMismatch(s) PROVE Rest'
  <2>1. /\ sess'[s].status = "FAILED" /\ sess'[s].paid = sess[s].paid
        /\ sess'[s].refunded = sess[s].refunded
    BY <1>0, <1>13 DEF WebhookCapturedMismatch, SessionRow
  <2> QED
    BY <1>2, <1>8, <1>13, <2>1, ClaimKept DEF WebhookCapturedMismatch, Rest
<1>14. ASSUME WebhookFailed(s) PROVE Rest'
  <2>1. /\ sess'[s].status = "FAILED" /\ sess'[s].paid = sess[s].paid
        /\ sess'[s].refunded = sess[s].refunded
    BY <1>0, <1>14 DEF WebhookFailed, SessionRow
  <2> QED
    BY <1>2, <1>8, <1>14, <2>1, ClaimKept DEF WebhookFailed, Rest
<1>15. ASSUME WebhookOrderPaid(s) PROVE Rest'
  BY <1>2, <1>4, <1>5, <1>6, <1>9, <1>15 DEF WebhookOrderPaid, Rest
<1>16. ASSUME NEW a \in 1..Amount, WebhookRefund(s, a) PROVE Rest'
  <2> DEFINE total == IF a > sess[s].refunded THEN a ELSE sess[s].refunded
  <2>1. rzp[s].captured > 0 /\ a <= rzp[s].refunded
    BY <1>3, <1>16 DEF WebhookRefund
  <2>2. sess'[s].refunded \in {total, sess[s].refunded}
    BY <1>0, <1>16 DEF WebhookRefund, SessionRow
  <2>3. sess'[s].refunded <= rzp[s].refunded \/ PaidBackInFull(s)
    BY <1>3, <2>1, <2>2
  <2>4. paymentStatus' = paymentStatus \/ paymentStatus' \in Settled
    BY <1>16 DEF WebhookRefund, OrderFollows, RefundStatus, Settled
  <2> QED
    BY <1>1, <1>2, <2>1, <2>3, <2>4, SessionSettled, ClaimKept DEF Rest
<1>17. ASSUME Reconcile(s) PROVE Rest'
  BY <1>2, <1>4, <1>5, <1>6, <1>9, <1>17 DEF Reconcile, Rest
<1>18. ASSUME AuditCaptured(s) PROVE Rest'
  <2>1. OrderClaim'
    BY <1>5, <1>9, <1>18, ClaimKept DEF AuditCaptured
  <2> QED
    BY <1>2, <1>4, <1>6, <1>9, <1>18, <2>1 DEF AuditCaptured, Rest
<1>19. ASSUME AuditRefunded(s) PROVE Rest'
  <2>1. rzp[s].captured > 0 /\ PaidBackInFull(s)
    BY <1>19 DEF AuditRefunded, ListedRefunded, PaidBackInFull
  <2>2. paymentStatus' = paymentStatus \/ paymentStatus' \in Settled
    BY <1>19 DEF AuditRefunded, Settled
  <2> QED
    BY <1>1, <1>2, <2>1, <2>2, SessionSettled, ClaimKept DEF Rest
<1> QED
  BY <1>10, <1>11, <1>12, <1>13, <1>14, <1>15, <1>16, <1>17, <1>18, <1>19 DEF LockedStep, VerifyCallback, RazorpayWebhook, ReconcileBatch

\* What happens at Razorpay preserves the invariant.
LEMMA RazorpayInv ==
  ASSUME IndInv, TypeOK', \A t \in Sessions : MoneyGrows(t), NEW s \in Sessions, RazorpayStep(s)
  PROVE  Rest'
<1> USE DEF IndInv
<1>1. UNCHANGED <<sess, req, paymentStatus>>
  BY DEF RazorpayStep, AttemptFails, Capture, DashboardRefund
<1>2. \A t \in Sessions : sess[t].refunded \in Nat
  BY CapturedNat
<1>3. RefundInFlight' /\ RefundsExclusive'
  BY <1>1, <1>2, RefundsKept DEF Refunding, RefundInFlight
<1>4. PaidHasPayment' /\ RefundsAreReal'
  BY <1>1, <1>2, SessionsKept
<1> QED
  BY <1>1, <1>3, <1>4, ClaimKept DEF Rest

\* The steps of requests preserve the invariant.
LEMMA RequestInv ==
  ASSUME IndInv, TypeOK', \A t \in Sessions : MoneyGrows(t), NEW r \in Reqs, RequestStep(r)
  PROVE  Rest'
<1> USE DEF IndInv
<1>0. /\ req[r] \in Request /\ req \in [Reqs -> Request]
      /\ sess \in [Sessions -> SessionRow]
      /\ \A t \in Sessions : sess[t].refunded \in Nat /\ sess[t] \in SessionRow
  BY CapturedNat DEF TypeOK
<1>1. ASSUME \A q \in Reqs \ {r} : req'[q] = req[q], ~Refunding(r)',
             \A t \in Sessions : /\ sess'[t].paid => sess[t].paid
                                 /\ sess'[t].status \in Settled => sess[t].status \in Settled
                                 /\ sess'[t].refunded <= sess[t].refunded,
             UNCHANGED paymentStatus
      PROVE  Rest'
  <2>1. \A q \in Reqs : Refunding(q)' => q # r /\ Refunding(q) /\ req'[q] = req[q]
    BY <1>1 DEF Refunding
  <2>2. RefundInFlight' /\ RefundsExclusive'
    BY <1>1, <2>1, RefundsKept DEF RefundInFlight
  <2> QED
    BY <1>1, <2>2, SessionsKept, ClaimKept DEF Rest
<1>2. ASSUME UNCHANGED <<sess, paymentStatus>>,
             \A q \in Reqs \ {r} : req'[q] = req[q], ~Refunding(r)'
      PROVE  Rest'
  BY <1>0, <1>1, <1>2
<1>3. ASSUME \/ CreateRead(r) \/ CreateCheckActive(r) \/ Abort(r) \/ SetStatusWrite(r)
             \/ CancelOrderRead(r) \/ CancelOrderReadSessions(r)
             \/ \E s \in Sessions : CreateRazorpayOrder(r, s) \/ CancelSessionRead(r, s)
             \/ \E to \in StageTargets \cup ForceTargets : StageRead(r, to) \/ ForceRead(r, to)
      PROVE  Rest'
  BY <1>0, <1>2, <1>3 DEF CreateRead, CreateCheckActive, Abort, SetStatusWrite, CancelOrderRead,
     CancelOrderReadSessions, CreateRazorpayOrder, CancelSessionRead, StageRead, ForceRead,
     Refunding, Idle, Request
<1>4. ASSUME CreateInsert(r) PROVE Rest'
  <2>1. \A q \in Reqs \ {r} : req'[q] = req[q]
    BY <1>0, <1>4 DEF CreateInsert
  <2>2. ~Refunding(r)'
    BY <1>0, <1>4 DEF CreateInsert, Refunding, Idle
  <2>3. \A t \in Sessions : sess'[t] = sess[t] \/ sess'[t] = [Absent EXCEPT !.status = "CREATED"]
    BY <1>0, <1>4 DEF CreateInsert
  <2>4. \A t \in Sessions : /\ sess'[t].paid => sess[t].paid
                            /\ sess'[t].status \in Settled => sess[t].status \in Settled
                            /\ sess'[t].refunded <= sess[t].refunded
    BY <1>0, <2>3 DEF Absent, Settled
  <2> QED
    BY <1>1, <1>4, <2>1, <2>2, <2>4 DEF CreateInsert
<1>5. ASSUME CancelSessionWrite(r) \/ CancelOrderWrite(r) PROVE Rest'
  <2>1. \A q \in Reqs \ {r} : req'[q] = req[q]
    BY <1>0, <1>5 DEF CancelSessionWrite, CancelOrderWrite
  <2>2. ~Refunding(r)'
    BY <1>0, <1>5 DEF CancelSessionWrite, CancelOrderWrite, Refunding, Idle
  <2>3. \A t \in Sessions :
          sess'[t] = sess[t] \/ sess'[t] = [sess[t] EXCEPT !.status = "CANCELLED"]
    BY <1>0, <1>5 DEF CancelSessionWrite, CancelOrderWrite
  <2>4. \A t \in Sessions : /\ sess'[t].paid => sess[t].paid
                            /\ sess'[t].status \in Settled => sess[t].status \in Settled
                            /\ sess'[t].refunded <= sess[t].refunded
    <3>1. \A t \in Sessions : /\ sess'[t].paid = sess[t].paid
                              /\ sess'[t].status \in {sess[t].status, "CANCELLED"}
                              /\ sess'[t].refunded = sess[t].refunded
      BY <1>0, <2>3 DEF SessionRow
    <3> QED
      BY <1>0, <3>1 DEF Settled
  <2> QED
    BY <1>1, <1>5, <2>1, <2>2, <2>4 DEF CancelSessionWrite, CancelOrderWrite
<1>6. ASSUME NEW s \in Sessions, NEW a \in 1..Amount, NEW k \in Keys \cup {NoKey},
             RefundRead(r, s, a, k)
      PROVE  Rest'
  <2>1. /\ req'[r].op = "refund" /\ req'[r].sid = s /\ req'[r].amount = a
        /\ \A q \in Reqs \ {r} : req'[q] = req[q]
        /\ UNCHANGED <<sess, rzp, paymentStatus>>
    BY <1>0, <1>6 DEF RefundRead, Request
  <2>2. \A q \in Reqs : Refunding(q) => req[q].sid # s
    BY <1>6, FreeSession DEF RefundRead
  <2>3. RefundInFlight'
    BY <1>0, <1>6, <2>1, AmountAssumption DEF RefundInFlight, Refunding, PaidBackInFull
  <2>4. RefundsExclusive'
    BY <2>1, <2>2 DEF RefundsExclusive, Refunding
  <2> QED
    BY <1>0, <2>1, <2>3, <2>4, SessionsKept, ClaimKept DEF Rest
<1>7. ASSUME RefundGateway(r) PROVE Rest'
  <2> DEFINE s == req[r].sid
             a == req[r].amount
  <2>1. s \in Sessions /\ a \in Nat /\ a > 0
    BY <1>0, <1>7 DEF RefundGateway, RefundInFlight, Refunding, Request
  <2>2. /\ req'[r] = [req[r] EXCEPT !.op = "refund_done"]
        /\ \A q \in Reqs \ {r} : req'[q] = req[q]
        /\ UNCHANGED <<sess, paymentStatus>>
    BY <1>0, <1>7 DEF RefundGateway
  <2>3. req'[r].sid = s /\ req'[r].amount = a /\ Refunding(r)
    BY <1>0, <1>7, <2>2 DEF Request, RefundGateway, Refunding
  <2>4. rzp'[s].refunded = rzp[s].refunded + a /\ rzp[s].refunded < rzp[s].captured
    <3>1. rzp \in [Sessions -> RazorpayOrder] /\ rzp[s] \in RazorpayOrder
      BY <2>1 DEF TypeOK
    <3>2. rzp' = AfterRefund(s, a) /\ a <= rzp[s].captured - rzp[s].refunded
      BY <1>7 DEF RefundGateway, Refundable
    <3>3. rzp'[s] = [rzp[s] EXCEPT !.refunded = @ + a, !.events = @ \cup {a}]
      BY <2>1, <3>1, <3>2 DEF AfterRefund
    <3>4. rzp'[s].refunded = rzp[s].refunded + a
      BY <3>1, <3>3 DEF RazorpayOrder
    <3> HIDE DEF a, s
    <3> QED
      BY <2>1, <3>2, <3>4, CapturedNat
  <2>5. sess[s].refunded <= rzp[s].refunded
    BY <2>1, <2>4, CapturedNat DEF RefundsAreReal, PaidBackInFull
  <2>6. RefundInFlight'
    <3> SUFFICES ASSUME NEW q \in Reqs, Refunding(q)'
                 PROVE  /\ req'[q].sid \in Sessions /\ req'[q].amount > 0
                        /\ req'[q].op = "refund_done" =>
                             \/ sess'[req'[q].sid].refunded + req'[q].amount
                                  <= rzp'[req'[q].sid].refunded
                             \/ PaidBackInFull(req[q].sid)'
      BY DEF RefundInFlight
    <3>1. CASE q = r
      <4>1. sess'[s].refunded + a <= rzp'[s].refunded
        BY <1>0, <2>1, <2>2, <2>4, <2>5, CapturedNat
      <4> QED
        BY <2>1, <2>3, <3>1, <4>1
    <3>2. CASE q # r
      <4> DEFINE u == req[q].sid
      <4>1. req'[q] = req[q] /\ Refunding(q) /\ req[q].amount \in Nat
        BY <1>0, <2>2, <3>2 DEF Refunding, Request
      <4>2. u \in Sessions /\ MoneyGrows(u) /\ req[q].amount > 0
        BY <4>1 DEF RefundInFlight
      <4>3. rzp'[u].refunded \in Nat /\ rzp[u].refunded \in Nat /\ sess[u].refunded \in Nat
        BY <4>2, CapturedNat DEF TypeOK, RazorpayOrder
      <4>4. ASSUME req[q].op = "refund_done"
            PROVE  sess'[u].refunded + req[q].amount <= rzp'[u].refunded \/ PaidBackInFull(u)'
        <5>1. sess[u].refunded + req[q].amount <= rzp[u].refunded \/ PaidBackInFull(u)
          BY <4>1, <4>4 DEF RefundInFlight
        <5> QED
          BY <2>2, <4>1, <4>2, <4>3, <5>1 DEF MoneyGrows
      <4> QED
        BY <4>1, <4>2, <4>4
    <3> QED
      BY <3>1, <3>2
  <2>7. RefundsExclusive'
    <3>1. \A q \in Reqs : (Refunding(q)' <=> Refunding(q)) /\ req'[q].sid = req[q].sid
      BY <1>0, <2>2, <2>3 DEF Refunding, Request
    <3> QED
      BY <3>1 DEF RefundsExclusive
  <2> QED
    BY <1>0, <2>2, <2>6, <2>7, SessionsKept, ClaimKept DEF Rest
<1>8. ASSUME RefundWrite(r) PROVE Rest'
  <2> DEFINE s == req[r].sid
             total == sess[s].refunded + req[r].amount
  <2>1. s \in Sessions /\ req[r].amount \in Nat /\ req[r].amount > 0 /\ Refunding(r)
    BY <1>0, <1>8 DEF RefundWrite, RefundInFlight, Refunding, Request
  <2>2. total <= rzp[s].refunded \/ PaidBackInFull(s)
    BY <1>8, <2>1 DEF RefundWrite, RefundInFlight
  <2>3. rzp[s].captured > 0
    BY <1>0, <2>1, <2>2, CapturedNat DEF MoneyBounded, PaidBackInFull
  <2>4. sess'[s].refunded = total /\ \A t \in Sessions \ {s} : sess'[t] = sess[t]
    <3>1. sess \in [Sessions -> SessionRow] /\ sess[s] \in SessionRow
      BY <1>0, <2>1
    <3>2. PICK row :
            /\ row = [sess[s] EXCEPT !.status = RefundStatus(total), !.refunded = total,
                       !.refundKey = IF req[r].key = NoKey THEN @ ELSE req[r].key]
            /\ sess' = [sess EXCEPT ![s] = row]
      BY <1>8, <2>1, <3>1 DEF RefundWrite
    <3>3. row.refunded = total
      BY <3>1, <3>2 DEF SessionRow
    <3> QED
      BY <2>1, <3>1, <3>2, <3>3
  <2>5. ~Refunding(r)' /\ \A q \in Reqs \ {r} : req'[q] = req[q]
    BY <1>0, <1>8 DEF RefundWrite, Refunding, Idle
  <2>6. \A q \in Reqs : Refunding(q)' =>
          /\ req'[q] = req[q]
          /\ sess'[req[q].sid].refunded <= sess[req[q].sid].refunded
    <3> SUFFICES ASSUME NEW q \in Reqs, Refunding(q)'
                 PROVE  /\ req'[q] = req[q]
                        /\ sess'[req[q].sid].refunded <= sess[req[q].sid].refunded
      OBVIOUS
    <3>1. q # r /\ req'[q] = req[q] /\ Refunding(q)
      BY <2>5 DEF Refunding
    <3>2. req[q].sid # s /\ req[q].sid \in Sessions
      BY <2>1, <3>1 DEF RefundsExclusive, RefundInFlight
    <3> QED
      BY <1>0, <2>4, <3>1, <3>2
  <2>7. paymentStatus' = paymentStatus \/ paymentStatus' \in Settled
    BY <1>8 DEF RefundWrite, OrderFollows, RefundStatus, Settled
  <2>8. RefundInFlight' /\ RefundsExclusive'
    BY <2>6, RefundsKept
  <2>9. PaidHasPayment' /\ RefundsAreReal'
    BY <2>1, <2>2, <2>3, <2>4, SessionSettled
  <2> QED
    BY <2>1, <2>3, <2>7, <2>8, <2>9, ClaimKept DEF Rest
<1> QED
  BY <1>3, <1>4, <1>5, <1>6, <1>7, <1>8 DEF RequestStep, CreatePaymentSession, CancelPaymentSession, CancelOrder,
       SetOrderStatus, RefundPaymentSession

\* Every step preserves IndInv.
LEMMA IndInvStep == IndInv /\ [Next]_vars => IndInv'
<1>1. ASSUME IndInv, Next PROVE IndInv'
  <2>1. TypeOK'
    BY <1>1, RequestTyped, RazorpayTyped, LockedTyped DEF IndInv, Next
  <2>2. MoneyBounded' /\ \A t \in Sessions : MoneyGrows(t)
    BY <1>1, MoneyStep DEF IndInv
  <2>3. Rest'
    BY <1>1, <2>1, <2>2, RequestInv, RazorpayInv, LockedInv DEF Next
  <2> QED
    BY <2>1, <2>2, <2>3 DEF IndInv, Rest
<1>2. ASSUME IndInv, UNCHANGED vars PROVE IndInv'
  BY <1>2 DEF vars, IndInv, TypeOK, MoneyBounded, PaidHasPayment, RefundsAreReal, PaidBackInFull,
     RefundInFlight, Refunding, RefundsExclusive, OrderClaim
<1> QED
  BY <1>1, <1>2

\* The invariant all the others follow from holds in every reachable state.
THEOREM Invariant == Spec => []IndInv
BY InitInv, IndInvStep, PTL DEF Spec

\* Nothing is recorded as paid, for a session or for the order, for which
\* Razorpay captured no money.
THEOREM SettledOnlyIfCaptured == Spec => []SettledIsCaptured
<1>1. IndInv => SettledIsCaptured
  BY DEF IndInv, PaidHasPayment, OrderClaim, SettledIsCaptured
<1> QED
  BY <1>1, Invariant, PTL

\* No interleaving of refund requests, webhooks and audits books a refund
\* that Razorpay did not make.
THEOREM BookedRefundsAreReal == Spec => []RefundsAreReal
<1>1. IndInv => RefundsAreReal
  BY DEF IndInv
<1> QED
  BY <1>1, Invariant, PTL

-----------------------------------------------------------------------------
(* What a step may do to the order's payment status.                       *)

\* A step that changes the order's payment status moves no money, follows the
\* transition table, and the money at Razorpay justifies the new claim.
ClaimJustified ==
  /\ UNCHANGED rzp
  /\ PaymentMoveOK(paymentStatus, paymentStatus', TRUE)
  /\ paymentStatus' = "PAID" => \E s \in Sessions : rzp[s].captured > 0
  /\ paymentStatus' = "PARTIALLY_REFUNDED" => \E s \in Sessions : rzp[s].refunded > 0
  /\ paymentStatus' = "REFUNDED" => \E s \in Sessions : PaidBackInFull(s)
  /\ paymentStatus' \in {"PAID", "PAYMENT_FAILED", "PARTIALLY_REFUNDED", "REFUNDED"}

\* The order following a booked refund total is justified if the total is.
LEMMA FollowJustified ==
  ASSUME IndInv, NEW s \in Sessions, NEW total \in Nat, UNCHANGED rzp,
         rzp[s].refunded > 0, total <= rzp[s].refunded \/ PaidBackInFull(s),
         OrderFollowsOK(RefundStatus(total)), OrderFollows(RefundStatus(total))
  PROVE  paymentStatus' = paymentStatus \/ ClaimJustified
<1>1. /\ rzp[s].refunded \in Nat /\ rzp[s].captured \in 0..Amount /\ rzp[s].captured \in Nat
      /\ rzp[s].refunded <= rzp[s].captured
  BY CapturedNat DEF IndInv, MoneyBounded
<1>2. total >= Amount => PaidBackInFull(s)
  BY <1>1, AmountAssumption DEF PaidBackInFull
<1>3. RefundStatus(total) \in {"REFUNDED", "PARTIALLY_REFUNDED"}
      /\ (RefundStatus(total) = "REFUNDED" => PaidBackInFull(s))
  BY <1>2 DEF RefundStatus
<1>4. CASE paymentStatus \in {RefundStatus(total), "REFUNDED"}
  BY <1>4 DEF OrderFollows
<1>5. CASE paymentStatus \notin {RefundStatus(total), "REFUNDED"}
  <2>1. /\ paymentStatus' = RefundStatus(total)
        /\ PaymentMoveOK(paymentStatus, RefundStatus(total), FALSE)
    BY <1>5 DEF OrderFollows, OrderFollowsOK
  <2>2. PaymentMoveOK(paymentStatus, paymentStatus', TRUE)
    BY <2>1 DEF PaymentMoveOK
  <2> QED
    BY <1>3, <2>1, <2>2 DEF ClaimJustified
<1> QED
  BY <1>4, <1>5

\* Confirming a paid order is justified by the captured payment.
LEMMA ConfirmJustified ==
  ASSUME NEW s \in Sessions, rzp[s].captured > 0, UNCHANGED rzp, ConfirmOK, ConfirmOrderPaid
  PROVE  ClaimJustified
BY DEF ConfirmOK, ConfirmOrderPaid, ClaimJustified

\* Only handlers under the locks and the write of a refund change the claim.
LEMMA ClaimStep ==
  ASSUME IndInv, Next
  PROVE  paymentStatus' = paymentStatus \/ ClaimJustified
<1> USE DEF IndInv
<1>1. ASSUME NEW r \in Reqs, RequestStep(r), ~RefundWrite(r)
      PROVE  paymentStatus' = paymentStatus
  BY <1>1 DEF RequestStep, CreatePaymentSession, CancelPaymentSession, CancelOrder,
       SetOrderStatus, RefundPaymentSession, CreateRead, CreateCheckActive, CreateRazorpayOrder, CreateInsert,
     CancelSessionRead, CancelSessionWrite, CancelOrderRead, CancelOrderReadSessions,
     CancelOrderWrite, StageRead, ForceRead, SetStatusWrite, RefundRead, RefundGateway, Abort
<1>2. ASSUME NEW r \in Reqs, RefundWrite(r)
      PROVE  paymentStatus' = paymentStatus \/ ClaimJustified
  <2> DEFINE s == req[r].sid
             total == sess[s].refunded + req[r].amount
  <2>1. s \in Sessions /\ req[r].amount \in Nat /\ req[r].amount > 0
    BY <1>2 DEF RefundWrite, RefundInFlight, Refunding, TypeOK, Request
  <2>2. /\ rzp[s].refunded \in Nat /\ sess[s].refunded \in Nat /\ total \in Nat
        /\ total <= rzp[s].refunded \/ PaidBackInFull(s)
    <3>1. rzp[s].refunded \in Nat /\ sess[s].refunded \in Nat
      BY <2>1, CapturedNat
    <3>2. total <= rzp[s].refunded \/ PaidBackInFull(s)
      BY <1>2, <2>1 DEF RefundWrite, RefundInFlight, Refunding
    <3> QED
      BY <2>1, <3>1, <3>2
  <2>3. rzp[s].refunded > 0
    BY <2>1, <2>2 DEF PaidBackInFull
  <2> QED
    BY <1>2, <2>1, <2>2, <2>3, FollowJustified DEF RefundWrite
<1>3. ASSUME NEW s \in Sessions, RazorpayStep(s) PROVE paymentStatus' = paymentStatus
  BY <1>3 DEF RazorpayStep, AttemptFails, Capture, DashboardRefund
<1>4. ASSUME NEW s \in Sessions, LockedStep(s)
      PROVE  paymentStatus' = paymentStatus \/ ClaimJustified
  <2>1. /\ rzp[s].captured \in Nat /\ rzp[s].refunded \in Nat /\ sess[s].refunded \in Nat
        /\ sess[s].refunded <= rzp[s].refunded \/ PaidBackInFull(s)
        /\ sess[s].paid \/ sess[s].status \in Settled => rzp[s].captured > 0
        /\ \A e \in rzp[s].events : e <= rzp[s].refunded
        /\ rzp[s].captured = Amount => rzp[s].captured > 0
    BY CapturedNat, AmountAssumption DEF RefundsAreReal, PaidHasPayment, MoneyBounded
  <2>2. ASSUME NEW f \in BOOLEAN, VerifyPayment(s, f) PROVE ClaimJustified
    BY <2>2, ConfirmJustified DEF VerifyPayment
  <2>3. ASSUME VerifyReplay(s) PROVE ClaimJustified
    BY <2>1, <2>3, ConfirmJustified DEF VerifyReplay, Settled
  <2>4. ASSUME \/ WebhookCaptured(s) \/ WebhookOrderPaid(s) \/ Reconcile(s)
               \/ AuditCaptured(s)
        PROVE  paymentStatus' = paymentStatus \/ ClaimJustified
    BY <2>1, <2>4, ConfirmJustified DEF WebhookCaptured, WebhookOrderPaid, Reconcile, AuditCaptured
  <2>5. ASSUME WebhookCapturedMismatch(s) \/ WebhookFailed(s)
        PROVE  paymentStatus' = paymentStatus \/ ClaimJustified
    <3>1. UNCHANGED rzp
      BY <2>5 DEF WebhookCapturedMismatch, WebhookFailed
    <3>2. \/ paymentStatus' = paymentStatus
          \/ /\ PaymentMoveOK(paymentStatus, "PAYMENT_FAILED", FALSE)
             /\ paymentStatus' = "PAYMENT_FAILED"
      BY <2>5 DEF WebhookCapturedMismatch, WebhookFailed
    <3>3. PaymentMoveOK(paymentStatus, "PAYMENT_FAILED", FALSE)
            => PaymentMoveOK(paymentStatus, "PAYMENT_FAILED", TRUE)
      BY DEF PaymentMoveOK
    <3> QED
      BY <3>1, <3>2, <3>3 DEF ClaimJustified
  <2>6. ASSUME NEW a \in 1..Amount, WebhookRefund(s, a)
        PROVE  paymentStatus' = paymentStatus \/ ClaimJustified
    <3> DEFINE total == IF a > sess[s].refunded THEN a ELSE sess[s].refunded
    <3>1. /\ a <= rzp[s].refunded /\ a \in Nat /\ a > 0
          /\ OrderFollowsOK(RefundStatus(total)) /\ OrderFollows(RefundStatus(total))
          /\ UNCHANGED rzp
      BY <2>1, <2>6, AmountAssumption DEF WebhookRefund
    <3>2. total \in Nat /\ rzp[s].refunded > 0 /\ (total <= rzp[s].refunded \/ PaidBackInFull(s))
      BY <2>1, <3>1
    <3> QED
      BY <3>1, <3>2, FollowJustified
  <2>7. ASSUME AuditRefunded(s) PROVE paymentStatus' = paymentStatus \/ ClaimJustified
    BY <2>7 DEF AuditRefunded, ClaimJustified, ListedRefunded, PaidBackInFull, PaymentMoveOK
  <2> QED
    BY <1>4, <2>2, <2>3, <2>4, <2>5, <2>6, <2>7 DEF LockedStep, VerifyCallback, RazorpayWebhook, ReconcileBatch
<1> QED
  BY <1>1, <1>2, <1>3, <1>4 DEF Next

\* The order's payment status only ever moves along its transition table.
THEOREM PaymentStatusMoves == Spec => PaymentNeverRegresses
<1>1. IndInv /\ [Next]_vars => [PaymentMoveOK(paymentStatus, paymentStatus', TRUE)]_vars
  BY ClaimStep DEF ClaimJustified, PaymentMoveOK
<1> QED
  BY <1>1, Invariant, PTL DEF Spec, PaymentNeverRegresses

-----------------------------------------------------------------------------
(* Payments implements PaymentPromise.                                     *)

\* What the promise calls claim, taken and returned.
claimed == IF paymentStatus \in Settled THEN paymentStatus ELSE "UNPAID"
takenOf == [s \in Sessions |-> rzp[s].captured]
returnedOf == [s \in Sessions |-> rzp[s].refunded]

\* A step that leaves the claim alone is, for the promise, a capture, a refund
\* or no step at all.
LEMMA MoneyPromise ==
  ASSUME IndInv, Next, paymentStatus' = paymentStatus
  PROVE  [Promise!Next]_<<claimed, takenOf, returnedOf>>
<1> USE DEF IndInv
<1>0. claimed' = claimed
  BY DEF claimed
<1>1. ASSUME \A t \in Sessions : /\ rzp'[t].captured = rzp[t].captured
                               /\ rzp'[t].refunded = rzp[t].refunded
      PROVE  UNCHANGED <<claimed, takenOf, returnedOf>>
  BY <1>0, <1>1 DEF takenOf, returnedOf
<1>2. ASSUME NEW s \in Sessions, NEW a \in CapturedAmounts, Capture(s, a)
      PROVE  Promise!Next
  <2>1. a \in Nat \ {0} /\ rzp[s].captured = 0
    BY <1>2, CapturedAssumption, AmountAssumption DEF Capture
  <2>2. \A t \in Sessions : /\ rzp'[t].captured = IF t = s THEN a ELSE rzp[t].captured
                            /\ rzp'[t].refunded = rzp[t].refunded
    BY <1>2 DEF Capture, TypeOK, RazorpayOrder
  <2>3. takenOf' = [takenOf EXCEPT ![s] = a] /\ returnedOf' = returnedOf /\ takenOf'[s] = a
    BY <2>2 DEF takenOf, returnedOf
  <2>4. Promise!Take(s)
    BY <1>0, <2>1, <2>3 DEF Promise!Take, claimed, takenOf, returnedOf
  <2> QED
    BY <2>4 DEF Promise!Next
<1>3. ASSUME NEW s \in Sessions, NEW a \in Nat, Refundable(s, a), rzp' = AfterRefund(s, a)
      PROVE  Promise!Next
  <2>1. \A t \in Sessions :
          /\ rzp'[t].captured = rzp[t].captured
          /\ rzp'[t].refunded = IF t = s THEN rzp[t].refunded + a ELSE rzp[t].refunded
    BY <1>3 DEF AfterRefund, TypeOK, RazorpayOrder
  <2>2. /\ takenOf' = takenOf /\ returnedOf' = [returnedOf EXCEPT ![s] = @ + a]
        /\ takenOf[s] = rzp[s].captured /\ returnedOf[s] = rzp[s].refunded
    BY <2>1 DEF takenOf, returnedOf
  <2>3. a \in 1..(takenOf[s] - returnedOf[s])
    BY <1>3, <2>2, CapturedNat DEF Refundable
  <2>4. Promise!Return(s)
    BY <1>0, <2>2, <2>3 DEF Promise!Return, claimed, takenOf, returnedOf
  <2> QED
    BY <2>4 DEF Promise!Next
<1>4. ASSUME NEW s \in Sessions, RazorpayStep(s)
      PROVE  [Promise!Next]_<<claimed, takenOf, returnedOf>>
  <2>1. ASSUME AttemptFails(s) PROVE UNCHANGED <<claimed, takenOf, returnedOf>>
    BY <1>1, <2>1 DEF AttemptFails, TypeOK, RazorpayOrder
  <2> QED
    BY <1>2, <1>3, <1>4, <2>1, AmountAssumption DEF RazorpayStep, DashboardRefund
<1>5. ASSUME NEW r \in Reqs, RequestStep(r)
      PROVE  [Promise!Next]_<<claimed, takenOf, returnedOf>>
  <2>1. ASSUME NEW s \in Sessions, CreateRazorpayOrder(r, s)
        PROVE  UNCHANGED <<claimed, takenOf, returnedOf>>
    BY <1>1, <2>1 DEF CreateRazorpayOrder, TypeOK, RazorpayOrder
  <2>2. ASSUME RefundGateway(r) PROVE Promise!Next
    BY <1>3, <2>2 DEF RefundGateway, RefundInFlight, Refunding, TypeOK, Request
  <2>3. ASSUME ~RefundGateway(r), \A s \in Sessions : ~CreateRazorpayOrder(r, s)
        PROVE  UNCHANGED rzp
    BY <1>5, <2>3 DEF RequestStep, CreatePaymentSession, CancelPaymentSession, CancelOrder,
       SetOrderStatus, RefundPaymentSession, CreateRead, CreateCheckActive, CreateInsert,
       CancelSessionRead, CancelSessionWrite, CancelOrderRead, CancelOrderReadSessions,
       CancelOrderWrite, StageRead, ForceRead, SetStatusWrite, RefundRead, RefundWrite, Abort
  <2> QED
    BY <1>1, <2>1, <2>2, <2>3
<1>6. ASSUME NEW s \in Sessions, LockedStep(s) PROVE UNCHANGED rzp
  BY <1>6 DEF LockedStep, VerifyCallback, RazorpayWebhook, ReconcileBatch, VerifyPayment, VerifyReplay, WebhookCaptured, WebhookCapturedMismatch,
     WebhookFailed, WebhookOrderPaid, WebhookRefund, Reconcile, AuditCaptured, AuditRefunded
<1> QED
  BY <1>1, <1>4, <1>5, <1>6 DEF Next

\* A step that moves the claim is a step of the promise (or, between an
\* unpaid and a failed payment, none).
LEMMA ClaimPromise ==
  ASSUME IndInv, ClaimJustified
  PROVE  [Promise!Next]_<<claimed, takenOf, returnedOf>>
<1>1. UNCHANGED <<takenOf, returnedOf>>
      /\ \A s \in Sessions : takenOf[s] = rzp[s].captured /\ returnedOf[s] = rzp[s].refunded
  BY DEF ClaimJustified, takenOf, returnedOf
<1>2. paymentStatus \in {"PENDING_PAYMENT", "PAID", "PAYMENT_FAILED"} \cup Settled
  BY DEF IndInv, OrderClaim
<1>3. CASE claimed' = claimed
  BY <1>1, <1>3
<1>4. CASE claimed' # claimed /\ paymentStatus' = "PAID"
  <2>1. claimed = "UNPAID" /\ claimed' = "PAID"
    BY <1>2, <1>4 DEF ClaimJustified, PaymentMoveOK, AllowedPaymentMove, claimed, Settled
  <2>2. Promise!ClaimPaid
    BY <1>1, <1>4, <2>1 DEF Promise!ClaimPaid, ClaimJustified, claimed, takenOf, returnedOf
  <2> QED
    BY <2>2 DEF Promise!Next
<1>5. CASE claimed' # claimed /\ paymentStatus' = "PARTIALLY_REFUNDED"
  <2>1. claimed = "PAID" /\ claimed' = "PARTIALLY_REFUNDED"
    BY <1>2, <1>5 DEF ClaimJustified, PaymentMoveOK, AllowedPaymentMove, claimed, Settled
  <2>2. Promise!ClaimPartlyRefunded
    BY <1>1, <1>5, <2>1
       DEF Promise!ClaimPartlyRefunded, ClaimJustified, claimed, takenOf, returnedOf
  <2> QED
    BY <2>2 DEF Promise!Next
<1>6. CASE claimed' # claimed /\ paymentStatus' = "REFUNDED"
  <2>1. claimed \in {"PAID", "PARTIALLY_REFUNDED"} /\ claimed' = "REFUNDED"
    BY <1>2, <1>6 DEF ClaimJustified, PaymentMoveOK, AllowedPaymentMove, claimed, Settled
  <2>2. Promise!ClaimRefunded
    BY <1>1, <1>6, <2>1
       DEF Promise!ClaimRefunded, ClaimJustified, PaidBackInFull, claimed, takenOf, returnedOf
  <2> QED
    BY <2>2 DEF Promise!Next
<1>7. CASE claimed' # claimed /\ paymentStatus' = "PAYMENT_FAILED"
  BY <1>2, <1>7 DEF ClaimJustified, PaymentMoveOK, AllowedPaymentMove, claimed, Settled
<1> QED
  BY <1>3, <1>4, <1>5, <1>6, <1>7 DEF ClaimJustified

\* Payments implements PaymentPromise: whatever requests, webhooks, audits and
\* crashes do, the order's payment claim follows the money and never leads it.
THEOREM KeepsPromise == Spec => PromiseKept
<1>1. Init => Promise!Init
  BY DEF Init, Promise!Init, Settled
<1>2. IndInv /\ [Next]_vars => [Promise!Next]_<<claimed, takenOf, returnedOf>>
  <2>1. ASSUME IndInv, Next PROVE [Promise!Next]_<<claimed, takenOf, returnedOf>>
    BY <2>1, ClaimStep, MoneyPromise, ClaimPromise
  <2>2. UNCHANGED vars => UNCHANGED <<claimed, takenOf, returnedOf>>
    BY DEF vars, claimed, takenOf, returnedOf
  <2> QED
    BY <2>1, <2>2
<1> QED
  BY <1>1, <1>2, Invariant, PTL
     DEF Spec, PromiseKept, Promise!Spec, claimed, takenOf, returnedOf

-----------------------------------------------------------------------------
(* A paid order does not wait for its payment.                             *)

\* No request in flight is about to put the order back to PENDING_PAYMENT.
NoResetInFlight == \A r \in Reqs : req[r].op = "set_status" => req[r].to # "PENDING_PAYMENT"

\* Confirming the payment leaves PENDING_PAYMENT, and later steps of the claim
\* start from a paid order.
LEMMA ConfirmedStep ==
  ASSUME "PENDING_PAYMENT" \notin ForceTargets,
         IndInv, PaidIsConfirmed, NoResetInFlight, Next
  PROVE  PaidIsConfirmed' /\ NoResetInFlight'
<1> USE DEF IndInv
<1>1. ASSUME NEW r \in Reqs, RequestStep(r)
      PROVE  NoResetInFlight' /\ (orderStatus' = "PENDING_PAYMENT" => UNCHANGED orderStatus)
  <2>0. req \in [Reqs -> Request]
    BY DEF TypeOK
  <2>1. ASSUME NEW to \in OrderStatuses, StageRead(r, to)
        PROVE  NoResetInFlight' /\ UNCHANGED orderStatus
    BY <2>0, <2>1 DEF StageRead, CanTransition, NoResetInFlight, Request
  <2>2. ASSUME NEW to \in ForceTargets, ForceRead(r, to)
        PROVE  NoResetInFlight' /\ UNCHANGED orderStatus
    BY <2>0, <2>2 DEF ForceRead, NoResetInFlight, Request
  <2>3. ASSUME SetStatusWrite(r) PROVE NoResetInFlight' /\ orderStatus' # "PENDING_PAYMENT"
    BY <2>0, <2>3 DEF SetStatusWrite, NoResetInFlight, Idle
  <2>4. ASSUME CancelOrderWrite(r) PROVE NoResetInFlight' /\ orderStatus' # "PENDING_PAYMENT"
    BY <2>0, <2>4 DEF CancelOrderWrite, NoResetInFlight, Idle
  <2>5. ASSUME \/ CreateRead(r) \/ CreateCheckActive(r) \/ CreateInsert(r)
               \/ \E s \in Sessions : CreateRazorpayOrder(r, s) \/ CancelSessionRead(r, s)
               \/ CancelSessionWrite(r) \/ CancelOrderRead(r) \/ CancelOrderReadSessions(r)
               \/ RefundGateway(r) \/ RefundWrite(r) \/ Abort(r)
               \/ \E s \in Sessions, a \in 1..Amount, k \in Keys \cup {NoKey} :
                    RefundRead(r, s, a, k)
        PROVE  NoResetInFlight' /\ UNCHANGED orderStatus
    <3>1. UNCHANGED orderStatus
      BY <2>5 DEF CreateRead, CreateCheckActive, CreateInsert, CreateRazorpayOrder,
         CancelSessionRead, CancelSessionWrite, CancelOrderRead, CancelOrderReadSessions,
         RefundGateway, RefundWrite, Abort, RefundRead
    <3>2. \A q \in Reqs \ {r} : req'[q] = req[q]
      BY <2>0, <2>5 DEF CreateRead, CreateCheckActive, CreateInsert, CreateRazorpayOrder,
         CancelSessionRead, CancelSessionWrite, CancelOrderRead, CancelOrderReadSessions,
         RefundGateway, RefundWrite, Abort, RefundRead
    <3>3. req'[r].op # "set_status"
      <4>1. CASE CreateCheckActive(r)
        <5>1. \/ req'[r] = Idle
              \/ req'[r] = [req[r] EXCEPT !.op = "create_checked"]
          BY <2>0, <4>1 DEF CreateCheckActive
        <5> QED
          BY <2>0, <5>1 DEF Idle, Request
      <4>2. CASE CreateInsert(r) \/ CancelSessionWrite(r) \/ RefundWrite(r) \/ Abort(r)
        <5>1. req'[r] = Idle
          BY <2>0, <4>2 DEF CreateInsert, CancelSessionWrite, RefundWrite, Abort
        <5> QED
          BY <5>1 DEF Idle
      <4>3. CASE CreateRead(r) \/ CancelOrderRead(r) \/ CancelOrderReadSessions(r)
        BY <2>0, <4>3 DEF CreateRead, CancelOrderRead, CancelOrderReadSessions, Request
      <4>4. CASE \E s \in Sessions : CreateRazorpayOrder(r, s) \/ CancelSessionRead(r, s)
        BY <2>0, <4>4 DEF CreateRazorpayOrder, CancelSessionRead, Request
      <4>5. CASE RefundGateway(r)
        BY <2>0, <4>5 DEF RefundGateway, Request
      <4>6. CASE \E s \in Sessions, a \in 1..Amount, k \in Keys \cup {NoKey} :
                   RefundRead(r, s, a, k)
        BY <2>0, <4>6 DEF RefundRead, Request
      <4> QED
        BY <2>5, <4>1, <4>2, <4>3, <4>4, <4>5, <4>6
    <3> QED
      BY <3>1, <3>2, <3>3 DEF NoResetInFlight
  <2> QED
    BY <1>1, <2>1, <2>2, <2>3, <2>4, <2>5, TargetsAssumption DEF RequestStep, CreatePaymentSession, CancelPaymentSession, CancelOrder,
       SetOrderStatus, RefundPaymentSession
<1>2. ASSUME NEW s \in Sessions, RazorpayStep(s) \/ LockedStep(s)
      PROVE  NoResetInFlight' /\ (orderStatus' = "PENDING_PAYMENT" => UNCHANGED orderStatus)
  <2>1. UNCHANGED req
    BY <1>2 DEF RazorpayStep, AttemptFails, Capture, DashboardRefund, LockedStep, VerifyCallback, RazorpayWebhook, ReconcileBatch, VerifyPayment,
       VerifyReplay, WebhookCaptured, WebhookCapturedMismatch, WebhookFailed, WebhookOrderPaid,
       WebhookRefund, Reconcile, AuditCaptured, AuditRefunded
  <2>2. UNCHANGED orderStatus \/ ConfirmOrderPaid
    BY <1>2 DEF RazorpayStep, AttemptFails, Capture, DashboardRefund, LockedStep, VerifyCallback, RazorpayWebhook, ReconcileBatch, VerifyPayment,
       VerifyReplay, WebhookCaptured, WebhookCapturedMismatch, WebhookFailed, WebhookOrderPaid,
       WebhookRefund, Reconcile, AuditCaptured, AuditRefunded
  <2> QED
    BY <2>1, <2>2 DEF NoResetInFlight, ConfirmOrderPaid
<1>3. ASSUME paymentStatus' = "PAID", paymentStatus # "PAID" PROVE ConfirmOrderPaid
  <2>1. ASSUME NEW r \in Reqs, RequestStep(r), ~RefundWrite(r) PROVE UNCHANGED paymentStatus
    BY <2>1 DEF RequestStep, CreatePaymentSession, CancelPaymentSession, CancelOrder,
       SetOrderStatus, RefundPaymentSession, CreateRead, CreateCheckActive, CreateRazorpayOrder, CreateInsert,
       CancelSessionRead, CancelSessionWrite, CancelOrderRead, CancelOrderReadSessions,
       CancelOrderWrite, StageRead, ForceRead, SetStatusWrite, RefundRead, RefundGateway, Abort
  <2>2. ASSUME NEW r \in Reqs, RefundWrite(r) PROVE FALSE
    BY <1>3, <2>2 DEF RefundWrite, OrderFollows, RefundStatus
  <2>3. ASSUME NEW s \in Sessions, RazorpayStep(s) PROVE FALSE
    BY <1>3, <2>3 DEF RazorpayStep, AttemptFails, Capture, DashboardRefund
  <2>4. ASSUME NEW s \in Sessions, LockedStep(s) PROVE ConfirmOrderPaid
    BY <1>3, <2>4 DEF LockedStep, VerifyCallback, RazorpayWebhook, ReconcileBatch, VerifyPayment, VerifyReplay, WebhookCaptured,
       WebhookCapturedMismatch, WebhookFailed, WebhookOrderPaid, WebhookRefund, OrderFollows,
       RefundStatus, Reconcile, AuditCaptured, AuditRefunded
  <2> QED
    BY <1>3, <2>1, <2>2, <2>3, <2>4 DEF Next
<1>4. ASSUME paymentStatus' \in Settled, paymentStatus \notin Settled PROVE paymentStatus' = "PAID"
  <2>1. paymentStatus \in {"PENDING_PAYMENT", "PAYMENT_FAILED"}
    BY <1>4 DEF OrderClaim, Settled
  <2>2. PaymentMoveOK(paymentStatus, paymentStatus', TRUE)
    BY <1>4, ClaimStep DEF ClaimJustified
  <2> QED
    BY <1>4, <2>1, <2>2 DEF PaymentMoveOK, AllowedPaymentMove, Settled
<1>5. NoResetInFlight' /\ (orderStatus' = "PENDING_PAYMENT" => UNCHANGED orderStatus)
  BY <1>1, <1>2 DEF Next
<1>6. ConfirmOrderPaid => orderStatus' # "PENDING_PAYMENT"
  BY DEF ConfirmOrderPaid
<1>7. PaidIsConfirmed'
  <2>1. CASE paymentStatus' \in Settled /\ paymentStatus \notin Settled
    BY <1>3, <1>4, <1>6, <2>1 DEF PaidIsConfirmed, Settled
  <2>2. CASE paymentStatus' \notin Settled \/ paymentStatus \in Settled
    BY <1>5, <2>2 DEF PaidIsConfirmed, Settled
  <2> QED
    BY <2>1, <2>2
<1> QED
  BY <1>5, <1>7

\* Unless an administrator forces it back, a paid order has left
\* PENDING_PAYMENT, whatever stale request commits after the payment.
THEOREM PaidOrdersConfirmed ==
  ASSUME "PENDING_PAYMENT" \notin ForceTargets
  PROVE  Spec => []PaidIsConfirmed
<1>1. Init => PaidIsConfirmed /\ NoResetInFlight
  BY DEF Init, PaidIsConfirmed, NoResetInFlight, Idle, Settled
<1>2. IndInv /\ PaidIsConfirmed /\ NoResetInFlight /\ [Next]_vars
        => PaidIsConfirmed' /\ NoResetInFlight'
  <2>1. UNCHANGED vars /\ PaidIsConfirmed /\ NoResetInFlight
          => PaidIsConfirmed' /\ NoResetInFlight'
    BY DEF vars, PaidIsConfirmed, NoResetInFlight, Settled
  <2> QED
    BY <2>1, ConfirmedStep
<1> QED
  BY <1>1, <1>2, Invariant, PTL DEF Spec

-----------------------------------------------------------------------------
(* One request at a time.                                                  *)

\* One request slot, and the admin endpoints are used neither to set CANCELLED
\* (that is the cancel endpoints' job) nor to force a status.
Serial ==
  /\ \A r1, r2 \in Reqs : r1 = r2
  /\ "CANCELLED" \notin StageTargets /\ ForceTargets = {}

IsActive(s) == sess[s].status \in Active
NoneActive == \A s \in Sessions : ~IsActive(s)

\* What a request that is under way found is still so: no other request can
\* have cancelled the order or created a session.
FoundHolds(r) ==
  /\ req[r].op \in {"create_read", "create_checked", "create_ordered", "cancel_order",
                    "cancel_order_sessions", "set_status"} => orderStatus # "CANCELLED"
  /\ req[r].op \in {"create_checked", "create_ordered"} => NoneActive
  /\ req[r].op = "cancel_order_sessions" => \A s \in Sessions : IsActive(s) => s \in req[r].seen
  /\ req[r].op = "set_status" => req[r].to # "CANCELLED"

SerialInv ==
  /\ TypeOK
  /\ \A s, t \in Sessions : IsActive(s) /\ IsActive(t) => s = t
  /\ orderStatus = "CANCELLED" => NoneActive
  /\ ReleasedOnce
  /\ \A r \in Reqs : FoundHolds(r)

LEMMA SerialInit == Init => SerialInv
BY InitTyped
   DEF Init, SerialInv, IsActive, NoneActive, Active, ReleasedOnce, FoundHolds, Idle, Absent

\* A step that activates no session and neither cancels the order nor revives it.
Quiet ==
  /\ \A s \in Sessions : IsActive(s)' => IsActive(s)
  /\ orderStatus' = "CANCELLED" <=> orderStatus = "CANCELLED"

\* Nothing the gateway reports and no handler under the locks does either.
LEMMA GatewayQuiet ==
  ASSUME TypeOK, NEW s \in Sessions, RazorpayStep(s) \/ LockedStep(s)
  PROVE  Quiet /\ UNCHANGED <<released, req>>
<1>1. ConfirmOrderPaid => (orderStatus' = "CANCELLED" <=> orderStatus = "CANCELLED")
  BY DEF ConfirmOrderPaid
<1>2. \A w \in BOOLEAN : MarkPaid(s, w) => \A t \in Sessions : IsActive(t)' => IsActive(t)
  BY DEF MarkPaid, TypeOK, SessionRow, IsActive, Active
<1>3. CASE RazorpayStep(s)
  BY <1>3 DEF RazorpayStep, AttemptFails, Capture, DashboardRefund, Quiet, IsActive
<1>4. CASE VerifyCallback(s)
  <2>1. \A t \in Sessions : IsActive(t)' => IsActive(t)
    BY <1>4 DEF VerifyCallback, VerifyReplay, VerifyPayment, TypeOK, SessionRow, IsActive, Active
  <2> QED
    BY <1>1, <1>4, <2>1 DEF VerifyCallback, VerifyReplay, VerifyPayment, Quiet
<1>5. CASE WebhookCaptured(s) \/ WebhookOrderPaid(s) \/ Reconcile(s) \/ AuditCaptured(s)
  BY <1>1, <1>2, <1>5 DEF WebhookCaptured, WebhookOrderPaid, Reconcile, AuditCaptured, Quiet
<1>6. CASE WebhookCapturedMismatch(s) \/ WebhookFailed(s) \/ AuditRefunded(s)
  <2>1. sess'[s].status \in {"FAILED", "REFUNDED"}
    <3>1. sess[s] \in SessionRow /\ s \in DOMAIN sess
      BY DEF TypeOK
    <3>2. CASE WebhookCapturedMismatch(s) \/ WebhookFailed(s)
      <4>1. sess' = [sess EXCEPT ![s] = [sess[s] EXCEPT !.status = "FAILED", !.refundKey = NoKey]]
        BY <3>1, <3>2 DEF WebhookCapturedMismatch, WebhookFailed
      <4>2. [sess[s] EXCEPT !.status = "FAILED", !.refundKey = NoKey].status = "FAILED"
        BY <3>1 DEF SessionRow
      <4> QED
        BY <3>1, <4>1, <4>2
    <3>3. CASE AuditRefunded(s)
      BY <3>1, <3>3 DEF AuditRefunded, SessionRow
    <3> QED
      BY <1>6, <3>2, <3>3
  <2>2. \A t \in Sessions \ {s} : sess'[t] = sess[t]
    BY <1>6 DEF WebhookCapturedMismatch, WebhookFailed, AuditRefunded, TypeOK
  <2> QED
    BY <1>6, <2>1, <2>2 DEF WebhookCapturedMismatch, WebhookFailed, AuditRefunded, Quiet,
                                  IsActive, Active
<1>7. ASSUME NEW a \in 1..Amount, WebhookRefund(s, a)
      PROVE  Quiet /\ UNCHANGED <<released, req>>
  <2>1. \A n : RefundStatus(n) \notin Active
    BY DEF RefundStatus, Active
  <2>2. \A t \in Sessions : IsActive(t)' => IsActive(t)
    BY <1>7, <2>1 DEF WebhookRefund, TypeOK, SessionRow, IsActive
  <2> QED
    BY <1>7, <2>2 DEF WebhookRefund, Quiet
<1> QED
  BY <1>3, <1>4, <1>5, <1>6, <1>7 DEF LockedStep, RazorpayWebhook, ReconcileBatch

\* A quiet step of the one request, or of none, whose findings hold after it.
LEMMA QuietKeeps ==
  ASSUME Serial, SerialInv, TypeOK', Quiet, UNCHANGED released,
         \A r \in Reqs : req'[r] = req[r] \/ FoundHolds(r)'
  PROVE  SerialInv'
<1>1. \A r \in Reqs : FoundHolds(r)'
  BY DEF SerialInv, Quiet, FoundHolds, NoneActive
<1> QED
  BY <1>1 DEF SerialInv, Quiet, NoneActive, ReleasedOnce

LEMMA SerialRequest ==
  ASSUME Serial, SerialInv, NEW r \in Reqs, RequestStep(r), TypeOK'
  PROVE  SerialInv' /\ (orderStatus = "CANCELLED" => orderStatus' = "CANCELLED")
<1> DEFINE Goal == SerialInv' /\ (orderStatus = "CANCELLED" => orderStatus' = "CANCELLED")
<1>0. /\ req[r] \in Request /\ \A q \in Reqs : q = r
      /\ TypeOK /\ FoundHolds(r)
  BY DEF SerialInv, TypeOK, Serial
<1>1. ASSUME Quiet, UNCHANGED released, FoundHolds(r)' PROVE Goal
  BY <1>0, <1>1, QuietKeeps DEF Quiet
<1>2. ASSUME CreateRead(r) \/ CreateCheckActive(r) PROVE Goal
  <2>1. Quiet
    BY <1>2 DEF CreateRead, CreateCheckActive, Quiet, IsActive
  <2>2. FoundHolds(r)'
    BY <1>0, <1>2 DEF CreateRead, CreateCheckActive, FoundHolds, NoneActive, IsActive, Request,
                      TypeOK, Idle
  <2> QED
    BY <1>1, <1>2, <2>1, <2>2 DEF CreateRead, CreateCheckActive
<1>3. ASSUME NEW s \in Sessions, CreateRazorpayOrder(r, s) \/ CancelSessionRead(r, s) PROVE Goal
  <2>1. Quiet
    BY <1>3 DEF CreateRazorpayOrder, CancelSessionRead, Quiet, IsActive
  <2>2. FoundHolds(r)'
    BY <1>0, <1>3 DEF CreateRazorpayOrder, CancelSessionRead, FoundHolds, NoneActive, IsActive,
                      Request, TypeOK
  <2> QED
    BY <1>1, <1>3, <2>1, <2>2 DEF CreateRazorpayOrder, CancelSessionRead
<1>4. ASSUME CreateInsert(r) PROVE Goal
  <2>1. /\ NoneActive /\ orderStatus # "CANCELLED" /\ UNCHANGED <<orderStatus, released>>
        /\ \A s \in Sessions : s # req[r].sid => sess'[s] = sess[s]
        /\ req'[r] = Idle
    BY <1>0, <1>4 DEF CreateInsert, FoundHolds, TypeOK
  <2>2. \A s, t \in Sessions : IsActive(s)' /\ IsActive(t)' => s = t
    BY <2>1 DEF IsActive, NoneActive
  <2>3. FoundHolds(r)'
    BY <2>1 DEF FoundHolds, Idle
  <2> QED
    BY <1>0, <2>1, <2>2, <2>3 DEF SerialInv, ReleasedOnce
<1>5. ASSUME CancelSessionWrite(r) PROVE Goal
  <2>1. Quiet
    BY <1>0, <1>5 DEF CancelSessionWrite, Quiet, IsActive, Active, TypeOK, SessionRow
  <2>2. FoundHolds(r)'
    BY <1>0, <1>5 DEF CancelSessionWrite, FoundHolds, Idle, TypeOK
  <2> QED
    BY <1>1, <1>5, <2>1, <2>2 DEF CancelSessionWrite
<1>6. ASSUME CancelOrderRead(r) \/ CancelOrderReadSessions(r) PROVE Goal
  <2>1. Quiet
    BY <1>6 DEF CancelOrderRead, CancelOrderReadSessions, Quiet, IsActive
  <2>2. FoundHolds(r)'
    BY <1>0, <1>6 DEF CancelOrderRead, CancelOrderReadSessions, CustomerCancellable,
                      AdminCancellable, FoundHolds, NoneActive, IsActive, Request, TypeOK
  <2> QED
    BY <1>1, <1>6, <2>1, <2>2 DEF CancelOrderRead, CancelOrderReadSessions
<1>7. ASSUME CancelOrderWrite(r) PROVE Goal
  <2>1. orderStatus' = "CANCELLED" /\ req'[r] = Idle
    BY <1>0, <1>7 DEF CancelOrderWrite, TypeOK
  <2>2. NoneActive'
    <3>1. \A s \in Sessions : IsActive(s) => s \in req[r].seen
      BY <1>0, <1>7 DEF CancelOrderWrite, FoundHolds
    <3> QED
      BY <1>7, <3>1 DEF CancelOrderWrite, NoneActive, IsActive, Active, TypeOK, SerialInv, SessionRow
  <2>3. ReleasedOnce'
    BY <1>0, <1>7 DEF CancelOrderWrite, SerialInv, ReleasedOnce, FoundHolds, TypeOK
  <2>4. FoundHolds(r)'
    BY <2>1 DEF FoundHolds, Idle
  <2> QED
    BY <1>0, <2>1, <2>2, <2>3, <2>4 DEF SerialInv, NoneActive
<1>8. ASSUME NEW to \in StageTargets, StageRead(r, to) PROVE Goal
  <2>1. Quiet
    BY <1>8 DEF StageRead, Quiet, IsActive
  <2>2. FoundHolds(r)'
    BY <1>0, <1>8 DEF StageRead, Serial, CanTransition, FoundHolds, Request, TypeOK
  <2> QED
    BY <1>1, <1>8, <2>1, <2>2 DEF StageRead
<1>9. ASSUME SetStatusWrite(r) PROVE Goal
  <2>1. Quiet
    BY <1>0, <1>9 DEF SetStatusWrite, Quiet, IsActive, FoundHolds
  <2>2. FoundHolds(r)'
    BY <1>0, <1>9 DEF SetStatusWrite, FoundHolds, Idle, TypeOK
  <2> QED
    BY <1>1, <1>9, <2>1, <2>2 DEF SetStatusWrite
<1>10. ASSUME NEW s \in Sessions, NEW a \in 1..Amount, NEW k \in Keys \cup {NoKey},
              RefundRead(r, s, a, k)
       PROVE  Goal
  <2>1. Quiet
    BY <1>10 DEF RefundRead, Quiet, IsActive
  <2>2. FoundHolds(r)'
    BY <1>0, <1>10 DEF RefundRead, FoundHolds, Request, TypeOK
  <2> QED
    BY <1>1, <1>10, <2>1, <2>2 DEF RefundRead
<1>11. ASSUME RefundGateway(r) \/ Abort(r) PROVE Goal
  <2>1. Quiet
    BY <1>11 DEF RefundGateway, Abort, Quiet, IsActive
  <2>2. FoundHolds(r)'
    BY <1>0, <1>11 DEF RefundGateway, Abort, FoundHolds, Idle, Request, TypeOK
  <2> QED
    BY <1>1, <1>11, <2>1, <2>2 DEF RefundGateway, Abort
<1>12. ASSUME RefundWrite(r) PROVE Goal
  <2>1. Quiet
    <3>1. PICK s, target : /\ target \in {"REFUNDED", "PARTIALLY_REFUNDED"}
                           /\ \A x \in Sessions : sess'[x].status = IF x = s THEN target ELSE sess[x].status
      <4> DEFINE s == req[r].sid
                 total == sess[s].refunded + req[r].amount
                 target == RefundStatus(total)
                 old == [sess[s] EXCEPT !.status = target]
      <4>1. PICK k : sess' = [sess EXCEPT ![s] = [old EXCEPT !.refunded = total, !.refundKey = k]]
        BY <1>12 DEF RefundWrite
      <4>2. target \in {"REFUNDED", "PARTIALLY_REFUNDED"}
        BY DEF RefundStatus
      <4>3. sess \in [Sessions -> SessionRow]
        BY <1>0 DEF TypeOK
      <4>4. s \in Sessions => old.status = target /\ DOMAIN old = {"status", "paid", "refunded", "refundKey"}
        BY <4>3 DEF SessionRow
      <4> HIDE DEF old, target, total, s
      <4>5. s \in Sessions => [old EXCEPT !.refunded = total, !.refundKey = k].status = target
        BY <4>4
      <4>6. \A x \in Sessions : sess'[x].status = IF x = s THEN target ELSE sess[x].status
        BY <4>1, <4>3, <4>5
      <4> QED
        BY <4>2, <4>6
    <3>2. orderStatus' = orderStatus
      BY <1>12 DEF RefundWrite
    <3> QED
      BY <3>1, <3>2 DEF Quiet, IsActive, Active
  <2>2. FoundHolds(r)'
    BY <1>0, <1>12 DEF RefundWrite, FoundHolds, Idle, TypeOK
  <2> QED
    BY <1>1, <1>12, <2>1, <2>2 DEF RefundWrite
<1> QED
  BY <1>2, <1>3, <1>4, <1>5, <1>6, <1>7, <1>8, <1>9, <1>10, <1>11, <1>12
     DEF RequestStep, CreatePaymentSession, CancelPaymentSession, CancelOrder, SetOrderStatus,
         RefundPaymentSession, Serial

LEMMA SerialStep ==
  ASSUME Serial
  PROVE  SerialInv /\ [Next]_vars =>
           SerialInv' /\ (orderStatus = "CANCELLED" => orderStatus' = "CANCELLED")
<1> SUFFICES ASSUME SerialInv, [Next]_vars
             PROVE  SerialInv' /\ (orderStatus = "CANCELLED" => orderStatus' = "CANCELLED")
  OBVIOUS
<1>1. CASE UNCHANGED vars
  BY <1>1 DEF vars, SerialInv, TypeOK, IsActive, NoneActive, ReleasedOnce, FoundHolds
<1>2. CASE Next
  <2>1. TypeOK /\ TypeOK'
    BY <1>2, RequestTyped, RazorpayTyped, LockedTyped DEF SerialInv, Next
  <2>2. ASSUME NEW s \in Sessions, RazorpayStep(s) \/ LockedStep(s)
        PROVE  SerialInv' /\ (orderStatus = "CANCELLED" => orderStatus' = "CANCELLED")
    BY <2>1, <2>2, GatewayQuiet, QuietKeeps DEF Quiet
  <2> QED
    BY <1>2, <2>1, <2>2, SerialRequest DEF Next
<1> QED
  BY <1>1, <1>2

LEMMA SerialInvariant == ASSUME Serial PROVE Spec => []SerialInv
<1>1. SerialInv /\ [Next]_vars => SerialInv'
  BY SerialStep
<1> QED
  BY SerialInit, <1>1, PTL DEF Spec

\* With one request at a time there is at most one session through which the
\* order can be paid, whatever the gateway reports in between, and none once
\* the order is cancelled.
THEOREM AtMostOneActive == ASSUME Serial PROVE Spec => []OneActiveSession
<1>1. SerialInv => OneActiveSession
  <2> SUFFICES ASSUME SerialInv PROVE OneActiveSession
    OBVIOUS
  <2>1. CASE ActiveSessions = {}
    BY <2>1, FS_EmptySet DEF OneActiveSession
  <2>2. ASSUME NEW s \in ActiveSessions PROVE OneActiveSession
    <3>1. ActiveSessions = {s} /\ orderStatus # "CANCELLED"
      BY <2>2 DEF SerialInv, ActiveSessions, IsActive, NoneActive
    <3>2. Cardinality({s}) = 1
      BY FS_Singleton
    <3> QED
      BY <3>1, <3>2 DEF OneActiveSession
  <2> QED
    BY <2>1, <2>2
<1> QED
  BY <1>1, SerialInvariant, PTL

\* ... stock and coupon use go back once, for a cancelled order ...
THEOREM ReleasedAtMostOnce == ASSUME Serial PROVE Spec => []ReleasedOnce
<1>1. SerialInv => ReleasedOnce
  BY DEF SerialInv
<1> QED
  BY <1>1, SerialInvariant, PTL

\* ... and a cancelled order stays cancelled: a payment that arrives for it
\* anyway is booked, but does not bring it back.
THEOREM CancelledStaysCancelled == ASSUME Serial PROVE Spec => CancelledIsFinal
<1>1. SerialInv /\ [Next]_vars =>
        [orderStatus = "CANCELLED" => orderStatus' = "CANCELLED"]_vars
  BY SerialStep
<1> QED
  BY <1>1, SerialInvariant, PTL DEF Spec, CancelledIsFinal

-----------------------------------------------------------------------------
(* A captured payment is not lost, however many requests are under way.    *)

CaptureOpen(s) == CaptureDue(s) /\ ~CaptureClosed(s)

\* No handler, lock or status table stands in the way of payment.captured: as
\* long as a captured payment is not recorded, its webhook would be accepted.
CaptureAccepted ==
  \A s \in Sessions : CaptureOpen(s) =>
    ~Locked(s) /\ ConfirmOK /\ SessionMoveOK(sess[s].status, "PAID", TRUE)

\* Whatever else happens, its session waits for the recording: no failure
\* report, audit or retry takes it away, or marks it paid without the order.
CaptureWaits == [][\A s \in Sessions : CaptureOpen(s) => CaptureOpen(s)' \/ CaptureClosed(s)']_vars

Refundable3 == {"PAID", "PARTIALLY_REFUNDED", "REFUND_PENDING"}

\* What a request that is under way may rely on: the session it refunds is
\* paid and stays so under its lock, the one it is about to insert is not
\* there yet, and the ones it is about to cancel are.
Held(r) ==
  /\ Refunding(r) => sess[req[r].sid].status \in Refundable3
  /\ req[r].op = "create_ordered" =>
       req[r].sid \in Sessions /\ rzp[req[r].sid].created /\ sess[req[r].sid].status = "ABSENT"
  /\ req[r].op = "cancel_session" =>
       req[r].sid \in Sessions /\ sess[req[r].sid].status # "ABSENT"
  /\ req[r].op = "cancel_order_sessions" => \A s \in req[r].seen : sess[s].status # "ABSENT"

\* Each Razorpay order has one creator, and comes before its session.
CreatorsApart ==
  \A q, r \in Reqs :
    req[q].op = "create_ordered" /\ req[r].op = "create_ordered" /\ req[q].sid = req[r].sid
      => q = r
OrdersFirst == \A s \in Sessions : ~rzp[s].created => sess[s].status = "ABSENT"

HeldInv == (\A r \in Reqs : Held(r)) /\ CreatorsApart /\ OrdersFirst

LEMMA HeldInit == Init => HeldInv
BY DEF Init, HeldInv, Held, Refunding, CreatorsApart, OrdersFirst, Idle, Absent

\* A step that inserts no session and moves none that is locked.
Mild ==
  /\ \A s \in Sessions : /\ sess'[s].status = "ABSENT" <=> sess[s].status = "ABSENT"
                         /\ Locked(s) => sess'[s].status = sess[s].status
  /\ \A s \in Sessions : rzp'[s].created = rzp[s].created

\* A mild step of one request, or of none, that creates no Razorpay order.
LEMMA MildKeeps ==
  ASSUME TypeOK, HeldInv, RefundInFlight, Mild,
         \A r \in Reqs : req'[r] = req[r] \/ (Held(r)' /\ req'[r].op # "create_ordered")
  PROVE  HeldInv'
<1>1. ASSUME NEW r \in Reqs, req'[r] = req[r] PROVE Held(r)'
  <2>1. Refunding(r) => req[r].sid \in Sessions /\ Locked(req[r].sid)
    BY DEF RefundInFlight, Refunding, Locked
  <2>2. req[r].seen \subseteq Sessions
    BY DEF TypeOK, Request
  <2>3. Held(r)
    BY DEF HeldInv
  <2>4. Refunding(r)' => sess'[req'[r].sid].status \in Refundable3
    BY <1>1, <2>1, <2>3 DEF Held, Refunding, Mild
  <2> QED
    BY <1>1, <2>2, <2>3, <2>4 DEF Held, Mild
<1>2. CreatorsApart'
  BY DEF HeldInv, CreatorsApart
<1>3. OrdersFirst'
  BY DEF HeldInv, OrdersFirst, Mild
<1> QED
  BY <1>1, <1>2, <1>3 DEF HeldInv

\* Who records, fails or refunds a session under the locks leaves the others
\* alone, and finds a row that exists.
LEMMA LockedTouches ==
  ASSUME TypeOK, NEW s \in Sessions, LockedStep(s)
  PROVE  /\ UNCHANGED <<rzp, req>>
         /\ \A t \in Sessions \ {s} : sess'[t] = sess[t]
         /\ sess'[s].status = sess[s].status \/ ~Locked(s)
         /\ sess[s].status = "ABSENT" <=> sess'[s].status = "ABSENT"
<1> DEFINE Goal == /\ UNCHANGED <<rzp, req>>
                   /\ \A t \in Sessions \ {s} : sess'[t] = sess[t]
                   /\ sess'[s].status = sess[s].status \/ ~Locked(s)
                   /\ sess[s].status = "ABSENT" <=> sess'[s].status = "ABSENT"
<1>0. sess[s] \in SessionRow /\ s \in DOMAIN sess /\ sess \in [Sessions -> SessionRow]
  BY DEF TypeOK
<1>1. CASE VerifyCallback(s)
  BY <1>0, <1>1 DEF VerifyCallback, VerifyReplay, VerifyPayment, SessionRow, Active
<1>2. CASE WebhookCaptured(s) \/ WebhookOrderPaid(s) \/ Reconcile(s) \/ AuditCaptured(s)
  <2>1. ASSUME NEW w \in BOOLEAN, MarkPaid(s, w)
        PROVE  (\A t \in Sessions \ {s} : sess'[t] = sess[t]) /\ sess'[s].status = "PAID"
    BY <1>0, <2>1 DEF MarkPaid, SessionRow
  <2> QED
    BY <1>2, <2>1 DEF WebhookCaptured, WebhookOrderPaid, Reconcile, AuditCaptured, Active
<1>3. CASE WebhookCapturedMismatch(s) \/ WebhookFailed(s)
  <2>1. sess' = [sess EXCEPT ![s] = [sess[s] EXCEPT !.status = "FAILED", !.refundKey = NoKey]]
    BY <1>0, <1>3 DEF WebhookCapturedMismatch, WebhookFailed
  <2>2. [sess[s] EXCEPT !.status = "FAILED", !.refundKey = NoKey].status = "FAILED"
    BY <1>0 DEF SessionRow
  <2>3. sess'[s].status = "FAILED" /\ \A t \in Sessions \ {s} : sess'[t] = sess[t]
    BY <1>0, <2>1, <2>2
  <2> QED
    BY <1>3, <2>3 DEF WebhookCapturedMismatch, WebhookFailed
<1>4. CASE AuditRefunded(s)
  BY <1>0, <1>4 DEF AuditRefunded, SessionRow
<1>5. ASSUME NEW a \in 1..Amount, WebhookRefund(s, a) PROVE Goal
  <2>1. \A n : RefundStatus(n) # "ABSENT"
    BY DEF RefundStatus
  <2> QED
    BY <1>0, <1>5, <2>1 DEF WebhookRefund, SessionRow
<1> QED
  BY <1>1, <1>2, <1>3, <1>4, <1>5 DEF LockedStep, RazorpayWebhook, ReconcileBatch

\* The gateway and the handlers under the locks disturb no request.
LEMMA HeldGateway ==
  ASSUME TypeOK, HeldInv, RefundInFlight, NEW s \in Sessions, RazorpayStep(s) \/ LockedStep(s)
  PROVE  HeldInv'
<1>1. CASE RazorpayStep(s)
  <2>1. UNCHANGED <<sess, req>>
    BY <1>1 DEF RazorpayStep, AttemptFails, Capture, DashboardRefund
  <2>2. \A t \in Sessions : rzp'[t].created = rzp[t].created
    <3>1. rzp \in [Sessions -> RazorpayOrder]
      BY DEF TypeOK
    <3>2. CASE AttemptFails(s)
      BY <3>1, <3>2 DEF AttemptFails, RazorpayOrder
    <3>3. ASSUME NEW a, Capture(s, a) PROVE \A t \in Sessions : rzp'[t].created = rzp[t].created
      BY <3>1, <3>3 DEF Capture, RazorpayOrder
    <3>4. ASSUME NEW a, DashboardRefund(s, a)
          PROVE  \A t \in Sessions : rzp'[t].created = rzp[t].created
      BY <3>1, <3>4 DEF DashboardRefund, AfterRefund, RazorpayOrder
    <3> QED
      BY <1>1, <3>2, <3>3, <3>4 DEF RazorpayStep
  <2>3. Mild
    BY <2>1, <2>2 DEF Mild
  <2> QED
    BY <2>1, <2>3, MildKeeps
<1>2. CASE LockedStep(s)
  <2>1. Mild
    BY <1>2, LockedTouches DEF Mild
  <2> QED
    BY <1>2, <2>1, MildKeeps, LockedTouches
<1> QED
  BY <1>1, <1>2

\* No step of a request disturbs another one, or its own next step.
LEMMA HeldRequest ==
  ASSUME TypeOK, HeldInv, RefundInFlight, RefundsExclusive, NEW r \in Reqs, RequestStep(r)
  PROVE  HeldInv'
<1>0. /\ req[r] \in Request /\ Held(r) /\ \A q \in Reqs : req[q] \in Request
      /\ sess \in [Sessions -> SessionRow] /\ rzp \in [Sessions -> RazorpayOrder]
  BY DEF TypeOK, HeldInv
<1>1. ASSUME UNCHANGED sess, UNCHANGED rzp, \A q \in Reqs \ {r} : req'[q] = req[q],
             Held(r)', req'[r].op # "create_ordered"
      PROVE  HeldInv'
  <2>1. Mild
    BY <1>1 DEF Mild
  <2> QED
    BY <1>1, <2>1, MildKeeps
<1>2. CASE CreateRead(r) \/ CreateCheckActive(r) \/ Abort(r)
  BY <1>0, <1>1, <1>2 DEF CreateRead, CreateCheckActive, Abort, Held, Refunding, Idle, Request, TypeOK
<1>3. ASSUME NEW s \in Sessions, CreateRazorpayOrder(r, s) PROVE HeldInv'
  <2>1. /\ \A q \in Reqs \ {r} : req'[q] = req[q]
        /\ req'[r].op = "create_ordered" /\ req'[r].sid = s
        /\ \A t \in Sessions : rzp'[t].created <=> rzp[t].created \/ t = s
        /\ UNCHANGED sess /\ ~rzp[s].created
    BY <1>0, <1>3 DEF CreateRazorpayOrder, Request, RazorpayOrder, TypeOK
  <2>2. sess[s].status = "ABSENT"
    BY <2>1 DEF HeldInv, OrdersFirst
  <2>3. Held(r)'
    BY <2>1, <2>2 DEF Held, Refunding
  <2>4. \A q \in Reqs \ {r} : Held(q)'
    BY <2>1 DEF HeldInv, Held, Refunding
  <2>5. CreatorsApart'
    BY <2>1 DEF HeldInv, Held, CreatorsApart
  <2>6. OrdersFirst'
    BY <2>1 DEF HeldInv, OrdersFirst
  <2> QED
    BY <2>3, <2>4, <2>5, <2>6 DEF HeldInv
<1>4. CASE CreateInsert(r)
  <2> DEFINE s == req[r].sid
  <2>1. /\ s \in Sessions /\ sess[s].status = "ABSENT" /\ rzp[s].created /\ UNCHANGED rzp
        /\ req[r].op = "create_ordered"
        /\ sess'[s].status # "ABSENT" /\ \A t \in Sessions \ {s} : sess'[t] = sess[t]
        /\ req'[r] = Idle /\ \A q \in Reqs \ {r} : req'[q] = req[q]
    BY <1>0, <1>4 DEF CreateInsert, Held, Absent, TypeOK
  <2> HIDE DEF s
  <2>2. \A q \in Reqs \ {r} : req[q].op = "create_ordered" => req[q].sid # s
    BY <2>1 DEF HeldInv, CreatorsApart, s
  <2>3. \A q \in Reqs \ {r} : Refunding(q) => req[q].sid \in Sessions /\ req[q].sid # s
    BY <2>1 DEF HeldInv, Held, Refundable3, RefundInFlight
  <2>4. \A q \in Reqs \ {r} : Held(q)'
    <3> SUFFICES ASSUME NEW q \in Reqs \ {r} PROVE Held(q)'
      OBVIOUS
    <3>1. /\ req'[q] = req[q] /\ Held(q) /\ req[q].seen \subseteq Sessions
          /\ Refunding(q)' <=> Refunding(q)
      BY <1>0, <2>1 DEF HeldInv, Refunding, Request
    <3> QED
      BY <2>1, <2>2, <2>3, <3>1 DEF Held
  <2>5. Held(r)' /\ req'[r].op # "create_ordered"
    BY <2>1 DEF Held, Refunding, Idle
  <2>6. CreatorsApart' /\ OrdersFirst'
    BY <2>1, <2>5 DEF HeldInv, CreatorsApart, OrdersFirst
  <2> QED
    BY <2>4, <2>5, <2>6 DEF HeldInv
<1>5. ASSUME NEW s \in Sessions, CancelSessionRead(r, s) PROVE HeldInv'
  BY <1>0, <1>1, <1>5 DEF CancelSessionRead, Held, Refunding, Active, Request, TypeOK
<1>6. CASE CancelSessionWrite(r) \/ CancelOrderWrite(r)
  <2>1. \A s \in Sessions :
          \/ sess'[s] = sess[s]
          \/ sess[s].status # "ABSENT" /\ ~Locked(s) /\ sess'[s].status = "CANCELLED"
    <3>1. CASE CancelSessionWrite(r)
      BY <1>0, <3>1 DEF CancelSessionWrite, Held, SessionRow
    <3>2. CASE CancelOrderWrite(r)
      BY <1>0, <3>2 DEF CancelOrderWrite, Held, SessionRow
    <3> QED
      BY <1>6, <3>1, <3>2
  <2>2. UNCHANGED rzp /\ req'[r] = Idle /\ \A q \in Reqs \ {r} : req'[q] = req[q]
    BY <1>6 DEF CancelSessionWrite, CancelOrderWrite, TypeOK
  <2>3. Mild
    BY <2>1, <2>2 DEF Mild
  <2>4. Held(r)' /\ req'[r].op # "create_ordered"
    BY <2>2 DEF Held, Refunding, Idle
  <2> QED
    BY <2>2, <2>3, <2>4, MildKeeps
<1>7. CASE CancelOrderRead(r) \/ CancelOrderReadSessions(r) \/ RefundGateway(r)
  <2>1. CASE RefundGateway(r)
    <3>1. \A t \in Sessions : rzp'[t].created = rzp[t].created
      BY <1>0, <2>1 DEF RefundGateway, AfterRefund, RazorpayOrder
    <3>2. UNCHANGED sess /\ Refunding(r) /\ req'[r].op = "refund_done" /\ req'[r].sid = req[r].sid
          /\ \A q \in Reqs \ {r} : req'[q] = req[q]
      BY <1>0, <2>1 DEF RefundGateway, Refunding, Request, TypeOK
    <3>3. Mild /\ Held(r)'
      BY <1>0, <3>1, <3>2 DEF Mild, Held, Refunding
    <3> QED
      BY <3>2, <3>3, MildKeeps
  <2>2. CASE CancelOrderRead(r) \/ CancelOrderReadSessions(r)
    BY <1>0, <1>1, <2>2 DEF CancelOrderRead, CancelOrderReadSessions, Held, Refunding, Active,
                            Request, TypeOK
  <2> QED
    BY <1>7, <2>1, <2>2
<1>8. ASSUME NEW to \in StageTargets \cup ForceTargets, StageRead(r, to) \/ ForceRead(r, to)
      PROVE  HeldInv'
  BY <1>0, <1>1, <1>8 DEF StageRead, ForceRead, Held, Refunding, Request, TypeOK
<1>9. CASE SetStatusWrite(r)
  BY <1>0, <1>1, <1>9 DEF SetStatusWrite, Held, Refunding, Idle, TypeOK
<1>10. ASSUME NEW s \in Sessions, NEW a \in 1..Amount, NEW k \in Keys \cup {NoKey},
              RefundRead(r, s, a, k)
       PROVE  HeldInv'
  BY <1>0, <1>1, <1>10 DEF RefundRead, Held, Refunding, Refundable3, Request, TypeOK
<1>11. CASE RefundWrite(r)
  <2> DEFINE s == req[r].sid
  <2>1. /\ s \in Sessions /\ sess[s].status \in Refundable3 /\ Refunding(r)
        /\ req'[r] = Idle /\ (\A q \in Reqs \ {r} : req'[q] = req[q]) /\ UNCHANGED rzp
    BY <1>0, <1>11 DEF RefundWrite, Held, Refunding, RefundInFlight, TypeOK
  <2>2. (\A t \in Sessions \ {s} : sess'[t] = sess[t]) /\ sess'[s].status # "ABSENT"
    <3>1. \A n : RefundStatus(n) # "ABSENT"
      BY DEF RefundStatus
    <3> QED
      BY <1>0, <1>11, <2>1, <3>1 DEF RefundWrite, SessionRow
  <2> HIDE DEF s
  <2>3. \A q \in Reqs \ {r} : Refunding(q) => req[q].sid \in Sessions \ {s}
    BY <2>1 DEF RefundsExclusive, RefundInFlight, s
  <2>4. \A q \in Reqs \ {r} : Held(q)'
    <3> SUFFICES ASSUME NEW q \in Reqs \ {r} PROVE Held(q)'
      OBVIOUS
    <3>1. /\ req'[q] = req[q] /\ Held(q) /\ req[q].seen \subseteq Sessions
          /\ Refunding(q)' <=> Refunding(q)
      BY <1>0, <2>1 DEF HeldInv, Refunding, Request
    <3>2. req[q].op = "create_ordered" => req[q].sid # s
      BY <2>1, <3>1 DEF Held, Refundable3
    <3> QED
      BY <2>1, <2>2, <2>3, <3>1, <3>2 DEF Held
  <2>5. Held(r)' /\ req'[r].op # "create_ordered"
    BY <2>1 DEF Held, Refunding, Idle
  <2>6. CreatorsApart' /\ OrdersFirst'
    BY <2>1, <2>2, <2>5 DEF HeldInv, CreatorsApart, OrdersFirst, Refundable3
  <2> QED
    BY <2>4, <2>5, <2>6 DEF HeldInv
<1> QED
  BY <1>2, <1>3, <1>4, <1>5, <1>6, <1>7, <1>8, <1>9, <1>10, <1>11
     DEF RequestStep, CreatePaymentSession, CancelPaymentSession, CancelOrder, SetOrderStatus,
         RefundPaymentSession

LEMMA HeldStep == IndInv /\ HeldInv /\ [Next]_vars => HeldInv'
<1> SUFFICES ASSUME IndInv, HeldInv, [Next]_vars PROVE HeldInv'
  OBVIOUS
<1>1. CASE UNCHANGED vars
  BY <1>1 DEF vars, HeldInv, Held, Refunding, CreatorsApart, OrdersFirst
<1>2. CASE Next
  BY <1>2, HeldRequest, HeldGateway DEF Next, IndInv
<1> QED
  BY <1>1, <1>2

\* Refunds lock only sessions that are paid, and the order's payment status is
\* one that a confirmed payment may follow.
LEMMA OpenAccepted == IndInv /\ HeldInv => CaptureAccepted
<1> SUFFICES ASSUME IndInv, HeldInv, NEW s \in Sessions, CaptureOpen(s)
             PROVE  ~Locked(s) /\ ConfirmOK /\ SessionMoveOK(sess[s].status, "PAID", TRUE)
  BY DEF CaptureAccepted
<1>1. ~Locked(s)
  BY DEF HeldInv, Held, Refunding, Locked, Refundable3, CaptureOpen, CaptureDue, Active
<1>2. ConfirmOK
  BY DEF IndInv, OrderClaim, CaptureOpen, CaptureClosed, ConfirmOK, PaymentMoveOK,
         AllowedPaymentMove
<1>3. SessionMoveOK(sess[s].status, "PAID", TRUE)
  BY DEF CaptureOpen, CaptureDue, Active, SessionMoveOK, AllowedSessionMove
<1> QED
  BY <1>1, <1>2, <1>3

\* Nobody takes an open capture back, and a step that touches its session
\* leaves it payable or cancelled, or settles the order.
LEMMA OpenStep ==
  ASSUME IndInv, HeldInv, Next, NEW t \in Sessions, CaptureOpen(t)
  PROVE  CaptureOpen(t)' \/ CaptureClosed(t)'
<1> DEFINE Payable == sess'[t].status \in Active \cup {"FAILED", "CANCELLED"}
<1>0. /\ sess \in [Sessions -> SessionRow] /\ rzp \in [Sessions -> RazorpayOrder]
      /\ sess[t] \in SessionRow /\ req \in [Reqs -> Request]
  BY DEF IndInv, TypeOK
<1>1. rzp'[t].captured = Amount
  <2>1. rzp[t].captured = Amount /\ Amount > 0
    BY AmountAssumption DEF CaptureOpen, CaptureDue
  <2>2. \A s \in Sessions : AttemptFails(s) => rzp'[t].captured = rzp[t].captured
    BY <1>0 DEF AttemptFails, RazorpayOrder
  <2>3. \A s \in Sessions, a \in CapturedAmounts : Capture(s, a) => rzp'[t].captured = rzp[t].captured
    BY <1>0, <2>1 DEF Capture, RazorpayOrder
  <2>4. \A s, a : rzp' = AfterRefund(s, a) => rzp'[t].captured = rzp[t].captured
    BY <1>0 DEF AfterRefund, RazorpayOrder
  <2>5. ASSUME NEW s \in Sessions, RazorpayStep(s) PROVE rzp'[t].captured = rzp[t].captured
    BY <2>2, <2>3, <2>4, <2>5 DEF RazorpayStep, DashboardRefund
  <2>6. ASSUME NEW s \in Sessions, LockedStep(s) PROVE rzp'[t].captured = rzp[t].captured
    BY <2>6, LockedTouches DEF IndInv
  <2>7. ASSUME NEW r \in Reqs, RequestStep(r) PROVE rzp'[t].captured = rzp[t].captured
    <3>1. CASE CreatePaymentSession(r)
      BY <1>0, <3>1 DEF CreatePaymentSession, CreateRead, CreateCheckActive, CreateRazorpayOrder,
                        CreateInsert, RazorpayOrder
    <3>2. CASE RefundPaymentSession(r)
      BY <2>4, <3>2 DEF RefundPaymentSession, RefundRead, RefundGateway, RefundWrite
    <3>3. CASE CancelPaymentSession(r) \/ CancelOrder(r) \/ SetOrderStatus(r) \/ Abort(r)
      BY <3>3 DEF CancelPaymentSession, CancelSessionRead, CancelSessionWrite, CancelOrder,
                  CancelOrderRead, CancelOrderReadSessions, CancelOrderWrite, SetOrderStatus,
                  StageRead, ForceRead, SetStatusWrite, Abort
    <3> QED
      BY <2>7, <3>1, <3>2, <3>3 DEF RequestStep
  <2> QED
    BY <2>1, <2>5, <2>6, <2>7 DEF Next
<1>2. SUFFICES Payable \/ paymentStatus' \in Settled
  BY <1>1 DEF CaptureOpen, CaptureDue, CaptureClosed
<1>3. sess[t].status \in Active \cup {"FAILED"} /\ paymentStatus \notin Settled
  BY DEF CaptureOpen, CaptureDue, CaptureClosed
<1>4. sess'[t].status = sess[t].status => Payable
  BY <1>3
<1>5. ConfirmOrderPaid => paymentStatus' \in Settled
  BY DEF ConfirmOrderPaid, Settled
<1>6. sess[t].status \notin Refundable3 /\ sess[t].status # "ABSENT"
  BY <1>3 DEF Refundable3, Active
<1>7. ASSUME NEW s \in Sessions, RazorpayStep(s) PROVE Payable
  BY <1>4, <1>7 DEF RazorpayStep, AttemptFails, Capture, DashboardRefund
<1>8. ASSUME NEW s \in Sessions, LockedStep(s) PROVE Payable \/ paymentStatus' \in Settled
  <2>1. CASE s # t
    BY <1>4, <1>8, <2>1, LockedTouches DEF IndInv
  <2>2. CASE s = t
    <3>1. ConfirmOK
      BY OpenAccepted DEF CaptureAccepted
    <3>2. CASE VerifyCallback(t) \/ WebhookCaptured(t) \/ WebhookOrderPaid(t) \/ Reconcile(t)
               \/ AuditCaptured(t)
      BY <1>5, <3>1, <3>2 DEF VerifyCallback, VerifyReplay, VerifyPayment, WebhookCaptured,
                              WebhookOrderPaid, Reconcile, AuditCaptured
    <3>3. CASE WebhookCapturedMismatch(t) \/ WebhookFailed(t)
      <4>1. sess' = [sess EXCEPT ![t] = [sess[t] EXCEPT !.status = "FAILED", !.refundKey = NoKey]]
        BY <1>0, <3>3 DEF WebhookCapturedMismatch, WebhookFailed
      <4>2. [sess[t] EXCEPT !.status = "FAILED", !.refundKey = NoKey].status = "FAILED"
        BY <1>0 DEF SessionRow
      <4> QED
        BY <1>0, <4>1, <4>2
    <3>4. ASSUME NEW a \in 1..Amount, WebhookRefund(t, a) PROVE Payable
      BY <1>4, <1>6, <3>4 DEF WebhookRefund, Refundable3
    <3>5. ~AuditRefunded(t)
      BY <1>6 DEF AuditRefunded, Refundable3
    <3> QED
      BY <1>8, <2>2, <3>2, <3>3, <3>4, <3>5 DEF LockedStep, RazorpayWebhook, ReconcileBatch
  <2> QED
    BY <2>1, <2>2
<1>9. ASSUME NEW r \in Reqs, RequestStep(r) PROVE Payable
  <2>1. CASE UNCHANGED sess
    BY <1>4, <2>1
  <2>2. CASE CreateInsert(r)
    <3>1. [Absent EXCEPT !.status = "CREATED"].status = "CREATED"
      BY DEF Absent
    <3> QED
      BY <1>0, <1>4, <2>2, <3>1 DEF CreateInsert, Active
  <2>3. CASE CancelSessionWrite(r)
    BY <1>0, <1>4, <2>3 DEF CancelSessionWrite, SessionRow
  <2>4. CASE CancelOrderWrite(r)
    BY <1>0, <1>4, <2>4 DEF CancelOrderWrite, SessionRow
  <2>5. CASE RefundWrite(r)
    <3>1. req[r].sid # t
      BY <1>6, <2>5 DEF HeldInv, Held, Refunding, RefundWrite
    <3> QED
      BY <1>0, <1>4, <2>5, <3>1 DEF RefundWrite
  <2> QED
    BY <1>9, <2>1, <2>2, <2>3, <2>4, <2>5
       DEF RequestStep, CreatePaymentSession, CreateRead, CreateCheckActive, CreateRazorpayOrder,
           CancelPaymentSession, CancelSessionRead, CancelOrder, CancelOrderRead,
           CancelOrderReadSessions, SetOrderStatus, StageRead, ForceRead, SetStatusWrite,
           RefundPaymentSession, RefundRead, RefundGateway, Abort
<1> QED
  BY <1>7, <1>8, <1>9 DEF Next

\* One delivery of the webhook ends the wait: it is a step, and it settles the
\* order (with the two theorems below: what fairness of the webhook rests on).
LEMMA DeliveryCloses ==
  ASSUME NEW s \in Sessions, CaptureOpen(s), WebhookCaptured(s)
  PROVE  CaptureClosed(s)' /\ vars' # vars
BY DEF WebhookCaptured, ConfirmOrderPaid, CaptureOpen, CaptureClosed, Settled, vars

LEMMA HeldInvariant == Spec => []HeldInv
BY HeldInit, HeldStep, Invariant, PTL DEF Spec

\* As long as a captured payment is not recorded, its webhook is accepted
\* whenever it is delivered: no lock and no status table is in its way ...
THEOREM CapturesAccepted == Spec => []CaptureAccepted
BY OpenAccepted, Invariant, HeldInvariant, PTL

\* ... and nothing any request, webhook or audit does takes it away: until it
\* is recorded or its session cancelled it goes on waiting.
THEOREM CapturesWait == Spec => CaptureWaits
<1>1. IndInv /\ HeldInv /\ [Next]_vars =>
        [\A s \in Sessions : CaptureOpen(s) => CaptureOpen(s)' \/ CaptureClosed(s)']_vars
  BY OpenStep
<1> QED
  BY <1>1, Invariant, HeldInvariant, PTL DEF Spec, CaptureWaits
=============================================================================
