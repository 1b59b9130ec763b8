------------------------------ MODULE Payments ------------------------------
(***************************************************************************)
(* One order, its payment sessions, and the requests and Razorpay webhooks *)
(* that act on them (PaymentService, and the cancel and status endpoints   *)
(* of OrderService).                                                       *)
(*                                                                         *)
(* A request is one database transaction at READ COMMITTED: get_db commits *)
(* after the handler and rolls back if it raises.  Two shapes follow.      *)
(*  - A handler that begins with SELECT ... FOR UPDATE on the session (and *)
(*    then on the order) is serialised by those locks: it is ONE action,   *)
(*    enabled where it succeeds (raising leaves the database unchanged).   *)
(*  - A handler that reads without locks is a sequence of actions: its     *)
(*    reads, its calls to Razorpay, and the commit of what it decided,     *)
(*    which overwrites the columns it sets whatever they hold by then.     *)
(* Razorpay is external: rzp records what it did.  Its webhooks report     *)
(* facts of rzp, at any later time, in any order, any number of times.     *)
(***************************************************************************)
EXTENDS Integers, FiniteSets, StatusRules

CONSTANTS
  Sessions,         \* identities of payment sessions (and their Razorpay orders)
  Reqs,             \* slots for requests in flight that hold no session lock on entry
  Amount,           \* the order's total: amount_paise of each of its sessions
  CapturedAmounts,  \* amounts Razorpay may report captured for a payment
  Keys, NoKey,      \* refund idempotency keys, and the absence of one
  NoSession,        \* sid of a request that is not about a session
  StageTargets,     \* statuses asked of the validated admin endpoints
  ForceTargets,     \* statuses asked of the force-status endpoint
  MaxCancels        \* bound: how often cancelling may return the reservation

ASSUME AmountAssumption == Amount \in Nat \ {0}
ASSUME CapturedAssumption == CapturedAmounts \subseteq 1..Amount /\ Amount \in CapturedAmounts
ASSUME NamesAssumption == NoSession \notin Sessions /\ NoKey \notin Keys
ASSUME TargetsAssumption == StageTargets \subseteq OrderStatuses /\ ForceTargets \subseteq OrderStatuses
ASSUME BoundAssumption == MaxCancels \in Nat

VARIABLES
  orderStatus,    \* OrderModel.status
  paymentStatus,  \* OrderModel.payment_status
  sess,           \* PaymentSessionModel rows of the order
  rzp,            \* what Razorpay did for each session's Razorpay order
  released,       \* times a cancellation returned stock and coupon use
  req             \* requests in flight

vars == <<orderStatus, paymentStatus, sess, rzp, released, req>>

-----------------------------------------------------------------------------
(* Types *)

Active == {"CREATED", "PENDING"}
Settled == {"PAID", "PARTIALLY_REFUNDED", "REFUNDED"}

\* paid: razorpay_payment_id is set.  refundKey: last_webhook_event when it
\* is "refund:<key>", NoKey for every other event.
SessionRow ==
  [status : SessionStatuses \cup {"ABSENT"}, paid : BOOLEAN, refunded : Nat,
   refundKey : Keys \cup {NoKey}]

\* created: the Razorpay order exists.  captured: amount captured, 0 for none.
\* events: amounts of the individual refunds made, each reported by a webhook.
RazorpayOrder ==
  [created : BOOLEAN, failed : BOOLEAN, captured : {0} \cup CapturedAmounts,
   refunded : Nat, events : SUBSET (1..Amount)]

Ops == {"idle", "create_read", "create_checked", "create_ordered", "cancel_session",
        "cancel_order", "cancel_order_sessions", "set_status", "refund", "refund_done"}

Request ==
  [op : Ops, sid : Sessions \cup {NoSession}, release : BOOLEAN, seen : SUBSET Sessions,
   to : OrderStatuses, amount : Nat, key : Keys \cup {NoKey}]

Idle == [op |-> "idle", sid |-> NoSession, release |-> FALSE, seen |-> {},
         to |-> "CANCELLED", amount |-> 0, key |-> NoKey]

Absent == [status |-> "ABSENT", paid |-> FALSE, refunded |-> 0, refundKey |-> NoKey]

TypeOK ==
  /\ orderStatus \in OrderStatuses
  /\ paymentStatus \in PaymentStatuses
  /\ sess \in [Sessions -> SessionRow]
  /\ rzp \in [Sessions -> RazorpayOrder]
  /\ released \in Nat
  /\ req \in [Reqs -> Request]

-----------------------------------------------------------------------------
(* place_order has committed: an online order awaits payment, a cash-on-   *)
(* delivery order is confirmed at once; both are PENDING_PAYMENT.          *)

Init ==
  /\ orderStatus \in {"PENDING_PAYMENT", "ORDER_CONFIRMED"}
  /\ paymentStatus = "PENDING_PAYMENT"
  /\ sess = [s \in Sessions |-> Absent]
  /\ rzp = [s \in Sessions |-> [created |-> FALSE, failed |-> FALSE, captured |-> 0,
                                refunded |-> 0, events |-> {}]]
  /\ released = 0
  /\ req = [r \in Reqs |-> Idle]

Locked_Dropped(s) == FALSE   \* mutant: the rows are read without FOR UPDATE

\* A refund keeps its FOR UPDATE lock on the session row across the gateway call.
Locked(s) == \E r \in Reqs : req[r].op \in {"refund", "refund_done"} /\ req[r].sid = s

\* A request that raises, times out or dies with its worker is rolled back.
Abort(r) ==
  /\ req[r].op # "idle"
  /\ req' = [req EXCEPT ![r] = Idle]
  /\ UNCHANGED <<orderStatus, paymentStatus, sess, rzp, released>>

-----------------------------------------------------------------------------
(* create_session: three unlocked reads with the gateway call after them.  *)

CreateRead_NoCancelGuard(r) ==   \* mutant: cancelled orders are not refused
  /\ req[r].op = "idle"
  /\ paymentStatus \notin {"PAID", "AUTHORIZED"}
  /\ req' = [req EXCEPT ![r].op = "create_read"]
  /\ UNCHANGED <<orderStatus, paymentStatus, sess, rzp, released>>

CreateRead(r) ==
  /\ req[r].op = "idle"
  /\ orderStatus # "CANCELLED"
  /\ paymentStatus \notin {"PAID", "AUTHORIZED"}
  /\ req' = [req EXCEPT ![r].op = "create_read"]
  /\ UNCHANGED <<orderStatus, paymentStatus, sess, rzp, released>>

\* An active session is resumed (nothing changes); otherwise go on.
CreateCheckActive(r) ==
  /\ req[r].op = "create_read"
  /\ req' = [req EXCEPT ![r] = IF \E s \in Sessions : sess[s].status \in Active
                               THEN Idle ELSE [@ EXCEPT !.op = "create_checked"]]
  /\ UNCHANGED <<orderStatus, paymentStatus, sess, rzp, released>>

\* Razorpay creates its order; an Abort from here on leaves it orphaned.
CreateRazorpayOrder(r, s) ==
  /\ req[r].op = "create_checked"
  /\ ~rzp[s].created
  /\ rzp' = [rzp EXCEPT ![s].created = TRUE]
  /\ req' = [req EXCEPT ![r].op = "create_ordered", ![r].sid = s]
  /\ UNCHANGED <<orderStatus, paymentStatus, sess, released>>

CreateInsert(r) ==
  /\ req[r].op = "create_ordered"
  /\ sess' = [sess EXCEPT ![req[r].sid] = [Absent EXCEPT !.status = "CREATED"]]
  /\ req' = [req EXCEPT ![r] = Idle]
  /\ UNCHANGED <<orderStatus, paymentStatus, rzp, released>>

-----------------------------------------------------------------------------
(* cancel_session: unlocked read and guard, then a blind write.            *)

CancelSessionRead(r, s) ==
  /\ req[r].op = "idle"
  /\ sess[s].status \in Active
  /\ req' = [req EXCEPT ![r].op = "cancel_session", ![r].sid = s]
  /\ UNCHANGED <<orderStatus, paymentStatus, sess, rzp, released>>

CancelSessionWrite(r) ==
  /\ req[r].op = "cancel_session"
  /\ ~Locked(req[r].sid)
  /\ sess' = [sess EXCEPT ![req[r].sid].status = "CANCELLED"]
  /\ req' = [req EXCEPT ![r] = Idle]
  /\ UNCHANGED <<orderStatus, paymentStatus, rzp, released>>

-----------------------------------------------------------------------------
(* cancel_order and admin_cancel: the order is read, later its active      *)
(* sessions, and the whole cancellation is written at the end.             *)

\* The payment states in which the stock and coupon reservation is returned.
Unpaid == paymentStatus \in {"PENDING_PAYMENT", "PAYMENT_FAILED"}

CancelOrderRead_NoGuard(r) ==   \* mutant: the cancellable statuses are not checked
  /\ req[r].op = "idle"
  /\ req' = [req EXCEPT ![r].op = "cancel_order",
                        ![r].release = Unpaid]
  /\ UNCHANGED <<orderStatus, paymentStatus, sess, rzp, released>>

CancelOrderRead(r) ==
  /\ req[r].op = "idle"
  /\ orderStatus \in CustomerCancellable \cup AdminCancellable
  /\ req' = [req EXCEPT ![r].op = "cancel_order",
                        ![r].release = Unpaid]
  /\ UNCHANGED <<orderStatus, paymentStatus, sess, rzp, released>>

CancelOrderReadSessions(r) ==
  /\ req[r].op = "cancel_order"
  /\ req' = [req EXCEPT ![r].op = "cancel_order_sessions",
                        ![r].seen = {s \in Sessions : sess[s].status \in Active}]
  /\ UNCHANGED <<orderStatus, paymentStatus, sess, rzp, released>>

CancelOrderWrite(r) ==
  /\ req[r].op = "cancel_order_sessions"
  /\ \A s \in req[r].seen : ~Locked(s)
  /\ req[r].release => released < MaxCancels
  /\ orderStatus' = "CANCELLED"
  /\ sess' = [s \in Sessions |-> IF s \in req[r].seen
                                 THEN [sess[s] EXCEPT !.status = "CANCELLED"] ELSE sess[s]]
  /\ released' = IF req[r].release THEN released + 1 ELSE released
  /\ req' = [req EXCEPT ![r] = Idle]
  /\ UNCHANGED <<paymentStatus, rzp>>

-----------------------------------------------------------------------------
(* allocate, start_picking, ..., mark_delivered, apply_status (validated   *)
(* against the row as read) and force_status (not validated).  The column  *)
(* is written only if it differs from what was read.                       *)

StageRead(r, to) ==
  /\ req[r].op = "idle"
  /\ CanTransition(orderStatus, to)
  /\ req' = [req EXCEPT ![r].op = "set_status", ![r].to = to]
  /\ UNCHANGED <<orderStatus, paymentStatus, sess, rzp, released>>

ForceRead(r, to) ==
  /\ req[r].op = "idle"
  /\ orderStatus # to
  /\ req' = [req EXCEPT ![r].op = "set_status", ![r].to = to]
  /\ UNCHANGED <<orderStatus, paymentStatus, sess, rzp, released>>

SetStatusWrite(r) ==
  /\ req[r].op = "set_status"
  /\ orderStatus' = req[r].to
  /\ req' = [req EXCEPT ![r] = Idle]
  /\ UNCHANGED <<paymentStatus, sess, rzp, released>>

-----------------------------------------------------------------------------
(* What Razorpay and the customer at its modal do.  A Razorpay order       *)
(* cannot be cancelled, so a modal stays payable after ours is.            *)

AttemptFails(s) ==
  /\ sess[s].status # "ABSENT"
  /\ rzp[s].captured = 0
  /\ rzp' = [rzp EXCEPT ![s].failed = TRUE]
  /\ UNCHANGED <<orderStatus, paymentStatus, sess, released, req>>

Capture(s, a) ==
  /\ sess[s].status # "ABSENT"
  /\ rzp[s].captured = 0
  /\ rzp' = [rzp EXCEPT ![s].captured = a]
  /\ UNCHANGED <<orderStatus, paymentStatus, sess, released, req>>

\* Razorpay accepts a refund up to what is left of the captured amount.
Refundable(s, a) == a > 0 /\ a <= rzp[s].captured - rzp[s].refunded
AfterRefund(s, a) ==
  [rzp EXCEPT ![s].refunded = @ + a, ![s].events = @ \cup {a}]

DashboardRefund(s, a) ==
  /\ Refundable(s, a)
  /\ rzp' = AfterRefund(s, a)
  /\ UNCHANGED <<orderStatus, paymentStatus, sess, released, req>>

-----------------------------------------------------------------------------
(* Handlers under the session and order locks.                             *)

\* _confirm_order_paid: raises unless the payment status may become PAID.
ConfirmOK == PaymentMoveOK(paymentStatus, "PAID", TRUE)
ConfirmOrderPaid_FirstTryOnly ==   \* mutant: a retried payment does not advance the order
  /\ paymentStatus' = "PAID"
  /\ orderStatus' = IF orderStatus = "PENDING_PAYMENT" /\ paymentStatus = "PENDING_PAYMENT"
                    THEN "ORDER_CONFIRMED" ELSE orderStatus
ConfirmOrderPaid_Always ==         \* mutant: the order's status is not looked at
  paymentStatus' = "PAID" /\ orderStatus' = "ORDER_CONFIRMED"
ConfirmOrderPaid ==
  /\ paymentStatus' = "PAID"
  /\ orderStatus' = IF orderStatus = "PENDING_PAYMENT" THEN "ORDER_CONFIRMED" ELSE orderStatus

MarkPaid(s, withId) ==
  sess' = [sess EXCEPT ![s].status = "PAID", ![s].paid = IF withId THEN TRUE ELSE @,
                         ![s].refundKey = NoKey]

\* verify_payment: the checkout callback carries Razorpay's signature over a
\* captured payment.  fetched: the cross-check with Razorpay went through
\* (when the fetch fails, the signature alone decides).
VerifyPayment(s, fetched) ==
  /\ ~Locked(s)
  /\ rzp[s].captured > 0
  /\ sess[s].status \in Active
  /\ orderStatus # "CANCELLED"
  /\ fetched => rzp[s].captured = Amount
  /\ ConfirmOK
  /\ sess' = [sess EXCEPT ![s].status = "PAID", ![s].paid = TRUE]
  /\ ConfirmOrderPaid
  /\ UNCHANGED <<rzp, released, req>>

VerifyReplay(s) ==
  /\ ~Locked(s)
  /\ sess[s].status = "PAID"
  /\ ConfirmOK
  /\ ConfirmOrderPaid
  /\ UNCHANGED <<sess, rzp, released, req>>

WebhookCaptured(s) ==
  /\ ~Locked(s)
  /\ rzp[s].captured = Amount
  /\ sess[s].status \notin {"ABSENT", "PAID"}
  /\ SessionMoveOK(sess[s].status, "PAID", TRUE)
  /\ ConfirmOK
  /\ MarkPaid(s, TRUE)
  /\ ConfirmOrderPaid
  /\ UNCHANGED <<rzp, released, req>>

WebhookCapturedMismatch(s) ==
  /\ ~Locked(s)
  /\ rzp[s].captured \notin {0, Amount}
  /\ sess[s].status \notin {"ABSENT", "PAID"}
  /\ SessionMoveOK(sess[s].status, "FAILED", FALSE)
  /\ sess' = [sess EXCEPT ![s].status = "FAILED", ![s].refundKey = NoKey]
  /\ UNCHANGED <<orderStatus, paymentStatus, rzp, released, req>>

WebhookFailed_Unvalidated(s) ==   \* mutant: the order follows the failed attempt
  /\ ~Locked(s)
  /\ rzp[s].failed
  /\ sess[s].status \notin {"ABSENT", "PAID", "FAILED", "CANCELLED"}
  /\ SessionMoveOK(sess[s].status, "FAILED", FALSE)
  /\ paymentStatus' = "PAYMENT_FAILED"
  /\ sess' = [sess EXCEPT ![s].status = "FAILED", ![s].refundKey = NoKey]
  /\ UNCHANGED <<orderStatus, rzp, released, req>>

WebhookFailed(s) ==
  /\ ~Locked(s)
  /\ rzp[s].failed
  /\ sess[s].status \notin {"ABSENT", "PAID", "FAILED", "CANCELLED"}
  /\ SessionMoveOK(sess[s].status, "FAILED", FALSE)
  /\ \/ paymentStatus = "PAID" /\ UNCHANGED paymentStatus
     \/ PaymentMoveOK(paymentStatus, "PAYMENT_FAILED", FALSE) /\ paymentStatus' = "PAYMENT_FAILED"
  /\ sess' = [sess EXCEPT ![s].status = "FAILED", ![s].refundKey = NoKey]
  /\ UNCHANGED <<orderStatus, rzp, released, req>>

\* order.paid names the Razorpay order, not the payment: no payment id is stored.
WebhookOrderPaid(s) ==
  /\ ~Locked(s)
  /\ rzp[s].captured = Amount
  /\ sess[s].status \in Active
  /\ ConfirmOK
  /\ MarkPaid(s, FALSE)
  /\ ConfirmOrderPaid
  /\ UNCHANGED <<rzp, released, req>>

\* The order follows a refund unless it is there already or further.
RefundStatus(total) == IF total >= Amount THEN "REFUNDED" ELSE "PARTIALLY_REFUNDED"
OrderFollowsOK(target) ==
  paymentStatus \in {target, "REFUNDED"} \/ PaymentMoveOK(paymentStatus, target, FALSE)
OrderFollows(target) ==
  paymentStatus' = IF paymentStatus \in {target, "REFUNDED"} THEN paymentStatus ELSE target

\* refund.processed carries the amount of one refund, not the running total;
\* the session is found by its payment id.
WebhookRefund(s, a) ==
  LET total == IF a > sess[s].refunded THEN a ELSE sess[s].refunded
      target == RefundStatus(total) IN
  /\ ~Locked(s)
  /\ sess[s].paid
  /\ a \in rzp[s].events
  /\ sess[s].status \notin {target, "REFUNDED"}
  /\ OrderFollowsOK(target)
  /\ sess' = IF sess[s].status \in {"PAID", "PARTIALLY_REFUNDED", "REFUND_PENDING"}
             THEN [sess EXCEPT ![s].status = target, ![s].refunded = total, ![s].refundKey = NoKey]
             ELSE sess
  /\ OrderFollows(target)
  /\ UNCHANGED <<orderStatus, rzp, released, req>>

\* Razorpay lists the payment as captured until it is refunded in full.
ListedCaptured(s) == rzp[s].captured > 0 /\ rzp[s].refunded < rzp[s].captured
ListedRefunded_Any(s) == rzp[s].refunded > 0   \* mutant: any refund counts as full
ListedRefunded(s) == rzp[s].captured > 0 /\ rzp[s].refunded = rzp[s].captured

Reconcile_AnyPayment(s) ==   \* mutant: the first payment listed, failed or captured
  /\ ~Locked(s)
  /\ sess[s].status \in Active
  /\ rzp[s].failed \/ (ListedCaptured(s) /\ rzp[s].captured = Amount)
  /\ ConfirmOK
  /\ MarkPaid(s, TRUE)
  /\ ConfirmOrderPaid
  /\ UNCHANGED <<rzp, released, req>>

Reconcile(s) ==
  /\ ~Locked(s)
  /\ sess[s].status \in Active
  /\ ListedCaptured(s) /\ rzp[s].captured = Amount
  /\ ConfirmOK
  /\ MarkPaid(s, TRUE)
  /\ ConfirmOrderPaid
  /\ UNCHANGED <<rzp, released, req>>

\* audit_and_reconcile_session as reconcile_batch runs it: an exception from
\* the order's validation is caught and what was flushed is committed.
AuditCaptured(s) ==
  /\ ~Locked(s)
  /\ sess[s].status \in Active
  /\ ListedCaptured(s) /\ rzp[s].captured = Amount
  /\ MarkPaid(s, TRUE)
  /\ IF ConfirmOK THEN ConfirmOrderPaid ELSE UNCHANGED <<paymentStatus, orderStatus>>
  /\ UNCHANGED <<rzp, released, req>>

AuditRefunded(s) ==
  /\ ~Locked(s)
  /\ sess[s].status \in {"PAID", "PARTIALLY_REFUNDED"}
  /\ ListedRefunded(s)
  /\ sess' = [sess EXCEPT ![s].status = "REFUNDED", ![s].refunded = Amount, ![s].refundKey = NoKey]
  /\ paymentStatus' = IF PaymentMoveOK(paymentStatus, "REFUNDED", FALSE)
                      THEN "REFUNDED" ELSE paymentStatus
  /\ UNCHANGED <<orderStatus, rzp, released, req>>

-----------------------------------------------------------------------------
(* refund_payment (admin): lock and check, call Razorpay, write.           *)

RefundRead(r, s, a, k) ==
  /\ req[r].op = "idle"
  /\ ~Locked(s)
  /\ k = NoKey \/ sess[s].refundKey # k
  /\ sess[s].status \in {"PAID", "PARTIALLY_REFUNDED", "REFUND_PENDING"}
  /\ sess[s].paid
  /\ a > 0 /\ a <= Amount - sess[s].refunded
  /\ req' = [req EXCEPT ![r].op = "refund", ![r].sid = s, ![r].amount = a, ![r].key = k]
  /\ UNCHANGED <<orderStatus, paymentStatus, sess, rzp, released>>

RefundGateway(r) ==
  LET s == req[r].sid IN
  /\ req[r].op = "refund"
  /\ Refundable(s, req[r].amount)
  /\ rzp' = AfterRefund(s, req[r].amount)
  /\ req' = [req EXCEPT ![r].op = "refund_done"]
  /\ UNCHANGED <<orderStatus, paymentStatus, sess, released>>

RefundWrite(r) ==
  LET s == req[r].sid
      total == sess[s].refunded + req[r].amount
      target == RefundStatus(total) IN
  /\ req[r].op = "refund_done"
  /\ SessionMoveOK(sess[s].status, target, FALSE)
  /\ OrderFollowsOK(target)
  /\ sess' = [sess EXCEPT ![s].status = target, ![s].refunded = total,
                          ![s].refundKey = IF req[r].key = NoKey THEN @ ELSE req[r].key]
  /\ OrderFollows(target)
  /\ req' = [req EXCEPT ![r] = Idle]
  /\ UNCHANGED <<orderStatus, rzp, released>>

-----------------------------------------------------------------------------

\* The routes.  A request reads and writes without a lock between its steps...
CreatePaymentSession(r) ==
  \/ CreateRead(r)
  \/ CreateCheckActive(r)
  \/ \E s \in Sessions : CreateRazorpayOrder(r, s)
  \/ CreateInsert(r)

CancelPaymentSession(r) ==
  \/ \E s \in Sessions : CancelSessionRead(r, s)
  \/ CancelSessionWrite(r)

CancelOrder(r) ==
  \/ CancelOrderRead(r)
  \/ CancelOrderReadSessions(r)
  \/ CancelOrderWrite(r)

SetOrderStatus(r) ==
  \/ \E to \in StageTargets : StageRead(r, to)
  \/ \E to \in ForceTargets : ForceRead(r, to)
  \/ SetStatusWrite(r)

RefundPaymentSession(r) ==
  \/ \E s \in Sessions, a \in 1..Amount, k \in Keys \cup {NoKey} : RefundRead(r, s, a, k)
  \/ RefundGateway(r)
  \/ RefundWrite(r)

RequestStep(r) ==
  \/ CreatePaymentSession(r)
  \/ CancelPaymentSession(r)
  \/ CancelOrder(r)
  \/ SetOrderStatus(r)
  \/ RefundPaymentSession(r)
  \/ Abort(r)

RazorpayStep(s) ==
  \/ AttemptFails(s)
  \/ \E a \in CapturedAmounts : Capture(s, a)
  \/ \E a \in 1..Amount : DashboardRefund(s, a)

\* ... or is one transaction under the session's and the order's locks.
VerifyCallback(s) == VerifyReplay(s) \/ \E fetched \in BOOLEAN : VerifyPayment(s, fetched)

RazorpayWebhook(s) ==
  \/ WebhookCaptured(s)
  \/ WebhookCapturedMismatch(s)
  \/ WebhookFailed(s)
  \/ WebhookOrderPaid(s)
  \/ \E a \in 1..Amount : WebhookRefund(s, a)

ReconcileBatch(s) == AuditCaptured(s) \/ AuditRefunded(s)

LockedStep(s) ==
  VerifyCallback(s) \/ RazorpayWebhook(s) \/ Reconcile(s) \/ ReconcileBatch(s)

Next ==
  \/ \E r \in Reqs : RequestStep(r)
  \/ \E s \in Sessions : RazorpayStep(s) \/ LockedStep(s)

Spec == Init /\ [][Next]_vars

\* Razorpay redelivers a webhook until it is acknowledged.
FairSpec == Spec /\ \A s \in Sessions : WF_vars(WebhookCaptured(s))

-----------------------------------------------------------------------------
(* Properties that hold however requests, webhooks and refunds interleave. *)

\* Nothing is recorded as paid for which Razorpay captured no money: neither
\* a session nor, through any of its sessions, the order.
SettledIsCaptured ==
  /\ \A s \in Sessions : sess[s].status \in Settled => rzp[s].captured > 0
  /\ paymentStatus \in Settled => \E s \in Sessions : rzp[s].captured > 0

PaidBackInFull(s) == rzp[s].captured > 0 /\ rzp[s].refunded = rzp[s].captured

\* The refunds we book for a session never exceed what Razorpay paid back,
\* although refund requests, refund webhooks and audits all book them (after
\* an amount mismatch a full refund is booked at the order's amount).
RefundsAreReal ==
  \A s \in Sessions : sess[s].refunded <= rzp[s].refunded \/ PaidBackInFull(s)

\* What the two above rest on.  Razorpay's books: single refunds add up, within
\* what was captured.  A session with a payment id, like a settled one, has a
\* captured payment.  A refund in flight excludes every other on its session,
\* and once Razorpay executed it there is room for it in our books.
MoneyBounded ==
  \A s \in Sessions : /\ rzp[s].refunded <= rzp[s].captured
                      /\ \A a \in rzp[s].events : a <= rzp[s].refunded
PaidHasPayment ==
  \A s \in Sessions : sess[s].paid \/ sess[s].status \in Settled => rzp[s].captured > 0
Refunding(r) == req[r].op \in {"refund", "refund_done"}
RefundInFlight ==
  \A r \in Reqs : Refunding(r) =>
    /\ req[r].sid \in Sessions /\ req[r].amount > 0
    /\ req[r].op = "refund_done" =>
         \/ sess[req[r].sid].refunded + req[r].amount <= rzp[req[r].sid].refunded
         \/ PaidBackInFull(req[r].sid)
RefundsExclusive ==
  \A r1, r2 \in Reqs :
    Refunding(r1) /\ Refunding(r2) /\ req[r1].sid = req[r2].sid => r1 = r2
OrderClaim ==
  /\ paymentStatus \in {"PENDING_PAYMENT", "PAID", "PAYMENT_FAILED"} \cup Settled
  /\ paymentStatus \in Settled => \E s \in Sessions : rzp[s].captured > 0
IndInv ==
  /\ TypeOK /\ MoneyBounded /\ PaidHasPayment /\ RefundsAreReal
  /\ RefundInFlight /\ RefundsExclusive /\ OrderClaim

\* The order's payment status is a claim that follows the money at Razorpay,
\* step by step and never ahead of it (PaymentPromise).
Promise == INSTANCE PaymentPromise WITH
  Payments <- Sessions,
  claim <- IF paymentStatus \in Settled THEN paymentStatus ELSE "UNPAID",
  taken <- [s \in Sessions |-> rzp[s].captured],
  returned <- [s \in Sessions |-> rzp[s].refunded]
PromiseKept == Promise!Spec

\* A late payment.failed of one session never takes back the payment another
\* one made: the order's payment status only moves along its table.
PaymentNeverRegresses == [][PaymentMoveOK(paymentStatus, paymentStatus', TRUE)]_vars

\* An order that was paid is no longer waiting for its payment (only
\* force_status could put it back: PENDING_PAYMENT is no target of the run).
PaidIsConfirmed == paymentStatus \in Settled => orderStatus # "PENDING_PAYMENT"

-----------------------------------------------------------------------------
(* Properties that hold when requests are served one at a time, webhooks   *)
(* and gateway events interleaving freely (one request slot).              *)

ActiveSessions == {s \in Sessions : sess[s].status \in Active}

\* Retrying create_session resumes the active session, and cancelling an order
\* leaves none through which it could still be paid.
OneActiveSession == Cardinality(ActiveSessions) <= IF orderStatus = "CANCELLED" THEN 0 ELSE 1

\* CANCELLED is terminal: neither a payment nor an admin step leaves it.
CancelledIsFinal == [][orderStatus = "CANCELLED" => orderStatus' = "CANCELLED"]_vars

\* Stock and coupon use go back at most once, and only for a cancelled order.
ReleasedOnce == released <= 1 /\ (released = 1 => orderStatus = "CANCELLED")

-----------------------------------------------------------------------------
(* Liveness.                                                               *)

\* The money of session s is captured in full; the wait for its recording is over.
CaptureDue(s) == rzp[s].captured = Amount /\ sess[s].status \in Active \cup {"FAILED"}
CaptureClosed(s) == sess[s].status = "CANCELLED" \/ paymentStatus \in Settled

\* A captured payment whose session was not cancelled is recorded in the end,
\* even if payment.failed came first, and the order with it.
CaptureIsRecorded == \A s \in Sessions : CaptureDue(s) ~> CaptureClosed(s)

-----------------------------------------------------------------------------
(* Promises the repository states and the code does not keep.              *)

\* payment_service.py:817 "a cancelled order must never be charged".
CancelledNeverCharged ==
  [][orderStatus = "CANCELLED" /\ paymentStatus' = "PAID" => paymentStatus = "PAID"]_vars
=============================================================================
