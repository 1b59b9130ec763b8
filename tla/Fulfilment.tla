----------------------------- MODULE Fulfilment -----------------------------
(***************************************************************************)
(* One order on its way to the customer (OrderService's desk operations):  *)
(* its status, and the rows of its status history, which the tracking page *)
(* shows.                                                                  *)
(*                                                                         *)
(* An operation reads the order without a lock and commits later, so two   *)
(* of them may start from the same row: the status of the later commit     *)
(* wins, and the history rows of both stay.  A payment's confirmation      *)
(* holds the order's lock from its read to its commit.                     *)
(*                                                                         *)
(* What a cancellation releases is in Payments and Checkout.  The timeline *)
(* (a JSON copy of the history) and the operations that only write to it,  *)
(* carrier, location, handler and notes are left out.                      *)
(***************************************************************************)
EXTENDS StatusRules, Integers, FiniteSets

CONSTANTS
  Desks,          \* operations that may overlap
  ForceTargets,   \* statuses force-status is used for
  MaxForced,      \* bound: forced steps
  MaxHistory      \* bound: rows of the history

VARIABLES
  status, owner,   \* columns of the order's row
  history,         \* rows of orders_order_status_history
  desk             \* operations under way

vars == <<status, owner, history, desk>>

NoStatus == "None"   \* from_status of the first history row
Idle == [op |-> "idle", to |-> NoStatus, status |-> NoStatus]
Step(from, to, forced) == [from |-> from, to |-> to, forced |-> forced]

\* place_order seeds the history; a guest's order has no customer.
Init ==
  /\ status \in {"PENDING_PAYMENT", "ORDER_CONFIRMED"}
  /\ owner \in {"guest", "customer"}
  /\ history = {Step(NoStatus, status, FALSE)}
  /\ desk = [d \in Desks |-> Idle]

Read(d, op, to) ==
  /\ desk[d] = Idle
  /\ desk' = [desk EXCEPT ![d] = [op |-> op, to |-> to, status |-> status]]
  /\ UNCHANGED <<status, owner, history>>

\* allocate, start_picking, mark_packed, mark_ready, dispatch_order,
\* mark_out_for_delivery and mark_delivered.
Stages == {"ALLOCATED", "PICKING", "PACKED", "READY_TO_DISPATCH", "SHIPPED",
           "OUT_FOR_DELIVERY", "DELIVERED"}
Stage(d, to) == to \in Stages /\ CanTransition(status, to) /\ Read(d, "set", to)

\* apply_status: any edge of the table.
ApplyStatus(d, to) == CanTransition(status, to) /\ Read(d, "set", to)

Forced == {step \in history : step.forced} \cup {d \in Desks : desk[d].op = "force"}

\* force_status: no edge is needed.
ForceStatus(d, to) == Cardinality(Forced) < MaxForced /\ Read(d, "force", to)

\* cancel_order and admin_cancel.
Cancel(d) ==
  \/ owner = "customer" /\ status \in CustomerCancellable /\ Read(d, "set", "CANCELLED")
  \/ status \in AdminCancellable /\ Read(d, "set", "CANCELLED")

\* claim_guest_orders.
ClaimGuest(d) == owner = "guest" /\ Read(d, "claim", NoStatus)

\* _set_status and the commit, written over whatever the row has become; a
\* status equal to the one that was read is not sent.
SetStatus(d) ==
  /\ desk[d].op \in {"set", "force"} /\ Cardinality(history) < MaxHistory
  /\ status' = IF desk[d].to = desk[d].status THEN status ELSE desk[d].to
  /\ history' = history \cup {Step(desk[d].status, desk[d].to, desk[d].op = "force")}
  /\ desk' = [desk EXCEPT ![d] = Idle]
  /\ UNCHANGED owner

Claim(d) ==
  /\ desk[d].op = "claim"
  /\ owner' = "customer"
  /\ desk' = [desk EXCEPT ![d] = Idle]
  /\ UNCHANGED <<status, history>>

Abort(d) ==
  /\ desk[d] # Idle
  /\ desk' = [desk EXCEPT ![d] = Idle]
  /\ UNCHANGED <<status, owner, history>>

ConfirmPaid_OneStep ==   \* mutant: the two steps of a confirmation leave one row
  /\ status = "PENDING_PAYMENT"
  /\ status' = "ORDER_CONFIRMED"
  /\ history' = history \cup {Step("PAYMENT_CONFIRMED", "ORDER_CONFIRMED", FALSE)}
  /\ UNCHANGED <<owner, desk>>

\* _confirm_order_paid: two steps and two rows under the order's lock.
ConfirmPaid ==
  /\ status = "PENDING_PAYMENT"
  /\ status' = "ORDER_CONFIRMED"
  /\ history' = history \cup {Step("PENDING_PAYMENT", "PAYMENT_CONFIRMED", FALSE),
                              Step("PAYMENT_CONFIRMED", "ORDER_CONFIRMED", FALSE)}
  /\ UNCHANGED <<owner, desk>>

\* The desk's routes, and the customer's.
DeskCalls(d) ==
  \/ \E to \in Stages : Stage(d, to)
  \/ \E to \in OrderStatuses : ApplyStatus(d, to)
  \/ \E to \in ForceTargets : ForceStatus(d, to)
CustomerCalls(d) == Cancel(d) \/ ClaimGuest(d)

Next ==
  \/ \E d \in Desks : DeskCalls(d) \/ CustomerCalls(d) \/ SetStatus(d) \/ Claim(d) \/ Abort(d)
  \/ ConfirmPaid

Spec == Init /\ [][Next]_vars

-----------------------------------------------------------------------------

Reached == {step.to : step \in history}

\* Whatever operations overlap, the tracking page explains the order: its
\* status is where some recorded step led, every step starts where another
\* one led, and a delivery that nobody forced passed every stage of the desk.
\* (get_tracking: "real, stored order progress only")
TrackingExplains ==
  /\ status \in Reached
  /\ \A step \in history : step.from \in Reached \cup {NoStatus}
  /\ status = "DELIVERED" /\ (\A step \in history : ~step.forced) => Stages \subseteq Reached
=============================================================================
