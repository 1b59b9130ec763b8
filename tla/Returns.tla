------------------------------- MODULE Returns -------------------------------
(***************************************************************************)
(* Returns against one delivered order: the customer's return requests     *)
(* (OrderService.create_return) and the admin desk that takes a return     *)
(* from request to refund (ReturnService).                                 *)
(*                                                                         *)
(* create_return and the five desk steps up to the inspection read without *)
(* a lock, decide, and overwrite at the commit.  The two refund steps lock *)
(* the return row first, so each is one action.                            *)
(***************************************************************************)
EXTENDS Integers, Sequences, FiniteSets, Functions

CONSTANTS
  Lines,      \* order lines
  Bought,     \* units bought, per line
  Forms,      \* return requests customers may submit: sequences of [line, quantity]
  Returns,    \* identities of returns
  Reqs,       \* unlocked requests in flight
  Creators    \* the requests that may carry a return form

ASSUME BoughtAssumption == Bought \in [Lines -> Nat]
ASSUME FormsAssumption == Forms \subseteq Seq([line : Lines, quantity : Nat \ {0}])
ASSUME ReturnsAssumption == IsFiniteSet(Returns)
ASSUME CreatorsAssumption == Creators \subseteq Reqs

VARIABLES
  returnedQty,  \* OrderItemModel.returned_quantity
  rets,         \* ReturnOrderModel rows with their items
  req           \* unlocked requests in flight

vars == <<returnedQty, rets, req>>

-----------------------------------------------------------------------------

ReturnStatuses ==
  {"RETURN_REQUESTED", "APPROVED", "REJECTED", "PICKUP_SCHEDULED", "RECEIVED",
   "INSPECTED", "REFUND_INITIATED", "REFUNDED"}

\* RETURN_TRANSITIONS
CanTransition(from, to) ==
  \/ from = "RETURN_REQUESTED" /\ to \in {"APPROVED", "REJECTED"}
  \/ from = "APPROVED"         /\ to = "PICKUP_SCHEDULED"
  \/ from = "PICKUP_SCHEDULED" /\ to = "RECEIVED"
  \/ from = "RECEIVED"         /\ to = "INSPECTED"
  \/ from = "INSPECTED"        /\ to = "REFUND_INITIATED"
  \/ from = "REFUND_INITIATED" /\ to = "REFUNDED"

\* received, inspected: package_condition and inspection_condition are filled.
ReturnRow ==
  [status : ReturnStatuses \cup {"ABSENT"}, items : Forms \cup {<<>>},
   received : BOOLEAN, inspected : BOOLEAN,
   refundStatus : {"NOT_REQUESTED", "REQUESTED", "REFUNDED"}]

AbsentReturn == [status |-> "ABSENT", items |-> <<>>, received |-> FALSE, inspected |-> FALSE,
                 refundStatus |-> "NOT_REQUESTED"]

\* seen: returned_quantity of the lines as read.
Request ==
  [op : {"idle"}] \cup
  [op : {"create"}, form : Forms, seen : [Lines -> Nat]] \cup
  [op : {"step"}, ret : Returns, to : ReturnStatuses]

Idle == [op |-> "idle"]

TypeOK ==
  /\ returnedQty \in [Lines -> Nat]
  /\ rets \in [Returns -> ReturnRow]
  /\ req \in [Reqs -> Request]

Init ==
  /\ returnedQty = [l \in Lines |-> 0]
  /\ rets = [x \in Returns |-> AbsentReturn]
  /\ req = [r \in Reqs |-> Idle]

\* A request that raises or dies is rolled back.
Abort(r) ==
  /\ req[r].op # "idle"
  /\ req' = [req EXCEPT ![r] = Idle]
  /\ UNCHANGED <<returnedQty, rets>>

-----------------------------------------------------------------------------
(* create_return                                                           *)

Units(form, l) ==
  SumFunction([i \in DOMAIN form |-> IF form[i].line = l THEN form[i].quantity ELSE 0])

\* Each entry of the form is compared with what its line has left.
Fits(form) ==
  \A i \in DOMAIN form : form[i].quantity <= Bought[form[i].line] - returnedQty[form[i].line]

CreateRead(r, form) ==
  /\ r \in Creators
  /\ req[r].op = "idle"
  /\ Fits(form)
  /\ req' = [req EXCEPT ![r] = [op |-> "create", form |-> form, seen |-> returnedQty]]
  /\ UNCHANGED <<returnedQty, rets>>

CreateCommit_KeepsQty(r, x) ==   \* mutant: the lines are not updated
  /\ req[r].op = "create"
  /\ rets[x].status = "ABSENT"
  /\ rets' = [rets EXCEPT ![x] = [AbsentReturn EXCEPT !.status = "RETURN_REQUESTED",
                                                      !.items = req[r].form]]
  /\ req' = [req EXCEPT ![r] = Idle]
  /\ UNCHANGED returnedQty

CreateCommit(r, x) ==
  /\ req[r].op = "create"
  /\ rets[x].status = "ABSENT"
  /\ rets' = [rets EXCEPT ![x] = [AbsentReturn EXCEPT !.status = "RETURN_REQUESTED",
                                                      !.items = req[r].form]]
  /\ returnedQty' =
       [l \in Lines |-> IF Units(req[r].form, l) > 0
                        THEN req[r].seen[l] + Units(req[r].form, l) ELSE returnedQty[l]]
  /\ req' = [req EXCEPT ![r] = Idle]

-----------------------------------------------------------------------------
(* approve_return, reject_return, schedule_pickup, receive_return and      *)
(* inspect_return.                                                         *)

DeskSteps == {"APPROVED", "REJECTED", "PICKUP_SCHEDULED", "RECEIVED", "INSPECTED"}

StepRead(r, x, to) ==
  /\ req[r].op = "idle"
  /\ CanTransition(rets[x].status, to)
  /\ req' = [req EXCEPT ![r] = [op |-> "step", ret |-> x, to |-> to]]
  /\ UNCHANGED <<returnedQty, rets>>

\* The columns a step sets.
Stepped(row, to) ==
  [row EXCEPT !.status = to,
              !.received = IF to = "RECEIVED" THEN TRUE ELSE @,
              !.inspected = IF to = "INSPECTED" THEN TRUE ELSE @]

StepCommit(r) ==
  /\ req[r].op = "step"
  /\ rets' = [rets EXCEPT ![req[r].ret] = Stepped(@, req[r].to)]
  /\ req' = [req EXCEPT ![r] = Idle]
  /\ UNCHANGED returnedQty

-----------------------------------------------------------------------------
(* initiate_refund and complete_refund, under the row lock; repeating one  *)
(* that is done changes nothing.                                           *)

InitiateRefund_Early(x) ==   \* mutant: a received package is refunded unseen
  /\ rets[x].status \in {"RECEIVED", "INSPECTED"}
  /\ rets' = [rets EXCEPT ![x] = [@ EXCEPT !.status = "REFUND_INITIATED",
                                           !.refundStatus = "REQUESTED"]]
  /\ UNCHANGED <<returnedQty, req>>

InitiateRefund(x) ==
  /\ CanTransition(rets[x].status, "REFUND_INITIATED")
  /\ rets' = [rets EXCEPT ![x] = [@ EXCEPT !.status = "REFUND_INITIATED",
                                           !.refundStatus = "REQUESTED"]]
  /\ UNCHANGED <<returnedQty, req>>

CompleteRefund(x) ==
  /\ CanTransition(rets[x].status, "REFUNDED")
  /\ rets' = [rets EXCEPT ![x] = [@ EXCEPT !.status = "REFUNDED", !.refundStatus = "REFUNDED"]]
  /\ UNCHANGED <<returnedQty, req>>

-----------------------------------------------------------------------------

CreateReturn(r) ==
  \/ \E form \in Forms : CreateRead(r, form)
  \/ \E x \in Returns : CreateCommit(r, x)

ReturnsDesk(r) ==
  \/ \E x \in Returns, to \in DeskSteps : StepRead(r, x, to)
  \/ StepCommit(r)

Refunds(x) == InitiateRefund(x) \/ CompleteRefund(x)

Next ==
  \/ \E r \in Reqs : CreateReturn(r) \/ ReturnsDesk(r) \/ Abort(r)
  \/ \E x \in Returns : Refunds(x)

Spec == Init /\ [][Next]_vars

-----------------------------------------------------------------------------
(* A property of any interleaving.                                         *)

\* Money goes back only for a package that arrived and was inspected, however
\* many desk steps overlap and overwrite each other's status.
RefundedWasInspected ==
  \A x \in Returns :
    rets[x].refundStatus # "NOT_REQUESTED" => rets[x].received /\ rets[x].inspected

\* What it rests on, of the statuses a return has and of those about to be written.
StatusHasHistory ==
  /\ \A x \in Returns :
       /\ rets[x].status = "ABSENT" => ~rets[x].received
       /\ rets[x].status = "RECEIVED" => rets[x].received
       /\ rets[x].status \in {"INSPECTED", "REFUND_INITIATED", "REFUNDED"} =>
            rets[x].received /\ rets[x].inspected
  /\ \A r \in Reqs : req[r].op = "step" =>
       /\ req[r].ret \in Returns /\ req[r].to \in DeskSteps
       /\ req[r].to = "INSPECTED" => rets[req[r].ret].received

-----------------------------------------------------------------------------
(* Properties when one return form is handled at a time and no form names  *)
(* a line twice; desk requests overlap freely.                             *)

\* The units of all return orders are those booked on the order lines, and no
\* line is returned beyond the units it was bought with (order_service.py:945).
UnitsAccounted ==
  \A l \in Lines :
    /\ returnedQty[l] = SumFunction([x \in Returns |-> Units(rets[x].items, l)])
    /\ returnedQty[l] <= Bought[l]
=============================================================================
