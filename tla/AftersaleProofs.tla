--------------------------- MODULE AftersaleProofs ---------------------------
(***************************************************************************)
(* What happens to an order after it was placed, for any number of         *)
(* requests, lines, forms, stock rows and movements.                       *)
(*                                                                         *)
(* No refund without an inspection: the desk's unlocked steps can undo     *)
(* each other's status, so the argument is about the history each status   *)
(* stands for, which no step erases.  The units of an order: what its      *)
(* lines count is the sum of what its returns hold.  The tracking page:    *)
(* where a step about to be recorded starts, another one led.  The         *)
(* register: what an adjustment is about to write is already explained.    *)
(***************************************************************************)
EXTENDS Aftersale, Sums

-----------------------------------------------------------------------------
(* Refunds.                                                                *)

RowsTyped ==
  /\ rets \in [Returns -> ReturnRow]
  /\ req = [r \in Reqs |-> req[r]]
  /\ \A r \in Reqs : req[r].op = "create" => req[r].form \in Forms
HistoryInv == RowsTyped /\ StatusHasHistory /\ RefundedWasInspected

LEMMA HistoryInit == Init => HistoryInv
BY DEF Init, HistoryInv, RowsTyped, StatusHasHistory, RefundedWasInspected, ReturnRow,
       AbsentReturn, Idle

\* A step that changes one request.
LEMMA OneRequest ==
  ASSUME RowsTyped, NEW r \in Reqs, NEW new, req' = [req EXCEPT ![r] = new]
  PROVE  /\ req' = [q \in Reqs |-> req'[q]]
         /\ req'[r] = new
         /\ \A q \in Reqs \ {r} : req'[q] = req[q]
BY DEF RowsTyped

\* The row a step writes has the history its statuses stand for.
RowJustified(row) ==
  /\ row \in ReturnRow
  /\ row.status # "ABSENT"
  /\ row.status = "RECEIVED" => row.received
  /\ row.status \in {"INSPECTED", "REFUND_INITIATED", "REFUNDED"} => row.received /\ row.inspected
  /\ row.refundStatus # "NOT_REQUESTED" => row.received /\ row.inspected

\* A step that writes one return, keeping that it was received, and ends at
\* most one request.
LEMMA RowWritten ==
  ASSUME HistoryInv, NEW x \in Returns, NEW row, RowJustified(row),
         rets' = [rets EXCEPT ![x] = row],
         rets[x].received => row.received,
         UNCHANGED req \/ \E r \in Reqs : req' = [req EXCEPT ![r] = Idle]
  PROVE  HistoryInv'
<1>1. rets' \in [Returns -> ReturnRow] /\ rets'[x] = row
      /\ \A y \in Returns \ {x} : rets'[y] = rets[y]
  BY DEF HistoryInv, RowsTyped, RowJustified
<1>2. /\ req' = [q \in Reqs |-> req'[q]]
      /\ \A q \in Reqs : req'[q] = req[q] \/ req'[q] = Idle
  BY OneRequest DEF HistoryInv, RowsTyped
<1>3. Idle.op = "idle"
  BY DEF Idle
<1>4. RowsTyped'
  BY <1>1, <1>2, <1>3 DEF HistoryInv, RowsTyped
<1>5. RefundedWasInspected'
  BY <1>1 DEF HistoryInv, RefundedWasInspected, RowJustified
<1>6. \A y \in Returns : rets[y].received => rets'[y].received
  BY <1>1
<1>7. StatusHasHistory'
  BY <1>1, <1>2, <1>3, <1>6 DEF HistoryInv, StatusHasHistory, RowJustified
<1> QED
  BY <1>4, <1>5, <1>7 DEF HistoryInv

LEMMA HistoryStep == HistoryInv /\ [Next]_vars => HistoryInv'
<1> SUFFICES ASSUME HistoryInv, [Next]_vars PROVE HistoryInv'
  OBVIOUS
<1>0. RowsTyped /\ StatusHasHistory /\ RefundedWasInspected
  BY DEF HistoryInv
<1>1. ASSUME NEW r \in Reqs, NEW form \in Forms, CreateRead(r, form) PROVE HistoryInv'
  <2> DEFINE new == [op |-> "create", form |-> form, seen |-> returnedQty]
  <2>1. req' = [req EXCEPT ![r] = new] /\ UNCHANGED rets
    BY <1>1 DEF CreateRead
  <2>2. new.op = "create" /\ new.form \in Forms
    OBVIOUS
  <2> HIDE DEF new
  <2>3. RowsTyped' /\ StatusHasHistory' /\ RefundedWasInspected'
    BY <1>0, <2>1, <2>2, OneRequest DEF RowsTyped, StatusHasHistory, RefundedWasInspected
  <2> QED
    BY <2>3 DEF HistoryInv
<1>2. ASSUME NEW r \in Reqs, NEW x \in Returns, CreateCommit(r, x) PROVE HistoryInv'
  <2> DEFINE row == [AbsentReturn EXCEPT !.status = "RETURN_REQUESTED", !.items = req[r].form]
  <2>1. rets' = [rets EXCEPT ![x] = row] /\ req' = [req EXCEPT ![r] = Idle]
    BY <1>2 DEF CreateCommit
  <2>2. RowJustified(row)
    BY <1>0, <1>2
       DEF CreateCommit, RowsTyped, RowJustified, ReturnRow, AbsentReturn, ReturnStatuses
  <2>3. ~rets[x].received
    BY <1>0, <1>2 DEF CreateCommit, StatusHasHistory
  <2> HIDE DEF row
  <2> QED
    BY <2>1, <2>2, <2>3, RowWritten
<1>3. ASSUME NEW r \in Reqs, NEW x \in Returns, NEW to \in DeskSteps, StepRead(r, x, to)
      PROVE  HistoryInv'
  <2> DEFINE new == [op |-> "step", ret |-> x, to |-> to]
  <2>1. req' = [req EXCEPT ![r] = new] /\ UNCHANGED rets
    BY <1>3 DEF StepRead
  <2>2. to = "INSPECTED" => rets[x].received
    BY <1>0, <1>3 DEF StepRead, CanTransition, StatusHasHistory
  <2>3. new.op = "step" /\ new.ret = x /\ new.to = to
    OBVIOUS
  <2> HIDE DEF new
  <2>4. RowsTyped' /\ RefundedWasInspected'
    BY <1>0, <2>1, <2>3, OneRequest DEF RowsTyped, RefundedWasInspected
  <2>5. req'[r] = new /\ \A q \in Reqs \ {r} : req'[q] = req[q]
    BY <1>0, <2>1, OneRequest
  <2>6. StatusHasHistory'
    BY <1>0, <2>1, <2>2, <2>3, <2>5 DEF StatusHasHistory
  <2> QED
    BY <2>4, <2>6 DEF HistoryInv
<1>4. ASSUME NEW r \in Reqs, StepCommit(r) PROVE HistoryInv'
  <2> DEFINE x == req[r].ret
             to == req[r].to
             row == Stepped(rets[x], to)
  <2>1. x \in Returns /\ to \in DeskSteps /\ (to = "INSPECTED" => rets[x].received)
    BY <1>0, <1>4 DEF StepCommit, StatusHasHistory
  <2>2. rets' = [rets EXCEPT ![x] = row] /\ req' = [req EXCEPT ![r] = Idle]
    BY <1>4, <2>1 DEF StepCommit, RowsTyped
  <2>3. rets[x] \in ReturnRow
    BY <1>0, <2>1 DEF RowsTyped
  <2>4. rets[x].refundStatus # "NOT_REQUESTED" => rets[x].received /\ rets[x].inspected
    BY <1>0, <2>1 DEF RefundedWasInspected
  <2>5. RowJustified(row) /\ (rets[x].received => row.received)
    BY <2>1, <2>3, <2>4 DEF RowJustified, Stepped, ReturnRow, DeskSteps, ReturnStatuses
  <2> HIDE DEF row, x
  <2> QED
    BY <2>1, <2>2, <2>5, RowWritten
<1>5. ASSUME NEW r \in Reqs, Abort(r) PROVE HistoryInv'
  <2>1. req' = [req EXCEPT ![r] = Idle] /\ UNCHANGED rets
    BY <1>5 DEF Abort
  <2>2. RowsTyped' /\ StatusHasHistory' /\ RefundedWasInspected'
    BY <1>0, <2>1, OneRequest DEF RowsTyped, StatusHasHistory, RefundedWasInspected, Idle
  <2> QED
    BY <2>2 DEF HistoryInv
<1>6. ASSUME NEW x \in Returns, InitiateRefund(x) PROVE HistoryInv'
  <2> DEFINE row == [rets[x] EXCEPT !.status = "REFUND_INITIATED", !.refundStatus = "REQUESTED"]
  <2>1. rets' = [rets EXCEPT ![x] = row] /\ UNCHANGED req
    BY <1>0, <1>6 DEF InitiateRefund, RowsTyped
  <2>2. rets[x] \in ReturnRow /\ rets[x].received /\ rets[x].inspected
    BY <1>0, <1>6 DEF InitiateRefund, CanTransition, RowsTyped, StatusHasHistory
  <2>3. RowJustified(row) /\ row.received
    BY <2>2 DEF RowJustified, ReturnRow, ReturnStatuses
  <2> HIDE DEF row
  <2> QED
    BY <2>1, <2>3, RowWritten
<1>7. ASSUME NEW x \in Returns, CompleteRefund(x) PROVE HistoryInv'
  <2> DEFINE row == [rets[x] EXCEPT !.status = "REFUNDED", !.refundStatus = "REFUNDED"]
  <2>1. rets' = [rets EXCEPT ![x] = row] /\ UNCHANGED req
    BY <1>0, <1>7 DEF CompleteRefund, RowsTyped
  <2>2. rets[x] \in ReturnRow /\ rets[x].received /\ rets[x].inspected
    BY <1>0, <1>7 DEF CompleteRefund, CanTransition, RowsTyped, StatusHasHistory
  <2>3. RowJustified(row) /\ row.received
    BY <2>2 DEF RowJustified, ReturnRow, ReturnStatuses
  <2> HIDE DEF row
  <2> QED
    BY <2>1, <2>3, RowWritten
<1>8. CASE UNCHANGED vars
  BY <1>0, <1>8 DEF HistoryInv, vars, RowsTyped, StatusHasHistory, RefundedWasInspected
<1> QED
  BY <1>1, <1>2, <1>3, <1>4, <1>5, <1>6, <1>7, <1>8 DEF Next, CreateReturn, ReturnsDesk, Refunds

\* A refund is only ever requested or completed for a return that was received
\* and inspected, whatever desk requests overlap.
THEOREM NoRefundUnseen == Spec => []RefundedWasInspected
BY HistoryInit, HistoryStep, PTL DEF Spec, HistoryInv

-----------------------------------------------------------------------------
(* UnitsAccounted.                                                         *)

NoLineTwice ==
  \A form \in Forms : \A i, j \in DOMAIN form : form[i].line = form[j].line => i = j
OneCreator == \A r, q \in Creators : r = q

\* What a form's entries ask for of a line.
Asked(form, l) == [i \in DOMAIN form |-> IF form[i].line = l THEN form[i].quantity ELSE 0]

LEMMA UnitsIsSum == \A form, l : Units(form, l) = SumFunction(Asked(form, l))
BY DEF Units, Asked

LEMMA FormDomain ==
  ASSUME NEW form \in Forms \cup {<<>>}, NEW l
  PROVE  /\ IsFiniteSet(DOMAIN form) /\ Asked(form, l) \in [DOMAIN form -> Int]
         /\ \A i \in DOMAIN form : form[i].quantity \in Nat
<1> DEFINE Entries == [line : Lines, quantity : Nat \ {0}]
<1>1. form \in Seq(Entries)
  <2> HIDE DEF Entries
  <2>1. Forms \subseteq Seq(Entries)
    BY FormsAssumption DEF Entries
  <2>2. <<>> \in Seq(Entries)
    OBVIOUS
  <2> QED
    BY <2>1, <2>2
<1>2. DOMAIN form = 1..Len(form) /\ Len(form) \in Nat
  <2> HIDE DEF Entries
  <2> QED
    BY <1>1
<1>3. IsFiniteSet(DOMAIN form)
  BY <1>2, FS_Interval
<1>4. \A i \in DOMAIN form : form[i] \in Entries
  <2> HIDE DEF Entries
  <2> QED
    BY <1>1
<1>5. \A i \in DOMAIN form : form[i].quantity \in Nat
  BY <1>4
<1> QED
  BY <1>3, <1>5 DEF Asked

LEMMA UnitsOfNothing == ASSUME NEW l PROVE Units(<<>>, l) = 0
<1>1. DOMAIN <<>> = {}
  OBVIOUS
<1> QED
  BY <1>1, FormDomain, SumZero, UnitsIsSum

\* A form that names no line twice asks for the units of one entry, if any.
LEMMA UnitsOfForm ==
  ASSUME NoLineTwice, NEW form \in Forms, NEW l \in Lines
  PROVE  \/ Units(form, l) = 0
         \/ \E i \in DOMAIN form : form[i].line = l /\ Units(form, l) = form[i].quantity
<1> DEFINE f == Asked(form, l)
           z == [i \in DOMAIN form |-> 0]
<1>1. IsFiniteSet(DOMAIN form) /\ f \in [DOMAIN form -> Int] /\ z \in [DOMAIN form -> Int]
  BY FormDomain
<1>2. CASE \A i \in DOMAIN form : form[i].line # l
  <2>1. \A i \in DOMAIN form : f[i] = 0
    BY <1>2 DEF Asked
  <2> HIDE DEF f
  <2>2. SumFunction(f) = 0
    BY <1>1, <2>1, SumZero
  <2> QED
    BY <2>2, UnitsIsSum DEF f
<1>3. ASSUME NEW i \in DOMAIN form, form[i].line = l PROVE Units(form, l) = form[i].quantity
  <2>1. f[i] = form[i].quantity /\ z[i] = 0 /\ \A j \in DOMAIN form \ {i} : f[j] = z[j]
    BY <1>3 DEF Asked, NoLineTwice
  <2>2. \A j \in DOMAIN form : z[j] = 0
    OBVIOUS
  <2> HIDE DEF f, z
  <2>3. SumFunction(z) = 0
    BY <1>1, <2>2, SumZero
  <2>4. SumFunction(f) = SumFunction(z) + (f[i] - z[i])
    BY <1>1, <2>1, SumChange
  <2>5. f[i] \in Int
    BY <1>1
  <2>6. SumFunction(f) = f[i]
    BY <2>1, <2>3, <2>4, <2>5
  <2> QED
    BY <2>1, <2>6, UnitsIsSum DEF f
<1> QED
  BY <1>2, <1>3

LEMMA UnitsType ==
  ASSUME NEW form \in Forms \cup {<<>>}, NEW l
  PROVE  Units(form, l) \in Int
BY FormDomain, SumType, UnitsIsSum

\* The units each return order has of a line.
Booked(l) == [x \in Returns |-> Units(rets[x].items, l)]

\* A form in hand was read from the lines as they are, and fits them: nobody
\* else books units.
QtyInv ==
  /\ HistoryInv
  /\ returnedQty \in [Lines -> Nat]
  /\ \A l \in Lines : returnedQty[l] = SumFunction(Booked(l)) /\ returnedQty[l] <= Bought[l]
  /\ \A x \in Returns : rets[x].status = "ABSENT" => rets[x].items = <<>>
  /\ \A r \in Reqs : req[r].op = "create" =>
       r \in Creators /\ req[r].seen = returnedQty /\ Fits(req[r].form)

LEMMA BookedType ==
  ASSUME RowsTyped, NEW l
  PROVE  Booked(l) \in [Returns -> Int]
<1>1. \A x \in Returns : rets[x].items \in Forms \cup {<<>>}
  BY DEF RowsTyped, ReturnRow
<1> QED
  BY <1>1, UnitsType DEF Booked

LEMMA QtyInit == Init => QtyInv
<1> SUFFICES ASSUME Init PROVE QtyInv
  OBVIOUS
<1>1. HistoryInv /\ RowsTyped
  BY HistoryInit DEF HistoryInv
<1>2. ASSUME NEW l \in Lines PROVE SumFunction(Booked(l)) = 0
  <2>1. \A x \in Returns : Booked(l)[x] = 0
    BY UnitsOfNothing DEF Booked, Init, AbsentReturn
  <2>2. Booked(l) \in [Returns -> Int]
    BY <1>1, BookedType
  <2> QED
    BY <2>1, <2>2, SumZero, ReturnsAssumption
<1>3. \A r \in Reqs : req[r].op # "create"
  BY DEF Init, Idle
<1>4. \A x \in Returns : rets[x].items = <<>>
  BY DEF Init, AbsentReturn
<1>5. \A l \in Lines : returnedQty[l] = 0 /\ Bought[l] \in Nat
  BY BoughtAssumption DEF Init
<1>6. returnedQty \in [Lines -> Nat]
  BY DEF Init
<1> QED
  BY <1>1, <1>2, <1>3, <1>4, <1>5, <1>6 DEF QtyInv

\* A step that books nothing.
LEMMA NothingBooked ==
  ASSUME QtyInv, HistoryInv', UNCHANGED returnedQty,
         \A x \in Returns : /\ rets'[x].items = rets[x].items
                            /\ rets'[x].status = "ABSENT" => rets[x].status = "ABSENT",
         \A r \in Reqs : req'[r].op = "create" =>
           \/ req'[r] = req[r]
           \/ r \in Creators /\ req'[r].seen = returnedQty /\ Fits(req'[r].form)
  PROVE  QtyInv'
<1>1. \A l : Booked(l)' = Booked(l)
  BY DEF Booked
<1>2. \A r \in Reqs : req'[r].op = "create" =>
        r \in Creators /\ req'[r].seen = returnedQty /\ Fits(req'[r].form)
  BY DEF QtyInv
<1>3. \A r \in Reqs : Fits(req'[r].form) => Fits(req[r].form)'
  BY DEF Fits
<1> QED
  BY <1>1, <1>2, <1>3 DEF QtyInv

LEMMA QtyStep == ASSUME NoLineTwice, OneCreator PROVE QtyInv /\ [Next]_vars => QtyInv'
<1> SUFFICES ASSUME QtyInv, [Next]_vars PROVE QtyInv'
  OBVIOUS
<1>0. /\ HistoryInv /\ HistoryInv' /\ RowsTyped /\ RowsTyped' /\ StatusHasHistory
      /\ returnedQty \in [Lines -> Nat]
  BY HistoryStep DEF QtyInv, HistoryInv
<1>1. ASSUME NEW r \in Reqs, NEW form \in Forms, CreateRead(r, form) PROVE QtyInv'
  <2> DEFINE new == [op |-> "create", form |-> form, seen |-> returnedQty]
  <2>1. req'[r] = new /\ (\A q \in Reqs \ {r} : req'[q] = req[q]) /\ UNCHANGED <<returnedQty, rets>>
    BY <1>0, <1>1, OneRequest DEF CreateRead
  <2>2. r \in Creators /\ new.seen = returnedQty /\ Fits(new.form)
    BY <1>1 DEF CreateRead
  <2> HIDE DEF new
  <2> QED
    BY <1>0, <2>1, <2>2, NothingBooked
<1>2. ASSUME NEW r \in Reqs, NEW x \in Returns, CreateCommit(r, x) PROVE QtyInv'
  <2> DEFINE form == req[r].form
             row == [AbsentReturn EXCEPT !.status = "RETURN_REQUESTED", !.items = form]
  <2>1. /\ form \in Forms /\ req[r].seen = returnedQty /\ Fits(form) /\ r \in Creators
        /\ rets[x].status = "ABSENT" /\ rets[x].items = <<>>
    BY <1>0, <1>2 DEF CreateCommit, RowsTyped, QtyInv
  <2>2. rets' = [rets EXCEPT ![x] = row] /\ req' = [req EXCEPT ![r] = Idle]
        /\ returnedQty' = [l \in Lines |-> IF Units(form, l) > 0 THEN req[r].seen[l] + Units(form, l)
                                                                 ELSE returnedQty[l]]
    BY <1>2 DEF CreateCommit
  <2>3. row.items = form /\ row.status = "RETURN_REQUESTED"
    BY DEF AbsentReturn
  <2> HIDE DEF row, form
  <2>4. rets'[x] = row /\ \A y \in Returns \ {x} : rets'[y] = rets[y]
    BY <1>0, <2>2 DEF RowsTyped
  <2>5. ASSUME NEW l \in Lines
        PROVE  Units(form, l) \in Nat /\ returnedQty[l] + Units(form, l) <= Bought[l]
    <3>1. returnedQty[l] \in Nat /\ Bought[l] \in Nat /\ returnedQty[l] <= Bought[l]
      BY <1>0, BoughtAssumption DEF QtyInv
    <3>2. \A i \in DOMAIN form : form[i].quantity \in Nat
      BY <2>1, FormDomain
    <3>3. \A i \in DOMAIN form : form[i].line = l => form[i].quantity <= Bought[l] - returnedQty[l]
      BY <2>1 DEF Fits
    <3>4. CASE Units(form, l) = 0
      BY <3>1, <3>4
    <3>5. ASSUME NEW i \in DOMAIN form, form[i].line = l, Units(form, l) = form[i].quantity
          PROVE  Units(form, l) \in Nat /\ returnedQty[l] + Units(form, l) <= Bought[l]
      BY <3>1, <3>2, <3>3, <3>5
    <3> QED
      BY <2>1, <3>4, <3>5, UnitsOfForm
  <2>6. ASSUME NEW l \in Lines PROVE returnedQty'[l] = returnedQty[l] + Units(form, l)
    BY <1>0, <2>1, <2>2, <2>5
  <2>7. ASSUME NEW l \in Lines PROVE returnedQty'[l] = SumFunction(Booked(l)') /\ returnedQty'[l] <= Bought[l]
    <3> DEFINE f == Booked(l)
               h == Booked(l)'
    <3>1. f \in [Returns -> Int]
      BY <1>0, BookedType
    <3>2. h \in [Returns -> Int]
      <4>1. \A y \in Returns : rets'[y].items \in Forms \cup {<<>>}
        BY <1>0 DEF RowsTyped, ReturnRow
      <4> QED
        BY <4>1, UnitsType DEF Booked
    <3>3. f[x] = 0 /\ h[x] = Units(form, l) /\ \A y \in Returns \ {x} : h[y] = f[y]
      BY <2>1, <2>3, <2>4, UnitsOfNothing DEF Booked
    <3>4. returnedQty[l] = SumFunction(f)
      BY DEF QtyInv
    <3> HIDE DEF f, h
    <3>5. SumFunction(h) = SumFunction(f) + (h[x] - f[x])
      BY <3>1, <3>2, <3>3, SumChange, ReturnsAssumption
    <3>6. returnedQty'[l] = SumFunction(h)
      BY <1>0, <2>5, <2>6, <3>3, <3>4, <3>5
    <3> QED
      BY <2>5, <2>6, <3>6 DEF h
  <2>8. returnedQty' \in [Lines -> Nat]
    <3>1. \A l \in Lines : returnedQty'[l] \in Nat
      BY <1>0, <2>5, <2>6
    <3> QED
      BY <2>2, <3>1
  <2>9. \A q \in Reqs : req'[q].op # "create"
    <3>1. \A q \in Reqs \ {r} : req[q].op # "create"
      BY <2>1 DEF QtyInv, OneCreator
    <3> QED
      BY <1>0, <2>2, <3>1, OneRequest DEF Idle
  <2>10. \A y \in Returns : rets'[y].status = "ABSENT" => rets'[y].items = <<>>
    BY <2>3, <2>4 DEF QtyInv
  <2> QED
    BY <1>0, <2>7, <2>8, <2>9, <2>10 DEF QtyInv
<1>3. ASSUME NEW r \in Reqs, NEW x \in Returns, NEW to \in DeskSteps, StepRead(r, x, to)
      PROVE  QtyInv'
  <2> DEFINE new == [op |-> "step", ret |-> x, to |-> to]
  <2>1. req'[r] = new /\ (\A q \in Reqs \ {r} : req'[q] = req[q]) /\ UNCHANGED <<returnedQty, rets>>
    BY <1>0, <1>3, OneRequest DEF StepRead
  <2> QED
    BY <1>0, <2>1, NothingBooked
<1>4. ASSUME NEW r \in Reqs, StepCommit(r) PROVE QtyInv'
  <2> DEFINE x == req[r].ret
             to == req[r].to
             row == Stepped(rets[x], to)
  <2>1. x \in Returns /\ to \in DeskSteps
    BY <1>0, <1>4 DEF StepCommit, StatusHasHistory
  <2>2. rets' = [rets EXCEPT ![x] = row] /\ req' = [req EXCEPT ![r] = Idle] /\ UNCHANGED returnedQty
    BY <1>0, <1>4, <2>1 DEF StepCommit, RowsTyped
  <2>3. row.items = rets[x].items /\ row.status # "ABSENT"
    BY <1>0, <2>1 DEF RowsTyped, ReturnRow, Stepped, DeskSteps
  <2> HIDE DEF row, x
  <2>4. \A y \in Returns : /\ rets'[y].items = rets[y].items
                           /\ rets'[y].status = "ABSENT" => rets[y].status = "ABSENT"
    BY <1>0, <2>1, <2>2, <2>3 DEF RowsTyped
  <2>5. \A q \in Reqs : req'[q].op = "create" => req'[q] = req[q]
    BY <1>0, <2>2, OneRequest DEF Idle
  <2> QED
    BY <1>0, <2>2, <2>4, <2>5, NothingBooked
<1>5. ASSUME NEW r \in Reqs, Abort(r) PROVE QtyInv'
  <2>1. \A q \in Reqs : req'[q].op = "create" => req'[q] = req[q]
    BY <1>0, <1>5, OneRequest DEF Abort, Idle
  <2> QED
    BY <1>0, <1>5, <2>1, NothingBooked DEF Abort
<1>6. ASSUME NEW x \in Returns, Refunds(x) PROVE QtyInv'
  <2>1. \A y \in Returns : /\ rets'[y].items = rets[y].items
                           /\ rets'[y].status = "ABSENT" => rets[y].status = "ABSENT"
    <3>1. rets[x] \in ReturnRow
      BY <1>0 DEF RowsTyped
    <3>2. \A y \in Returns \ {x} : rets'[y] = rets[y]
      BY <1>0, <1>6 DEF Refunds, InitiateRefund, CompleteRefund, RowsTyped
    <3>3. CASE InitiateRefund(x)
      <4>1. rets'[x] = [rets[x] EXCEPT !.status = "REFUND_INITIATED", !.refundStatus = "REQUESTED"]
        BY <1>0, <3>3 DEF InitiateRefund, RowsTyped
      <4>2. rets'[x].items = rets[x].items /\ rets'[x].status # "ABSENT"
        BY <3>1, <4>1 DEF ReturnRow
      <4> QED
        BY <3>2, <4>2
    <3>4. CASE CompleteRefund(x)
      <4>1. rets'[x] = [rets[x] EXCEPT !.status = "REFUNDED", !.refundStatus = "REFUNDED"]
        BY <1>0, <3>4 DEF CompleteRefund, RowsTyped
      <4>2. rets'[x].items = rets[x].items /\ rets'[x].status # "ABSENT"
        BY <3>1, <4>1 DEF ReturnRow
      <4> QED
        BY <3>2, <4>2
    <3> QED
      BY <1>6, <3>3, <3>4 DEF Refunds
  <2>2. UNCHANGED <<returnedQty, req>>
    BY <1>6 DEF Refunds, InitiateRefund, CompleteRefund
  <2> QED
    BY <1>0, <2>1, <2>2, NothingBooked
<1>7. CASE UNCHANGED vars
  BY <1>0, <1>7, NothingBooked DEF vars
<1> QED
  BY <1>1, <1>2, <1>3, <1>4, <1>5, <1>6, <1>7 DEF Next, CreateReturn, ReturnsDesk

\* The units booked on the order lines are those of the return orders, and no
\* line is returned beyond what was bought, if one form is handled at a time
\* and none names a line twice; the desk's requests overlap freely.
THEOREM ReturnedUnitsAccounted ==
  ASSUME NoLineTwice, OneCreator
  PROVE  Spec => []UnitsAccounted
<1>1. QtyInv /\ [Next]_vars => QtyInv'
  BY QtyStep
<1>2. QtyInv => UnitsAccounted
  BY DEF QtyInv, UnitsAccounted, Booked
<1> QED
  BY <1>1, <1>2, QtyInit, PTL DEF Spec

-----------------------------------------------------------------------------
(* The tracking page.                                                      *)

\* An edge of the table, a cancellation, or the first row.
Ordinary(from, to) ==
  \/ F!CanTransition(from, to) \/ to = "CANCELLED"
  \/ from = F!NoStatus /\ to \in {"PENDING_PAYMENT", "ORDER_CONFIRMED"}
  \/ from = "PENDING_PAYMENT" /\ to = "PAYMENT_CONFIRMED"

\* What the history holds, and what operations under way are about to add to
\* it, starts where another row led, and is ordinary if nobody forced it.
TrackInv ==
  /\ desk = [d \in Desks |-> desk[d]]
  /\ status \in F!Reached
  /\ \A step \in history :
       /\ step.from \in F!Reached \cup {F!NoStatus}
       /\ ~step.forced => Ordinary(step.from, step.to)
  /\ \A d \in Desks : desk[d].op \in {"set", "force"} =>
       /\ desk[d].status \in F!Reached
       /\ desk[d].op = "set" => Ordinary(desk[d].status, desk[d].to)

LEMMA TrackInit == F!Init => TrackInv
<1> SUFFICES ASSUME F!Init PROVE TrackInv
  OBVIOUS
<1> DEFINE row == F!Step(F!NoStatus, status, FALSE)
<1>1. history = {row}
  BY DEF F!Init
<1>2. row.from = F!NoStatus /\ row.to = status
  BY DEF F!Step
<1> HIDE DEF row
<1>3. \A d \in Desks : desk[d].op = "idle"
  BY DEF F!Init, F!Idle
<1>4. desk = [d \in Desks |-> desk[d]] /\ status \in {"PENDING_PAYMENT", "ORDER_CONFIRMED"}
  BY DEF F!Init
<1>5. status \in F!Reached
  BY <1>1, <1>2 DEF F!Reached
<1> QED
  BY <1>1, <1>2, <1>3, <1>4, <1>5 DEF TrackInv, Ordinary

\* An operation that starts or ends without a word to the order.
LEMMA DeskMoves ==
  ASSUME TrackInv, NEW d \in Desks, NEW new, desk' = [desk EXCEPT ![d] = new],
         new.op \in {"set", "force"} =>
           new.status \in F!Reached /\ (new.op = "set" => Ordinary(new.status, new.to)),
         UNCHANGED <<status, history>>
  PROVE  TrackInv'
<1>1. desk' = [x \in Desks |-> desk'[x]] /\ \A x \in Desks : desk'[x] = IF x = d THEN new ELSE desk[x]
  BY DEF TrackInv
<1>2. F!Reached' = F!Reached
  BY DEF F!Reached
<1>3. \A x \in Desks : desk'[x].op \in {"set", "force"} =>
        desk'[x].status \in F!Reached /\ (desk'[x].op = "set" => Ordinary(desk'[x].status, desk'[x].to))
  BY <1>1 DEF TrackInv
<1> QED
  BY <1>1, <1>2, <1>3 DEF TrackInv

\* The history grows: nothing that was reached is lost.
LEMMA HistoryGrows ==
  ASSUME NEW rows, history' = history \cup rows
  PROVE  /\ F!Reached \subseteq F!Reached'
         /\ \A step \in rows : step.to \in F!Reached'
BY DEF F!Reached

LEMMA TrackStep == TrackInv /\ [F!Next]_F!vars => TrackInv'
<1> SUFFICES ASSUME TrackInv, [F!Next]_F!vars PROVE TrackInv'
  OBVIOUS
<1>1. ASSUME NEW d \in Desks, NEW to,
             F!Stage(d, to) \/ F!ApplyStatus(d, to) \/ F!ForceStatus(d, to) \/ F!Cancel(d) \/ F!ClaimGuest(d)
      PROVE  TrackInv'
  <2>1. PICK op, x :
          /\ op \in {"set", "force", "claim"}
          /\ desk' = [desk EXCEPT ![d] = [op |-> op, to |-> x, status |-> status]]
          /\ UNCHANGED <<status, history>>
          /\ op = "set" => F!CanTransition(status, x) \/ x = "CANCELLED"
    BY <1>1 DEF F!Stage, F!ApplyStatus, F!ForceStatus, F!Cancel, F!ClaimGuest, F!Read
  <2> QED
    BY <2>1, DeskMoves DEF TrackInv, Ordinary
<1>2. ASSUME NEW d \in Desks, F!Claim(d) \/ F!Abort(d) PROVE TrackInv'
  <2>1. desk' = [desk EXCEPT ![d] = F!Idle] /\ UNCHANGED <<status, history>> /\ F!Idle.op = "idle"
    BY <1>2 DEF F!Claim, F!Abort, F!Idle
  <2> QED
    BY <2>1, DeskMoves
<1>3. ASSUME NEW d \in Desks, F!SetStatus(d) PROVE TrackInv'
  <2> DEFINE forced == desk[d].op = "force"
             row == F!Step(desk[d].status, desk[d].to, forced)
  <2>1. /\ desk[d].op \in {"set", "force"}
        /\ history' = history \cup {row}
        /\ desk' = [desk EXCEPT ![d] = F!Idle]
        /\ status' = status \/ status' = desk[d].to
    BY <1>3 DEF F!SetStatus
  <2>2. row.from = desk[d].status /\ row.to = desk[d].to /\ row.forced = forced
    BY DEF F!Step
  <2>3. F!Idle.op = "idle"
    BY DEF F!Idle
  <2>4. desk' = [x \in Desks |-> desk'[x]] /\ \A x \in Desks : desk'[x] = IF x = d THEN F!Idle ELSE desk[x]
    BY <2>1 DEF TrackInv
  <2> HIDE DEF row, forced
  <2>5. F!Reached \subseteq F!Reached' /\ row.to \in F!Reached'
    BY <2>1, HistoryGrows
  <2>6. row.from \in F!Reached /\ (~row.forced => Ordinary(row.from, row.to))
    BY <2>1, <2>2 DEF TrackInv, forced
  <2>7. status' \in F!Reached'
    BY <2>1, <2>2, <2>5 DEF TrackInv
  <2>8. \A step \in history' :
          step.from \in F!Reached' \cup {F!NoStatus} /\ (~step.forced => Ordinary(step.from, step.to))
    BY <2>1, <2>5, <2>6 DEF TrackInv
  <2>9. \A x \in Desks : desk'[x].op \in {"set", "force"} =>
          desk'[x].status \in F!Reached' /\ (desk'[x].op = "set" => Ordinary(desk'[x].status, desk'[x].to))
    BY <2>3, <2>4, <2>5 DEF TrackInv
  <2> QED
    BY <2>4, <2>7, <2>8, <2>9 DEF TrackInv
<1>4. CASE F!ConfirmPaid
  <2> DEFINE one == F!Step("PENDING_PAYMENT", "PAYMENT_CONFIRMED", FALSE)
             two == F!Step("PAYMENT_CONFIRMED", "ORDER_CONFIRMED", FALSE)
  <2>1. /\ status = "PENDING_PAYMENT" /\ status' = "ORDER_CONFIRMED"
        /\ history' = history \cup {one, two} /\ UNCHANGED desk
    BY <1>4 DEF F!ConfirmPaid
  <2>2. /\ one.from = "PENDING_PAYMENT" /\ one.to = "PAYMENT_CONFIRMED"
        /\ two.from = "PAYMENT_CONFIRMED" /\ two.to = "ORDER_CONFIRMED"
    BY DEF F!Step
  <2>3. Ordinary(one.from, one.to) /\ Ordinary(two.from, two.to)
    BY <2>2 DEF Ordinary, F!CanTransition
  <2> HIDE DEF one, two
  <2>4. F!Reached \subseteq F!Reached' /\ one.to \in F!Reached' /\ two.to \in F!Reached'
    BY <2>1, HistoryGrows
  <2>5. \A step \in history' :
          step.from \in F!Reached' \cup {F!NoStatus} /\ (~step.forced => Ordinary(step.from, step.to))
    BY <2>1, <2>2, <2>3, <2>4 DEF TrackInv
  <2>6. status' \in F!Reached'
    BY <2>1, <2>2, <2>4
  <2>7. \A x \in Desks : desk'[x].op \in {"set", "force"} =>
          desk'[x].status \in F!Reached' /\ (desk'[x].op = "set" => Ordinary(desk'[x].status, desk'[x].to))
    BY <2>1, <2>4 DEF TrackInv
  <2>8. desk' = [x \in Desks |-> desk'[x]]
    BY <2>1 DEF TrackInv
  <2> QED
    BY <2>5, <2>6, <2>7, <2>8 DEF TrackInv
<1>5. CASE UNCHANGED F!vars
  <2>1. UNCHANGED <<status, history, desk>>
    BY <1>5 DEF F!vars
  <2> QED
    BY <2>1 DEF TrackInv, F!Reached
<1> QED
  BY <1>1, <1>2, <1>3, <1>4, <1>5 DEF F!Next, F!DeskCalls, F!CustomerCalls

\* Where an ordinary row leads to a stage of the desk, it starts at the stage before.
LEMMA StageBefore ==
  ASSUME NEW from
  PROVE  /\ Ordinary(from, "DELIVERED") => from = "OUT_FOR_DELIVERY"
         /\ Ordinary(from, "OUT_FOR_DELIVERY") => from = "SHIPPED"
         /\ Ordinary(from, "SHIPPED") => from = "READY_TO_DISPATCH"
         /\ Ordinary(from, "READY_TO_DISPATCH") => from = "PACKED"
         /\ Ordinary(from, "PACKED") => from = "PICKING"
         /\ Ordinary(from, "PICKING") => from = "ALLOCATED"
BY DEF Ordinary, F!CanTransition

\* The tracking page explains the order's status, whatever operations overlap,
\* are forced, or are overtaken: its status is where a row led, every row starts
\* where another one led, and a delivery nobody forced passed every stage.
THEOREM TrackingIsAPath == F!Spec => []TrackingExplains
<1>1. F!Init => TrackInv
  BY TrackInit
<1>2. TrackInv /\ [F!Next]_F!vars => TrackInv'
  BY TrackStep
<1>3. TrackInv => TrackingExplains
  <2> SUFFICES ASSUME TrackInv, status = "DELIVERED", \A step \in history : ~step.forced
               PROVE  F!Stages \subseteq F!Reached
    BY DEF TrackingExplains, F!TrackingExplains, TrackInv
  <2>1. ASSUME NEW to \in F!Reached
        PROVE  \E from \in F!Reached \cup {F!NoStatus} : Ordinary(from, to)
    BY DEF TrackInv, F!Reached
  <2>2. "DELIVERED" \in F!Reached
    BY DEF TrackInv
  <2>3. F!NoStatus \notin {"OUT_FOR_DELIVERY", "SHIPPED", "READY_TO_DISPATCH", "PACKED", "PICKING", "ALLOCATED"}
    BY DEF F!NoStatus
  <2>4. "OUT_FOR_DELIVERY" \in F!Reached
    BY <2>1, <2>2, <2>3, StageBefore
  <2>5. "SHIPPED" \in F!Reached
    BY <2>1, <2>4, <2>3, StageBefore
  <2>6. "READY_TO_DISPATCH" \in F!Reached
    BY <2>1, <2>5, <2>3, StageBefore
  <2>7. "PACKED" \in F!Reached
    BY <2>1, <2>6, <2>3, StageBefore
  <2>8. "PICKING" \in F!Reached
    BY <2>1, <2>7, <2>3, StageBefore
  <2>9. "ALLOCATED" \in F!Reached
    BY <2>1, <2>8, <2>3, StageBefore
  <2> QED
    BY <2>2, <2>4, <2>5, <2>6, <2>7, <2>8, <2>9 DEF F!Stages
<1> QED
  BY <1>1, <1>2, <1>3, PTL DEF F!Spec

-----------------------------------------------------------------------------
(* The warehouse register.                                                 *)

StockRow == [product : Products, opening : Nat, onHand : Nat, reserved : {0}, available : Nat]
LedgerRow == [row : Nat, delta : Int]

\* The sum of the rows ms of the ledger l, and that n units on hand are what
\* row i opened with and such a sum of its movements.
LedgerSum(l, ms) == SumFunction([m \in ms |-> l[m].delta])
Explains(l, i, opening, n) ==
  \E ms \in SUBSET {m \in DOMAIN l : l[m].row = i} : n = opening + LedgerSum(l, ms)

\* What is on hand is explained, and what an adjustment is about to write is
\* explained but for the movement it is about to add.
RegisterInv ==
  /\ stock \in Seq(StockRow)
  /\ ledger \in Seq(LedgerRow)
  /\ clerk = [c \in Desks |-> clerk[c]]
  /\ \A i \in DOMAIN stock :
       stock[i].available = stock[i].onHand /\ Explains(ledger, i, stock[i].opening, stock[i].onHand)
  /\ \A c \in Desks :
       /\ clerk[c].op = "stock" => clerk[c].product \in Products /\ clerk[c].opening \in Nat
       /\ clerk[c].op = "adjust" =>
            /\ clerk[c].row \in DOMAIN stock /\ clerk[c].delta \in Int /\ clerk[c].onHand \in Nat
            /\ Explains(ledger, clerk[c].row, stock[clerk[c].row].opening, clerk[c].onHand - clerk[c].delta)

LEMMA Appended ==
  ASSUME NEW S, NEW s \in Seq(S), NEW x \in S
  PROVE  LET t == Append(s, x)
             n == Len(s) + 1
         IN /\ t \in Seq(S) /\ n \in Nat /\ n \notin DOMAIN s /\ DOMAIN t = DOMAIN s \cup {n}
            /\ t[n] = x /\ \A i \in DOMAIN s : t[i] = s[i]
OBVIOUS

LEMMA Element == \A S : \A s \in Seq(S) : \A i \in DOMAIN s : s[i] \in S
OBVIOUS

LEMMA StockRows ==
  ASSUME RegisterInv, NEW i \in DOMAIN stock
  PROVE  /\ stock[i] \in StockRow /\ stock[i].opening \in Nat /\ stock[i].onHand \in Nat
         /\ stock[i].reserved = 0 /\ stock[i].available = stock[i].onHand
<1>1. stock[i] \in StockRow
  BY Element DEF RegisterInv
<1> QED
  BY <1>1 DEF StockRow, RegisterInv

LEMMA LedgerSumType ==
  ASSUME NEW l \in Seq(LedgerRow), NEW ms \in SUBSET DOMAIN l
  PROVE  /\ IsFiniteSet(ms)
         /\ [m \in ms |-> l[m].delta] \in [ms -> Int]
         /\ LedgerSum(l, ms) \in Int
<1>1. IsFiniteSet(1..Len(l)) /\ DOMAIN l = 1..Len(l)
  BY FS_Interval
<1>2. IsFiniteSet(ms)
  BY <1>1, FS_Subset
<1>3. [m \in ms |-> l[m].delta] \in [ms -> Int]
  <2>1. \A m \in DOMAIN l : l[m] \in LedgerRow
    BY Element
  <2>2. \A m \in DOMAIN l : l[m].delta \in Int
    BY <2>1 DEF LedgerRow
  <2> QED
    BY <2>2
<1> QED
  BY <1>2, <1>3, SumType DEF LedgerSum

\* A row that was just opened is explained by no movement at all.
LEMMA ExplainedOpening ==
  ASSUME NEW l \in Seq(LedgerRow), NEW i, NEW n \in Nat
  PROVE  Explains(l, i, n, n)
<1> DEFINE f == [m \in {} |-> l[m].delta]
<1>1. f \in [{} -> Int] /\ IsFiniteSet({})
  BY FS_EmptySet
<1>2. SumFunction(f) = 0
  <2> HIDE DEF f
  <2> QED
    BY <1>1, SumZero
<1>3. LedgerSum(l, {}) = 0
  BY <1>2 DEF LedgerSum
<1>4. {} \in SUBSET {m \in DOMAIN l : l[m].row = i} /\ n = n + LedgerSum(l, {})
  BY <1>3
<1> QED
  BY <1>4 DEF Explains

\* What was explained stays so when the ledger grows, and the new movement
\* explains a step further.
LEMMA ExplainedGrows ==
  ASSUME NEW l \in Seq(LedgerRow), NEW new \in LedgerRow, NEW i, NEW opening \in Nat, NEW n \in Int,
         Explains(l, i, opening, n)
  PROVE  /\ Explains(Append(l, new), i, opening, n)
         /\ new.row = i => Explains(Append(l, new), i, opening, n + new.delta)
<1> DEFINE t == Append(l, new)
           k == Len(l) + 1
           Of(r) == {m \in DOMAIN r : r[m].row = i}
           f(r, ms) == [m \in ms |-> r[m].delta]
<1>1. PICK ms \in SUBSET Of(l) : n = opening + LedgerSum(l, ms)
  BY DEF Explains
<1>2. /\ t \in Seq(LedgerRow) /\ k \notin DOMAIN l /\ DOMAIN t = DOMAIN l \cup {k}
      /\ t[k] = new /\ \A m \in DOMAIN l : t[m] = l[m]
  BY Appended
<1>3. ms \in SUBSET DOMAIN l /\ k \notin ms
  BY <1>1, <1>2
<1> HIDE DEF t, k
<1>4. f(t, ms) = f(l, ms)
  BY <1>2, <1>3
<1>5. LedgerSum(t, ms) = LedgerSum(l, ms)
  BY <1>4 DEF LedgerSum
<1>6. ms \in SUBSET Of(t)
  BY <1>1, <1>2
<1>7. Explains(t, i, opening, n)
  BY <1>1, <1>5, <1>6 DEF Explains
<1>8. ASSUME new.row = i PROVE Explains(t, i, opening, n + new.delta)
  <2>1. ms \cup {k} \in SUBSET Of(t)
    BY <1>2, <1>6, <1>8
  <2>2. IsFiniteSet(ms) /\ f(l, ms) \in [ms -> Int] /\ LedgerSum(l, ms) \in Int
    BY <1>3, LedgerSumType
  <2>3. f(t, ms \cup {k}) \in [ms \cup {k} -> Int]
    BY <1>2, <2>1, LedgerSumType
  <2>4. f(t, ms \cup {k})[k] = new.delta /\ \A m \in ms : f(t, ms \cup {k})[m] = f(l, ms)[m]
    BY <1>2, <1>3
  <2> DEFINE g == f(l, ms)
             more == ms \cup {k}
             h == f(t, more)
  <2>5. SumFunction(h) = SumFunction(g) + h[k]
    <3>1. IsFiniteSet(more) /\ ms = more \ {k} /\ k \in more
      BY <1>3, <2>2, FS_AddElement
    <3>2. g \in [ms -> Int] /\ h \in [more -> Int] /\ \A m \in ms : h[m] = g[m]
      BY <2>2, <2>3, <2>4
    <3> HIDE DEF f, g, h, more
    <3>3. \A u \in [ms -> Int], v \in [more -> Int] :
            (\A m \in ms : v[m] = u[m]) => SumFunction(v) = SumFunction(u) + v[k]
      BY <3>1, SumInsert
    <3> QED
      BY <3>2, <3>3
  <2>6. LedgerSum(t, ms \cup {k}) = LedgerSum(l, ms) + new.delta
    BY <2>4, <2>5 DEF LedgerSum
  <2>7. new.delta \in Int
    BY DEF LedgerRow
  <2>8. n + new.delta = opening + LedgerSum(t, ms \cup {k})
    BY <1>1, <2>2, <2>6, <2>7
  <2> QED
    BY <2>1, <2>8 DEF Explains
<1> QED
  BY <1>7, <1>8 DEF t

LEMMA RegisterInit == W!Init => RegisterInv
<1> SUFFICES ASSUME W!Init PROVE RegisterInv
  OBVIOUS
<1>1. stock = <<>> /\ ledger = <<>> /\ clerk = [c \in Desks |-> W!Idle] /\ W!Idle.op = "idle"
  BY DEF W!Init, W!Idle
<1> QED
  BY <1>1 DEF RegisterInv

\* A request starts or ends, and nothing else does.
LEMMA ClerkMoves ==
  ASSUME RegisterInv, NEW c \in Desks, NEW new, clerk' = [clerk EXCEPT ![c] = new],
         UNCHANGED <<stock, ledger>>,
         new.op = "stock" => new.product \in Products /\ new.opening \in Nat,
         new.op = "adjust" =>
           /\ new.row \in DOMAIN stock /\ new.delta \in Int /\ new.onHand \in Nat
           /\ Explains(ledger, new.row, stock[new.row].opening, new.onHand - new.delta)
  PROVE  RegisterInv'
<1>1. clerk' = [x \in Desks |-> clerk'[x]] /\ \A x \in Desks : clerk'[x] = IF x = c THEN new ELSE clerk[x]
  BY DEF RegisterInv
<1> QED
  BY <1>1 DEF RegisterInv

LEMMA RegisterStep == RegisterInv /\ [W!Next]_W!vars => RegisterInv'
<1> SUFFICES ASSUME RegisterInv, [W!Next]_W!vars PROVE RegisterInv'
  OBVIOUS
<1>0. W!Idle.op = "idle"
  BY DEF W!Idle
<1>1. ASSUME NEW c \in Desks, NEW p \in Products, NEW n \in Openings, W!CreateStock(c, p, n) PROVE RegisterInv'
  <2> DEFINE new == [op |-> "stock", product |-> p, opening |-> n]
  <2>1. clerk' = [clerk EXCEPT ![c] = new] /\ UNCHANGED <<stock, ledger>>
    BY <1>1 DEF W!CreateStock, W!Begin
  <2>2. new.op = "stock" /\ new.product \in Products /\ new.opening \in Nat
    BY RegisterAssumption
  <2> HIDE DEF new
  <2> QED
    BY <2>1, <2>2, ClerkMoves
<1>2. ASSUME NEW c \in Desks, NEW i \in DOMAIN stock, NEW delta \in Deltas, W!AdjustStock(c, i, delta)
      PROVE  RegisterInv'
  <2>0. PICK n \in Nat : n = stock[i].onHand
    BY StockRows
  <2> DEFINE new == [op |-> "adjust", row |-> i, delta |-> delta, onHand |-> n + delta]
  <2>1. clerk' = [clerk EXCEPT ![c] = new] /\ UNCHANGED <<stock, ledger>> /\ n + delta >= 0
    BY <1>2, <2>0 DEF W!AdjustStock, W!Begin
  <2>2. new.op = "adjust" /\ new.row = i /\ new.delta = delta /\ new.onHand = n + delta
    OBVIOUS
  <2>3. delta \in Int /\ n + delta \in Nat /\ (n + delta) - delta = n
    BY <2>1, RegisterAssumption
  <2>4. Explains(ledger, i, stock[i].opening, n)
    BY <2>0 DEF RegisterInv
  <2> HIDE DEF new
  <2> QED
    BY <2>1, <2>2, <2>3, <2>4, ClerkMoves
<1>3. ASSUME NEW c \in Desks,
             \/ \E code \in Codes : W!CreateWarehouse(c, code)
             \/ \E t \in DOMAIN transfer, to \in {"COMPLETED", "CANCELLED"} : W!MoveTransfer(c, t, to)
      PROVE  RegisterInv'
  <2>1. ASSUME NEW code \in Codes, W!CreateWarehouse(c, code) PROVE RegisterInv'
    <3> DEFINE new == [op |-> "warehouse", code |-> code]
    <3>1. clerk' = [clerk EXCEPT ![c] = new] /\ UNCHANGED <<stock, ledger>> /\ new.op = "warehouse"
      BY <2>1 DEF W!CreateWarehouse, W!Begin
    <3> HIDE DEF new
    <3> QED
      BY <3>1, ClerkMoves
  <2>2. ASSUME NEW t \in DOMAIN transfer, NEW to \in {"COMPLETED", "CANCELLED"}, W!MoveTransfer(c, t, to)
        PROVE  RegisterInv'
    <3> DEFINE new == [op |-> "transfer", row |-> t, to |-> to]
    <3>1. clerk' = [clerk EXCEPT ![c] = new] /\ UNCHANGED <<stock, ledger>> /\ new.op = "transfer"
      BY <2>2 DEF W!MoveTransfer, W!Begin
    <3> HIDE DEF new
    <3> QED
      BY <3>1, ClerkMoves
  <2> QED
    BY <1>3, <2>1, <2>2
<1>4. ASSUME NEW c \in Desks, W!InsertWarehouse(c) \/ W!WriteTransfer(c) \/ W!Abort(c) PROVE RegisterInv'
  <2>1. clerk' = [clerk EXCEPT ![c] = W!Idle] /\ UNCHANGED <<stock, ledger>>
    BY <1>4 DEF W!InsertWarehouse, W!WriteTransfer, W!Abort, W!Done
  <2> QED
    BY <1>0, <2>1, ClerkMoves
<1>5. ASSUME UNCHANGED <<stock, ledger, clerk>> PROVE RegisterInv'
  BY <1>5 DEF RegisterInv
<1>6. ASSUME NEW c \in Desks, W!InsertStock(c) PROVE RegisterInv'
  <2>0. PICK n \in Nat : n = clerk[c].opening
    BY <1>6 DEF W!InsertStock, RegisterInv
  <2> DEFINE new == [product |-> clerk[c].product, opening |-> n, onHand |-> n, reserved |-> 0, available |-> n]
             k == Len(stock) + 1
  <2>1. /\ stock' = Append(stock, new) /\ UNCHANGED ledger
        /\ clerk' = [clerk EXCEPT ![c] = W!Idle]
    BY <1>6, <2>0 DEF W!InsertStock, W!Done
  <2>2. new \in StockRow /\ new.onHand = n /\ new.opening = n /\ new.available = n
    BY <1>6, <2>0 DEF W!InsertStock, RegisterInv, StockRow
  <2> HIDE DEF new
  <2>3. /\ stock' \in Seq(StockRow) /\ DOMAIN stock' = DOMAIN stock \cup {k}
        /\ stock'[k] = new /\ \A i \in DOMAIN stock : stock'[i] = stock[i]
    BY <2>1, <2>2, Appended DEF RegisterInv
  <2>4. clerk' = [x \in Desks |-> clerk'[x]]
        /\ \A x \in Desks : clerk'[x] = IF x = c THEN W!Idle ELSE clerk[x]
    BY <2>1 DEF RegisterInv
  <2>5. Explains(ledger, k, n, n)
    BY ExplainedOpening DEF RegisterInv
  <2> HIDE DEF k
  <2>6. \A i \in DOMAIN stock' :
          stock'[i].available = stock'[i].onHand /\ Explains(ledger', i, stock'[i].opening, stock'[i].onHand)
    BY <2>1, <2>2, <2>3, <2>5 DEF RegisterInv
  <2>7. \A x \in Desks :
          /\ clerk'[x].op = "stock" => clerk'[x].product \in Products /\ clerk'[x].opening \in Nat
          /\ clerk'[x].op = "adjust" =>
               /\ clerk'[x].row \in DOMAIN stock' /\ clerk'[x].delta \in Int /\ clerk'[x].onHand \in Nat
               /\ Explains(ledger', clerk'[x].row, stock'[clerk'[x].row].opening, clerk'[x].onHand - clerk'[x].delta)
    BY <1>0, <2>1, <2>3, <2>4 DEF RegisterInv
  <2> QED
    BY <2>1, <2>3, <2>4, <2>6, <2>7 DEF RegisterInv
<1>7. ASSUME NEW c \in Desks, W!WriteStock(c) PROVE RegisterInv'
  <2>0. PICK i \in DOMAIN stock, delta \in Int, n \in Nat :
          i = clerk[c].row /\ delta = clerk[c].delta /\ n = clerk[c].onHand
    BY <1>7 DEF W!WriteStock, RegisterInv
  <2> DEFINE new == [row |-> i, delta |-> delta]
  <2>1. /\ stock' = [stock EXCEPT ![i].onHand = n, ![i].available = W!NotBelowZero(n - stock[i].reserved)]
        /\ ledger' = Append(ledger, new)
        /\ clerk' = [clerk EXCEPT ![c] = W!Idle]
    BY <1>7, <2>0 DEF W!WriteStock, W!Done
  <2>2. stock[i] \in StockRow
    BY StockRows
  <2>3. new \in LedgerRow /\ new.row = i /\ new.delta = delta
    <3>1. i \in Nat
      BY DEF RegisterInv
    <3> QED
      BY <3>1 DEF LedgerRow
  <2>4. W!NotBelowZero(n - stock[i].reserved) = n
    BY <2>2 DEF W!NotBelowZero, StockRow
  <2>5. /\ stock' \in Seq(StockRow) /\ DOMAIN stock' = DOMAIN stock
        /\ stock'[i].onHand = n /\ stock'[i].available = n /\ stock'[i].opening = stock[i].opening
        /\ \A j \in DOMAIN stock \ {i} : stock'[j] = stock[j]
    <3> DEFINE row == [[stock[i] EXCEPT !.onHand = n] EXCEPT !.available = n]
    <3>1. stock' = [stock EXCEPT ![i] = row]
      BY <2>1, <2>4 DEF RegisterInv
    <3>2. row \in StockRow /\ row.onHand = n /\ row.available = n /\ row.opening = stock[i].opening
      BY <2>2 DEF StockRow
    <3> HIDE DEF row
    <3> QED
      BY <3>1, <3>2 DEF RegisterInv
  <2> HIDE DEF new
  <2>6. ledger' \in Seq(LedgerRow)
    BY <2>1, <2>3, Appended DEF RegisterInv
  <2>7. clerk' = [x \in Desks |-> clerk'[x]]
        /\ \A x \in Desks : clerk'[x] = IF x = c THEN W!Idle ELSE clerk[x]
    BY <2>1 DEF RegisterInv
  <2>8. \A j \in DOMAIN stock : stock[j].opening \in Nat /\ stock[j].onHand \in Nat
    BY StockRows
  <2>9. Explains(ledger', i, stock[i].opening, n)
    <3>1. Explains(ledger, i, stock[i].opening, n - delta)
      BY <1>7, <2>0 DEF W!WriteStock, RegisterInv
    <3>2. n - delta \in Int /\ (n - delta) + delta = n
      OBVIOUS
    <3> QED
      BY <2>1, <2>3, <2>8, <3>1, <3>2, ExplainedGrows DEF RegisterInv
  <2>10. ASSUME NEW j \in DOMAIN stock
         PROVE  /\ stock'[j].available = stock'[j].onHand
                /\ Explains(ledger', j, stock'[j].opening, stock'[j].onHand)
    <3>1. CASE j = i
      BY <2>5, <2>9, <3>1
    <3>2. CASE j # i
      <4>1. Explains(ledger, j, stock[j].opening, stock[j].onHand)
        BY DEF RegisterInv
      <4>2. Explains(ledger', j, stock[j].opening, stock[j].onHand)
        BY <2>1, <2>3, <2>8, <4>1, ExplainedGrows DEF RegisterInv
      <4> QED
        BY <2>5, <3>2, <4>2 DEF RegisterInv
    <3> QED
      BY <3>1, <3>2
  <2>11. ASSUME NEW x \in Desks, clerk'[x].op = "adjust"
         PROVE  /\ clerk'[x].row \in DOMAIN stock' /\ clerk'[x].delta \in Int /\ clerk'[x].onHand \in Nat
                /\ Explains(ledger', clerk'[x].row, stock'[clerk'[x].row].opening,
                            clerk'[x].onHand - clerk'[x].delta)
    <3>1. clerk'[x] = clerk[x]
      BY <1>0, <2>7, <2>11
    <3>2. /\ clerk[x].row \in DOMAIN stock /\ clerk[x].delta \in Int /\ clerk[x].onHand \in Nat
          /\ Explains(ledger, clerk[x].row, stock[clerk[x].row].opening, clerk[x].onHand - clerk[x].delta)
      BY <2>11, <3>1 DEF RegisterInv
    <3>3. Explains(ledger', clerk[x].row, stock[clerk[x].row].opening, clerk[x].onHand - clerk[x].delta)
      BY <2>1, <2>3, <2>8, <3>2, ExplainedGrows DEF RegisterInv
    <3>4. stock'[clerk[x].row].opening = stock[clerk[x].row].opening
      BY <2>5, <3>2
    <3> QED
      BY <2>5, <3>1, <3>2, <3>3, <3>4
  <2>12. \A x \in Desks : clerk'[x].op = "stock" => clerk'[x].product \in Products /\ clerk'[x].opening \in Nat
    BY <1>0, <2>7 DEF RegisterInv
  <2> QED
    BY <2>5, <2>6, <2>7, <2>10, <2>11, <2>12 DEF RegisterInv
<1>8. \/ UNCHANGED <<stock, ledger, clerk>>
      \/ \E c \in Desks :
           \/ \E p \in Products, n \in Openings : W!CreateStock(c, p, n)
           \/ \E i \in DOMAIN stock, delta \in Deltas : W!AdjustStock(c, i, delta)
           \/ \E code \in Codes : W!CreateWarehouse(c, code)
           \/ \E t \in DOMAIN transfer, to \in {"COMPLETED", "CANCELLED"} : W!MoveTransfer(c, t, to)
           \/ W!InsertStock(c) \/ W!WriteStock(c) \/ W!InsertWarehouse(c) \/ W!WriteTransfer(c) \/ W!Abort(c)
  BY DEF W!Next, W!vars, W!StockCalls, W!WarehouseCalls, W!TransferCalls, W!UpdateWarehouse, W!CreateTransfer
<1> QED
  BY <1>1, <1>2, <1>3, <1>4, <1>5, <1>6, <1>7, <1>8

\* Whatever adjustments overlap, stock on hand is what a row opened with and a
\* sum of ledger rows, none twice; it is never negative, and all available.
THEOREM RegisterExplained == W!Spec => []LedgerExplainsStock
<1>1. W!Init => RegisterInv
  BY RegisterInit
<1>2. RegisterInv /\ [W!Next]_W!vars => RegisterInv'
  BY RegisterStep
<1>3. RegisterInv => LedgerExplainsStock
  <2> SUFFICES ASSUME RegisterInv, NEW i \in DOMAIN stock
               PROVE  /\ \E ms \in SUBSET W!Movements(i) : stock[i].onHand = stock[i].opening + W!Total(ms)
                      /\ stock[i].onHand >= 0
                      /\ stock[i].available = stock[i].onHand - stock[i].reserved
    BY DEF LedgerExplainsStock, W!LedgerExplainsStock
  <2>1. stock[i].onHand \in Nat /\ stock[i].reserved = 0 /\ stock[i].available = stock[i].onHand
    BY StockRows
  <2>2. Explains(ledger, i, stock[i].opening, stock[i].onHand)
    BY DEF RegisterInv
  <2>3. \A ms : W!Total(ms) = LedgerSum(ledger, ms)
    BY DEF W!Total, LedgerSum, SumFunction, SumFunctionOnSet, FoldFunctionOnSet, MapThenFoldSet,
           W!SumFunction, W!SumFunctionOnSet, W!FoldFunctionOnSet, W!MapThenFoldSet
  <2>4. W!Movements(i) = {m \in DOMAIN ledger : ledger[m].row = i}
    BY DEF W!Movements
  <2> QED
    BY <2>1, <2>2, <2>3, <2>4 DEF Explains
<1> QED
  BY <1>1, <1>2, <1>3, PTL DEF W!Spec

=============================================================================
