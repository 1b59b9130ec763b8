----------------------------- MODULE Workforce -----------------------------
(***************************************************************************)
(* Attendance and leave (AttendanceIngestService, WorkforceService, the    *)
(* attendance part of EmployeeService): one record per employee and day,   *)
(* written by the punching machines, the employee's web page, the desk's   *)
(* corrections and approved leave.                                         *)
(*                                                                         *)
(* A machine sends its log when it can, in any order, and sends it again   *)
(* when the answer is lost.                                                *)
(*                                                                         *)
(* A request is two steps: it reads the tables, takes no lock and works    *)
(* out what it will write (there is no autoflush); Commit writes that, as  *)
(* an INSERT, a DELETE or an UPDATE of the columns it changed, over the    *)
(* tables as they are then.  The code lets any two requests overlap:       *)
(* Overlaps says which do, for the properties that need some kept apart.   *)
(*                                                                         *)
(* Of a record only which of its times are set is kept: PRESENT stands for *)
(* PRESENT, LATE, HALF_DAY and ON_DUTY.  Permissions, wages and the audit  *)
(* log are left out, and so are punches from the future, which are         *)
(* refused.                                                                *)
(***************************************************************************)
EXTENDS Integers, FiniteSets

CONSTANTS
  Employees, Pins, Machines,
  LastDay, DayEnd,    \* bounds: days, and the times of a day
  Ticks,              \* bound: when a machine may be punched: [day, at]
  Window,             \* PUNCH_DEBOUNCE_SECONDS
  MaxBackfill,        \* MAX_BACKFILL_DAYS
  Leaves,             \* bound: leave requests
  Requests,           \* bound: requests that may be under way together
  Overlaps,           \* the kinds that may be: sets of two kinds, or of one that meets itself
  Corrections,        \* what the desk may send: [in, out : BOOLEAN, status]
  MaxBatch            \* bound: punches of one push

Kinds == {"push", "pin", "sweep", "punch", "correct", "delete", "submit", "decide"}
Days == 1..LastDay

ASSUME DayAssumption == LastDay \in Nat \ {0}
ASSUME TickAssumption == Ticks \subseteq [day : Days, at : 0..DayEnd]
ASSUME BackfillAssumption == MaxBackfill \in Nat
ASSUME NoneAssumption == "none" \notin Employees \cup Pins
ASSUME OverlapAssumption == Overlaps \subseteq SUBSET Kinds

VARIABLES
  today,
  record,    \* employee_attendance
  owner,     \* attendance_punches: the punches stored, and their employee_id
  pin,       \* employee_profiles.device_pin
  leave,     \* leave requests
  request    \* requests under way: what they will write

vars == <<today, record, owner, pin, leave, request>>
tables == <<today, record, owner, pin, leave>>

Punches == [by : Machines, pin : Pins, tick : Ticks]
Statuses == {"PRESENT", "LEAVE", "ABSENT", "PENDING_CORRECTION"}
Exceptions == {"none", "MISSING_OUT", "ODD_PUNCHES", "PUNCH_ON_LEAVE", "WEB_AND_DEVICE"}
Record == [status : Statuses, source : {"WEB", "DEVICE", "ADMIN"}, exception : Exceptions,
           in : BOOLEAN, out : BOOLEAN, count : Nat]
ASSUME CorrectionsAssumption ==
  Corrections \subseteq [in : BOOLEAN, out : BOOLEAN, status : Statuses \cup {"derived"}]
\* CLOSED stands for REJECTED and CANCELLED, which do the same to the records.
LeaveTransitions == [PENDING |-> {"APPROVED", "CLOSED"}, APPROVED |-> {"CLOSED"}, CLOSED |-> {}]
Leave == [who : Employees, first : Days, last : Days, status : DOMAIN LeaveTransitions]

NoRecord == [status |-> "none"]
NoLeave == [status |-> "none"]
Has(e, d) == record[e][d] # NoRecord
Covers(l, d) == l.first <= d /\ d <= l.last
Owned(own, e, d) == {p \in DOMAIN own : own[p] = e /\ p.tick.day = d}

-----------------------------------------------------------------------------
(* Requests.                                                               *)

\* What a request will write: the rows, with what it read of them, and the
\* values of some punches' owners, employees' PINs and leaves.
Idle == [kind |-> "none"]
Empty == [x \in {} |-> x]
Only(x, v) == [y \in {x} |-> v]
Over(f, g) == [x \in DOMAIN f \cup DOMAIN g |-> IF x \in DOMAIN f THEN f[x] ELSE g[x]]
Writes(kind) == [kind |-> kind, rows |-> Empty, owner |-> Empty, pin |-> Empty, leave |-> Empty]

\* One row.  A row taken out and built again is locked by its DELETE until the commit.
Change(how, read, new) == [how |-> how, read |-> read, new |-> new]
Save(read, new) == Change(IF read = NoRecord THEN "insert" ELSE "update", read, new)
Gone == [status |-> "gone"]   \* the row that was read is not there any more

Active(q) == request[q] # Idle
Locked(e, d) == \E q \in Requests :
  Active(q) /\ <<e, d>> \in DOMAIN request[q].rows /\ request[q].rows[<<e, d>>].how = "rebuild"

Admitted(kind) == \A q \in Requests : Active(q) => {kind, request[q].kind} \in Overlaps
Begin(q, writes) ==
  /\ ~Active(q) /\ Admitted(writes.kind)
  /\ request' = [request EXCEPT ![q] = writes]
  /\ UNCHANGED tables

\* An UPDATE sets the columns whose value is not the one that was read.
Updated(now, read, new) == [f \in DOMAIN now |-> IF new[f] = read[f] THEN now[f] ELSE new[f]]

\* An INSERT meets the unique index, an UPDATE of a row that is gone is an error.
Possible(c, now) ==
  /\ c.how = "insert" => now = NoRecord
  /\ c.how = "update" => c.read # Gone
After(c, now) ==
  IF c.how = "update" THEN Updated(now, c.read, c.new) ELSE IF c.read = Gone THEN now ELSE c.new

\* What is left of a request after the rows in taken were deleted.
Missing(w, taken) ==
  IF w = Idle THEN w ELSE
  [w EXCEPT !.rows = [x \in DOMAIN w.rows |->
     IF x \in taken /\ w.rows[x].how # "insert" THEN [w.rows[x] EXCEPT !.read = Gone] ELSE w.rows[x]]]

Commit(q) ==
  LET w == request[q]
      row(e, d) == w.rows[<<e, d>>]
      writes(e, d) == <<e, d>> \in DOMAIN w.rows
      taken == {x \in DOMAIN w.rows : w.rows[x].how \in {"delete", "rebuild"} /\ w.rows[x].read # Gone} IN
  /\ Active(q)
  /\ \A e \in Employees, d \in Days : writes(e, d) =>
       Possible(row(e, d), record[e][d]) /\ (Locked(e, d) => row(e, d).how = "rebuild")
  /\ \A e \in DOMAIN w.pin : w.pin[e] = "none" \/ \A f \in Employees \ {e} : pin[f] # w.pin[e]
  /\ record' = [e \in Employees |-> [d \in Days |->
       IF writes(e, d) THEN After(row(e, d), record[e][d]) ELSE record[e][d]]]
  /\ owner' = Over(w.owner, owner)
  /\ pin' = Over(w.pin, pin)
  /\ leave' = Over(w.leave, leave)
  /\ request' = [r \in Requests |-> IF r = q THEN Idle ELSE Missing(request[r], taken)]
  /\ UNCHANGED today

\* An error, a lost connection, or a write that is not possible.  A machine still has its log.
Abort(q) ==
  /\ Active(q)
  /\ request' = [request EXCEPT ![q] = Idle]
  /\ UNCHANGED tables

Init ==
  /\ today = 1
  /\ record = [e \in Employees |-> [d \in Days |-> NoRecord]]
  /\ owner = Empty
  /\ pin = [e \in Employees |-> "none"]
  /\ leave = [l \in Leaves |-> NoLeave]
  /\ request = [q \in Requests |-> Idle]

-----------------------------------------------------------------------------
(* Machine punches.                                                        *)

\* debounce_punches: in the order of time, a stamp near the last one kept is
\* dropped, whichever machine it comes from.
Kept(stamps) ==
  LET kept[t \in 0..DayEnd] ==
        LET before == IF t = 0 THEN {} ELSE kept[t - 1] IN
        IF t \in stamps /\ \A s \in before : t - s >= Window THEN before \cup {t} ELSE before
  IN kept[DayEnd]
Taps(own, e, d) == Cardinality(Kept({p.tick.at : p \in Owned(own, e, d)}))

\* summarize_punches, of n taps: an odd count is somebody still in, or, once
\* the day is over, a punch that is missing.
Summary(d, n) ==
  LET missing == d < today /\ n % 2 = 1 IN
  [status |-> IF missing THEN "PENDING_CORRECTION" ELSE "PRESENT", source |-> "DEVICE",
   exception |-> IF ~missing THEN "none" ELSE IF n = 1 THEN "MISSING_OUT" ELSE "ODD_PUNCHES",
   in |-> TRUE, out |-> n % 2 = 0, count |-> n]

OnLeave(r) == r.status = "LEAVE" /\ ~r.in

\* recompute_day, with r the record of the day and own the owners of the punches.
Recompute(r, own, e, d) ==
  IF Owned(own, e, d) = {} \/ (r # NoRecord /\ r.source = "ADMIN") THEN r
  ELSE IF r # NoRecord /\ OnLeave(r) THEN [r EXCEPT !.exception = "PUNCH_ON_LEAVE"]
  ELSE IF r # NoRecord /\ r.source = "WEB" /\ r.in THEN [r EXCEPT !.exception = "WEB_AND_DEVICE"]
  ELSE Summary(d, Taps(own, e, d))

\* What recomputing the days in touched (a set of <<employee, day>>) writes.
RecomputeDays(touched, own) ==
  LET new(x) == Recompute(record[x[1]][x[2]], own, x[1], x[2]) IN
  [x \in {y \in touched : new(y) # record[y[1]][y[2]]} |-> Save(record[x[1]][x[2]], new(x))]

OwnerOf(q) == IF \E e \in Employees : pin[e] = q THEN CHOOSE e \in Employees : pin[e] = q ELSE "none"

\* ingest: what is stored already is left as it is; of a punch that another
\* push is about to store, the unique constraint waits for the outcome.
Push(q, batch) ==
  LET new == [p \in batch \ DOMAIN owner |-> OwnerOf(p.pin)]
      touched == {<<new[p], p.tick.day>> : p \in {x \in DOMAIN new : new[x] # "none"}} IN
  /\ batch # {} /\ Cardinality(batch) <= MaxBatch /\ \A p \in batch : p.tick.day <= today
  /\ \A p, r \in batch : p.by = r.by
  /\ \A r \in Requests : Active(r) /\ request[r].kind = "push" => batch \cap DOMAIN request[r].owner = {}
  /\ Begin(q, [Writes("push") EXCEPT !.owner = new, !.rows = RecomputeDays(touched, Over(new, owner))])

\* set_device_pin: the unmapped punches of the PIN are attached, and the newest
\* of the PIN's days recomputed.  "none" clears the PIN; what was attached stays.
SetPin(q, e, v) ==
  LET attached == {p \in DOMAIN owner : p.pin = v /\ owner[p] = "none"}
      own == Over([p \in attached |-> e], owner)
      days == {p.tick.day : p \in {x \in DOMAIN own : own[x] = e /\ x.pin = v}}
      newest == {d \in days : Cardinality({x \in days : x > d}) < MaxBackfill} IN
  /\ v # "none" => \A f \in Employees \ {e} : pin[f] # v
  /\ Begin(q, [Writes("pin") EXCEPT !.pin = Only(e, v), !.owner = [p \in attached |-> e],
       !.rows = IF attached = {} THEN Empty ELSE RecomputeDays({e} \X newest, own)])

Midnight ==
  /\ today < LastDay
  /\ today' = today + 1
  /\ UNCHANGED <<record, owner, pin, leave, request>>

\* sweep_open_days, run by the desk's view of a day: one UPDATE.
Sweep ==
  /\ Admitted("sweep")
  /\ record' = [e \in Employees |-> [d \in Days |->
       IF /\ Has(e, d) /\ d < today /\ today - d <= MaxBackfill
          /\ record[e][d].in /\ ~record[e][d].out
          /\ record[e][d].exception = "none" /\ record[e][d].source # "ADMIN"
          /\ record[e][d].status = "PRESENT"
       THEN [record[e][d] EXCEPT !.status = "PENDING_CORRECTION",
               !.exception = IF record[e][d].count > 1 THEN "ODD_PUNCHES" ELSE "MISSING_OUT"]
       ELSE record[e][d]]]
  /\ record' # record
  /\ UNCHANGED <<today, owner, pin, leave, request>>

-----------------------------------------------------------------------------
(* The employee's page.                                                    *)

SaveDay(q, kind, e, d, new) ==
  Begin(q, [Writes(kind) EXCEPT !.rows = Only(<<e, d>>, Save(record[e][d], new))])

PunchIn(q, e) ==
  LET r == record[e][today] IN
  /\ Has(e, today) => r.source = "WEB" /\ ~r.in
  /\ \A l \in Leaves : leave[l].status = "APPROVED" /\ leave[l].who = e => ~Covers(leave[l], today)
  /\ SaveDay(q, "punch", e, today,
       [status |-> "PRESENT", source |-> "WEB", in |-> TRUE, out |-> FALSE, count |-> 1,
        exception |-> IF Has(e, today) THEN r.exception ELSE "none"])

PunchOut(q, e) ==
  LET r == record[e][today] IN
  /\ Has(e, today) /\ r.source = "WEB" /\ r.in /\ ~r.out
  /\ SaveDay(q, "punch", e, today, [r EXCEPT !.out = TRUE, !.count = 2, !.status = "PRESENT"])

OpenLeave == {"PENDING", "APPROVED"}
Overlap_Approved(l, e, first, last) ==   \* mutant: only granted leave is looked at
  leave[l].status = "APPROVED" /\ leave[l].who = e /\ leave[l].first <= last /\ first <= leave[l].last
Overlap(l, e, first, last) ==
  leave[l].status \in OpenLeave /\ leave[l].who = e /\ leave[l].first <= last /\ first <= leave[l].last

\* create_leave.  Every submission makes a leave of its own.
Submit(q, l, e, first, last) ==
  /\ leave[l] = NoLeave /\ \A r \in Requests : Active(r) => l \notin DOMAIN request[r].leave
  /\ first <= last
  /\ \A other \in Leaves : ~Overlap(other, e, first, last)
  /\ Begin(q, [Writes("submit") EXCEPT !.leave =
       Only(l, [who |-> e, first |-> first, last |-> last, status |-> "PENDING"])])

-----------------------------------------------------------------------------
(* The desk.                                                               *)

NoTimes == [status |-> "PRESENT", in |-> FALSE, out |-> FALSE]

\* _apply_admin_timing: a row the desk wrote is final.
Timed(old, c) ==
  LET in == old.in \/ c.in
      out == old.out \/ c.out IN
  [status |-> IF c.status # "derived" THEN c.status
              ELSE IF in /\ old.status # "LEAVE" THEN "PRESENT" ELSE old.status,
   source |-> "ADMIN", exception |-> "none", in |-> in, out |-> out,
   count |-> (IF in THEN 1 ELSE 0) + (IF out THEN 1 ELSE 0)]

\* create_attendance (over the day's record if there is one) and update_attendance.
Correct(q, e, d, c) == SaveDay(q, "correct", e, d, Timed(IF Has(e, d) THEN record[e][d] ELSE NoTimes, c))

\* The row is deleted and, if a machine recorded the day, built again.
Rebuild(e, d) == Change("rebuild", record[e][d], Recompute(NoRecord, owner, e, d))

\* delete_attendance: the day goes back to what the machines say.
DeleteAttendance(q, e, d) ==
  /\ Has(e, d) /\ ~Locked(e, d)
  /\ Begin(q, [Writes("delete") EXCEPT !.rows = Only(<<e, d>>, Rebuild(e, d))])

\* _derive_leave_attendance: the days that have no record yet.
Derived == [status |-> "LEAVE", source |-> "WEB", exception |-> "none",
            in |-> FALSE, out |-> FALSE, count |-> 0]
Derive(l) ==
  [x \in {y \in {leave[l].who} \X Days : Covers(leave[l], y[2]) /\ ~Has(y[1], y[2])} |->
     Save(NoRecord, Derived)]

\* _clear_derived_leave_attendance: a day a machine has flagged is rebuilt.
LeaveRows(l) == {x \in {leave[l].who} \X Days :
  Covers(leave[l], x[2]) /\ Has(x[1], x[2]) /\ OnLeave(record[x[1]][x[2]])}
Clear_KeepFlagged(l) ==   \* mutant: a day with punches keeps its leave record
  [x \in {y \in LeaveRows(l) : record[y[1]][y[2]].exception = "none"} |->
     Change("delete", record[x[1]][x[2]], NoRecord)]
Clear_Hole(l) ==   \* mutant: a day with punches is left without a record
  [x \in LeaveRows(l) |-> Change("delete", record[x[1]][x[2]], NoRecord)]
Clear(l) ==
  [x \in LeaveRows(l) |->
     IF record[x[1]][x[2]].exception = "PUNCH_ON_LEAVE" THEN Rebuild(x[1], x[2])
     ELSE Change("delete", record[x[1]][x[2]], NoRecord)]

\* cancel_leave and decide_leave.
Decide(q, l, to) ==
  /\ leave[l] # NoLeave /\ to \in LeaveTransitions[leave[l].status]
  /\ \A x \in LeaveRows(l) : to = "CLOSED" => ~Locked(x[1], x[2])
  /\ Begin(q, [Writes("decide") EXCEPT !.leave = Only(l, [leave[l] EXCEPT !.status = to]),
       !.rows = IF to = "APPROVED" THEN Derive(l) ELSE Clear(l)])

\* day_roster: the record of the day, or a row made up where there is none.
Roster(e, d) ==
  IF Has(e, d) THEN record[e][d].status
  ELSE IF \E l \in Leaves : leave[l].status = "APPROVED" /\ leave[l].who = e /\ Covers(leave[l], d)
       THEN "LEAVE"
  ELSE IF d < today THEN "ABSENT" ELSE "NOT_CHECKED_IN"

-----------------------------------------------------------------------------

PunchCalls(q, e) == PunchIn(q, e) \/ PunchOut(q, e)

AttendanceCalls(q, e) == \E d \in Days :
  \/ DeleteAttendance(q, e, d)
  \/ \E c \in Corrections : Correct(q, e, d, c)

LeaveCalls(q) ==
  \/ \E e \in Employees, l \in Leaves, first, last \in Days : Submit(q, l, e, first, last)
  \/ \E l \in Leaves, to \in DOMAIN LeaveTransitions : Decide(q, l, to)

Next ==
  \/ Midnight \/ Sweep
  \/ \E q \in Requests :
       \/ \E batch \in SUBSET Punches : Push(q, batch)
       \/ \E e \in Employees :
            \/ \E v \in Pins \cup {"none"} : SetPin(q, e, v)
            \/ PunchCalls(q, e)
            \/ AttendanceCalls(q, e)
       \/ LeaveCalls(q)
       \/ Commit(q) \/ Abort(q)

Spec == Init /\ [][Next]_vars

-----------------------------------------------------------------------------
(* Properties.                                                             *)

\* A day with punches of an employee always has a record, whatever the desk
\* deletes and whichever leave is withdrawn (recompute_day fills every hole),
\* and a record taken from the machines counts every tap of the day, however
\* late its punch arrived, was repeated, or was attached by a new PIN; and only a
\* day without a check-out is flagged as unfinished.  This holds where a PIN's
\* punches fill no more than MaxBackfill days, where the desk enters no leave of
\* its own, and where requests that write one day do not overlap.  These may: a
\* push and a web punch, a correction and a deletion, and any of the hand-made
\* ones with a decision on a leave.
MachineDaysKept ==
  \A e \in Employees, d \in Days :
    /\ Owned(owner, e, d) # {} => Has(e, d)
    /\ Has(e, d) /\ record[e][d].source = "DEVICE" =>
         record[e][d].count = Taps(owner, e, d)
    /\ Has(e, d) /\ record[e][d].exception \in {"MISSING_OUT", "ODD_PUNCHES"} =>
         record[e][d].in /\ ~record[e][d].out

\* A day the roster shows as leave, and the desk has not entered by hand, belongs
\* to a leave that stands: whoever withdrew a leave, no day of it is left behind.
\* So where no two decisions overlap.
LeaveDaysBacked ==
  \A e \in Employees, d \in Days :
    Roster(e, d) = "LEAVE" /\ (Has(e, d) => record[e][d].source = "WEB") =>
      \E l \in Leaves : leave[l].status = "APPROVED" /\ leave[l].who = e /\ Covers(leave[l], d)

\* Withdrawing or refusing a leave takes no day of another leave that stands.  So
\* where no two decisions overlap, and no two submissions (create_leave looks for
\* open leaves on the same days and then inserts its own).
StandingLeaveKept ==
  [][leave' # leave =>
       \A e \in Employees, d \in Days :
         Has(e, d) /\ record'[e][d] = NoRecord =>
           \A l \in Leaves : leave'[l].status = "APPROVED" /\ leave'[l].who = e => ~Covers(leave'[l], d)]_vars

=============================================================================
