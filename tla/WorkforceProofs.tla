-------------------------- MODULE WorkforceProofs --------------------------
(***************************************************************************)
(* Attendance and leave, for any number of employees, machines, punches    *)
(* and requests: what a day's record says of its punches and of the leaves *)
(* that stand, and which requests must not overlap for it.                 *)
(***************************************************************************)
EXTENDS Workforce, FiniteSetTheorems, TLAPS

\* A record; its count, a cardinality, may be anything.
IsRecord(r) ==
  r \in [status : Statuses, source : {"WEB", "DEVICE", "ADMIN"}, exception : Exceptions,
         in : BOOLEAN, out : BOOLEAN, count : {r.count}]

\* The rows, without their counts.
RowsTyped ==
  /\ today \in Nat /\ today \in Days
  /\ record = [e \in Employees |-> [d \in Days |-> record[e][d]]]
  /\ \A e \in Employees, d \in Days : record[e][d] = NoRecord \/ IsRecord(record[e][d])
  /\ leave \in [Leaves -> Leave \cup {NoLeave}]

Unfinished == {"MISSING_OUT", "ODD_PUNCHES"}

\* What a day's record says, with own the owners of the punches and now today.
\* No leave day is the desk's: Settling is what keeps it so.
DayOK(r, own, now, e, d) ==
  \/ r = NoRecord /\ Owned(own, e, d) = {}
  \/ /\ IsRecord(r)
     /\ r.source = "DEVICE" => r.in /\ r.count = Taps(own, e, d)
     /\ r.exception \in Unfinished => r.in /\ ~r.out /\ d < now
     /\ OnLeave(r) => r.source = "WEB"
     /\ OnLeave(r) /\ Owned(own, e, d) # {} => r.exception = "PUNCH_ON_LEAVE"
DaysOK == \A e \in Employees, d \in Days : DayOK(record[e][d], owner, today, e, d)

\* What the desk sends has a check-in, or says that the day is no leave day.
Settling == \A c \in Corrections : c.in \/ c.status \notin {"LEAVE", "derived"}

-----------------------------------------------------------------------------
(* Records.                                                                *)

LEMMA NotARecord == \A r : IsRecord(r) => r # NoRecord
BY DEF IsRecord, NoRecord, Statuses

LEMMA SummaryIsRecord ==
  ASSUME NEW d, NEW n
  PROVE  /\ IsRecord(Summary(d, n)) /\ Summary(d, n).source = "DEVICE" /\ Summary(d, n).in
         /\ Summary(d, n).count = n /\ ~OnLeave(Summary(d, n))
         /\ Summary(d, n).exception \in Unfinished => ~Summary(d, n).out /\ d < today
<1> DEFINE missing == d < today /\ n % 2 = 1
           s == Summary(d, n)
<1>1. /\ s.source = "DEVICE" /\ s.in = TRUE /\ s.count = n /\ s.out = (n % 2 = 0)
      /\ s.status = IF missing THEN "PENDING_CORRECTION" ELSE "PRESENT"
      /\ s.exception = IF ~missing THEN "none" ELSE IF n = 1 THEN "MISSING_OUT" ELSE "ODD_PUNCHES"
  BY DEF Summary
<1>2. s.exception \in Unfinished => missing
  BY <1>1 DEF Unfinished
<1>3. s.status \in Statuses /\ s.status # "LEAVE" /\ s.exception \in Exceptions
  BY <1>1 DEF Statuses, Exceptions
<1>4. s = [status |-> s.status, source |-> "DEVICE", exception |-> s.exception, in |-> TRUE,
           out |-> (n % 2 = 0), count |-> n]
  BY <1>1 DEF Summary
<1>5. s.out \in BOOLEAN /\ (missing => ~s.out)
  <2>1. s.out = (n % 2 = 0)
    BY <1>1
  <2>2. missing => ~(n % 2 = 0)
    OBVIOUS
  <2> HIDE DEF s, missing
  <2> QED
    BY <2>1, <2>2, Zenon
<1>6. IsRecord(s)
  BY <1>1, <1>3, <1>4, <1>5 DEF IsRecord
<1> QED
  BY <1>1, <1>2, <1>3, <1>5, <1>6 DEF OnLeave

LEMMA FlagIsRecord ==
  ASSUME NEW r, IsRecord(r), NEW x \in Exceptions
  PROVE  LET f == [r EXCEPT !.exception = x]
         IN /\ IsRecord(f) /\ f.status = r.status /\ f.source = r.source /\ f.count = r.count
            /\ f.in = r.in /\ f.out = r.out /\ f.exception = x /\ (OnLeave(f) <=> OnLeave(r))
BY DEF IsRecord, OnLeave

\* Recomputing a day puts it right, if what is wrong with it is only that its
\* record does not count the punches yet.
LEMMA RecomputeOK ==
  ASSUME NEW r, NEW own, NEW e, NEW d,
         r = NoRecord \/ IsRecord(r),
         IsRecord(r) /\ r.source # "ADMIN" => (OnLeave(r) => r.source = "WEB"),
         IsRecord(r) => (r.exception \in Unfinished => r.in /\ ~r.out /\ d < today),
         IsRecord(r) => (r.source = "ADMIN" => ~OnLeave(r)),
         Owned(own, e, d) = {} => DayOK(r, own, today, e, d)
  PROVE  DayOK(Recompute(r, own, e, d), own, today, e, d)
<1> DEFINE n == Taps(own, e, d)
           new == Recompute(r, own, e, d)
<1>1. CASE Owned(own, e, d) = {}
  BY <1>1 DEF Recompute
<1>2. CASE Owned(own, e, d) # {} /\ IsRecord(r) /\ r.source = "ADMIN"
  <2>1. new = r
    BY <1>2, NotARecord DEF Recompute
  <2> QED
    BY <1>2, <2>1 DEF DayOK
<1>3. CASE Owned(own, e, d) # {} /\ IsRecord(r) /\ r.source # "ADMIN" /\ OnLeave(r)
  <2>1. new = [r EXCEPT !.exception = "PUNCH_ON_LEAVE"]
    BY <1>3, NotARecord DEF Recompute
  <2>2. "PUNCH_ON_LEAVE" \in Exceptions /\ "PUNCH_ON_LEAVE" \notin Unfinished
    BY DEF Exceptions, Unfinished
  <2> QED
    BY <1>3, <2>1, <2>2, FlagIsRecord DEF DayOK
<1>4. CASE Owned(own, e, d) # {} /\ IsRecord(r) /\ ~OnLeave(r) /\ r.source = "WEB" /\ r.in
  <2>1. new = [r EXCEPT !.exception = "WEB_AND_DEVICE"]
    BY <1>4, NotARecord DEF Recompute
  <2>2. "WEB_AND_DEVICE" \in Exceptions /\ "WEB_AND_DEVICE" \notin Unfinished
    BY DEF Exceptions, Unfinished
  <2> QED
    BY <1>4, <2>1, <2>2, FlagIsRecord DEF DayOK
<1>5. CASE /\ Owned(own, e, d) # {}
           /\ IsRecord(r) => r.source # "ADMIN" /\ ~OnLeave(r) /\ ~(r.source = "WEB" /\ r.in)
  <2>1. new = Summary(d, n)
    BY <1>5, NotARecord DEF Recompute
  <2> HIDE DEF n, new
  <2>2. DayOK(new, own, today, e, d)
    BY <1>5, <2>1, SummaryIsRecord DEF DayOK, n
  <2> QED
    BY <2>2 DEF new
<1> QED
  BY <1>1, <1>2, <1>3, <1>4, <1>5

\* Whatever there was, what a recomputation leaves is a record, and one of the
\* web page only if it was one.
LEMMA RecomputeType ==
  ASSUME NEW r, NEW own, NEW e, NEW d, r = NoRecord \/ IsRecord(r)
  PROVE  LET new == Recompute(r, own, e, d)
         IN \/ new = r
            \/ /\ IsRecord(new)
               /\ \/ r = NoRecord /\ new.source = "DEVICE"
                  \/ IsRecord(r) /\ new.source = "DEVICE"
                  \/ IsRecord(r) /\ new.source = r.source /\ new.status = r.status /\ new.in = r.in
<1> DEFINE new == Recompute(r, own, e, d)
<1>1. CASE new = r
  BY <1>1
<1>2. CASE IsRecord(r) /\ \E x \in Exceptions : new = [r EXCEPT !.exception = x]
  BY <1>2, FlagIsRecord
<1>3. CASE new = Summary(d, Taps(own, e, d))
  BY <1>3, SummaryIsRecord
<1>4. "PUNCH_ON_LEAVE" \in Exceptions /\ "WEB_AND_DEVICE" \in Exceptions
  BY DEF Exceptions
<1>5. \/ new = r
      \/ IsRecord(r) /\ \E x \in Exceptions : new = [r EXCEPT !.exception = x]
      \/ new = Summary(d, Taps(own, e, d))
  BY <1>4 DEF Recompute
<1> QED
  BY <1>1, <1>2, <1>3, <1>5

LEMMA DerivedIsRecord == IsRecord(Derived) /\ Derived.source = "WEB" /\ ~Derived.in /\ Derived.exception = "none"
BY DEF Derived, IsRecord, Statuses, Exceptions

LEMMA PunchedOutIsRecord ==
  ASSUME NEW r, IsRecord(r)
  PROVE  LET new == [r EXCEPT !.out = TRUE, !.count = 2, !.status = "PRESENT"]
         IN /\ IsRecord(new) /\ new.status = "PRESENT" /\ new.source = r.source
            /\ new.in = r.in /\ new.exception = r.exception /\ new.count = 2
<1> DEFINE a == [r EXCEPT !.out = TRUE]
           b == [a EXCEPT !.count = 2]
           new == [b EXCEPT !.status = "PRESENT"]
<1>1. IsRecord(a) /\ a.source = r.source /\ a.in = r.in /\ a.exception = r.exception
  BY DEF IsRecord
<1>2. IsRecord(b) /\ b.source = r.source /\ b.in = r.in /\ b.exception = r.exception /\ b.count = 2
  <2> HIDE DEF a
  <2> QED
    BY <1>1 DEF IsRecord
<1>3. /\ IsRecord(new) /\ new.status = "PRESENT" /\ new.source = r.source
      /\ new.in = r.in /\ new.exception = r.exception /\ new.count = 2
  <2> HIDE DEF b
  <2> QED
    BY <1>2 DEF IsRecord, Statuses
<1> QED
  BY <1>3, Zenon

LEMMA TimedType ==
  ASSUME NEW old, IsRecord(old) \/ old = NoTimes, NEW c \in Corrections
  PROVE  LET new == Timed(old, c)
         IN /\ IsRecord(new) /\ new.source = "ADMIN" /\ new.exception = "none"
            /\ c.in \/ c.status \notin {"LEAVE", "derived"} => ~OnLeave(new)
<1> DEFINE new == Timed(old, c)
           in == old.in \/ c.in
           out == old.out \/ c.out
<1>1. c \in [in : BOOLEAN, out : BOOLEAN, status : Statuses \cup {"derived"}]
  BY CorrectionsAssumption
<1>2. old.status \in Statuses
  BY DEF IsRecord, NoTimes, Statuses
<1>3. "PRESENT" \in Statuses /\ "none" \in Exceptions
  BY DEF Statuses, Exceptions
<1>4. in \in BOOLEAN /\ out \in BOOLEAN
  OBVIOUS
<1>5. /\ new.source = "ADMIN" /\ new.exception = "none" /\ new.in = in /\ new.out = out
      /\ new = [status |-> new.status, source |-> "ADMIN", exception |-> "none", in |-> in, out |-> out,
                count |-> new.count]
      /\ new.status = IF c.status # "derived" THEN c.status
                      ELSE IF in /\ old.status # "LEAVE" THEN "PRESENT" ELSE old.status
  BY DEF Timed
<1>6. new.status \in Statuses
  BY <1>1, <1>2, <1>3, <1>5
<1> HIDE DEF new
<1>7. IsRecord(new)
  BY <1>3, <1>4, <1>5, <1>6 DEF IsRecord
<1> QED
  BY <1>5, <1>7 DEF new, OnLeave

\* An UPDATE keeps a record a record, and sets the columns it changed.
LEMMA UpdatedIsRecord ==
  ASSUME NEW now, NEW read, NEW new, IsRecord(now), IsRecord(read), IsRecord(new)
  PROVE  LET u == Updated(now, read, new)
         IN /\ IsRecord(u)
            /\ u.status = IF new.status = read.status THEN now.status ELSE new.status
            /\ u.source = IF new.source = read.source THEN now.source ELSE new.source
            /\ u.in = IF new.in = read.in THEN now.in ELSE new.in
            /\ read = now => u = new
<1> DEFINE u == Updated(now, read, new)
           columns == {"status", "source", "exception", "in", "out", "count"}
<1>1. DOMAIN now = columns /\ DOMAIN new = columns
  BY DEF IsRecord
<1>2. u = [f \in columns |-> IF new[f] = read[f] THEN now[f] ELSE new[f]]
  BY <1>1 DEF Updated
<1>3. /\ u.status = IF new.status = read.status THEN now.status ELSE new.status
      /\ u.source = IF new.source = read.source THEN now.source ELSE new.source
      /\ u.exception = IF new.exception = read.exception THEN now.exception ELSE new.exception
      /\ u.in = IF new.in = read.in THEN now.in ELSE new.in
      /\ u.out = IF new.out = read.out THEN now.out ELSE new.out
      /\ u.count = IF new.count = read.count THEN now.count ELSE new.count
  BY <1>2
<1>4. /\ u.status \in Statuses /\ u.source \in {"WEB", "DEVICE", "ADMIN"} /\ u.exception \in Exceptions
      /\ u.in \in BOOLEAN /\ u.out \in BOOLEAN
  BY <1>3 DEF IsRecord
<1>5. u = [status |-> u.status, source |-> u.source, exception |-> u.exception,
           in |-> u.in, out |-> u.out, count |-> u.count]
  BY <1>2
<1>6. IsRecord(u)
  <2> HIDE DEF u
  <2> QED
    BY <1>4, <1>5 DEF IsRecord
<1>7. read = now => u = new
  <2>1. new = [f \in columns |-> new[f]]
    BY <1>1 DEF IsRecord
  <2>2. SUFFICES ASSUME read = now PROVE u = new
    OBVIOUS
  <2>3. \A f \in columns : u[f] = new[f]
    BY <1>2, <2>2
  <2> QED
    BY <1>2, <2>1, <2>3
<1> QED
  BY <1>3, <1>6, <1>7

\* The punches of all machines fall on no more days than a new PIN recomputes.
BacklogFits == Cardinality({t.day : t \in Ticks}) <= MaxBackfill

PunchesTyped == DOMAIN owner \subseteq Punches

-----------------------------------------------------------------------------
(* What a request proposes.                                                *)

IsChange(c) == c = Change(c.how, c.read, c.new)
After_(w) == Over(w.owner, owner)
SamePunches(w, e, d) == Owned(After_(w), e, d) = Owned(owner, e, d)
Writes_(w, e, d) == <<e, d>> \in DOMAIN w.rows
Row(w, e, d) == w.rows[<<e, d>>]

Untouched(w, e, d) == ~Writes_(w, e, d) /\ (BacklogFits => SamePunches(w, e, d))
Recomputed(w, e, d) ==
  LET new == Recompute(record[e][d], After_(w), e, d) IN
  /\ Owned(owner, e, d) \subseteq Owned(After_(w), e, d)
  /\ \/ new = record[e][d] /\ ~Writes_(w, e, d)
     \/ Writes_(w, e, d) /\ Row(w, e, d) = Save(record[e][d], new) /\ new # record[e][d]
Saved(w, e, d, new) ==
  Writes_(w, e, d) /\ SamePunches(w, e, d) /\ Row(w, e, d) = Save(record[e][d], new)
PunchedIn(w, e, d) ==
  /\ d = today /\ (Has(e, d) => record[e][d].source = "WEB")
  /\ Saved(w, e, d,
       [status |-> "PRESENT", source |-> "WEB", in |-> TRUE, out |-> FALSE, count |-> 1,
        exception |-> IF Has(e, d) THEN record[e][d].exception ELSE "none"])
PunchedOut(w, e, d) ==
  /\ d = today /\ Has(e, d) /\ record[e][d].source = "WEB" /\ record[e][d].in
  /\ Saved(w, e, d, [record[e][d] EXCEPT !.out = TRUE, !.count = 2, !.status = "PRESENT"])
Corrected(w, e, d) ==
  \E c \in Corrections : Saved(w, e, d, Timed(IF Has(e, d) THEN record[e][d] ELSE NoTimes, c))
Rebuilt(w, e, d) ==
  Writes_(w, e, d) /\ SamePunches(w, e, d) /\ Has(e, d) /\ Row(w, e, d) = Rebuild(e, d)
Dropped(w, e, d) ==
  /\ Writes_(w, e, d) /\ SamePunches(w, e, d) /\ Has(e, d) /\ OnLeave(record[e][d])
  /\ record[e][d].exception # "PUNCH_ON_LEAVE"
  /\ Row(w, e, d) = Change("delete", record[e][d], NoRecord)
\* The leave of w that grants the day.
Grants(w, e, d) ==
  \E l \in DOMAIN w.leave : w.leave[l].status = "APPROVED" /\ w.leave[l].who = e /\ Covers(w.leave[l], d)
Granted(w, e, d) ==
  /\ Writes_(w, e, d) /\ SamePunches(w, e, d) /\ ~Has(e, d) /\ Grants(w, e, d)
  /\ Row(w, e, d) = Save(NoRecord, Derived)

ProposesRow(w, e, d) ==
  \/ Untouched(w, e, d) \/ Recomputed(w, e, d)
  \/ PunchedIn(w, e, d) \/ PunchedOut(w, e, d) \/ Corrected(w, e, d)
  \/ Rebuilt(w, e, d) \/ Dropped(w, e, d) \/ Granted(w, e, d)

\* Open leaves of one employee that share a day.
Meet(a, b) == a.who = b.who /\ a.first <= b.last /\ b.first <= a.last
Submits(w) ==
  /\ w.rows = Empty /\ w.owner = Empty
  /\ \E l \in Leaves, new \in Leave :
       /\ w.leave = Only(l, new) /\ new.status = "PENDING" /\ leave[l] = NoLeave
       /\ \A r \in Requests : Active(r) => l \notin DOMAIN request[r].leave
       /\ \A x \in Leaves : leave[x].status \in OpenLeave => ~Meet(new, leave[x])
Decides(w) ==
  \E l \in Leaves, to \in {"APPROVED", "CLOSED"} :
    /\ leave[l] # NoLeave /\ to \in LeaveTransitions[leave[l].status]
    /\ w.leave = Only(l, [leave[l] EXCEPT !.status = to])
    /\ w.rows = IF to = "APPROVED" THEN Derive(l) ELSE Clear(l)

Proposed(w) ==
  /\ w = [kind |-> w.kind, rows |-> w.rows, owner |-> w.owner, pin |-> w.pin, leave |-> w.leave]
  /\ w.kind \in Kinds /\ DOMAIN w.owner \subseteq Punches
  /\ \A x \in DOMAIN w.rows : IsChange(w.rows[x])
  /\ \A e \in Employees, d \in Days : ProposesRow(w, e, d)
  /\ \/ w.kind \notin {"submit", "decide"} /\ w.leave = Empty
     \/ w.kind = "submit" /\ Submits(w)
     \/ w.kind = "decide" /\ Decides(w)

LEMMA ChangeIs ==
  \A how, read, new : LET c == Change(how, read, new)
                      IN c.how = how /\ c.read = read /\ c.new = new /\ IsChange(c)
BY DEF Change, IsChange

LEMMA SaveIs ==
  \A read, new : LET c == Save(read, new)
                 IN /\ c.how = IF read = NoRecord THEN "insert" ELSE "update"
                    /\ c.read = read /\ c.new = new /\ IsChange(c)
BY DEF Save, Change, IsChange

LEMMA PushSet ==
  ASSUME NEW kind, NEW rows, NEW own
  PROVE  [Writes(kind) EXCEPT !.owner = own, !.rows = rows]
           = [kind |-> kind, rows |-> rows, owner |-> own, pin |-> Empty, leave |-> Empty]
<1> DEFINE a == [Writes(kind) EXCEPT !.owner = own]
<1>1. a = [kind |-> kind, rows |-> Empty, owner |-> own, pin |-> Empty, leave |-> Empty]
  BY DEF Writes
<1> HIDE DEF a
<1>2. [a EXCEPT !.rows = rows]
        = [kind |-> kind, rows |-> rows, owner |-> own, pin |-> Empty, leave |-> Empty]
  BY <1>1
<1> QED
  BY <1>2, Zenon DEF a

LEMMA PinSet ==
  ASSUME NEW p
  PROVE  \A own, rows : [Writes("pin") EXCEPT !.pin = p, !.owner = own, !.rows = rows]
           = [kind |-> "pin", rows |-> rows, owner |-> own, pin |-> p, leave |-> Empty]
<1> TAKE own, rows
<1> DEFINE a == [Writes("pin") EXCEPT !.pin = p]
           b == [a EXCEPT !.owner = own]
<1>1. a = [kind |-> "pin", rows |-> Empty, owner |-> Empty, pin |-> p, leave |-> Empty]
  BY DEF Writes
<1>2. b = [kind |-> "pin", rows |-> Empty, owner |-> own, pin |-> p, leave |-> Empty]
  <2> HIDE DEF a
  <2> QED
    BY <1>1
<1> HIDE DEF a, b
<1>3. [b EXCEPT !.rows = rows]
        = [kind |-> "pin", rows |-> rows, owner |-> own, pin |-> p, leave |-> Empty]
  BY <1>2
<1> QED
  BY <1>3, Zenon DEF a, b

LEMMA DecideSet ==
  ASSUME NEW kind, NEW rows, NEW l
  PROVE  [Writes(kind) EXCEPT !.leave = l, !.rows = rows]
           = [kind |-> kind, rows |-> rows, owner |-> Empty, pin |-> Empty, leave |-> l]
<1> DEFINE a == [Writes(kind) EXCEPT !.leave = l]
<1>1. a = [kind |-> kind, rows |-> Empty, owner |-> Empty, pin |-> Empty, leave |-> l]
  BY DEF Writes
<1> HIDE DEF a
<1>2. [a EXCEPT !.rows = rows]
        = [kind |-> kind, rows |-> rows, owner |-> Empty, pin |-> Empty, leave |-> l]
  BY <1>1
<1> QED
  BY <1>2, Zenon DEF a

\* Without punches of its own, a request changes nobody's.
LEMMA NoPunches ==
  ASSUME NEW w, w.owner = Empty
  PROVE  \A e \in Employees, d \in Days : SamePunches(w, e, d)
<1>1. DOMAIN After_(w) = DOMAIN owner /\ \A p \in DOMAIN owner : After_(w)[p] = owner[p]
  BY DEF After_, Over, Empty
<1> QED
  BY <1>1 DEF SamePunches, Owned

\* A request that stores or attaches punches and recomputes their days.
LEMMA CountsDays ==
  ASSUME NEW w, NEW touched, w.rows = RecomputeDays(touched, After_(w)),
         \A e \in Employees, d \in Days :
           /\ BacklogFits /\ <<e, d>> \notin touched => SamePunches(w, e, d)
           /\ Owned(owner, e, d) \subseteq Owned(After_(w), e, d)
  PROVE  /\ \A x \in DOMAIN w.rows : IsChange(w.rows[x])
         /\ \A e \in Employees, d \in Days : ProposesRow(w, e, d)
<1>0. \A x \in DOMAIN w.rows : IsChange(w.rows[x])
  <2>1. TAKE x \in DOMAIN w.rows
  <2> DEFINE new == Recompute(record[x[1]][x[2]], After_(w), x[1], x[2])
  <2>2. w.rows[x] = Save(record[x[1]][x[2]], new)
    BY <2>1 DEF RecomputeDays
  <2> HIDE DEF new
  <2> QED
    BY <2>2, SaveIs
<1> SUFFICES ASSUME NEW e \in Employees, NEW d \in Days PROVE ProposesRow(w, e, d)
  BY <1>0
<1> DEFINE r == record[e][d]
           new == Recompute(r, After_(w), e, d)
<1>1. <<e, d>>[1] = e /\ <<e, d>>[2] = d
  OBVIOUS
<1>2. Writes_(w, e, d) <=> <<e, d>> \in touched /\ new # r
  BY <1>1 DEF RecomputeDays, Writes_
<1>3. Writes_(w, e, d) => Row(w, e, d) = Save(r, new)
  BY <1>1 DEF RecomputeDays, Writes_, Row
<1>4. CASE <<e, d>> \notin touched
  BY <1>2, <1>4 DEF ProposesRow, Untouched
<1>5. CASE <<e, d>> \in touched
  BY <1>2, <1>3, <1>5 DEF ProposesRow, Recomputed
<1> QED
  BY <1>4, <1>5

LEMMA PushProposed ==
  ASSUME NEW q \in Requests, NEW batch \in SUBSET Punches, Push(q, batch)
  PROVE  \E w : Begin(q, w) /\ Proposed(w)
<1> DEFINE new == [p \in batch \ DOMAIN owner |-> OwnerOf(p.pin)]
           touched == {<<new[p], p.tick.day>> : p \in {x \in DOMAIN new : new[x] # "none"}}
           rows == RecomputeDays(touched, Over(new, owner))
           w == [Writes("push") EXCEPT !.owner = new, !.rows = rows]
<1>1. Begin(q, w)
  BY DEF Push
<1>2. /\ w.kind = "push" /\ w.owner = new /\ w.rows = rows /\ w.leave = Empty
      /\ w = [kind |-> w.kind, rows |-> w.rows, owner |-> w.owner, pin |-> w.pin, leave |-> w.leave]
  <2> HIDE DEF new, rows
  <2>1. w = [kind |-> "push", rows |-> rows, owner |-> new, pin |-> Empty, leave |-> Empty]
    BY PushSet, Zenon
  <2> HIDE DEF w
  <2> QED
    BY <2>1
<1>3. DOMAIN After_(w) = DOMAIN owner \cup DOMAIN new
      /\ (\A p \in DOMAIN new : p \notin DOMAIN owner /\ After_(w)[p] = new[p])
      /\ \A p \in DOMAIN owner : After_(w)[p] = owner[p]
  BY <1>2 DEF After_, Over
<1>4. ASSUME NEW e \in Employees, NEW d \in Days, <<e, d>> \notin touched PROVE SamePunches(w, e, d)
  <2>1. \A p \in DOMAIN new : ~(new[p] = e /\ p.tick.day = d)
    BY <1>4, NoneAssumption
  <2> HIDE DEF new, touched, w
  <2> QED
    BY <1>3, <2>1 DEF SamePunches, Owned
<1>5. \A e \in Employees, d \in Days : Owned(owner, e, d) \subseteq Owned(After_(w), e, d)
  <2> HIDE DEF new, touched, w
  <2> QED
    BY <1>3 DEF Owned
<1> HIDE DEF touched, new, w
<1>6. /\ \A x \in DOMAIN w.rows : IsChange(w.rows[x])
      /\ \A e \in Employees, d \in Days : ProposesRow(w, e, d)
  <2>1. w.rows = RecomputeDays(touched, After_(w))
    BY <1>2 DEF rows, After_
  <2> QED
    BY <1>4, <1>5, <2>1, CountsDays
<1>7. DOMAIN w.owner \subseteq Punches
  BY <1>2 DEF new
<1>8. Proposed(w)
  BY <1>2, <1>6, <1>7 DEF Proposed, Kinds
<1> QED
  BY <1>1, <1>8

LEMMA PinProposed ==
  ASSUME NEW q \in Requests, NEW e \in Employees, NEW v \in Pins \cup {"none"}, PunchesTyped, SetPin(q, e, v)
  PROVE  \E w : Begin(q, w) /\ Proposed(w)
<1> DEFINE attached == {p \in DOMAIN owner : p.pin = v /\ owner[p] = "none"}
           new == [p \in attached |-> e]
           own == Over(new, owner)
           days == {p.tick.day : p \in {x \in DOMAIN own : own[x] = e /\ x.pin = v}}
           newest == {d \in days : Cardinality({x \in days : x > d}) < MaxBackfill}
           touched == {e} \X newest
           rows == IF attached = {} THEN Empty ELSE RecomputeDays(touched, own)
           w == [Writes("pin") EXCEPT !.pin = Only(e, v), !.owner = new, !.rows = rows]
<1>1. Begin(q, w)
  BY DEF SetPin
<1>2. /\ w.kind = "pin" /\ w.owner = new /\ w.leave = Empty /\ w.rows = rows
      /\ w = [kind |-> w.kind, rows |-> w.rows, owner |-> w.owner, pin |-> w.pin, leave |-> w.leave]
      /\ After_(w) = own
  <2> HIDE DEF new, rows
  <2>1. w = [kind |-> "pin", rows |-> rows, owner |-> new, pin |-> Only(e, v), leave |-> Empty]
    <3>1. \A o, r : [Writes("pin") EXCEPT !.pin = Only(e, v), !.owner = o, !.rows = r]
                     = [kind |-> "pin", rows |-> r, owner |-> o, pin |-> Only(e, v), leave |-> Empty]
      BY PinSet
    <3> QED
      BY <3>1, Zenon
  <2> HIDE DEF w
  <2> QED
    BY <2>1 DEF After_
<1>3. DOMAIN own = DOMAIN owner
      /\ \A p \in DOMAIN owner : own[p] = IF p \in attached THEN e ELSE owner[p]
  BY DEF Over
<1>4. \A f \in Employees, d \in Days : Owned(owner, f, d) \subseteq Owned(own, f, d)
  <2>1. \A f \in Employees : f # "none"
    BY NoneAssumption
  <2>2. \A p \in attached : owner[p] = "none"
    OBVIOUS
  <2> HIDE DEF own, attached
  <2> QED
    BY <1>3, <2>1, <2>2 DEF Owned
<1>d. DOMAIN w.owner \subseteq Punches
  BY <1>2 DEF PunchesTyped
<1>5. CASE attached = {}
  <2>1. w.rows = Empty /\ own = Over(Empty, owner)
    BY <1>2, <1>5 DEF Empty
  <2>2. \A f \in Employees, d \in Days : Owned(own, f, d) = Owned(owner, f, d)
    <3> HIDE DEF attached, own
    <3> QED
      BY <1>3, <1>5 DEF Owned
  <2> HIDE DEF w, own
  <2>3. \A f \in Employees, d \in Days : ProposesRow(w, f, d)
    BY <1>2, <2>1, <2>2 DEF ProposesRow, Untouched, Writes_, SamePunches, Empty
  <2>4. Proposed(w)
    BY <1>2, <1>d, <2>1, <2>3 DEF Proposed, Kinds, Empty
  <2> QED
    BY <1>1, <2>4
<1>6. CASE attached # {}
  <2>1. w.rows = RecomputeDays(touched, own)
    BY <1>2, <1>6
  <2>2. ASSUME BacklogFits, NEW p \in attached PROVE p.tick.day \in newest
    <3> DEFINE later == {x \in days : x > p.tick.day}
               all == {t.day : t \in Ticks}
    <3>1. p.tick.day \in days
      BY <1>3
    <3>2. days \subseteq all /\ all \subseteq 1..LastDay
      BY <1>3, TickAssumption DEF PunchesTyped, Punches, Days
    <3>3. IsFiniteSet(1..LastDay) /\ LastDay \in Nat
      BY FS_Interval, DayAssumption
    <3>4. IsFiniteSet(all) /\ IsFiniteSet(days)
      BY <3>2, <3>3, FS_Subset
    <3>5. later \subseteq days /\ p.tick.day \notin later
      <4>0. \A x \in 1..LastDay : x \in Nat
        OBVIOUS
      <4> HIDE DEF days, all
      <4>1. p.tick.day \in Nat
        BY <3>1, <3>2, <4>0, Zenon
      <4> QED
        BY <4>1
    <3> HIDE DEF later, days, all
    <3>6. /\ Cardinality(later) <= Cardinality(days) /\ Cardinality(days) <= Cardinality(all)
          /\ Cardinality(later) # Cardinality(days)
          /\ Cardinality(later) \in Nat /\ Cardinality(days) \in Nat /\ Cardinality(all) \in Nat
          /\ MaxBackfill \in Nat
      BY <3>1, <3>2, <3>4, <3>5, FS_Subset, FS_CardinalityType, BackfillAssumption
    <3>7. Cardinality(later) < MaxBackfill
      BY <2>2, <3>6 DEF BacklogFits, all
    <3> QED
      BY <3>1, <3>7 DEF later
  <2>3. ASSUME BacklogFits, NEW f \in Employees, NEW d \in Days, <<f, d>> \notin touched
        PROVE  Owned(own, f, d) = Owned(owner, f, d)
    <3>1. \A p \in attached : ~(f = e /\ p.tick.day = d)
      BY <2>2, <2>3
    <3>2. f # "none" /\ \A p \in attached : owner[p] = "none"
      BY NoneAssumption
    <3> HIDE DEF attached, own, touched
    <3> QED
      BY <1>3, <3>1, <3>2 DEF Owned
  <2> HIDE DEF own, touched, w
  <2>4. /\ \A x \in DOMAIN w.rows : IsChange(w.rows[x])
        /\ \A f \in Employees, d \in Days : ProposesRow(w, f, d)
    BY <1>2, <1>4, <2>1, <2>3, CountsDays DEF SamePunches
  <2>5. Proposed(w)
    BY <1>2, <1>d, <2>4 DEF Proposed, Kinds
  <2> QED
    BY <1>1, <2>5
<1> QED
  BY <1>5, <1>6

\* A request about one day.
LEMMA OneDay ==
  ASSUME NEW w, NEW e \in Employees, NEW d \in Days, NEW c,
         w = [Writes(w.kind) EXCEPT !.rows = Only(<<e, d>>, c)], w.kind \in Kinds \ {"submit", "decide"}, IsChange(c),
         Writes_(w, e, d) /\ SamePunches(w, e, d) /\ Row(w, e, d) = c => ProposesRow(w, e, d)
  PROVE  Proposed(w)
<1>1. /\ w.rows = Only(<<e, d>>, c) /\ w.owner = Empty /\ w.leave = Empty
      /\ w = [kind |-> w.kind, rows |-> w.rows, owner |-> w.owner, pin |-> w.pin, leave |-> w.leave]
  BY DEF Writes
<1>2. \A f \in Employees, x \in Days : SamePunches(w, f, x)
  BY <1>1, NoPunches
<1>3. DOMAIN w.rows = {<<e, d>>} /\ w.rows[<<e, d>>] = c
  BY <1>1 DEF Only
<1>4. ASSUME NEW f \in Employees, NEW x \in Days PROVE ProposesRow(w, f, x)
  <2>1. CASE f = e /\ x = d
    BY <1>2, <1>3, <2>1 DEF Writes_, Row
  <2>2. CASE ~(f = e /\ x = d)
    <3>1. ~Writes_(w, f, x)
      BY <1>3, <2>2 DEF Writes_
    <3> QED
      BY <1>2, <3>1 DEF ProposesRow, Untouched
  <2> QED
    BY <2>1, <2>2
<1>5. DOMAIN w.owner = {} /\ \A x \in DOMAIN w.rows : IsChange(w.rows[x])
  BY <1>1, <1>3 DEF Empty
<1> QED
  BY <1>1, <1>4, <1>5 DEF Proposed

LEMMA DayProposed ==
  ASSUME RowsTyped, NEW q \in Requests, NEW e \in Employees,
         PunchCalls(q, e) \/ AttendanceCalls(q, e)
  PROVE  \E w : Begin(q, w) /\ Proposed(w)
<1>0. today \in Days
  BY DEF RowsTyped
<1>1. CASE PunchIn(q, e)
  <2> DEFINE new == [status |-> "PRESENT", source |-> "WEB", in |-> TRUE, out |-> FALSE, count |-> 1,
                     exception |-> IF Has(e, today) THEN record[e][today].exception ELSE "none"]
             c == Save(record[e][today], new)
             w == [Writes("punch") EXCEPT !.rows = Only(<<e, today>>, c)]
  <2>1. Begin(q, w) /\ (Has(e, today) => record[e][today].source = "WEB")
    BY <1>1 DEF PunchIn, SaveDay
  <2>2. w.kind = "punch" /\ w = [Writes(w.kind) EXCEPT !.rows = Only(<<e, today>>, c)]
    BY DEF Writes
  <2>3. Writes_(w, e, today) /\ SamePunches(w, e, today) /\ Row(w, e, today) = c => PunchedIn(w, e, today)
    BY <2>1 DEF PunchedIn, Saved
  <2>5. IsChange(c)
    BY SaveIs
  <2> HIDE DEF w, c
  <2>4. Proposed(w)
    BY <1>0, <2>2, <2>3, <2>5, OneDay DEF ProposesRow, Kinds
  <2> QED
    BY <2>1, <2>4
<1>2. CASE PunchOut(q, e)
  <2> DEFINE c == Save(record[e][today],
                       [record[e][today] EXCEPT !.out = TRUE, !.count = 2, !.status = "PRESENT"])
             w == [Writes("punch") EXCEPT !.rows = Only(<<e, today>>, c)]
  <2>1. Begin(q, w) /\ Has(e, today) /\ record[e][today].source = "WEB" /\ record[e][today].in
    BY <1>2 DEF PunchOut, SaveDay
  <2>2. w.kind = "punch" /\ w = [Writes(w.kind) EXCEPT !.rows = Only(<<e, today>>, c)]
    BY DEF Writes
  <2>3. Writes_(w, e, today) /\ SamePunches(w, e, today) /\ Row(w, e, today) = c => PunchedOut(w, e, today)
    BY <2>1 DEF PunchedOut, Saved
  <2>5. IsChange(c)
    BY SaveIs
  <2> HIDE DEF w, c
  <2>4. Proposed(w)
    BY <1>0, <2>2, <2>3, <2>5, OneDay DEF ProposesRow, Kinds
  <2> QED
    BY <2>1, <2>4
<1>3. ASSUME NEW d \in Days, NEW x \in Corrections, Correct(q, e, d, x)
      PROVE  \E w : Begin(q, w) /\ Proposed(w)
  <2> DEFINE c == Save(record[e][d], Timed(IF Has(e, d) THEN record[e][d] ELSE NoTimes, x))
             w == [Writes("correct") EXCEPT !.rows = Only(<<e, d>>, c)]
  <2>1. Begin(q, w)
    BY <1>3 DEF Correct, SaveDay
  <2>2. w.kind = "correct" /\ w = [Writes(w.kind) EXCEPT !.rows = Only(<<e, d>>, c)]
    BY DEF Writes
  <2>3. Writes_(w, e, d) /\ SamePunches(w, e, d) /\ Row(w, e, d) = c => Corrected(w, e, d)
    BY DEF Corrected, Saved
  <2>5. IsChange(c)
    BY SaveIs
  <2> HIDE DEF w, c
  <2>4. Proposed(w)
    BY <2>2, <2>3, <2>5, OneDay DEF ProposesRow, Kinds
  <2> QED
    BY <2>1, <2>4
<1>4. ASSUME NEW d \in Days, DeleteAttendance(q, e, d)
      PROVE  \E w : Begin(q, w) /\ Proposed(w)
  <2> DEFINE c == Rebuild(e, d)
             w == [Writes("delete") EXCEPT !.rows = Only(<<e, d>>, c)]
  <2>1. Begin(q, w) /\ Has(e, d)
    BY <1>4 DEF DeleteAttendance
  <2>2. w.kind = "delete" /\ w = [Writes(w.kind) EXCEPT !.rows = Only(<<e, d>>, c)]
    BY DEF Writes
  <2>3. Writes_(w, e, d) /\ SamePunches(w, e, d) /\ Row(w, e, d) = c => Rebuilt(w, e, d)
    BY <2>1 DEF Rebuilt
  <2>5. IsChange(c)
    BY ChangeIs DEF Rebuild
  <2> HIDE DEF w, c
  <2>4. Proposed(w)
    BY <2>2, <2>3, <2>5, OneDay DEF ProposesRow, Kinds
  <2> QED
    BY <2>1, <2>4
<1> QED
  BY <1>1, <1>2, <1>3, <1>4 DEF PunchCalls, AttendanceCalls

LEMMA SubmitProposed ==
  ASSUME NEW q \in Requests, NEW l \in Leaves, NEW e \in Employees, NEW first \in Days, NEW last \in Days,
         Submit(q, l, e, first, last)
  PROVE  \E w : Begin(q, w) /\ Proposed(w)
<1> DEFINE new == [who |-> e, first |-> first, last |-> last, status |-> "PENDING"]
           w == [Writes("submit") EXCEPT !.leave = Only(l, new)]
<1>1. Begin(q, w) /\ leave[l] = NoLeave /\ (\A r \in Requests : Active(r) => l \notin DOMAIN request[r].leave)
      /\ \A x \in Leaves : ~Overlap(x, e, first, last)
  BY DEF Submit
<1>2. /\ w.kind = "submit" /\ w.rows = Empty /\ w.owner = Empty /\ w.leave = Only(l, new)
      /\ w = [kind |-> w.kind, rows |-> w.rows, owner |-> w.owner, pin |-> w.pin, leave |-> w.leave]
  BY DEF Writes
<1>3. new \in Leave /\ new.who = e /\ new.first = first /\ new.last = last /\ new.status = "PENDING"
  BY DEF Leave, LeaveTransitions
<1> HIDE DEF new, w
<1>4. \A x \in Leaves : leave[x].status \in OpenLeave => ~Meet(new, leave[x])
  BY <1>1, <1>3 DEF Overlap, Meet
<1>5. \A f \in Employees, d \in Days : ProposesRow(w, f, d)
  BY <1>2, NoPunches DEF ProposesRow, Untouched, Writes_, Empty
<1>6. Submits(w)
  BY <1>1, <1>2, <1>3, <1>4 DEF Submits
<1>7. Proposed(w)
  BY <1>2, <1>5, <1>6 DEF Proposed, Kinds, Empty
<1> QED
  BY <1>1, <1>7

LEMMA DecideProposed ==
  ASSUME RowsTyped, NEW q \in Requests, NEW l \in Leaves, NEW to \in DOMAIN LeaveTransitions, Decide(q, l, to)
  PROVE  \E w : Begin(q, w) /\ Proposed(w)
<1> DEFINE new == [leave[l] EXCEPT !.status = to]
           rows == IF to = "APPROVED" THEN Derive(l) ELSE Clear(l)
           w == [Writes("decide") EXCEPT !.leave = Only(l, new), !.rows = rows]
<1>1. Begin(q, w) /\ leave[l] # NoLeave /\ to \in LeaveTransitions[leave[l].status]
  BY DEF Decide
<1>2. /\ w.kind = "decide" /\ w.rows = rows /\ w.owner = Empty /\ w.leave = Only(l, new)
      /\ w = [kind |-> w.kind, rows |-> w.rows, owner |-> w.owner, pin |-> w.pin, leave |-> w.leave]
  <2> HIDE DEF new, rows
  <2>1. w = [kind |-> "decide", rows |-> rows, owner |-> Empty, pin |-> Empty, leave |-> Only(l, new)]
    BY DecideSet, Zenon
  <2> HIDE DEF w
  <2> QED
    BY <2>1
<1>3. leave[l] \in Leave
  BY <1>1 DEF RowsTyped
<1>4. to \in {"APPROVED", "CLOSED"}
  <2>1. leave[l].status \in {"PENDING", "APPROVED", "CLOSED"}
    BY <1>3 DEF Leave, LeaveTransitions
  <2>2. \A s \in {"PENDING", "APPROVED", "CLOSED"} : LeaveTransitions[s] \subseteq {"APPROVED", "CLOSED"}
    BY DEF LeaveTransitions
  <2> QED
    BY <1>1, <2>1, <2>2
<1>5. new.status = to /\ new.who = leave[l].who /\ new.first = leave[l].first /\ new.last = leave[l].last
  BY <1>3 DEF Leave
<1>6. DOMAIN w.leave = {l} /\ w.leave[l] = new
  BY <1>2 DEF Only
<1> HIDE DEF new, w
<1>7. \A f \in Employees, d \in Days : SamePunches(w, f, d)
  BY <1>2, NoPunches
<1>8. ASSUME NEW f \in Employees, NEW d \in Days PROVE ProposesRow(w, f, d)
  <2>0. <<f, d>>[1] = f /\ <<f, d>>[2] = d
    OBVIOUS
  <2>1. CASE to = "APPROVED"
    <3>1. Writes_(w, f, d) <=> f = leave[l].who /\ Covers(leave[l], d) /\ ~Has(f, d)
      BY <1>2, <2>0, <2>1 DEF Writes_, Derive
    <3>2. Writes_(w, f, d) => Row(w, f, d) = Save(NoRecord, Derived)
      BY <1>2, <2>1 DEF Writes_, Row, Derive
    <3>3. Writes_(w, f, d) => Grants(w, f, d)
      BY <1>5, <1>6, <2>1, <3>1 DEF Grants, Covers
    <3> QED
      BY <1>7, <3>1, <3>2, <3>3 DEF ProposesRow, Untouched, Granted
  <2>2. CASE to = "CLOSED"
    <3>1. Writes_(w, f, d) <=> f = leave[l].who /\ Covers(leave[l], d) /\ Has(f, d) /\ OnLeave(record[f][d])
      BY <1>2, <2>0, <2>2 DEF Writes_, Clear, LeaveRows
    <3>2. Writes_(w, f, d) => Row(w, f, d) =
            IF record[f][d].exception = "PUNCH_ON_LEAVE" THEN Rebuild(f, d)
            ELSE Change("delete", record[f][d], NoRecord)
      BY <1>2, <2>0, <2>2 DEF Writes_, Row, Clear
    <3> QED
      BY <1>7, <3>1, <3>2 DEF ProposesRow, Untouched, Rebuilt, Dropped
  <2> QED
    BY <1>4, <2>1, <2>2
<1>9. Decides(w)
  BY <1>1, <1>2, <1>4 DEF Decides, new
<1>10. \A x \in DOMAIN w.rows : IsChange(w.rows[x])
  <2>1. \A x \in DOMAIN Derive(l) : IsChange(Derive(l)[x])
    BY SaveIs DEF Derive
  <2>2. \A x \in DOMAIN Clear(l) : IsChange(Clear(l)[x])
    BY ChangeIs DEF Clear, Rebuild
  <2> QED
    BY <1>2, <2>1, <2>2
<1>11. Proposed(w)
  BY <1>2, <1>8, <1>9, <1>10 DEF Proposed, Kinds, Empty
<1> QED
  BY <1>1, <1>11

LEMMA NextCases ==
  ASSUME RowsTyped, PunchesTyped, [Next]_vars
  PROVE  \/ UNCHANGED vars \/ Midnight \/ Sweep
         \/ \E q \in Requests : Abort(q) \/ Commit(q) \/ \E w : Begin(q, w) /\ Proposed(w)
<1>1. CASE UNCHANGED vars \/ Midnight \/ Sweep \/ \E q \in Requests : Abort(q) \/ Commit(q)
  BY <1>1
<1>2. ASSUME NEW q \in Requests,
             \/ \E batch \in SUBSET Punches : Push(q, batch)
             \/ \E e \in Employees : \/ \E v \in Pins \cup {"none"} : SetPin(q, e, v)
                                    \/ PunchCalls(q, e) \/ AttendanceCalls(q, e)
             \/ LeaveCalls(q)
      PROVE  \E w : Begin(q, w) /\ Proposed(w)
  <2>1. CASE \E batch \in SUBSET Punches : Push(q, batch)
    BY <2>1, PushProposed
  <2>2. CASE \E e \in Employees, v \in Pins \cup {"none"} : SetPin(q, e, v)
    BY <2>2, PinProposed
  <2>3. CASE \E e \in Employees : PunchCalls(q, e) \/ AttendanceCalls(q, e)
    BY <2>3, DayProposed
  <2>4. CASE LeaveCalls(q)
    BY <2>4, SubmitProposed, DecideProposed DEF LeaveCalls
  <2> QED
    BY <1>2, <2>1, <2>2, <2>3, <2>4
<1> QED
  BY <1>1, <1>2 DEF Next

-----------------------------------------------------------------------------
(* The shape of the tables and of the requests under way.                  *)

ChangeTyped(c, now) ==
  \/ c.how = "insert" /\ c.read = NoRecord /\ IsRecord(c.new)
  \/ c.how = "update" /\ IsRecord(c.new) /\ (c.read # Gone => IsRecord(c.read) /\ now # NoRecord)
  \/ c.how = "delete" /\ c.new = NoRecord
  \/ c.how = "rebuild" /\ (c.new # NoRecord => IsRecord(c.new) /\ c.new.source = "DEVICE")

WriteTyped(w) ==
  /\ w = [kind |-> w.kind, rows |-> w.rows, owner |-> w.owner, pin |-> w.pin, leave |-> w.leave]
  /\ w.kind \in Kinds
  /\ DOMAIN w.owner \subseteq Punches
  /\ \A l \in DOMAIN w.leave : l \in Leaves /\ w.leave[l] \in Leave
  /\ w.kind \notin {"submit", "decide"} => w.leave = Empty
  /\ w.kind = "submit" => w.rows = Empty /\ w.owner = Empty
  /\ \A x \in DOMAIN w.rows : IsChange(w.rows[x])
  /\ \A e \in Employees, d \in Days : Writes_(w, e, d) => ChangeTyped(Row(w, e, d), record[e][d])

RequestsTyped ==
  /\ request = [q \in Requests |-> request[q]]
  /\ \A q \in Requests : Active(q) => WriteTyped(request[q])

Typed == RowsTyped /\ PunchesTyped /\ RequestsTyped

\* The rows a commit takes out.
Taken(w) == {x \in DOMAIN w.rows : w.rows[x].how \in {"delete", "rebuild"} /\ w.rows[x].read # Gone}

\* A request after another's commit: what it read of the rows taken is gone.
LEMMA MissingType ==
  ASSUME NEW w, WriteTyped(w), NEW taken
  PROVE  LET m == Missing(w, taken)
         IN /\ m = [kind |-> w.kind, rows |-> m.rows, owner |-> w.owner, pin |-> w.pin, leave |-> w.leave]
            /\ m.kind = w.kind /\ m.owner = w.owner /\ m.leave = w.leave /\ w # Idle /\ m # Idle
            /\ DOMAIN m.rows = DOMAIN w.rows
            /\ w.rows = Empty => m.rows = Empty
            /\ \A x \in DOMAIN w.rows :
                 m.rows[x] = Change(w.rows[x].how,
                   IF x \in taken /\ w.rows[x].how # "insert" THEN Gone ELSE w.rows[x].read, w.rows[x].new)
<1> DEFINE m == Missing(w, taken)
           rows == [x \in DOMAIN w.rows |->
                      IF x \in taken /\ w.rows[x].how # "insert" THEN [w.rows[x] EXCEPT !.read = Gone] ELSE w.rows[x]]
<1>1. w.kind # "none" /\ w # Idle
  BY DEF WriteTyped, Kinds, Idle
<1>2. m = [w EXCEPT !.rows = rows]
  BY <1>1 DEF Missing
<1>3. m = [kind |-> w.kind, rows |-> rows, owner |-> w.owner, pin |-> w.pin, leave |-> w.leave]
  <2> HIDE DEF rows, m
  <2> QED
    BY <1>2 DEF WriteTyped
<1>4. \A x \in DOMAIN w.rows :
        rows[x] = Change(w.rows[x].how,
          IF x \in taken /\ w.rows[x].how # "insert" THEN Gone ELSE w.rows[x].read, w.rows[x].new)
  BY DEF WriteTyped, IsChange, Change
<1>5. DOMAIN rows = DOMAIN w.rows /\ (w.rows = Empty => rows = Empty)
  BY DEF Empty
<1> HIDE DEF m, rows
<1>6. m.rows = rows /\ m.kind = w.kind /\ m.owner = w.owner /\ m.leave = w.leave /\ m # Idle
  BY <1>1, <1>3 DEF Idle
<1> QED
  BY <1>1, <1>3, <1>4, <1>5, <1>6 DEF m

LEMMA CommitEffects ==
  ASSUME Typed, NEW q \in Requests, Commit(q)
  PROVE  LET w == request[q]
         IN /\ WriteTyped(w) /\ Active(q) /\ today' = today
            /\ record' = [e \in Employees |-> [d \in Days |-> record'[e][d]]]
            /\ \A e \in Employees, d \in Days :
                 /\ record'[e][d] = IF Writes_(w, e, d) THEN After(Row(w, e, d), record[e][d]) ELSE record[e][d]
                 /\ Writes_(w, e, d) => Possible(Row(w, e, d), record[e][d])
            /\ owner' = After_(w) /\ DOMAIN owner' = DOMAIN w.owner \cup DOMAIN owner
            /\ leave' \in [Leaves -> Leave \cup {NoLeave}]
            /\ \A l \in Leaves : leave'[l] = IF l \in DOMAIN w.leave THEN w.leave[l] ELSE leave[l]
            /\ request' = [r \in Requests |-> request'[r]] /\ request'[q] = Idle
            /\ \A r \in Requests \ {q} : request'[r] = Missing(request[r], Taken(w))
<1> DEFINE w == request[q]
<1>1. WriteTyped(w) /\ Active(q)
  BY DEF Typed, RequestsTyped, Commit
<1>2. /\ \A e \in Employees, d \in Days :
           /\ record'[e][d] = IF Writes_(w, e, d) THEN After(Row(w, e, d), record[e][d]) ELSE record[e][d]
           /\ Writes_(w, e, d) => Possible(Row(w, e, d), record[e][d])
      /\ record' = [e \in Employees |-> [d \in Days |-> record'[e][d]]]
  BY DEF Commit, Writes_, Row
<1>3. owner' = After_(w) /\ today' = today /\ leave' = Over(w.leave, leave)
  BY DEF Commit, After_
<1>4. DOMAIN owner' = DOMAIN w.owner \cup DOMAIN owner
  BY <1>3 DEF After_, Over
<1>5. /\ leave' \in [Leaves -> Leave \cup {NoLeave}]
      /\ \A l \in Leaves : leave'[l] = IF l \in DOMAIN w.leave THEN w.leave[l] ELSE leave[l]
  <2>1. leave \in [Leaves -> Leave \cup {NoLeave}]
    BY DEF Typed, RowsTyped
  <2>2. DOMAIN w.leave \subseteq Leaves /\ \A l \in DOMAIN w.leave : w.leave[l] \in Leave
    BY <1>1 DEF WriteTyped
  <2> HIDE DEF w
  <2> QED
    BY <1>3, <2>1, <2>2 DEF Over
<1>6. request' = [r \in Requests |-> IF r = q THEN Idle ELSE Missing(request[r], Taken(w))]
  BY DEF Commit, Taken
<1> HIDE DEF w
<1> QED
  BY <1>1, <1>2, <1>3, <1>4, <1>5, <1>6 DEF w

\* What is left of a row that a commit writes.
LEMMA AfterType ==
  ASSUME NEW c, NEW now, ChangeTyped(c, now), Possible(c, now), now = NoRecord \/ IsRecord(now)
  PROVE  /\ After(c, now) = NoRecord \/ IsRecord(After(c, now))
         /\ c.how = "update" => c.read # Gone /\ After(c, now) = Updated(now, c.read, c.new) /\ IsRecord(After(c, now))
         /\ c.how # "update" /\ c.read = Gone => After(c, now) = now
         /\ c.how # "update" /\ c.read # Gone => After(c, now) = c.new
         /\ now # NoRecord /\ After(c, now) = NoRecord => c.how \in {"delete", "rebuild"} /\ c.read # Gone
<1>1. CASE c.how = "update"
  <2>1. c.read # Gone /\ IsRecord(c.new) /\ IsRecord(c.read) /\ IsRecord(now)
    BY <1>1 DEF ChangeTyped, Possible
  <2>2. After(c, now) = Updated(now, c.read, c.new)
    BY <1>1 DEF After
  <2>3. IsRecord(Updated(now, c.read, c.new))
    BY <2>1, UpdatedIsRecord
  <2> QED
    BY <1>1, <2>1, <2>2, <2>3, NotARecord
<1>2. CASE c.how # "update"
  <2>1. After(c, now) = IF c.read = Gone THEN now ELSE c.new
    BY <1>2 DEF After
  <2>2. NoRecord # Gone
    BY DEF NoRecord, Gone
  <2> QED
    BY <1>2, <2>1, <2>2, NotARecord DEF ChangeTyped, Possible
<1> QED
  BY <1>1, <1>2

LEMMA ProposedTyped ==
  ASSUME Typed, NEW w, Proposed(w)
  PROVE  /\ w.kind \notin {"submit", "decide"} => w.leave = Empty
         /\ w.kind = "submit" => w.rows = Empty /\ w.owner = Empty
         /\ \A l \in DOMAIN w.leave : l \in Leaves /\ w.leave[l] \in Leave
         /\ \A e \in Employees, d \in Days : Writes_(w, e, d) => ChangeTyped(Row(w, e, d), record[e][d])
<1>1. /\ w.kind \notin {"submit", "decide"} => w.leave = Empty
      /\ w.kind = "submit" => w.rows = Empty /\ w.owner = Empty
  BY DEF Proposed, Submits
<1>2. \A l \in DOMAIN w.leave : l \in Leaves /\ w.leave[l] \in Leave
  <2>1. CASE w.leave = Empty
    BY <2>1 DEF Empty
  <2>2. CASE Submits(w)
    BY <2>2 DEF Submits, Only
  <2>3. CASE Decides(w)
    <3>1. PICK l \in Leaves, to \in {"APPROVED", "CLOSED"} :
            leave[l] # NoLeave /\ w.leave = Only(l, [leave[l] EXCEPT !.status = to])
      BY <2>3 DEF Decides
    <3>2. leave[l] \in Leave
      BY <3>1 DEF Typed, RowsTyped
    <3>3. [leave[l] EXCEPT !.status = to] \in Leave
      BY <3>2 DEF Leave, LeaveTransitions
    <3> QED
      BY <3>1, <3>3 DEF Only
  <2> QED
    BY <2>1, <2>2, <2>3 DEF Proposed
<1>3. ASSUME NEW e \in Employees, NEW d \in Days, Writes_(w, e, d)
      PROVE  ChangeTyped(Row(w, e, d), record[e][d])
  <2> DEFINE r == record[e][d]
  <2>1. r = NoRecord \/ IsRecord(r)
    BY DEF Typed, RowsTyped
  <2>2. ASSUME NEW new, IsRecord(new), Row(w, e, d) = Save(r, new)
        PROVE  ChangeTyped(Row(w, e, d), r)
    BY <2>1, <2>2 DEF ChangeTyped, Save, Change
  <2>3. CASE Recomputed(w, e, d)
    <3> DEFINE new == Recompute(r, After_(w), e, d)
    <3>1. Row(w, e, d) = Save(r, new) /\ new # r
      BY <1>3, <2>3 DEF Recomputed
    <3>2. IsRecord(new)
      BY <2>1, <3>1, RecomputeType
    <3> HIDE DEF new
    <3> QED
      BY <2>2, <3>1, <3>2
  <2>4. CASE PunchedIn(w, e, d)
    <3> DEFINE new == [status |-> "PRESENT", source |-> "WEB", in |-> TRUE, out |-> FALSE, count |-> 1,
                       exception |-> IF Has(e, d) THEN r.exception ELSE "none"]
    <3>1. Row(w, e, d) = Save(r, new)
      BY <2>4 DEF PunchedIn, Saved
    <3>2. (IF Has(e, d) THEN r.exception ELSE "none") \in Exceptions
      BY <2>1 DEF Has, IsRecord, Exceptions
    <3>3. IsRecord(new)
      BY <3>2 DEF IsRecord, Statuses
    <3> HIDE DEF new
    <3> QED
      BY <2>2, <3>1, <3>3
  <2>5. CASE PunchedOut(w, e, d)
    <3> DEFINE new == [r EXCEPT !.out = TRUE, !.count = 2, !.status = "PRESENT"]
    <3>1. Row(w, e, d) = Save(r, new) /\ IsRecord(r)
      BY <2>1, <2>5 DEF PunchedOut, Saved, Has
    <3>2. IsRecord(new)
      BY <3>1, PunchedOutIsRecord
    <3> HIDE DEF new
    <3> QED
      BY <2>2, <3>1, <3>2
  <2>6. CASE Corrected(w, e, d)
    <3>1. PICK c \in Corrections : Row(w, e, d) = Save(r, Timed(IF Has(e, d) THEN r ELSE NoTimes, c))
      BY <2>6 DEF Corrected, Saved
    <3>2. IsRecord(Timed(IF Has(e, d) THEN r ELSE NoTimes, c))
      BY <2>1, TimedType DEF Has
    <3> QED
      BY <2>2, <3>1, <3>2
  <2>7. CASE Rebuilt(w, e, d)
    <3>1. Row(w, e, d) = Change("rebuild", r, Recompute(NoRecord, owner, e, d))
      BY <2>7 DEF Rebuilt, Rebuild
    <3>2. \/ Recompute(NoRecord, owner, e, d) = NoRecord
          \/ /\ IsRecord(Recompute(NoRecord, owner, e, d))
             /\ Recompute(NoRecord, owner, e, d).source = "DEVICE"
      BY RecomputeType, NotARecord
    <3> QED
      BY <3>1, <3>2 DEF ChangeTyped, Change
  <2>8. CASE Dropped(w, e, d)
    BY <2>8 DEF Dropped, ChangeTyped, Change
  <2>9. CASE Granted(w, e, d)
    BY <2>2, <2>9, DerivedIsRecord DEF Granted, Has
  <2> QED
    BY <1>3, <2>3, <2>4, <2>5, <2>6, <2>7, <2>8, <2>9 DEF Proposed, ProposesRow, Untouched
<1> QED
  BY <1>1, <1>2, <1>3

LEMMA RequestsStay ==
  ASSUME Typed, RowsTyped', PunchesTyped', request' = [q \in Requests |-> request'[q]],
         \A q \in Requests : request'[q] = Idle \/ request'[q] = request[q],
         \A e \in Employees, d \in Days : record[e][d] # NoRecord => record'[e][d] # NoRecord
  PROVE  Typed'
<1>1. ASSUME NEW q \in Requests, Active(q)' PROVE WriteTyped(request[q])' /\ request'[q] = request[q]
  <2>1. request'[q] = request[q] /\ Active(q)
    BY <1>1 DEF Active, Idle
  <2>2. WriteTyped(request[q])
    BY <2>1 DEF Typed, RequestsTyped
  <2>3. \A e \in Employees, d \in Days :
          Writes_(request[q], e, d) => ChangeTyped(Row(request[q], e, d), record'[e][d])
    BY <2>2 DEF WriteTyped, ChangeTyped
  <2> QED
    BY <2>1, <2>2, <2>3 DEF WriteTyped, Writes_, Row
<1> QED
  BY <1>1 DEF Typed, RequestsTyped

LEMMA SweepRow ==
  ASSUME RowsTyped, Sweep, NEW e \in Employees, NEW d \in Days
  PROVE  \/ record'[e][d] = record[e][d]
         \/ /\ IsRecord(record[e][d]) /\ IsRecord(record'[e][d]) /\ d < today
            /\ record[e][d].in /\ ~record[e][d].out /\ record[e][d].status = "PRESENT"
            /\ record'[e][d].in = record[e][d].in /\ record'[e][d].out = record[e][d].out
            /\ record'[e][d].source = record[e][d].source /\ record'[e][d].count = record[e][d].count
            /\ record'[e][d].status = "PENDING_CORRECTION"
<1> DEFINE r == record[e][d]
           x == IF r.count > 1 THEN "ODD_PUNCHES" ELSE "MISSING_OUT"
           a == [r EXCEPT !.status = "PENDING_CORRECTION"]
           b == [a EXCEPT !.exception = x]
<1>1. \/ record'[e][d] = r
      \/ /\ Has(e, d) /\ d < today /\ r.in /\ ~r.out /\ r.status = "PRESENT"
         /\ record'[e][d] = [r EXCEPT !.status = "PENDING_CORRECTION", !.exception = x]
  BY DEF Sweep
<1>2. CASE record'[e][d] = r
  BY <1>2
<1>3. CASE Has(e, d) /\ d < today /\ r.in /\ ~r.out /\ r.status = "PRESENT" /\ record'[e][d] = b
  <2>1. IsRecord(r)
    BY <1>3 DEF RowsTyped, Has
  <2>2. /\ IsRecord(a) /\ a.status = "PENDING_CORRECTION" /\ a.source = r.source
        /\ a.in = r.in /\ a.out = r.out /\ a.count = r.count
    <3> HIDE DEF r
    <3> QED
      BY <2>1 DEF IsRecord, Statuses
  <2>3. x \in Exceptions
    BY DEF Exceptions
  <2> HIDE DEF a, x
  <2>4. /\ IsRecord(b) /\ b.status = a.status /\ b.source = a.source
        /\ b.in = a.in /\ b.out = a.out /\ b.count = a.count
    BY <2>2, <2>3, FlagIsRecord
  <2> HIDE DEF b
  <2> QED
    BY <1>3, <2>1, <2>2, <2>4
<1> QED
  BY <1>1, <1>2, <1>3

LEMMA SweepTables ==
  ASSUME RowsTyped, PunchesTyped, Sweep
  PROVE  /\ RowsTyped' /\ PunchesTyped'
         /\ UNCHANGED <<today, owner, leave, request>> /\ Admitted("sweep")
         /\ \A e \in Employees, d \in Days : record[e][d] # NoRecord => record'[e][d] # NoRecord
<1>1. UNCHANGED <<today, owner, leave, request>> /\ Admitted("sweep")
  BY DEF Sweep
<1>2. record' = [e \in Employees |-> [d \in Days |-> record'[e][d]]]
  BY DEF Sweep
<1>3. \A e \in Employees, d \in Days : record'[e][d] = NoRecord \/ IsRecord(record'[e][d])
  BY SweepRow DEF RowsTyped
<1>4. \A e \in Employees, d \in Days : record[e][d] # NoRecord => record'[e][d] # NoRecord
  BY SweepRow, NotARecord
<1> QED
  BY <1>1, <1>2, <1>3, <1>4 DEF RowsTyped, PunchesTyped

LEMMA BeginTyped ==
  ASSUME Typed, NEW q \in Requests, NEW w, Begin(q, w), Proposed(w)
  PROVE  Typed' /\ request'[q] = w /\ (\A r \in Requests \ {q} : request'[r] = request[r])
<1>1. /\ UNCHANGED <<today, record, owner, pin, leave>>
      /\ request' = [r \in Requests |-> request'[r]]
      /\ request'[q] = w /\ \A r \in Requests \ {q} : request'[r] = request[r]
  BY DEF Begin, tables, Typed, RequestsTyped
<1>2. RowsTyped' /\ PunchesTyped'
  BY <1>1 DEF Typed, RowsTyped, PunchesTyped
<1>3. WriteTyped(w)
  <2>1. DOMAIN w.owner \subseteq Punches
    BY DEF Proposed
  <2>2. \A x \in DOMAIN w.rows : IsChange(w.rows[x])
    BY DEF Proposed
  <2> QED
    BY <2>1, <2>2, ProposedTyped DEF WriteTyped, Proposed
<1>4. ASSUME NEW r \in Requests, Active(r)' PROVE WriteTyped(request[r])'
  <2>1. WriteTyped(request'[r])
    BY <1>1, <1>3, <1>4 DEF Active, Typed, RequestsTyped
  <2> QED
    BY <1>1, <2>1 DEF WriteTyped, Writes_, Row
<1> QED
  BY <1>1, <1>2, <1>4 DEF Typed, RequestsTyped

LEMMA CommitTyped ==
  ASSUME Typed, NEW q \in Requests, Commit(q)
  PROVE  Typed'
<1> DEFINE w == request[q]
           taken == Taken(w)
<1>1. /\ WriteTyped(w) /\ today' = today
      /\ record' = [e \in Employees |-> [d \in Days |-> record'[e][d]]]
      /\ DOMAIN owner' = DOMAIN w.owner \cup DOMAIN owner
      /\ leave' \in [Leaves -> Leave \cup {NoLeave}]
      /\ request' = [r \in Requests |-> request'[r]] /\ request'[q] = Idle
      /\ \A r \in Requests \ {q} : request'[r] = Missing(request[r], taken)
      /\ \A e \in Employees, d \in Days :
           /\ record'[e][d] = IF Writes_(w, e, d) THEN After(Row(w, e, d), record[e][d]) ELSE record[e][d]
           /\ Writes_(w, e, d) => Possible(Row(w, e, d), record[e][d])
  BY CommitEffects
<1> HIDE DEF w, taken
<1>2. ASSUME NEW e \in Employees, NEW d \in Days
      PROVE  /\ record'[e][d] = NoRecord \/ IsRecord(record'[e][d])
             /\ record[e][d] # NoRecord /\ record'[e][d] = NoRecord => <<e, d>> \in taken
  <2>1. record[e][d] = NoRecord \/ IsRecord(record[e][d])
    BY DEF Typed, RowsTyped
  <2>2. CASE Writes_(w, e, d)
    <3>1. ChangeTyped(Row(w, e, d), record[e][d]) /\ Possible(Row(w, e, d), record[e][d])
          /\ record'[e][d] = After(Row(w, e, d), record[e][d])
      BY <1>1, <2>2 DEF WriteTyped
    <3> QED
      BY <2>1, <2>2, <3>1, AfterType DEF taken, Taken, Writes_, Row
  <2>3. CASE ~Writes_(w, e, d)
    BY <1>1, <2>1, <2>3
  <2> QED
    BY <2>2, <2>3
<1>3. RowsTyped' /\ PunchesTyped'
  BY <1>1, <1>2 DEF Typed, RowsTyped, PunchesTyped, WriteTyped
<1>4. ASSUME NEW r \in Requests, Active(r)' PROVE WriteTyped(request[r])'
  <2> DEFINE v == request[r]
             m == request'[r]
  <2>1. r # q
    BY <1>1, <1>4 DEF Active
  <2>2. m = Missing(v, taken) /\ Active(r)
    BY <1>1, <1>4, <2>1 DEF Active, Missing
  <2>3. WriteTyped(v)
    BY <2>2 DEF Typed, RequestsTyped
  <2> HIDE DEF v, m
  <2>4. /\ m = [kind |-> m.kind, rows |-> m.rows, owner |-> m.owner, pin |-> m.pin, leave |-> m.leave]
        /\ m.kind = v.kind /\ m.owner = v.owner /\ m.leave = v.leave
        /\ DOMAIN m.rows = DOMAIN v.rows
        /\ v.rows = Empty => m.rows = Empty
        /\ \A x \in DOMAIN v.rows :
             m.rows[x] = Change(v.rows[x].how,
               IF x \in taken /\ v.rows[x].how # "insert" THEN Gone ELSE v.rows[x].read, v.rows[x].new)
    BY <2>2, <2>3, MissingType
  <2>5. \A x \in DOMAIN m.rows : IsChange(m.rows[x])
    BY <2>4, ChangeIs
  <2>6. ASSUME NEW e \in Employees, NEW d \in Days, Writes_(m, e, d)
        PROVE  ChangeTyped(Row(m, e, d), record'[e][d])
    <3> DEFINE x == <<e, d>>
    <3>1. x \in DOMAIN v.rows /\ ChangeTyped(v.rows[x], record[e][d])
      BY <2>3, <2>4, <2>6 DEF WriteTyped, Writes_, Row
    <3>2. Row(m, e, d) = Change(v.rows[x].how,
               IF x \in taken /\ v.rows[x].how # "insert" THEN Gone ELSE v.rows[x].read, v.rows[x].new)
      BY <2>4, <3>1 DEF Row
    <3>3. x \notin taken => (record[e][d] # NoRecord => record'[e][d] # NoRecord)
      BY <1>2
    <3> HIDE DEF x
    <3> QED
      BY <3>1, <3>2, <3>3 DEF ChangeTyped, Change
  <2> QED
    BY <2>3, <2>4, <2>5, <2>6 DEF WriteTyped, m, Writes_, Row
<1> QED
  BY <1>1, <1>3, <1>4 DEF Typed, RequestsTyped

LEMMA TypedStep ==
  ASSUME Typed, [Next]_vars
  PROVE  Typed'
<1>1. CASE UNCHANGED vars
  BY <1>1 DEF vars, Typed, RowsTyped, PunchesTyped, RequestsTyped, WriteTyped, Active, Writes_, Row
<1>2. CASE Midnight
  <2>1. UNCHANGED <<record, owner, pin, leave, request>> /\ today' \in Nat /\ today' \in Days
    BY <1>2, DayAssumption DEF Midnight, Typed, RowsTyped, Days
  <2>2. RowsTyped' /\ PunchesTyped'
    BY <2>1 DEF Typed, RowsTyped, PunchesTyped
  <2> QED
    BY <2>1, <2>2, RequestsStay DEF Typed, RequestsTyped
<1>3. CASE Sweep
  BY <1>3, SweepTables, RequestsStay DEF Typed, RequestsTyped
<1>4. ASSUME NEW q \in Requests, Abort(q) PROVE Typed'
  <2>1. /\ UNCHANGED <<today, record, owner, pin, leave>> /\ request' = [r \in Requests |-> request'[r]]
        /\ \A r \in Requests : request'[r] = Idle \/ request'[r] = request[r]
    BY <1>4 DEF Abort, tables, Typed, RequestsTyped
  <2>2. RowsTyped' /\ PunchesTyped'
    BY <2>1 DEF Typed, RowsTyped, PunchesTyped
  <2> QED
    BY <2>1, <2>2, RequestsStay
<1>5. ASSUME NEW q \in Requests, NEW w, Begin(q, w), Proposed(w) PROVE Typed'
  BY <1>5, BeginTyped
<1> QED
  BY <1>1, <1>2, <1>3, <1>4, <1>5, CommitTyped, NextCases DEF Typed

LEMMA TypedInit == Init => Typed
<1> SUFFICES ASSUME Init PROVE Typed
  OBVIOUS
<1>1. RowsTyped
  BY DayAssumption DEF Init, RowsTyped, Days
<1>2. PunchesTyped
  BY DEF Init, PunchesTyped, Empty
<1>3. RequestsTyped
  BY DEF Init, RequestsTyped, Active
<1> QED
  BY <1>1, <1>2, <1>3 DEF Typed

-----------------------------------------------------------------------------
(* What a day's record says of its punches.                                *)

DayKinds == Kinds \ {"submit"}
\* No two requests about days overlap; submissions may meet anything.
DaysApart == \A a, b \in DayKinds : {a, b} \notin Overlaps

\* What a request will leave, as long as nobody else writes about days.
Planned(w, e, d) ==
  /\ Writes_(w, e, d) => Row(w, e, d).read = record[e][d]
  /\ DayOK(IF Writes_(w, e, d) THEN Row(w, e, d).new ELSE record[e][d], After_(w), today, e, d)

DaysInv ==
  /\ Typed /\ DaysOK
  /\ \A q, r \in Requests :
       Active(q) /\ Active(r) /\ request[q].kind \in DayKinds /\ request[r].kind \in DayKinds => q = r
  /\ \A q \in Requests : Active(q) /\ request[q].kind \in DayKinds =>
       \A e \in Employees, d \in Days : Planned(request[q], e, d)

\* A day's punches decide what its record should say, and a finished day stays finished.
LEMMA SameDay ==
  ASSUME NEW r, NEW own, NEW other, NEW now \in Nat, NEW later \in Nat, now <= later,
         NEW e, NEW d \in Days, Owned(own, e, d) = Owned(other, e, d), DayOK(r, own, now, e, d)
  PROVE  DayOK(r, other, later, e, d)
<1>1. Taps(own, e, d) = Taps(other, e, d)
  BY DEF Taps
<1>2. d < now => d < later
  BY DayAssumption DEF Days
<1> QED
  BY <1>1, <1>2 DEF DayOK

LEMMA ProposedOK ==
  ASSUME Settling, BacklogFits, Typed, DaysOK, NEW w, Proposed(w), NEW e \in Employees, NEW d \in Days
  PROVE  Planned(w, e, d)
<1> DEFINE r == record[e][d]
           own == After_(w)
<1>1. DayOK(r, owner, today, e, d)
  BY DEF DaysOK
<1>2. today \in Nat /\ (r = NoRecord \/ IsRecord(r))
  BY DEF Typed, RowsTyped
<1>3. ASSUME SamePunches(w, e, d), NEW new, DayOK(new, owner, today, e, d)
      PROVE  DayOK(new, own, today, e, d)
  <2>1. Owned(owner, e, d) = Owned(own, e, d)
    BY <1>3 DEF SamePunches
  <2> HIDE DEF own
  <2> QED
    BY <1>2, <1>3, <2>1, SameDay
<1>4. ASSUME NEW new, Writes_(w, e, d), SamePunches(w, e, d), Row(w, e, d) = Save(r, new),
             DayOK(new, owner, today, e, d)
      PROVE  Planned(w, e, d)
  BY <1>3, <1>4, SaveIs DEF Planned
<1>5. CASE Untouched(w, e, d)
  BY <1>1, <1>3, <1>5 DEF Untouched, Planned
<1>6. CASE Recomputed(w, e, d)
  <2> DEFINE new == Recompute(r, own, e, d)
  <2>1. Owned(owner, e, d) \subseteq Owned(own, e, d)
    BY <1>6 DEF Recomputed
  <2>2. Owned(own, e, d) = {} => DayOK(r, own, today, e, d)
    BY <1>1, <1>3, <2>1 DEF SamePunches
  <2>3. DayOK(new, own, today, e, d)
    <3> HIDE DEF own
    <3> QED
      BY <1>1, <1>2, <2>2, RecomputeOK, NotARecord DEF DayOK
  <2>4. (new = r /\ ~Writes_(w, e, d)) \/ (Writes_(w, e, d) /\ Row(w, e, d) = Save(r, new))
    BY <1>6 DEF Recomputed
  <2> HIDE DEF new
  <2> QED
    BY <2>3, <2>4, SaveIs DEF Planned
<1>7. CASE PunchedIn(w, e, d)
  <2> DEFINE x == IF Has(e, d) THEN r.exception ELSE "none"
             new == [status |-> "PRESENT", source |-> "WEB", in |-> TRUE, out |-> FALSE, count |-> 1,
                     exception |-> x]
  <2>1. x \in Exceptions /\ x \notin Unfinished
    <3>1. d = today
      BY <1>7 DEF PunchedIn
    <3>2. Has(e, d) => IsRecord(r) /\ (r.exception \in Unfinished => d < today)
      BY <1>1 DEF Has, DayOK
    <3>3. ~(d < today)
      BY <1>2, <3>1
    <3> QED
      BY <3>2, <3>3 DEF IsRecord, Exceptions, Unfinished
  <2> HIDE DEF x
  <2>2. IsRecord(new) /\ new.source = "WEB" /\ new.exception = x /\ ~OnLeave(new)
    BY <2>1 DEF IsRecord, Statuses, OnLeave
  <2>3. Saved(w, e, d, new)
    BY <1>7 DEF PunchedIn, x
  <2> HIDE DEF new
  <2>4. DayOK(new, owner, today, e, d)
    BY <2>1, <2>2 DEF DayOK
  <2> QED
    BY <1>4, <2>3, <2>4 DEF Saved
<1>8. CASE PunchedOut(w, e, d)
  <2> DEFINE new == [r EXCEPT !.out = TRUE, !.count = 2, !.status = "PRESENT"]
  <2>1. IsRecord(r) /\ r.source = "WEB" /\ r.in /\ d = today /\ Saved(w, e, d, new)
    BY <1>2, <1>8 DEF PunchedOut, Has
  <2>2. /\ IsRecord(new) /\ new.status = "PRESENT" /\ new.source = r.source
        /\ new.in = r.in /\ new.exception = r.exception
    BY <2>1, PunchedOutIsRecord
  <2>3. r.exception \in Unfinished => d < today
    BY <1>1, <2>1, NotARecord DEF DayOK
  <2>4. ~(d < today)
    BY <1>2, <2>1
  <2> HIDE DEF new
  <2>5. DayOK(new, owner, today, e, d)
    BY <2>1, <2>2, <2>3, <2>4 DEF DayOK, OnLeave
  <2> QED
    BY <1>4, <2>1, <2>5 DEF Saved
<1>9. CASE Corrected(w, e, d)
  <2>1. PICK c \in Corrections : Saved(w, e, d, Timed(IF Has(e, d) THEN r ELSE NoTimes, c))
    BY <1>9 DEF Corrected
  <2> DEFINE new == Timed(IF Has(e, d) THEN r ELSE NoTimes, c)
  <2>2. c.in \/ c.status \notin {"LEAVE", "derived"}
    BY DEF Settling
  <2>3. IsRecord(new) /\ new.source = "ADMIN" /\ new.exception = "none" /\ ~OnLeave(new)
    BY <1>2, <2>2, TimedType DEF Has
  <2> HIDE DEF new
  <2>4. DayOK(new, owner, today, e, d)
    BY <2>3 DEF DayOK, Unfinished
  <2> QED
    BY <1>4, <2>1, <2>4 DEF Saved, new
<1>10. CASE Rebuilt(w, e, d)
  <2> DEFINE new == Recompute(NoRecord, owner, e, d)
  <2>1. DayOK(new, owner, today, e, d)
    BY RecomputeOK, NotARecord DEF DayOK
  <2>2. Row(w, e, d) = Change("rebuild", r, new) /\ Writes_(w, e, d) /\ SamePunches(w, e, d)
    BY <1>10 DEF Rebuilt, Rebuild
  <2> HIDE DEF new
  <2> QED
    BY <1>3, <2>1, <2>2, ChangeIs DEF Planned
<1>11. CASE Dropped(w, e, d)
  <2>1. /\ Row(w, e, d) = Change("delete", r, NoRecord) /\ Writes_(w, e, d) /\ SamePunches(w, e, d)
        /\ r # NoRecord /\ OnLeave(r) /\ r.exception # "PUNCH_ON_LEAVE"
    BY <1>11 DEF Dropped, Has
  <2>2. DayOK(NoRecord, owner, today, e, d)
    BY <1>1, <2>1 DEF DayOK
  <2> QED
    BY <1>3, <2>1, <2>2, ChangeIs DEF Planned
<1>12. CASE Granted(w, e, d)
  <2>1. r = NoRecord /\ Row(w, e, d) = Save(r, Derived) /\ Writes_(w, e, d) /\ SamePunches(w, e, d)
    BY <1>12 DEF Granted, Has
  <2>2. Owned(owner, e, d) = {}
    BY <1>1, <2>1, NotARecord DEF DayOK
  <2>3. DayOK(Derived, owner, today, e, d)
    BY <2>2, DerivedIsRecord DEF DayOK, Unfinished
  <2> QED
    BY <1>4, <2>1, <2>3
<1> QED
  BY <1>5, <1>6, <1>7, <1>8, <1>9, <1>10, <1>11, <1>12 DEF Proposed, ProposesRow

LEMMA SweepOK ==
  ASSUME RowsTyped, DaysOK, Sweep
  PROVE  DaysOK'
<1>1. today' = today /\ owner' = owner
  BY DEF Sweep
<1>2. ASSUME NEW e \in Employees, NEW d \in Days PROVE DayOK(record'[e][d], owner, today, e, d)
  <2>1. DayOK(record[e][d], owner, today, e, d)
    BY DEF DaysOK
  <2>2. CASE record'[e][d] = record[e][d]
    BY <2>1, <2>2
  <2>3. CASE /\ IsRecord(record[e][d]) /\ IsRecord(record'[e][d]) /\ d < today
             /\ record[e][d].in /\ ~record[e][d].out
             /\ record'[e][d].in = record[e][d].in /\ record'[e][d].out = record[e][d].out
             /\ record'[e][d].source = record[e][d].source /\ record'[e][d].count = record[e][d].count
    BY <2>1, <2>3, NotARecord DEF DayOK, OnLeave
  <2> QED
    BY <2>2, <2>3, SweepRow
<1> QED
  BY <1>1, <1>2 DEF DaysOK

LEMMA DaysStep ==
  ASSUME Settling, BacklogFits, DaysApart, DaysInv, [Next]_vars
  PROVE  DaysInv'
<1> USE DEF DaysInv
<1>1. Typed /\ Typed' /\ today \in Nat
  BY TypedStep DEF Typed, RowsTyped
<1>2. CASE UNCHANGED vars
  BY <1>1, <1>2 DEF vars, DaysOK, Planned, Active, Writes_, Row, After_
<1>3. CASE Midnight
  <2>1. UNCHANGED <<record, owner, pin, leave, request>> /\ today' \in Nat /\ today <= today'
    BY <1>1, <1>3 DEF Midnight
  <2>2. DaysOK'
    BY <1>1, <2>1, SameDay DEF DaysOK
  <2>3. ASSUME NEW q \in Requests, Active(q), request[q].kind \in DayKinds, NEW e \in Employees, NEW d \in Days
        PROVE  Planned(request[q], e, d)'
    <3> DEFINE new == IF Writes_(request[q], e, d) THEN Row(request[q], e, d).new ELSE record[e][d]
    <3>1. /\ DayOK(new, After_(request[q]), today, e, d)
          /\ Writes_(request[q], e, d) => Row(request[q], e, d).read = record[e][d]
      BY <2>3 DEF Planned
    <3> HIDE DEF new
    <3>2. DayOK(new, After_(request[q]), today', e, d)
      BY <1>1, <2>1, <3>1, SameDay
    <3> QED
      BY <2>1, <3>1, <3>2 DEF Planned, new, Writes_, Row, After_
  <2> QED
    BY <1>1, <2>1, <2>2, <2>3 DEF Active
<1>4. CASE Sweep
  <2>1. UNCHANGED <<today, owner, leave, request>> /\ Admitted("sweep")
    BY <1>4 DEF Sweep
  <2>2. \A q \in Requests : Active(q) => request[q].kind \notin DayKinds
    BY <2>1 DEF Admitted, DaysApart, DayKinds, Kinds
  <2>3. DaysOK'
    BY <1>1, <1>4, SweepOK DEF Typed
  <2> QED
    BY <1>1, <2>1, <2>2, <2>3 DEF Active
<1>5. ASSUME NEW q \in Requests, Abort(q) PROVE DaysInv'
  <2>1. /\ UNCHANGED <<today, record, owner, pin, leave>>
        /\ \A r \in Requests : request'[r] = Idle \/ request'[r] = request[r]
    BY <1>1, <1>5 DEF Abort, tables, Typed, RequestsTyped
  <2>2. \A r \in Requests : Active(r)' => request'[r] = request[r] /\ Active(r)
    BY <2>1 DEF Active
  <2> QED
    BY <1>1, <2>1, <2>2 DEF DaysOK, Planned, Writes_, Row, After_
<1>6. ASSUME NEW q \in Requests, NEW w, Begin(q, w), Proposed(w) PROVE DaysInv'
  <2>1. /\ UNCHANGED <<today, record, owner, pin, leave>> /\ ~Active(q) /\ Admitted(w.kind)
        /\ request'[q] = w /\ \A r \in Requests \ {q} : request'[r] = request[r]
    BY <1>1, <1>6, BeginTyped DEF Begin, tables
  <2>2. \A e \in Employees, d \in Days : Planned(w, e, d)
    BY <1>6, ProposedOK
  <2>3. w.kind \in DayKinds => \A r \in Requests : Active(r) => request[r].kind \notin DayKinds
    BY <2>1 DEF Admitted, DaysApart
  <2>4. \A r \in Requests : Active(r)' => r = q \/ (Active(r) /\ request'[r] = request[r])
    BY <2>1 DEF Active
  <2>5. ASSUME NEW r \in Requests, Active(r)', request'[r].kind \in DayKinds,
               NEW e \in Employees, NEW d \in Days
        PROVE  Planned(request[r], e, d)'
    <3>1. Planned(request'[r], e, d)
      BY <2>1, <2>2, <2>4, <2>5
    <3> QED
      BY <2>1, <3>1 DEF Planned, Writes_, Row, After_
  <2> QED
    BY <1>1, <2>1, <2>3, <2>4, <2>5 DEF DaysOK, Active
<1>7. ASSUME NEW q \in Requests, Commit(q) PROVE DaysInv'
  <2> DEFINE w == request[q]
  <2>1. /\ WriteTyped(w) /\ Active(q) /\ today' = today /\ owner' = After_(w) /\ request'[q] = Idle
        /\ \A r \in Requests \ {q} : request'[r] = Missing(request[r], Taken(w))
        /\ \A e \in Employees, d \in Days :
             /\ record'[e][d] = IF Writes_(w, e, d) THEN After(Row(w, e, d), record[e][d]) ELSE record[e][d]
             /\ Writes_(w, e, d) => Possible(Row(w, e, d), record[e][d])
    BY <1>1, <1>7, CommitEffects
  <2>2. \A r \in Requests : Active(r)' =>
          /\ r # q /\ Active(r) /\ request'[r].kind = request[r].kind
          /\ request'[r].owner = request[r].owner /\ DOMAIN request'[r].rows = DOMAIN request[r].rows
          /\ \A x \in DOMAIN request[r].rows : x \notin Taken(w) =>
               request'[r].rows[x].new = request[r].rows[x].new /\ request'[r].rows[x].read = request[r].rows[x].read
    <3> TAKE r \in Requests
    <3> SUFFICES ASSUME Active(r)'
                 PROVE  /\ r # q /\ Active(r) /\ request'[r].kind = request[r].kind
                        /\ request'[r].owner = request[r].owner /\ DOMAIN request'[r].rows = DOMAIN request[r].rows
                        /\ \A x \in DOMAIN request[r].rows : x \notin Taken(w) =>
                             /\ request'[r].rows[x].new = request[r].rows[x].new
                             /\ request'[r].rows[x].read = request[r].rows[x].read
      OBVIOUS
    <3>1. r # q /\ request'[r] = Missing(request[r], Taken(w))
      BY <2>1 DEF Active
    <3>2. Active(r)
      BY <3>1 DEF Active, Missing
    <3>3. WriteTyped(request[r])
      BY <1>1, <3>2 DEF Typed, RequestsTyped
    <3> HIDE DEF w
    <3> QED
      BY <3>1, <3>2, <3>3, MissingType, ChangeIs
  <2>3. CASE w.kind = "submit"
    <3>1. w.rows = Empty /\ w.owner = Empty
      BY <2>1, <2>3 DEF WriteTyped
    <3>2. Taken(w) = {} /\ \A e \in Employees, d \in Days : ~Writes_(w, e, d)
      BY <3>1 DEF Taken, Writes_, Empty
    <3>3. \A e \in Employees, d \in Days : record'[e][d] = record[e][d]
      BY <2>1, <3>2
    <3>4. \A e \in Employees, d \in Days : Owned(owner', e, d) = Owned(owner, e, d)
      BY <2>1, <3>1, NoPunches DEF SamePunches
    <3>5. ASSUME NEW own PROVE
            \A e \in Employees, d \in Days : Owned(Over(own, owner'), e, d) = Owned(Over(own, owner), e, d)
      <4>1. DOMAIN owner' = DOMAIN owner /\ \A p \in DOMAIN owner : owner'[p] = owner[p]
        BY <2>1, <3>1 DEF After_, Over, Empty
      <4> QED
        BY <4>1 DEF Owned, Over
    <3>6. DaysOK'
      BY <1>1, <2>1, <3>3, <3>4, SameDay DEF DaysOK
    <3>7. ASSUME NEW r \in Requests, Active(r)', request'[r].kind \in DayKinds, NEW e \in Employees, NEW d \in Days
          PROVE  Planned(request[r], e, d)'
      <4> DEFINE v == request[r]
                 m == request'[r]
                 new == IF Writes_(v, e, d) THEN Row(v, e, d).new ELSE record[e][d]
      <4>1. Planned(v, e, d)
        BY <2>2, <3>7
      <4>2. /\ Writes_(m, e, d) <=> Writes_(v, e, d)
            /\ Writes_(v, e, d) => Row(m, e, d).new = Row(v, e, d).new /\ Row(m, e, d).read = Row(v, e, d).read
            /\ m.owner = v.owner
        BY <2>2, <3>2, <3>7 DEF Writes_, Row
      <4>3. DayOK(new, Over(v.owner, owner), today, e, d)
        BY <4>1 DEF Planned, After_
      <4>4. Owned(Over(v.owner, owner), e, d) = Owned(Over(v.owner, owner'), e, d)
        BY <3>5
      <4> HIDE DEF v, m, new
      <4>5. DayOK(new, Over(m.owner, owner'), today, e, d)
        BY <1>1, <4>2, <4>3, <4>4, SameDay
      <4>6. Writes_(m, e, d) => Row(m, e, d).read = record'[e][d]
        BY <3>3, <4>1, <4>2 DEF Planned
      <4>7. new = IF Writes_(m, e, d) THEN Row(m, e, d).new ELSE record'[e][d]
        BY <3>3, <4>2 DEF new
      <4> QED
        BY <2>1, <4>5, <4>6, <4>7 DEF Planned, m, After_, Writes_, Row
    <3> QED
      BY <1>1, <2>2, <3>6, <3>7
  <2>4. CASE w.kind # "submit"
    <3>1. w.kind \in DayKinds
      BY <2>1, <2>4 DEF WriteTyped, DayKinds
    <3>2. \A r \in Requests : Active(r)' => request'[r].kind \notin DayKinds
      BY <2>1, <2>2, <3>1
    <3>3. ASSUME NEW e \in Employees, NEW d \in Days PROVE DayOK(record'[e][d], owner', today, e, d)
      <4>1. Planned(w, e, d)
        BY <2>1, <3>1
      <4>2. CASE ~Writes_(w, e, d)
        BY <2>1, <4>1, <4>2 DEF Planned
      <4>3. CASE Writes_(w, e, d)
        <5> DEFINE c == Row(w, e, d)
                   now == record[e][d]
        <5>1. /\ ChangeTyped(c, now) /\ Possible(c, now) /\ c.read = now
              /\ record'[e][d] = After(c, now) /\ DayOK(c.new, owner', today, e, d)
          BY <2>1, <4>1, <4>3 DEF WriteTyped, Planned
        <5>2. now = NoRecord \/ IsRecord(now)
          BY <1>1 DEF Typed, RowsTyped
        <5>3. now # Gone
          BY <5>2 DEF IsRecord, NoRecord, Gone, Statuses
        <5> HIDE DEF c, now
        <5>4. CASE c.how = "update"
          <6>1. IsRecord(now) /\ IsRecord(c.new) /\ After(c, now) = Updated(now, now, c.new)
            BY <5>1, <5>2, <5>3, <5>4, AfterType DEF ChangeTyped
          <6>2. After(c, now) = c.new
            BY <6>1, UpdatedIsRecord
          <6> QED
            BY <5>1, <6>2
        <5>5. CASE c.how # "update"
          BY <5>1, <5>2, <5>3, <5>5, AfterType
        <5> QED
          BY <5>4, <5>5
      <4> QED
        BY <4>2, <4>3
    <3> QED
      BY <1>1, <2>1, <2>2, <3>2, <3>3 DEF DaysOK
  <2> QED
    BY <2>3, <2>4
<1> QED
  BY <1>1, <1>2, <1>3, <1>4, <1>5, <1>6, <1>7, NextCases DEF Typed

LEMMA DaysInit == Init => DaysInv
<1> SUFFICES ASSUME Init PROVE DaysInv
  OBVIOUS
<1>1. DaysOK
  BY DEF Init, DaysOK, DayOK, Owned, Empty
<1>2. \A q \in Requests : ~Active(q)
  BY DEF Init, Active
<1> QED
  BY <1>1, <1>2, TypedInit DEF DaysInv

\* A day with punches always has a record, one from the machines counts every tap
\* of the day, and only a day without a check-out is flagged as unfinished: for
\* any number of machines and punches, in any order and repeated, whatever the
\* desk deletes and whichever leave is withdrawn (recompute_day, delete_attendance,
\* _clear_derived_leave_attendance, set_device_pin); where the desk's leave days
\* are leave days already, the punches fall on no more days than a new PIN
\* recomputes, and no two requests about days overlap.
THEOREM DaysCountPunches == ASSUME Settling, BacklogFits, DaysApart PROVE Spec => []MachineDaysKept
<1>1. DaysInv => MachineDaysKept
  <2> SUFFICES ASSUME DaysInv, NEW e \in Employees, NEW d \in Days
               PROVE  /\ Owned(owner, e, d) # {} => Has(e, d)
                      /\ Has(e, d) /\ record[e][d].source = "DEVICE" => record[e][d].count = Taps(owner, e, d)
                      /\ Has(e, d) /\ record[e][d].exception \in {"MISSING_OUT", "ODD_PUNCHES"} =>
                           record[e][d].in /\ ~record[e][d].out
    BY DEF MachineDaysKept
  <2>1. DayOK(record[e][d], owner, today, e, d)
    BY DEF DaysInv, DaysOK
  <2> QED
    BY <2>1, NotARecord DEF DayOK, Has, Unfinished
<1> QED
  BY <1>1, DaysInit, DaysStep, PTL DEF Spec

-----------------------------------------------------------------------------
(* Leave days and the leaves they belong to.                               *)

OneDecision == {"decide"} \notin Overlaps
OneSubmission == {"submit"} \notin Overlaps

WebLeave(r) == r # NoRecord /\ r.source = "WEB" /\ r.status = "LEAVE"
Approved(l, e, d) == leave[l].status = "APPROVED" /\ leave[l].who = e /\ Covers(leave[l], d)
LeaveBacked == \A e \in Employees, d \in Days :
  WebLeave(record[e][d]) => ~record[e][d].in /\ \E l \in Leaves : Approved(l, e, d)

\* An update makes no leave day of a day that was none.
KeepsLeave(c) ==
  c.new.source = "WEB" => /\ c.read.source = "WEB"
                          /\ c.new.status = "LEAVE" => c.read.status = "LEAVE" /\ c.new.in = c.read.in
\* The row that was read has become no leave day of the page since.
ReadBefore(c, now) ==
  now.source = "WEB" => c.read.source = "WEB" /\ (now.status = "LEAVE" => c.read.status = "LEAVE")
\* The leave of w that is withdrawn or refused, and covers the day.
Closes(w, e, d) ==
  \E l \in DOMAIN w.leave : w.leave[l].status = "CLOSED" /\ w.leave[l].who = e /\ Covers(w.leave[l], d)

LeaveRow(w, e, d) ==
  LET c == Row(w, e, d) IN
  /\ c.how = "insert" /\ WebLeave(c.new) => ~c.new.in /\ Grants(w, e, d)
  /\ c.how = "update" /\ c.read # Gone => KeepsLeave(c) /\ ReadBefore(c, record[e][d])
  /\ c.how \in {"delete", "rebuild"} /\ w.kind = "decide" => Closes(w, e, d)
LeaveRowsPlanned(w) == \A e \in Employees, d \in Days : Writes_(w, e, d) => LeaveRow(w, e, d)

LeavePlanned(w) ==
  /\ w.kind = "submit" => \E l \in Leaves, new \in Leave :
       w.leave = Only(l, new) /\ new.status = "PENDING" /\ leave[l] = NoLeave
  /\ w.kind = "decide" => \E l \in Leaves, to \in {"APPROVED", "CLOSED"} :
       /\ leave[l] \in Leave /\ to \in LeaveTransitions[leave[l].status]
       /\ w.leave = Only(l, [leave[l] EXCEPT !.status = to])

\* Who withdraws a leave that stands takes every day of it.
Clears(w) ==
  \A l \in DOMAIN w.leave, e \in Employees, d \in Days :
    Approved(l, e, d) /\ WebLeave(record[e][d]) =>
      Writes_(w, e, d) /\ Row(w, e, d).how \in {"delete", "rebuild"} /\ Row(w, e, d).read # Gone

LeavesInv ==
  /\ Typed /\ LeaveBacked
  /\ \A q, r \in Requests : Active(q) /\ Active(r) /\ q # r =>
       /\ ~(request[q].kind = "decide" /\ request[r].kind = "decide")
       /\ DOMAIN request[q].leave \cap DOMAIN request[r].leave = {}
  /\ \A q \in Requests : Active(q) =>
       LeavePlanned(request[q]) /\ LeaveRowsPlanned(request[q]) /\ Clears(request[q])

LEMMA ProposedLeave ==
  ASSUME LeavesInv, NEW w, Proposed(w)
  PROVE  LeavePlanned(w) /\ LeaveRowsPlanned(w) /\ Clears(w)
<1>1. \A e \in Employees, d \in Days : record[e][d] = NoRecord \/ IsRecord(record[e][d])
  BY DEF LeavesInv, Typed, RowsTyped
<1>2. LeavePlanned(w)
  BY DEF Proposed, Submits, Decides, LeavePlanned, LeavesInv, Typed, RowsTyped
<1>3. ASSUME w.kind = "decide", NEW e \in Employees, NEW d \in Days, Writes_(w, e, d)
      PROVE  Row(w, e, d).how \in {"delete", "rebuild"} => Closes(w, e, d)
  <2>1. PICK l \in Leaves, to \in {"APPROVED", "CLOSED"} :
          /\ leave[l] # NoLeave /\ w.leave = Only(l, [leave[l] EXCEPT !.status = to])
          /\ w.rows = IF to = "APPROVED" THEN Derive(l) ELSE Clear(l)
    BY <1>3 DEF Proposed, Decides
  <2>2. leave[l] \in Leave
    BY <2>1 DEF LeavesInv, Typed, RowsTyped
  <2>3. CASE to = "APPROVED"
    <3>1. Row(w, e, d) = Save(NoRecord, Derived)
      BY <1>3, <2>1, <2>3 DEF Writes_, Row, Derive
    <3> QED
      BY <3>1, SaveIs
  <2>4. CASE to = "CLOSED"
    <3>1. e = leave[l].who /\ Covers(leave[l], d)
      BY <1>3, <2>1, <2>4 DEF Writes_, Clear, LeaveRows
    <3>2. w.leave[l] = [leave[l] EXCEPT !.status = "CLOSED"] /\ l \in DOMAIN w.leave
      BY <2>1, <2>4 DEF Only
    <3> QED
      BY <2>2, <3>1, <3>2 DEF Closes, Covers, Leave
  <2> QED
    BY <2>3, <2>4
<1>4. ASSUME NEW e \in Employees, NEW d \in Days, Writes_(w, e, d) PROVE LeaveRow(w, e, d)
  <2> DEFINE r == record[e][d]
             c == Row(w, e, d)
  <2>1. ASSUME NEW new, IsRecord(new), c = Save(r, new), WebLeave(new) => ~new.in /\ r # NoRecord,
               r # NoRecord => (new.source = "WEB" => r.source = "WEB" /\
                 (new.status = "LEAVE" => r.status = "LEAVE" /\ new.in = r.in))
        PROVE  LeaveRow(w, e, d)
    BY <2>1, SaveIs DEF LeaveRow, KeepsLeave, ReadBefore
  <2>2. ASSUME NEW new, IsRecord(new), c = Save(r, new), new.status = "PRESENT" \/ new.source # "WEB",
               Has(e, d) /\ new.source = "WEB" => r.source = "WEB"
        PROVE  LeaveRow(w, e, d)
    BY <2>1, <2>2 DEF WebLeave, Has
  <2>3. CASE Recomputed(w, e, d)
    <3> DEFINE new == Recompute(r, After_(w), e, d)
    <3>1. c = Save(r, new) /\ new # r
      BY <1>4, <2>3 DEF Recomputed
    <3>2. /\ IsRecord(new)
          /\ \/ new.source = "DEVICE"
             \/ IsRecord(r) /\ new.source = r.source /\ new.status = r.status /\ new.in = r.in
      BY <1>1, <3>1, RecomputeType
    <3> HIDE DEF new, c
    <3>3. CASE new.source = "DEVICE"
      BY <2>2, <3>1, <3>2, <3>3
    <3>4. CASE IsRecord(r) /\ new.source = r.source /\ new.status = r.status /\ new.in = r.in
      <4>1. WebLeave(new) => ~new.in
        BY <3>4, NotARecord DEF WebLeave, LeavesInv, LeaveBacked
      <4> QED
        BY <2>1, <3>1, <3>2, <3>4, <4>1, NotARecord
    <3> QED
      BY <3>2, <3>3, <3>4
  <2>4. CASE PunchedIn(w, e, d)
    <3> DEFINE x == IF Has(e, d) THEN r.exception ELSE "none"
               new == [status |-> "PRESENT", source |-> "WEB", in |-> TRUE, out |-> FALSE, count |-> 1,
                       exception |-> x]
    <3>1. c = Save(r, new) /\ (Has(e, d) => r.source = "WEB")
      BY <2>4 DEF PunchedIn, Saved
    <3>2. x \in Exceptions
      BY <1>1 DEF Has, IsRecord, Exceptions
    <3> HIDE DEF x
    <3>3. IsRecord(new) /\ new.status = "PRESENT"
      BY <3>2 DEF IsRecord, Statuses
    <3> HIDE DEF new, c
    <3> QED
      BY <2>2, <3>1, <3>3
  <2>5. CASE PunchedOut(w, e, d)
    <3> DEFINE new == [r EXCEPT !.out = TRUE, !.count = 2, !.status = "PRESENT"]
    <3>1. c = Save(r, new) /\ IsRecord(r) /\ r.source = "WEB"
      BY <1>1, <2>5 DEF PunchedOut, Saved, Has
    <3>2. IsRecord(new) /\ new.status = "PRESENT"
      BY <3>1, PunchedOutIsRecord
    <3> HIDE DEF new, c
    <3> QED
      BY <2>2, <3>1, <3>2
  <2>6. CASE Corrected(w, e, d)
    <3>1. PICK s \in Corrections : c = Save(r, Timed(IF Has(e, d) THEN r ELSE NoTimes, s))
      BY <2>6 DEF Corrected, Saved
    <3> DEFINE new == Timed(IF Has(e, d) THEN r ELSE NoTimes, s)
    <3>2. IsRecord(new) /\ new.source = "ADMIN"
      BY <1>1, TimedType DEF Has
    <3> HIDE DEF new
    <3>3. c = Save(r, new)
      BY <3>1 DEF new
    <3> HIDE DEF c
    <3> QED
      BY <2>2, <3>2, <3>3
  <2>7. CASE Rebuilt(w, e, d)
    <3>1. c.how = "rebuild"
      BY <2>7, ChangeIs DEF Rebuilt, Rebuild
    <3> QED
      BY <1>3, <1>4, <3>1 DEF LeaveRow
  <2>8. CASE Dropped(w, e, d)
    <3>1. c.how = "delete"
      BY <2>8, ChangeIs DEF Dropped
    <3> QED
      BY <1>3, <1>4, <3>1 DEF LeaveRow
  <2>9. CASE Granted(w, e, d)
    <3>1. c.how = "insert" /\ c.new = Derived /\ Grants(w, e, d)
      BY <2>9, SaveIs DEF Granted
    <3> QED
      BY <3>1, DerivedIsRecord DEF LeaveRow
  <2> QED
    BY <1>4, <2>3, <2>4, <2>5, <2>6, <2>7, <2>8, <2>9 DEF Proposed, ProposesRow, Untouched
<1>5. ASSUME NEW l \in DOMAIN w.leave, NEW e \in Employees, NEW d \in Days,
             Approved(l, e, d), WebLeave(record[e][d])
      PROVE  Writes_(w, e, d) /\ Row(w, e, d).how \in {"delete", "rebuild"} /\ Row(w, e, d).read # Gone
  <2>1. w.kind # "submit"
    <3> SUFFICES ASSUME w.kind = "submit" PROVE FALSE
      OBVIOUS
    <3>1. leave[l] = NoLeave
      BY <1>2 DEF LeavePlanned, Only
    <3> QED
      BY <1>5, <3>1 DEF Approved, NoLeave
  <2>2. w.kind = "decide"
    BY <2>1 DEF Proposed, Empty
  <2>3. PICK k \in Leaves, to \in {"APPROVED", "CLOSED"} :
          /\ leave[k] # NoLeave /\ to \in LeaveTransitions[leave[k].status]
          /\ w.leave = Only(k, [leave[k] EXCEPT !.status = to])
          /\ w.rows = IF to = "APPROVED" THEN Derive(k) ELSE Clear(k)
    BY <2>2 DEF Proposed, Decides
  <2>4. k = l
    BY <2>3 DEF Only
  <2>5. to = "CLOSED"
    BY <1>5, <2>3, <2>4 DEF Approved, LeaveTransitions
  <2>6. OnLeave(record[e][d]) /\ Has(e, d)
    BY <1>5 DEF LeavesInv, LeaveBacked, WebLeave, OnLeave, Has
  <2>7. <<e, d>> \in LeaveRows(l) /\ <<e, d>>[1] = e /\ <<e, d>>[2] = d
    BY <1>5, <2>6 DEF LeaveRows, Approved
  <2>8. Writes_(w, e, d) /\ Row(w, e, d) = IF record[e][d].exception = "PUNCH_ON_LEAVE" THEN Rebuild(e, d)
                                           ELSE Change("delete", record[e][d], NoRecord)
    BY <2>3, <2>4, <2>5, <2>7 DEF Writes_, Row, Clear
  <2>9. record[e][d] # Gone
    BY <1>1 DEF IsRecord, NoRecord, Gone, Statuses
  <2> QED
    BY <2>8, <2>9, ChangeIs DEF Rebuild
<1> QED
  BY <1>2, <1>4, <1>5 DEF LeaveRowsPlanned, Clears

\* A day a commit leaves as leave was leave before, or is a day it grants.
LEMMA AfterLeave ==
  ASSUME NEW c, NEW now, ChangeTyped(c, now), Possible(c, now), now = NoRecord \/ IsRecord(now),
         c.how = "update" => KeepsLeave(c) /\ ReadBefore(c, now),
         WebLeave(now) => ~now.in
  PROVE  /\ WebLeave(After(c, now)) =>
              \/ /\ WebLeave(now) /\ ~After(c, now).in
                 /\ c.how \in {"delete", "rebuild"} => c.read = Gone
              \/ c.how = "insert" /\ WebLeave(c.new) /\ After(c, now) = c.new
         /\ c.how \in {"delete", "rebuild"} => c.read = Gone \/ ~WebLeave(After(c, now))
         /\ now # NoRecord /\ (c.how \in {"delete", "rebuild"} => c.read = Gone) /\ After(c, now).source = "WEB" =>
              now.source = "WEB" /\ (After(c, now).status = "LEAVE" => now.status = "LEAVE")
<1>1. CASE c.how = "insert"
  <2>1. now = NoRecord /\ c.read # Gone
    BY <1>1 DEF Possible, ChangeTyped, NoRecord, Gone
  <2>2. After(c, now) = c.new
    BY <1>1, <2>1, AfterType
  <2> QED
    BY <1>1, <2>1, <2>2
<1>2. CASE c.how = "update"
  <2>1. IsRecord(c.new) /\ IsRecord(c.read) /\ IsRecord(now) /\ KeepsLeave(c) /\ ReadBefore(c, now)
    BY <1>2 DEF ChangeTyped, Possible
  <2> DEFINE u == After(c, now)
  <2>2. /\ u = Updated(now, c.read, c.new) /\ IsRecord(u)
        /\ u.status = IF c.new.status = c.read.status THEN now.status ELSE c.new.status
        /\ u.source = IF c.new.source = c.read.source THEN now.source ELSE c.new.source
        /\ u.in = IF c.new.in = c.read.in THEN now.in ELSE c.new.in
    <3>1. u = Updated(now, c.read, c.new)
      BY <1>2, AfterType
    <3> QED
      BY <2>1, <3>1, UpdatedIsRecord
  <2> HIDE DEF u
  <2>3. u.source = "WEB" => now.source = "WEB" /\ (u.status = "LEAVE" => now.status = "LEAVE" /\ u.in = now.in)
    BY <2>1, <2>2 DEF KeepsLeave, ReadBefore
  <2>4. WebLeave(u) => WebLeave(now) /\ ~u.in
    BY <2>1, <2>2, <2>3, NotARecord DEF WebLeave
  <2> QED
    BY <1>2, <2>3, <2>4 DEF u
<1>3. CASE c.how \in {"delete", "rebuild"}
  <2>1. CASE c.read = Gone
    <3>1. After(c, now) = now
      BY <1>3, <2>1, AfterType
    <3> QED
      BY <1>3, <2>1, <3>1
  <2>2. CASE c.read # Gone
    <3>1. After(c, now) = c.new
      BY <1>3, <2>2, AfterType
    <3>2. ~WebLeave(c.new)
      BY <1>3 DEF ChangeTyped, WebLeave
    <3> QED
      BY <1>3, <2>2, <3>1, <3>2
  <2> QED
    BY <2>1, <2>2
<1> QED
  BY <1>1, <1>2, <1>3 DEF ChangeTyped

\* What a commit does to the other requests under way.
LEMMA OthersAfter ==
  ASSUME Typed, NEW q \in Requests, Commit(q), NEW r \in Requests, Active(r)'
  PROVE  LET v == request[r]
             m == request'[r]
         IN /\ r # q /\ Active(r) /\ WriteTyped(v)
            /\ m.kind = v.kind /\ m.owner = v.owner /\ m.leave = v.leave /\ DOMAIN m.rows = DOMAIN v.rows
            /\ \A x \in DOMAIN v.rows :
                 /\ m.rows[x].how = v.rows[x].how /\ m.rows[x].new = v.rows[x].new
                 /\ m.rows[x].read = IF x \in Taken(request[q]) /\ v.rows[x].how # "insert" THEN Gone
                                     ELSE v.rows[x].read
<1>1. r # q /\ request'[r] = Missing(request[r], Taken(request[q]))
  BY CommitEffects DEF Active
<1>2. Active(r)
  BY <1>1 DEF Active, Missing
<1>3. WriteTyped(request[r])
  BY <1>2 DEF Typed, RequestsTyped
<1> QED
  BY <1>1, <1>2, <1>3, MissingType, ChangeIs

LEMMA LeavesCommit ==
  ASSUME LeavesInv, NEW q \in Requests, Commit(q)
  PROVE  LeavesInv'
<1> DEFINE w == request[q]
           taken == Taken(w)
<1>1. Typed /\ Typed'
  BY TypedStep DEF LeavesInv, Next
<1>2. /\ WriteTyped(w) /\ Active(q)
      /\ \A l \in Leaves : leave'[l] = IF l \in DOMAIN w.leave THEN w.leave[l] ELSE leave[l]
      /\ \A e \in Employees, d \in Days :
           /\ record'[e][d] = IF Writes_(w, e, d) THEN After(Row(w, e, d), record[e][d]) ELSE record[e][d]
           /\ Writes_(w, e, d) => Possible(Row(w, e, d), record[e][d])
  BY <1>1, CommitEffects
<1>3. LeavePlanned(w) /\ LeaveRowsPlanned(w) /\ Clears(w)
  BY <1>2 DEF LeavesInv
<1>4. \A e \in Employees, d \in Days : WebLeave(record[e][d]) => ~record[e][d].in
  BY DEF LeavesInv, LeaveBacked
<1>5. \A r \in Requests : Active(r)' =>
        /\ r # q /\ Active(r) /\ WriteTyped(request[r])
        /\ request'[r].kind = request[r].kind /\ request'[r].leave = request[r].leave
        /\ DOMAIN request'[r].rows = DOMAIN request[r].rows
        /\ \A x \in DOMAIN request[r].rows :
             /\ request'[r].rows[x].how = request[r].rows[x].how /\ request'[r].rows[x].new = request[r].rows[x].new
             /\ request'[r].rows[x].read =
                  IF x \in taken /\ request[r].rows[x].how # "insert" THEN Gone ELSE request[r].rows[x].read
  BY <1>1, OthersAfter
<1>6. \A r \in Requests : Active(r)' =>
        /\ ~(w.kind = "decide" /\ request[r].kind = "decide") /\ DOMAIN w.leave \cap DOMAIN request[r].leave = {}
        /\ LeavePlanned(request[r]) /\ LeaveRowsPlanned(request[r]) /\ Clears(request[r])
  BY <1>2, <1>5 DEF LeavesInv
<1> HIDE DEF w, taken
\* One row.
<1>7. ASSUME NEW e \in Employees, NEW d \in Days
      PROVE  /\ WebLeave(record'[e][d]) =>
                  \/ WebLeave(record[e][d]) /\ ~record'[e][d].in /\ <<e, d>> \notin taken
                  \/ ~record'[e][d].in /\ Grants(w, e, d) /\ Writes_(w, e, d) /\ Row(w, e, d).how = "insert"
             /\ record[e][d] # NoRecord /\ <<e, d>> \notin taken => ReadBefore([read |-> record[e][d]], record'[e][d])
  <2> DEFINE c == Row(w, e, d)
             now == record[e][d]
  <2>1. now = NoRecord \/ IsRecord(now)
    BY <1>1 DEF Typed, RowsTyped
  <2>2. CASE ~Writes_(w, e, d)
    <3>1. record'[e][d] = now /\ <<e, d>> \notin taken
      BY <1>2, <2>2 DEF taken, Taken, Writes_
    <3> QED
      BY <1>4, <3>1 DEF ReadBefore
  <2>3. CASE Writes_(w, e, d)
    <3>1. ChangeTyped(c, now) /\ Possible(c, now) /\ record'[e][d] = After(c, now) /\ LeaveRow(w, e, d)
      BY <1>2, <1>3, <2>3 DEF WriteTyped, LeaveRowsPlanned
    <3>2. <<e, d>> \in taken <=> c.how \in {"delete", "rebuild"} /\ c.read # Gone
      BY <2>3 DEF taken, Taken, Writes_, Row
    <3>3. /\ c.how = "update" => KeepsLeave(c) /\ ReadBefore(c, now)
          /\ c.how = "insert" /\ WebLeave(c.new) => ~c.new.in /\ Grants(w, e, d)
      BY <3>1 DEF LeaveRow, Possible
    <3>4. WebLeave(now) => ~now.in
      BY <1>4
    <3> HIDE DEF c, now
    <3>5. /\ WebLeave(After(c, now)) =>
              \/ /\ WebLeave(now) /\ ~After(c, now).in
                 /\ c.how \in {"delete", "rebuild"} => c.read = Gone
              \/ c.how = "insert" /\ WebLeave(c.new) /\ After(c, now) = c.new
          /\ now # NoRecord /\ (c.how \in {"delete", "rebuild"} => c.read = Gone) /\ After(c, now).source = "WEB" =>
              now.source = "WEB" /\ (After(c, now).status = "LEAVE" => now.status = "LEAVE")
      BY <2>1, <3>1, <3>3, <3>4, AfterLeave
    <3> QED
      BY <2>3, <3>1, <3>2, <3>3, <3>5 DEF ReadBefore, c, now
  <2> QED
    BY <2>2, <2>3
\* The leaves that stand, but the one w withdraws.
<1>8. ASSUME NEW l \in Leaves, l \notin DOMAIN w.leave, NEW e \in Employees, NEW d \in Days
      PROVE  Approved(l, e, d)' <=> Approved(l, e, d)
  BY <1>2, <1>8 DEF Approved, Covers
<1>9. LeaveBacked'
  <2> SUFFICES ASSUME NEW e \in Employees, NEW d \in Days, WebLeave(record'[e][d])
               PROVE  ~record'[e][d].in /\ \E l \in Leaves : Approved(l, e, d)'
    BY DEF LeaveBacked, WebLeave
  <2>1. CASE WebLeave(record[e][d]) /\ ~record'[e][d].in /\ <<e, d>> \notin taken
    <3>1. PICK l \in Leaves : Approved(l, e, d)
      BY <2>1 DEF LeavesInv, LeaveBacked
    <3>2. l \notin DOMAIN w.leave
      BY <1>3, <2>1, <3>1 DEF Clears, taken, Taken, Writes_, Row
    <3> QED
      BY <1>8, <2>1, <3>1, <3>2
  <2>2. CASE ~record'[e][d].in /\ Grants(w, e, d)
    <3>1. PICK l \in DOMAIN w.leave : w.leave[l].status = "APPROVED" /\ w.leave[l].who = e /\ Covers(w.leave[l], d)
      BY <2>2 DEF Grants
    <3>2. l \in Leaves /\ leave'[l] = w.leave[l]
      BY <1>2, <3>1 DEF WriteTyped
    <3> QED
      BY <2>2, <3>1, <3>2 DEF Approved, Covers
  <2> QED
    BY <1>7, <2>1, <2>2
<1>10. ASSUME NEW r \in Requests, Active(r)' PROVE LeavePlanned(request[r])'
  <2>1. LeavePlanned(request[r]) /\ request'[r].kind = request[r].kind /\ request'[r].leave = request[r].leave
    BY <1>5, <1>6, <1>10
  <2>2. \A l \in Leaves : l \in DOMAIN request[r].leave => leave'[l] = leave[l]
    BY <1>2, <1>6, <1>10
  <2>3. ASSUME request[r].kind = "submit"
        PROVE  \E l \in Leaves, new \in Leave :
                 request[r].leave = Only(l, new) /\ new.status = "PENDING" /\ leave'[l] = NoLeave
    <3>1. PICK l \in Leaves, new \in Leave :
            request[r].leave = Only(l, new) /\ new.status = "PENDING" /\ leave[l] = NoLeave
      BY <2>1, <2>3 DEF LeavePlanned
    <3>2. l \in DOMAIN request[r].leave
      BY <3>1 DEF Only
    <3> QED
      BY <2>2, <3>1, <3>2
  <2>4. ASSUME request[r].kind = "decide"
        PROVE  \E l \in Leaves, to \in {"APPROVED", "CLOSED"} :
                 /\ leave'[l] \in Leave /\ to \in LeaveTransitions[leave'[l].status]
                 /\ request[r].leave = Only(l, [leave'[l] EXCEPT !.status = to])
    <3>1. PICK l \in Leaves, to \in {"APPROVED", "CLOSED"} :
            /\ leave[l] \in Leave /\ to \in LeaveTransitions[leave[l].status]
            /\ request[r].leave = Only(l, [leave[l] EXCEPT !.status = to])
      BY <2>1, <2>4 DEF LeavePlanned
    <3>2. l \in DOMAIN request[r].leave
      BY <3>1 DEF Only
    <3>3. leave'[l] = leave[l]
      BY <2>2, <3>2
    <3> QED
      BY <3>1, <3>3
  <2> QED
    BY <2>1, <2>3, <2>4 DEF LeavePlanned
<1>11. ASSUME NEW r \in Requests, Active(r)' PROVE LeaveRowsPlanned(request[r])'
  <2> DEFINE v == request[r]
             m == request'[r]
  <2>1. /\ WriteTyped(v) /\ LeaveRowsPlanned(v) /\ m.kind = v.kind /\ m.leave = v.leave /\ DOMAIN m.rows = DOMAIN v.rows
        /\ \A x \in DOMAIN v.rows :
             /\ m.rows[x].how = v.rows[x].how /\ m.rows[x].new = v.rows[x].new
             /\ m.rows[x].read = IF x \in taken /\ v.rows[x].how # "insert" THEN Gone ELSE v.rows[x].read
    BY <1>5, <1>6, <1>11
  <2> HIDE DEF v, m
  <2>2. ASSUME NEW e \in Employees, NEW d \in Days, Writes_(m, e, d)
        PROVE  LET c == Row(m, e, d) IN
               /\ c.how = "insert" /\ WebLeave(c.new) => ~c.new.in /\ Grants(m, e, d)
               /\ c.how = "update" /\ c.read # Gone => KeepsLeave(c) /\ ReadBefore(c, record'[e][d])
               /\ c.how \in {"delete", "rebuild"} /\ m.kind = "decide" => Closes(m, e, d)
    <3> DEFINE x == <<e, d>>
               b == Row(v, e, d)
               c == Row(m, e, d)
    <3>1. Writes_(v, e, d) /\ x \in DOMAIN v.rows
      BY <2>1, <2>2 DEF Writes_
    <3>2. ChangeTyped(b, record[e][d]) /\ LeaveRow(v, e, d)
      BY <2>1, <3>1 DEF WriteTyped, LeaveRowsPlanned
    <3>3. c.how = b.how /\ c.new = b.new /\ c.read = IF x \in taken /\ b.how # "insert" THEN Gone ELSE b.read
      BY <2>1, <3>1 DEF Row
    <3>4. (Grants(m, e, d) <=> Grants(v, e, d)) /\ (Closes(m, e, d) <=> Closes(v, e, d))
      BY <2>1 DEF Grants, Closes
    <3>5. ASSUME c.how = "update", c.read # Gone PROVE KeepsLeave(c) /\ ReadBefore(c, record'[e][d])
      <4>1. x \notin taken /\ c.read = b.read /\ b.read # Gone
        BY <3>3, <3>5
      <4>2. KeepsLeave(b) /\ ReadBefore(b, record[e][d]) /\ record[e][d] # NoRecord
        BY <3>2, <3>3, <3>5, <4>1 DEF LeaveRow, ChangeTyped
      <4>3. ReadBefore([read |-> record[e][d]], record'[e][d])
        BY <1>7, <4>1, <4>2
      <4> HIDE DEF b, c
      <4> QED
        BY <3>3, <4>1, <4>2, <4>3 DEF KeepsLeave, ReadBefore
    <3> QED
      BY <2>1, <3>2, <3>3, <3>4, <3>5 DEF LeaveRow
  <2> QED
    BY <2>2 DEF LeaveRowsPlanned, LeaveRow, m, Writes_, Row, Grants, Closes, Covers, WebLeave
<1>12. ASSUME NEW r \in Requests, Active(r)' PROVE Clears(request[r])'
  <2> DEFINE v == request[r]
             m == request'[r]
  <2>1. /\ WriteTyped(v) /\ Clears(v) /\ m.leave = v.leave /\ DOMAIN m.rows = DOMAIN v.rows /\ LeavePlanned(v)
        /\ ~(w.kind = "decide" /\ v.kind = "decide") /\ DOMAIN w.leave \cap DOMAIN v.leave = {}
        /\ \A x \in DOMAIN v.rows :
             /\ m.rows[x].how = v.rows[x].how
             /\ m.rows[x].read = IF x \in taken /\ v.rows[x].how # "insert" THEN Gone ELSE v.rows[x].read
    BY <1>5, <1>6, <1>12
  <2> HIDE DEF v, m
  <2>2. ASSUME NEW l \in DOMAIN m.leave, NEW e \in Employees, NEW d \in Days,
               Approved(l, e, d)', WebLeave(record'[e][d])
        PROVE  <<e, d>> \in DOMAIN m.rows /\ m.rows[<<e, d>>].how \in {"delete", "rebuild"}
               /\ m.rows[<<e, d>>].read # Gone
    <3>1. l \in Leaves /\ l \in DOMAIN v.leave /\ l \notin DOMAIN w.leave
      BY <2>1, <2>2 DEF WriteTyped
    <3>2. Approved(l, e, d)
      BY <1>8, <2>2, <3>1
    <3>3. v.kind = "decide"
      <4>1. CASE v.kind = "submit"
        <5>1. PICK k \in Leaves, new \in Leave : v.leave = Only(k, new) /\ leave[k] = NoLeave
          BY <2>1, <4>1 DEF LeavePlanned
        <5>2. k = l
          BY <3>1, <5>1 DEF Only
        <5> QED
          BY <3>2, <5>1, <5>2 DEF Approved, NoLeave
      <4>2. CASE v.kind \notin {"submit", "decide"}
        BY <2>1, <3>1, <4>2 DEF WriteTyped, Empty
      <4> QED
        BY <4>1, <4>2
    <3>4. ~Grants(w, e, d)
      <4>1. w.kind # "decide"
        BY <2>1, <3>3
      <4>2. CASE w.kind = "submit"
        BY <1>3, <4>2 DEF LeavePlanned, Only, Grants
      <4>3. CASE w.kind # "submit"
        BY <1>2, <4>1, <4>3 DEF WriteTyped, Empty, Grants
      <4> QED
        BY <4>2, <4>3
    <3>5. WebLeave(record[e][d]) /\ <<e, d>> \notin taken
      BY <1>7, <2>2, <3>4
    <3>6. <<e, d>> \in DOMAIN v.rows /\ v.rows[<<e, d>>].how \in {"delete", "rebuild"} /\ v.rows[<<e, d>>].read # Gone
      BY <2>1, <3>1, <3>2, <3>5 DEF Clears, Writes_, Row
    <3> QED
      BY <2>1, <3>5, <3>6
  <2> QED
    BY <2>2 DEF Clears, m, Writes_, Row, Approved, Covers, WebLeave
<1>13. ASSUME NEW r \in Requests, NEW s \in Requests, Active(r)', Active(s)', r # s
       PROVE  /\ ~(request'[r].kind = "decide" /\ request'[s].kind = "decide")
              /\ DOMAIN request'[r].leave \cap DOMAIN request'[s].leave = {}
  BY <1>5, <1>13 DEF LeavesInv
<1> QED
  BY <1>1, <1>9, <1>10, <1>11, <1>12, <1>13 DEF LeavesInv

\* The steps that write no table but the day: requests wait, and no leave day is made.
LEMMA LeavesStay ==
  ASSUME LeavesInv, Typed', leave' = leave,
         \A q \in Requests : request'[q] = Idle \/ request'[q] = request[q],
         \A e \in Employees, d \in Days :
           \/ record'[e][d] = record[e][d]
           \/ /\ record[e][d] # NoRecord /\ record'[e][d].source = record[e][d].source
              /\ record'[e][d].status # "LEAVE"
  PROVE  LeavesInv'
<1>1. \A q \in Requests : Active(q)' => Active(q) /\ request'[q] = request[q]
  BY DEF Active
<1>2. \A e \in Employees, d \in Days : WebLeave(record'[e][d]) => record'[e][d] = record[e][d]
  BY DEF WebLeave
<1>3. LeaveBacked'
  BY <1>2 DEF LeavesInv, LeaveBacked, WebLeave, Approved, Covers
<1>4. ASSUME NEW q \in Requests, Active(q)' PROVE LeavePlanned(request[q])' /\ LeaveRowsPlanned(request[q])' /\ Clears(request[q])'
  <2> DEFINE w == request[q]
  <2>1. request'[q] = w /\ LeavePlanned(w) /\ LeaveRowsPlanned(w) /\ Clears(w) /\ WriteTyped(w)
    BY <1>1, <1>4 DEF LeavesInv, Typed, RequestsTyped
  <2> HIDE DEF w
  <2>2. LeavePlanned(request[q])'
    BY <2>1 DEF LeavePlanned
  <2>3. ASSUME NEW e \in Employees, NEW d \in Days, Writes_(w, e, d)
        PROVE  LET c == Row(w, e, d) IN
               /\ c.how = "insert" /\ WebLeave(c.new) => ~c.new.in /\ Grants(w, e, d)
               /\ c.how = "update" /\ c.read # Gone => KeepsLeave(c) /\ ReadBefore(c, record'[e][d])
               /\ c.how \in {"delete", "rebuild"} /\ w.kind = "decide" => Closes(w, e, d)
    BY <2>1, <2>3 DEF LeaveRowsPlanned, LeaveRow, ReadBefore
  <2>4. LeaveRowsPlanned(request[q])'
    BY <2>1, <2>3 DEF LeaveRowsPlanned, LeaveRow, Writes_, Row, Grants, Closes, Covers, WebLeave
  <2>5. Clears(request[q])'
    BY <1>2, <2>1 DEF Clears, Writes_, Row, Approved, Covers, WebLeave
  <2> QED
    BY <2>2, <2>4, <2>5
<1> QED
  BY <1>1, <1>3, <1>4 DEF LeavesInv

LEMMA LeavesBegin ==
  ASSUME OneDecision, LeavesInv, NEW q \in Requests, NEW w, Begin(q, w), Proposed(w)
  PROVE  LeavesInv'
<1>1. /\ Typed' /\ UNCHANGED <<today, record, owner, pin, leave>> /\ ~Active(q) /\ Admitted(w.kind)
      /\ request'[q] = w /\ \A r \in Requests \ {q} : request'[r] = request[r]
  BY BeginTyped DEF LeavesInv, Begin, tables
<1>2. \A r \in Requests : Active(r)' => r = q \/ (Active(r) /\ request'[r] = request[r])
  BY <1>1 DEF Active
<1>3. LeaveBacked'
  BY <1>1 DEF LeavesInv, LeaveBacked, Approved, Covers
<1>4. LeavePlanned(w) /\ LeaveRowsPlanned(w) /\ Clears(w)
  BY ProposedLeave
<1>5. ASSUME NEW r \in Requests, Active(r)' PROVE LeavePlanned(request[r])' /\ LeaveRowsPlanned(request[r])' /\ Clears(request[r])'
  <2>1. LeavePlanned(request'[r]) /\ LeaveRowsPlanned(request'[r]) /\ Clears(request'[r])
    BY <1>1, <1>2, <1>4, <1>5 DEF LeavesInv
  <2>2. LeavePlanned(request[r])'
    BY <1>1, <2>1 DEF LeavePlanned
  <2>3. LeaveRowsPlanned(request[r])'
    BY <1>1, <2>1 DEF LeaveRowsPlanned, LeaveRow, Writes_, Row, Grants, Closes, Covers, WebLeave, ReadBefore
  <2>4. Clears(request[r])'
    BY <1>1, <2>1 DEF Clears, Writes_, Row, Approved, Covers, WebLeave
  <2> QED
    BY <2>2, <2>3, <2>4
<1>6. ASSUME NEW r \in Requests, Active(r), r # q
      PROVE  /\ ~(w.kind = "decide" /\ request[r].kind = "decide")
             /\ DOMAIN w.leave \cap DOMAIN request[r].leave = {}
  <2>1. ~(w.kind = "decide" /\ request[r].kind = "decide")
    BY <1>1, <1>6 DEF Admitted, OneDecision
  <2>2. WriteTyped(request[r]) /\ LeavePlanned(request[r])
    BY <1>6 DEF LeavesInv, Typed, RequestsTyped
  <2>3. CASE w.kind \notin {"submit", "decide"}
    BY <2>3 DEF Proposed, Empty
  <2>4. CASE w.kind = "submit"
    BY <1>6, <2>4 DEF Proposed, Submits, Only
  <2>5. CASE w.kind = "decide"
    <3>1. CASE request[r].kind = "submit"
      <4>1. PICK l \in Leaves, new \in Leave : request[r].leave = Only(l, new) /\ leave[l] = NoLeave
        BY <2>2, <3>1 DEF LeavePlanned
      <4>2. PICK k \in Leaves, to \in {"APPROVED", "CLOSED"} :
              leave[k] # NoLeave /\ w.leave = Only(k, [leave[k] EXCEPT !.status = to])
        BY <2>5 DEF Proposed, Decides
      <4>3. DOMAIN request[r].leave = {l} /\ DOMAIN w.leave = {k} /\ k # l
        BY <4>1, <4>2 DEF Only
      <4> QED
        BY <2>1, <4>3
    <3>2. CASE request[r].kind \notin {"submit", "decide"}
      BY <2>2, <3>2 DEF WriteTyped, Empty
    <3> QED
      BY <2>1, <2>5, <3>1, <3>2
  <2> QED
    BY <2>1, <2>3, <2>4, <2>5
<1>7. ASSUME NEW r \in Requests, NEW s \in Requests, Active(r)', Active(s)', r # s
      PROVE  /\ ~(request'[r].kind = "decide" /\ request'[s].kind = "decide")
             /\ DOMAIN request'[r].leave \cap DOMAIN request'[s].leave = {}
  <2>1. CASE r = q
    BY <1>1, <1>2, <1>6, <1>7, <2>1
  <2>2. CASE s = q
    BY <1>1, <1>2, <1>6, <1>7, <2>2
  <2>3. CASE r # q /\ s # q
    BY <1>2, <1>7, <2>3 DEF LeavesInv
  <2> QED
    BY <2>1, <2>2, <2>3
<1> QED
  BY <1>1, <1>3, <1>5, <1>7 DEF LeavesInv

LEMMA LeavesStep ==
  ASSUME OneDecision, LeavesInv, [Next]_vars
  PROVE  LeavesInv'
<1>1. Typed /\ Typed'
  BY TypedStep DEF LeavesInv
<1>2. CASE UNCHANGED vars
  BY <1>1, <1>2, LeavesStay DEF vars
<1>3. CASE Midnight
  BY <1>1, <1>3, LeavesStay DEF Midnight
<1>4. CASE Sweep
  <2>1. leave' = leave /\ request' = request
    BY <1>4 DEF Sweep
  <2>2. \A e \in Employees, d \in Days :
           \/ record'[e][d] = record[e][d]
           \/ /\ record[e][d] # NoRecord /\ record'[e][d].source = record[e][d].source
              /\ record'[e][d].status # "LEAVE"
    BY <1>1, <1>4, SweepRow, NotARecord DEF Typed
  <2> QED
    BY <1>1, <2>1, <2>2, LeavesStay
<1>5. ASSUME NEW q \in Requests, Abort(q) PROVE LeavesInv'
  <2>1. /\ UNCHANGED <<today, record, owner, pin, leave>>
        /\ \A r \in Requests : request'[r] = Idle \/ request'[r] = request[r]
    BY <1>1, <1>5 DEF Abort, tables, Typed, RequestsTyped
  <2> QED
    BY <1>1, <2>1, LeavesStay
<1>6. ASSUME NEW q \in Requests, NEW w, Begin(q, w), Proposed(w) PROVE LeavesInv'
  BY <1>6, LeavesBegin
<1> QED
  BY <1>1, <1>2, <1>3, <1>4, <1>5, <1>6, LeavesCommit, NextCases DEF Typed

LEMMA LeavesInit == Init => LeavesInv
<1> SUFFICES ASSUME Init PROVE LeavesInv
  OBVIOUS
<1>1. LeaveBacked
  BY DEF Init, LeaveBacked, WebLeave
<1>2. \A q \in Requests : ~Active(q)
  BY DEF Init, Active
<1> QED
  BY <1>1, <1>2, TypedInit DEF LeavesInv

\* A day the roster shows as leave, and the desk has not entered by hand, belongs to
\* a leave that stands: a withdrawn leave leaves no day behind, whatever pushes,
\* web punches, corrections, deletions and submissions overlap with it, if no two
\* decisions overlap (_clear_derived_leave_attendance, decide_leave, day_roster).
THEOREM LeaveDaysStand == ASSUME OneDecision PROVE Spec => []LeaveDaysBacked
<1>1. LeavesInv => LeaveDaysBacked
  <2> SUFFICES ASSUME LeavesInv, NEW e \in Employees, NEW d \in Days,
                      Roster(e, d) = "LEAVE", Has(e, d) => record[e][d].source = "WEB"
               PROVE  \E l \in Leaves : Approved(l, e, d)
    BY DEF LeaveDaysBacked, Approved
  <2>1. CASE Has(e, d)
    BY <2>1 DEF LeavesInv, LeaveBacked, WebLeave, Roster, Has
  <2>2. CASE ~Has(e, d)
    BY <2>2 DEF Roster, Approved
  <2> QED
    BY <2>1, <2>2
<1> QED
  BY <1>1, LeavesInit, LeavesStep, PTL DEF Spec

-----------------------------------------------------------------------------
(* Open leaves, and the days a decision takes.                             *)

\* The open leaves of an employee share no day, those being submitted included.
MeetsNone(new) == \A x \in Leaves : leave[x].status \in OpenLeave => ~Meet(new, leave[x])
LeavesApart ==
  /\ \A l, x \in Leaves : leave[l].status \in OpenLeave /\ leave[x].status \in OpenLeave /\ l # x =>
       ~Meet(leave[l], leave[x])
  /\ \A q \in Requests : Active(q) /\ request[q].kind = "submit" =>
       \A l \in DOMAIN request[q].leave : MeetsNone(request[q].leave[l])
  /\ \A q, r \in Requests :
       Active(q) /\ Active(r) /\ request[q].kind = "submit" /\ request[r].kind = "submit" => q = r

LEMMA ApartStep ==
  ASSUME OneSubmission, LeavesInv, LeavesApart, [Next]_vars
  PROVE  LeavesApart'
<1>1. Typed
  BY DEF LeavesInv
<1>2. ASSUME leave' = leave, \A q \in Requests : Active(q)' => request'[q] = request[q] /\ Active(q)
      PROVE  LeavesApart'
  BY <1>2 DEF LeavesApart, MeetsNone
<1>3. CASE UNCHANGED vars \/ Midnight \/ Sweep
  BY <1>2, <1>3 DEF vars, Midnight, Sweep, Active
<1>4. ASSUME NEW q \in Requests, Abort(q) PROVE LeavesApart'
  <2>1. leave' = leave /\ \A r \in Requests : request'[r] = Idle \/ request'[r] = request[r]
    BY <1>1, <1>4 DEF Abort, tables, Typed, RequestsTyped
  <2> QED
    BY <1>2, <2>1 DEF Active
<1>5. ASSUME NEW q \in Requests, NEW w, Begin(q, w), Proposed(w) PROVE LeavesApart'
  <2>1. /\ leave' = leave /\ ~Active(q) /\ Admitted(w.kind)
        /\ request'[q] = w /\ \A r \in Requests \ {q} : request'[r] = request[r]
    BY <1>1, <1>5, BeginTyped DEF Begin, tables
  <2>2. \A r \in Requests : Active(r)' => r = q \/ (Active(r) /\ request'[r] = request[r])
    BY <2>1 DEF Active
  <2>3. w.kind = "submit" => \A l \in DOMAIN w.leave : MeetsNone(w.leave[l])
    BY <1>5 DEF Proposed, Submits, Only, MeetsNone
  <2>4. w.kind = "submit" => \A r \in Requests : Active(r) => request[r].kind # "submit"
    BY <2>1 DEF Admitted, OneSubmission
  <2>5. ASSUME NEW r \in Requests, Active(r)', request'[r].kind = "submit"
        PROVE  \A l \in DOMAIN request'[r].leave : MeetsNone(request'[r].leave[l])
    BY <2>1, <2>2, <2>3, <2>5 DEF LeavesApart
  <2> QED
    BY <2>1, <2>2, <2>4, <2>5 DEF LeavesApart, MeetsNone
<1>6. ASSUME NEW q \in Requests, Commit(q) PROVE LeavesApart'
  <2> DEFINE w == request[q]
  <2>1. /\ WriteTyped(w) /\ Active(q)
        /\ \A l \in Leaves : leave'[l] = IF l \in DOMAIN w.leave THEN w.leave[l] ELSE leave[l]
    BY <1>1, <1>6, CommitEffects
  <2>2. LeavePlanned(w)
    BY <2>1 DEF LeavesInv
  <2>3. \A r \in Requests : Active(r)' =>
          r # q /\ Active(r) /\ request'[r].kind = request[r].kind /\ request'[r].leave = request[r].leave
    BY <1>1, <1>6, OthersAfter
  <2>4. w.kind = "submit" => \A l \in DOMAIN w.leave : MeetsNone(w.leave[l])
    BY <2>1 DEF LeavesApart
  <2>5. \A r \in Requests : Active(r)' /\ request'[r].kind = "submit" => w.kind # "submit"
    BY <2>1, <2>3 DEF LeavesApart
  <2> HIDE DEF w
  \* A leave that is open afterwards was open before, on the same days, or is new.
  <2>6. ASSUME NEW l \in Leaves, leave'[l].status \in OpenLeave
        PROVE  \/ /\ leave[l].status \in OpenLeave
                  /\ leave'[l].who = leave[l].who /\ leave'[l].first = leave[l].first /\ leave'[l].last = leave[l].last
               \/ w.kind = "submit" /\ l \in DOMAIN w.leave /\ leave'[l] = w.leave[l] /\ DOMAIN w.leave = {l}
    <3>1. CASE l \notin DOMAIN w.leave
      BY <2>1, <2>6, <3>1
    <3>2. CASE l \in DOMAIN w.leave /\ w.kind = "submit"
      <4>1. PICK k \in Leaves, new \in Leave : w.leave = Only(k, new)
        BY <2>2, <3>2 DEF LeavePlanned
      <4> QED
        BY <2>1, <3>2, <4>1 DEF Only
    <3>3. CASE l \in DOMAIN w.leave /\ w.kind = "decide"
      <4>1. PICK k \in Leaves, to \in {"APPROVED", "CLOSED"} :
              /\ leave[k] \in Leave /\ to \in LeaveTransitions[leave[k].status]
              /\ w.leave = Only(k, [leave[k] EXCEPT !.status = to])
        BY <2>2, <3>3 DEF LeavePlanned
      <4>2. k = l /\ leave'[l] = [leave[l] EXCEPT !.status = to]
        BY <2>1, <3>3, <4>1 DEF Only
      <4>3. leave[l].status \in OpenLeave
        BY <4>1, <4>2 DEF Leave, LeaveTransitions, OpenLeave
      <4> QED
        BY <4>1, <4>2, <4>3 DEF Leave
    <3>4. CASE w.kind \notin {"submit", "decide"}
      BY <2>1, <3>1, <3>4 DEF WriteTyped, Empty
    <3> QED
      BY <3>1, <3>2, <3>3, <3>4
  <2>7. ASSUME NEW l \in Leaves, NEW x \in Leaves, l # x,
               leave'[l].status \in OpenLeave, leave'[x].status \in OpenLeave
        PROVE  ~Meet(leave'[l], leave'[x])
    <3>1. CASE w.kind = "submit" /\ DOMAIN w.leave = {l} /\ leave'[l] = w.leave[l]
      <4>1. leave'[x] = leave[x]
        BY <2>1, <2>7, <3>1
      <4> QED
        BY <2>4, <2>7, <3>1, <4>1 DEF MeetsNone
    <3>2. CASE w.kind = "submit" /\ DOMAIN w.leave = {x} /\ leave'[x] = w.leave[x]
      <4>1. leave'[l] = leave[l]
        BY <2>1, <2>7, <3>2
      <4> QED
        BY <2>4, <2>7, <3>2, <4>1 DEF MeetsNone, Meet
    <3>3. CASE /\ leave[l].status \in OpenLeave /\ leave[x].status \in OpenLeave
               /\ leave'[l].who = leave[l].who /\ leave'[l].first = leave[l].first /\ leave'[l].last = leave[l].last
               /\ leave'[x].who = leave[x].who /\ leave'[x].first = leave[x].first /\ leave'[x].last = leave[x].last
      BY <2>7, <3>3 DEF LeavesApart, Meet
    <3> QED
      BY <2>6, <2>7, <3>1, <3>2, <3>3
  <2>8. ASSUME NEW r \in Requests, Active(r)', request'[r].kind = "submit", NEW l \in DOMAIN request'[r].leave
        PROVE  MeetsNone(request[r].leave[l])'
    <3>1. w.kind # "submit" /\ MeetsNone(request[r].leave[l]) /\ request'[r].leave[l] = request[r].leave[l]
      BY <2>3, <2>5, <2>8 DEF LeavesApart
    <3> QED
      BY <2>6, <3>1 DEF MeetsNone, Meet
  <2> QED
    BY <2>3, <2>7, <2>8 DEF LeavesApart
<1> QED
  BY <1>1, <1>3, <1>4, <1>5, <1>6, NextCases DEF Typed

LEMMA DecisionTakesItsOwn ==
  ASSUME LeavesInv, LeavesApart, [Next]_vars, leave' # leave,
         NEW e \in Employees, NEW d \in Days, Has(e, d), record'[e][d] = NoRecord,
         NEW l \in Leaves, leave'[l].status = "APPROVED" /\ leave'[l].who = e
  PROVE  ~Covers(leave'[l], d)
<1>1. Typed
  BY DEF LeavesInv
<1>2. PICK q \in Requests : Commit(q)
  BY <1>1, NextCases DEF Typed, vars, Midnight, Sweep, Abort, Begin, tables
<1> DEFINE w == request[q]
           c == Row(w, e, d)
<1>3. /\ WriteTyped(w) /\ LeavePlanned(w) /\ LeaveRowsPlanned(w)
      /\ record'[e][d] = IF Writes_(w, e, d) THEN After(c, record[e][d]) ELSE record[e][d]
      /\ Writes_(w, e, d) => Possible(c, record[e][d])
      /\ \A x \in Leaves : leave'[x] = IF x \in DOMAIN w.leave THEN w.leave[x] ELSE leave[x]
      /\ leave' \in [Leaves -> Leave \cup {NoLeave}]
  BY <1>1, <1>2, CommitEffects DEF LeavesInv
<1>4. Writes_(w, e, d) /\ c.how \in {"delete", "rebuild"}
  <2>1. Writes_(w, e, d)
    BY <1>3 DEF Has
  <2>2. ChangeTyped(c, record[e][d]) /\ (record[e][d] = NoRecord \/ IsRecord(record[e][d]))
    BY <1>1, <1>3, <2>1 DEF WriteTyped, Typed, RowsTyped
  <2> HIDE DEF c
  <2> QED
    BY <1>3, <2>1, <2>2, AfterType DEF Has
<1>5. leave \in [Leaves -> Leave \cup {NoLeave}]
  BY <1>1 DEF Typed, RowsTyped
<1>6. w.kind = "decide"
  <2>1. w.kind # "submit"
    BY <1>3, <1>4 DEF WriteTyped, Writes_, Empty
  <2>2. w.leave # Empty
    <3> SUFFICES ASSUME w.leave = Empty PROVE FALSE
      OBVIOUS
    <3>1. \A x \in Leaves : leave'[x] = leave[x]
      BY <1>3 DEF Empty
    <3> QED
      BY <1>3, <1>5, <3>1
  <2> QED
    BY <1>3, <2>1, <2>2 DEF WriteTyped
<1>7. PICK k \in DOMAIN w.leave : w.leave[k].status = "CLOSED" /\ w.leave[k].who = e /\ Covers(w.leave[k], d)
  BY <1>3, <1>4, <1>6 DEF LeaveRowsPlanned, LeaveRow, Closes
<1> HIDE DEF w, c
<1>8. PICK x \in Leaves, to \in {"APPROVED", "CLOSED"} :
        /\ leave[x] \in Leave /\ to \in LeaveTransitions[leave[x].status]
        /\ w.leave = Only(x, [leave[x] EXCEPT !.status = to])
  BY <1>3, <1>6 DEF LeavePlanned
<1>9. k = x /\ w.leave[k] = [leave[k] EXCEPT !.status = to] /\ DOMAIN w.leave = {k}
  BY <1>7, <1>8 DEF Only
<1>10. leave[k].status \in OpenLeave /\ leave[k].who = e /\ Covers(leave[k], d) /\ k \in Leaves
  BY <1>7, <1>8, <1>9 DEF Leave, LeaveTransitions, OpenLeave, Covers
<1>11. l # k /\ leave'[l] = leave[l]
  BY <1>3, <1>7, <1>9
<1>12. ~Meet(leave[l], leave[k])
  BY <1>10, <1>11 DEF LeavesApart, OpenLeave
<1>13. leave[l] \in Leave /\ leave[k] \in Leave
  BY <1>5, <1>8, <1>9, <1>11 DEF NoLeave
<1> QED
  <2>1. /\ leave[l].first \in Nat /\ leave[l].last \in Nat /\ leave[k].first \in Nat /\ leave[k].last \in Nat
        /\ d \in Nat
    BY <1>13, DayAssumption DEF Leave, Days
  <2> QED
    BY <1>10, <1>11, <1>12, <2>1 DEF Meet, Covers

\* Withdrawing or refusing a leave takes no day of another leave that stands,
\* whatever else overlaps with the decision, if no two decisions overlap and no two
\* submissions (create_leave reads the open leaves and inserts its own).
THEOREM StandingLeaveUntouched == ASSUME OneDecision, OneSubmission PROVE Spec => StandingLeaveKept
<1>1. Init => LeavesInv /\ LeavesApart
  <2>1. Init => LeavesApart
    BY DEF Init, LeavesApart, Active, OpenLeave, NoLeave
  <2> QED
    BY <2>1, LeavesInit
<1>2. LeavesInv /\ LeavesApart /\ [Next]_vars => (LeavesInv /\ LeavesApart)'
  BY LeavesStep, ApartStep
<1>3. LeavesInv /\ LeavesApart /\ [Next]_vars =>
        [leave' # leave =>
           \A e \in Employees, d \in Days :
             Has(e, d) /\ record'[e][d] = NoRecord =>
               \A l \in Leaves : leave'[l].status = "APPROVED" /\ leave'[l].who = e => ~Covers(leave'[l], d)]_vars
  BY DecisionTakesItsOwn
<1> QED
  BY <1>1, <1>2, <1>3, PTL DEF Spec, StandingLeaveKept

=============================================================================
