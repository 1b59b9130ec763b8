SPECIFICATION Spec
CONSTANTS
  e1 = e1
  p1 = p1
  m1 = m1
  q1 = q1
  q2 = q2
  l1 = l1
  l2 = l2
  Employees = {e1}
  Pins = {p1}
  Machines = {m1}
  LastDay = 2
  DayEnd = 3
  Ticks <- Clock
  Window = 2
  MaxBackfill = 1
  Leaves = {l1, l2}
  Requests = {q1, q2}
  Overlaps <- Meetings
  Corrections <- Times
  MaxBatch = 1
SYMMETRY Symmetry
CHECK_DEADLOCK FALSE
INVARIANTS MachineDaysKept LeaveDaysBacked
PROPERTIES StandingLeaveKept
