\* Returns: forms one at a time, desk requests overlapping on two returns.
\* Fulfilment and the warehouse: two overlapping requests.
SPECIFICATION AftersaleSpec
CONSTANTS
  l1 = l1
  l2 = l2
  x1 = x1
  x2 = x2
  r1 = r1
  r2 = r2
  d1 = d1
  d2 = d2
  p1 = p1
  w1 = w1
  Lines = {l1, l2}
  Bought <- TwoAndOne
  Forms <- PlainForms
  Returns = {x1, x2}
  Reqs = {r1, r2}
  Creators = {r1}
  Desks = {d1, d2}
  ForceTargets = {"DELIVERED"}
  MaxForced = 1
  MaxHistory = 11
  Products = {p1}
  Codes = {w1}
  Openings = {0, 1}
  Deltas <- OneOutTwoIn
  MaxRows = 1
  MaxMovements = 4
SYMMETRY Symmetry
CHECK_DEADLOCK FALSE
INVARIANTS UnitsAccounted RefundedWasInspected TrackingExplains LedgerExplainsStock
