\* Two sessions, two requests in flight, every refund and capture amount.
SPECIFICATION Spec
CONSTANTS
  s1 = s1
  s2 = s2
  r1 = r1
  r2 = r2
  Sessions = {s1, s2}
  Reqs = {r1, r2}
  Amount = 2
  CapturedAmounts = {1, 2}
  Keys = {}
  NoKey = NoKey
  NoSession = NoSession
  StageTargets = {}
  ForceTargets = {"CANCELLED"}
  MaxCancels = 1
SYMMETRY Symmetry
CHECK_DEADLOCK FALSE
INVARIANTS SettledIsCaptured RefundsAreReal PaidIsConfirmed
PROPERTIES PaymentNeverRegresses PromiseKept
