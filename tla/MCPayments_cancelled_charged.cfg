SPECIFICATION Spec
CONSTANTS
  s1 = s1
  r1 = r1
  Sessions = {s1}
  Reqs = {r1}
  Amount = 2
  CapturedAmounts = {2}
  Keys = {}
  NoKey = NoKey
  NoSession = NoSession
  StageTargets = {"ALLOCATED"}
  ForceTargets = {}
  MaxCancels = 1
CHECK_DEADLOCK FALSE
PROPERTIES CancelledNeverCharged
