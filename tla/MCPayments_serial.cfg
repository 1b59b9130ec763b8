SPECIFICATION FairSpec
CONSTANTS
  s1 = s1
  s2 = s2
  r1 = r1
  k1 = k1
  Sessions = {s1, s2}
  Reqs = {r1}
  Amount = 2
  CapturedAmounts = {1, 2}
  Keys = {k1}
  NoKey = NoKey
  NoSession = NoSession
  StageTargets = {"ALLOCATED", "PICKING"}
  ForceTargets = {}
  MaxCancels = 2
CHECK_DEADLOCK FALSE
INVARIANTS OneActiveSession ReleasedOnce
PROPERTIES CancelledIsFinal CaptureIsRecorded
