SPECIFICATION Spec
CONSTANTS
  u1 = u1
  i1 = i1
  i2 = i2
  i3 = i3
  t1 = t1
  r1 = r1
  r2 = r2
  Users = {u1}
  Ids = {i1, i2, i3}
  NoId = NoId
  ResetTokens = {t1}
  NoReset = NoReset
  Reqs = {r1, r2}
  Refreshers = {r1}
  MaxRestarts = 1
  MaxAgeing = 1
SYMMETRY Symmetry
CHECK_DEADLOCK FALSE
INVARIANTS RotationIsOneForOne RefreshedOnce SignedOutRefused ResetOnce
