CONSTANTS
  m1 = m1
  m2 = m2
  m3 = m3
  m4 = m4
  Msgs = {m1, m2, m3, m4}
  MaxAttempts = 1
  FailureThreshold = 1
  Cooldown = 1
  MaxTime = 5
SPECIFICATION Spec
INVARIANT SingleProbe
SYMMETRY MsgSymmetry
CHECK_DEADLOCK FALSE
