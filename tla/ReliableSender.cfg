CONSTANTS
  m1 = m1
  m2 = m2
  m3 = m3
  m4 = m4
  Msgs = {m1, m2, m3}
  MaxAttempts = 2
  FailureThreshold = 2
  Cooldown = 1
  MaxTime = 4
SPECIFICATION Spec
INVARIANTS
  TypeOK
  BreakerJustified
  ProbeOwned
  CooldownBounded
  DeadLetterAccurate
PROPERTY ImplementsDelivery
SYMMETRY MsgSymmetry
CHECK_DEADLOCK FALSE
