CONSTANTS
  n1 = n1
  n2 = n2
  n3 = n3
  telegram = telegram
  slack = slack
  None = None
  Msgs = {n1, n2}
  Workers = {telegram}
  MaxAttempts = 2
SPECIFICATION FairSpec
INVARIANTS
  TypeOK
  NoLossBeforeCap
PROPERTIES
  ImplementsDelivery
  Drained
