CONSTANTS
  n1 = n1
  n2 = n2
  n3 = n3
  telegram = telegram
  slack = slack
  None = None
  Msgs = {n1}
  Workers = {telegram, slack}
  MaxAttempts = 1
SPECIFICATION FairSpec
INVARIANT DeliveredToAddressee
