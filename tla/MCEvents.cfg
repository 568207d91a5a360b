SPECIFICATION EventsFairSpec
CONSTANTS
  e1 = e1
  e2 = e2
  a1 = a1
  d1 = d1
  w1 = w1
  w2 = w2
  None = None
  OutboxEvents = {e1, e2}
  Replicas = {w1, w2}
  Late = 1
  LeastMove = 1
  EnrollRows = 1
  MaxTime = 2
  MaxSetbacks = 1
  Asks = {a1}
  LetGo = d1
  Workers = {w1, w2}
  MaxRequests = 3
  MaxAttempts = 2
  MaxWaits = 1
  MaxFaults = 1
INVARIANTS IInv OneRunPerCommit
PROPERTIES EveryEventIsHanded SettledIsFinal EveryEventSettles
CHECK_DEADLOCK FALSE
