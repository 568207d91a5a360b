SPECIFICATION FairSpec
CONSTANTS
  w1 = w1
  w2 = w2
  Ends = {1, 2}
  EndAs <- CancelledFirst
  Workers = {w1, w2}
  MaxAttempts = 2
  MaxFaults = 1
INVARIANTS CurrentEndIsTold GivenUpAfterEveryTry
PROPERTIES EveryEndIsSettled
CHECK_DEADLOCK FALSE
