SPECIFICATION FairSpec
CONSTANTS
  Runs = {1, 2, 3, 4}
  Cap <- CapLowered
  WhenFull <- Mixed
  Confined = {4}
  Source <- TwoSources
  MaxWaiting = 2
  MaxAgain = 1
INVARIANTS CapHeld HeldWhileWaiting SupersededIsStopped
PROPERTIES NoOvertaking WaitIsOver
CHECK_DEADLOCK FALSE
