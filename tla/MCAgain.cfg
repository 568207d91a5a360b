SPECIFICATION FanInSpec
CONSTANTS
  e1 = e1
  None = None
  Engines = {e1}
  Tasks <- FanInTasks
  Deps <- FanInDeps
  Rule <- AllSuccess
  Gate = {}
  Sensor = {}
  Conditional = {}
  AllowFailure = {}
  Ganged = {}
  Budgets <- OneAttempt
  Iterations <- NoRepeat
  Slots = 2
  Deadline = FALSE
  MaxFaults = 1
  MaxAgain = 1
INVARIANTS CountersRunAgain FenceNamesExecution ToldOnlyWhenLost
PROPERTIES GangIsClaimedWhole
CHECK_DEADLOCK FALSE
