SPECIFICATION EngineSpec
CONSTANTS
  e1 = e1
  e2 = e2
  None = None
  Engines = {e1, e2}
  Tasks <- ChainTasks
  Deps <- ChainDeps
  Rule <- AllSuccess
  Gate = {}
  Sensor = {}
  Conditional = {}
  AllowFailure = {}
  Ganged = {}
  Budgets <- ChainBudgets
  Iterations <- ChainRepeat
  Slots = 1
  Deadline = TRUE
  MaxFaults = 2
INVARIANTS AttemptsWithinBudget
PROPERTIES RunEnds StopEnds
CHECK_DEADLOCK FALSE
