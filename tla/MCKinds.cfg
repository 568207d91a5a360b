SPECIFICATION Spec
CONSTANTS
  e1 = e1
  e2 = e2
  None = None
  Engines = {e1, e2}
  Tasks <- KindsTasks
  Deps <- KindsDeps
  Rule <- KindsRules
  Gate = {"a"}
  Sensor = {"b"}
  Conditional = {"d"}
  AllowFailure = {"c"}
  Ganged = {}
  Budgets <- OneAttempt
  Iterations <- NoRepeat
  Slots = 1
  Deadline = FALSE
  MaxFaults = 1
SYMMETRY Engines2
INVARIANTS TriggerRuleHonoured VerdictMatchesTasks CounterExact DepsOverFirst EndedRunIsOver OneCompletionPerEnd
PROPERTIES TerminalIsFinal StopIsFinal
CHECK_DEADLOCK FALSE
