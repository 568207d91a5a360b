SPECIFICATION IntakeSpec
CONSTANTS
  n1 = n1
  n2 = n2
  s1 = s1
  NoOne = NoOne
  None = None
  Shards = {s1}
  Consumers = {n1, n2}
  Lines = 2
  Poison <- SecondLine
  MaxPartitions = 2
  MaxAttempts = 2
  MaxMishaps = 2
  MaxLapses = 1
  Nodes = {n1, n2}
  MaxTime = 2
  Window = 2
  SweepCap = 1
  JobTo = 2
  MaxRuns = 1
  Pace = 1
  Uses <- FireOnly
  MaxCalls = 1
  MaxFaults = 1
INVARIANTS NeverDoubleFires
CHECK_DEADLOCK FALSE
