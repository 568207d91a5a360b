SPECIFICATION ParksSpec
CONSTANTS
  e1 = e1
  e2 = e2
  Engines = {e1, e2}
  Lengths = {0, 2}
  NoList = NoList
  Room = 2
  AllowFailure = FALSE
  MaxResets = 2
  MaxFaults = 1
  Nobody = Nobody
  Repeats = TRUE
  MaxTurns = 2
  MaxChildren = 3
  MaxFence = 5
  MaxStalls = 1
  MaxStops = 1
INVARIANTS OneFreshGeneration JoinIsWhole
PROPERTIES ParksKeepPromise EndsWithItsChild ParksAreLeft
CHECK_DEADLOCK FALSE
