CONSTANTS
  p1 = p1
  p2 = p2
  g = g
  Pids = {p1, p2}
  MaxBirth = 2
  Processes <- ReusedPids
  MaxGen = 2
  MaxBoot = 2
  FaultKinds = {}
  MaxFault = 0
  NamedGames <- ReusedGames
  PathGames = {}
  Focusable <- Second
  BatchSize = 1
SPECIFICATION Spec
INVARIANT Restorable
INVARIANT NamedGamesRunFree
PROPERTY GateContract
CHECK_DEADLOCK FALSE
