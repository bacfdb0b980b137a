CONSTANTS
  p1 = p1
  p2 = p2
  g = g
  Pids = {p1, p2, g}
  MaxBirth = 1
  Processes <- Three
  MaxGen = 3
  MaxBoot = 2
  FaultKinds = {"open", "set", "save", "aged"}
  MaxFault = 1
  NamedGames <- OneGame
  PathGames = {}
  Focusable = {}
  BatchSize = 2
SYMMETRY BackgroundSymmetry
SPECIFICATION Spec
INVARIANT Restorable
INVARIANT RecordedBetweenCycles
PROPERTY RecoveryLeavesNothing
PROPERTY RecordOutlivesThrottle
CHECK_DEADLOCK FALSE
