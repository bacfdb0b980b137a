CONSTANTS
  p1 = p1
  p2 = p2
  g = g
  Pids = {p1, p2}
  MaxBirth = 1
  Processes <- Two
  MaxGen = 3
  MaxBoot = 2
  FaultKinds = {"open"}
  MaxFault = 1
  NamedGames <- PathOnly
  PathGames = {}
  Focusable = {}
  BatchSize = 1
SPECIFICATION Spec
INVARIANT RefusedStartKeepsRecords
CHECK_DEADLOCK FALSE
