CONSTANTS
  p1 = p1
  p2 = p2
  g = g
  Pids = {p1, p2}
  MaxBirth = 1
  Processes <- Two
  MaxGen = 3
  MaxBoot = 1
  FaultKinds = {}
  MaxFault = 0
  NamedGames <- Two
  PathGames = {}
  Focusable <- Two
  BatchSize = 1
SPECIFICATION Spec
PROPERTY ExitIsConfirmed
CHECK_DEADLOCK FALSE
