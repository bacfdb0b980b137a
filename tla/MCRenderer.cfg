CONSTANTS
  Slots = {s1, s2}
  MaxTruth = 2
  Presets = {"casual", "competitive"}
  Rests = {"r1"}
  NoConfig = NoConfig
  Updates = {u1, u2}
  MaxAbandoned = 1
  MaxSaves = 1
SPECIFICATION WindowFairSpec
CHECK_DEADLOCK FALSE
INVARIANT BusyHasRequest
INVARIANT RequestsArrive
INVARIANT FileIsWhole
INVARIANT AppliedIsWritten
PROPERTY LogsConverge
