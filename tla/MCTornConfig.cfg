CONSTANTS
  Slots = {s1, s2}
  MaxTruth = 2
  Presets = {"casual", "competitive"}
  Rests = {"r1"}
  NoConfig = NoConfig
  Updates = {u1, u2}
  MaxAbandoned = 0
  MaxSaves = 2
SPECIFICATION WindowSpec
CHECK_DEADLOCK FALSE
INVARIANT WritesAreAtomic
