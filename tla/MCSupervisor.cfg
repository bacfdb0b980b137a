CONSTANTS
  Starts = {s1, s2}
  Children = {c1, c2, c3}
  NoChild = NoChild
  MaxRestarts = 1
  MaxRetries = 1
SPECIFICATION FairSpec
CHECK_DEADLOCK FALSE
INVARIANT NoOrphan
PROPERTY QuitEnds
PROPERTY ComesToRest
