CONSTANTS
  Streams = {c1, c2}
  MaxHistory = 2
  MaxChanges = 1
  MaxBoots = 1
SPECIFICATION FairSpec
CHECK_DEADLOCK FALSE
INVARIANT ToldOnce
INVARIANT HistoryInOrder
INVARIANT NewestHasToast
PROPERTY MemoryCatchesUp
