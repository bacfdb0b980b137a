CONSTANTS
  Streams = {c1}
  MaxHistory = 2
  MaxChanges = 2
  MaxBoots = 1
SPECIFICATION Spec
CHECK_DEADLOCK FALSE
INVARIANT ChangesAppear
