CONSTANTS
  balanced = balanced
  saver = saver
  ultimate = ultimate
  high = high
  Plans = {balanced, saver, ultimate, high}
  Preferred <- UltimateThenHigh
  Registered = {ultimate, high}
  FaultKinds = {}
  MaxFault = 0
  MaxBoot = 1
  MaxChoice = 2
SPECIFICATION Spec
INVARIANT SwitchIsRecorded
CHECK_DEADLOCK FALSE
