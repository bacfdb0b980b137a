CONSTANTS
  balanced = balanced
  saver = saver
  ultimate = ultimate
  high = high
  Plans = {balanced, saver, ultimate, high}
  Preferred <- UltimateThenHigh
  Registered = {high}
  FaultKinds = {"get", "switch", "restore", "recover", "save"}
  MaxFault = 3
  MaxBoot = 3
  MaxChoice = 3
SPECIFICATION Spec
INVARIANT SwitchIsRecorded
INVARIANT PlanRestoredAfterSession
PROPERTY StartFindsOwnPlan
PROPERTY RecordedAhead
CHECK_DEADLOCK FALSE
