CONSTANTS
  MaxBoot = 3
  RecoveryMayFail = TRUE
SPECIFICATION Spec
INVARIANT RestoredWhenOver
PROPERTY GateContract
PROPERTY ShutdownTerminates
PROPERTY StopReturns
CHECK_DEADLOCK FALSE
