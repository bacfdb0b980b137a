CONSTANTS
  MaxBoot = 1
  RecoveryMayFail = FALSE
SPECIFICATION Spec
INVARIANT NormalEndIsRestored
CHECK_DEADLOCK FALSE
