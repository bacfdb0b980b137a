CONSTANTS
  MaxBoot = 1
  RecoveryMayFail = FALSE
SPECIFICATION Spec
INVARIANT PowerIsRecorded
CHECK_DEADLOCK FALSE
