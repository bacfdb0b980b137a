CONSTANTS
  Fields = {"launchAtWindowsStartup", "language"}
  Launch = "launchAtWindowsStartup"
  Defaults <- Defaults0
  MaxUpdates = 2
  MaxLaunches = 0
SPECIFICATION Spec
CHECK_DEADLOCK FALSE
PROPERTY FailedSaveRollsBack
