CONSTANTS
  Fields = {"launchAtWindowsStartup", "language"}
  Launch = "launchAtWindowsStartup"
  Defaults <- Defaults0
  MaxUpdates = 2
  MaxLaunches = 1
SPECIFICATION Spec
CHECK_DEADLOCK FALSE
INVARIANT PendingIsShown
INVARIANT QuietIsStored
INVARIANT OneAutostart
