SPECIFICATION LauncherSpec
CONSTANTS
  None = None
  MaxUpdates = 4
  MaxFaults = 0
  MaxCrashes = 0
PROPERTIES EveryUpdateInstalled
CHECK_DEADLOCK FALSE
