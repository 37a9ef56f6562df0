SPECIFICATION LauncherSpec
CONSTANTS
  None = None
  MaxUpdates = 4
  MaxFaults = 2
  MaxCrashes = 2
INVARIANTS LauncherTypeOK NeverPartial SystemPresent
PROPERTIES RebootsIntoUpdate FirstTwoInstalled
CHECK_DEADLOCK FALSE
