SPECIFICATION Spec
CONSTANTS
  Collectors = {k1}
  Controllers = {c1}
  Torn = Torn
  MaxCommands = 1
  MaxConfigs = 1
  MaxPolls = 1
  MaxWrites = 3
  MaxRestarts = 0
PROPERTIES LastSaverLeavesReadable
CHECK_DEADLOCK FALSE
