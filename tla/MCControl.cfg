SPECIFICATION Spec
CONSTANTS
  N = 1
  Settings <- MCSettings
  Levels <- MCLevels
  Times <- MCTimes
  ZeroCrc <- MCZeroCrc
INVARIANTS TypeOK
PROPERTIES FromThisRound DevicesFollow
