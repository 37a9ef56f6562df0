SPECIFICATION Spec
CONSTANTS
  N = 1
  MaxRestarts = 1
  Settings <- MCSettings
  Levels <- MCLevels
  Times <- MCTimes
  ZeroCrc <- MCZeroCrc
INVARIANTS TypeOK
PROPERTIES Justified DevicesFollow
