SPECIFICATION Spec
CONSTANTS
  N = 2
  MaxRestarts = 0
  Settings <- PairSettings
  Levels <- MCLevels
  Times <- MCTimes
  ZeroCrc <- MCZeroCrc
INVARIANTS TypeOK
PROPERTIES Justified DevicesFollow
