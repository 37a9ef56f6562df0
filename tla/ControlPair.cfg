SPECIFICATION Spec
CONSTANTS
  N = 2
  Settings <- PairSettings
  Levels <- MCLevels
  Times <- MCTimes
  ZeroCrc <- MCZeroCrc
INVARIANTS TypeOK
PROPERTIES FromThisRound
