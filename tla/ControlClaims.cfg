SPECIFICATION Spec
CONSTANTS
  N = 2
  Settings <- ClaimSettings
  Levels <- MCLevels
  Times <- MCTimes
  ZeroCrc <- MCZeroCrc
PROPERTIES OwnRule Measured WholeFrames AllFollow TimedOpens TimedCloses
