SPECIFICATION Spec
CONSTANTS
  N = 1
  MaxRestarts = 0
  Settings <- ClaimSettings
  Levels = {1, 2, 3, 4}
  Times <- MCTimes
  ZeroCrc <- MCZeroCrc
INVARIANTS TimesReadable
PROPERTIES WholeFrames AllFollow
