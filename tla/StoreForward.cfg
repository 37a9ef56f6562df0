SPECIFICATION Spec
CONSTANTS
  BootLimit = 2
  ReplayLimit = 3
  SaveLimit = 4
  MaxSamples = 4
  MaxOutages = 2
  MaxRestarts = 1
INVARIANTS RowsKept
PROPERTIES OldestFirst FirstOutageDrains
CHECK_DEADLOCK FALSE
