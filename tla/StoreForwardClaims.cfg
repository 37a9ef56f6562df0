SPECIFICATION Spec
CONSTANTS
  BootLimit = 8
  ReplayLimit = 9
  SaveLimit = 10
  MaxSamples = 4
  MaxOutages = 2
  MaxRestarts = 1
INVARIANTS NoRowLost
PROPERTIES Drains
CHECK_DEADLOCK FALSE
