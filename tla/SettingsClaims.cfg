SPECIFICATION Spec
CONSTANTS
  c1 = c1
  c2 = c2
  Collectors = {c1, c2}
  Lights <- LightWords
  Versions <- VersionPairs
  Unset = Unset
  Torn = Torn
  Packed <- PackedTrees
  MaxCommands = 3
  MaxRestarts = 1
CHECK_DEADLOCK FALSE
INVARIANTS ThresholdsCanBeSet ControlHasRule
PROPERTIES LightReadsBack
