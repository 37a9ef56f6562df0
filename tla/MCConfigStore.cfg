SPECIFICATION Spec
CONSTANTS
  b1 = b1
  b2 = b2
  b3 = b3
  Boxes = {b1, b2, b3}
  Devs = {1, 2}
  DevOne = 1
  Torn = Torn
  Packed <- PackedTrees
  MaxCommands = 3
  MaxRestarts = 1
INVARIANTS StoreSound
PROPERTIES OthersUntouched
CHECK_DEADLOCK FALSE
