SPECIFICATION Spec
CONSTANTS
  b1 = b1
  b2 = b2
  b3 = b3
  Boxes = {b1, b2, b3}
  Devs = {1, 2}
  DevOne = 1
  Torn = Torn
  Packed <- PackedTrees
  MaxCommands = 2
  MaxRestarts = 1
CHECK_DEADLOCK FALSE
INVARIANTS GetAnswers
PROPERTIES AnsweredIsStored ClearAllClears
