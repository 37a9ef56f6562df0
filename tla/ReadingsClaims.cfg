SPECIFICATION ReadingsSpec
CONSTANTS
  c1 = c1
  c2 = c2
  c3 = c3
  c4 = c4
  c5 = c5
  t1 = t1
  t2 = t2
  Collectors = {c1, c2, c3, c4, c5}
  Transformers = {t1}
  TypeLists <- Types
  Packed <- TwoOrFive
  PerType = 3
  PerSwitch = 2
  None = None
  MaxCommands = 1
INVARIANTS ReadsEnd UploadsBehindHeader
PROPERTIES ReadsAllCollectors
CHECK_DEADLOCK FALSE
