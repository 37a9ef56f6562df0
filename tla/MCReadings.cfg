SPECIFICATION ReadingsSpec
CONSTANTS
  c1 = c1
  c2 = c2
  c3 = c3
  c4 = c4
  c5 = c5
  t1 = t1
  t2 = t2
  Collectors = {c1, c2}
  Transformers = {t1, t2}
  TypeLists <- Types
  Packed <- TwoCollectors
  PerType = 3
  PerSwitch = 2
  None = None
  MaxCommands = 2
INVARIANTS ReadingsSound
PROPERTIES NoneAdded ComesToFit
