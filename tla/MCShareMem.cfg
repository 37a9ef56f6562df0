SPECIFICATION Spec
CONSTANTS
  Collectors = {k1}
  Controllers = {c1, c2}
  Torn = Torn
  MaxCommands = 2
  MaxConfigs = 1
  MaxPolls = 1
  MaxWrites = 3
  MaxRestarts = 1
INVARIANTS StateInSync NoLossWithoutRace LockedSaveExclusive CommandsOnTarget RelaysLeaveReadable
PROPERTIES OneMessagePerTurn ImplementsMailbox
CONSTRAINT FewRaces
CHECK_DEADLOCK FALSE
