SPECIFICATION Spec
CONSTANTS
  Threads = {web, zigbee}
  OpensAt = {"start", "end"}
  Limit = 2
  MaxEntries = 7
  MaxOverdue = 2
INVARIANTS LogSound SizeBounded
PROPERTIES CallsReturn
CHECK_DEADLOCK FALSE
