SPECIFICATION SerialSpec
CONSTANTS
  Commands = {f1}
  Devices = {d1}
  NulDevices = {}
  Zero = Zero
  MaxRequests = 1
  MaxEmpty = 0
  MaxBad = 3
CHECK_DEADLOCK FALSE
INVARIANTS ActsOnPerfectData RecordsPerfectData
