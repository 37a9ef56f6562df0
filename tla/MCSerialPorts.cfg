SPECIFICATION SerialSpec
CONSTANTS
  Commands = {f1, f2}
  Devices = {d1}
  NulDevices = {}
  Zero = Zero
  MaxRequests = 1
  MaxEmpty = 0
  MaxBad = 3
INVARIANTS SerialTypeOK ActsInOrder
PROPERTIES CallsEnd
CONSTRAINT FewWrites
CHECK_DEADLOCK FALSE
