CONSTANTS
  Slots = {s1, s2}
  NoSlot = NoSlot
  ServiceNum = 1
  DataShort = FALSE
  WorkerShort = FALSE
  MaxClients = 2
  MaxStarts = 1
SPECIFICATION ReleasingSpec
PROPERTIES AllocationRetried
CHECK_DEADLOCK FALSE
