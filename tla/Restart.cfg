CONSTANTS
  Slots = {s1, s2, s3, s4}
  NoSlot = NoSlot
  ServiceNum = 1
  DataShort = FALSE
  WorkerShort = FALSE
  MaxClients = 1
  MaxStarts = 2
SPECIFICATION FairSpec
PROPERTIES RestartAccepts
CHECK_DEADLOCK FALSE
