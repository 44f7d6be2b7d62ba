CONSTANTS
  Slots = {s1, s2, s3}
  NoSlot = NoSlot
  ServiceNum = 2
  DataShort = FALSE
  WorkerShort = TRUE
  MaxClients = 2
  MaxStarts = 1
SPECIFICATION FairSpec
PROPERTIES RunningAccepts JoinReturns
CHECK_DEADLOCK FALSE
