CONSTANTS
  Acc = Acc
  Io = Io
  Users = {u1}
  WriteSizes = {1, 3}
  WriteLimit = 2
  MaxCalls = 3
  ErrorCloses = TRUE
SPECIFICATION FairSpec
PROPERTIES ClosedIsDestroyed FailedIsDestroyed AcceptedIsSent FinalWriteAnnounced LifetimeLive
CHECK_DEADLOCK FALSE
