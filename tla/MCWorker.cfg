CONSTANTS
  Acc = Acc
  Io = Io
  Users = {u1, u2}
  WriteSizes = {1, 3}
  WriteLimit = 2
  MaxCalls = 3
  ErrorCloses = FALSE
SPECIFICATION Spec
CHECK_DEADLOCK FALSE
INVARIANTS TypeOK OneChainEach NoUseAfterDestroy SentInOrder NothingForgotten
PROPERTIES FailedForGood FinalWriteFlushes LifetimeSafe
