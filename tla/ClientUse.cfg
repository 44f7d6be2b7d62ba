CONSTANTS
  Acc = Acc
  Io = Io
  Users = {u1}
  WriteSizes = {1, 3}
  WriteLimit = 2
  MaxCalls = 3
  ErrorCloses = FALSE
SPECIFICATION ClientSpec
INVARIANTS NoUseAfterDestroy
CHECK_DEADLOCK FALSE
