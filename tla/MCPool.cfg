CONSTANTS
  Strings = {a, b}
  BlockNum = 3
  Capacity = 2
  AppendSizes = {1, 4}
  PopSizes = {1, 3}
  MaxBytes = 4
SPECIFICATION Spec
SYMMETRY StringSymmetry
INVARIANTS BlocksAccounted WritesBehindTheEnd LengthExact
PROPERTIES IsByteQueue
CHECK_DEADLOCK FALSE
