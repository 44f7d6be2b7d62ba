CONSTANTS
  Strings = {a, b, c}
  ZoneNum = 2
  BlockNum = 3
SPECIFICATION Spec
SYMMETRY StringSymmetry
INVARIANTS WalksEndAtTail BlocksComeHome
PROPERTIES ZoneIsPool
CHECK_DEADLOCK FALSE
