CONSTANTS
  Slots = {s1, s2, s3}
  NoSlot = NoSlot
  ServiceNum = 2
  DataShort = TRUE
  WorkerShort = TRUE
  MaxClients = 3
  MaxStarts = 2
SPECIFICATION Spec
SYMMETRY SlotSymmetry
INVARIANTS TypeOK SlotsAccounted AcceptedIsCurrent ServicesOutlive
CHECK_DEADLOCK FALSE
