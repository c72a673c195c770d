CONSTANTS
  Workers = {1, 2}
  SegmentCount = 2
  MinSegment = 1
  MaxSlots = 3
  Size <- MCSize
  Worlds <- MCKilled
  MaxFaults = 2
SPECIFICATION Spec
INVARIANT
  NoZeroFilledHoles
CHECK_DEADLOCK FALSE
