CONSTANTS
  Workers = {1, 2}
  SegmentCount = 2
  MinSegment = 1
  MaxSlots = 3
  Size <- MCSize
  Worlds <- MCWorlds
  MaxFaults = 2
SPECIFICATION Spec
INVARIANTS
  TypeOK
  BarrierCountsDurableBytes
  LayoutTiles
  CompletedIsExact
  RecordedIsDurable
  ChecksumGuards
PROPERTIES
  OnlySplitsRunAhead
  ImplementsPublication
  NeverWedged
CHECK_DEADLOCK FALSE
