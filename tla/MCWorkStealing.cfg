\* Buffers of two bytes: the margin matters, and a steal needs ten bytes left.
SPECIFICATION Spec
CONSTANTS
  NoWorker = NoWorker
  Workers = {w1, w2}
  TotalSize = 12
  NSegs = 2
  MaxSlots = 3
  BufferSize = 2
  MinStealSize = 1
  MaxRetries = 1
  Sizes = {11}
  Resumed = {0, 1}
  Layouts <- MCLayouts
INVARIANTS
  TypeOK
  OneWriterPerByte
  SlotsTile
  CountersBacked
  CompleteIsWhole
  GateRefusesOnlyHoles
PROPERTY
  StolenTailUntouched
