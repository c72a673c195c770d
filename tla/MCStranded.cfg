\* One segment: the other worker goes straight to stealing from it.
SPECIFICATION Spec
CONSTANTS
  NoWorker = NoWorker
  Workers = {w1, w2}
  TotalSize = 10
  NSegs = 1
  MaxSlots = 2
  BufferSize = 2
  MinStealSize = 1
  MaxRetries = 1
  Sizes = {}
  Resumed = {}
  Layouts <- MCSingle
INVARIANT
  NoStrandedBytes
