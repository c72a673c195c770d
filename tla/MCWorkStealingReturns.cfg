\* One-byte buffers: short segments can be split, twice over, from two donors.
SPECIFICATION FairSpec
CONSTANTS
  NoWorker = NoWorker
  Workers = {w1, w2}
  TotalSize = 12
  NSegs = 2
  MaxSlots = 4
  BufferSize = 1
  MinStealSize = 1
  MaxRetries = 0
  Sizes = {6}
  Resumed = {0}
  Layouts <- MCLayouts
PROPERTY
  RunReturns
