\* One segment, whose last flush or fsync the watchdog may interrupt.
SPECIFICATION Spec
CONSTANTS
  NoWorker = NoWorker
  Workers = {w1, w2}
  TotalSize = 10
  NSegs = 1
  MaxSlots = 2
  BufferSize = 2
  MinStealSize = 1
  MaxRetries = 1
  Sizes = {}
  Resumed = {}
  Layouts <- MCSingle
INVARIANT
  FetchedNeverFails
