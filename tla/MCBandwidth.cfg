SPECIFICATION FairSpec
CONSTANTS
  Workers = {1, 2}
  Downloads = {d}
  Owner <- MCOwner
  Global = global
  BufferSize = 1
  Rates = {0, 2}
  CfgBurst = 0
  TicksPerSecond = 5
  Flushes <- MCFlushes
  MaxChanges = 3
  MaxSpan = 1
  Watched = {1}
INVARIANTS
  TypeOK
  CapHolds
  SwapHeard
PROPERTY
  WaitEnds
