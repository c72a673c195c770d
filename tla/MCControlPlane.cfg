CONSTANTS
  Procs = {1, 2}
  Holders = {1, 2}
  Conns = {1, 2}
  Callers = {1, 2}
  NoProc = NoProc
  MaxEvents = 5
  Keys <- MCKeys
  Required = {"dir", "segments"}
  Defaulted = {"dir"}
  Configs <- MCConfigs
  Patches <- MCPatches
SPECIFICATION Spec
INVARIANTS
  TypeOK
  NoHandlerAfterClose
  AnsweredIsPersisted
PROPERTIES
  NoAddAfterWait
  SocketTakenOnlyBy
  AnsweredSurvives
  StopEnds
CHECK_DEADLOCK FALSE
