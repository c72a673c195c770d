\* Two downloads, one worker, no resume or restart: what a stop, a queue entry, a
\* shutdown and a Delete promise.
SPECIFICATION FairSpec
CONSTANTS
  c1 = c1
  c2 = c2
  NoWorker = NoWorker
  Workers = {w1}
  Clients = {c1, c2}
  Menu <- MCStops
  MaxIds = 2
  Prios = {0}
  Statuses = {"queued"}
  Stores <- MCStores
  OverrideAttempts = 3
  MaxCalls = 3
  MaxStarts = 2
  MaxCrashes = 0
  MaxFaults = 0
INVARIANTS
  StopNeverDropped
  ShutdownRecoverable
PROPERTIES
  StopHolds
  CallerReleased
  QueuedRuns
