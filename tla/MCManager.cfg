\* Every operation from two clients on one download, one store fault, one crash.
SPECIFICATION Spec
SYMMETRY MCSymmetry
CONSTANTS
  c1 = c1
  c2 = c2
  NoWorker = NoWorker
  Workers = {w1, w2}
  Clients = {c1, c2}
  Menu <- MCAll
  MaxIds = 1
  Prios = {0, 1}
  Statuses = {"queued"}
  Stores <- MCStores
  OverrideAttempts = 1
  MaxCalls = 3
  MaxStarts = 1
  MaxCrashes = 1
  MaxFaults = 1
INVARIANTS
  TypeOK
  OneRunPerDownload
  RequestsServed
PROPERTY
  OrphanedOnlyBy
