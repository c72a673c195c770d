\* One client that pauses and resumes.
SPECIFICATION Spec
CONSTANTS
  c1 = c1
  c2 = c2
  NoWorker = NoWorker
  Workers = {w1}
  Clients = {c1}
  Menu <- MCResumes
  MaxIds = 1
  Prios = {0}
  Statuses = {"queued"}
  Stores <- MCStores
  OverrideAttempts = 3
  MaxCalls = 3
  MaxStarts = 1
  MaxCrashes = 0
  MaxFaults = 0
PROPERTY
  StopHolds
