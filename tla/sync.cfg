SPECIFICATION FairSpec
CONSTANTS
  ann = ann
  bob = bob
  Ids = {a, b}
  Elements <- MCElements
  NoElement = NoElement
  MaxAlive = 1
  MaxTotal = 1
  MaxBatch = 1
  Clients = {ann, bob}
  FirstBoards <- MCBoards
  LocalOnly = {b}
  Removable = {ann}
  MaxEdits = 2
  MaxSockets <- MCSockets
  MaxFaults = 1
INVARIANTS
  NotedIsHeld
  Converged
PROPERTIES
  RemovedIsOut
  WorkArrives
CHECK_DEADLOCK FALSE
