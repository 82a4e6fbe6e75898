SPECIFICATION Spec
CONSTANTS
  ann = ann
  bob = bob
  Ids = {a}
  Elements <- MCElements
  NoElement = NoElement
  MaxAlive = 1
  MaxTotal = 1
  MaxBatch = 1
  Clients = {ann, bob}
  FirstBoards <- MCBoards
  LocalOnly = {}
  Removable = {}
  MaxEdits = 2
  MaxSockets <- MCSockets
  MaxFaults = 0
INVARIANTS
  LocalWorkIsSent
CHECK_DEADLOCK FALSE
