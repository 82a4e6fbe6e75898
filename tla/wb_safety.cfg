SPECIFICATION FairSpec
CONSTANTS
  Ids = {a}
  Elements <- MCElements
  NoElement = NoElement
  MaxAlive = 1
  MaxTotal = 1
  MaxBatch = 1
  Persisters = {p1, p2}
  Finalizers = {f1, f2}
  Expiry = FALSE
  MaxOps = 2
  MaxFailures = 1
INVARIANTS
  SavedIsOneBoard
  KeysGoneOnlyAfterFinalCopy
  NoElementGoesBack
PROPERTIES
  ImplementsStore
  FinalCopyStands
  AcceptedReachesMongo
