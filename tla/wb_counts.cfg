SPECIFICATION Spec
CONSTANTS
  Ids = {a, b, c}
  Elements <- MCElements
  NoElement = NoElement
  MaxAlive = 1
  MaxTotal = 2
  MaxBatch = 2
  Persisters = {p1}
  Finalizers = {f1}
  Expiry = TRUE
  MaxOps = 3
  MaxFailures = 0
SYMMETRY MCSymmetry
INVARIANTS
  TypeOK
  AliveCountsVisible
PROPERTIES
  SavedNeverGoesBack
