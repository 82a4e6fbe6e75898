SPECIFICATION Spec
CONSTANTS
  u1 = u1
  u2 = u2
  s1 = s1
  s2 = s2
  s3 = s3
  Users = {u1}
  Sids = {s1}
  Owner <- MCOne
  Hooks = {h1, h2}
  Requests = {}
  NoCall = NoCall
  NoJob = NoJob
  MaxRequests = 0
  MaxTimeouts = 1
  MaxFailures = 0
  MaxLost = 0
  MaxFaults = 1
INVARIANTS
  RedeliveryIsHarmless
CHECK_DEADLOCK FALSE
