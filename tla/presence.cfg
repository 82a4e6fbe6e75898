SPECIFICATION Spec
CONSTANTS
  u1 = u1
  u2 = u2
  s1 = s1
  s2 = s2
  s3 = s3
  Users = {u1, u2}
  Sids = {s1, s2, s3}
  Owner <- MCOwner
  Hooks = {h1, h2}
  Requests = {r1}
  NoCall = NoCall
  NoJob = NoJob
  MaxRequests = 1
  MaxTimeouts = 1
  MaxFailures = 1
  MaxLost = 1
  MaxFaults = 1
SYMMETRY MCSymmetry
INVARIANTS
  PresenceIsCall
  PeakIsReal
  EndedIsSettled
  SessionsSurviveRedelivery
  KickedLeavesCall
CHECK_DEADLOCK FALSE
