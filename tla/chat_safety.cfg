SPECIFICATION Spec
CONSTANTS
  Host = Host
  Guest = Guest
  Users <- MCUsers
  Sockets = {s1}
  Owner <- MCOwner
  Calls = {c1, c2}
  MaxFailures = 1
  Messages = {m1}
  Author <- MCAuthor
  Tagged = {m1}
  Sends = {p1, p2}
  NoMessage = NoMessage
  MaxInFlight = 2
SYMMETRY MCSymmetry
INVARIANTS
  TypeOK
  CountFollowsMembers
  RevokedSocketsLeave
  StoredIsPublishedOnce
  MessagesAreCounted
CHECK_DEADLOCK FALSE
