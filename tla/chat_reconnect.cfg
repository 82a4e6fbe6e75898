SPECIFICATION Spec
CONSTANTS
  Host = Host
  Guest = Guest
  Users <- MCUsers
  Sockets = {s1}
  Owner <- MCOwner
  Calls = {c1}
  MaxFailures = 0
  Messages = {m1}
  Author <- MCAuthor
  Tagged = {m1}
  Sends = {p1}
  NoMessage = NoMessage
  MaxInFlight = 1
INVARIANTS
  ReconnectLosesNothing
CHECK_DEADLOCK FALSE
