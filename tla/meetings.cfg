SPECIFICATION Spec
CONSTANTS
  Meetings = {m1, m2}
  Requests = {r1, r2}
  Hooks = {h1}
  NoMeeting = NoMeeting
  MaxFailures = 1
  MaxLost = 1
SYMMETRY MCSymmetry
INVARIANTS
  TypeOK
  HealsOnlyClosedRooms
  EmptyOnlyBeforeDissolution
  EndedIsTallied
  DissolvedRoomEnds
  MeetingsCountedOnce
PROPERTIES
  ImplementsLifecycle
CHECK_DEADLOCK FALSE
