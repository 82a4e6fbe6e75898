\* Every page of the web client, one at a time.
CONSTANTS
  MaxTokens = 2
  \* the chat
  MaxFiles = 1
  Shapes = {pdf, long}
  Accepted = {pdf}
  Named = {pdf}
  NoShape = NoShape
  NoFile = NoFile
  Viewer = ann
  Other = bob
  MaxSends = 2
  MaxCalls = 2
  MaxFaults = 1
  \* the meeting
  MaxJoins = 4
  \* the room
  MaxRenewed = 1
  MaxLoads = 2
  MaxChanges = 2
  MaxWork = 1
  \* the lists
  MaxRooms = 2
  PageLimit = 1
  MaxRuns = 3
  Queries = {q1, q2}
  TooShort = TooShort
  \* the accounts
  e1 = e1
  e2 = e2
  g1 = g1
  g2 = g2
  Emails = {e1, e2}
  Googles = {g1, g2}
  EmailOf <- MCEmailOf
  BaseOf <- MCBaseOf
  MaxNames = 2
  Passwords = {p1, p2}
  NoPassword = NoPassword
  NoGoogle = NoGoogle
  NoEmail = NoEmail
  MaxAccounts = 2
  MaxAsks = 3
SPECIFICATION WebSpec
INVARIANTS
  AttachmentIsThere
  ComposerSends
  NoEndlessSpinner
  OwnWorkIsShown
  LatestAnswerShown
  OneAccount
\* a page may be left, or have nothing left to do within the bounds
CHECK_DEADLOCK FALSE
