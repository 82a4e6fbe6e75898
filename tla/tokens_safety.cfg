SPECIFICATION Spec
CONSTANTS
  Browsers = {b1, b2}
  Tokens = {t1, t2, t3, t4}
  Calls = {c1, c2}
  NoToken = NoToken
  NoBrowser = NoBrowser
  MaxFailures = 1
SYMMETRY MCSymmetry
INVARIANTS
  TypeOK
  OneHeir
  NobodyLockedOut
  CookieIsCurrent
CHECK_DEADLOCK FALSE
