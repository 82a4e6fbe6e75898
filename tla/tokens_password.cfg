SPECIFICATION Spec
CONSTANTS
  Browsers = {b1}
  Tokens = {t1, t2, t3}
  Calls = {c1, c2}
  NoToken = NoToken
  NoBrowser = NoBrowser
  MaxFailures = 0
SYMMETRY MCSymmetry
INVARIANTS
  CurrentSessionKept
CHECK_DEADLOCK FALSE
