SPECIFICATION Spec
CONSTANTS
  Item = {i1, i2}
  Special = {i2}
  Request = {r1, r2, r3}
  NoItem = NoItem
  Crashes = FALSE
SYMMETRY Symmetry
INVARIANT NothingLost
CHECK_DEADLOCK FALSE
