SPECIFICATION Spec
CONSTANTS
  Item = {i1, i2}
  Special = {i2}
  Request = {r1, r2, r3}
  NoItem = NoItem
  Crashes = TRUE
SYMMETRY Symmetry
INVARIANTS LossNeedsSkip NothingOutside LeftoverNeedsTrouble
CHECK_DEADLOCK FALSE
