SPECIFICATION Spec
CONSTANTS
  Name = {n1}
  Worker = {w1, w2, w3}
  Original = {o1}
  NoFile = NoFile
  MaxTouches = 0
  Crashes = FALSE
  Deletable = {}
SYMMETRY Symmetry
INVARIANT NothingLost
CHECK_DEADLOCK FALSE
