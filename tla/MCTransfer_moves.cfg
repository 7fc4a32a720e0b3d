SPECIFICATION TSpec
CONSTANTS
  a = a
  b = b
  c = c
  Name = {a, b, c}
  Worker = {w1, w2}
  Mover = {w1, w2}
  Original = {o1, o2}
  NoFile = NoFile
  MaxTouches = 0
  Crashes = FALSE
  Deletable = {}
  Volume <- MCVolume
SYMMETRY Symmetry
INVARIANTS ContentsSurvive MovedOnce
CHECK_DEADLOCK FALSE
