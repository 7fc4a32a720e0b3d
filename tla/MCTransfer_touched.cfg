SPECIFICATION TSpec
CONSTANTS
  a = a
  b = b
  c = c
  Name = {a, c}
  Worker = {w1, w2}
  Mover = {w1}
  Original = {o1}
  NoFile = NoFile
  MaxTouches = 1
  Crashes = FALSE
  Deletable = {a}
  Volume <- MCVolume
SYMMETRY Symmetry
INVARIANTS OnlyPreviousRetained TroubleKeepsAll
CHECK_DEADLOCK FALSE
