SPECIFICATION Spec
CONSTANTS
  Name = {n1}
  Worker = {w1, w2}
  Original = {o1}
  NoFile = NoFile
  MaxTouches = 1
  Crashes = TRUE
  Deletable = {n1}
SYMMETRY Symmetry
INVARIANTS OnlyCompletePublic OnlyPreviousRetained LossNeedsRollback IInv OneWinner
CHECK_DEADLOCK FALSE
