SPECIFICATION FairSpec
CONSTANTS
  Name = {n1}
  Worker = {w1, w2}
  Original = {o1}
  NoFile = NoFile
  MaxTouches = 0
  Crashes = FALSE
  Deletable = {n1}
INVARIANTS NothingLost FailureHarmless
PROPERTIES Terminates Atomic
CHECK_DEADLOCK FALSE
