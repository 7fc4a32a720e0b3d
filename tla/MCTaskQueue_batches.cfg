SPECIFICATION FairSpec
CONSTANTS
  a = a
  b = b
  x = x
  y = y
  Name = {a, b}
  Foreign = {x, y}
  Fixed = {y}
  NoFile = NoFile
  MaxTrouble = 1
  Items <- MCItems
  Kinds <- MCKinds
  Before <- MCBefore
INVARIANTS EveryItemAccounted WorkIsSerial
PROPERTIES NoWorkAfterCancel ConsentToReplace EveryTaskEnds
CHECK_DEADLOCK FALSE
