SPECIFICATION Spec
CONSTANTS
  A = A
  B = B
  m = m
  n = n
  o1 = o1
  o2 = o2
  o3 = o3
  Folder = {A, B}
  Local = {B}
  Name = {m, n}
  Aside = {x}
  MaxEntries = 3
  Worker = {w1, w2}
  Original = {o1, o2, o3}
  Start <- MCStart
SYMMETRY Symmetry
INVARIANTS OnlyVerifiedPublic LossNeedsTrampling MovedOnce
CHECK_DEADLOCK FALSE
