SPECIFICATION Spec
CONSTANTS
  Caller = {c1, c2}
  Grant = {g1, g2}
  NoCaller = NoCaller
  MaxCalls = 2
INVARIANT RightToken
CHECK_DEADLOCK FALSE
