CONSTANTS
  Req = {r1, r2, r3}
  Input <- Bodies
  ReplyLengths = {1}
  None = None
  MaxBody = 2
  Alike <- Near
  IsolatedDefault = FALSE
  RequestRate = 1
  RequestBurst = 3
  MaxClock = 0
SPECIFICATION Spec
INVARIANTS
  AllWorkIsPaidFor
