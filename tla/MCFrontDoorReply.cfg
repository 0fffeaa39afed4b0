CONSTANTS
  Req = {r1, r2, r3}
  Input <- Bodies
  ReplyLengths = {1, 3}
  None = None
  MaxBody = 2
  Alike <- Near
  IsolatedDefault = FALSE
  RequestRate = 0
  RequestBurst = 0
  MaxClock = 0
SPECIFICATION Spec
INVARIANTS
  CachedInFull
