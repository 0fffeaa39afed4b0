CONSTANTS
  Call = {c1, c2, c3}
  Tenant = {ta, tb}
  Bytes = {1, 3}
  Rate = 1
  Burst = 2
  MaxClock = 2
  None = None
SYMMETRY Symmetry
SPECIFICATION Spec
INVARIANTS
  TypeOK
  OneLimiterEach
  BudgetHolds
