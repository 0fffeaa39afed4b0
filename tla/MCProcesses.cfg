CONSTANTS
  ra = ra
  rb = rb
  ka = ka
  kb = kb
  Req = {ra, rb}
  Tenant = {"a", "b"}
  TenantOf <- MCTenantOf
  Keys = {ka, kb}
  BadKey = bad
  None = None
  Environments <- MCEnvironments
  Grace = 1
  MaxBoots = 3
  MaxOutages = 1
  Call = {c1, c2, c3}
  Workers = 2
  NoModel = NoModel
  MaxDeaths = 1
SPECIFICATION MCSpec
INVARIANTS
  TypeOK
  RowsAreSealed
  IsolationOutlivesRestarts
  CopiesBounded
PROPERTIES
  EveryStopEnds
