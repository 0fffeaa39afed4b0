CONSTANTS
  Req = {r1, r2}
  Query <- Faults
  None = None
  L1Capacity = 0
  TTL = 1
  Durable = TRUE
  NoCipher = none
  Rings = {ka, kb}
  StoreRate = 1
  StoreBurst = 2
  MaxClock = 2
  MaxBoots = 1
  Cosine <- MCCosine
  Cutoff <- MCCutoff
  Extract <- MCExtract
  Compatible <- MCCompatible
  BodyBytes <- MCBodyBytes
SPECIFICATION FairSpec
INVARIANTS
  Provenance
  ScopeIsolation
  NothingSealedServed
  SealedAtRest
  QuotaHolds
PROPERTIES
  KeepsThePromise
  RepeatsHitL1
  EveryRequestEnds
