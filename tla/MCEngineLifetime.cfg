CONSTANTS
  Req = {r1, r2, r3}
  Query <- Pair
  None = None
  L1Capacity = 2
  TTL = 1
  Durable = FALSE
  NoCipher = none
  Rings = {none}
  StoreRate = 0
  StoreBurst = 0
  MaxClock = 2
  MaxBoots = 0
  Cosine <- MCCosine
  Cutoff <- MCCutoff
  Extract <- MCExtract
  Compatible <- MCCompatible
  BodyBytes <- MCBodyBytes
SPECIFICATION Spec
INVARIANTS
  AtMostOneLifetime
