CONSTANTS
  Req = {r1, r2}
  Query <- Pair
  None = None
  L1Capacity = 2
  TTL = 0
  Durable = TRUE
  NoCipher = none
  Rings = {none, ka}
  StoreRate = 0
  StoreBurst = 0
  MaxClock = 0
  MaxBoots = 1
  Cosine <- MCCosine
  Cutoff <- MCCutoff
  Extract <- MCExtract
  Compatible <- MCCompatible
  BodyBytes <- MCBodyBytes
SPECIFICATION Spec
INVARIANTS
  NothingSealedServed
