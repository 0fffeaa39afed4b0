CONSTANTS
  Req = {r1, r2, r3}
  Query <- Chain
  None = None
  L1Capacity = 1
  TTL = 1
  Durable = FALSE
  NoCipher = none
  Rings = {none}
  StoreRate = 0
  StoreBurst = 0
  MaxClock = 3
  MaxBoots = 0
  Cosine <- MCCosine
  Cutoff <- MCCutoff
  Extract <- MCExtract
  Compatible <- MCCompatible
  BodyBytes <- MCBodyBytes
SYMMETRY Symmetry
SPECIFICATION Spec
INVARIANTS
  TypeOK
  OnlySuccessServed
  NoDrift
  AgeIsBounded
  OldestOfTheNearest
