CONSTANTS
  Call = {c1, c2, c3}
  Jobs <- MCJobs
  None = None
  Cosine <- MCCosine
SPECIFICATION FairSpec
INVARIANTS
  TypeOK
  ScanNeverWorse
PROPERTIES
  ActsAtOnce
  EveryCallReturns
