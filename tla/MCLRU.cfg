CONSTANTS
  Key = {k1, k2, k3, k4}
  Value = {v1, v2}
  Capacity = 3
SPECIFICATION Spec
INVARIANTS
  TypeOK
  ListMatchesMap
  WithinCapacity
PROPERTIES
  ImplementsRecency
