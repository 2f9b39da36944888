SPECIFICATION Spec
CONSTANTS
  k1 = k1
  k2 = k2
  Keys <- TwoKeys
  MaxRequests = 2
  Window = 3
  MaxTime = 7
  MaxCount = 3
SYMMETRY Symmetry
INVARIANTS
  BurstsBounded
PROPERTIES
  RefusedOnlyWhenBusy
