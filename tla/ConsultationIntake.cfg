SPECIFICATION Spec
CONSTANTS
  v1 = v1
  b1 = b1
  b2 = b2
  e1 = e1
  e2 = e2
  Visitors = {v1}
  Bundles = {b1, b2}
  NoBundle = NoBundle
  Editions = {e1, e2}
  FillTime = 0
  TokenAge = 1
  KeyLife = 1
  Window = 2
  Grace = 1
  Limit = 1
  MaxTime = 2
  MaxKeys = 2
  MaxTries = 2
  MaxActivations = 2
INVARIANTS RetriesAreOne ConsentAsShown FloodBounded
CHECK_DEADLOCK FALSE
