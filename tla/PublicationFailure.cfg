SPECIFICATION FairSpec
CONSTANTS
  ko = ko
  en = en
  r1 = r1
  r2 = r2
  r3 = r3
  b1 = b1
  b2 = b2
  NoRelease = NoRelease
  Bootstrap = Bootstrap
  NoBundle = NoBundle
  Sources = {ko}
  Derived = {}
  SourceOf <- MCSourceOf
  MaxVersion = 4
  Releases = {r1, r2, r3}
  MaxBuilds = 1
  Bundles = {b1, b2}
  Keepers = 1
  MaxActivations = 3
PROPERTY FailureKeepsPointer
CHECK_DEADLOCK FALSE
