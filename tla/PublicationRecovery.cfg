SPECIFICATION FairSpec
CONSTANTS
  ko = ko
  en = en
  r1 = r1
  r2 = r2
  r3 = r3
  b1 = b1
  b2 = b2
  NoRelease = NoRelease
  Bootstrap = Bootstrap
  NoBundle = NoBundle
  Sources = {ko}
  Derived = {en}
  SourceOf <- MCSourceOf
  MaxVersion = 3
  Releases = {r1, r2, r3}
  MaxBuilds = 2
  Bundles = {b1, b2}
  Keepers = 1
  MaxActivations = 3
INVARIANTS TypeOK PointerExplained JournalReplayable PublishedHeadsServed NothingNeededPruned RollbackTargetsRemain
PROPERTIES PublishKeepsHeads RestartRecovers
CHECK_DEADLOCK FALSE
