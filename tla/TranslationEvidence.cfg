SPECIFICATION FairSpec
CONSTANTS
  ko = ko
  en = en
  w1 = w1
  w2 = w2
  NoWorker = NoWorker
  NoJob = NoJob
  Sources = {ko}
  Derived = {en}
  SourceOf <- MCSourceOf
  MaxVersion = 6
  Workers = {w1, w2}
  Passes = 2
  PromptHashed = "pass_input"
  MaxOrdinal = 2
  MaxReleases = 4
  MaxLapses = 2
PROPERTY CompletedWorkAccepted
CHECK_DEADLOCK FALSE
