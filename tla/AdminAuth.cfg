SPECIFICATION FairSpec
CONSTANTS
  l1 = l1
  l2 = l2
  r1 = r1
  Logins = {l1, l2}
  Permits = 1
  Limit = 1
  Window = 2
  AdmissionLife = 1
  ChallengeLife = 1
  SessionLife = 3
  SessionIdle = 2
  RecoveryCodes = {r1}
  MaxTime = 3
  MaxResets = 1
  MaxFactors = 1
  MaxMisses = 1
INVARIANTS TypeOK GuessesBounded ResetsStand FactorsUsedOnce
PROPERTY EveryLoginAnswered
CHECK_DEADLOCK FALSE
