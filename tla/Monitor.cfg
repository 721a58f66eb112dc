SPECIFICATION FairSpec
CONSTANTS
  backup = backup
  queue = queue
  m1 = m1
  m2 = m2
  Checks = {backup, queue}
  Monitors = {m1}
  MaximumAttempts = 2
  Cooldown = 1
  MaxRunTime = 1
  MaxKills = 1
INVARIANT SilenceIsEarned
PROPERTY IncidentsHeard
