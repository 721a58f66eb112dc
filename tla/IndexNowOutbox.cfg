SPECIFICATION FairSpec
CONSTANTS
  r1 = r1
  r2 = r2
  u0 = u0
  u1 = u1
  u2 = u2
  w1 = w1
  w2 = w2
  NoRelease = NoRelease
  NoWorker = NoWorker
  Releases = {r1, r2}
  Urls = {u0, u1, u2}
  UrlsOf <- MCUrlsOf
  Workers = {w1, w2}
  MaxAttempts = 2
  MaxActivations = 5
INVARIANTS SentMeansAccepted
PROPERTIES RemovalsAnnounced ImplementsNotices
CHECK_DEADLOCK FALSE
