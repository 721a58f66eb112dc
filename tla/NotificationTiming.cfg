SPECIFICATION TSpec
CONSTANTS
  w1 = w1
  w2 = w2
  c1 = c1
  offer = offer
  probe = probe
  email = email
  telegram = telegram
  NoWorker = NoWorker
  NoRow = NoRow
  Workers = {w1, w2}
  Consultations = {c1}
  Rows = {offer}
  Channels = {email, telegram}
  ConsultationOf <- MCConsultationOf
  ChannelOf <- MCChannelOf
  PurposeOf <- MCPurposeOf
  OriginOf <- MCOriginOf
  MaxAttempts = 1
  LeaseTime = 6
  RetryDelay <- MCRetryDelay
  PrivacyRetention = 1
  MarketingRetention = 7
  LockWait = 1
  MaxCycles = 1
  Switchable = {}
  IOTime = 1
  Resolving = {email}
SYMMETRY WorkerSymmetry
INVARIANT DeliveryKeepsLease
