SPECIFICATION Spec
CONSTANTS
  w1 = w1
  w2 = w2
  c1 = c1
  mail = mail
  offer = offer
  status = status
  probe = probe
  email = email
  NoWorker = NoWorker
  NoRow = NoRow
  Workers = {w1, w2}
  Consultations = {c1}
  Rows = {probe, offer}
  Channels = {email}
  ConsultationOf <- MCConsultationOf
  ChannelOf <- MCChannelOf
  PurposeOf <- MCPurposeOf
  OriginOf <- MCOriginOf
  MaxAttempts = 2
  LeaseTime = 1
  RetryDelay <- MCRetryDelay
  PrivacyRetention = 2
  MarketingRetention = 3
  LockWait = 0
  MaxCycles = 1
  Switchable = {}
SYMMETRY WorkerSymmetry
INVARIANTS LedgerAgrees MarkGuardsWire
PROPERTIES NoContactAfterRevocation NeverCancelledOnWire OutcomesAreFinal ImplementsCourier
