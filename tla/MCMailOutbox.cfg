SPECIFICATION MailSpec
CONSTANTS
  d1 = d1
  d2 = d2
  w1 = w1
  w2 = w2
  Scanner = {w1, w2}
  Interval = 2
  Skew <- MCSkew
  MaxRuns = 2
  Start = 3
  Horizon = 6
  Deliveries = {d1, d2}
  NoDelivery = NoDelivery
  ResendOf <- MCNewer
  RetryOf <- MCNewer
  Workers = {w1, w2}
  NoWorker = NoWorker
  MaxAttempts = 2
  JobMaxAttempts = 1
  OutlivesLease = TRUE
  OutlivesStale = FALSE
INVARIANTS HandedOverOnce VerdictIsTrue DoubleMailOnlyIfUnclear
