SPECIFICATION BackgroundSpec
CONSTANTS
  w1 = w1
  w2 = w2
  d1 = d1
  d2 = d2
  Scanner = {w1, w2}
  Interval = 2
  Skew <- MCSkew
  MaxRuns = 2
  Start = 3
  Horizon = 6
  Deliveries = {d1}
  NoDelivery = NoDelivery
  ResendOf <- MCNone
  RetryOf <- MCNone
  Workers = {w1}
  NoWorker = NoWorker
  MaxAttempts = 2
  JobMaxAttempts = 2
  OutlivesLease = FALSE
  OutlivesStale = FALSE
INVARIANTS ChainUnbroken
PROPERTIES ScansGoOn EveryMailSettles SentIsAnnounced
CHECK_DEADLOCK FALSE
