SPECIFICATION FairSpec
CONSTANTS
  Workers = {w1, w2}
  j1 = j1
  j2 = j2
  Jobs = {j1, j2}
  NoWorker = NoWorker
  NoJob = NoJob
  MaxAttempts <- MCMaxAttempts
  Handled = {j1}
INVARIANTS ClaimsFenced RunsBounded
PROPERTIES ImplementsContract EverySubmittedJobEnds
