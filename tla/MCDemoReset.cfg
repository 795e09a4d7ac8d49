SPECIFICATION FairSpec
CONSTANTS
  Handlers = {h1, h2}
  Jobs = {j1}
  Resets = {r1, r2}
  None = None
  MaxResets = 2
INVARIANTS HandlersSeeWholeData
PROPERTIES DataStableForHandlers ExclusiveNotStarved
