SPECIFICATION Spec
CONSTANTS
  NShards = 2
  NBatches = 2
  NOffered = 2
  RowCount <- MCRowCount
  IdBlock = 5
  P = 7
  MaxCommits = 2
  MaxFiles = 1
  ExpectedShards = 2
  MaxReadFailures = 2
  IdleStop = 1
INVARIANTS
  OfferEndedIsWhole
  ValidRunIsExact
CHECK_DEADLOCK FALSE
ACTION_CONSTRAINT Interleaving
CONSTRAINT SmallWorld
