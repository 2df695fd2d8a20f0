SPECIFICATION Spec
CONSTANTS
  NShards = 1
  NBatches = 2
  NOffered = 2
  RowCount <- MCRowCount
  IdBlock = 5
  P = 7
  MaxCommits = 3
  MaxFiles = 2
  ExpectedShards = 1
  MaxReadFailures = 2
  IdleStop = 1
INVARIANTS
  CountedOnce
  HonestEngineIsExact
PROPERTIES
  EvidenceOnlyGrows
CHECK_DEADLOCK FALSE
ACTION_CONSTRAINT Interleaving
CONSTRAINT GoodOffer
