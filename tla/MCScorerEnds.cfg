SPECIFICATION Spec
CONSTANTS
  NShards = 2
  NBatches = 1
  NOffered = 1
  RowCount <- MCRowCount
  IdBlock = 5
  P = 7
  MaxCommits = 1
  MaxFiles = 1
  ExpectedShards = 1
  MaxReadFailures = 2
  IdleStop = 1
PROPERTIES
  ScorerEnds
CHECK_DEADLOCK FALSE
