SPECIFICATION Spec
CONSTANTS
  NShards = 1
  NBatches = 1
  NOffered = 1
  RowCount <- MCRowCount
  IdBlock = 5
  P = 7
  MaxCommits = 1
  MaxFiles = 2
  ExpectedShards = 1
  MaxReadFailures = 5
  IdleStop = 1
INVARIANT DrainedReadWholeCommits
CHECK_DEADLOCK FALSE
