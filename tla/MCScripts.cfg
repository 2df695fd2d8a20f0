SPECIFICATION Scripts
CONSTANTS
  RunMax   = 7
  Interval = 2
  Breaches = 2
  Managed  = TRUE
  Lead = 3
  Slack = 2
  FirstPollWait = 3
  MaxLaunches = 2
  MaxTime = 10
  RelaunchOffered = TRUE
  Operators = {alice, bob}
  MaxScripts = 5
  Meanwhile = TRUE
INVARIANTS
  TypeOK
  NothingLeftUnreported
  TornDownForCause
  PublishedIsWhole
  ScoredFromTheStart
  EpochIsOffered
  SavedRunIsPurged
PROPERTIES
  LaunchedRunEnds
  OfferedInTime
CHECK_DEADLOCK FALSE
