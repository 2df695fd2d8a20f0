SPECIFICATION Rows
CONSTANTS
  NShards = 1
  NBatches = 2
  NOffered = 2
  RowCount <- MCRowCount
  IdBlock = 5
  P = 7
  Mantissa = 4
  ChunkRows = 2
  MaxRows = 3
  MaxTotal = 5
  Parts = 4
  Growths <- MCGrowths
  Others <- MCOthers
  Targets <- MCTargets
  NoWidth = NoWidth
  Plans <- MCPlans
  Surveys <- MCSurveys
  Absent = Absent
  Idle = Idle
INVARIANTS
  MatchesLedger
  SubstitutionDetected
  ExactMeansNoFault
  StoredIsDrawn
  ClosestOfAll
  FiguresAreTheRows
  ReportIsTheTable
CONSTRAINT InTurn
CHECK_DEADLOCK FALSE
