SPECIFICATION Measures
CONSTANTS
  Epoch      = 1
  Adaptation = 3
  Window     = 2
  StaleAfter = 1
  MaxBound   = 1
  Skew       <- MCSkew
  Lags       <- MCLags
  Faults     <- MCFaults
  MaxRows    = 3
  LastTick   = 5
  Setups     <- MCSetups
  NoTime     = NoTime
INVARIANTS
  PassIsMeasured
  CapacityAfterAdaptation
  RecoveredIsNotUndersized
  FiguresAreConservative
  ValidRunBoundsStaleness
CONSTRAINT
  Bounded
ACTION_CONSTRAINT
  InterleavingOfGate
CHECK_DEADLOCK FALSE
