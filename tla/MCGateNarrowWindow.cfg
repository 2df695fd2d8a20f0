SPECIFICATION Spec
CONSTANTS
  Epoch      = 1
  Adaptation = 6
  Window     = 1
  StaleAfter = 1
  MaxBound   = 1
  Skew       = 0
  Lags       <- MCLags
  Faults     <- MCFaults
  MaxRows    = 3
  LastTick   = 5
INVARIANT
  CapacityAfterAdaptation
CONSTRAINT
  FirstVerdict
ACTION_CONSTRAINT
  Interleaving
CHECK_DEADLOCK FALSE
