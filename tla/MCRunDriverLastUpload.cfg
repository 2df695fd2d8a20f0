SPECIFICATION Spec
CONSTANTS
  RunMax   = 5
  Interval = 2
  Breaches = 2
  Managed  = TRUE
INVARIANT
  FinalUploadsCollected
CHECK_DEADLOCK FALSE
