SPECIFICATION Spec
CONSTANTS
  NShards = 2
  NBatches = 4
  NOffered = 3
  QueueLimit = 2
  RowCount <- MCRowCount
INVARIANTS
  TypeOK
  TrailerMeansDelivered
  OneOwnerPerBatch
PROPERTIES
  LoggedBatchIsFinal
  EveryShardStops
  ImplementsOffer
CHECK_DEADLOCK FALSE
