SPECIFICATION Prepare
CONSTANTS
  MaxTaskManagers = 2
  MaxSlots = 2
  MaxParallelism = 3
  MaxOverrides = 2
  MaxLosses = 1
  Partitions = 2
  Places = {"compose", "kubernetes"}
  x = x
  y = y
  facts = facts
  spec = spec
  Attempts = {1, 2, 3}
  Runs = {1, 2}
  Drivers = {x, y}
  FileOrder <- MCFileOrder
  Engines = {"flink", "spark"}
  Heads = {h1}
  Workers = {w1, w2}
  Guaranteed = {h1, w1}
  Wanted = 1
  PollS = 1
  RunningWaitS = 2
  Tries = 2
  a = a
  b = b
  None = None
  RunIds = {a, b}
  Finishers = {x, y}
  VariantNames = {"hash"}
  Roots <- MCRoots
  Facts <- MCFacts
  MaxDay = 2
  MaxScripts = 3
  NBatches = 3
  Variants = {x, y}
  ShardCounts = {1, 2, 3}
  MaxGens = 2
  MaxByHand = 1
INVARIANTS
  VerifiedIsAsked
  OwnSettingsAreNoDrift
  CorpusIsWhole
  MergedIsOneGeneration
  FetchedIsStaged
  ReturnedIsVerified
  AcceptedIsSound
CONSTRAINT Explored
SYMMETRY Interchangeable
CHECK_DEADLOCK FALSE
