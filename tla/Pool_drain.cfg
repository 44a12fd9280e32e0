\* One request left in the queue when stop() is called.
SPECIFICATION FairSpec
CONSTANTS
  Items = {a, b}
  MinBatch = 1
  MaxBatch = 2
  TargetDepth = 2
  MaxWorkers = 1
  MaxQueueSize = 2
  MaxStarts = 1
PROPERTY DrainKeepsCoordinator
