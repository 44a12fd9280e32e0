\* One consumer thread, batches of two; five pages, two jobs; three shards, two threads.
SPECIFICATION ServicesSpec
CONSTANTS
  Rows = {a}
  Changes = {"upsert", "blank", "delete"}
  Feeders = {f}
  Stopper = s
  BatchSize = 2
  MaxEvents = 3
  MaxStarts = 1
  Pages = {1, 2, 3, 4, 5}
  Seeds <- MCSeeds
  Sites <- MCSites
  CrawlJobs = {j1, j2}
  MaxPages = 2
  MaxDepth = 2
  MaxCrashes = 1
  Searches = {q1, q2}
  Shards <- MCShards
  VectorIds <- MCVectorIds
  Holdings <- MCHoldings
  Hanging = {"s1"}
  Workers = 2
  K = 2
  Oversample = 1
INVARIANTS CdcEventsInOnePlace CdcMirrorsSource CrawlIsBreadthFirst CrawlCovers RowsHaveSparseEntry TopKExact
PROPERTIES CdcBufferDrains CrawlEnds SearchesEnd
\* Jobs and searches end, and the bounds stop the rest.
CHECK_DEADLOCK FALSE
