\* A service saves an index that misses what another one logged.
SPECIFICATION Spec
CONSTANTS
  s1 = s1
  s2 = s2
  v1 = v1
  v2 = v2
  id1 = id1
  id2 = id2
  Services = {s1, s2}
  Instances <- TwoServices
  Loggers <- OwnOfTwo
  Flushers <- OwnOfTwo
  Replayers = {}
  Savers <- FreshOfTwo
  Ops <- Operations
  Ids = {id1, id2}
  Vals = {v1}
  Kinds = {"hnsw"}
  Requests = {"create", "build", "save"}
  BuildLimit = 1
  MaxClock = 4
  MaxSize = 0
  MaxRotatedKeep = 1
  TornWrites = FALSE
  Absent = Absent
  Missing = Missing
  Broken = Broken
  Garbage = Garbage
  None = None
INVARIANT DiskRecoversDb
