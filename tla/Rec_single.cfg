\* One service at a time, every request.
SPECIFICATION Spec
CONSTANTS
  s1 = s1
  s2 = s2
  v1 = v1
  v2 = v2
  id1 = id1
  id2 = id2
  Services = {s1}
  Instances <- OneService
  Loggers <- OwnOfOne
  Flushers <- OwnOfOne
  Replayers = {}
  Savers <- FreshOfOne
  Ops <- Operations
  Ids = {id1}
  Vals = {v1, v2}
  Kinds = {"hnsw"}
  Requests = {"create", "recreate", "batch", "update", "rewrite", "delete", "build", "save",
              "load", "recycle"}
  BuildLimit = 1
  MaxClock = 3
  MaxSize = 0
  MaxRotatedKeep = 1
  TornWrites = FALSE
  Absent = Absent
  Missing = Missing
  Broken = Broken
  Garbage = Garbage
  None = None
INVARIANTS DiskRecoversDb LoadedIndexMatchesDb
SYMMETRY SwapVals
