\* Two clients, two keys, one entry per level; one snapshot directory; two
\* polling threads that save two items; three audit events and two faults.
SPECIFICATION StoresSpec
CONSTANTS
  Keys = {k1, k2}
  Clients = {c1, c2}
  MaxL1 = 1
  MaxL2 = 1
  MaxPuts = 3
  MaxBoots = 1
  Opaque = {3}
  NoKey = NoKey
  Requesters = {}
  MaxSchedulers = 1
  MaxWrites = 2
  MaxSeconds = 1
  MaxSnapshots = 2
  MaxRestores = 1
  MaxPitrCrashes = 1
  Items = {"i1", "i2", "i3"}
  Listings <- MCListings
  MaxItemsPerRun = 2
  SeenCap = 2
  Damaged = Damaged
  MaxLoops = 2
  MaxTries = 3
  MaxReboots = 1
  Loggers = {l1, l2}
  MaxAuditEvents = 3
  MaxAuditFaults = 2
INVARIANTS CacheServesNewest CacheFilesTracked PitrRestoreBringsBack IngestedOnce AuditEventsKept
SYMMETRY StoresSymmetry
\* The bounds on puts and snapshots stop a behaviour.
CHECK_DEADLOCK FALSE
