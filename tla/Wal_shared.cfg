\* Two instances that log, flush, read and checkpoint, with rotation and torn writes.
SPECIFICATION WalSpec
CONSTANTS
  Instances = {i1, i2}
  Loggers = {i1, i2}
  Flushers = {i1}
  Replayers = {i2}
  Savers = {i2}
  Ops = {op}
  MaxClock = 3
  MaxSize = 2
  MaxRotatedKeep = 1
  TornWrites = TRUE
  Garbage = Garbage
  None = None
INVARIANTS OneCopy SyncedIsReplayed
