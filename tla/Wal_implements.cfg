\* Two logging instances that only their flushers write out, one that checkpoints.
SPECIFICATION FairWalSpec
CONSTANTS
  Instances = {i1, i2, i3}
  Loggers = {i1, i2}
  Flushers = {}
  Replayers = {}
  Savers = {i3}
  Ops = {op}
  MaxClock = 3
  MaxSize = 0
  MaxRotatedKeep = 1
  TornWrites = FALSE
  Garbage = Garbage
  None = None
PROPERTIES EventuallySynced ImplementsLog
