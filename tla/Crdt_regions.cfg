\* Two regions that write one id and a third that relays; deltas late, twice or never.
SPECIFICATION CrdtSpec
CONSTANTS
  Regions = {r1, r2, r3}
  Writers = {r1, r2}
  Restarters = {r1, r2}
  Importers = {r3}
  Ids = {v1}
  MaxTs = 2
  MaxOps = 2
  MaxDeltas = 3
  None = None
INVARIANTS SetIsLastWriterWins Converged ClocksOrderKnowledge ConcurrentWritesReported ClaimsAreHeld
SYMMETRY WriterSymmetry
