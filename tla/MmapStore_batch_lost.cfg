\* An acknowledged add_batch item that cannot be read back.
SPECIFICATION Spec
CONSTANTS
  Ids = {a, b}
  Vals = {v, w}
  Zero = Zero
  Absent = Absent
  NoClaim = NoClaim
  None = None
  Readers = {}
  InitialCapacity = 1
  GrowthFactor = 2
INVARIANT BatchItemsStored
SYMMETRY Sym
