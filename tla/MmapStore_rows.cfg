\* Three ids contend for the rows of a file that starts with one; a get() runs beside the writer.
SPECIFICATION Spec
CONSTANTS
  Ids = {a, b, c}
  Vals = {v}
  Zero = Zero
  Absent = Absent
  NoClaim = NoClaim
  None = None
  Readers = {r1}
  InitialCapacity = 1
  GrowthFactor = 2
INVARIANTS RowsNotShared AcknowledgedDurable
PROPERTY StoredIdsKeepTheirRow
SYMMETRY Sym
