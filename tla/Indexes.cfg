\* Three vectors in each graph, two layers; two vectors in two cells.
SPECIFICATION IndexesSpec
CONSTANTS
  Ids = {1, 2, 3}
  At <- Line
  Dist <- Gap
  M = 1
  EfConstruction = 2
  MaxExpansion = 4
  TopLevel = 1
  None = None
  VIds = {u1, u2, u3}
  Points = {0, 1, 6}
  Metric <- MCMetric
  Infinity = 100
  MaxDegree = 2
  BeamWidth = 4
  Alpha <- MCAlpha
  MaxNodes = 3
  MaxOpens = 1
  NoNode = 0
  NoPoint = NoPoint
  IvfIds = {i1, i2}
  IvfVectors = {"x1", "x2"}
  Cells <- MCCells
  NumCells = 2
  MaxTrains = 2
  MaxAdds = 4
INVARIANTS TypeOK EdgesMutual SearchEndsAtOptimum FilteredSearchExact VamanaSearchFindsLive IvfListsMatchVectors
SYMMETRY IndexSymmetry
