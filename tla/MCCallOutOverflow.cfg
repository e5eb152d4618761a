CONSTANTS
  Id = {a, b, c}
  NoId = NoId
  CycSize = 4
  SecUnits = 1
  MaxLag = 2
  IndexMod = 64
  TableSize = 3
  NewSizes = {}
  Delays <- Mixed
  FirstTime = 1
  MaxTime = 6
  MaxEvents = 0
SYMMETRY Symmetry
VIEW View
SPECIFICATION Spec
INVARIANT NoOverflow
