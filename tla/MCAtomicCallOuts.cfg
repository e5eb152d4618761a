CONSTANTS
  Id = {a, b}
  NoId = NoId
  NoPatch = NoPatch
  CycSize = 4
  SecUnits = 2
  MaxLag = 2
  IndexMod = 64
  TableSize = 6
  NewSizes = {}
  Delays <- Mixed
  FirstTime = 2
  MaxTime = 5
  MaxEvents = 1
SYMMETRY Symmetry
VIEW View
SPECIFICATION AtomicSpec
INVARIANT TableAgrees
