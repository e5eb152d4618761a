CONSTANTS
  Id = {a, b, c}
  NoId = NoId
  CycSize = 4
  SecUnits = 2
  MaxLag = 2
  IndexMod = 64
  TableSize = 4
  NewSizes = {}
  Delays <- Mixed
  FirstTime = 2
  MaxTime = 8
  MaxEvents = 0
SYMMETRY Symmetry
VIEW View
SPECIFICATION Spec
INVARIANTS TableRight RunsInDueOrder RemainingIsDue
