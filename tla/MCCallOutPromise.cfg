CONSTANTS
  Id = {a, b}
  NoId = NoId
  CycSize = 4
  SecUnits = 2
  MaxLag = 2
  IndexMod = 64
  TableSize = 4
  NewSizes = {5}
  Delays <- Near
  FirstTime = 2
  MaxTime = 5
  MaxEvents = 1
SPECIFICATION FairSpec
INVARIANTS CellsRight NoOversleep
PROPERTIES KeepsPromise EveryCallOutRuns
