CONSTANTS
  Objects = {o1, o2}
  Tracked = o1
  X = x
  Y = y
  Z = z
  ContentsOf <- MCContentsOf
  Tables = tables
  Blank = blank
  Unused = unused
  Sectors = 3
  Slots = 2
  MaxSize = 2
  SizesOf <- MCSizesOf
  Kinds = {TRUE, FALSE}
  MaxIndex = 4
SYMMETRY Symmetry
CONSTRAINT ShortOnceSaved
SPECIFICATION Spec
INVARIANTS SectorsRight ReadsBack Recoverable
