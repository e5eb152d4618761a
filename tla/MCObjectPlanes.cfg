CONSTANTS
  Name = {p, q}
  NoName = NoName
  NoPatch = NoPatch
  MaxObjects = 2
  MaxLevel = 2
  RecompileLevel = 1
SYMMETRY Symmetry
SPECIFICATION Spec
INVARIANTS NamesRight IndexListsRight
PROPERTY IsAtomic
