CONSTANTS
  Name = {p}
  NoName = NoName
  NoPatch = NoPatch
  MaxObjects = 2
  MaxLevel = 2
  RecompileLevel = 2
SPECIFICATION Spec
INVARIANT Findable
