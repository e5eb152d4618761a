CONSTANTS
  CallOut = {x, y}
  None = None
  NoPatch = NoPatch
  MaxHandle = 3
  MaxLevel = 2
  NoId = NoId
  CycSize = 1
  SecUnits = 1
  MaxLag = 1
  IndexMod = 8
  HeapTimes = {1, 2, 3, 4}
  MaxEntries = 7
  Jobs <- StructureJobs
  Call <- StructureCall
  Agrees <- StructureAgrees
  Chars = {0, 1, 2}
  MaxCalls = 4
  Sources <- StructureSources
  NewParser <- StructureParser
  ParseWith <- StructureParsed
  SavedParser <- StructureSaved
  LoadedParser <- StructureLoaded
  IsModified <- StructureModified
  AllowsResult <- StructureAllowed
  FitsMemory <- StructureSizes
SYMMETRY Symmetry
SPECIFICATION StructuresSpec
INVARIANTS TypeOK FreeRight CountRight PatchesRight AsnRight RegexpsRight ParsesRight SizesRight
PROPERTIES IsAtomic HeapKept
