SPECIFICATION Spec
CONSTANTS
  NumBlocks = 2
  ChunkRatio = 2
  Sectors = {0, 1}
  Mib = 2
  BlockMib = 2
  DataStart = 2
  MaxOffset = 5
  HasParent = FALSE
  Vals = {v1}
  Zero = Zero
  Old = Old
  Parent = Parent
  InitStates = {"NotPresent", "FullyPresent"}
  InitLens = {3, 8}
  MayFail = TRUE
  MayCrash = TRUE
INVARIANT DurableInFile
PROPERTY IsVirtualDisk
