SPECIFICATION Spec
CONSTANTS
  NumBlocks = 1
  ChunkRatio = 2
  Sectors = {0, 1}
  Mib = 2
  BlockMib = 1
  DataStart = 2
  MaxOffset = 5
  HasParent = TRUE
  Vals = {v1}
  Zero = Zero
  Old = Old
  Parent = Parent
  InitStates = {"NotPresent", "PartiallyPresent"}
  InitLens = {3}
  MayFail = TRUE
  MayCrash = FALSE
INVARIANT NoForeignData
