SPECIFICATION Spec
CONSTANTS
  NumBlocks = 2
  ChunkRatio = 2
  Sectors = {0}
  Mib = 2
  BlockMib = 2
  DataStart = 2
  MaxOffset = 8
  HasParent = TRUE
  Vals = {v1}
  Zero = Zero
  Old = Old
  Parent = Parent
  InitStates = {"NotPresent", "PartiallyPresent"}
  InitLens = {3, 8}
  MayFail = TRUE
  MayCrash = TRUE
INVARIANTS TypeOK LayoutSafe DurableInFile ValidatorAccepts Inv

