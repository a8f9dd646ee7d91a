SPECIFICATION ByteSpec
CONSTANTS
  NumBlocks = 2
  ChunkRatio = 2
  Sectors = {0, 1}
  Mib = 2
  BlockMib = 1
  DataStart = 2
  MaxOffset = 4
  HasParent = TRUE
  Vals <- Mixed
  Zero <- ZeroSector
  Old <- OldSector
  Parent <- ParentSector
  InitStates = {"NotPresent", "Zero"}
  InitLens = {4, 6}
  MayFail = FALSE
  MayCrash = FALSE
  SectorBytes = 2
  DiskSectors = 3
  Written = {"v"}
  Ranges <- SomeRanges
  Lengths = {1, 3}
  Answers = {"none", "other", "coarse", "fits", "short"}
  Stranger <- OldSector
INVARIANT ReadsWhatIsThere
PROPERTIES IsVirtualDisk IsByteDisk
