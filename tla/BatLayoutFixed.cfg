SPECIFICATION Spec
CONSTANTS
  Sizes <- SmallSizes
  TableSize = 64
  HalfMib = 512
  EntriesPerMib = 8
  SectorsPerMib = 4
  ChunkSectors = 8
  LargeSector = 2
INVARIANT ReaderAgrees
CHECK_DEADLOCK FALSE
