SPECIFICATION CreateSpec
CONSTANTS
  Options <- SomeOptions
  Sizes <- SomeSizes
  TableSize = 64
  HalfMib = 512
  EntriesPerMib = 4
  SectorsPerMib = 4
  ChunkSectors = 8
  LargeSector = 2
  MaxSize = 32
  MaxBlock = 2
INVARIANTS TypeOK FirstChunkAgrees EveryPlaceOnce EntriesInRegion
INVARIANTS CreatedIsGood ParentNamed HalfCreatedHonest ValidatedOpens
CHECK_DEADLOCK FALSE
