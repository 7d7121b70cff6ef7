CONSTANTS
  Inputs <- MCInputs
  Row <- MCRow
  RowRecency <- MCRowRecency
  RowMoment <- MCRowMoment
  Memory <- MCMemory
  MemoryRecency <- MCMemoryRecency
  MemoryMoment <- MCMemoryMoment
  Matching <- MCMatching
  RecencyWeight = 30
  TemporalWeight = 60
  MemoryPoolFactor = 1
  RerankTop = 2
  FtsCap = 2
  ScanLimit = 2
  TitleTurns = 1
  WrappedChunk = 2
SPECIFICATION Spec
INVARIANTS SearchSound ListingSound ReadingSound TextSound RepairSound
CHECK_DEADLOCK FALSE
