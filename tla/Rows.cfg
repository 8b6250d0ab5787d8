SPECIFICATION SpecRows
CONSTANTS
  TP = 3
  Rows = 5
  PerRank = 2
  Byte = 4
  Slots = 2
  Table <- TableValue
  Checkpoints <- AllCheckpoints
  NgramParts = 3
  EmbeddingDim = 2
  ChunkRows = 3
  Other = Other
  StrayFile = old
  MaxShards = 3
  MaxShardRows = 3
  DraftTP = 2
  Vocab = 3
  PerDraftRank = 2
  Ks <- Settings
  Logits <- LogitValues
  MinusInf = MinusInf
INVARIANTS
  SumIsCopy
  RowsAreTheirOwn
  ReadersAgree
  LogitsOfPrefix
CHECK_DEADLOCK FALSE
