SPECIFICATION SpecForward
CONSTANTS
  Layers = 3
  Stages = 3
  MaxBatches = 2
  Embed <- MCEmbed
  Plus <- MCPlus
  Combine <- MCCombine
  Ple <- MCPle
  Block <- MCBlock
  Inject <- MCInject
  Deep <- MCDeep
  DraftRequests = 3
  DraftRows = 2
  MtpLayers = 1
  Steps = 3
  DraftRounds = 2
  LayerConfigs <- MCLayerConfigs
  Addresses = {"a", "b"}
  PageSize = 2
  Pages = 2
  StepRows = 2
  Pad = 1
  Requests = 2
  Keys = {1, 2}
  Ratio = 3
  Ring = 4
  ChunkRows = 5
  Drafts = 1
  BatchRows = 5
  MaxLen = 5
  Rounds = 2
  Selections <- MCSelections
  Blocks = 2
  KernelRequests = 1
  MaxScore = 2
INVARIANTS
  MixerHasItsInput
  SelectionIsReused
  RowsReadTheirSelection
  QueriesFindTheirHead
  PooledIsHistory
  OutputIsSoftmax
PROPERTY StreamSpec
CHECK_DEADLOCK FALSE
