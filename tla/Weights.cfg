SPECIFICATION SpecWeights
CONSTANTS
  PackedModules <- MCPackedModules
  Digits <- MCDigits
  Begins <- MCBegins
  Topics = {"layers", "formats", "linear"}
  LayerKeys <- MCLayerKeys
  DraftKeys <- MCDraftKeys
  ListedAlgos = {"FP8", "NVFP4", "FP8_BLOCK_SCALES"}
  LinearLayers <- MCLinearLayers
  ExpertLayers <- MCExpertLayers
  Names <- MCNames
  Raws <- MCRaws
  MaxEntries = 3
  HiddenLayers = 1
  DraftLayers = 1
  Widths <- MCWidths
  Block = 2
  Scales = {1, 2}
  Biases = {0, 1}
  Garbage = {0, 5}
INVARIANTS
  OwnEntryDecides
  DisagreementIsRefused
  FormatsAgree
  OutputIsOfTheCheckpoint
CHECK_DEADLOCK FALSE
