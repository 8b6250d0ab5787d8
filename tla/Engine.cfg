SPECIFICATION Spec
CONSTANTS
  BlockConfigs <- MCBlockConfigs
  Default = 16
  Kernel = 16
  Chunk = 64
  GraphConfigs <- MCGraphConfigs
  Platform = "rocm"
INVARIANTS
  PagesAgree
  SupportedIsResolved
  SizesFit
  GatherStaysOutside
CHECK_DEADLOCK FALSE
