\* Two layers, two steps: a gather of one token runs inline, one of two tokens
\* takes two chunks (3 + 1 rows) on two threads and makes the buffer grow.
SPECIFICATION FairSpec
CONSTANTS
  NumLayers = 2
  Heads = 2
  MaxTokens = 2
  ChunkRows = 3
  NumThreads = 2
  MinCap = 3
  MaxSteps = 2
INVARIANTS
  ForwardReadsItsStep
  FailedStepNotServed
PROPERTIES
  NoWriteUnderCopy
  ImplementsLookup
  EveryBatchServed
