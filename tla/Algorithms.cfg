\* Up to five requests (three bisection steps); every prime below 3500;
\* trigrams in 8-bit integers; every byte; every configuration of up to
\* four ranks; three devices.
SPECIFICATION SpecAlgorithms
CONSTANTS
  MaxReqs = 5
  MaxTokens = 5
  MaxValue = 3500
  MaxBase = 40
  MaxHeads = 3
  MaxLayers = 2
  MaxInt = 127
  Width = 8
  NGram = 3
  HeadsPerNgram = 2
  Tokens <- MCTokens
  Factors <- MCFactors
  HeadRows <- MCHeadRows
  PageSizes = {4, 16}
  ScaleDims = {4, 8, 16}
  MaxTP = 4
  MaxKvHeads = 3
  MaxSize = 8
  Dim = 2
  Devices = 3
  MaxMajor = 3
  MaxMinor = 9
INVARIANTS
  RequestIsFound
  TableIsDivided
  HashesAgree
  CacheIsNvfp4
  HeadsKeepTheirs
  PaddingSplits
  NamesOneDevice
CHECK_DEADLOCK FALSE
