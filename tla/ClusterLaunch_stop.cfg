\* A stop with a worker that is away.
SPECIFICATION SpecCluster
CONSTANTS
  NumNodes = 3
  Knobs = {"PORT"}
  Forwarded = {"PORT"}
  NumPorts = 2
  Fabrics <- MCFabrics
  MaxRuns = 2
INVARIANT StoppedEverywhere
CHECK_DEADLOCK FALSE
