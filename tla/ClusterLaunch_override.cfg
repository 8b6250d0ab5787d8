\* A setting outside FORWARD_VARS, set for one launch.
SPECIFICATION SpecCluster
CONSTANTS
  NumNodes = 2
  Knobs = {"PORT", "TP3_HCAS"}
  Forwarded = {"PORT"}
  NumPorts = 2
  Fabrics <- MCFabrics
  MaxRuns = 2
INVARIANT OverridesReachAllRanks
CHECK_DEADLOCK FALSE
