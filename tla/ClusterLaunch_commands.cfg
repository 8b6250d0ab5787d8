\* Three nodes, three commands in a row, every failure of each.
SPECIFICATION SpecCluster
CONSTANTS
  NumNodes = 3
  Knobs = {"GMU"}
  Forwarded = {"GMU"}
  NumPorts = 2
  Fabrics <- MCFabrics
  MaxRuns = 3
INVARIANTS
  LaunchIsWhole
  ForwardedAgree
  StopMissesOnlyFailed
  FabricIsWhole
PROPERTIES
  HeadComesLast
CHECK_DEADLOCK FALSE
