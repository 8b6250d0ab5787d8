SPECIFICATION SpecScope
CONSTANTS
  Reqs = {1, 2}
  Slots = {s1, s2}
  Null = null
  KernelSize = 3
  Dilation = 2
  NumSpec = 1
  MaxChunk = 2
  MaxPad = 1
  MaxSteps = 3
SYMMETRY SlotsAlike
INVARIANTS
  OutputsAreOfHistory
  WindowHoldsHistory
CHECK_DEADLOCK FALSE
