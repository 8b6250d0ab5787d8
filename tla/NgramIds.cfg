SPECIFICATION SpecScope
CONSTANTS
  MaxReqs = 2
  Tokens = {0, 1}
  Eos = 0
  NgramSize = 3
  NumSpec = 1
  MaxLen = 3
  MaxPrompt = 2
  MaxPad = 1
INVARIANTS
  KeptGramsAreOfHistory
  PathsAgree
CHECK_DEADLOCK FALSE
