CONSTANTS
  Span = 5
  WordBits = 2
  LevelMax = 1
SPECIFICATION Spec
INVARIANTS
  DepthAtMostN
