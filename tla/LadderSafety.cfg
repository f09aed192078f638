CONSTANTS
  Span = 9
  WordBits = 2
  LevelMax = 2
SPECIFICATION Spec
INVARIANTS
  TypeOK
  BestExact
  BitmapExact
  SumRangeExact
