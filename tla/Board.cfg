CONSTANTS
  Word = 64
  MaxSide = 7
  Params <- MCParams
SPECIFICATION Spec
CHECK_DEADLOCK FALSE
INVARIANT
  PositionsAreFound
