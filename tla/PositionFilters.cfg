SPECIFICATION Spec
CONSTANTS
  WordBits = 16
  Cases <- PositionCases
INVARIANT SameAsTree
CHECK_DEADLOCK FALSE
