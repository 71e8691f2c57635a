SPECIFICATION FairSpec
CONSTANTS
  WordBits = 16
  Cases <- VmCases
INVARIANTS
  SameAsTree
  OperandsKept
PROPERTY Terminates
CHECK_DEADLOCK FALSE
