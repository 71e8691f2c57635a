SPECIFICATION FairSpec
CONSTANTS
  None = None
  OptionSets <- MCOptions
  MaxEvalDepth = 2
  Kinds <- MatcherKinds
  MaxCalls = 3
  MaxLeft = 1
  MaxClock = 1
PROPERTY CancelStops
