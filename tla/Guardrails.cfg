SPECIFICATION FairSpec
CONSTANTS
  None = None
  OptionSets <- MCOptions
  MaxEvalDepth = 2
  Kinds <- CheckedKinds
  MaxCalls = 4
  MaxLeft = 2
  MaxClock = 2
INVARIANTS TypeOK DepthExact
PROPERTIES RaisedWithReason StopsWhenTold EndsWhenTold
