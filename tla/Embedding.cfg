SPECIFICATION EmbeddingSpec
CONSTANTS
\* Python's dicts and stack
  Main = 0
  Nowhere = Nowhere
  MaxPyCalls = 5
  Dicts = {"outer", "inner"}
  Keys = {"a"}
  PyValues <- MCPyValues
  MaxWrappers = 3
\* the drop of values
  Nodes <- MCNodes
  Heaps <- MCHeaps
  SmallPayload = 1
  Room = 2
  RedZone = 4
  CheckEvery = 2
  Limits = {TRUE, FALSE}
\* names
  Names <- MCNames
  Fns <- MCFns
  Data = Data
  EvalFn = EvalFn
  Unbound = Unbound
  Closures = {c1}
  Pure = {"string"}
  Inlined = {"map"}
  Impure = {"now"}
  StepIds = {"string", "map", "now"}
  MaxStepBodies = 1
  NoStep = NoStep
  Variables = {"map", "f"}
  Uses = {"map"}
  MaxFrames = 3
  MaxFrameId = 3
  MaxBound = 2
\* handles
  Handles = {"e", "f"}
  Compilable = {"e"}
  BindNames = {"x"}
  HostNames = {"string", "now", "own"}
  CompiledFns = {"string"}
  OtherFns = {"now"}
  MaxNested = 4
  MaxSettings = 3
INVARIANTS
  EmbeddingTypeOK BoundsOfCalls NothingFreedEarly DropFitsUnlessShared
  FastPathsAgree SameInEveryPosition SlotOfLastCall
PROPERTY ReadsAgree
\* The host may stop at any time, and every exploration ends at its bounds.
CHECK_DEADLOCK FALSE
