SPECIFICATION Spec
CONSTANTS
  Names <- MCNames
  Param = "x"
  Fns = {f1, f2}
  Data = Data
  EvalFn = EvalFn
  Unbound = Unbound
  MaxId = 3
  MaxCalls = 4
  Forms <- WholeLanguage
INVARIANTS TypeOK FramesInOrder LexicalScope NoCycles EntryRestored StackBalanced
PROPERTIES ImplementsEnvironments
\* The host may stop evaluating, and ids run out at MaxId.
CHECK_DEADLOCK FALSE
