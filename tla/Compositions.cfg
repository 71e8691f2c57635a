SPECIFICATION Spec
CONSTANTS
  Names <- OnlyParam
  Param = "x"
  Fns = {f1, f2, f3, f4}
  Data = Data
  EvalFn = EvalFn
  Unbound = Unbound
  MaxId = 5
  MaxCalls = 5
  Forms <- CompositionForms
INVARIANTS StackBalanced
PROPERTIES HostFrameUntouched
\* The host may stop evaluating, and ids run out at MaxId.
CHECK_DEADLOCK FALSE
