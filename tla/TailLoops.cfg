SPECIFICATION Spec
CONSTANTS
  Names <- MCNames
  Param = "x"
  Fns = {f1, f2}
  Data = Data
  EvalFn = EvalFn
  Unbound = Unbound
  MaxId = 5
  MaxCalls = 4
  Forms <- TailForms
INVARIANTS KeepsWhatItSees
PROPERTIES FrameReusedIffUnseen
\* The host may stop evaluating, and ids run out at MaxId.
CHECK_DEADLOCK FALSE
