SPECIFICATION Spec
CONSTANTS
  Names <- MCNames
  Param = "x"
  Fns = {f1}
  Data = Data
  EvalFn = EvalFn
  Unbound = Unbound
  MaxId = 5
  MaxCalls = 6
  Forms <- TailBuiltinForms
INVARIANTS TailBaseExact
PROPERTIES IndicesStayTrue
\* The host may stop evaluating, and ids run out at MaxId.
CHECK_DEADLOCK FALSE
