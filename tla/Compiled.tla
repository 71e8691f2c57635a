-------------------------------- MODULE Compiled -------------------------------
(***************************************************************************)
(* Expressions as the evaluator compiles them (CompiledExpr), and what the *)
(* tree evaluation, eval_compiled, makes of each: the reference for the    *)
(* bytecode VM, and the VM's own fallback.                                 *)
(*                                                                         *)
(* An expression is a record: its operator, its operands `args`, and what  *)
(* the operator has besides.  Left out: the higher-order calls and named   *)
(* variables, which reach the VM only inside a fallback; `&`, which looks  *)
(* into strings; `/` and `%`; Not, which the parser never makes.           *)
(***************************************************************************)
EXTENDS JValues

Literal(v)       == [op |-> "literal", args |-> <<>>, value |-> v]
Context          == [op |-> "context", args |-> <<>>]
Arithmetic(f, l, r) == [op |-> "arithmetic", args |-> <<l, r>>, fn |-> f]
Compare(f, l, r) == [op |-> "compare", args |-> <<l, r>>, fn |-> f]
And(l, r)        == [op |-> "and", args |-> <<l, r>>]
Or(l, r)         == [op |-> "or", args |-> <<l, r>>]
Negate(e)        == [op |-> "negate", args |-> <<e>>]
Coalesce(l, r)   == [op |-> "coalesce", args |-> <<l, r>>]
If(c, t)         == [op |-> "if", args |-> <<c, t>>]
IfElse(c, t, e)  == [op |-> "if", args |-> <<c, t, e>>]
Block(es)        == [op |-> "block", args |-> es]
Call(f, es)      == [op |-> "call", args |-> es, fn |-> f]
\* nested[i]: the i-th element is itself an array constructor.
Array(es, nested) == [op |-> "array", args |-> es, nested |-> nested]
Object(keys, es) == [op |-> "object", args |-> es, keys |-> keys]
\* The steps of a path: a field and at most one predicate each.
Field(f)     == [field |-> f, filter |-> <<>>]
Where(f, e)  == [field |-> f, filter |-> <<e>>]
Path(steps)  == [op |-> "path", args |-> <<>>, steps |-> steps, dollar |-> FALSE]
From(steps)  == [op |-> "path", args |-> <<>>, steps |-> steps, dollar |-> TRUE]

Steps(e) == IF e.op = "path" THEN e.steps ELSE <<>>
Filters(e) == FlattenSeq([i \in DOMAIN Steps(e) |-> Steps(e)[i].filter])

\* What compiled_expr_node_count_exceeds counts.
RECURSIVE NodeCount(_)
NodeCount(e) ==
  FoldLeft(LAMBDA n, sub : n + NodeCount(sub), 1 + Len(Steps(e)), e.args \o Filters(e))

(***************************************************************************)
(* The operators on values, shared by the tree evaluation and the VM.      *)
(***************************************************************************)
ArithmeticOn(fn, l, r) ==
  CASE IsNum(l) /\ IsNum(r) -> Num(CASE fn = "+" -> l.n + r.n
                                     [] fn = "-" -> l.n - r.n
                                     [] fn = "*" -> l.n * r.n)
    [] ~ (IsNum(l) \/ IsUndef(l)) -> Err("T2001")
    [] ~ (IsNum(r) \/ IsUndef(r)) -> Err("T2002")
    [] OTHER -> Undefined

Comparable(v) == v.k \in {"number", "string", "undefined"}

OrderedCompare(fn, l, r) ==
  LET Holds(x, y) == CASE fn = "<" -> x < y [] fn = "<=" -> x <= y
                       [] fn = ">" -> x > y [] fn = ">=" -> x >= y
  IN CASE ~ (Comparable(l) /\ Comparable(r)) -> Err("T2010")
       [] IsUndef(l) \/ IsUndef(r) -> Undefined
       [] IsNum(l) /\ IsNum(r) -> Bool(Holds(l.n, r.n))
       [] l.k = "string" /\ r.k = "string" -> Bool(Holds(Rank(l.s), Rank(r.s)))
       [] OTHER -> Err("T2009")

CompareOn(fn, l, r) ==
  CASE fn = "="  -> Bool(ValuesEqual(l, r))
    [] fn = "!=" -> Bool(~ IsUndef(l) /\ ~ IsUndef(r) /\ ~ ValuesEqual(l, r))
    [] OTHER     -> OrderedCompare(fn, l, r)

NegateOn(v) ==
  CASE IsNum(v) -> Num(-v.n) [] IsUndef(v) -> Undefined [] OTHER -> Err("D1002")

\* An array constructor's elements: the arrays among them are spliced in,
\* unless they are constructors themselves.
ArrayFrom(values, nested) ==
  Arr(FoldLeftDomain(LAMBDA list, i : list \o
        CASE IsUndef(values[i]) -> <<>>
          [] IsArr(values[i]) /\ ~ nested[i] -> values[i].items
          [] OTHER -> <<values[i]>>, <<>>, values))

\* Three builtins stand for the pure ones: one of two arguments, whose order
\* shows; one of one; and one that takes the context when it has none.
AppendOn(first, second) ==
  CASE IsUndef(second) -> first
    [] IsUndef(first)  -> second
    [] OTHER -> Arr(Flattened(<<first, second>>))

DispatchPure(fn, args, context) ==
  LET arg == IF args = <<>> THEN context ELSE args[1]
  IN CASE fn = "append" -> AppendOn(args[1], args[2])
       [] IsUndef(arg) -> Undefined
       [] fn = "boolean" -> Bool(Truthy(arg))
       [] fn = "not" -> Bool(~ Truthy(arg))

\* How often a predicate's value selects the item at a position (from 0).
PredicateRepeats(pred, index, len) ==
  LET At(n) == (IF n < 0 THEN n + len ELSE n) = index
  IN CASE IsNum(pred) -> IF At(pred.n) THEN 1 ELSE 0
       [] IsArr(pred) /\ \A i \in DOMAIN pred.items : IsNum(pred.items[i]) ->
            Cardinality({i \in DOMAIN pred.items : At(pred.items[i].n)})
       [] OTHER -> IF Truthy(pred) THEN 1 ELSE 0

\* What an object constructor evaluates its values over.
GroupContext(items) == IF Len(items) = 1 THEN items[1] ELSE Arr(Flattened(Defined(items)))
ObjectContext(d) ==
  CASE IsArr(d) /\ d.outer -> Bare(d)
    [] IsArr(d) -> IF d.items = <<>> THEN Undefined ELSE GroupContext(d.items)
    [] OTHER -> d

(***************************************************************************)
(* Paths.                                                                  *)
(***************************************************************************)
RECURSIVE FieldStep(_, _)
FieldStep(f, v) ==
  CASE IsObj(v) -> Get(v, f)
    [] IsArr(v) ->
         Given(Flattened(Defined(Each(LAMBDA item : FieldStep(f, item), v.items))),
               LAMBDA found : IF found = <<>> THEN Undefined ELSE Sequence(found))
    [] OTHER -> Undefined

FieldValues(f, items) == Defined(Each(LAMBDA item : FieldStep(f, item), items))

CollectStepResults(values, last) ==
  IF last /\ Len(values) = 1 /\ IsArr(values[1]) /\ ~ values[1].sequence
  THEN values[1]
  ELSE Sequence(Flattened(values))

\* The leading plain steps over a single object: how many, and where they lead.
RECURSIVE WalkSingleValues(_, _, _)
WalkSingleValues(steps, taken, v) ==
  IF taken = Len(steps) \/ steps[taken + 1].filter # <<>> \/ ~ IsObj(v)
  THEN <<taken, v>>
  ELSE LET next == Get(v, steps[taken + 1].field)
       IN IF IsUndef(next) THEN <<Len(steps), Undefined>>
          ELSE WalkSingleValues(steps, taken + 1, next)

PerItem(e, d) == IsArr(d) /\ (e.dollar \/ ~ d.outer)

RECURSIVE Eval(_, _), Node(_, _), StepsFrom(_, _, _)

\* A filter over one input item's value.
ApplyFilter(filter, v) ==
  LET items == IF IsArr(v) THEN v.items ELSE <<v>>
      Keep(tests) ==
        FoldLeftDomain(LAMBDA kept, i : kept \o
            [n \in 1..PredicateRepeats(tests[i], i - 1, Len(items)) |-> items[i]],
          <<>>, items)
  IN Given(Each(LAMBDA item : Eval(filter, item), items),
           LAMBDA tests : FirstError(tests, Sequence(Keep(tests))))

\* A step over the items the steps before it gave: the predicate, if there is
\* one, is applied to the value of each of them.
Step(step, items, last) ==
  LET found == FieldValues(step.field, items)
  IN Given(IF step.filter = <<>> THEN found
           ELSE Each(LAMBDA v : ApplyFilter(step.filter[1], v), found),
           LAMBDA values : FirstError(values, CollectStepResults(values, last)))

\* The steps from index i on.
StepsFrom(steps, i, items) ==
  Given(Step(steps[i], items, i = Len(steps)), LAMBDA result :
    CASE i = Len(steps) \/ IsErr(result) -> result
      [] OTHER -> StepsFrom(steps, i + 1,
                    IF IsArr(result) /\ result.items # <<>> THEN result.items ELSE <<result>>))

EvalFieldPath(e, d) ==
  IF PerItem(e, d) THEN StepsFrom(e.steps, 1, d.items)
  ELSE Given(WalkSingleValues(e.steps, 0, d), LAMBDA walked :
    LET taken == walked[1] at == walked[2]
    IN CASE taken = Len(e.steps) -> at
         [] taken > 0 /\ IsArr(at) /\ at.items # <<>> -> StepsFrom(e.steps, taken + 1, at.items)
         [] OTHER -> StepsFrom(e.steps, taken + 1, <<at>>))

(***************************************************************************)
(* The tree evaluation of an expression over the data it is applied to.    *)
(***************************************************************************)
\* Operands are evaluated from left to right; the first error is the result.
Strict(e, d, Op(_)) ==
  Given(Each(LAMBDA arg : Eval(arg, d), e.args),
        LAMBDA values : FirstError(values, Op(values)))

\* The first operand decides: an error stays one, and then or else go on from its value.
Decide(e, d, Test(_), Then(_), Else(_)) ==
  Given(Eval(e.args[1], d),
        LAMBDA v : IF IsErr(v) THEN v ELSE IF Test(v) THEN Then(v) ELSE Else(v))

Node(e, d) ==
  LET Arg(i)  == Eval(e.args[i], d)
      Verdict(i) == Given(Arg(i), LAMBDA v : IF IsErr(v) THEN v ELSE Bool(Truthy(v)))
  IN CASE e.op = "literal" -> e.value
       [] e.op = "context" -> Bare(d)
       [] e.op = "path"    -> EvalFieldPath(e, d)
       [] e.op = "arithmetic" -> Strict(e, d, LAMBDA v : ArithmeticOn(e.fn, v[1], v[2]))
       [] e.op = "compare" -> Strict(e, d, LAMBDA v : CompareOn(e.fn, v[1], v[2]))
       [] e.op = "negate"  -> Strict(e, d, LAMBDA v : NegateOn(v[1]))
       [] e.op = "block"   -> Strict(e, d, LAMBDA v : Last(v))
       [] e.op = "call"    -> Strict(e, d, LAMBDA v : DispatchPure(e.fn, v, d))
       [] e.op = "array"   -> Strict(e, d, LAMBDA v : ArrayFrom(v, e.nested))
       [] e.op = "object"  -> Strict(e, ObjectContext(d), LAMBDA v : ObjectFrom(e.keys, v))
       [] e.op = "and" -> Decide(e, d, Truthy, LAMBDA v : Verdict(2), LAMBDA v : Bool(FALSE))
       [] e.op = "or"  -> Decide(e, d, Truthy, LAMBDA v : Bool(TRUE), LAMBDA v : Verdict(2))
       [] e.op = "coalesce" -> Decide(e, d, IsUndef, LAMBDA v : Arg(2), LAMBDA v : v)
       [] e.op = "if"  -> Decide(e, d, Truthy, LAMBDA v : Arg(2),
                                 LAMBDA v : IF Len(e.args) = 3 THEN Arg(3) ELSE Undefined)

Eval(e, d) == UnwrapSequence(Node(e, d))
=============================================================================
