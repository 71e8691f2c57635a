-------------------------------- MODULE Bytecode -------------------------------
(***************************************************************************)
(* The lowering of an expression to a program for the VM (BytecodeCompiler *)
(* in compiler.rs).                                                        *)
(*                                                                         *)
(* A program is its instructions, the pools of constants and strings they  *)
(* index (from 0), the expressions left to the tree evaluation, and the    *)
(* programs of its predicates and object constructors.  The compiler's     *)
(* state is the program emitted so far.                                    *)
(***************************************************************************)
EXTENDS Compiled, Peephole

EmptyProgram == [code |-> <<>>, consts |-> <<>>, strings |-> <<>>,
                 falls |-> <<>>, subs |-> <<>>]

Here(c) == Len(c.code) + 1
Emit(c, op, arg) == [c EXCEPT !.code = Append(@, Instr(op, arg))]

\* The pools: an entry that is there is used again, and an index is a word.
Interned(pool, v) == IF Contains(pool, v) THEN pool ELSE Append(pool, v)
IndexIn(pool, v)  == Word((CHOOSE i \in DOMAIN pool : pool[i] = v) - 1)

EmitConst(c, v) ==
  LET pool == Interned(c.consts, v)
  IN Emit([c EXCEPT !.consts = pool], "PushConst", IndexIn(pool, v))

EmitNamed(c, op, name) ==
  LET pool == Interned(c.strings, name)
  IN Emit([c EXCEPT !.strings = pool], op, IndexIn(pool, name))

EmitFallback(c, e) ==
  Emit([c EXCEPT !.falls = Append(@, e)], "EvalFallback", Word(Len(c.falls)))

EmitSub(c, op, program) ==
  Emit([c EXCEPT !.subs = Append(@, program)], op, Word(Len(c.subs)))

\* A jump is emitted before its target is known, and patched.
Patched(c, at, target) == [c EXCEPT !.code[at].arg = Signed(target - (at + 1))]

Finish(c) == [c EXCEPT !.code = Optimised(@)]

RECURSIVE EmitExpr(_, _), Compile(_)

EmitAll(c, es) == FoldLeft(EmitExpr, c, es)

\* `and` and `or`: both operands jump to the same constant; past them is the other.
EmitShortCircuit(c, e, jump, through) ==
  LET left  == Emit(EmitExpr(c, e.args[1]), jump, 0)
      right == Emit(EmitExpr(left, e.args[2]), jump, 0)
      past  == Emit(EmitConst(right, Bool(through)), "Jump", 0)
      done  == EmitConst(past, Bool(~ through))
  IN Patched(Patched(Patched(done, Len(left.code), Here(past)),
                     Len(right.code), Here(past)),
             Len(past.code), Here(done))

EmitConditional(c, e) ==
  LET test == Emit(EmitExpr(c, e.args[1]), "JumpIfFalsy", 0)
      then == Emit(EmitExpr(test, e.args[2]), "Jump", 0)
      done == IF Len(e.args) = 3 THEN EmitExpr(then, e.args[3])
                                 ELSE Emit(then, "PushUndefined", 0)
  IN Patched(Patched(done, Len(test.code), Here(then)), Len(then.code), Here(done))

\* A fault: the value that was looked at stays below the one that takes its place.
CoalesceWithoutPop(c, e) ==
  LET test == Emit(EmitExpr(c, e.args[1]), "JumpIfUndef", 0)
      past == Emit(test, "Jump", 0)
      done == EmitExpr(past, e.args[2])
  IN Patched(Patched(done, Len(test.code), Here(past)), Len(past.code), Here(done))

EmitCoalesce(c, e) ==
  LET test == Emit(EmitExpr(c, e.args[1]), "JumpIfUndef", 0)
      past == Emit(test, "Jump", 0)
      done == EmitExpr(Emit(past, "Pop", 0), e.args[2])
  IN Patched(Patched(done, Len(test.code), Here(past)), Len(past.code), Here(done))

\* A path without predicates is a chain of lookups; one step with a predicate is
\* a lookup and a filter; any other is left to the tree evaluation.
EmitFieldPath(c, e) ==
  LET plain == \A i \in DOMAIN e.steps : e.steps[i].filter = <<>>
      first == e.steps[1].field
      head  == IF e.dollar THEN EmitNamed(c, "GetDataItemsField", first)
                           ELSE EmitNamed(Emit(c, "PushData", 0), "GetField", first)
  IN CASE plain -> FoldLeft(LAMBDA p, step : EmitNamed(p, "GetField", step.field),
                            head, Tail(e.steps))
       [] ~ plain /\ Len(e.steps) = 1 /\ ~ e.dollar ->
            EmitSub(EmitNamed(c, "GetDataField", first), "FilterByBytecode",
                    Compile(e.steps[1].filter[1]))
       [] OTHER -> EmitFallback(c, e)

\* An object constructor's body runs over a context of its own: a program of its own.
ObjectBody(e) ==
  LET pairs == FoldLeftDomain(
                 LAMBDA b, i : EmitExpr(EmitConst(b, Str(e.keys[i])), e.args[i]),
                 EmptyProgram, e.args)
  IN Finish(Emit(Emit(pairs, "MakeObject", Word(Len(e.args))), "Return", 0))

EmitExpr(c, e) ==
  CASE e.op = "literal" -> EmitConst(c, e.value)
    [] e.op = "context" -> Emit(c, "PushData", 0)
    [] e.op = "path"    -> EmitFieldPath(c, e)
    [] e.op \in {"arithmetic", "compare"} -> Emit(EmitAll(c, e.args), e.fn, 0)
    [] e.op = "negate"  -> Emit(EmitAll(c, e.args), "Negate", 0)
    [] e.op = "and"     -> EmitShortCircuit(c, e, "JumpIfFalsy", TRUE)
    [] e.op = "or"      -> EmitShortCircuit(c, e, "JumpIfTruthy", FALSE)
    [] e.op = "if"      -> EmitConditional(c, e)
    [] e.op = "coalesce" -> EmitCoalesce(c, e)
    [] e.op = "array"   ->
         IF \E i \in DOMAIN e.nested : e.nested[i] THEN EmitFallback(c, e)
         ELSE Emit(EmitAll(c, e.args), "MakeArray", Word(Len(e.args)))
    [] e.op = "object"  -> EmitSub(c, "ConstructObject", ObjectBody(e))
    [] e.op = "block"   ->
         LET all == EmitAll(c, e.args)
         IN IF Len(e.args) > 1 THEN Emit(all, "BlockEnd", Word(Len(e.args))) ELSE all
    [] e.op = "call"    ->
         LET named == EmitNamed(EmitAll(c, e.args), "CallBuiltin", e.fn)
         IN [named EXCEPT !.code[Len(named.code)] =
               [op |-> "CallBuiltin", arg |-> @.arg, argc |-> Len(e.args)]]

Compile(e) == Finish(Emit(EmitExpr(EmptyProgram, e), "Return", 0))

\* What keeps an expression from the compiler: too many nodes for its pools.
TooLargeToPool(e) == NodeCount(e) > 2^WordBits - 1
=============================================================================
