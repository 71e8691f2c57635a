---------------------------------- MODULE MCVm ---------------------------------
(***************************************************************************)
(* Expressions and inputs for the VM's runs: every operator over every     *)
(* pair of leaves, operators within operators where jumps nest, and        *)
(* predicates and object constructors within one another.                  *)
(***************************************************************************)
EXTENDS Vm

A == Path(<<Field("a")>>)
B == Path(<<Field("b")>>)
Const(n) == Literal(Num(n))

\* Paths: of one step and two, from `$`, with predicates.
Paths ==
  {A, B, Path(<<Field("a"), Field("b")>>), From(<<Field("a")>>),
   From(<<Field("a"), Field("b")>>)}

Leaves == {Const(0), Const(1), Literal(Str("z")), Literal(Bool(TRUE)), Literal(Null),
           Context, A, Path(<<Field("a"), Field("b")>>), From(<<Field("b")>>)}

Binary(l, r) ==
  {Arithmetic("+", l, r), Arithmetic("-", l, r), Compare("=", l, r), Compare("!=", l, r),
   Compare("<", l, r), Compare(">=", l, r), And(l, r), Or(l, r), Coalesce(l, r),
   If(l, r), Block(<<l, r>>), Call("append", <<l, r>>),
   Array(<<l, r>>, <<FALSE, FALSE>>), Object(<<"a", "b">>, <<l, r>>)}

Unary(e) == {Negate(e), Call("not", <<e>>), Array(<<e>>, <<FALSE>>), Object(<<"b">>, <<e>>)}

Simple == Leaves \cup UNION {Binary(l, r) : l \in Leaves, r \in Leaves}
                 \cup UNION {Unary(e) : e \in Leaves} \cup {Call("boolean", <<>>)}

\* Jumps within jumps, and within what they jump over.
Small == {A, B, Const(1)}
Branches(l, r) == {And(l, r), Or(l, r), Coalesce(l, r), If(l, r), IfElse(l, r, A),
                   IfElse(B, l, r)}
Inner == UNION {Branches(l, r) : l \in Small, r \in Small}
NestedJumps == UNION {Branches(e, A) \cup Branches(B, e) : e \in Inner}
               \cup {Block(<<e, A>>) : e \in Inner}
               \cup {Object(<<"a", "b">>, <<e, B>>) : e \in Inner}
               \cup {Arithmetic("+", Const(1), e) : e \in Inner}

\* Predicates, by truth and by position.  A literal number is not compiled.
ByTruth    == {Compare("=", B, Const(1)), And(A, B), Call("not", <<B>>),
               Object(<<"b">>, <<B>>)}
ByPosition == {Arithmetic("-", Const(1), Const(1)), Context, B, If(B, A),
               Array(<<B, Arithmetic("-", B, B)>>, <<FALSE, FALSE>>)}

Filtered(pred) == Path(<<Where("a", pred)>>)

\* A predicate at the top, of a path of more steps, within another predicate,
\* within object constructors, and with operands waiting on the stack below it.
Filtering(preds) ==
  UNION {{Filtered(p), From(<<Where("a", p)>>), Path(<<Where("a", p), Field("b")>>),
          Path(<<Field("a"), Where("b", p)>>), Filtered(Filtered(p)),
          Object(<<"b">>, <<Filtered(p)>>),
          Object(<<"a", "b">>, <<A, Object(<<"a">>, <<Filtered(p)>>)>>),
          Arithmetic("+", Const(1), Filtered(p)),
          Array(<<Filtered(p), Array(<<A>>, <<FALSE>>)>>, <<FALSE, TRUE>>)} : p \in preds}

(***************************************************************************)
(* Inputs.  Objects of the same fields in another order, which a shape     *)
(* cache must not confuse; arrays, and arrays of arrays.                   *)
(***************************************************************************)
AB(x, y) == Obj(<<"a", "b">>, <<x, y>>)
BA(x, y) == Obj(<<"b", "a">>, <<y, x>>)
OnlyB(y) == Obj(<<"b">>, <<y>>)

Flat   == AB(Num(1), Num(0))
Swapped == BA(Str("b"), Num(1))
Deep   == BA(Arr(<<AB(Num(1), Num(1)), BA(Num(0), Num(2)), OnlyB(Num(0))>>), Bool(TRUE))
Lists  == AB(Arr(<<Num(0), Num(2), Null>>), AB(Num(1), Arr(<<Num(1), Num(0)>>)))
Nested == Arr(<<Deep, AB(Arr(<<Arr(<<AB(Num(0), Num(1))>>)>>), Num(0))>>)
Inputs == {Flat, Swapped, Deep, Lists, OnlyB(Null)}

On(exprs, runs) == [expr : exprs, inputs : runs]

VmCases ==
  On(Simple, {<<Deep, Swapped>>, <<Arr(<<Flat, Swapped>>)>>, <<Lists>>, <<Num(1)>>})
  \cup On(NestedJumps, {<<Flat, Swapped>>, <<Deep>>})
  \cup On(Filtering(ByTruth \cup ByPosition), {<<x, y>> : x \in Inputs, y \in Inputs})
  \cup On(Filtering(ByTruth), {<<Nested, Deep>>, <<Arr(<<>>), Nested>>, <<Arr(<<Nested>>)>>})

(***************************************************************************)
(* For the runs that show where the code leaves what its comments say.     *)
(***************************************************************************)
\* Predicates that select by position, in an object constructor over an array.
PositionCases == On({Object(<<"x">>, <<Filtered(p)>>) : p \in ByPosition},
                    {<<Arr(<<Lists, Lists>>)>>, <<Nested>>})
=============================================================================
