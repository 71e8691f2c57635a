----------------------------- MODULE MCExpressions -----------------------------
(***************************************************************************)
(* Expressions of a few pieces over nested objects and arrays.             *)
(***************************************************************************)
EXTENDS Expressions

a == NameTok("a")
b == NameTok("b")
c == NameTok("c")
x == VarTok("x")
z == VarTok("z")
dollar == VarTok("")
n(i) == LitTok(Num(i))
In(open, toks, close) == <<Tok(open)>> \o toks \o <<Tok(close)>>
Dot(toks) == <<Tok(".")>> \o toks
Up == <<Tok("%")>>
Where(toks) == In("[", toks, "]")
Block1(toks) == In("(", toks, ")")

MCNames == {"x", "z"} \cup ToSet(Labels)

ObjOf(p) == Obj(Each(LAMBDA q : q[1], p), Each(LAMBDA q : q[2], p))
Leaf(i)  == ObjOf(<< <<"c", Num(i)>> >>)
One == ObjOf(<< <<"a", ObjOf(<< <<"b", Leaf(1)>>, <<"c", Num(2)>> >>)>> >>)
Many2 == ObjOf(<< <<"a", Plain(<< ObjOf(<< <<"b", Leaf(2)>>, <<"c", Num(1)>> >>),
                            ObjOf(<< <<"b", Plain(<<Leaf(0), Leaf(1)>>)>> >>) >>)>>,
                 <<"c", Num(3)>> >>)

\* Paths with predicates of every kind, sorts, groups and bindings.
OfPaths ==
  [heads |-> {<<a>>, <<dollar>>, Block1(<<a>> \o Dot(<<b>>)), Where(<<a, Tok(","), a>>)},
   goOn  |-> {Dot(<<b>>), Dot(<<c>>), Dot(Up), Where(<<c>>), <<Tok("["), Tok("]")>>, Where(<<n(0)>>),
              <<Tok("@"), x>>, <<Tok("#"), z>>, <<Tok("^"), Tok("("), b, Tok(")")>>,
              Dot(Block1(<<b>> \o Dot(<<c>>))), In("{", <<LitTok(Str("a")), Tok(":"), c>>, "}"),
              Dot(Where(<<b, Tok(","), x>>)), Dot(<<z>>), Where(Up \o Dot(<<c>>)), Dot(<<dollar>>)},
   pieces |-> 3, truths |-> FALSE, inputs |-> {One, Many2}]

Is(toks, i) == Where(toks \o <<Tok("="), n(i)>>)
OfAncestors ==
  [heads |-> {<<a>>, Block1(<<a>> \o Dot(<<b>>))},
   goOn  |-> {Dot(<<b>>), Dot(<<c>>), Dot(Up), Is(<<c>>, 1), Is(Up \o Dot(<<c>>), 1), Dot(<<b>>) \o Is(Up \o Dot(Up) \o Dot(<<c>>), 3),
              Dot(<<b, Tok("@"), x>>), Dot(<<a, Tok("@"), x>>), Dot(<<b, Tok("#"), z>>), Dot(<<b>>) \o Is(<<c>>, 1) \o <<Tok("#"), z>>,
              Dot(Block1(<<b>> \o Dot(<<c>>))), Dot(Block1(Up \o Dot(<<b>>))), Dot(Where(<<c, Tok(","), x>> \o Dot(<<c>>))),
              Dot(<<z>>), Dot(Where(Up \o Dot(<<c, Tok(",")>>) \o Up \o Dot(Up) \o Dot(<<c>>))), Dot(<<x>>), Dot(<<a>>)},
   pieces |-> 4, truths |-> TRUE, inputs |-> {Many2}]
\* A predicate after a sort sees its tuples as objects, as jsonata-js has it.
OfSorts ==
  [OfAncestors EXCEPT !.heads = {<<a>> \o Dot(<<b>>)},
     !.goOn = (@ \ {Is(<<c>>, 1), Is(Up \o Dot(<<c>>), 1), Dot(<<b>>) \o Is(Up \o Dot(Up) \o Dot(<<c>>), 3)})
                \cup {<<Tok("^"), Tok("(")>> \o Up \o Dot(<<c, Tok(")")>>)}]

OfOperators ==
  [heads |-> {<<a>>}, goOn |-> {<<Tok(t), b>> : t \in {":=", "??", "?:", "and", "or", "=", "~>", "+", "*", ".."}},
   pieces |-> 5, truths |-> FALSE, inputs |-> {}]

\* Expressions of nothing but depth, on either side of the limits.
Nest(open, inner, close, k) == FlattenSeq([i \in 1 .. k |-> open]) \o inner \o FlattenSeq([i \in 1 .. k |-> close])
DeepHeads ==
  UNION {{Nest(<<Tok("(")>>, <<a>>, <<Tok(")")>>, k), Nest(<<Tok("-")>>, <<a>>, <<>>, k),
          Nest(<<Tok("[")>>, <<a>>, <<Tok("]")>>, k), Nest(<<a, Tok("[")>>, <<b>>, <<Tok("]")>>, k),
          Nest(<<a, Tok("."), Tok("(")>>, <<b>>, <<Tok(")")>>, k), Nest(<<>>, <<a>>, <<Tok("#"), z>>, k),
          Nest(<<>>, <<a>>, <<Tok("+"), b>>, k), Nest(<<a, Tok(":=")>>, <<b>>, <<>>, k)} : k \in {2, 3, 4, 5, 6, 10, 11, 12}}
OfDepth ==
  [heads |-> DeepHeads, goOn |-> {Dot(<<b>>), Where(<<c>>), <<Tok("+"), b>>, Dot(Up)},
   pieces |-> 3, truths |-> FALSE, inputs |-> {}]

OfLiterals ==
  [heads |-> {<<n(1)>>, <<LitTok(Str("a"))>>, Block1(<<n(1)>>), <<Tok("-"), n(1)>>, <<a>>},
   goOn  |-> {Dot(<<n(1)>>), Dot(<<LitTok(Str("b"))>>), Dot(<<b>>), Where(<<n(0)>>), <<Tok("@"), x>>, <<Tok("#"), z>>,
              <<Tok("^"), Tok("("), b, Tok(")")>>, In("{", <<LitTok(Str("a")), Tok(":"), c>>, "}"), Dot(Block1(<<n(1)>>))},
   pieces |-> 4, truths |-> FALSE, inputs |-> {One}]

\* Names bound again within what sees them, by bindings, by group-bys and by assignments.
Rebinds == <<b, Tok("@"), x>> \o Dot(<<x>>) \o Dot(<<c>>)
OfNames ==
  [heads |-> {<<a, Tok("@"), x>>, <<a>> \o Dot(<<b, Tok("@"), x>>), <<a, Tok("#"), x>>},
   goOn  |-> {Dot(Block1(Rebinds)), Dot(Block1(Rebinds \o <<Tok(";"), x>>)), Where(Rebinds), Where(<<x>> \o Dot(<<c>>)),
              In("{", <<LitTok(Str("a")), Tok(":")>> \o Where(Rebinds \o <<Tok(","), x>>), "}"),
              In("{", <<c, Tok(":")>> \o Block1(<<dollar, Tok(";")>> \o Rebinds), "}"),
              Dot(Block1(<<x, Tok(":="), c>>)), Dot(<<x>>), Dot(<<b, Tok("#"), x>>)},
   pieces |-> 3, truths |-> FALSE, inputs |-> {One, Many2}]

MCFamilies ==
  [names |-> OfNames, paths |-> OfPaths, ancestors |-> OfAncestors, sorts |-> OfSorts, operators |-> OfOperators,
   deep |-> OfDepth, literals |-> OfLiterals]
=============================================================================
