------------------------------ MODULE Expressions ------------------------------
(***************************************************************************)
(* Expressions from their tokens to their values: written a piece at a     *)
(* time, parsed (Parser), passed over for their ancestors (Ancestry), and  *)
(* evaluated (Paths) on an evaluator that is used again.                   *)
(***************************************************************************)
EXTENDS Parser, Ancestry, Paths, Trails

\* Kinds of expressions: what one starts with and goes on with, pieces of tokens,
\* how many of those, the values it is evaluated against, and whether its
\* predicates are truths, so that Trails says what it means.
CONSTANT Families

VARIABLES
  family, text,  \* the pieces written so far
  compiled,      \* what became of them: parsed, then rewritten
  ev,            \* the evaluator
  answer         \* of the last evaluation, and what else it might have been

vars == <<family, text, compiled, ev, answer>>

Kind    == Families[family]
Nothing == [k |-> "nothing"]
Tokens  == FlattenSeq(text)

(***************************************************************************)
(* What an expression might be parsed to besides.                          *)
(***************************************************************************)
\* The operators from the loosest, those alike as one; an assignment goes right to
\* left, the others left to right.
Looser == << {":="}, {"??", "?:"}, {".."}, {"or"}, {"and"}, {"=", ">", "<", "in", "~>"}, {"+", "-", "&"}, {"*"} >>
Looseness(t) == CHOOSE level \in DOMAIN Looser : t \in Looser[level]

\* Names and operators in turn, taken apart at the loosest operator.
RECURSIVE Loosest(_)
Loosest(toks) ==
  LET operators == {i \in DOMAIN toks : i % 2 = 0}
      level == Min({Looseness(toks[i].t) : i \in operators})
      those == {i \in operators : Looseness(toks[i].t) = level}
      at == IF level = 1 THEN Min(those) ELSE Max(those)
  IN IF Len(toks) = 1 THEN PathOf(<<Step(Name(toks[1].f), <<>>)>>)
     ELSE Binary(toks[at].t, Loosest(SubSeq(toks, 1, at - 1)), Loosest(SubSeq(toks, at + 1, Len(toks))))

\* A text with its group-bys at the end.
IsGroup(piece) == piece[1].t = "{"
GroupLast(pieces) ==
  FlattenSeq(SelectSeq(pieces, LAMBDA piece : ~ IsGroup(piece)) \o SelectSeq(pieces, IsGroup))

\* An array of a text after another.
InArray(first, toks) == <<Tok("[")>> \o first \o <<Tok(",")>> \o toks \o <<Tok("]")>>

\* What of note is in a rewritten tree: operators that should have gone, ancestors
\* without a label, literals as steps of a path.
RECURSIVE Within(_)
Within(node) ==
  (IF IsBind(node) THEN {"binding"} ELSE {})
    \cup (IF node = Parent("") THEN {"unlabelled"} ELSE {})
    \cup (IF ~ IsPath(node) THEN {}
          ELSE IF Len(node.steps) > 1 /\ \E i \in DOMAIN node.steps : node.steps[i].node.op = "lit"
          THEN {"literal step"} ELSE {})
    \cup (IF Depth(node) - 1 > MaxTransformDepth THEN {"too deep"} ELSE {})
    \cup UNION {Within(Parts(node)[i]) : i \in DOMAIN Parts(node)}

Init ==
  /\ family \in DOMAIN Families
  /\ text \in {<<head>> : head \in Kind.heads}
  /\ compiled = Nothing
  /\ ev = Fresh(FALSE)
  /\ answer = Nothing

Write(piece) ==
  /\ compiled = Nothing
  /\ Len(text) < Kind.pieces
  /\ text' = Append(text, piece)
  /\ UNCHANGED <<family, compiled, ev, answer>>

\* parse, which ends in resolve_ancestry.
CompileText ==
  /\ compiled = Nothing
  /\ compiled' = Given(Parse(Tokens), LAMBDA r :
       Given(IF r.p.ok THEN ResolveAncestry(r.node) ELSE Transformed(r.node, <<>>, Initial), LAMBDA t :
         [k |-> IF ~ r.p.ok THEN "syntax" ELSE IF Going(t.st) THEN "ready" ELSE "rejected",
          parsed |-> r.node, node |-> IF Going(t.st) THEN t.node ELSE r.node, st |-> t.st,
          meant |-> IF family = "operators" THEN Loosest(Tokens)
                    ELSE IF family = "paths" THEN Parse(GroupLast(text)).node ELSE r.node,
          alike |-> family = "deep" =>
                      Parse(InArray(Tokens, Tokens)).p.ok = Parse(InArray(<<NameTok("a")>>, Tokens)).p.ok,
          holds |-> IF r.p.ok /\ Going(t.st) THEN Within(t.node) ELSE {}]))
  /\ UNCHANGED <<family, text, ev, answer>>

Run(data) ==
  /\ compiled.k = "ready"
  /\ answer' = Given(Each(LAMBDA s : EvaluateIn(compiled.node, data, s), <<ev, Fresh(TRUE)>>), LAMBDA r :
       [k |-> "answer", v |-> r[1].v, raw |-> r[1].raw, left |-> r[1].left, s |-> r[1].s, plain |-> r[2].v,
        meant |-> IF Kind.truths THEN ValuesFrom(compiled.parsed, data) ELSE <<>>])
  /\ ev' = answer'.s
  /\ UNCHANGED <<family, text, compiled>>

Next ==
  \/ \E piece \in Kind.goOn : Write(piece)
  \/ CompileText
  \/ \E data \in Kind.inputs : Run(data)

Spec == Init /\ [][Next]_vars

(***************************************************************************)
(* Properties.                                                             *)
(***************************************************************************)
Answered == answer # Nothing

RECURSIVE Unmarked(_)
Unmarked(v) ==
  CASE IsArr(v) -> Plain(Each(Unmarked, v.items))
    [] IsObj(v) -> [v EXCEPT !.vals = Each(Unmarked, @)]
    [] OTHER -> v

\* `$`, a tuple's names and a lone path's steps are bound by shortcuts that write into
\* the scope at hand and put back what was there, that hand on a value instead of
\* walking it, and that skip what reads nothing: the value is the same as when each
\* item, tuple and block has a scope of its own and nothing is skipped.
ShortcutsAgree == Answered => Unmarked(answer.v) = Unmarked(answer.plain)

\* evaluate: after an evaluation, failed or not, the evaluator is what a new one is:
\* no scope, name, `$$` or request to keep tuples is left by a path, predicate, sort or
\* group-by that an error got out of.
NothingStays == [ev EXCEPT !.made = FALSE] = Fresh(FALSE)

\* evaluate's debug_assert: "a successful evaluation pops every scope it pushes".
ScopesBalanced == Answered /\ ~ IsErr(answer.v) => Len(answer.left.frames) = 2

\* So every evaluation starts from the same state, whatever ones before it did.
EvaluatorAsNew == NothingStays /\ ScopesBalanced

\* A path, sort or block asked by what is around it to keep its tuples, and only then,
\* gives them: none is in a result, nor in an array or object of one, and the walk that
\* unwrap_tuple_output takes over a result finds nothing of these expressions to unwrap.
NoTupleEscapes == Answered => ~ HoldsTuple(answer.raw)

CountIn(list, v) == Cardinality({i \in DOMAIN list : list[i] = v})
SameBag(l, m) == Len(l) = Len(m) /\ \A i \in DOMAIN l : CountIn(l, l[i]) = CountIn(m, l[i])

\* `%`, `@$v` and `#$i`, found by labels on steps and carried by tuples, are what the
\* text says: each item of the result is reached along a trail of the input's values,
\* and a `%` is the value so many moves back on that trail, a name the value it was
\* bound to there, however parentheses, predicates, sorts and arrays wrap the path.
AncestorsReached == Answered /\ Kind.truths => SameBag(ItemsWithin(answer.v), answer.meant)

IsCompiled == compiled # Nothing

\* parse_expression's loop over binding powers nests a text of names and operators as
\* their precedence and direction say.
OperatorsNest == IsCompiled /\ family = "operators" => compiled.parsed = compiled.meant

\* A group-by written before later steps, predicates, sorts or bindings of a path is
\* parsed as one written after them: it groups what the whole path gives.
GroupMovesOut ==
  IsCompiled /\ family = "paths" /\ text[1] = <<NameTok("a")>> /\ compiled.k # "syntax"
    /\ Cardinality({i \in DOMAIN text : IsGroup(text[i])}) = 1
    => compiled.parsed = compiled.meant

\* The parser's depth, counted up by recursion and by what the loop nests, is what it
\* was when an expression ends: whether a text is too deep does not depend on a sibling
\* parsed before it.
SiblingsIndependent == IsCompiled => compiled.alike

\* So a text is parsed as its reading says, wherever it stands.
ParsedAsMeant == OperatorsNest /\ GroupMovesOut /\ SiblingsIndependent

\* substitute_labels walks the whole tree with a depth limit of its own, after the walk
\* that labels it: it never fails on a tree that walk accepted, so the error that would
\* leave the tree half labelled is not met.
FinalizingNeverTooDeep == IsCompiled => compiled.st.error # "U1002, finalizing"

\* What the evaluator cannot read has gone from a tree that is ready: every `@` and `#`
\* is a name on a step, every `%` has a label, no step of a path is a literal, in the
\* parts and predicates of every node, and no tree is deeper than the walks allow.
NothingLeftOver == IsCompiled => compiled.holds = {}

\* An alias leads to a label that some step has, and not to another alias.
AliasesOneHop ==
  IsCompiled => \A l \in DOMAIN compiled.st.aliases : compiled.st.aliases[l] \notin DOMAIN compiled.st.aliases

\* So the evaluator gets a tree whose names and labels all lead somewhere, or an error.
TreeReady == FinalizingNeverTooDeep /\ NothingLeftOver /\ AliasesOneHop
=============================================================================
