-------------------------------- MODULE Parser --------------------------------
(***************************************************************************)
(* The Pratt parser (parser.rs) over a list of tokens: primary expressions *)
(* and infix operators by binding power, which build a path's steps flat,  *)
(* and the depth it counts, of its own recursion and of what its loop      *)
(* nests.                                                                  *)
(*                                                                         *)
(* A token is named by its `t`: a name, variable or literal with what it   *)
(* stands for, or a mark by itself.  Which of several errors an expression *)
(* has is reported is left out: it parses, or it does not.                 *)
(***************************************************************************)
EXTENDS Syntax

CONSTANT MaxParseDepth    \* MAX_PARSE_DEPTH

Tok(t) == [t |-> t]
NameTok(f)   == [t |-> "name", f |-> f]
VarTok(n)    == [t |-> "variable", n |-> n]
LitTok(v)    == [t |-> "literal", v |-> v]
\* `function`, which is a name where no `(` follows.
FunctionTok  == [t |-> "function", f |-> "f"]

(***************************************************************************)
(* The parser: its tokens, the one it is at, its depth, whether it failed, *)
(* and whether a literal step was met, which fails it at the end.          *)
(***************************************************************************)
Start(toks) == [toks |-> toks, at |-> 1, depth |-> 0, ok |-> TRUE, literalStep |-> FALSE]
Peek(p)     == IF p.at \in DOMAIN p.toks THEN p.toks[p.at] ELSE Tok("eof")
Sees(p, t)  == Peek(p).t = t
Advance(p)  == [p EXCEPT !.at = @ + 1]
Fail(p)     == [p EXCEPT !.ok = FALSE]
Expect(p, t) == IF Sees(p, t) THEN Advance(p) ELSE Fail(p)

Parsed(node, p) == [node |-> node, p |-> p]
NoNode == Lit(Undefined)
Failing(p) == Parsed(NoNode, Fail(p))
\* What `F` makes of what was parsed, unless that failed.
OnParsed(r, F(_, _)) == Given(r, LAMBDA x : IF x.p.ok THEN F(x.node, x.p) ELSE x)

\* bump_parse_depth
BumpDepth(p) ==
  [p EXCEPT !.depth = @ + 1, !.ok = @ /\ p.depth < MaxParseDepth]
Nested(node, p) == Parsed(node, BumpDepth(p))

(***************************************************************************)
(* binding_power                                                           *)
(***************************************************************************)
\* A fault: `=` binds tighter on its right than `&`, `+` and `-` on their left.
EqualTighter(t) ==
  CASE t = "=" -> <<40, 51>> [] t = "and" -> <<30, 31>> [] t = "." -> <<75, 85>>
    [] t = ":=" -> <<10, 9>> [] t = "?:" -> <<15, 16>> [] t = "+" -> <<50, 51>> [] OTHER -> <<>>

Closing == {"eof", ")", "]", "}", ",", ";", ":"}
Postfix == {"[", "(", "{", "^", "#", "@"}
Powers(t) ==
  CASE t = "or" -> <<25, 26>>
    [] t = "and" -> <<30, 31>>
    [] t \in {"=", ">", "<", "in", "~>"} -> <<40, 41>>
    [] t \in {"&", "+", "-"} -> <<50, 51>>
    [] t \in {"*", "%"} -> <<60, 61>>
    [] t = "." -> <<75, 85>>
    [] t \in Postfix -> <<80, 81>>
    [] t \in {"?", ".."} -> <<20, 21>>
    [] t \in {"??", "?:"} -> <<15, 16>>
    [] t = ":=" -> <<10, 9>>
    [] OTHER -> <<>>

(***************************************************************************)
(* Groups, and strings that head a path.                                   *)
(***************************************************************************)
\* is_group_path
RECURSIVE IsGroupPath(_)
IsGroupPath(node) ==
  CASE IsPath(node) -> Len(node.steps) # 1 \/ node.steps[1].node.op = "name" \/ IsGroupPath(node.steps[1].node)
    [] node.op = "sort" -> TRUE
    [] IsBind(node) -> node.sym = "#" \/ IsGroupPath(node.l)
    [] OTHER -> FALSE

\* step_has_group, node_has_group: no predicate after a group, and no second group.
RECURSIVE StepHasGroup(_)
StepHasGroup(node) ==
  CASE node.op = "group" -> TRUE
    [] IsPath(node) -> Last(node.steps).node.op = "group"
    [] IsBind(node) -> StepHasGroup(node.l)
    [] OTHER -> FALSE
RECURSIVE NodeHasGroup(_)
NodeHasGroup(node) ==
  CASE node.op = "group" -> TRUE
    [] IsPath(node) -> ~ IsGroupPath(node) /\ node.steps[1].node.op = "group"
    [] IsBind(node) -> node.sym = "@" /\ NodeHasGroup(node.l)
    [] OTHER -> FALSE

\* string_step_to_name, path_steps_before_dot
RECURSIVE NameStep(_)
NameStep(node) ==
  CASE IsString(node) -> Name(node.v.s)
    [] IsPath(node) ->
         IF Len(node.steps) = 1
         THEN PathOf(Each(LAMBDA st : [st EXCEPT !.node = NameStep(@)], node.steps)) ELSE node
    [] node.op \in {"group", "sort"} -> [node EXCEPT !.input = NameStep(@)]
    [] IsBind(node) -> [node EXCEPT !.l = NameStep(@)]
    [] OTHER -> node
StepsBeforeDot(node) ==
  IF IsPath(node) THEN Each(LAMBDA st : [st EXCEPT !.node = NameStep(@)], node.steps)
  ELSE <<Step(NameStep(node), <<>>)>>

\* check_literal_step: whether there is a literal, and the strings that are names.
RECURSIVE IsLiteralNumber(_)
IsLiteralNumber(node) ==
  CASE node.op = "lit" -> IsNum(node.v)
    [] node.op = "neg" -> IsLiteralNumber(node.e)
    [] OTHER -> FALSE
RECURSIVE HasLiteralStep(_)
HasLiteralStep(node) ==
  CASE IsBind(node) -> HasLiteralStep(node.l)
    [] node.op \in {"sort", "group"} -> HasLiteralStep(node.input)
    [] IsPath(node) -> \E i \in DOMAIN node.steps : HasLiteralStep(node.steps[i].node)
    [] node.op = "lit" -> node.v.k \in {"bool", "null", "number"}
    [] OTHER -> IsLiteralNumber(node)
RECURSIVE StringsNamed(_)
StringsNamed(node) ==
  CASE IsBind(node) -> [node EXCEPT !.l = StringsNamed(@)]
    [] node.op \in {"sort", "group"} -> [node EXCEPT !.input = StringsNamed(@)]
    [] IsPath(node) -> PathOf(Each(LAMBDA st : [st EXCEPT !.node = StringsNamed(@)], node.steps))
    [] IsString(node) -> Name(node.v.s)
    [] OTHER -> node

\* check_path_literal_steps: it stops at the first literal.
CheckSteps(steps, p) ==
  LET literals == {i \in DOMAIN steps : HasLiteralStep(steps[i].node)}
      named == [i \in DOMAIN steps |->
                  IF \E j \in literals : j <= i THEN steps[i]
                  ELSE [steps[i] EXCEPT !.node = StringsNamed(@)]]
  IN Parsed(PathOf(named), [p EXCEPT !.literalStep = @ \/ literals # {}])

(***************************************************************************)
(* Calls: what the procedure is, by what is before the `(`.                *)
(***************************************************************************)
\* requote_called_step: a quoted name that is called is a string again.
RECURSIVE Requoted(_)
Requoted(node) ==
  CASE IsBind(node) -> [node EXCEPT !.l = Requoted(@)]
    [] IsPath(node) ->
         LET step == node.steps[1]
         IN IF Len(node.steps) = 1 /\ step.node.op = "name"
            THEN IF step.node.quoted
                 THEN PathOf(<<[step EXCEPT !.node = Lit(Str(step.node.f))]>>) ELSE node
            ELSE node
    [] OTHER -> node

\* split_bound_last_step, bound_call_rejected, unwrap_bound_application.
RECURSIVE SplitBound(_)
SplitBound(node) ==
  CASE IsBind(node) -> Given(SplitBound(node.l), LAMBDA r :
                         [context |-> r.context, last |-> [node EXCEPT !.l = r.last]])
    [] IsPath(node) ->
         IF Len(node.steps) > 1
         THEN [context |-> Front(node.steps), last |-> PathOf(<<Last(node.steps)>>)]
         ELSE [context |-> <<>>, last |-> node]
    [] OTHER -> [context |-> <<>>, last |-> node]

Callable == {"lambda", "block", "call", "function", "var", "name", "path", "binary", "apply", "sort", "group"}
RECURSIVE CallRejected(_)
CallRejected(node) ==
  CASE IsBind(node) -> CallRejected(node.l)
    [] IsPath(node) -> Len(node.steps) = 1 /\ node.steps[1].stages = <<>> /\ CallRejected(node.steps[1].node)
    [] OTHER -> node.op \notin Callable

RECURSIVE UnwrapApply(_)
UnwrapApply(node) ==
  CASE IsBind(node) -> [node EXCEPT !.l = UnwrapApply(@)]
    [] IsPath(node) ->
         LET step == node.steps[1]
         IN IF Len(node.steps) = 1 /\ step.node.op = "apply"
            THEN IF step.node.e.op = "block" THEN PathOf(<<[step EXCEPT !.node = step.node.e]>>) ELSE node
            ELSE node
    [] OTHER -> node

\* A call as the last step of the path before it, for each of the path's items.
CallStep(context, call) == PathOf(Append(context, Step(Apply(call), <<>>)))

\* What calling `node` is: a list with the call, or an empty one if it is no function.
CalledPath(node, args) ==
  LET last == Last(node.steps)
      context == Front(node.steps)
      f == last.node
      isBare == last.stages = <<>>
  IN CASE Len(node.steps) = 1 ->
            IF f.op = "name" /\ isBare THEN <<Function(f.f, args, FALSE)>> ELSE <<Call(node, args)>>
       [] f.op = "var" -> <<CallStep(context, Function(f.n, args, TRUE))>>
       [] f.op = "name" ->
            <<CallStep(context, IF isBare /\ ~ f.quoted THEN Function(f.f, args, FALSE)
                                ELSE Call(Requoted(PathOf(<<last>>)), args))>>
       [] f.op = "lambda" /\ isBare -> <<CallStep(context, Call(f, args))>>
       [] f.op = "apply" /\ isBare  -> <<CallStep(context, Call(f.e, args))>>
       [] OTHER -> <<>>

CalledBound(node, args) ==
  Given(SplitBound(node), LAMBDA r : Given(Requoted(r.last), LAMBDA procedure :
    IF CallRejected(procedure) THEN <<>>
    ELSE Given(Call(UnwrapApply(procedure), args), LAMBDA call :
           <<IF r.context = <<>> THEN call ELSE CallStep(r.context, call)>>)))

Called(node, args) ==
  CASE node.op \in {"lambda", "block", "call", "function"} -> <<Call(node, args)>>
    [] IsPath(node) -> CalledPath(node, args)
    [] IsBind(node) -> CalledBound(node, args)
    [] node.op = "var" -> <<Function(node.n, args, TRUE)>>
    [] OTHER -> <<>>

\* is_tail_call: whether a lambda's body ends in a call.
RECURSIVE IsTailCall(_)
IsTailCall(node) ==
  CASE node.op \in {"function", "call"} -> TRUE
    [] node.op = "cond"  -> IsTailCall(node.yes) \/ \E i \in DOMAIN node.no : IsTailCall(node.no[i])
    [] node.op = "block" -> IF node.exprs = <<>> THEN FALSE ELSE IsTailCall(Last(node.exprs))
    [] node.op = "binary" -> node.sym = ":=" /\ IsTailCall(node.r)
    [] OTHER -> FALSE

(***************************************************************************)
(* Lists, separated by `,` or, in a block, by `;`.                         *)
(***************************************************************************)
RECURSIVE ParseExpression(_, _)

Many(nodes, p) == [node |-> nodes, p |-> p]

RECURSIVE Commas(_, _, _)
Commas(nodes, placeholders, p) ==
  LET placeholder == placeholders /\ Sees(p, "?")
  IN OnParsed(IF placeholder THEN Parsed(Placeholder, Advance(p)) ELSE ParseExpression(0, p),
       LAMBDA node, p1 :
         IF Sees(p1, ",") THEN Commas(Append(nodes, node), placeholders, Advance(p1))
         ELSE Many(Append(nodes, node), p1))
ListUntil(close, placeholders, p) ==
  IF Sees(p, close) THEN Many(<<>>, Advance(p))
  ELSE OnParsed(Commas(<<>>, placeholders, p), LAMBDA nodes, p1 : Many(nodes, Expect(p1, close)))

RECURSIVE Statements(_, _)
Statements(nodes, p) ==
  OnParsed(ParseExpression(0, p), LAMBDA node, p1 :
    IF Sees(p1, ";") /\ ~ Sees(Advance(p1), ")") THEN Statements(Append(nodes, node), Advance(p1))
    ELSE Many(Append(nodes, node), Expect(IF Sees(p1, ";") THEN Advance(p1) ELSE p1, ")")))

RECURSIVE PairsFrom(_, _)
PairsFrom(pairs, p) ==
  OnParsed(ParseExpression(0, p), LAMBDA key, p1 :
    OnParsed(IF Sees(p1, ":") THEN ParseExpression(0, Advance(p1)) ELSE Failing(p1), LAMBDA val, p2 :
      IF Sees(p2, ",") THEN PairsFrom(Append(pairs, Pair(key, val)), Advance(p2))
      ELSE Many(Append(pairs, Pair(key, val)), Expect(p2, "}"))))
PairsUntil(p) == IF Sees(p, "}") THEN Many(<<>>, Advance(p)) ELSE PairsFrom(<<>>, p)

RECURSIVE TermsFrom(_, _)
TermsFrom(terms, p) ==
  OnParsed(ParseExpression(0, IF Sees(p, "<") \/ Sees(p, ">") THEN Advance(p) ELSE p), LAMBDA by, p1 :
    Given(Append(terms, Term(by, ~ Sees(p, ">"))), LAMBDA all :
      IF Sees(p1, ",") THEN TermsFrom(all, Advance(p1)) ELSE Many(all, Expect(p1, ")"))))

(***************************************************************************)
(* parse_primary                                                           *)
(***************************************************************************)
RECURSIVE Params(_, _)
Params(names, p) ==
  IF ~ Sees(p, "variable") THEN Many(names, Fail(p))
  ELSE IF Sees(Advance(p), ",") THEN Params(Append(names, Peek(p).n), Advance(Advance(p)))
  ELSE Many(Append(names, Peek(p).n), Expect(Advance(p), ")"))

LambdaFrom(p) ==
  OnParsed(IF Sees(p, ")") THEN Many(<<>>, Advance(p)) ELSE Params(<<>>, p), LAMBDA params, p1 :
    OnParsed(IF Sees(p1, "{") THEN ParseExpression(0, Advance(p1)) ELSE Failing(p1), LAMBDA body, p2 :
      Parsed(Lambda(params, body, IsTailCall(body)), Expect(p2, "}"))))

TransformFrom(p) ==
  OnParsed(ParseExpression(0, p), LAMBDA location, p1 :
    OnParsed(IF Sees(p1, "|") THEN ParseExpression(0, Advance(p1)) ELSE Failing(p1), LAMBDA update, p2 :
      OnParsed(IF Sees(p2, ",") THEN ParseExpression(0, Advance(p2)) ELSE Parsed(NoNode, p2), LAMBDA delete, p3 :
        Parsed(Transform(location, update, IF Sees(p2, ",") THEN <<delete>> ELSE <<>>), Expect(p3, "|")))))

ParsePrimary(p) ==
  LET tok == Peek(p)
      next == Advance(p)
  IN CASE tok.t = "literal"  -> Parsed(Lit(tok.v), next)
       [] tok.t = "name"     -> Parsed(PathOf(<<Step(Name(tok.f), <<>>)>>), next)
       [] tok.t = "variable" -> Parsed(Var(tok.n), next)
       [] tok.t = "$$"       -> Parsed(Root, next)
       [] tok.t = "("        -> IF Sees(next, ")") THEN Parsed(NoNode, Advance(next))
                                ELSE OnParsed(Statements(<<>>, next), LAMBDA exprs, p1 : Parsed(BlockOf(exprs), p1))
       [] tok.t = "["        -> OnParsed(ListUntil("]", FALSE, next), LAMBDA exprs, p1 : Parsed(Array(exprs), p1))
       [] tok.t = "{"        -> OnParsed(PairsUntil(next), LAMBDA pairs, p1 : Parsed(Object(pairs), p1))
       [] tok.t = "|"        -> TransformFrom(next)
       [] tok.t = "-"        -> OnParsed(ParseExpression(70, next), LAMBDA e, p1 : Parsed(Negate(e), p1))
       [] tok.t = "*"        -> Parsed(Wildcard, next)
       [] tok.t = "**"       -> Parsed(Descendant, next)
       [] tok.t = "%"        -> Parsed(Parent(""), next)
       [] tok.t = "function" -> IF Sees(next, "(") THEN LambdaFrom(Advance(next))
                                ELSE Parsed(PathOf(<<Step(Name(tok.f), <<>>)>>), next)
       [] OTHER -> Failing(p)

(***************************************************************************)
(* parse_expression_impl: an operator after `lhs`, the loop's left side.   *)
(***************************************************************************)
\* `[`, to its `]`: a predicate, or the mark of `[]`.
Predicate(p) ==
  IF Sees(p, "]") THEN Many(KeepArray, Advance(p))
  ELSE OnParsed(ParseExpression(0, p), LAMBDA e, p1 : Many(Filter(e), Expect(p1, "]")))

\* The predicates right after a `.` are its last step's.
RECURSIVE Predicates(_, _)
Predicates(steps, p) ==
  IF ~ Sees(p, "[") THEN Many(steps, p)
  ELSE OnParsed(Predicate(Advance(p)), LAMBDA stage, p1 :
         Predicates([steps EXCEPT ![Len(steps)].stages = Append(@, stage)], p1))

\* A name from a string after the dot is a quoted one.
StepsAfterDot(node) ==
  CASE IsPath(node)   -> node.steps
    [] IsString(node) -> <<Step([Name(node.v.s) EXCEPT !.quoted = TRUE], <<>>)>>
    [] OTHER          -> <<Step(node, <<>>)>>

DotStep(lhs, node, p) ==
  Given(CheckSteps(Append(StepsBeforeDot(lhs), Step(node, <<>>)), p), LAMBDA r : Nested(r.node, r.p))

AfterDot(lhs, p) ==
  CASE Sees(p, "[") -> OnParsed(ListUntil("]", FALSE, Advance(p)), LAMBDA exprs, p1 :
                         DotStep(lhs, ArrayGroup(exprs), p1))
    [] Sees(p, "(") -> IF Sees(Advance(p), ")") THEN DotStep(lhs, Apply(BlockOf(<<>>)), Advance(Advance(p)))
                       ELSE OnParsed(Statements(<<>>, Advance(p)), LAMBDA exprs, p1 :
                              DotStep(lhs, Apply(BlockOf(exprs)), p1))
    [] OTHER ->
         OnParsed(ParseExpression(Powers(".")[2], p), LAMBDA rhs, p1 :
           OnParsed(CheckSteps(StepsBeforeDot(lhs) \o StepsAfterDot(rhs), p1), LAMBDA path, p2 :
             OnParsed(Predicates(path.steps, p2), LAMBDA steps, p3 : Nested(PathOf(steps), p3))))

AfterBracket(lhs, p) ==
  IF StepHasGroup(lhs) /\ ~ Sees(p, "]") THEN Failing(p)
  ELSE OnParsed(Predicate(p), LAMBDA stage, p1 :
         LET steps == IF IsPath(lhs) THEN lhs.steps ELSE <<Step(lhs, <<>>)>>
         IN Nested(PathOf([steps EXCEPT ![Len(steps)].stages = Append(@, stage)]), p1))

Bound(sym, lhs, p) ==
  IF ~ Sees(p, "variable") THEN Failing(p)
  ELSE Nested(Binary(sym, lhs, Var(Peek(p).n)), Advance(p))

Infix(lhs, t, p) ==
  CASE t = "." -> AfterDot(lhs, p)
    [] t = "[" -> AfterBracket(lhs, p)
    [] t = "(" -> OnParsed(ListUntil(")", TRUE, p), LAMBDA args, p1 :
                    Given(Called(lhs, args), LAMBDA call :
                      IF call = <<>> THEN Failing(p1) ELSE Nested(call[1], p1)))
    [] t = "?" -> OnParsed(ParseExpression(0, p), LAMBDA yes, p1 :
                    OnParsed(IF Sees(p1, ":") THEN ParseExpression(0, Advance(p1)) ELSE Parsed(NoNode, p1),
                      LAMBDA no, p2 :
                        Nested(Conditional(lhs, yes, IF Sees(p1, ":") THEN <<no>> ELSE <<>>), p2)))
    [] t = "{" -> IF NodeHasGroup(lhs) THEN Failing(p)
                  ELSE OnParsed(PairsUntil(p), LAMBDA pairs, p1 : Nested(GroupBy(lhs, pairs), p1))
    [] t \in {"#", "@"} -> Bound(t, lhs, p)
    [] t = "^" -> IF ~ Sees(p, "(") THEN Failing(p)
                  ELSE OnParsed(TermsFrom(<<>>, Advance(p)), LAMBDA terms, p1 : Nested(Sort(lhs, terms), p1))
    [] OTHER -> OnParsed(ParseExpression(Powers(t)[2], p), LAMBDA rhs, p1 : Nested(Binary(t, lhs, rhs), p1))

\* A fault: a group stays on the step it was written after.
GroupStays(lhs, t) == FALSE

\* A group-by on a path is the whole path's: a later operator goes inside it.
GroupMoves(lhs, t) ==
  /\ lhs.op = "group" /\ t \in (Postfix \ {"{"}) \cup {"."}
  /\ IF lhs.op = "group" THEN IsGroupPath(lhs.input) ELSE FALSE

RECURSIVE InfixLoop(_, _, _)
InfixLoop(lhs, minPower, p) ==
  LET t == Peek(p).t
      moves == GroupMoves(lhs, t)
      once == OnParsed(Infix(IF moves THEN lhs.input ELSE lhs, t, Advance(p)), LAMBDA node, p1 :
                Parsed(IF moves THEN GroupBy(node, lhs.pairs) ELSE node, p1))
  IN IF t \in Closing THEN Parsed(lhs, p)
     ELSE IF Powers(t) = <<>> THEN Parsed(lhs, p)
     ELSE IF Powers(t)[1] < minPower THEN Parsed(lhs, p)
     ELSE OnParsed(once, LAMBDA node, p1 : InfixLoop(node, minPower, p1))

\* A fault: a subtree's depth is counted on in its siblings.
DepthAfter0(entry, p) == p

\* parse_expression: the depth is what it was, however the expression ended.
DepthAfter(entry, p) == [p EXCEPT !.depth = entry]

ParseExpression(minPower, p) ==
  IF p.depth >= MaxParseDepth THEN Failing(p)
  ELSE Given(OnParsed(ParsePrimary(BumpDepth(p)), LAMBDA node, p1 : InfixLoop(node, minPower, p1)),
             LAMBDA r : Parsed(r.node, DepthAfter(p.depth, r.p)))

\* parse: every token is used, and no step is a literal.
Parse(toks) ==
  Given(ParseExpression(0, Start(toks)), LAMBDA r :
    Parsed(r.node, IF Sees(r.p, "eof") /\ ~ r.p.literalStep THEN r.p ELSE Fail(r.p)))
=============================================================================
