-------------------------------- MODULE Syntax --------------------------------
(***************************************************************************)
(* Expressions (ast.rs), as the parser builds them, the ancestry pass      *)
(* rewrites them and the evaluator reads them.  A node is told apart by    *)
(* its `op`; a regular expression and a lambda's signature are left out.   *)
(***************************************************************************)
EXTENDS JValues

Lit(v)      == [op |-> "lit", v |-> v]
Name(f)     == [op |-> "name", f |-> f, quoted |-> FALSE]
Var(n)      == [op |-> "var", n |-> n]          \* `$` is named by ""
Root        == [op |-> "root"]                  \* `$$`
Parent(label) == [op |-> "parent", label |-> label]
Wildcard    == [op |-> "wild"]
Descendant  == [op |-> "descendant"]
Placeholder == [op |-> "placeholder"]
PathOf(steps) == [op |-> "path", steps |-> steps]
Binary(sym, l, r) == [op |-> "binary", sym |-> sym, l |-> l, r |-> r]
Negate(e)   == [op |-> "neg", e |-> e]
Function(f, args, builtin) == [op |-> "function", f |-> f, args |-> args, builtin |-> builtin]
Call(procedure, args) == [op |-> "call", procedure |-> procedure, args |-> args]
Lambda(params, body, thunk) == [op |-> "lambda", params |-> params, body |-> body, thunk |-> thunk]
Array(exprs)    == [op |-> "array", exprs |-> exprs]
ArrayGroup(exprs) == [op |-> "arrayGroup", exprs |-> exprs]
BlockOf(exprs)  == [op |-> "block", exprs |-> exprs]
Object(pairs)   == [op |-> "object", pairs |-> pairs]
Pair(key, val)  == [key |-> key, val |-> val]
GroupBy(input, pairs) == [op |-> "group", input |-> input, pairs |-> pairs]
Sort(input, terms)    == [op |-> "sort", input |-> input, terms |-> terms]
Term(by, ascends)     == [by |-> by, ascends |-> ascends]
Apply(e)    == [op |-> "apply", e |-> e]
\* What may be missing is a list of at most one.
Conditional(c, yes, no) == [op |-> "cond", c |-> c, yes |-> yes, no |-> no]
Transform(location, update, delete) ==
  [op |-> "transform", location |-> location, update |-> update, delete |-> delete]

(***************************************************************************)
(* Steps of a path, PathStep: its node and the stages after it, the names  *)
(* it binds ("" for none), and the label an ancestor is looked up by.      *)
(***************************************************************************)
Step(node, stages) ==
  [node |-> node, stages |-> stages, focus |-> "", index |-> "", label |-> "",
   tuple |-> FALSE, inner |-> FALSE]
Filter(p)  == [op |-> "filter", p |-> p]
IndexAs(n) == [op |-> "index", n |-> n]
KeepArray  == [op |-> "keep"]

IsPath(node) == node.op = "path"
IsString(node) == IF node.op = "lit" THEN node.v.k = "string" ELSE FALSE
IsBind(node)   == IF node.op = "binary" THEN node.sym \in {"@", "#"} ELSE FALSE
HasStage(step, op) == \E i \in DOMAIN step.stages : step.stages[i].op = op

(***************************************************************************)
(* The expressions in a node, and the node with others in their place.     *)
(***************************************************************************)
KeysAndVals(pairs) ==
  [i \in 1 .. 2 * Len(pairs) |-> IF i % 2 = 1 THEN pairs[(i + 1) \div 2].key ELSE pairs[i \div 2].val]
PairsOf(kids) == [i \in 1 .. Len(kids) \div 2 |-> Pair(kids[2 * i - 1], kids[2 * i])]

Kids(node) ==
  CASE node.op \in {"array", "arrayGroup", "block"} -> node.exprs
    [] node.op = "binary"   -> <<node.l, node.r>>
    [] node.op \in {"neg", "apply"} -> <<node.e>>
    [] node.op = "function" -> node.args
    [] node.op = "call"     -> <<node.procedure>> \o node.args
    [] node.op = "lambda"   -> <<node.body>>
    [] node.op = "object"   -> KeysAndVals(node.pairs)
    [] node.op = "group"    -> <<node.input>> \o KeysAndVals(node.pairs)
    [] node.op = "sort"     -> <<node.input>> \o [i \in DOMAIN node.terms |-> node.terms[i].by]
    [] node.op = "cond"     -> <<node.c, node.yes>> \o node.no
    [] node.op = "transform" -> <<node.location, node.update>> \o node.delete
    [] OTHER -> <<>>

WithKids(node, kids) ==
  CASE node.op \in {"array", "arrayGroup", "block"} -> [node EXCEPT !.exprs = kids]
    [] node.op = "binary"   -> [node EXCEPT !.l = kids[1], !.r = kids[2]]
    [] node.op \in {"neg", "apply"} -> [node EXCEPT !.e = kids[1]]
    [] node.op = "function" -> [node EXCEPT !.args = kids]
    [] node.op = "call"     -> Call(kids[1], Tail(kids))
    [] node.op = "lambda"   -> [node EXCEPT !.body = kids[1]]
    [] node.op = "object"   -> Object(PairsOf(kids))
    [] node.op = "group"    -> GroupBy(kids[1], PairsOf(Tail(kids)))
    [] node.op = "sort"     -> Sort(kids[1], [i \in DOMAIN node.terms |-> Term(kids[i + 1], node.terms[i].ascends)])
    [] node.op = "cond"     -> Conditional(kids[1], kids[2], SubSeq(kids, 3, Len(kids)))
    [] node.op = "transform" -> Transform(kids[1], kids[2], SubSeq(kids, 3, Len(kids)))
    [] OTHER -> node

\* A path's: its steps' nodes, and their predicates.
Filters(stages) == SelectSeq(stages, LAMBDA st : st.op = "filter")
InStep(step) == <<step.node>> \o Each(LAMBDA st : st.p, Filters(step.stages))
Parts(node) ==
  IF IsPath(node) THEN FlattenSeq(Each(InStep, node.steps)) ELSE Kids(node)

\* How deep a tree is: what its drop, or any walk over it, nests to.
RECURSIVE Depth(_)
Depth(node) == 1 + Max({0} \cup {Depth(Parts(node)[i]) : i \in DOMAIN Parts(node)})
=============================================================================
