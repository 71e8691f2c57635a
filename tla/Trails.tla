--------------------------------- MODULE Trails --------------------------------
(***************************************************************************)
(* What `%`, `@` and `#` mean, without labels, tuples or a pass over the   *)
(* tree: an item of a path knows the way it was come by.  `%` goes one     *)
(* step back along it, wherever in the expression it stands, and has no    *)
(* meaning where there is no step to go back to.                           *)
(*                                                                         *)
(* It is of expressions as they are parsed, whose predicates are truths    *)
(* and not positions, and gives values in no order, arrays taken apart.    *)
(***************************************************************************)
EXTENDS PathValues, Syntax

\* An item: `trail` has the inputs of the steps to it, `binds` the names bound on
\* the way; `before` is the item its last step was at, with its place in that row.
NoWay(v) == [v |-> v, trail |-> <<>>, binds |-> NoBinds, focused |-> FALSE]
Onward(item, values) ==
  Each(LAMBDA v : [item EXCEPT !.v = v, !.trail = Append(@, item.v), !.focused = FALSE], values)
Back(item) ==
  IF item.trail = <<>> THEN NoWay(Err("S0217"))
  ELSE [item EXCEPT !.v = Last(item.trail), !.trail = Front(item.trail), !.focused = FALSE]

Binding(item, name, v) == [item EXCEPT !.binds = (name :> v) @@ @]

RECURSIVE ItemsWithin(_)
ItemsWithin(v) ==
  IF IsUndef(v) THEN <<>> ELSE IF IsArr(v) THEN FlattenSeq(Each(ItemsWithin, v.items)) ELSE <<v>>

(***************************************************************************)
(* A path as moves: a step, a predicate, `@` or `#`.                       *)
(***************************************************************************)
Go(node) == [move |-> "go", node |-> node]
Stages(step) ==
  Each(LAMBDA st : [move |-> "where", p |-> st.p], Filters(step.stages))

RECURSIVE Moves(_)
Moves(node) ==
  CASE IsPath(node) -> FlattenSeq(Each(LAMBDA step : Moves(step.node) \o Stages(step), node.steps))
    [] IsBind(node) -> Append(Moves(node.l), [move |-> node.sym, name |-> node.r.n])
    [] OTHER -> <<Go(node)>>

\* Of a step's `@` the last counts.
LastFocus(moves) ==
  LET again(i) == \E j \in i + 1 .. Len(moves) :
                    moves[j].move = "@" /\ \A k \in i .. j : moves[k].move \in {"@", "#"}
      kept == SelectSeq([i \in DOMAIN moves |-> i], LAMBDA i : moves[i].move # "@" \/ ~ again(i))
  IN Each(LAMBDA i : moves[i], kept)

\* A value that is no path is not moved along, so `@` is nothing to it.
PathMoves(moves) ==
  LET steps == SelectSeq(moves, LAMBDA m : m.move = "go")
  IN IF \/ Len(steps) > 1 \/ steps[1].node.op \in {"name", "sort"}
        \/ \E i \in DOMAIN moves : moves[i].move = "#"
     THEN moves ELSE SelectSeq(moves, LAMBDA m : m.move # "@")

(***************************************************************************)
(* The items an expression gives of an item.                               *)
(***************************************************************************)
RECURSIVE From(_, _)

Values(items) == Each(LAMBDA item : item.v, items)
Holds(p, item) == \E i \in DOMAIN From(p, item) : Truthy(From(p, item)[i].v)

\* What goes along a path: items, each with the item before its last step and its
\* place among what the step gave of that one; `apart` once predicates chose of them.
Going1(at, before, place) == [at |-> at, before |-> before, place |-> place]

Moved(move, stream, apart) ==
  CASE move.move = "go" ->
         FlattenSeq(Each(LAMBDA g :
           Given(From(move.node, g.at), LAMBDA row :
             [i \in DOMAIN row |-> Going1(row[i], g.at, Num(i - 1))]), stream))
    [] move.move = "where" -> SelectSeq(stream, LAMBDA g : Holds(move.p, g.at))
    \* It does not move on, and a run of steps bound by `@` is one.
    [] move.move = "@" ->
         Each(LAMBDA g :
           [g EXCEPT !.at = [Binding(@, move.name, @.v) EXCEPT
              !.v = g.before.v, !.focused = TRUE,
              !.trail = IF g.before.focused THEN g.before.trail ELSE @]], stream)
    [] move.move = "#" ->
         [i \in DOMAIN stream |->
            [stream[i] EXCEPT !.at = Binding(@, move.name, IF apart THEN Num(i - 1) ELSE stream[i].place)]]

\* `#` counts anew what predicates, or another `#`, left of the whole stream.
Along(moves, item) ==
  FoldLeft(LAMBDA acc, move :
      [stream |-> Moved(move, acc.stream, acc.apart),
       apart  |-> IF move.move = "go" THEN FALSE ELSE acc.apart \/ move.move \in {"where", "#"}],
    [stream |-> <<Going1(item, item, Num(0))>>, apart |-> FALSE], moves).stream

From(node, item) ==
  CASE IsPath(node) \/ IsBind(node) -> Each(LAMBDA g : g.at, Along(PathMoves(LastFocus(Moves(node))), item))
    [] node.op = "name"   -> Onward(item, IF IsObj(item.v) THEN ItemsWithin(Get(item.v, node.f)) ELSE <<>>)
    [] node.op = "parent" -> <<Back(item)>>
    [] node.op = "var"    ->
         IF node.n = "" THEN <<item>>
         ELSE IF node.n \notin DOMAIN item.binds THEN <<>>
         ELSE Each(LAMBDA v : [NoWay(v) EXCEPT !.binds = item.binds], ItemsWithin(item.binds[node.n]))
    [] node.op = "lit"    -> <<NoWay(node.v)>>
    [] node.op = "apply"  -> From(node.e, item)
    [] node.op = "sort"   -> From(node.input, item)
    [] node.op = "block"  -> From(Last(node.exprs), item)
    [] node.op \in {"array", "arrayGroup"} ->
         FlattenSeq(Each(LAMBDA e : Each(LAMBDA f : [f EXCEPT !.trail = <<>>], From(e, item)), node.exprs))
    [] node.op = "binary" /\ node.sym = "=" ->
         Given(Values(From(node.l, item)), LAMBDA l :
           <<NoWay(Bool(l # <<>> /\ l = Values(From(node.r, item))))>>)

\* A block's own names, and an array's items' ways, go no further: what is bound in
\* them is not seen outside.
ValuesFrom(node, data) == Values(From(node, NoWay(data)))
=============================================================================
