-------------------------------- MODULE Paths --------------------------------
(***************************************************************************)
(* Path expressions (evaluator.rs): steps that map over a sequence, their  *)
(* predicates, the tuple streams that `@`, `#` and `%` make of a path,     *)
(* sorts, group-bys and object constructors.                               *)
(*                                                                         *)
(* Evaluation is an operator from an expression, the value it is evaluated *)
(* against, and the evaluator's state, to the value it gives, or the error *)
(* it fails with, and the state it leaves.                                 *)
(*                                                                         *)
(* In a state, `frames` are the scopes, the top one last, `keep` is        *)
(* keep_tuple_stream and `made` is tuple_stream_created.  `plain` is no    *)
(* part of the evaluator: where it is set the expression is evaluated as   *)
(* jsonata-js does it, by the general rule for every step, with a frame of *)
(* its own for every tuple and `$` the value evaluated against.            *)
(***************************************************************************)
EXTENDS PathValues, Ordering, Syntax

CONSTANT PathNames    \* the variables, and the ancestors' labels

Unbound == [k |-> "unbound"]
Dollar  == "$"
NewFrame == [n \in PathNames \cup {Dollar} |-> Unbound]

(***************************************************************************)
(* The state.                                                              *)
(***************************************************************************)
Result(v, s) == [v |-> v, s |-> s]
Top(s) == s.frames[Len(s.frames)]
Bind(s, n, v) == [s EXCEPT !.frames[Len(s.frames)][n] = v]
PushScope(s) == [s EXCEPT !.frames = Append(@, NewFrame)]
PopScope(s)  == [s EXCEPT !.frames = Front(@)]
Keeping(s, keep) == [s EXCEPT !.keep = keep]

Lookup(s, n) ==
  LET holding == {i \in DOMAIN s.frames : s.frames[i][n] # Unbound}
  IN IF holding = {} THEN Unbound ELSE s.frames[Max(holding)][n]

\* What `F` makes of a result, unless it is an error.
Then(result, F(_, _)) == Given(result, LAMBDA r : IF IsErr(r.v) THEN r ELSE F(r.v, r.s))
\* The result's state put back in order, whatever the result is.
After0(result, F(_)) == Given(result, LAMBDA r : [r EXCEPT !.s = F(r.s)])

\* F of each of a list in turn, to the first error: the list of what it gives.
InTurn(list, s, F(_, _)) ==
  FoldLeft(LAMBDA acc, x : Then(acc, LAMBDA sofar, s1 :
             Then(F(x, s1), LAMBDA v, s2 : Result(Plain(Append(sofar.items, v)), s2))),
           Result(Plain(<<>>), s), list)

(***************************************************************************)
(* `$`, and the names a tuple carries.                                     *)
(***************************************************************************)
\* restore_top
RestoreDollar(s, prior) == Bind(s, Dollar, prior)

\* with_dollar
WithDollar(item, s, F(_)) ==
  IF s.plain THEN F(s)
  ELSE After0(F(Bind(s, Dollar, item)), LAMBDA after : RestoreDollar(after, Top(s)[Dollar]))

\* with_dollar_bound: with no `$` bound, `$` is the value evaluated against.
WithDollarBound(item, s, F(_)) ==
  IF Lookup(s, Dollar) = Unbound THEN F(s) ELSE WithDollar(item, s, F)

\* bind_tuple_keys
BindAll(s, binds) ==
  [s EXCEPT !.frames[Len(s.frames)] = [n \in DOMAIN @ |-> IF n \in DOMAIN binds THEN binds[n] ELSE @[n]]]
BindTuple(t, s) == BindAll(IF s.plain THEN PushScope(s) ELSE s, t.binds)

\* A fault: the tuple's names are unbound, whatever they stood for.
Unbind(before, t, s) == BindAll(s, [n \in DOMAIN t.binds |-> Unbound])

\* TupleKeyBindings::restore: what each name was looked up to be, in the top scope.
RestoreTuple(before, t, s) ==
  IF s.plain THEN PopScope(s) ELSE BindAll(s, [n \in DOMAIN t.binds |-> Lookup(before, n)])

WithTuple(t, s, F(_)) == After0(F(BindTuple(t, s)), LAMBDA after : RestoreTuple(s, t, after))

(***************************************************************************)
(* What the steps and sorts of an expression say of how it is evaluated.   *)
(***************************************************************************)
CreatesTuple(step) == step.focus # "" \/ step.index # "" \/ step.label # ""
IsTuplePathNode(node) ==
  IF IsPath(node) THEN \E i \in DOMAIN node.steps : node.steps[i].tuple ELSE FALSE

\* is_non_path: one step that jsonata-js has no path for.
IsNonPath(steps) == Len(steps) = 1 /\ steps[1].node.op \notin {"name", "sort"}

RECURSIVE GroupsTupleStream(_)
GroupsTupleStream(node) ==
  IF node.op = "sort" THEN GroupsTupleStream(node.input)
  ELSE IF IsPath(node) /\ IsNonPath(node.steps)
  THEN node.steps[1].index # "" \/ node.steps[1].label # "" \/ node.steps[1].inner
  ELSE IsTuplePathNode(node)

RECURSIVE SortsTuples(_)
SortsTuples(node) ==
  CASE node.op = "sort" -> IsTuplePathNode(node.input) \/ SortsTuples(node.input)
    [] IsPath(node) /\ Len(node.steps) = 1 -> SortsTuples(node.steps[1].node)
    [] OTHER -> FALSE

\* Where a `[]` of a path is, as jsonata-js marks steps, paths and sorts.
HasKeep(step) == HasStage(step, "keep")

RECURSIVE SortChainKeeps(_)
SortChainKeeps(node) ==
  CASE node.op = "sort" -> SortChainKeeps(node.input)
    [] IsPath(node) ->
         LET inner(i) == SortChainKeeps(node.steps[i].node)
             isSort(i) == node.steps[i].node.op = "sort"
         IN [onStep |-> \E i \in DOMAIN node.steps :
                          IF isSort(i) THEN inner(i).onStep ELSE HasKeep(node.steps[i]),
             onNode |-> \E i \in DOMAIN node.steps :
                          isSort(i) /\ (inner(i).onNode \/ HasKeep(node.steps[i]))]
    [] OTHER -> [onStep |-> FALSE, onNode |-> FALSE]

RECURSIVE PathKeeps(_)
RECURSIVE SortInputKeeps(_)
PathKeeps(steps) ==
  LET sorts(i) == steps[i].node.op = "sort"
      chain(i) == SortChainKeeps(steps[i].node.input)
  IN \E i \in DOMAIN steps :
       \/ HasKeep(steps[i])
       \/ sorts(i) /\ IF Len(steps) > 1 THEN chain(i).onStep \/ chain(i).onNode
                      ELSE SortInputKeeps(steps[i].node.input)
SortInputKeeps(node) ==
  CASE node.op = "sort" -> SortInputKeeps(node.input)
    [] IsPath(node) /\ IsNonPath(node.steps) ->
         LET step == node.steps[1]
         IN \E i \in DOMAIN step.stages :
              /\ step.stages[i].op = "keep"
              /\ step.index # "" \/ \E j \in 1 .. i : step.stages[j].op = "index"
    [] IsPath(node) -> PathKeeps(node.steps)
    [] OTHER -> FALSE

StepsKeep(steps) ==
  \E i \in DOMAIN steps :
    IF steps[i].node.op = "sort" THEN SortChainKeeps(steps[i].node.input).onStep ELSE HasKeep(steps[i])

(***************************************************************************)
(* What an expression is known to do before it is evaluated.               *)
(***************************************************************************)
\* may_raise_on_nothing: there is a call in it, or what might be one.
RECURSIVE MayRaise(_)
MayRaise(node) ==
  \/ node.op \in {"function", "call", "lambda", "transform", "sort", "group", "apply", "placeholder"}
  \/ node.op = "binary" /\ node.sym = "~>"
  \/ \E i \in DOMAIN Parts(node) : MayRaise(Parts(node)[i])

\* What may_read_dollar looks into: all there is.
LookedInto(node) == Parts(node)

\* may_read_dollar
RECURSIVE MayReadDollar(_)
MayReadDollar(node) ==
  \/ node = Var("")
  \/ node.op \in {"call", "lambda", "transform", "sort", "group", "apply", "placeholder"}
  \/ node.op = "function" /\ node.args = <<>>
  \/ \E i \in DOMAIN LookedInto(node) : MayReadDollar(LookedInto(node)[i])

IsNumber(p) == IF p.op = "lit" THEN IsNum(p.v) ELSE FALSE

\* filters_run_on_nothing
RunsOnNothing(stages) ==
  LET filters == Filters(stages)
  IN IF filters = <<>> THEN FALSE
     ELSE ~ IsNumber(filters[1].p) /\ \E i \in DOMAIN filters : MayRaise(filters[i].p)

\* starts_cons, is_cons_block, is_cons_group: first steps that are worked out once.
RECURSIVE StartsCons(_, _)
StartsCons(node, dotted) ==
  CASE node.op = "array" -> dotted
    [] node.op = "block" -> \E i \in DOMAIN node.exprs : StartsCons(node.exprs[i], FALSE)
    [] node.op = "sort"  -> StartsCons(node.input, dotted)
    [] IsPath(node) /\ ~ IsNonPath(node.steps) ->
         StartsCons(node.steps[1].node, dotted \/ Len(node.steps) > 1)
    [] OTHER -> FALSE
IsConsBlock(node) == node.op = "block" /\ StartsCons(node, FALSE)
IsConsGroup(node) ==
  IF node.op # "group" THEN FALSE
  ELSE LET input == IF IsPath(node.input) /\ Len(node.input.steps) = 1
                    THEN node.input.steps[1].node ELSE node.input
       IN input.op = "array" \/ IsConsBlock(input)

IsArrayConstructor(node) ==
  IF node.op = "array" THEN TRUE
  ELSE IF ~ IsPath(node) THEN FALSE
  ELSE /\ Len(node.steps) = 1 /\ node.steps[1].node.op = "array" /\ node.steps[1].index = ""
       /\ \A i \in DOMAIN node.steps[1].stages : node.steps[1].stages[i].op # "index"

(***************************************************************************)
(* Evaluation.                                                             *)
(***************************************************************************)
\* evaluate_unwrapped_later
RECURSIVE Raw(_, _, _)

\* evaluate_internal
Eval(node, data, s) == Then(Raw(node, data, s), LAMBDA v, s1 : Result(Unwrap(v), s1))

\* A name with nothing bound to it may be one the tuple at hand carries.
ValueOf(n, data, s) ==
  IF Lookup(s, n) # Unbound THEN Lookup(s, n)
  ELSE IF IsTuple(data) THEN IF n \in DOMAIN data.binds THEN data.binds[n] ELSE Undefined
  ELSE Undefined

DollarOf(data, s) ==
  IF ~ s.plain /\ Lookup(s, Dollar) # Unbound THEN BareOf(Lookup(s, Dollar))
  ELSE BareOf(FocusValue(data))

\* construct_array: arrays are spliced in, but for those written as arrays.
ConstructArray(exprs, data, s) ==
  Then(InTurn(exprs, s, LAMBDA e, s1 : Then(Eval(e, data, s1), LAMBDA v, s2 :
         Result(Plain(IF IsUndef(v) THEN <<>>
                      ELSE IF IsArr(v) /\ ~ IsArrayConstructor(e) THEN v.items ELSE <<v>>), s2))),
       LAMBDA parts, s1 : Result(Plain(Flattened(parts.items)), s1))

\* A fault: a block whose last expression gives nothing keeps its scope.
BlockKept(exprs, data, s) ==
  FoldLeftDomain(LAMBDA acc, i : Then(acc, LAMBDA v, s1 : Given(Eval(exprs[i], data, s1), LAMBDA r :
                   IF i < Len(exprs) \/ IsUndef(r.v) THEN r ELSE Result(r.v, PopScope(r.s)))),
                 Result(Undefined, PushScope(s)), exprs)

\* evaluate_block: only its last expression may keep a tuple stream.
Block(exprs, data, s) ==
  Given(FoldLeftDomain(LAMBDA acc, i : Then(acc, LAMBDA v, s1 :
                         Eval(exprs[i], data, Keeping(s1, s.keep /\ i = Len(exprs)))),
                       Result(Undefined, PushScope(s)), exprs),
        LAMBDA r : Result(r.v, Keeping(PopScope(r.s), s.keep)))

(***************************************************************************)
(* Predicates.                                                             *)
(***************************************************************************)
Times(selector, i, len) ==
  IF IsPosition(selector) THEN TimesChosen(selector, i, len) ELSE IF Truthy(selector) THEN 1 ELSE 0

Selector(p, context, s) == WithDollarBound(context, s, LAMBDA s1 : Eval(p, context, s1))

\* evaluate_filter
ApplyFilter(p, input, s) ==
  LET items == ItemsIn(input)
      sorted == IF IsArr(input) THEN input.marks \cap {"sorted"} ELSE {}
      found == ItemAt(items, p.v.n)
      context(i) == IF sorted # {} THEN AsPlainObject(items[i]) ELSE items[i]
      chosen(i, s1) == Then(Selector(p, context(i), s1), LAMBDA sel, s2 :
                         Result(Plain([t \in 1 .. Times(sel, i, Len(items)) |-> items[i]]), s2))
  IN IF IsUndef(input) THEN Result(Undefined, s)
     ELSE IF IsNumber(p)
     THEN Result(IF \E i \in DOMAIN found : IsArr(found[i]) THEN found[1]
                 ELSE List(found, {"sequence"} \cup sorted), s)
     ELSE Then(InTurn([i \in DOMAIN items |-> i], s, chosen), LAMBDA parts, s1 :
            Result(List(Flattened(parts.items), {"sequence"} \cup sorted), s1))

\* apply_filter_stages
ApplyFilters(value, stages, s) ==
  FoldLeft(LAMBDA acc, st : Then(acc, LAMBDA v, s1 : ApplyFilter(st.p, v, s1)),
           Result(value, s), Filters(stages))

\* filter_undefined: predicates are evaluated with nothing, for their errors, until
\* one selects nothing.
FilterNothing(stages, s) ==
  Then(FoldLeft(LAMBDA acc, st : Then(acc, LAMBDA going, s1 :
                  IF ~ going.b \/ IsNumber(st.p) THEN Result(Bool(FALSE), s1)
                  ELSE Then(Selector(st.p, Undefined, s1), LAMBDA sel, s2 :
                         Result(Bool(~ IsPosition(sel) /\ Truthy(sel)), s2))),
                Result(Bool(TRUE), s), Filters(stages)),
       LAMBDA going, s1 : Result(Undefined, s1))

\* apply_tuple_stages: predicates see each tuple's names; `#` numbers what is left.
FilterTuples(p, tuples, sorted, s) ==
  LET chosen(i, s1) ==
        Then(WithTuple(tuples[i], s1, LAMBDA s2 : Selector(p, tuples[i].at, s2)), LAMBDA sel, s2 :
          Result(Plain([t \in 1 .. Times(sel, i, Len(tuples)) |-> tuples[i]]), s2))
  IN IF IsNumber(p) THEN Result(Plain(ItemAt(tuples, p.v.n)), s)
     ELSE IF sorted THEN ApplyFilter(p, List(tuples, {"sorted"}), s)
     ELSE Then(InTurn([i \in DOMAIN tuples |-> i], s, chosen), LAMBDA parts, s1 :
            Result(Plain(Flattened(parts.items)), s1))

\* `#` after a stage: the places in what is left.
Numbered(tuples, n) == [i \in DOMAIN tuples |-> [tuples[i] EXCEPT !.binds = (n :> Num(i - 1)) @@ @]]

TupleStages(tuples, stages, sorted, s) ==
  FoldLeft(LAMBDA acc, st : Then(acc, LAMBDA ts, s1 :
             CASE st.op = "filter" -> FilterTuples(st.p, ts.items, sorted, s1)
               [] st.op = "index"  -> Result(Plain(Numbered(ts.items, st.n)), s1)
               [] OTHER -> Result(ts, s1)),
           Result(Plain(tuples), s), stages)

(***************************************************************************)
(* Object constructors and group-bys.                                      *)
(***************************************************************************)
Group(key, pair, items) == [k |-> "group", key |-> key, pair |-> pair, items |-> items]

\* The item under its key, which no other pair may have given.
InGroup(groups, key, pair, item) ==
  LET at == {g \in DOMAIN groups.items : groups.items[g].key = key}
  IN IF at = {} THEN Plain(Append(groups.items, Group(key, pair, <<item>>)))
     ELSE IF groups.items[Max(at)].pair # pair THEN Err("D1009")
     ELSE [groups EXCEPT !.items[Max(at)].items = Append(@, item)]

\* An item under the key each pair gives it.  `Undo` is what the code does on an
\* error of its own, and does not do on one of the key's.
ByKeys(groups, item, pairs, s, KeyOf(_, _), Undo(_)) ==
  FoldLeftDomain(LAMBDA acc, i : Then(acc, LAMBDA sofar, s1 :
      Then(KeyOf(pairs[i].key, s1), LAMBDA key, s2 :
        IF IsUndef(key) THEN Result(sofar, s2)
        ELSE IF key.k # "string" THEN Result(Err("T1003"), Undo(s2))
        ELSE Given(InGroup(sofar, key.s, i, item), LAMBDA next :
               Result(next, IF IsErr(next) THEN Undo(s2) ELSE s2)))),
    Result(groups, s), pairs)

\* The object of what ValueOf gives for each group, undefined values left out.
ObjectOf(groups, s, GroupValue(_, _)) ==
  Then(InTurn(groups.items, s, GroupValue), LAMBDA vals, s1 :
    Result(ObjectFrom([g \in DOMAIN groups.items |-> groups.items[g].key], vals.items), s1))

AllLiteral(pairs) ==
  \A i \in DOMAIN pairs : IF pairs[i].key.op = "lit" THEN pairs[i].key.v.k = "string" ELSE FALSE

\* `$` is bound only for what can read it.
WithDollarFor(nodes, item, s, F(_)) ==
  IF s.plain \/ \E n \in nodes : MayReadDollar(n) THEN WithDollarBound(item, s, F) ELSE F(s)

\* construct_object: a literal key has every item in its pair's group.
LiteralObject(pairs, data, s) ==
  LET context == ObjectContext(data)
      vals == {pairs[i].val : i \in DOMAIN pairs}
      keys == [i \in DOMAIN pairs |-> pairs[i].key.v.s]
  IN IF \E i, j \in DOMAIN keys : i < j /\ keys[i] = keys[j] THEN Result(Err("D1009"), s)
     ELSE Then(WithDollarFor(vals, context, s, LAMBDA s1 :
                 InTurn([i \in DOMAIN pairs |-> pairs[i].val], s1, LAMBDA n, s2 : Eval(n, context, s2))),
               LAMBDA found, s1 : Result(ObjectFrom(keys, found.items), s1))

GeneralObject(pairs, data, s) ==
  LET keys == {pairs[i].key : i \in DOMAIN pairs}
      vals == {pairs[i].val : i \in DOMAIN pairs}
      keyOf(item, n, s1) == WithDollarFor(keys, item, s1, LAMBDA s2 : Eval(n, item, s2))
      value(g, s1) == Given(GroupContext(g.items), LAMBDA context :
                        WithDollarFor(vals, context, s1, LAMBDA s2 : Eval(pairs[g.pair].val, context, s2)))
  IN Then(FoldLeft(LAMBDA acc, item : Then(acc, LAMBDA groups, s1 :
                     ByKeys(groups, item, pairs, s1, LAMBDA n, s2 : keyOf(item, n, s2), LAMBDA s2 : s2)),
                   Result(Plain(<<>>), s), GroupItems(data)),
          LAMBDA groups, s1 : ObjectOf(groups, s1, value))

ConstructObject(pairs, data, s) ==
  IF AllLiteral(pairs) /\ ~ s.plain THEN LiteralObject(pairs, data, s) ELSE GeneralObject(pairs, data, s)

\* ObjectTransform binds `$` in the top scope, for each item and each group ...
BindDollar(item, s) == IF s.plain THEN s ELSE Bind(s, Dollar, item)

\* ... and puts back what `$` was looked up to be when all is done, or has failed.
DollarBack(r, s) == IF s.plain THEN r ELSE [r EXCEPT !.s = Bind(@, Dollar, Lookup(s, Dollar))]

\* The keys of one item, its tuple's names bound while they are worked out.
GroupItem(groups, item, pairs, s) ==
  LET data  == FocusValue(item)
      bound == IF IsTuple(item) THEN BindTuple(item, s) ELSE s
      back(s1) == IF IsTuple(item) THEN RestoreTuple(s, item, s1) ELSE s1
  IN Then(ByKeys(groups, item, pairs, BindDollar(data, bound),
                 LAMBDA n, s1 : Eval(n, data, s1), back),
          LAMBDA next, s1 : Result(next, back(s1)))

GroupValue(g, pairs, s) ==
  IF IsTuple(g.items[1])
  THEN Given(Reduce(g.items), LAMBDA merged :
         WithTuple(merged, s, LAMBDA s1 : Eval(pairs[g.pair].val, merged.at, BindDollar(merged.at, s1))))
  ELSE Given(GroupContext(g.items), LAMBDA context :
         Eval(pairs[g.pair].val, context, BindDollar(context, s)))

GroupNode(input, pairs, data, s) ==
  Then(After0(Raw(input, data, Keeping(s, IsTuplePathNode(input) \/ SortsTuples(input))),
              LAMBDA s1 : Keeping(s1, s.keep)),
    LAMBDA value, s1 :
      LET items == IF Marked(value, "sorted") THEN Each(AsPlainObject, value.items)
                   ELSE IF IsUndef(value) THEN <<>> ELSE ItemsIn(value)
          grouped == Then(FoldLeft(LAMBDA acc, item : Then(acc, LAMBDA groups, s2 :
                                     GroupItem(groups, item, pairs, s2)),
                                   Result(Plain(<<>>), s1), IF items = <<>> THEN <<Undefined>> ELSE items),
                          LAMBDA groups, s2 :
                            ObjectOf(groups, s2, LAMBDA g, s3 : GroupValue(g, pairs, s3)))
      IN IF items = <<>> /\ GroupsTupleStream(input) THEN Result(Obj(<<>>, <<>>), s1)
         ELSE Given(grouped, LAMBDA r : DollarBack(r, s1)))

(***************************************************************************)
(* Sorts.                                                                  *)
(***************************************************************************)
IsSimpleName(term) ==
  IF IsPath(term) THEN Len(term.steps) = 1 /\ term.steps[1].stages = <<>> /\ term.steps[1].node.op = "name"
  ELSE FALSE

\* evaluate_sort_term
SortTerm(term, element, s) ==
  IF IsSimpleName(term) /\ ~ IsArr(element)
  THEN Result(IF IsObj(element) THEN Get(element, term.steps[1].node.f) ELSE Undefined, s)
  ELSE Eval(term, element, s)

\* The terms of one item.  `$` and its tuple's names are left bound by an error.
SortKeys(item, terms, tuples, s) ==
  LET isTuple == tuples /\ IsTuple(item)
      data    == IF isTuple THEN item.at ELSE item
      term(t, s1) == Then(SortTerm(t.by, data, BindDollar(data, s1)), LAMBDA key, s2 :
                       DollarBack(Result(Plain(<<key>>), s2), s1))
  IN Then(InTurn(terms, IF isTuple THEN BindTuple(item, s) ELSE s, term), LAMBDA keys, s1 :
       Result(Plain(Flattened(keys.items)), IF isTuple THEN RestoreTuple(s, item, s1) ELSE s1))

\* evaluate_sort
SortValue(data, terms, tuples, s) ==
  LET items == IF Marked(data, "sorted") THEN Each(AsPlainObject, data.items) ELSE data.items
      keyed(i, s1) == Then(SortKeys(items[i], terms, tuples, s1), LAMBDA keys, s2 :
                        Result(Item(i, keys.items), s2))
      ascends == [t \in DOMAIN terms |-> terms[t].ascends]
  IN IF ~ IsArr(data) THEN Result(data, s)
     ELSE IF Len(data.items) <= 1 THEN Result(data, s)
     ELSE Then(InTurn([i \in DOMAIN items |-> i], s, keyed), LAMBDA found, s1 :
            Given(OrderBy(found.items, ascends), LAMBDA order :
              Result(IF Failed(order) THEN order[Len(order)]
                     ELSE Plain([p \in DOMAIN order |-> data.items[order[p].at]]), s1)))

RECURSIVE SortNode(_, _, _, _, _)
RECURSIVE PathSteps(_, _, _, _, _)

\* A sort's or a path's result, with the flag that a consarray step gave one value.
WithSingle(r, single) == [v |-> r.v, s |-> r.s, single |-> single]

\* A fault: a sort of a stream keeps its tuples, asked to or not.
SortKeepsAll(v, input, tupleInput, keep) ==
  IF tupleInput THEN Mark(Mark(Unmark(v, "keep"), "sorted"), "sequence") ELSE v

\* evaluate_sort_node: what becomes of the sorted array's marks.
AfterSort(v, input, tupleInput, keep) ==
  LET tuples == tupleInput /\ IsArr(v) /\ StartsWithTuple(ItemsIn(v))
      stream == IF Len(ItemsIn(v)) > 1 THEN Mark(Unmark(v, "keep"), "sorted") ELSE Unmark(v, "keep")
      values == List(Each(FocusValue, v.items), (v.marks \cup {"sequence"}) \ {"keep", "sorted", "outer"})
      once   == IF ~ tuples THEN v ELSE IF keep THEN stream ELSE values
      again  == IF IsTuplePathNode(input) THEN Mark(once, "sequence") ELSE once
  IN IF SortInputKeeps(input) THEN Mark(again, "keep") ELSE again

\* evaluate_sort_input: whether a consarray first step gave a single value.
SingleOf(input, first, dotted, v) ==
  IF ~ (dotted /\ first.op # "none" /\ StartsCons(first, TRUE)) THEN FALSE
  ELSE IF IsArr(v)
  THEN /\ IsPath(input) /\ input.steps[1].stages # <<>>
       /\ Marked(v, "sequence") /\ ~ Marked(v, "keep") /\ Len(v.items) = 1
  ELSE ~ IsUndef(v)

EndsInSort(input) ==
  \/ input.op = "sort"
  \/ IsPath(input) /\ Last(input.steps).node.op = "sort"

\* The input as one value: a sort or a lone sort step says itself whether it gives one.
WholeInput(input, first, item, dotted, s) ==
  CASE input.op = "sort" -> SortNode(input.input, input.terms, item, dotted, s)
    [] /\ dotted /\ IsPath(input) /\ first.op = "none" /\ Len(input.steps) = 1
       /\ ~ input.steps[1].tuple /\ ~ CreatesTuple(input.steps[1]) /\ input.steps[1].node.op = "sort" ->
         After0(PathSteps(input.steps, item, s.keep, TRUE, Keeping(s, FALSE)), LAMBDA s1 : Keeping(s1, s.keep))
    [] OTHER -> WithSingle(Raw(input, item, s), FALSE)

SortInput(input, data, dotted, s) ==
  LET first == IF ~ IsPath(input) THEN input
               ELSE IF IsNonPath(input.steps) THEN input.steps[1].node ELSE [op |-> "none"]
      whole == first.op \in {"none", "var", "sort"} \/ StartsCons(first, dotted)
      uncons(v) == IF first.op = "none" THEN v ELSE Unmark(v, "cons")
      item  == IF whole THEN data ELSE BareOf(data)
      each(x, s1) == Then(WithDollarBound(x, s1, LAMBDA s2 : Raw(input, x, s2)), LAMBDA v, s2 :
                       Result(Plain(IF IsUndef(v) THEN <<>> ELSE <<uncons(v)>>), s2))
      collected(v) == IF IsArr(v) /\ ~ Marked(v, "outer") /\ ~ EndsInSort(input)
                      THEN CollectSingle(v, FALSE) ELSE v
  IN IF IsArr(data) /\ ~ whole /\ ~ Marked(data, "outer")
     THEN Then(InTurn(data.items, s, each), LAMBDA parts, s1 :
            Given(Flattened(parts.items), LAMBDA found :
              WithSingle(Result(IF found = <<>> THEN Undefined ELSE CollectStepResults(found, FALSE), s1),
                         FALSE)))
     ELSE Given(IF whole THEN WholeInput(input, first, item, dotted, s)
                ELSE WithSingle(WithDollarBound(item, s, LAMBDA s1 : Raw(input, item, s1)), FALSE),
            LAMBDA r : IF IsErr(r.v) THEN r
                       ELSE WithSingle(Result(collected(uncons(r.v)), r.s),
                              r.single \/ (whole /\ SingleOf(input, first, dotted, r.v))))

\* evaluate_sort_node
SortNode(input, terms, data, dotted, s) ==
  LET tupleInput == IsTuplePathNode(input) \/ SortsTuples(input)
  IN Given(IF tupleInput THEN WithSingle(Raw(input, data, Keeping(s, TRUE)), FALSE)
           ELSE SortInput(input, data, dotted, Keeping(s, FALSE)), LAMBDA r :
       Given(Then(Result(r.v, r.s), LAMBDA v, s1 : SortValue(v, terms, tupleInput, Keeping(s1, FALSE))),
         LAMBDA sorted :
           WithSingle(Result(IF IsArr(sorted.v) THEN AfterSort(sorted.v, input, tupleInput, s.keep)
                             ELSE sorted.v, Keeping(sorted.s, s.keep)),
                      ~ IsErr(r.v) /\ r.single)))

(***************************************************************************)
(* Steps.                                                                  *)
(***************************************************************************)
\* evaluate_step_node
StepValue(node, item, s) ==
  CASE node = Var("") -> Result(BareOf(item), s)
    [] node.op = "apply" -> WithDollar(item, s, LAMBDA s1 : Eval(node.e, item, s1))
    [] node.op = "arrayGroup" ->
         Then(WithDollarBound(item, s, LAMBDA s1 : ConstructArray(node.exprs, item, s1)),
              LAMBDA v, s1 : Result(Mark(v, "cons"), s1))
    [] node.op \in {"var", "name"} -> Eval(node, item, s)
    [] OTHER -> WithDollarBound(item, s, LAMBDA s1 : Eval(node, item, s1))

\* evaluate_step_items: what a step gives for each item, filtered item by item.
StepItems(step, items, last, s) ==
  LET onNothing == RunsOnNothing(step.stages)
      value(x, s1) == IF step.node.op = "name" THEN Result(FieldStep(step.node.f, x), s1)
                      ELSE StepValue(step.node, x, s1)
      filtered(v, s1) == IF ~ IsUndef(v) THEN ApplyFilters(v, step.stages, s1)
                         ELSE IF onNothing THEN FilterNothing(step.stages, s1) ELSE Result(v, s1)
  IN Then(InTurn(items, s, value), LAMBDA found, s1 :
       Then(InTurn(found.items, s1, filtered), LAMBDA kept, s2 :
         Result(CollectStepResults(Defined(kept.items), last), s2)))

\* A `$` step over values that are not flattened gives them again.
IsSame(step, source, last) ==
  /\ source # <<>> /\ step.node = Var("") /\ step.stages = <<>>
  /\ ~ (last /\ Len(source[1].items) = 1)
  /\ \A i \in DOMAIN source[1].items : ~ FlattensInStep(source[1].items[i])

\* evaluate_step
StepOver(step, items, source, last, s) ==
  IF ~ s.plain /\ IsSame(step, source, last) THEN Result(FreshSequence(source[1]), s)
  ELSE IF ~ s.plain /\ Len(items) = 1 /\ step.stages = <<>> /\ step.node.op # "name"
  THEN Then(StepValue(step.node, items[1], s), LAMBDA v, s1 : Result(CollectSingle(v, last), s1))
  ELSE IF ~ s.plain /\ Len(items) = 1 /\ step.stages = <<>> /\ IsObj(items[1])
  THEN Result(CollectSingle(Get(items[1], step.node.f), last), s)
  ELSE StepItems(step, items, last, s)

NextReadsItems(steps) == IF Len(steps) < 2 THEN FALSE ELSE steps[2].node.op # "sort"

\* evaluate_cons_first_step
ConsFirstStep(step, steps, data, s) ==
  LET whole(v) == IF step.stages # <<>> /\ ~ HasKeep(step) /\ IsConsBlock(step.node)
                  THEN IF Marked(v, "sequence") /\ ~ Marked(v, "keep") /\ Len(ItemsIn(v)) = 1
                       THEN v.items[1] ELSE v
                  ELSE v
      noItems(v) == NextReadsItems(steps) /\ ~ IsArr(v) /\ (IsConsBlock(step.node) \/ IsConsGroup(step.node))
  IN Then(Eval(step.node, data, s), LAMBDA made, s1 :
       Then(ApplyFilters(Mark(made, "cons"), step.stages, s1), LAMBDA v, s2 :
         Result(IF noItems(whole(v)) THEN Undefined ELSE whole(v), s2)))

\* evaluate_first_step_sort
FirstStepSort(step, steps, data, dotted, s) ==
  LET filtered == Filters(step.stages) # <<>>
  IN Given(After0(WithDollarBound(data, Keeping(s, TRUE), LAMBDA s1 :
                    SortNode(step.node.input, step.node.terms, data, dotted \/ Len(steps) > 1, s1)),
                  LAMBDA s1 : Keeping(s1, s.keep)), LAMBDA r :
       IF IsErr(r.v) THEN r
       ELSE LET single == r.single /\ ~ filtered
            IN Given(ApplyFilters(r.v, step.stages, r.s), LAMBDA f :
                 WithSingle(IF IsErr(f.v) THEN f
                            ELSE Result(IF single /\ NextReadsItems(steps) THEN Undefined
                                        ELSE CollectSingle(f.v, Len(steps) = 1), f.s),
                            single)))

(***************************************************************************)
(* Tuple streams.                                                          *)
(***************************************************************************)
AsTuples(items) == Each(LAMBDA x : Tuple(x, NoBinds), items)
Made(s) == [s EXCEPT !.made = TRUE]

\* create_tuple_stream, incoming
Incoming(step, input, first) ==
  LET isVar == step.node.op = "var"
  IN IF ~ IsArr(input) THEN AsTuples(<<input>>)
     ELSE IF StartsWithTuple(input.items) THEN SelectSeq(input.items, IsTuple)
     ELSE IF Marked(input, "outer") /\ input.items # <<>> /\ first /\ ~ isVar
     THEN AsTuples(<<BareOf(input)>>)
     ELSE IF first /\ isVar /\ step.index # "" THEN AsTuples(<<input>>)
     ELSE AsTuples(input.items)

Named(name, v) == IF name = "" THEN NoBinds ELSE name :> v

\* The tuple a step makes of one it was given: `v` at `position` in its row.
Extended(step, t, v, position) ==
  IF IsTuple(v) THEN Tuple(v.at, v.binds @@ t.binds)
  ELSE Tuple(IF step.focus = "" THEN v ELSE t.at,
             Named(step.label, t.at) @@ Named(step.index, Num(position - 1))
               @@ Named(step.focus, v) @@ t.binds)

\* One tuple's row: the tuples a step makes of it.
Row(step, t, s) ==
  LET kept(s1) == After0(StepValue(step.node, t.at, Keeping(s1, s1.keep \/ step.inner)),
                         LAMBDA s2 : Keeping(s2, s1.keep))
      value == IF step.node.op = "name" /\ ~ s.plain THEN kept(s) ELSE WithTuple(t, s, kept)
      row(v) == IF IsUndef(v) THEN <<>> ELSE ItemsIn(v)
      made(v) == [i \in DOMAIN row(v) |->
                    IF IsUndef(row(v)[i]) THEN Undefined ELSE Extended(step, t, row(v)[i], i)]
  IN Then(value, LAMBDA v, s1 : Result(Plain(Defined(made(v))), s1))

\* A sort's items as a stream: tuples stay what they are, other values are numbered.
SortedTuples(step, items, keepsTuples) ==
  [i \in DOMAIN items |->
     IF IsTuple(items[i]) /\ keepsTuples THEN items[i]
     ELSE Tuple(FocusValue(items[i]), Named(step.index, Num(i - 1)))]

SortStream(step, input, incoming, dotted, s) ==
  LET isTupleInput == IsArr(input) /\ StartsWithTuple(ItemsIn(input))
      sortInput == step.node.input
      keepsTuples == \/ isTupleInput \/ SortsTuples(sortInput)
                     \/ IsPath(sortInput) /\ \E i \in DOMAIN sortInput.steps : CreatesTuple(sortInput.steps[i])
  IN Then(IF isTupleInput THEN SortValue(Plain(incoming), step.node.terms, TRUE, s)
          ELSE After0(IF dotted THEN SortNode(sortInput, step.node.terms, input, TRUE, Keeping(s, TRUE))
                      ELSE Raw(step.node, input, Keeping(s, TRUE)),
                      LAMBDA s1 : Keeping(s1, s.keep)), LAMBDA v, s1 :
       LET unmarked == IsArr(v) /\ (Marked(v, "sorted") \/ (isTupleInput /\ Len(v.items) > 1))
           items == IF IsUndef(v) THEN <<>> ELSE ItemsIn(v)
       IN Given(TupleStages(SortedTuples(step, items, keepsTuples), step.stages, unmarked, s1), LAMBDA r :
            IF IsErr(r.v) THEN r
            ELSE Result(IF unmarked THEN Mark(r.v, "sorted") ELSE r.v, r.s)))

\* create_tuple_stream; a stream that was sorted is marked.
TupleStream(step, input, first, dotted, s) ==
  LET incoming == Incoming(step, input, first)
  IN IF step.node.op = "sort" THEN SortStream(step, input, incoming, dotted, Made(s))
     ELSE Then(InTurn(incoming, Made(s), LAMBDA t, s1 : Row(step, t, s1)), LAMBDA rows, s1 :
            TupleStages(Flattened(rows.items), step.stages, FALSE, s1))

\* consarray_tuple_start
ConsTupleStart(step, data, s) ==
  Then(Eval(step.node, data, Made(s)), LAMBDA made, s1 :
    Then(ApplyFilters(made, step.stages, s1), LAMBDA v, s2 :
      LET from == IF step.focus = "" THEN v ELSE data
      IN Result(Plain(AsTuples(IF Marked(from, "outer") THEN <<BareOf(from)>>
                               ELSE IF IsUndef(from) THEN <<>> ELSE ItemsIn(from))), s2)))

(***************************************************************************)
(* A path: steps in turn, from the first that makes tuples on as a stream. *)
(***************************************************************************)
IsPlainStep(step) == step.stages = <<>> /\ ~ CreatesTuple(step)

\* The shortcuts: a lone name on an object, and `$var.field` of an object.
IsLoneField(steps, data) ==
  /\ Len(steps) = 1 /\ IsPlainStep(steps[1]) /\ steps[1].node.op = "name" /\ IsObj(data)
IsVarField(steps, data, s) ==
  /\ Len(steps) = 2 /\ IsPlainStep(steps[1]) /\ IsPlainStep(steps[2])
  /\ steps[1].node.op = "var" /\ steps[2].node.op = "name"
  /\ ~ IsTuple(data)
  /\ IF steps[1].node.n = "" THEN FALSE ELSE IsObj(Lookup(s, steps[1].node.n))

\* Whether a path with no need of its tuples any more takes a field of each.
TakesFields(step, on, last, keeping) ==
  on /\ last /\ ~ keeping /\ step.node.op = "name" /\ IsPlainStep(step)

Projected(field, tuples) ==
  Gathered(Flattened(Defined(Each(LAMBDA t : FieldStep(field, FocusValue(t)), tuples))))

\* What the first step maps over.
FirstItems(first, data) ==
  CASE Marked(data, "outer") /\ first.node.op # "sort" -> <<BareOf(data)>>
    [] IsArr(data) /\ first.node.op \notin {"var", "root", "sort"} /\ ~ Marked(data, "outer") -> data.items
    [] OTHER -> <<data>>

\* One plain step of a path: `before` is what the step before it gave.
PlainStep(steps, i, before, data, dotted, s) ==
  LET step == steps[i]
      once == step.node.op = "array" \/ IsConsBlock(step.node) \/ IsConsGroup(step.node)
      items == IF i = 1 THEN FirstItems(step, data) ELSE ItemsIn(before)
      source == IF i > 1 /\ IsArr(before) THEN <<before>> ELSE <<>>
  IN CASE i = 1 /\ once -> WithSingle(ConsFirstStep(step, steps, data, s), FALSE)
       [] i = 1 /\ step.node.op = "sort" -> FirstStepSort(step, steps, data, dotted, s)
       [] OTHER ->
            WithSingle(After0(StepOver(step, items, source, i = Len(steps),
                                       Keeping(s, s.keep \/ step.node.op = "sort")),
                              LAMBDA s1 : Keeping(s1, s.keep)), FALSE)

\* One step of a stream, or that starts one.
StreamStep(step, i, source, data, dotted, s) ==
  IF i = 1 /\ dotted /\ step.node.op = "array"
  THEN ConsTupleStart(step, data, s)
  ELSE TupleStream(step, source, i = 1, i = 1 /\ dotted, s)

\* A path so far: its value or, once it is a stream (`on`), its tuples.
SoFar(v, on, going, single, s) == [v |-> v, on |-> on, going |-> going, single |-> single, s |-> s]

NextStep(acc, steps, i, data, keeping, dotted) ==
  LET step == steps[i]
      isLong == dotted \/ Len(steps) > 1
      source == IF i = 1 THEN data ELSE IF acc.on THEN Unmark(acc.v, "sorted") ELSE acc.v
      empties(v) == IsUndef(v) \/ (IsArr(v) /\ ItemsIn(v) = <<>>)
      mayKeep == keeping \/ step.node.op = "sort"
  IN IF acc.on \/ step.tuple \/ CreatesTuple(step)
     THEN IF ~ acc.s.plain /\ TakesFields(step, acc.on, i = Len(steps), keeping)
          THEN SoFar(Projected(step.node.f, acc.v.items), FALSE, FALSE, acc.single, acc.s)
          ELSE Given(StreamStep(step, i, source, data, isLong, acc.s), LAMBDA r :
                 SoFar(r.v, TRUE, ~ IsErr(r.v), acc.single, r.s))
     ELSE Given(PlainStep(steps, i, acc.v, data, dotted, acc.s), LAMBDA r :
            SoFar(r.v, mayKeep /\ IsArr(r.v) /\ StartsWithTuple(ItemsIn(r.v)),
                  ~ IsErr(r.v) /\ ~ empties(r.v), acc.single \/ r.single, r.s))

\* A stream's values, unless the sort or group-by around it reads the tuples.
StreamResult(v, keeping) ==
  IF keeping THEN List(v.items, v.marks \cap {"sorted"}) ELSE Gathered(Each(FocusValue, v.items))

\* `[]`, whose mark on a sort does not reach an array a later step built.
Kept(steps, v) ==
  LET nodeOnly == Len(steps) > 1 /\ ~ StepsKeep(steps)
  IN IF PathKeeps(steps) /\ ~ (nodeOnly /\ Marked(v, "cons") /\ ~ Marked(v, "sequence"))
     THEN KeepSingleton(v) ELSE v

\* An expression that is no path: evaluated once, then filtered.
NonPath(step, steps, data, s) ==
  Then(Raw(step.node, data, s), LAMBDA v, s1 :
    Then(IF IsUndef(v) /\ RunsOnNothing(step.stages) THEN FilterNothing(step.stages, s1)
         ELSE ApplyFilters(v, step.stages, s1),
         LAMBDA filtered, s2 :
           Result(IF PathKeeps(steps) THEN KeepIfSequence(filtered) ELSE filtered, s2)))

\* evaluate_path_steps
PathSteps(steps, data, keeping, dotted, s) ==
  IF steps = <<>> THEN WithSingle(Result(data, s), FALSE)
  ELSE IF ~ s.plain /\ IsLoneField(steps, data)
  THEN WithSingle(Result(Get(data, steps[1].node.f), s), FALSE)
  ELSE IF ~ s.plain /\ IsVarField(steps, data, s)
  THEN WithSingle(Result(CollectSingle(Get(Lookup(s, steps[1].node.n), steps[2].node.f), TRUE), s), FALSE)
  ELSE IF IsNonPath(steps) /\ ~ CreatesTuple(steps[1]) /\ ~ steps[1].tuple
  THEN WithSingle(NonPath(steps[1], steps, data, s), FALSE)
  ELSE Given(FoldLeftDomain(LAMBDA acc, i :
                 IF acc.going THEN NextStep(acc, steps, i, data, keeping, dotted) ELSE acc,
               SoFar(Undefined, FALSE, TRUE, FALSE, s), steps),
         LAMBDA r :
           WithSingle(Result(IF IsErr(r.v) THEN r.v
                             ELSE Kept(steps, IF r.on THEN StreamResult(r.v, keeping) ELSE r.v), r.s),
                      r.single))

\* evaluate_path: the request to keep tuples is this path's, and not its parts'.
Path(steps, data, s) ==
  After0(PathSteps(steps, data, s.keep, FALSE, Keeping(s, FALSE)), LAMBDA s1 : Keeping(s1, s.keep))

(***************************************************************************)
(* Every kind of expression.                                               *)
(***************************************************************************)
\* evaluate_binary_op, of two values.
Operated(sym, v, w) ==
  CASE sym = "=" -> Bool(~ IsUndef(v) /\ ~ IsUndef(w) /\ ValuesEqual(v, w))
    [] sym \in {">", "<"} -> Operation(sym, v, w)
    [] sym = "+" -> IF ~ (IsNum(v) \/ IsUndef(v)) THEN Err("T2001")
                    ELSE IF ~ (IsNum(w) \/ IsUndef(w)) THEN Err("T2002")
                    ELSE IF IsUndef(v) \/ IsUndef(w) THEN Undefined ELSE Num(v.n + w.n)

\* evaluate_binary_op: the operators that may not work out their right side.
BinaryOp(sym, l, r, data, s) ==
  IF sym = ":="
  THEN IF l.op # "var" THEN Result(Err("S0212"), s)
       ELSE Then(Eval(r, data, s), LAMBDA v, s1 : Result(v, Bind(s1, l.n, v)))
  ELSE Then(Eval(l, data, s), LAMBDA v, s1 :
         CASE sym = "??" -> IF IsUndef(v) THEN Eval(r, data, s1) ELSE Result(v, s1)
           [] sym = "?:" -> IF Truthy(v) THEN Result(v, s1) ELSE Eval(r, data, s1)
           [] sym \in {"and", "or"} ->
                IF Truthy(v) = (sym = "or") THEN Result(Bool(Truthy(v)), s1)
                ELSE Then(Eval(r, data, s1), LAMBDA w, s2 : Result(Bool(Truthy(w)), s2))
           [] OTHER -> Then(Eval(r, data, s1), LAMBDA w, s2 : Result(Operated(sym, v, w), s2)))

\* wildcard_values: what an object or array holds, arrays in it flattened out.
RECURSIVE DeepItems(_)
DeepItems(v) == IF IsArr(v) THEN FlattenSeq(Each(DeepItems, v.items)) ELSE <<v>>
WildcardOf(v) ==
  LET held == IF IsObj(v) THEN v.vals ELSE IF IsArr(v) THEN v.items ELSE <<>>
      all  == FlattenSeq(Each(DeepItems, held))
  IN IF ~ IsObj(v) /\ ~ IsArr(v) THEN Undefined
     ELSE IF \E i \in DOMAIN held : IsArr(held[i]) THEN Plain(all) ELSE Gathered(all)

\* collect_descendants: every value at or below, but for the arrays.
RECURSIVE AtOrBelow(_)
AtOrBelow(v) ==
  CASE IsUndef(v) -> <<>>
    [] IsObj(v)   -> <<v>> \o FlattenSeq(Each(AtOrBelow, v.vals))
    [] IsArr(v)   -> FlattenSeq(Each(AtOrBelow, v.items))
    [] OTHER      -> <<v>>
DescendantsOf(v) == Given(AtOrBelow(v), LAMBDA all : IF Len(all) = 1 THEN all[1] ELSE Gathered(all))

NegateOn(v) == CASE IsUndef(v) -> v [] IsNum(v) -> Num(- v.n) [] OTHER -> Err("D1002")

\* evaluate_leaf and evaluate_internal_impl.
Node(node, data, s) ==
  CASE node.op = "lit"  -> Result(node.v, s)
    [] node.op = "name" -> Result(IF IsTuple(data) THEN Undefined ELSE FieldStep(node.f, data), s)
    [] node.op = "var"  -> Result(IF node.n = "" THEN DollarOf(data, s) ELSE ValueOf(node.n, data, s), s)
    [] node.op = "parent" -> Result(ValueOf(node.label, data, s), s)
    [] node.op = "root" -> Result(s.root, s)
    [] node.op = "path" -> Path(node.steps, data, s)
    [] node.op = "block" -> Block(node.exprs, data, s)
    [] node.op = "array" -> ConstructArray(node.exprs, data, s)
    [] node.op = "object" -> ConstructObject(node.pairs, data, s)
    [] node.op = "group" -> GroupNode(node.input, node.pairs, data, s)
    [] node.op = "sort" ->
         Given(SortNode(node.input, node.terms, data, FALSE, s), LAMBDA r : Result(r.v, r.s))
    [] node.op = "binary" -> BinaryOp(node.sym, node.l, node.r, data, s)
    [] node.op = "neg" -> Then(Eval(node.e, data, s), LAMBDA v, s1 : Result(NegateOn(v), s1))
    [] node.op = "cond" ->
         Then(Eval(node.c, data, s), LAMBDA c, s1 :
           IF Truthy(c) THEN Eval(node.yes, data, s1)
           ELSE IF node.no = <<>> THEN Result(Undefined, s1) ELSE Eval(node.no[1], data, s1))
    [] node.op = "wild" -> Result(WildcardOf(data), s)
    [] node.op = "descendant" -> Result(DescendantsOf(data), s)
    [] node.op = "function" /\ node.f = "error" -> Result(Err("D3137"), s)

\* A request to keep tuples reaches only what a path ends in.
Raw(node, data, s) ==
  IF ~ s.keep \/ node.op \in {"path", "sort", "block"} THEN Node(node, data, s)
  ELSE After0(Node(node, data, Keeping(s, FALSE)), LAMBDA s1 : Keeping(s1, TRUE))

\* evaluate: a scope of its own, and its input as `$$`.
Fresh(plain) ==
  [frames |-> <<NewFrame>>, keep |-> FALSE, made |-> FALSE, plain |-> plain, root |-> Unbound]
Entered(data, s) ==
  [PushScope(s) EXCEPT !.made = FALSE, !.root = IF s.root = Unbound THEN data ELSE s.root]

\* A fault: `$$` stays the first input.
RootStays(before, after) ==
  Keeping([after EXCEPT !.frames = SubSeq(@, 1, Len(before.frames))], FALSE)

\* The evaluator as it was, whatever an error left undone.
Left(before, after) ==
  Keeping([after EXCEPT !.frames = SubSeq(@, 1, Len(before.frames)), !.root = before.root], FALSE)

\* evaluate_from_entry: what the expression gives, `raw`, and no tuple of it.
EvaluateIn(node, data, s) ==
  Given(Eval(node, IntoOuter(data), Entered(data, s)), LAMBDA r :
    [v |-> IF IsErr(r.v) THEN r.v ELSE IF r.s.made THEN UnwrapOutput(r.v) ELSE r.v,
     raw |-> r.v, left |-> r.s, s |-> Left(s, r.s)])
=============================================================================
