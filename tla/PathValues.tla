------------------------------ MODULE PathValues ------------------------------
(***************************************************************************)
(* What a path's steps hand each other (evaluator.rs, value.rs): values,   *)
(* arrays with the marks that say where they came from, and tuples, which  *)
(* carry a step's value with the names bound on the way to it.             *)
(***************************************************************************)
EXTENDS JValues

\* JArray: `marks` are those of sequence, outer (outer_wrapper), keep
\* (keep_singleton), cons and sorted (sorted_tuples) that are set.
List(items, marks) == [k |-> "array", items |-> items, marks |-> marks]
Plain(items) == List(items, {})
Gathered(items)  == List(items, {"sequence"})
Marked(v, mark)   == IF IsArr(v) THEN mark \in v.marks ELSE FALSE
Mark(v, mark)     == IF IsArr(v) THEN [v EXCEPT !.marks = @ \cup {mark}] ELSE v
Unmark(v, mark)   == IF IsArr(v) THEN [v EXCEPT !.marks = @ \ {mark}] ELSE v

\* The items a value stands for, where one that is no array stands for itself.
ItemsIn(v) == IF IsArr(v) THEN v.items ELSE <<v>>

\* fresh_sequence: of the marks only "sorted" stays.
FreshSequence(arr) == List(arr.items, {"sequence"} \cup (arr.marks \cap {"sorted"}))

IntoOuter(v) == IF Marked(v, "sequence") THEN v ELSE Mark(v, "outer")
BareOf(v)    == Unmark(v, "outer")

\* unwrap_sequence: the generic unwrap, which `[]` holds back.
Unwrap(value) ==
  Given(value, LAMBDA v :
    IF ~ Marked(v, "sequence") THEN v
    ELSE IF v.items = <<>> THEN Undefined
    ELSE IF Len(v.items) = 1 /\ "keep" \notin v.marks THEN v.items[1]
    ELSE v)

(***************************************************************************)
(* Tuples: the wrapper objects, told apart by their `__tuple__`.  `binds`  *)
(* takes a name, or an ancestor's label, to what it stands for.            *)
(***************************************************************************)
NoBinds == [n \in {} |-> Undefined]
Tuple(at, binds) == [k |-> "tuple", at |-> at, binds |-> binds]
IsTuple(v) == v.k = "tuple"
StartsWithTuple(items) == IF items = <<>> THEN FALSE ELSE IsTuple(items[1])
FocusValue(v) == IF IsTuple(v) THEN v.at ELSE v

\* sorted_tuple_items: tuples as the plain objects a filter, sort or group-by sees,
\* their names in no order that matters.
AsPlainObject(v) ==
  IF ~ IsTuple(v) THEN v
  ELSE LET names == SetToSeq(DOMAIN v.binds)
       IN Obj(<<"@">> \o names, <<v.at>> \o [i \in DOMAIN names |-> v.binds[names[i]]])

\* reduce_tuple_stream: what each name stands for in any of them, appended.
Reduce(group) ==
  LET With(acc, v, there) ==
        IF there THEN Plain(ItemsIn(acc) \o ItemsIn(v)) ELSE v
  IN FoldLeft(LAMBDA acc, t :
       Tuple(With(acc.at, t.at, TRUE),
             [n \in DOMAIN acc.binds \cup DOMAIN t.binds |->
                IF n \notin DOMAIN t.binds THEN acc.binds[n]
                ELSE IF n \in DOMAIN acc.binds THEN With(acc.binds[n], t.binds[n], TRUE)
                ELSE t.binds[n]]),
       group[1], Tail(group))

\* unwrap_tuple_output: the values of tuples anywhere in a result.
RECURSIVE UnwrapOutput(_)
UnwrapOutput(v) ==
  CASE IsTuple(v) -> UnwrapOutput(v.at)
    [] IsObj(v)   -> [v EXCEPT !.vals = Each(UnwrapOutput, v.vals)]
    [] IsArr(v)   -> List(Each(UnwrapOutput, v.items), v.marks \ {"sorted", "outer"})
    [] OTHER      -> v

RECURSIVE HoldsTuple(_)
HoldsTuple(v) ==
  CASE IsTuple(v) -> TRUE
    [] IsObj(v)   -> \E i \in DOMAIN v.vals : HoldsTuple(v.vals[i])
    [] IsArr(v)   -> \E i \in DOMAIN v.items : HoldsTuple(v.items[i])
    [] OTHER      -> FALSE

(***************************************************************************)
(* How a step's results are combined.                                      *)
(***************************************************************************)
FlattensInStep(v) == IsArr(v) /\ ~ Marked(v, "cons")

Spliced(values) ==
  FoldLeft(LAMBDA list, v : list \o (IF FlattensInStep(v) THEN v.items ELSE <<v>>), <<>>, values)

\* collect_step_results, with jsonata-js's last-step rule.
CollectStepResults(values, last) ==
  Given(values, LAMBDA vs :
    IF Len(vs) # 1 THEN Gathered(Spliced(vs))
    ELSE IF last /\ IsArr(vs[1]) /\ ~ Marked(vs[1], "sequence") THEN vs[1]
    ELSE IF FlattensInStep(vs[1]) THEN FreshSequence(vs[1])
    ELSE Gathered(vs))

\* collect_single_step_result: one value needs no sequence to stand for it.
CollectSingle(value, last) ==
  Given(value, LAMBDA v : IF IsArr(v) THEN CollectStepResults(<<v>>, last) ELSE v)

\* keep_singleton, keep_if_sequence: what `[]` does.
KeepSingleton(v) ==
  IF IsUndef(v) THEN v
  ELSE IF IsArr(v) /\ ~ (Marked(v, "cons") /\ ~ Marked(v, "sequence")) THEN Mark(v, "keep")
  ELSE Mark(Gathered(<<v>>), "keep")

KeepIfSequence(v) == IF Marked(v, "sequence") THEN Mark(v, "keep") ELSE v

\* item_at: a position counts from 0, or from the end if negative.
PositionIn(n, len) == IF n < 0 THEN n + len + 1 ELSE n + 1
ItemAt(items, n) ==
  LET i == PositionIn(n, Len(items))
  IN IF i \in DOMAIN items THEN <<items[i]>> ELSE <<>>

\* predicate_index_match: how often a selector of numbers chooses the item there.
TimesChosen(selector, index, len) ==
  Len(SelectSeq(ItemsIn(selector), LAMBDA n : PositionIn(n.n, len) = index))
IsPosition(selector) ==
  \A i \in DOMAIN ItemsIn(selector) : IsNum(ItemsIn(selector)[i])

\* group_items, group_context, object_context.
GroupItems(data) ==
  IF Marked(data, "outer") THEN <<BareOf(data)>>
  ELSE IF IsArr(data) /\ data.items = <<>> THEN <<Undefined>>
  ELSE ItemsIn(data)
GroupContext(items) ==
  IF Len(items) = 1 THEN items[1] ELSE Plain(Flattened(Defined(items)))
ObjectContext(data) == IF IsArr(data) THEN GroupContext(GroupItems(data)) ELSE data

\* compiled_field_step: a field of a value, or of each of an array's items.
RECURSIVE FieldStep(_, _)
FieldStep(field, value) ==
  CASE IsObj(value)   -> Get(value, field)
    [] IsTuple(value) -> IF IsObj(value.at) THEN Get(value.at, field) ELSE Undefined
    [] IsArr(value)   ->
         Given(Flattened(Defined([i \in DOMAIN value.items |-> FieldStep(field, value.items[i])])),
               LAMBDA found : IF found = <<>> THEN Undefined ELSE Gathered(found))
    [] OTHER -> Undefined
=============================================================================
