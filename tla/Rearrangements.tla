---------------------------- MODULE Rearrangements ----------------------------
(***************************************************************************)
(* What is made of values that are there: the questions about the sorts of *)
(* Ordering, and `| location | update, delete |` (evaluator.rs,            *)
(* execute_transform).  The location finds objects, and a copy of the      *)
(* input is made in which every value equal to one of those is updated:    *)
(* where in the input an object was found is not known.                    *)
(*                                                                         *)
(* What the update gives for a matched object is `update`: an object whose *)
(* fields are taken over, with the names in `copies` standing for fields   *)
(* of the match; or a value of another kind.                               *)
(***************************************************************************)
EXTENDS Algorithms, Ordering

(***************************************************************************)
(* The transform.                                                          *)
(***************************************************************************)
\* Fields the update gives that match: {key: $.field} for the pairs of `copies`.
UpdateFor(update, matched) ==
  IF update.gives.k # "object" THEN update.gives
  ELSE FoldLeft(LAMBDA obj, c :
         IF IsUndef(Get(matched, c[2])) THEN obj ELSE Insert(obj, c[1], Get(matched, c[2])),
         update.gives, update.copies)

\* transform_deletions: the names of the fields to go, or T2012.
Deletions(delete) ==
  LET names == IF IsArr(delete) THEN delete.items ELSE IF IsUndef(delete) THEN <<>> ELSE <<delete>>
  IN IF \A i \in DOMAIN names : names[i].k = "string"
     THEN [names |-> {names[i].s : i \in DOMAIN names}, error |-> <<>>]
     ELSE [names |-> {}, error |-> <<Err("T2012")>>]

Without(obj, names) ==
  LET kept == SelectSeq([i \in DOMAIN obj.keys |-> i], LAMBDA i : obj.keys[i] \notin names)
  IN Obj([i \in DOMAIN kept |-> obj.keys[kept[i]]], [i \in DOMAIN kept |-> obj.vals[kept[i]]])

Taken(obj, fields) ==
  FoldLeftDomain(LAMBDA o, i : Insert(o, fields.keys[i], fields.vals[i]), obj, fields.keys)

\* A fault: the fields are deleted before the update is made.
DeletedFirst(matched, updated, names) == Taken(Without(matched, names), updated)

Changed(matched, updated, names) == Without(Taken(matched, updated), names)

\* What becomes of a matched value; one that is no object stays.
ChangeMatched(update, delete, matched) ==
  IF ~ IsObj(matched) THEN matched
  ELSE LET updated == UpdateFor(update, matched)
           gone    == Deletions(delete)
           fields  == IF IsObj(updated) THEN updated ELSE Obj(<<>>, <<>>)
       IN IF updated.k \notin {"object", "null", "undefined"} THEN Err("T2011")
          ELSE FirstError(gone.error, Changed(matched, fields, gone.names))

IsTarget(value, targets) == \E i \in DOMAIN targets : ValuesEqual(targets[i], value)

\* apply_transform_deep: a match is not looked into.
RECURSIVE ApplyDeep(_, _, _, _)
ApplyDeep(value, targets, update, delete) ==
  IF IsTarget(value, targets) THEN ChangeMatched(update, delete, value)
  ELSE IF IsObj(value)
  THEN Given(Each(LAMBDA v : ApplyDeep(v, targets, update, delete), value.vals),
             LAMBDA vals : FirstError(vals, Obj(value.keys, vals)))
  ELSE IF IsArr(value)
  THEN Given(Each(LAMBDA v : ApplyDeep(v, targets, update, delete), value.items),
             LAMBDA items : FirstError(items, Arr(items)))
  ELSE value

\* execute_transform; `located` is what the location gave.
ExecuteTransform(input, located, update, delete) ==
  IF IsUndef(input) THEN Undefined
  ELSE IF ~ IsObj(input) /\ ~ IsArr(input) THEN Err("T0410")
  ELSE ApplyDeep(input,
                 IF IsArr(located) THEN located.items
                 ELSE IF located.k = "null" THEN <<>> ELSE <<located>>,
                 update, delete)

\* invoke_transform: the function a transform is takes one argument.
InvokeTransform(args, Located(_), update, delete) ==
  IF Len(args) > 1 THEN Err("T0410")
  ELSE LET input == IF args = <<>> THEN Undefined ELSE args[1]
       IN ExecuteTransform(input, IF IsUndef(input) THEN Undefined ELSE Located(input), update, delete)

(***************************************************************************)
(* The questions, with what the properties hold their results to.          *)
(***************************************************************************)
\* What there is to sort: an item for each of the keys.
Items == [i \in DOMAIN question.keys |-> Item(i, question.keys[i])]

\* evaluate_sort, and the stable sort it should be: by any stable sort, where the
\* keys compare, and by jsonata-js's merge sort.
SortTerms ==
  Answers("order", [sorted |-> OrderBy(Items, question.ascends),
                    merged |-> MergeSort([by |-> "terms", ascends |-> question.ascends], Items)])

\* `$sort` with a comparator, and jsonata-js's merge sort.
SortByComparator ==
  Answers("sort", [sorted |-> SortWith(question.how, Items),
                   merged |-> MergeSort(question.how, Items)])

\* Places in a value: the indices on the way to them.
RECURSIVE Places(_)
Places(v) ==
  LET inside == IF IsObj(v) THEN v.vals ELSE IF IsArr(v) THEN v.items ELSE <<>>
  IN {<<>>} \cup UNION {{<<i>> \o p : p \in Places(inside[i])} : i \in DOMAIN inside}

RECURSIVE At(_, _)
At(v, place) ==
  IF place = <<>> THEN v
  ELSE IF IsObj(v) THEN At(v.vals[place[1]], Tail(place)) ELSE At(v.items[place[1]], Tail(place))

RECURSIVE PutAt(_, _, _)
PutAt(v, place, new) ==
  IF place = <<>> THEN new
  ELSE IF IsObj(v) THEN [v EXCEPT !.vals[place[1]] = PutAt(@, Tail(place), new)]
  ELSE [v EXCEPT !.items[place[1]] = PutAt(@, Tail(place), new)]

\* One of `places` is another's beginning.
OneInAnother(places) == \E p, q \in places : p # q /\ IsPrefix(p, q)

\* Another place than these holds what one of them does.
Twins(v, places) == \E p \in places, q \in Places(v) \ places : ValuesEqual(At(v, p), At(v, q))

\* What should become of a matched object: its fields in their order and the update's
\* after them, with the update's values, and without those to be deleted.
MeantFor(matched, update, delete) ==
  LET updated == UpdateFor(update, matched)
      fields  == IF IsObj(updated) THEN updated ELSE Obj(<<>>, <<>>)
      gone    == IF IsUndef(delete) THEN {} ELSE IF IsArr(delete) THEN ToSet(delete.items) ELSE {delete}
      keys    == SelectSeq(matched.keys \o SelectSeq(fields.keys, LAMBDA key : ~ HasKey(matched, key)),
                           LAMBDA key : Str(key) \notin gone)
  IN IF updated.k \notin {"object", "null", "undefined"} \/ \E v \in gone : v.k # "string" THEN Err("T2011")
     ELSE Obj(keys, [i \in DOMAIN keys |-> IF HasKey(fields, keys[i]) THEN Get(fields, keys[i])
                                            ELSE Get(matched, keys[i])])

\* Every object at `places` changed where it is, and nothing else.
InPlace(v, places, update, delete) ==
  LET changed(p) == MeantFor(At(v, p), update, delete)
      errors == {changed(p).code : p \in {q \in places : IsErr(changed(q))}}
  IN IF errors # {} THEN Err(CHOOSE e \in errors : TRUE)
     ELSE FoldLeft(LAMBDA w, p : PutAt(w, p, changed(p)), v, SetToSeq(places))

\* The transform, whose location finds what is at `places`.
TransformInput ==
  LET input   == question.input
      places  == question.places
      located == Sequence(Each(LAMBDA p : At(input, p), SetToSeq(places)))
  IN Answers("transform",
       [made    |-> InvokeTransform(<<input>>, LAMBDA v : located, question.update, question.delete),
        inPlace |-> IF OneInAnother(places) THEN Undefined
                    ELSE InPlace(input, places, question.update, question.delete),
        nested  |-> OneInAnother(places), twins |-> Twins(input, places)])

QuestionNext == SortTerms \/ SortByComparator \/ TransformInput \/ ComputeNext

QuestionSpec == QuestionInit /\ [][QuestionNext]_questionVars

(***************************************************************************)
(* Properties                                                              *)
(***************************************************************************)
\* `^( )` gives what jsonata-js's merge sort of the same terms gives, whichever way it
\* sorts: a mix of kinds fails in both, though not always at the same comparison, and
\* items of equal terms keep their order (evaluator.rs, evaluate_sort's homogeneous
\* test before sort_by, and merge_sort_keyed).
TermsAsMergeSort ==
  Told("order") => result.sorted = result.merged

\* `$sort` with a comparator `$l.f > $r.f` or `<`, either way round, gives what calling
\* the comparator in jsonata-js's merge sort would, where every item has the field
\* (merge_sort_with_comparator, merge_sort_specialized and its permutation in place).
ComparatorsAgree ==
  /\ Told("sort")
  /\ question.how.op \in {">", "<"}
  /\ \A i \in DOMAIN question.keys : ~ IsUndef(question.keys[i][1])
  => result.sorted = result.merged

\* So either shortcut sorts as the merge sort it goes around.
SortsAgree == TermsAsMergeSort /\ ComparatorsAgree

\* A transform changes the objects its location found, each by what the update and the
\* delete give for it, and leaves all else as it is, as long as what it found is not
\* nested and has no equal elsewhere (evaluator.rs, apply_transform_deep).
TransformsInPlace ==
  Told("transform") /\ ~ result.nested /\ ~ result.twins =>
    result.made = result.inPlace \/ (IsErr(result.made) /\ IsErr(result.inPlace))

\* "Evaluating location to find objects to modify", "Applying update (object
\* constructor) to each matched object" (ast.rs:247): an object the location did not
\* find is not changed.
TransformsOnlyMatched ==
  Told("transform") /\ ~ result.nested =>
    result.made = result.inPlace \/ IsErr(result.made)
=============================================================================
