------------------------------- MODULE Ordering -------------------------------
(***************************************************************************)
(* The two sorts of the evaluator (evaluator.rs): `^( )`, which works out  *)
(* every item's terms first and compares those, and `$sort`, which calls a *)
(* comparator function.  Each has a shortcut around jsonata-js's merge     *)
(* sort: for terms of one kind, and for comparators like `$l.f > $r.f`.    *)
(*                                                                         *)
(* An item is what it is sorted by: its terms, or the comparator's field.  *)
(***************************************************************************)
EXTENDS JValues

Item(at, keys) == [k |-> "item", at |-> at, keys |-> keys]
Failed(items)  == IF items = <<>> THEN FALSE ELSE IsErr(items[Len(items)])

IsText(v) == v.k = "string"
Sign(n)   == IF n < 0 THEN -1 ELSE IF n > 0 THEN 1 ELSE 0
\* partial_cmp and cmp, of two numbers or two strings.
Compare(v, w) == IF IsNum(v) THEN Sign(v.n - w.n) ELSE Sign(Rank(v.s) - Rank(w.s))

(***************************************************************************)
(* `^( )`: `how` gives for each term whether it ascends.                   *)
(***************************************************************************)
\* compare_sort_keys: undefined sorts last in either direction.
TermSign(v, w, ascending) ==
  IF IsUndef(v) /\ IsUndef(w) THEN 0
  ELSE IF IsUndef(v) THEN 1 ELSE IF IsUndef(w) THEN -1
  ELSE IF ascending THEN Compare(v, w) ELSE - Compare(v, w)

\* A fault: the first term alone decides.
FirstTermSign(a, b, ascends) == TermSign(a[1], b[1], ascends[1])

KeysSign(a, b, ascends) ==
  FoldLeftDomain(LAMBDA sign, i : IF sign # 0 THEN sign ELSE TermSign(a[i], b[i], ascends[i]),
                 0, ascends)

\* sort_keys_after, one term: the terms compare, or the sort fails.
TermError(v, w) ==
  IF IsUndef(v) \/ IsUndef(w) \/ (v.k = w.k /\ (IsNum(v) \/ IsText(v))) THEN <<>>
  ELSE IF (IsNum(v) \/ IsText(v)) /\ (IsNum(w) \/ IsText(w)) THEN <<Err("T2007")>>
  ELSE <<Err("T2008")>>

\* sort_keys_after: whether the item with keys `a` goes after the one with keys `b`.
KeysAfter(a, b, ascends) ==
  LET verdict == FoldLeftDomain(
        LAMBDA r, i : IF IsErr(r) THEN r ELSE IF r.n # 0 THEN r
                      ELSE FirstError(TermError(a[i], b[i]), Num(TermSign(a[i], b[i], ascends[i]))),
        Num(0), ascends)
  IN IF IsErr(verdict) THEN verdict ELSE Bool(verdict.n = 1)

(***************************************************************************)
(* `$sort`: `how` gives the comparator, `$l.f op $r.f` or, flipped,        *)
(* `$r.f op $l.f`; an item's key is its field f.                           *)
(***************************************************************************)
Comparable(v) == IsNum(v) \/ IsText(v) \/ IsUndef(v)

\* compiled_ordered_cmp, and the difference of two numbers.
Operation(op, v, w) ==
  IF op = "-"
  THEN IF IsUndef(v) \/ IsUndef(w) THEN Undefined
       ELSE IF IsNum(v) /\ IsNum(w) THEN Num(v.n - w.n) ELSE Err("T2001")
  ELSE IF ~ Comparable(v) \/ ~ Comparable(w) THEN Err("T2010")
  ELSE IF IsUndef(v) \/ IsUndef(w) THEN Undefined
  ELSE IF v.k # w.k THEN Err("T2009")
  ELSE LET sign == Compare(v, w)
       IN Bool(CASE op = ">"  -> sign = 1  [] op = ">=" -> sign # -1
                 [] op = "<"  -> sign = -1 [] op = "<=" -> sign # 1)

CallComparator(how, left, right) ==
  IF how.flipped THEN Operation(how.op, right, left) ELSE Operation(how.op, left, right)

\* What a comparison of two items says of the left one: true if it goes after.
After(how, left, right) ==
  IF how.by = "terms" THEN KeysAfter(left.keys, right.keys, how.ascends)
  ELSE CallComparator(how, left.keys[1], right.keys[1])

\* js_truthy of the comparator's result, or its bool.
TakesRight(after) == Truthy(after)

RECURSIVE Merge(_, _, _)
Merge(how, left, right) ==
  IF left = <<>> THEN right ELSE IF right = <<>> THEN left
  ELSE Given(After(how, left[1], right[1]), LAMBDA after :
    IF IsErr(after) THEN <<after>>
    ELSE IF TakesRight(after) THEN <<right[1]>> \o Merge(how, left, Tail(right))
    ELSE <<left[1]>> \o Merge(how, Tail(left), right))

Halves(items) ==
  <<SubSeq(items, 1, Len(items) \div 2), SubSeq(items, Len(items) \div 2 + 1, Len(items))>>

\* merge_sort_keyed: each half, then their merge.
RECURSIVE MergeSort(_, _)
MergeSort(how, items) ==
  IF Len(items) <= 1 THEN items
  ELSE Given(Each(LAMBDA half : MergeSort(how, half), Halves(items)), LAMBDA sorted :
    IF Failed(sorted[1]) THEN sorted[1] ELSE IF Failed(sorted[2]) THEN sorted[2]
    ELSE Merge(how, sorted[1], sorted[2]))

\* `sort_by`, which is stable: an item's place is how many go before it.
StableOrder(n, Cmp(_, _)) ==
  LET goesBefore(i, j) == \/ Cmp(i, j) < 0
                          \/ Cmp(i, j) = 0 /\ i < j
      placeOf(j) == 1 + Cardinality({i \in 1 .. n : goesBefore(i, j)})
  IN [p \in 1 .. n |-> CHOOSE j \in 1 .. n : placeOf(j) = p]

(***************************************************************************)
(* evaluate_sort: one kind of value in each term means no comparison can   *)
(* fail, and any stable sort will do.                                      *)
(***************************************************************************)
Homogeneous(items, ascends) ==
  \A t \in DOMAIN ascends :
    LET kinds == {items[i].keys[t].k : i \in DOMAIN items} \ {"undefined"}
    IN Cardinality(kinds) <= 1 /\ kinds \subseteq {"number", "string"}

OrderBy(items, ascends) ==
  IF Homogeneous(items, ascends)
  THEN LET order == StableOrder(Len(items),
                      LAMBDA i, j : KeysSign(items[i].keys, items[j].keys, ascends))
       IN [p \in DOMAIN items |-> items[order[p]]]
  ELSE MergeSort([by |-> "terms", ascends |-> ascends], items)

(***************************************************************************)
(* merge_sort_with_comparator, and merge_sort_specialized.                 *)
(***************************************************************************)
\* try_specialize_sort_comparator
Descends(how) ==
  CASE how.op = "-" -> how.flipped
    [] how.op \in {">", ">="} -> how.flipped
    [] OTHER -> ~ how.flipped

\* compare_sort_keys of the keys taken out beforehand.
FieldSign(v, w, descending) ==
  LET sign == IF IsUndef(v) /\ IsUndef(w) THEN 0 ELSE IF IsUndef(v) THEN 1
              ELSE IF IsUndef(w) THEN -1 ELSE Compare(v, w)
  IN IF descending THEN - sign ELSE sign

\* A fault: an item goes where the permutation takes its place from.
TakenThere(items, order) == [p \in DOMAIN items |-> items[CHOOSE q \in DOMAIN items : order[q] = p]]

\* The permutation applied: what its cycles leave, swap by swap (SwapOn in Algorithms).
Placed(items, order) == [p \in DOMAIN items |-> items[order[p]]]

\* The keys are all numbers or all strings, where there are any.
CanSpecialize(items) == Homogeneous(items, <<TRUE>>)

Specialized(how, items) ==
  Placed(items, StableOrder(Len(items), LAMBDA i, j :
                  FieldSign(items[i].keys[1], items[j].keys[1], Descends(how))))

RECURSIVE SortWith(_, _)
SortWith(how, items) ==
  IF Len(items) <= 1 THEN items
  ELSE IF CanSpecialize(items) THEN Specialized(how, items)
  ELSE Given(Each(LAMBDA half : SortWith(how, half), Halves(items)), LAMBDA sorted :
    IF Failed(sorted[1]) THEN sorted[1] ELSE IF Failed(sorted[2]) THEN sorted[2]
    ELSE Merge(how, sorted[1], sorted[2]))
=============================================================================
