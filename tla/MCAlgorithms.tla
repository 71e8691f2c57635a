----------------------------- MODULE MCAlgorithms -----------------------------
(***************************************************************************)
(* The questions: few items to sort, short ranges, small trees, the shapes *)
(* of the builtins' signatures, and the dates of a whole cycle of weekdays *)
(* and leap years.                                                         *)
(***************************************************************************)
EXTENDS Rearrangements

Lists(S, n) == UNION {[1 .. i -> S] : i \in 0 .. n}

\* Two terms, of which the second decides among equals of the first.
TermKeys == {<<k, l>> : k \in {Num(1), Num(2), Str("a"), Null, Undefined}, l \in {Num(1), Num(2)}}
AskOrder ==
  [asks : {"order"}, keys : [1 .. 3 -> TermKeys], ascends : {<<TRUE, TRUE>>, <<FALSE, TRUE>>, <<TRUE, FALSE>>}]

AskSort ==
  [asks : {"sort"},
   keys : Lists({<<Num(1)>>, <<Num(2)>>, <<Num(3)>>, <<Undefined>>}, 4)
            \cup Lists({<<Num(1)>>, <<Str("a")>>, <<Bool(TRUE)>>, <<Undefined>>}, 3),
   how  : [by : {"comparator"}, op : {">", "<", ">=", "<=", "-"}, flipped : BOOLEAN]]

Ends == {Num(n) : n \in MinInt - 2 .. MaxInt + 2} \cup {Fraction, Undefined, Null, Str("a")}
AskRange ==
  [asks : {"range"}, left : Ends, right : Ends, limit : {NoLimit, 3}]

Leaves == {Num(1), Obj(<<"a">>, <<Num(1)>>), Obj(<<"b">>, <<Num(2)>>), Obj(<<"b", "a">>, <<Num(2), Num(1)>>)}
Branches ==
  Leaves \cup {Obj(<<"a", "b">>, <<v, w>>) : v, w \in Leaves} \cup {Arr(<<v, w>>) : v, w \in Leaves}
Few == {Num(1), Obj(<<"a">>, <<Num(1)>>)}
Trees == {Obj(<<"x", "a">>, <<v, w>>) : v \in Branches, w \in Few} \cup {Arr(<<v, w>>) : v \in Few, w \in Branches}
ObjectsOf(v) == {p \in Places(v) : IsObj(At(v, p))}
Update(gives, copies) == [gives |-> gives, copies |-> copies]
Changes ==
  {<<Update(Obj(<<"a">>, <<Num(2)>>), <<>>), delete>> : delete \in {Undefined, Str("a"), Arr(<<Str("a"), Str("b")>>)}}
    \cup {<<Update(Obj(<<>>, <<>>), << <<"c", "a">>, <<"a", "b">> >>), Undefined>>,
          <<Update(Null, <<>>), Str("a")>>, <<Update(Null, <<>>), Arr(<<Num(1)>>)>>, <<Update(Num(1), <<>>), Undefined>>}
AskTransform ==
  UNION {{[asks |-> "transform", input |-> tree, places |-> places, update |-> change[1], delete |-> change[2]] :
            places \in {ps \in SUBSET ObjectsOf(tree) : Cardinality(ps) \in 1 .. 2},
            change \in Changes} : tree \in Trees}

T(types, mod) == Param(types, "", mod)
OfItems(item) == Param({"a"}, item, "")
Shapes ==
  {<<T({"n"}, "-")>>, <<T({"x"}, ""), T({"x"}, "")>>, <<T({"b"}, ""), T({"s"}, "?")>>, <<OfItems("n")>>,
   <<T({"s"}, "-"), T({"s", "f"}, "")>>, <<T({"x"}, ""), T({"f"}, "?")>>,
   <<T({"s"}, "-"), T({"n"}, ""), T({"n"}, "?")>>, <<T({"s"}, "-"), T({"n"}, ""), T({"s"}, "?")>>,
   <<T({"n"}, "-"), T({"s"}, ""), T({"o"}, "?")>>, <<T({"n"}, "-"), T({"s"}, "?"), T({"s"}, "?")>>,
   <<T({"a"}, ""), T({"f"}, ""), T({"j"}, "?")>>, <<T({"a"}, ""), T({"f"}, "?")>>,
   <<T({"s"}, "-"), T({"s", "f"}, ""), T({"s", "f"}, ""), T({"n"}, "?")>>,
   <<T({"a"}, "+")>>, <<T({"x"}, "-"), T({"b"}, "?")>>, <<T({"s"}, "-"), T({"f"}, ""), T({"n"}, "?")>>,
   <<T({"o"}, "-"), T({"f"}, "?")>>, <<T({"x"}, "-"), T({"s"}, "")>>, <<OfItems("s"), T({"s"}, "?")>>,
   <<T({"n", "s", "b"}, "-")>>, <<OfItems("o")>>, <<>>}
Args == {Num(1), Str("a"), Bool(TRUE), Null, Undefined, FunctionValue, Regex,
         Arr(<<Num(1)>>), Arr(<<Num(1), Str("a")>>)}
Contexts == {Str("b"), Num(2)}
AskArgs ==
  [asks : {"args"}, params : Shapes, args : Lists(Args, 3), context : Contexts]

\* Every weekday with either length of year.
Years == 1996 .. 2024
Dates == {C!Date(y, m, d) : y \in Years, m \in 1 .. 12, d \in {1, 2, 3, 4, 5, 6, 7, 8, 15, 21, 22, 23, 24, 25, 26, 27, 28, 29, 30, 31}}
AskWeek == [asks : {"week"}, date : {t \in Dates : C!IsDate(t.y, t.m, t.d)}]

MCNow == [date |-> C!Date(2022, 4, 30), H |-> 15, mi |-> 30, s |-> 45]
Moments ==
  {[date |-> date, H |-> H, mi |-> mi, s |-> 59] :
     date \in {C!Date(2020, 12, 31), C!Date(2023, 1, 1), C!Date(2021, 2, 28), C!Date(2021, 3, 31)},
     H \in {0, 1, 11, 12, 13, 23}, mi \in {0, 7}}
Pictures ==
  {d \cup t : d \in (SUBSET {"Y", "M", "D"}) \cup {{"Y", "d"}}, t \in (SUBSET {"P", "h", "m", "s"}) \cup (SUBSET {"H", "m", "s"})}
AskMoment ==
  [asks : {"moment"}, components : Pictures \ {{}}, written : Moments]

Permutations4 == {f \in [1 .. 4 -> 1 .. 4] : \A p, r \in 1 .. 4 : f[p] = f[r] => p = r}
AskPlace ==
  [asks : {"place"}, items : {<<"a", "b", "c", "d">>, <<"a", "a", "b", "c">>}, order : Permutations4]
    \cup {[asks |-> "place", items |-> <<>>, order |-> <<>>], [asks |-> "place", items |-> <<"a", "b">>, order |-> <<2, 1>>]}

MCQuestions ==
  <<AskOrder, AskSort, AskRange, AskTransform, AskArgs, AskWeek, AskMoment, AskPlace>>
=============================================================================
