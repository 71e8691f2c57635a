------------------------------ MODULE Algorithms ------------------------------
(***************************************************************************)
(* Functions of their arguments, each asked one question: the range, the   *)
(* signatures, the calendar, and a permutation applied in place.  A        *)
(* question's result is what the code gives; Rearrangements has the        *)
(* questions about sorts and transforms.                                   *)
(***************************************************************************)
EXTENDS Signatures

C == INSTANCE Calendar

CONSTANTS Questions, \* what is asked, a set for each kind of question
          Now,       \* the moment the clock shows
          MaxInt,    \* the greatest i64
          MaxSize    \* the most a range may have: ten million

(***************************************************************************)
(* `start..end` (evaluator.rs, range): the numbers from one to the other,  *)
(* made only after their count has passed two limits.  The ends are floats *)
(* that become integers of a fixed width, and so does the count.           *)
(***************************************************************************)
MinInt  == - MaxInt - 1
Wrap    == 2 * (MaxInt + 1)
NoLimit == -1

\* A number that is no integer.
Fraction == [k |-> "fraction"]
IsMissing(v) == IsUndef(v) \/ v.k = "null"
IsOperand(v) == IsMissing(v) \/ IsNum(v)

\* `as i64`
Saturated(n) == IF n > MaxInt THEN MaxInt ELSE IF n < MinInt THEN MinInt ELSE n

\* A fault: the end is not counted.
SizeShort(start, end) == IF start <= end THEN (end - start) % Wrap ELSE 0

\* The count, which wraps like the difference of two i64s does.
RangeSize(start, end) == IF start <= end THEN (end - start + 1) % Wrap ELSE 0

\* `limit` is the longest sequence the options allow.
Spanned(start, end, limit) ==
  LET size == RangeSize(start, end)
  IN IF size > MaxSize THEN Err("D2014")
     ELSE IF limit # NoLimit /\ size > limit THEN Err("D2015")
     ELSE Sequence([i \in 1 .. end - start + 1 |-> Num(start + i - 1)])

RangeOf(left, right, limit) ==
  IF ~ IsOperand(left) THEN Err("T2003")
  ELSE IF ~ IsOperand(right) THEN Err("T2004")
  ELSE IF IsMissing(left) \/ IsMissing(right) THEN Sequence(<<>>)
  ELSE Spanned(Saturated(left.n), Saturated(right.n), limit)

(***************************************************************************)
(* The questions.  A range's ends are any values; a week's date is one of  *)
(* the calendar; a text that is read gives a date by what YMD or Yd has,   *)
(* and a time by what Hms or Phms has; and an order takes each place from  *)
(* one of its own.                                                         *)
(***************************************************************************)
ASSUME AlgorithmsAssumption ==
  /\ MaxInt \in Nat /\ MaxSize \in Nat
  /\ C!IsMoment(Now)
  /\ \A i \in DOMAIN Questions : \A q \in Questions[i] :
       /\ q.asks = "range" => /\ IsNum(q.left) => q.left.n \in Int
                              /\ IsNum(q.right) => q.right.n \in Int
                              /\ q.limit \in Nat \cup {NoLimit}
       /\ q.asks = "week" => q.date.y \in Int /\ C!IsDate(q.date.y, q.date.m, q.date.d)
       /\ q.asks = "moment" =>
            /\ C!IsMoment(q.written) /\ q.components # {}
            /\ \E d \in (SUBSET {"Y", "M", "D"}) \cup {{"Y", "d"}},
                  t \in (SUBSET {"P", "h", "m", "s"}) \cup (SUBSET {"H", "m", "s"}) : q.components = d \cup t
       /\ q.asks = "place" =>
            LET places == 1 .. Len(q.order)
            IN /\ DOMAIN q.items = places /\ q.items = [p \in places |-> q.items[p]]
               /\ Len(q.order) \in Nat /\ q.order \in [places -> places]
               /\ \A p, r \in places : q.order[p] = q.order[r] => p = r

VARIABLES question, asked, result

questionVars == <<question, asked, result>>

\* What merge_sort_specialized starts from: the items as they are, and none placed.
\* `at` is its i, and `cycle` its j while it follows a cycle.
BeforePlacing == [items |-> question.items, placed |-> {}, at |-> 1, cycle |-> 0]

QuestionInit ==
  /\ \E i \in DOMAIN Questions : question \in Questions[i]
  /\ asked = TRUE
  /\ result = IF question.asks = "place" THEN BeforePlacing ELSE <<>>

Answers(what, value) ==
  /\ asked /\ question.asks = what
  /\ result' = value
  /\ asked' = FALSE
  /\ UNCHANGED question

MakeRange == Answers("range", RangeOf(question.left, question.right, question.limit))

ValidateArgs == Answers("args", ValidateBuiltinArgs(question.params, question.args, question.context))

FindWeek ==
  Answers("week", [component \in {"W", "w", "X", "x"} |->
                     C!Fragment([date |-> question.date, H |-> 0, mi |-> 0, s |-> 0], component)])

\* What was written of a moment, in some of its components, is read again.
ReadMoment ==
  Answers("moment", C!ParseDateTime([c \in question.components |-> C!Fragment(question.written, c)], Now))

(***************************************************************************)
(* The permutation a sort has found, applied to the items where they are:  *)
(* place p gets the item that was at order[p].  Each cycle is followed     *)
(* from its least place, an item swapped on with the next one's.           *)
(***************************************************************************)
\* A fault: the item the cycle carries on is lost.
Overwritten(items, i, j) == [items EXCEPT ![i] = items[j]]

Swapped(items, i, j) == [items EXCEPT ![i] = items[j], ![j] = items[i]]

Placing  == asked /\ question.asks = "place"
InPlaceAlready(p) == p \in result.placed \/ question.order[p] = p
BetweenCycles == Placing /\ result.cycle = 0
InCycle == Placing /\ result.cycle # 0

PassPlaced ==
  /\ BetweenCycles /\ result.at <= Len(question.order) /\ InPlaceAlready(result.at)
  /\ result' = [result EXCEPT !.at = @ + 1]
  /\ UNCHANGED <<question, asked>>

BeginCycle ==
  /\ BetweenCycles /\ result.at <= Len(question.order) /\ ~ InPlaceAlready(result.at)
  /\ result' = [result EXCEPT !.cycle = result.at]
  /\ UNCHANGED <<question, asked>>

SwapOn ==
  LET j == result.cycle  target == question.order[j]
  IN /\ InCycle /\ target # result.at
     /\ result' = [result EXCEPT !.items = Swapped(@, j, target), !.placed = @ \cup {j}, !.cycle = target]
     /\ UNCHANGED <<question, asked>>

CloseCycle ==
  /\ InCycle /\ question.order[result.cycle] = result.at
  /\ result' = [result EXCEPT !.placed = @ \cup {result.cycle}, !.at = @ + 1, !.cycle = 0]
  /\ UNCHANGED <<question, asked>>

EndPlacing == BetweenCycles /\ result.at > Len(question.order) /\ Answers("place", result.items)

PlaceItems == PassPlaced \/ BeginCycle \/ SwapOn \/ CloseCycle \/ EndPlacing

ComputeNext == MakeRange \/ ValidateArgs \/ FindWeek \/ ReadMoment \/ PlaceItems

(***************************************************************************)
(* Properties                                                              *)
(***************************************************************************)
Told(what) == ~ asked /\ question.asks = what

Spans(l, r) == l.n <= MinInt /\ r.n >= MaxInt

\* A range of two integers is every number from the one to the other, in order, or an
\* error if that is more than the limits allow; never a number more or less, however
\* far apart the ends are, short of all the integers there are (evaluator.rs, range).
RangeExact ==
  LET l == question.left  r == question.right
  IN Told("range") /\ IsNum(l) /\ IsNum(r) =>
     Spans(l, r) \/
        LET ns == {n \in MinInt .. MaxInt : Saturated(l.n) <= n /\ n <= Saturated(r.n)}
            most == IF question.limit = NoLimit THEN MaxSize ELSE Min({MaxSize, question.limit})
        IN IF Cardinality(ns) > most THEN IsErr(result)
           ELSE result = Sequence([i \in 1 .. Cardinality(ns) |-> Num(Saturated(l.n) + i - 1)])

\* Each argument reaches the function once and in its place: what the function gets,
\* less what the context gave and what arrays were put around, is what the call gave,
\* and then nothing more than missing values (signature.rs, validate_and_coerce_counted).
ArgsOnce ==
  Told("args") /\ result.error = <<>> =>
    LET given == Supplied(question.params, question.args)
        own   == SubSeq(result.out, result.substituted + 1, Len(result.out))
    IN /\ Len(own) = Len(given)
       /\ SubSeq(result.out, 1, result.substituted) = [i \in 1 .. result.substituted |-> question.context]
       /\ \A i \in DOMAIN given : own[i] = given[i] \/ own[i] = Arr(<<given[i]>>)

\* What a function gets for a parameter is of a kind its signature declares, or missing:
\* an array of such items for an array, made of a value that is none, and never the
\* context if that does not fit (signature.rs).
TypedAsDeclared ==
  Told("args") /\ result.error = <<>> =>
    \A i \in DOMAIN result.out :
      LET p == question.params[IF i > Len(question.params) THEN Len(question.params) ELSE i]
          v == result.out[i]
      IN \/ IsUndef(v)
         \/ p.types = {"a"} /\ IsArr(v) /\ (p.of = "" \/ \A j \in DOMAIN v.items : KindOf(v.items[j]) = p.of)
         \/ p.types # {"a"} /\ KindOf(v) \in Class(p)

\* So a function gets what it was called with, as it declares it.
ArgsAsDeclared == ArgsOnce /\ TypedAsDeclared

\* The Thursday of a date's week.
ThursdayOf(date) ==
  LET d    == date.d + 4 - C!Weekday(C!DayOf(date))
      next == C!NextMonth(date.y, date.m)
      prev == C!PrevMonth(date.y, date.m)
      length == C!MonthLength(date.y, date.m)
  IN IF d < 1 THEN C!Date(prev[1], prev[2], d + C!MonthLength(prev[1], prev[2]))
     ELSE IF d > length THEN C!Date(next[1], next[2], d - length)
     ELSE C!Date(date.y, date.m, d)

\* The week a date is in, of its year and of its month, and the year and the month that
\* week counts for, are those of the week's Thursday (datetime.rs, week_in_year,
\* week_in_month, iso_week_year, iso_week_month).
WeeksByThursday ==
  Told("week") =>
    LET thursday == ThursdayOf(question.date)
    IN /\ result["W"] = (C!DayOfYear(thursday) - 1) \div 7 + 1
       /\ result["w"] = (thursday.d - 1) \div 7 + 1
       /\ result["X"] = thursday.y
       /\ result["x"] = thursday.m

\* A permutation applied in place puts every item where the order says, and takes each
\* once, whatever its cycles are (evaluator.rs, merge_sort_specialized).
PlacedAsSorted ==
  Told("place") => result = [p \in DOMAIN question.items |-> question.items[question.order[p]]]

\* So a list that is made or put in order has what it should, each once.
ListsExact == RangeExact /\ PlacedAsSorted

Read == Told("moment") /\ result # C!Inconsistent
Coarsest == <<"Y", "M", "D", "H", "m", "s">>
\* The places in Coarsest that the components of a text stand for.
PlacesOf(components) ==
  UNION {CASE c = "d" -> {2, 3} [] c \in {"P", "h"} -> {4}
           [] OTHER -> {i \in DOMAIN Coarsest : Coarsest[i] = c} : c \in components}

\* What is read from a text writes as that text again; what is coarser than all of it is
\* that of now, and what is finer the least there is.  A day of the year that this year
\* does not have, read without a year, is left aside (datetime.rs, parse_date_time).
ReadsWhatItWrote ==
  Read =>
    LET given == question.components
        places == PlacesOf(given)
        Field(moment, i) == C!Fragment(moment, Coarsest[i])
    IN /\ \A c \in given : C!Fragment(result, c) = C!Fragment(question.written, c)
       /\ \A i \in DOMAIN Coarsest :
            /\ (\A p \in places : i < p) => Field(result, i) = Field(Now, i)
            /\ (\A p \in places : i > p) => Field(result, i) = C!LeastOfComponent(Coarsest[i])

\* So both ways between a moment and its components are those of one calendar.
CalendarAgrees == WeeksByThursday /\ ReadsWhatItWrote
=============================================================================
