------------------------------- MODULE Calendar -------------------------------
(***************************************************************************)
(* The calendar of `$fromMillis` and `$toMillis` (datetime.rs): the week a *)
(* date is in, of the year and of the month, and the moment that the       *)
(* components read from a text stand for.                                  *)
(*                                                                         *)
(* A date is [y, m, d] with months from 1, and a day is its number, 1 for  *)
(* 1 January of year 1, a Monday.  A moment is a date with [H, mi, s].     *)
(***************************************************************************)
EXTENDS Integers, Sequences

IsLeap(y) == y % 4 = 0 /\ (y % 100 # 0 \/ y % 400 = 0)
MonthLength(y, m) == IF m = 2 THEN IF IsLeap(y) THEN 29 ELSE 28 ELSE IF m \in {4, 6, 9, 11} THEN 30 ELSE 31
DaysBeforeYear(y) == 365 * (y - 1) + (y - 1) \div 4 - (y - 1) \div 100 + (y - 1) \div 400
DaysBeforeMonth(y, m) ==
  <<0, 31, 59, 90, 120, 151, 181, 212, 243, 273, 304, 334>>[m] + (IF m > 2 /\ IsLeap(y) THEN 1 ELSE 0)

Date(y, m, d)  == [y |-> y, m |-> m, d |-> d]
DayOfYear(date) == DaysBeforeMonth(date.y, date.m) + date.d
DayOf(date)    == DaysBeforeYear(date.y) + DayOfYear(date)
Weekday(day)   == ((day - 1) % 7) + 1
IsDate(y, m, d) == m \in 1 .. 12 /\ d \in 1 .. MonthLength(y, m)

IsMoment(t) == /\ t.date.y \in Int /\ IsDate(t.date.y, t.date.m, t.date.d)
               /\ t.H \in 0 .. 23 /\ t.mi \in 0 .. 59 /\ t.s \in 0 .. 59

NextMonth(y, m) == IF m = 12 THEN <<y + 1, 1>> ELSE <<y, m + 1>>
PrevMonth(y, m) == IF m = 1 THEN <<y - 1, 12>> ELSE <<y, m - 1>>

(***************************************************************************)
(* Weeks: the first of a year, or month, holds its first Thursday.         *)
(***************************************************************************)
\* A fault: a first on a Thursday begins no week of its own month.
FirstWeekLate(y, m) ==
  LET first == DayOf(Date(y, m, 1))
  IN IF Weekday(first) > 3 THEN first + 8 - Weekday(first) ELSE first - (Weekday(first) - 1)

StartOfFirstWeek(y, m) ==
  LET first == DayOf(Date(y, m, 1))
  IN IF Weekday(first) > 4 THEN first + 8 - Weekday(first) ELSE first - (Weekday(first) - 1)

\* delta_weeks, in sevenths.
DeltaWeeks(start, day) == day - start + 7

WeekInYear(date) ==
  LET day  == DayOf(date)
      week == DeltaWeeks(StartOfFirstWeek(date.y, 1), day)
  IN (IF week > 52 * 7 /\ day >= StartOfFirstWeek(date.y + 1, 1) THEN 7
      ELSE IF week < 7 THEN DeltaWeeks(StartOfFirstWeek(date.y - 1, 1), day)
      ELSE week) \div 7

WeekInMonth(date) ==
  LET day  == DayOf(date)
      next == NextMonth(date.y, date.m)
      prev == PrevMonth(date.y, date.m)
      week == DeltaWeeks(StartOfFirstWeek(date.y, date.m), day)
  IN (IF week > 4 * 7 /\ day >= StartOfFirstWeek(next[1], next[2]) THEN 7
      ELSE IF week < 7 THEN DeltaWeeks(StartOfFirstWeek(prev[1], prev[2]), day)
      ELSE week) \div 7

IsoWeekYear(date) ==
  LET day == DayOf(date)
  IN IF day < StartOfFirstWeek(date.y, 1) THEN date.y - 1
     ELSE IF day >= StartOfFirstWeek(date.y + 1, 1) THEN date.y + 1 ELSE date.y

IsoWeekMonth(date) ==
  LET day  == DayOf(date)
      next == NextMonth(date.y, date.m)
      prev == PrevMonth(date.y, date.m)
  IN IF day < StartOfFirstWeek(date.y, date.m) THEN prev[2]
     ELSE IF day >= StartOfFirstWeek(next[1], next[2]) THEN next[2] ELSE date.m

(***************************************************************************)
(* Components: get_date_time_fragment writes one of a moment.              *)
(***************************************************************************)
HalfDayHour(hour) == IF hour % 12 = 0 THEN 12 ELSE hour % 12

Fragment(moment, component) ==
  CASE component = "Y" -> moment.date.y
    [] component = "M" -> moment.date.m
    [] component = "D" -> moment.date.d
    [] component = "d" -> DayOfYear(moment.date)
    [] component = "F" -> Weekday(DayOf(moment.date))
    [] component = "W" -> WeekInYear(moment.date)
    [] component = "w" -> WeekInMonth(moment.date)
    [] component = "X" -> IsoWeekYear(moment.date)
    [] component = "x" -> IsoWeekMonth(moment.date)
    [] component = "H" -> moment.H
    [] component = "h" -> HalfDayHour(moment.H)
    [] component = "P" -> IF moment.H >= 12 THEN 1 ELSE 0
    [] component = "m" -> moment.mi
    [] component = "s" -> moment.s

(***************************************************************************)
(* parse_date_time: the components there are must be neighbours in one of  *)
(* the ways to give a date and one of those to give a time.  What is       *)
(* coarser is that of now, and what is finer is the least.                 *)
(***************************************************************************)
Inconsistent == [fails |-> "D3136"]

IsType(all, given) == given \subseteq all /\ given # {}

LeastOfComponent(component) == IF component \in {"M", "D", "d"} THEN 1 ELSE 0

\* What comes before a component in the ways to give a date and a time.
Coarser(component) ==
  CASE component = "Y" -> {}
    [] component = "M" -> {"Y"}
    [] component = "D" -> {"Y", "M"}
    [] component \in {"P", "H"} -> {"Y", "M", "D"}
    [] component = "h" -> {"Y", "M", "D", "P"}
    [] component = "m" -> {"Y", "M", "D", "P", "h", "H"}
    [] component = "s" -> {"Y", "M", "D", "P", "h", "H", "m"}

\* Of the components gone through one is missing between two that are there.
HasGap(there, walked) ==
  \E e, c, f \in walked :
    e \in there /\ c \notin there /\ f \in there /\ e \in Coarser(c) /\ c \in Coarser(f)

\* A component's value: as it was given, or the least after one that was, or now's.
FilledIn(given, walked, now, component) ==
  IF component \in DOMAIN given THEN given[component]
  ELSE IF \E e \in walked \cap DOMAIN given : e \in Coarser(component) THEN LeastOfComponent(component)
  ELSE Fragment(now, component)

\* The date of a day of the year, counted on from 1 January.
DateOfYearDay(y, n) ==
  LET day == DaysBeforeYear(y) + n
      year == IF n > DaysBeforeYear(y + 1) - DaysBeforeYear(y) THEN y + 1 ELSE y
      month == CHOOSE m \in 1 .. 12 :
                 day - DaysBeforeYear(year) - DaysBeforeMonth(year, m) \in 1 .. MonthLength(year, m)
  IN Date(year, month, day - DaysBeforeYear(year) - DaysBeforeMonth(year, month))

\* A fault: twelve is taken for the hour after eleven.
HourCounted(h, half) == h + 12 * half

HourOf(h, half) == (IF h = 12 THEN 0 ELSE h) + 12 * half

\* The moment of what was given, once the components gone through are filled in.
MomentOf(given, walked, now, isDayOfYear, isHalfDay) ==
  LET Of(c) == FilledIn(given, walked, now, c)
      hour  == IF isHalfDay THEN HourOf(Of("h"), Of("P")) ELSE Of("H")
  IN IF \/ HasGap(DOMAIN given, walked)
        \/ ~ isDayOfYear /\ ~ IsDate(Of("Y"), Of("M"), Of("D"))
        \/ hour \notin 0 .. 23
     THEN Inconsistent
     ELSE [date |-> IF isDayOfYear THEN DateOfYearDay(Of("Y"), given["d"]) ELSE Date(Of("Y"), Of("M"), Of("D")),
           H |-> hour, mi |-> Of("m"), s |-> Of("s")]

\* `given` takes each component read to its value.
ParseDateTime(given, now) ==
  LET there == DOMAIN given
      dates == there \cap {"Y", "X", "M", "x", "W", "w", "d", "D"}
      times == there \cap {"P", "H", "h", "m", "s"}
      dateB == ~ IsType({"Y", "M", "D"}, dates) /\ IsType({"Y", "d"}, dates)
      timeB == ~ IsType({"H", "m", "s"}, times) /\ IsType({"P", "h", "m", "s"}, times)
      weeks == IsType({"X", "x", "w"}, dates) \/ IsType({"X", "W"}, dates)
      walked == (IF dateB THEN {"Y", "D"} ELSE {"Y", "M", "D"})
                  \cup (IF timeB THEN {"P", "h", "m", "s"} ELSE {"H", "m", "s"})
  IN IF weeks THEN Inconsistent ELSE MomentOf(given, walked, now, dateB, timeB)
=============================================================================
