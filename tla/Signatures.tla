------------------------------ MODULE Signatures ------------------------------
(***************************************************************************)
(* Function signatures (signature.rs): which argument each parameter gets. *)
(* The kinds of the arguments, a letter each, are matched against one      *)
(* regular expression made of all the parameters; a parameter's group may  *)
(* be empty, and with `-` the context stands in for it.                    *)
(*                                                                         *)
(* A parameter is [types, of, mod]: the kinds it takes (those of a choice, *)
(* or one), the kind of an array's items or "", and "", "?", "-" or "+".   *)
(***************************************************************************)
EXTENDS Values

Kinds == {"a", "s", "n", "b", "l", "f", "o", "m"}

\* type_symbol
KindOf(v) ==
  CASE v.k = "null" -> "l" [] v.k = "bool" -> "b" [] v.k = "number" -> "n" [] v.k = "string" -> "s"
    [] v.k = "array" -> "a" [] v.k = "object" -> "o" [] v.k = "undefined" -> "m" [] OTHER -> "f"

FunctionValue == [k |-> "function"]
Regex         == [k |-> "regex"]

Param(types, of, mod) == [types |-> types, of |-> of, mod |-> mod]
IsOptional(p)   == p.mod \in {"?", "-"}
IsRepeatable(p) == p.mod = "+"

\* base_regex: the kinds a parameter's class takes; an array takes anything.
Class(p) ==
  IF p.types = {"f"} THEN {"f"}
  ELSE UNION {CASE t \in {"a", "x"} -> IF Cardinality(p.types) = 1 THEN Kinds ELSE {t}
                [] t = "j" -> IF Cardinality(p.types) = 1 THEN Kinds \ {"f"} ELSE {t}
                [] OTHER -> {t} : t \in p.types} \cup {"m"}

\* ParamType::matches, of an array's item.  A regex is no `f` here.
ItemMatches(of, v) == of = "x" \/ (KindOf(v) = of /\ v.k # "regex" /\ of # "m")

(***************************************************************************)
(* The regular expression: how many arguments each parameter's group       *)
(* takes.  Of all the ways to match it takes the greedy one: each group    *)
(* as long as it can be, the first ones first.                             *)
(***************************************************************************)
LeastOf(p) == IF IsOptional(p) THEN 0 ELSE 1
MostOf(p, given) == IF IsRepeatable(p) THEN given ELSE 1

Greedier(s, t) == \E i \in DOMAIN s : s[i] > t[i] /\ \A j \in 1 .. i - 1 : s[j] = t[j]

SumTo(split, i) == FoldLeft(LAMBDA n, c : n + c, 0, SubSeq(split, 1, i))

Splits(params, kinds) ==
  {split \in [DOMAIN params -> 0 .. Len(kinds)] :
     /\ \A i \in DOMAIN params : split[i] \in LeastOf(params[i]) .. MostOf(params[i], Len(kinds))
     /\ SumTo(split, Len(params)) = Len(kinds)
     /\ \A i \in DOMAIN params : \A j \in SumTo(split, i - 1) + 1 .. SumTo(split, i) :
          kinds[j] \in Class(params[i])}

(***************************************************************************)
(* validate_and_coerce_counted                                             *)
(***************************************************************************)
\* validate_arg_count
CountFits(params, count) ==
  /\ count >= Cardinality({i \in DOMAIN params : ~ IsOptional(params[i])})
  /\ \/ \E i \in DOMAIN params : IsRepeatable(params[i])
     \/ count <= Len(params)

ArgAt(args, i) == IF i \in DOMAIN args THEN args[i] ELSE Undefined

\* A fault: a value made an array of is not looked at.
CoercedUnseen(p, arg) ==
  IF p.types # {"a"} \/ IsUndef(arg) THEN arg
  ELSE IF IsArr(arg)
  THEN IF p.of # "" /\ \E i \in DOMAIN arg.items : ~ ItemMatches(p.of, arg.items[i]) THEN Err("T0412") ELSE arg
  ELSE Arr(<<arg>>)

\* An argument as the parameter wants it: in an array of its own, if one is asked for.
Coerced(p, arg) ==
  IF p.types # {"a"} \/ IsUndef(arg) THEN arg
  ELSE LET items == IF IsArr(arg) THEN arg.items ELSE <<arg>>
       IN IF p.of # "" /\ \E i \in DOMAIN items : ~ ItemMatches(p.of, items[i]) THEN Err("T0412")
          ELSE IF IsArr(arg) THEN arg ELSE Arr(<<arg>>)

\* A fault: the context takes an argument's turn.
TakenByContext(r, p, args, context) ==
  IF p.mod = "-"
  THEN IF KindOf(context) \in Class(p)
       THEN [r EXCEPT !.out = Append(@, context), !.at = @ + 1, !.substituted = @ + 1]
       ELSE [r EXCEPT !.error = <<Err("T0411")>>]
  ELSE [r EXCEPT !.out = Append(@, ArgAt(args, r.at)), !.at = @ + 1]

\* A parameter whose group is empty: the context, or the next argument there may be.
EmptyGroup(r, p, args, context) ==
  IF p.mod = "-"
  THEN IF KindOf(context) \in Class(p)
       THEN [r EXCEPT !.out = Append(@, context), !.substituted = @ + 1]
       ELSE [r EXCEPT !.error = <<Err("T0411")>>]
  ELSE [r EXCEPT !.out = Append(@, ArgAt(args, r.at)), !.at = @ + 1]

\* One with a group: an argument for each of its letters.
FullGroup(r, p, args, count) ==
  LET out == [i \in 1 .. count |-> Coerced(p, ArgAt(args, r.at + i - 1))]
  IN [r EXCEPT !.out = @ \o out, !.at = @ + count, !.error = SelectSeq(out, IsErr)]

Validated(params, args, context) ==
  LET kinds  == [i \in DOMAIN args |-> KindOf(args[i])]
      splits == Splits(params, kinds)
      none   == [out |-> <<>>, at |-> 1, substituted |-> 0, error |-> <<Err("T0410")>>]
  IN IF ~ CountFits(params, Len(args)) \/ splits = {} THEN none
     ELSE LET split == CHOOSE s \in splits : \A t \in splits \ {s} : Greedier(s, t)
          IN FoldLeftDomain(LAMBDA r, i :
               IF r.error # <<>> THEN r
               ELSE IF split[i] = 0 THEN EmptyGroup(r, params[i], args, context)
               ELSE FullGroup(r, params[i], args, split[i]),
               [none EXCEPT !.error = <<>>], params)

(***************************************************************************)
(* validate_builtin_args: a missing last argument of an optional parameter *)
(* is as good as none, and what fills up the parameters goes again.        *)
(***************************************************************************)
TrimmedTo(args, Drop(_)) ==
  SubSeq(args, 1, CHOOSE n \in 0 .. Len(args) :
    /\ \A i \in n + 1 .. Len(args) : Drop(i)
    /\ n = 0 \/ ~ Drop(n))

Supplied(params, args) ==
  TrimmedTo(args, LAMBDA i : i > 1 /\ IsUndef(args[i]) /\ i \in DOMAIN params /\ IsOptional(params[i]))

WithoutPadding(out, supplied, substituted) ==
  TrimmedTo(out, LAMBDA i : i > supplied + substituted /\ IsUndef(out[i]))

ValidateBuiltinArgs(params, args, context) ==
  LET given == Supplied(params, args)
      r     == Validated(params, given, context)
  IN [r EXCEPT !.out = WithoutPadding(@, Len(given), r.substituted)]
=============================================================================
