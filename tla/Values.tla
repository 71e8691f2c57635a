-------------------------------- MODULE Values --------------------------------
(***************************************************************************)
(* The JSON values an expression works on (value.rs), with the flags that  *)
(* tell an array of the data from a sequence the evaluation made.          *)
(*                                                                         *)
(* Strings, object keys among them, are told apart and ordered, and never  *)
(* looked into.  Numbers are integers.  An error is a value of its own,    *)
(* named by its code, which no operation takes as an operand.              *)
(***************************************************************************)
EXTENDS Integers, Sequences, FiniteSets, SequencesExt

Undefined == [k |-> "undefined"]
Null      == [k |-> "null"]
Bool(b)   == [k |-> "bool", b |-> b]
Num(n)    == [k |-> "number", n |-> n]
Str(s)    == [k |-> "string", s |-> s]
Arr(items)     == [k |-> "array", items |-> items, sequence |-> FALSE, outer |-> FALSE]
Sequence(items) == [Arr(items) EXCEPT !.sequence = TRUE]
Obj(keys, vals) == [k |-> "object", keys |-> keys, vals |-> vals]
Err(code)      == [k |-> "error", code |-> code]

IsUndef(v) == v.k = "undefined"
IsNum(v)   == v.k = "number"
IsArr(v)   == v.k = "array"
IsObj(v)   == v.k = "object"
IsErr(v)   == v.k = "error"

\* Op(v), and Op of each member of a list in order.  As a bound variable v is
\* worked out once, where TLC may work a definition out at every mention.
Given(v, Op(_))   == CHOOSE r \in {Op(x) : x \in {v}} : TRUE
Each(Op(_), list) == Given(list, LAMBDA l : <<>> \o [i \in DOMAIN l |-> Op(l[i])])

Defined(values) == SelectSeq(values, LAMBDA v : ~ IsUndef(v))

\* The strings of the model, in their order; the first is the empty one.
Strings == <<"", "a", "b", "c", "x", "z">>
Rank(s) == CHOOSE i \in DOMAIN Strings : Strings[i] = s

\* The first error of a list of values, taken in order, or `otherwise`.
FirstError(values, otherwise) ==
  Given(SelectSeq(values, IsErr),
        LAMBDA errors : IF errors = <<>> THEN otherwise ELSE errors[1])

(***************************************************************************)
(* Objects: the keys keep their order, which is what a shape cache counts. *)
(***************************************************************************)
HasKey(obj, field) == \E i \in DOMAIN obj.keys : obj.keys[i] = field
KeyIndex(obj, field) == CHOOSE i \in DOMAIN obj.keys : obj.keys[i] = field
Get(obj, field) ==
  IF HasKey(obj, field) THEN obj.vals[KeyIndex(obj, field)] ELSE Undefined

\* `insert` of the defined values, in order: a key that is there keeps its place.
Insert(obj, key, val) ==
  IF HasKey(obj, key)
  THEN [obj EXCEPT !.vals[KeyIndex(obj, key)] = val]
  ELSE Obj(Append(obj.keys, key), Append(obj.vals, val))

ObjectFrom(keys, vals) ==
  FoldLeftDomain(LAMBDA obj, i : IF IsUndef(vals[i]) THEN obj ELSE Insert(obj, keys[i], vals[i]),
                 Obj(<<>>, <<>>), keys)

(***************************************************************************)
(* Arrays and sequences.                                                   *)
(***************************************************************************)
\* Every array spliced into the list, one level.
Flattened(values) ==
  Given(values, LAMBDA vs :
    FoldLeft(LAMBDA list, v : list \o (IF IsArr(v) THEN v.items ELSE <<v>>), <<>>, vs))

\* jsonata-js's generic unwrap: what every expression's value goes through.
UnwrapSequence(value) ==
  Given(value, LAMBDA v :
    CASE IsArr(v) /\ v.sequence /\ v.items = <<>>  -> Undefined
      [] IsArr(v) /\ v.sequence /\ Len(v.items) = 1 -> v.items[1]
      [] OTHER -> v)

\* The marks on the whole input, when that is an array, and their removal.
IntoOuterWrapper(v) ==
  IF IsArr(v) /\ ~ v.sequence THEN [v EXCEPT !.outer = TRUE] ELSE v

Bare(v) == IF IsArr(v) THEN [v EXCEPT !.outer = FALSE] ELSE v
=============================================================================
