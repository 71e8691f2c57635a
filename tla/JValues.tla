-------------------------------- MODULE JValues --------------------------------
(***************************************************************************)
(* The values with what of them is found by going through all they hold:   *)
(* which are true, and which are equal.                                    *)
(***************************************************************************)
EXTENDS Values

RECURSIVE Truthy(_)
Truthy(v) ==
  CASE v.k = "bool"   -> v.b
    [] v.k = "number" -> v.n # 0
    [] v.k = "string" -> v.s # ""
    [] v.k = "array"  -> \E i \in DOMAIN v.items : Truthy(v.items[i])
    [] v.k = "object" -> v.keys # <<>>
    [] OTHER -> FALSE

RECURSIVE ValuesEqual(_, _)
ValuesEqual(v, w) ==
  CASE v.k # w.k -> FALSE
    [] IsUndef(v) -> FALSE
    [] IsArr(v) -> /\ Len(v.items) = Len(w.items)
                   /\ \A i \in DOMAIN v.items : ValuesEqual(v.items[i], w.items[i])
    [] IsObj(v) -> /\ Len(v.keys) = Len(w.keys)
                   /\ \A i \in DOMAIN v.keys :
                        HasKey(w, v.keys[i]) /\ ValuesEqual(v.vals[i], Get(w, v.keys[i]))
    [] OTHER -> v = w
=============================================================================
