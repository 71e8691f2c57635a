-------------------------------- MODULE LazyDict --------------------------------
(***************************************************************************)
(* Lazy views of Python dicts (lazy.rs).  A wrapper converts a field when  *)
(* it is first read and keeps what it made unless that was a scalar; when  *)
(* an object is wanted it converts the rest and keeps that.  Python code   *)
(* that the evaluation calls may change the dicts in between.              *)
(*                                                                         *)
(* Python's values: scalars, strings, dicts, lists of those, and what does *)
(* not convert.  The order of keys is left out.                            *)
(***************************************************************************)
EXTENDS Integers, Sequences, SequencesExt, FiniteSets

CONSTANTS
  Dicts,         \* the dicts of the Python program
  Keys,          \* their keys
  PyValues,      \* what it may put under a key
  MaxWrappers    \* bound: wrappers alive

ASSUME LazyAssumption ==
  /\ MaxWrappers \in Nat /\ IsFiniteSet(Keys)
  /\ \A v \in PyValues : /\ v.k \in {"scalar", "string", "dict", "list", "bad"}
                         /\ v.k = "dict" => v.d \in Dicts
                         /\ v.k = "list" => v.items \in Seq({u \in PyValues : u.k # "list"})

VARIABLES
  dicts,      \* the dicts' contents
  wrappers    \* LazyPyDict, those of an inner evaluation after those around it

lazyVars == <<dicts, wrappers>>

Absent   == [k |-> "undefined"]
NotThere == [k |-> "none"]         \* a key that a dict does not have; a value not kept

(***************************************************************************)
(* A wrapper: `cache` is field_cache, `whole` is materialized once `made`. *)
(***************************************************************************)
Wrapper(d, depth) ==
  [dict |-> d, cache |-> [f \in Keys |-> NotThere], made |-> FALSE,
   whole |-> [f \in Keys |-> NotThere], holds |-> FALSE, depth |-> depth]

InList(v)   == IF v.k = "list" THEN v.items ELSE <<v>>
Converts(v) == \A i \in DOMAIN InList(v) : InList(v)[i].k # "bad"

\* The places of the dicts in these fields of a dict, directly or in a list: each gets
\* a wrapper.  The order in which the wrappers are numbered tells nothing.
NewDicts(content, fields) ==
  SetToSeq({p \in UNION {{f} \X DOMAIN InList(content[f]) : f \in fields} :
              InList(content[p[1]])[p[2]].k = "dict"})

\* A fault: the first new wrapper is counted twice.
OneFurther(v, n, i) == IF v.k = "dict" THEN [k |-> "dict", w |-> n + i + 1] ELSE v

\* What is at a place: a dict is the i-th new wrapper, of those after the n there are.
Item(v, n, i) == IF v.k = "dict" THEN [k |-> "dict", w |-> n + i] ELSE v

\* convert(_, true): a dict gets a wrapper, a list is converted at once, and its
\* dicts get wrappers.
Convert(v, f, news) ==
  LET at(i) == Item(InList(v)[i], Len(wrappers), CHOOSE j \in DOMAIN news : news[j] = <<f, i>>)
  IN IF v.k = "list" THEN [k |-> "list", items |-> [i \in DOMAIN v.items |-> at(i)]] ELSE at(1)

\* The wrappers convert makes, nested dicts of a field being `depth` wrappers down.
WrappersFor(content, news, depth) ==
  [j \in DOMAIN news |->
     LET v == content[news[j][1]]
     IN Wrapper(InList(v)[news[j][2]].d, IF v.k = "list" THEN 0 ELSE depth)]

Content(w)    == dicts[wrappers[w].dict]
Whole(w)      == wrappers[w].made
Cached(w, f)  == wrappers[w].cache[f] # NotThere

\* Only what is on the heap is kept.
Kept(v) == v.k \in {"string", "list", "dict"}
Container(v) == v.k \in {"list", "dict"}

LazyInit == dicts \in [Dicts -> [Keys -> PyValues \cup {NotThere}]] /\ wrappers = <<>>

(***************************************************************************)
(* get_field.                                                              *)
(***************************************************************************)
\* What needs no conversion: a field of the whole, or one that was kept.
AtHand(w, f) == IF Whole(w) THEN wrappers[w].whole[f] ELSE wrappers[w].cache[f]

\* A fault: a wrapper made for a field starts a chain of its own.
NoDeeper(w) == 0

DepthBelow(w) == wrappers[w].depth + 1

\* The field is read from Python's dict.  One that does not convert is an error.
GetField(w, f) ==
  LET v    == Content(w)[f]
      news == NewDicts(Content(w), {f})
      new  == Convert(v, f, news)
  IN /\ AtHand(w, f) = NotThere /\ v # NotThere /\ Converts(v)
     /\ wrappers' =
          (IF Kept(new)
           THEN [wrappers EXCEPT ![w].cache[f] = new, ![w].holds = @ \/ Container(new)]
           ELSE wrappers) \o WrappersFor(Content(w), news, DepthBelow(w))
     /\ Len(wrappers') <= MaxWrappers
     /\ UNCHANGED dicts

\* A fault: what was read is not looked at.
AskPython(w, f) ==
  IF Whole(w) THEN wrappers[w].whole[f] # Absent ELSE Content(w)[f] # NotThere

\* contains_field
ContainsField(w, f) ==
  IF Whole(w) THEN wrappers[w].whole[f] # Absent
  ELSE Cached(w, f) \/ Content(w)[f] # NotThere

(***************************************************************************)
(* to_object: every key the dict has now, those kept as they were kept.    *)
(***************************************************************************)
\* A fault: the whole is converted from what is there now.
Anew(w) == {f \in Keys : Content(w)[f] # NotThere}

\* The fields to_object has to convert.
ToConvert(w) == {f \in Keys : Content(w)[f] # NotThere /\ ~ Cached(w, f)}

ToObject(w) ==
  LET news == NewDicts(Content(w), ToConvert(w))
      map == [f \in Keys |->
                IF Content(w)[f] = NotThere THEN Absent
                ELSE IF f \in ToConvert(w) THEN Convert(Content(w)[f], f, news)
                ELSE wrappers[w].cache[f]]
  IN /\ ~ Whole(w) /\ \A f \in ToConvert(w) : Converts(Content(w)[f])
     /\ wrappers' = [wrappers EXCEPT ![w].made = TRUE, ![w].whole = map, ![w].holds = TRUE]
                    \o WrappersFor(Content(w), news, 0)
     /\ Len(wrappers') <= MaxWrappers
     /\ UNCHANGED dicts

\* evaluate converts its input; the wrappers go with the evaluation.
WrapInput(d) ==
  /\ Len(wrappers) < MaxWrappers
  /\ wrappers' = Append(wrappers, Wrapper(d, 0))
  /\ UNCHANGED dicts

DropWrappers(n) == wrappers' = SubSeq(wrappers, 1, n) /\ UNCHANGED dicts

\* Python code sets or deletes a key.
PySet(d, f, v) ==
  /\ dicts' = [dicts EXCEPT ![d][f] = v]
  /\ UNCHANGED wrappers

(***************************************************************************)
(* Properties.                                                             *)
(***************************************************************************)
Refers(v) == IF v = NotThere THEN {}
             ELSE {InList(v)[i].w : i \in {j \in DOMAIN InList(v) : InList(v)[j].k = "dict"}}

\* What the drop of a chain of wrappers goes by: a wrapper that has a container says
\* so, and each wrapper kept as a field is one further down than the wrapper that
\* keeps it (holds_containers and depth, read by Drop for LazyPyDict).
ChainsMarked ==
  \A w \in DOMAIN wrappers :
    /\ Whole(w) \/ (\E f \in Keys : Cached(w, f) /\ Container(wrappers[w].cache[f]))
         => wrappers[w].holds
    /\ \A f \in Keys : Cached(w, f) /\ wrappers[w].cache[f].k = "dict"
         => wrappers[wrappers[w].cache[f].w].depth = wrappers[w].depth + 1

\* What a wrapper keeps: converted values, some of them of lists.
Items    == {v \in PyValues : v.k \in {"scalar", "string", "bad"}} \cup [k : {"dict"}, w : Nat]
Values   == Items \cup [k : {"list"}, items : Seq(Items)]
Wrappers == [dict : Dicts, cache : [Keys -> Values \cup {NotThere}], made : BOOLEAN,
             whole : [Keys -> Values \cup {NotThere, Absent}], holds : BOOLEAN, depth : Nat]

LazyTypeOK ==
  /\ ChainsMarked
  /\ dicts \in [Dicts -> [Keys -> PyValues \cup {NotThere}]] /\ wrappers \in Seq(Wrappers)
  /\ \A w \in DOMAIN wrappers :
       LET kept == {wrappers[w].cache[f] : f \in Keys}
                   \cup (IF Whole(w) THEN {wrappers[w].whole[f] : f \in Keys} ELSE {})
       IN UNION {Refers(v) : v \in kept} \subseteq DOMAIN wrappers

\* A field that gave a string or a container gives that same one from then on, and
\* so does any field of a wrapper that was made an object of -- whatever Python
\* does to the dict.  One thing may happen to a field that was read: its key was
\* deleted, and the dict is made an object of (get_field, to_object).
Settled(w, f) == Whole(w) \/ Cached(w, f)
ReadsSettle ==
  [][\A w \in DOMAIN wrappers \cap DOMAIN wrappers' : \A f \in Keys :
       Settled(w, f) =>
         \/ AtHand(w, f)' = AtHand(w, f)
         \/ ~ Whole(w) /\ Whole(w)' /\ Content(w)[f] = NotThere /\ AtHand(w, f)' = Absent]_lazyVars

\* A field that is said to be there can be read, or fails to convert, and one that
\* is not reads as undefined (contains_field, get_field).
PresenceAgrees ==
  \A w \in DOMAIN wrappers : \A f \in Keys :
    LET v == IF AtHand(w, f) # NotThere THEN AtHand(w, f)
             ELSE IF Content(w)[f] = NotThere THEN Absent ELSE Content(w)[f]
    IN ContainsField(w, f) <=> v # Absent

\* So an evaluation sees one dict, as if it had been converted at once, though not a
\* moment all its fields were as it saw them.
ReadsAgree == []PresenceAgrees /\ ReadsSettle
=============================================================================
