------------------------------- MODULE DropDeep -------------------------------
(***************************************************************************)
(* How values are freed (value.rs, #233).  Arrays, objects and lazy Python *)
(* dicts are counted references to payloads that hold more of them, so     *)
(* that the drop of a payload drops its items, and those theirs, a frame   *)
(* of the stack for each.  A payload looks at the stack before it lets     *)
(* that happen, and takes its items apart on a work list when it is low.   *)
(*                                                                         *)
(* A payload is a member of `Nodes`; only the containers among its items   *)
(* are told apart, the rest being a number of scalars.                     *)
(***************************************************************************)
EXTENDS Integers, Sequences, FiniteSets, SequencesExt

CONSTANTS
  Nodes,         \* the payloads
  Heaps,         \* the graphs of payloads, and who refers to them from outside
  SmallPayload,  \* SMALL_PAYLOAD: what looks at its items before the stack
  Room,          \* the frames that fit above DROP_RED_ZONE
  RedZone,       \* the frames that fit in DROP_RED_ZONE
  CheckEvery,    \* LAZY_DROP_CHECK_EVERY
  Limits         \* whether threads' stacks have a limit that is known

\* get_field numbers the wrapper of a nested dict one further down.
Numbered(h) ==
  \A n \in h.lazy : \A m \in h.lazy \cap ToSet(h.items[n]) : h.above[m] = h.above[n] + 1

ASSUME NodesAssumption == IsFiniteSet(Nodes)
ASSUME LimitsAssumption ==
  /\ SmallPayload \in Nat /\ Room \in Nat /\ RedZone \in Nat /\ CheckEvery \in Nat \ {0}
  /\ RedZone >= CheckEvery + 2 /\ Limits \subseteq BOOLEAN
ASSUME HeapsAssumption ==
  \A h \in Heaps : /\ h.lazy \subseteq Nodes /\ h.scalars \in [Nodes -> Nat]
                   /\ h.items \in [Nodes -> Seq(Nodes)] /\ h.above \in [Nodes -> Nat]
                   /\ h.held \in Seq(Nodes)
                   /\ Numbered(h)

VARIABLES
  heap,      \* what does not change: the lazy dicts, the wrappers above each, scalars
  known,     \* whether remaining_stack() knows the limit of this thread's stack
  held,      \* the references from outside, one for each time
  items,     \* the containers a payload holds
  count,     \* Rc::strong_count
  stack      \* the drops under way, innermost last

dropVars == <<heap, known, held, items, count, stack>>

\* A drop under way: of payload `node`, whose items `todo` are still to drop or, by
\* drop_deep, to sort; `pending` is the work list, `husk` what it has just emptied.
DropFrame(node, flat, todo) ==
  [node |-> node, flat |-> flat, todo |-> todo, pending |-> <<>>, husk |-> <<>>]

RefsIn(n, list) == {i \in DOMAIN list : list[i] = n}
Occurrences(n, list) == Cardinality(RefsIn(n, list))

\* The references to n that lists of payloads hold, those of many payloads or drops.
RefsOf(n, lists) == UNION {{<<k, i>> : i \in RefsIn(n, lists[k])} : k \in DOMAIN lists}
Held(n, lists)   == Cardinality(RefsOf(n, lists))

DropInit ==
  /\ heap \in Heaps /\ known \in Limits
  /\ held = heap.held /\ items = heap.items
  /\ count = [n \in Nodes |-> Occurrences(n, held) + Held(n, items)]
  /\ stack = <<>>

(***************************************************************************)
(* What a payload looks at before its items go.                            *)
(***************************************************************************)
\* A fault: the reference that goes is left out of the count.
LastButOne(n) == count[n] <= 2

\* Rc::strong_count is 1, or Rc::get_mut succeeds.
Unique(n) == count[n] = 1

\* Dropping a reference to n frees a payload with something in it.
FreesContainer(n) ==
  /\ Unique(n)
  /\ items[n] # <<>> \/ (n \notin heap.lazy /\ heap.scalars[n] > 0)

\* Dropping a reference to n frees a payload that frees one in turn.
FreesNested(n) == Unique(n) /\ \E i \in DOMAIN items[n] : FreesContainer(items[n][i])

\* A fault: a small payload never looks at its items, nor at the stack.
FreesLittle(n) == Len(items[n]) + heap.scalars[n] <= SmallPayload

FreesOnlyScalars(n) ==
  /\ Len(items[n]) + heap.scalars[n] <= SmallPayload
  /\ ~ \E i \in DOMAIN items[n] : FreesContainer(items[n][i])

MustDropFlat(n) ==
  IF known THEN Len(stack) >= Room ELSE \E i \in DOMAIN items[n] : FreesNested(items[n][i])

\* The drop of a payload: a wrapper looks once in CheckEvery levels.
DropsFlat(n) ==
  /\ MustDropFlat(n)
  /\ IF n \in heap.lazy
     THEN items[n] # <<>> /\ heap.above[n] % CheckEvery = CheckEvery - 1
     ELSE ~ FreesOnlyScalars(n)

\* A reference to n goes: the last one frees the payload, on top of the drops `below`.
Drop(n, below) ==
  /\ count' = [count EXCEPT ![n] = @ - 1]
  /\ IF Unique(n)
     THEN /\ stack' = Append(below, DropFrame(n, DropsFlat(n), items[n]))
          /\ items' = [items EXCEPT ![n] = <<>>]
     ELSE stack' = below /\ items' = items

TopDrop         == Last(stack)
Under(frame) == Append(Front(stack), frame)

(***************************************************************************)
(* The steps.                                                              *)
(***************************************************************************)
\* The host, or the evaluation, lets go of a reference.
Release ==
  /\ stack = <<>>
  /\ \E i \in DOMAIN held : Drop(held[i], <<>>) /\ held' = RemoveAt(held, i)
  /\ UNCHANGED <<heap, known>>

\* The ordinary drop of a payload's items, in order.
DropItem ==
  /\ stack # <<>> /\ ~ TopDrop.flat /\ TopDrop.todo # <<>>
  /\ Drop(Head(TopDrop.todo), Under([TopDrop EXCEPT !.todo = Tail(@)]))
  /\ UNCHANGED <<heap, known, held>>

\* drop_deep's filter: what would go deeper waits on the work list ...
Postpone ==
  /\ stack # <<>> /\ TopDrop.flat /\ TopDrop.todo # <<>> /\ FreesNested(Head(TopDrop.todo))
  /\ stack' = Under([TopDrop EXCEPT !.todo = Tail(@), !.pending = Append(@, Head(TopDrop.todo))])
  /\ UNCHANGED <<heap, known, held, items, count>>

\* ... and the rest is dropped at once.
DropRejected ==
  /\ stack # <<>> /\ TopDrop.flat /\ TopDrop.todo # <<>> /\ ~ FreesNested(Head(TopDrop.todo))
  /\ Drop(Head(TopDrop.todo), Under([TopDrop EXCEPT !.todo = Tail(@)]))
  /\ UNCHANGED <<heap, known, held>>

\* A fault: the value whose items are taken is taken for dropped.
TakenAndForgotten(n) == <<>>

\* A fault: it is let go of with its items, and once more.
TakenTwice(n) == <<n, n>>

\* What drop_deep still owes a value it has taken the items of: its own drop.
Husk(n) == <<n>>

\* Rc::get_mut: only what nobody else refers to is emptied.
TakeApart ==
  /\ stack # <<>> /\ TopDrop.todo = <<>> /\ TopDrop.husk = <<>> /\ TopDrop.pending # <<>>
  /\ LET n == Last(TopDrop.pending)
         unique == Unique(n)
     IN /\ stack' = Under([TopDrop EXCEPT !.pending = Front(@), !.husk = Husk(n),
                                      !.todo = IF unique THEN items[n] ELSE <<>>])
        /\ items' = IF unique THEN [items EXCEPT ![n] = <<>>] ELSE items
  /\ UNCHANGED <<heap, known, held, count>>

\* The value itself goes: its payload is empty by now, and frees nothing more.
DropHusk ==
  /\ stack # <<>> /\ TopDrop.todo = <<>> /\ TopDrop.husk # <<>>
  /\ count' = [count EXCEPT ![TopDrop.husk[1]] = @ - 1]
  /\ stack' = Under([TopDrop EXCEPT !.husk = Tail(@)])
  /\ UNCHANGED <<heap, known, held, items>>

DropEnds ==
  /\ stack # <<>> /\ TopDrop.todo = <<>> /\ TopDrop.husk = <<>> /\ TopDrop.pending = <<>>
  /\ stack' = Front(stack)
  /\ UNCHANGED <<heap, known, held, items, count>>

DropNext == Release \/ DropItem \/ Postpone \/ DropRejected \/ TakeApart \/ DropHusk \/ DropEnds

DropSpec == DropInit /\ [][DropNext]_dropVars

(***************************************************************************)
(* Properties.                                                             *)
(***************************************************************************)
Drops == [node : Nodes, flat : BOOLEAN, todo : Seq(Nodes), pending : Seq(Nodes), husk : Seq(Nodes)]

\* Every part of the state has its type.
DropTypeOK ==
  /\ heap \in Heaps /\ known \in BOOLEAN /\ held \in Seq(Nodes)
  /\ items \in [Nodes -> Seq(Nodes)] /\ count \in [Nodes -> Nat] /\ stack \in Seq(Drops)

\* The references that the drops under way still hold.
OwedBy(s) == [k \in DOMAIN s |-> s[k].todo \o s[k].pending \o s[k].husk]
Owed(n)   == Held(n, OwedBy(stack))

\* The count of a payload is the number of references to it, wherever the items
\* of a payload taken apart have got to: nothing leaks, nothing is freed under a
\* holder, nothing is freed twice (JItems::drop, JMap::drop, drop_deep).
CountsTrue ==
  \A n \in Nodes : count[n] = Occurrences(n, held) + Held(n, items) + Owed(n)

\* What is held from outside, or by a payload, keeps its items, however much of what
\* is shared with it is being freed; so the host goes on reaching all it reached.
StillHeld == ToSet(held) \cup UNION {ToSet(items[m]) : m \in Nodes}
SharedStaysWhole == \A n \in StillHeld : items[n] = heap.items[n]
NothingFreedEarly == CountsTrue /\ SharedStaysWhole

\* However deep a value goes, the drops under way fit on the stack: those before
\* it is low, and a few in the red zone (the comment at value.rs:481-500).
DropFits == Len(stack) <= (IF known THEN Room ELSE 0) + RedZone

\* They do wherever no payload of the graph has two holders and, where the limit of
\* the stack is known, unless a payload holds another twice.
Shared    == \E n \in Nodes : Occurrences(n, heap.held) + Held(n, heap.items) > 1
NoneTwice == \A n \in Nodes : IsInjective(heap.items[n])
DropFitsUnlessShared == DropFits \/ (Shared /\ (known => ~ NoneTwice))
=============================================================================
