------------------------------ MODULE Closures ------------------------------
(***************************************************************************)
(* The closures an evaluation makes and who refers to them: StoredLambda,  *)
(* DefScope, FrameToken and the ownership walk of src/src/evaluator.rs     *)
(* that decides whether a trampoline frame may be reused.                  *)
(*                                                                         *)
(* `heap` gives each handle its closure, `outer` gives each live token the *)
(* token of the next trampoline frame out (0 for none).  Closures and      *)
(* tokens are reference counted, and freed with their last reference.      *)
(***************************************************************************)
EXTENDS ScopeStack

CONSTANT MaxId   \* bound: the frames an exploration may push

\* A handle is no token: tokens are named by the ids of their frames.
ASSUME ClosuresAssumption ==
  /\ MaxId \in Nat
  /\ IsFiniteSet(Fns)
  /\ Fns \cap (0 .. MaxId) = {}

Ids == 1 .. MaxId

(***************************************************************************)
(* A closure.  kind "comp" is a composition `f ~> g` (DefScope::AT_CALLER) *)
(* and "first" the function it calls f through; `self` holds the name it   *)
(* was bound to when made, if any; `foreign` says that another evaluation  *)
(* context made it (DefScope::ctx).                                        *)
(***************************************************************************)
Closure == [kind: {"free", "lambda", "first", "comp"}, thunk: BOOLEAN,
            foreign: BOOLEAN, chain: SUBSET (Nat \X Nat), keep: Nat,
            self: SUBSET Names, env: Bindings,
            f: Value \cup {Unbound}, g: Value \cup {Unbound}]

FreeSlot ==
  [kind |-> "free", thunk |-> FALSE, foreign |-> FALSE, chain |-> {},
   keep |-> 0, self |-> {}, env |-> NoBindings, f |-> Unbound, g |-> Unbound]

AtCaller(c) == c.kind = "comp"
Internal(c) == c.kind \in {"comp", "first"}
Opaque(c)   == c.kind = "first"

\* A fault: dynamic scoping.
BarrierToTop(s, c) == Top(s)

\* Where the frame of a call to c continues: its defining frame if that is
\* still on the stack, else its innermost lexical ancestor that is.
BarrierFor(s, c) ==
  IF AtCaller(c) THEN Top(s)
  ELSE IF c.foreign THEN Root
  ELSE InnermostLive(s, c.chain)

\* What its body sees where it was made, of the frames of s.
HomeOf(s, c) ==
  {s[Root].id} \cup (IF c.foreign THEN {} ELSE {s[p].id : p \in StillOnStack(s, c.chain)})

(***************************************************************************)
(* References.  A node is a closure's handle or a token (the id of its     *)
(* frame); `held` are the nodes the evaluator's own locals refer to.       *)
(***************************************************************************)
BoundFns(b) == {b[n] : n \in Names} \cap Fns

References(heap, outer, node) ==
  IF node \in Fns
  THEN BoundFns(heap[node].env) \cup ({heap[node].f, heap[node].g} \cap Fns)
       \cup ({heap[node].keep} \ {0})
  ELSE {outer[node]} \ {0}

Tokens(s) == {s[p].id : p \in {q \in 2 .. Len(s) : s[q].token}}

FrameFns(s, P) == UNION {BoundFns(s[p].bind) : p \in P}

Reachable(heap, outer, from) ==
  LET grow[S \in SUBSET (Fns \cup Ids)] ==
        LET T == S \cup UNION {References(heap, outer, n) : n \in S}
        IN  IF T = S THEN S ELSE grow[T]
  IN  grow[from]

Live(s, heap, outer, held) ==
  Reachable(heap, outer, held \cup Tokens(s) \cup FrameFns(s, 1 .. Len(s)))

StrongCount(s, heap, outer, live, t) ==
  (IF t \in Tokens(s) THEN 1 ELSE 0)
  + Cardinality({n \in Fns \cup Ids : n \in live /\ t \in References(heap, outer, n)})

(***************************************************************************)
(* What the bindings of the top frame own: a node all of whose references  *)
(* come from those bindings or from nodes they own (OwnershipWalk).        *)
(***************************************************************************)
OwnedByTop(s, heap, outer, held, live) ==
  LET top     == Top(s)
      outside == held \cup Tokens(s) \cup FrameFns(s, 1 .. top - 1)
      own[S \in SUBSET (Fns \cup Ids)] ==
        LET T == S \cup {n \in live \ outside :
                    \A m \in live : n \in References(heap, outer, m) => m \in S}
        IN  IF T = S THEN S ELSE own[T]
  IN  own[{}]

\* Scope::seen_from_outside, for the top frame.
SeenFromOutside(s, heap, outer, held) ==
  LET t      == s[Top(s)].id
      live   == Live(s, heap, outer, held)
      inside == {n \in OwnedByTop(s, heap, outer, held, live) :
                   t \in References(heap, outer, n)}
  IN  /\ s[Top(s)].token
      /\ Cardinality(inside) # StrongCount(s, heap, outer, live, t) - 1

\* Scope::still_seen, for the top frame, and what it leaves in seen_at.
TokenCount(s, heap, outer, held) ==
  StrongCount(s, heap, outer, Live(s, heap, outer, held), s[Top(s)].id)

\* Faults: a frame that made a closure once always stays, and a frame is only
\* asked who sees it when it was asked before.
TokenHandedOut(s, heap, outer, held) == s[Top(s)].token

CountUnchanged(s, heap, outer, held) ==
  s[Top(s)].token /\ TokenCount(s, heap, outer, held) = s[Top(s)].seenAt

StillSeen(s, heap, outer, held) ==
  /\ s[Top(s)].token
  /\ \/ TokenCount(s, heap, outer, held) = s[Top(s)].seenAt
     \/ SeenFromOutside(s, heap, outer, held)
=============================================================================
