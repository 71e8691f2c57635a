----------------------------- MODULE ScopeStack -----------------------------
(***************************************************************************)
(* The scope stack of an evaluation: `Scope` and the operations of         *)
(* `Context` on it, in src/src/evaluator.rs.                               *)
(*                                                                         *)
(* A stack is a sequence of frames.  A position p stands for the code's    *)
(* index p-1, so the root frame is at position 1, and a barrier of 0       *)
(* stands for the code's None.                                             *)
(*                                                                         *)
(* Of the values a frame binds only functions matter here, as only they    *)
(* refer to frames: every other value is Data, `$eval` is EvalFn.          *)
(***************************************************************************)
EXTENDS Integers, Sequences, FiniteSets

CONSTANTS
  Names,    \* the variables programs use
  Fns,      \* handles of closures (Rc<StoredLambda>)
  Data,     \* any value that is not a function
  EvalFn,   \* the builtin `$eval` as a value
  Unbound   \* what a frame holds for a name it does not bind

ASSUME ValuesDistinct ==
  /\ Data \notin Fns
  /\ EvalFn \notin Fns \cup {Data}
  /\ Unbound \notin Fns \cup {Data, EvalFn}

Value    == Fns \cup {Data, EvalFn}
Bindings == [Names -> Value \cup {Unbound}]
NoBindings == [n \in Names |-> Unbound]

Root      == 1
NoBarrier == 0

(***************************************************************************)
(* A frame.  `token` says whether its FrameToken has been made: as a frame *)
(* gets a new token only together with a new id, a token is named by the   *)
(* id of its frame.  `seenAt` is Scope::seen_at.  `home` is not in the     *)
(* code: the ids of the frames the frame's code sees where it is written,  *)
(* of those on the stack when it starts.                                   *)
(***************************************************************************)
Frame == [id: Nat, barrier: Nat, tco: BOOLEAN, internal: BOOLEAN,
          opaque: BOOLEAN, token: BOOLEAN, seenAt: Nat, bind: Bindings,
          home: SUBSET Nat]

NewFrame(id, barrier, home) ==
  [id |-> id, barrier |-> barrier, tco |-> FALSE, internal |-> FALSE,
   opaque |-> FALSE, token |-> FALSE, seenAt |-> 0, bind |-> NoBindings,
   home |-> home]

Top(s)    == Len(s)
Cut(s, p) == SubSeq(s, 1, p)

(***************************************************************************)
(* Where a lookup that misses in frame p goes on: the frame's barrier, or  *)
(* the frame below (0 from the root, where the lookup ends).               *)
(***************************************************************************)
Continue(s, p) == IF s[p].barrier # NoBarrier THEN s[p].barrier ELSE p - 1

(***************************************************************************)
(* The frames a lookup from p visits: the least set that has p and is      *)
(* closed under Continue.                                                  *)
(***************************************************************************)
ClosedFrom(s, p) ==
  {S \in {T \cup {p} : T \in SUBSET (1 .. p - 1)} :
     \A q \in S : Continue(s, q) \in S \cup {0}}

Path(s, p) ==
  LET closed == ClosedFrom(s, p)
  IN  {q \in 1 .. p : \A S \in closed : q \in S}

Sees(s, p) == {s[q].id : q \in Path(s, p)}

Highest(S) == CHOOSE p \in S : \A q \in S : q <= p

Lookup(s, p, n) ==
  LET bound == {q \in Path(s, p) : s[q].bind[n] # Unbound}
  IN  IF bound = {} THEN Unbound ELSE s[Highest(bound)].bind[n]

(***************************************************************************)
(* A function's DefScope::chain: the frames above the root its body could  *)
(* see when it was made, each with its id.                                 *)
(***************************************************************************)
Chain(s) == {<<p, s[p].id>> : p \in Path(s, Top(s)) \ {Root}}

StillOnStack(s, chain) ==
  {p \in 2 .. Len(s) : <<p, s[p].id>> \in chain}

\* A fault: only the defining frame itself counts, not its lexical ancestors.
DefiningFrameOnly(s, chain) ==
  LET defining == {pair \in chain : \A other \in chain : other[1] <= pair[1]}
  IN  IF \E p \in StillOnStack(s, chain) : <<p, s[p].id>> \in defining
      THEN Highest(StillOnStack(s, chain)) ELSE Root

\* The innermost frame of the chain that is still on the stack, or the root.
\* Frame ids are never reused, so a matching id is the same frame.
InnermostLive(s, chain) ==
  IF StillOnStack(s, chain) = {} THEN Root ELSE Highest(StillOnStack(s, chain))

(***************************************************************************)
(* The innermost frame that is not internal from p outwards, where `$eval` *)
(* runs, and whether an opaque frame is on the way there.                  *)
(***************************************************************************)
FrameBelowInternal(s, p) ==
  Highest({q \in Path(s, p) : ~ s[q].internal \/ q = Root})

\* A fault: the frame of a composition's first function is like any other.
NothingOpaque(s, p) == FALSE

OpaqueOnTheWay(s, p) ==
  \E q \in Path(s, p) : q > FrameBelowInternal(s, p) /\ s[q].opaque

\* Bindings of `top` moved over those of frame `at` (HashMap::extend).
Extend(under, over) ==
  [n \in Names |-> IF over[n] # Unbound THEN over[n] ELSE under[n]]

PopInto(s, at) ==
  [Cut(s, Top(s) - 1) EXCEPT ![at].bind = Extend(@, s[Top(s)].bind)]

(***************************************************************************)
(* The frames of the tail-call trampolines on the path of p, which have    *)
(* tokens, and the next one out from such a frame.                         *)
(***************************************************************************)
TcoPath(s, p) == {q \in Path(s, p) : q # Root /\ s[q].tco}

\* A fault: a token keeps only its own frame.
NoFurtherToken(s, p) == 0

NextTcoId(s, p) ==
  LET further == TcoPath(s, p) \ {p}
  IN  IF further = {} THEN 0 ELSE s[Highest(further)].id

\* The frames that get a token when a function made at p takes the innermost
\* one: each out to the first that has its token already.
TokensMadeAt(s, p) ==
  {q \in TcoPath(s, p) :
     \A r \in TcoPath(s, p) : r >= q => ~ s[r].token}

KeptAt(s, p) ==
  IF TcoPath(s, p) = {} THEN 0 ELSE s[Highest(TcoPath(s, p))].id
=============================================================================
