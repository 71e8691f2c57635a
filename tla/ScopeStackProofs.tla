--------------------------- MODULE ScopeStackProofs ---------------------------
(***************************************************************************)
(* Lemmas about lookups on the scope stack: what the path of a frame is    *)
(* made of, how it changes when frames are pushed and popped, and that the *)
(* frames a function was made in keep forming one path.                    *)
(***************************************************************************)
EXTENDS ScopeStack, WellFoundedInduction, TLAPS

\* Every frame's barrier is below the frame, and the root has none.
Grounded(s) ==
  /\ Len(s) \in Nat \ {0}
  /\ \A p \in 1 .. Len(s) : s[p].barrier \in 0 .. p - 1
-----------------------------------------------------------------------------
(***************************************************************************)
(* Least and greatest positions.                                           *)
(***************************************************************************)
LEMMA LeastExists ==
  ASSUME NEW S \in SUBSET Nat, S # {}
  PROVE  \E x \in S : \A y \in S : x <= y
<1>1. \E x \in S : \A y \in S : ~ (<<y, x>> \in OpToRel(<, Nat))
  BY NatLessThanWellFounded, WFMin, Zenon
<1>2. PICK x \in S : \A y \in S : ~ (<<y, x>> \in OpToRel(<, Nat))
  BY <1>1
<1>3. \A y \in S : ~ (y < x)
  BY <1>2 DEF OpToRel
<1> QED
  BY <1>3

LEMMA HighestExists ==
  ASSUME NEW n \in Nat, NEW S \in SUBSET (1 .. n), S # {}
  PROVE  /\ Highest(S) \in S
         /\ \A q \in S : q <= Highest(S)
<1> DEFINE T == {x \in Nat : n - x \in S}
<1>1. T # {}
  <2>1. PICK q \in S : TRUE
    OBVIOUS
  <2>2. n - q \in T
    BY <2>1
  <2> QED
    BY <2>2
<1>2. PICK x \in T : \A y \in T : x <= y
  BY <1>1, LeastExists
<1>3. n - x \in S
  BY <1>2
<1>4. \A q \in S : q <= n - x
  <2> TAKE q \in S
  <2>1. q \in 1 .. n /\ n - (n - q) = q
    OBVIOUS
  <2>2. n - q \in T
    BY <2>1
  <2>3. x <= n - q
    BY <1>2, <2>2
  <2> QED
    BY <2>1, <2>3
<1>5. \E p \in S : \A q \in S : q <= p
  BY <1>3, <1>4
<1> QED
  BY <1>5 DEF Highest
-----------------------------------------------------------------------------
(***************************************************************************)
(* The path of a frame.                                                    *)
(***************************************************************************)
LEMMA ContinueBelow ==
  ASSUME NEW s, Grounded(s), NEW p \in 1 .. Len(s)
  PROVE  Continue(s, p) \in 0 .. p - 1
BY DEF Grounded, Continue, NoBarrier

LEMMA ClosedFromDef ==
  ASSUME NEW s, NEW p \in Nat \ {0}, NEW S
  PROVE  S \in ClosedFrom(s, p) <=>
           /\ S \in SUBSET (1 .. p) /\ p \in S
           /\ \A q \in S : Continue(s, q) \in S \cup {0}
<1>1. ASSUME S \in ClosedFrom(s, p)
      PROVE  /\ S \in SUBSET (1 .. p) /\ p \in S
             /\ \A q \in S : Continue(s, q) \in S \cup {0}
  <2>1. /\ \E T \in SUBSET (1 .. p - 1) : S = T \cup {p}
        /\ \A q \in S : Continue(s, q) \in S \cup {0}
    BY <1>1, Zenon DEF ClosedFrom
  <2>2. PICK T \in SUBSET (1 .. p - 1) : S = T \cup {p}
    BY <2>1
  <2> QED
    BY <2>1, <2>2
<1>2. ASSUME S \in SUBSET (1 .. p), p \in S,
             \A q \in S : Continue(s, q) \in S \cup {0}
      PROVE  S \in ClosedFrom(s, p)
  <2>1. S \ {p} \in SUBSET (1 .. p - 1)
    BY <1>2
  <2>2. S = (S \ {p}) \cup {p}
    BY <1>2
  <2> QED
    BY <1>2, <2>1, <2>2 DEF ClosedFrom
<1> QED
  BY <1>1, <1>2

LEMMA PathClosed ==
  ASSUME NEW s, Grounded(s), NEW p \in 1 .. Len(s)
  PROVE  /\ Path(s, p) \in SUBSET (1 .. p)
         /\ p \in Path(s, p)
         /\ \A q \in Path(s, p) : Continue(s, q) \in Path(s, p) \cup {0}
<1>1. Path(s, p) \in SUBSET (1 .. p)
  BY DEF Path
<1>2. p \in Path(s, p)
  BY ClosedFromDef DEF Path
<1>3. ASSUME NEW q \in Path(s, p), Continue(s, q) # 0
      PROVE  Continue(s, q) \in Path(s, p)
  <2>1. Continue(s, q) \in 1 .. p
    BY <1>1, <1>3, ContinueBelow
  <2>2. ASSUME NEW S \in ClosedFrom(s, p)
        PROVE  Continue(s, q) \in S
    <3>1. q \in S
      BY DEF Path
    <3> QED
      BY <1>3, <3>1, ClosedFromDef
  <2> QED
    BY <2>1, <2>2 DEF Path
<1> QED
  BY <1>1, <1>2, <1>3

\* It is the least set that has the frame and is closed.
LEMMA PathLeast ==
  ASSUME NEW s, NEW p \in Nat \ {0}, NEW S \in SUBSET (1 .. p), p \in S,
         \A q \in S : Continue(s, q) \in S \cup {0}
  PROVE  Path(s, p) \subseteq S
<1>1. S \in ClosedFrom(s, p)
  BY ClosedFromDef
<1> QED
  BY <1>1 DEF Path

\* One step of a lookup.
LEMMA PathUnfold ==
  ASSUME NEW s, Grounded(s), NEW p \in 1 .. Len(s)
  PROVE  /\ Continue(s, p) = 0 => Path(s, p) = {p}
         /\ Continue(s, p) # 0 => Path(s, p) = {p} \cup Path(s, Continue(s, p))
<1> DEFINE c == Continue(s, p)
<1>1. c \in 0 .. p - 1
  BY ContinueBelow
<1>2. /\ Path(s, p) \in SUBSET (1 .. p)
      /\ p \in Path(s, p)
      /\ \A q \in Path(s, p) : Continue(s, q) \in Path(s, p) \cup {0}
  BY PathClosed
<1>3. CASE c = 0
  <2> DEFINE S == {p}
  <2>1. S \in SUBSET (1 .. p) /\ p \in S
    OBVIOUS
  <2>2. \A q \in S : Continue(s, q) \in S \cup {0}
    BY <1>3
  <2> HIDE DEF S
  <2>3. Path(s, p) \subseteq S
    BY <2>1, <2>2, PathLeast
  <2> QED
    BY <1>2, <1>3, <2>3 DEF S
<1>4. CASE c # 0
  <2>1. c \in 1 .. Len(s) /\ c \in 1 .. p - 1
    BY <1>1, <1>4
  <2>2. /\ Path(s, c) \in SUBSET (1 .. c)
        /\ c \in Path(s, c)
        /\ \A q \in Path(s, c) : Continue(s, q) \in Path(s, c) \cup {0}
    BY <2>1, PathClosed
  <2>3. Path(s, p) \subseteq {p} \cup Path(s, c)
    <3> DEFINE S == {p} \cup Path(s, c)
    <3>1. S \in SUBSET (1 .. p) /\ p \in S
      BY <2>1, <2>2
    <3>2. \A q \in S : Continue(s, q) \in S \cup {0}
      BY <2>2
    <3> HIDE DEF S
    <3>3. Path(s, p) \subseteq S
      BY <3>1, <3>2, PathLeast
    <3> QED
      BY <3>3 DEF S
  <2>4. Path(s, c) \subseteq Path(s, p)
    <3> DEFINE S == Path(s, p) \cap (1 .. c)
    <3>1. S \in SUBSET (1 .. c) /\ c \in S
      BY <1>2, <1>4, <2>1
    <3>2. \A q \in S : Continue(s, q) \in S \cup {0}
      <4> TAKE q \in S
      <4>1. q \in 1 .. Len(s) /\ q \in 1 .. c /\ q \in Path(s, p)
        BY <2>1
      <4>2. Continue(s, q) \in 0 .. q - 1
        BY <4>1, ContinueBelow
      <4> QED
        BY <1>2, <2>1, <4>1, <4>2
    <3> HIDE DEF S
    <3>3. Path(s, c) \subseteq S
      BY <2>1, <3>1, <3>2, PathLeast
    <3> QED
      BY <3>3 DEF S
  <2> QED
    BY <1>2, <1>4, <2>3, <2>4
<1> QED
  BY <1>3, <1>4

LEMMA RootOnPath ==
  ASSUME NEW s, Grounded(s), NEW p \in 1 .. Len(s)
  PROVE  Root \in Path(s, p)
<1>1. /\ Path(s, p) \in SUBSET (1 .. p)
      /\ p \in Path(s, p)
      /\ \A q \in Path(s, p) : Continue(s, q) \in Path(s, p) \cup {0}
  BY PathClosed
<1>2. Path(s, p) \in SUBSET Nat /\ Path(s, p) # {}
  BY <1>1
<1>3. PICK m \in Path(s, p) : \A y \in Path(s, p) : m <= y
  BY <1>2, LeastExists
<1>4. m \in 1 .. Len(s)
  BY <1>1
<1>5. Continue(s, m) \in 0 .. m - 1
  BY <1>4, ContinueBelow
<1>6. Continue(s, m) = 0
  BY <1>1, <1>3, <1>4, <1>5
<1>7. m = 1
  BY <1>4, <1>6 DEF Continue, NoBarrier
<1> QED
  BY <1>3, <1>7 DEF Root

\* A path depends on the barriers of the frames up to its own only.
LEMMA PathAgree ==
  ASSUME NEW s, NEW t, NEW p \in Nat \ {0},
         \A q \in 1 .. p : s[q].barrier = t[q].barrier
  PROVE  Path(s, p) = Path(t, p)
<1>1. \A q \in 1 .. p : Continue(s, q) = Continue(t, q)
  BY DEF Continue
<1>2. ASSUME NEW S
      PROVE  S \in ClosedFrom(s, p) <=> S \in ClosedFrom(t, p)
  <2>1. S \in ClosedFrom(s, p) <=>
           /\ S \in SUBSET (1 .. p) /\ p \in S
           /\ \A q \in S : Continue(s, q) \in S \cup {0}
    BY ClosedFromDef
  <2>2. S \in ClosedFrom(t, p) <=>
           /\ S \in SUBSET (1 .. p) /\ p \in S
           /\ \A q \in S : Continue(t, q) \in S \cup {0}
    BY ClosedFromDef
  <2> QED
    BY <1>1, <2>1, <2>2
<1>3. ClosedFrom(s, p) = ClosedFrom(t, p)
  BY <1>2
<1> QED
  BY <1>3 DEF Path

(***************************************************************************)
(* A lookup that comes by a frame goes on as one that starts there: the    *)
(* path from q is what the path from p has below.  Were it not so, take    *)
(* the least p for which it fails.                                         *)
(***************************************************************************)
LEMMA PathInner ==
  ASSUME NEW s, Grounded(s), NEW p \in 1 .. Len(s), NEW q \in Path(s, p)
  PROVE  Path(s, q) = Path(s, p) \cap (1 .. q)
<1> DEFINE Fails(r) == \E u \in Path(s, r) : Path(s, u) # Path(s, r) \cap (1 .. u)
           Bad == {r \in 1 .. Len(s) : Fails(r)}
<1>1. SUFFICES Bad = {}
  BY <1>1
<1>2. SUFFICES ASSUME Bad # {}
               PROVE  FALSE
  BY <1>2
<1>3. Bad \in SUBSET Nat
  OBVIOUS
<1>4. PICK r \in Bad : \A y \in Bad : r <= y
  <2> HIDE DEF Bad
  <2> QED
    BY <1>2, <1>3, LeastExists
<1>5. r \in 1 .. Len(s) /\ Fails(r)
  BY <1>4
<1>6. PICK u \in Path(s, r) : Path(s, u) # Path(s, r) \cap (1 .. u)
  BY <1>5
<1>7. Path(s, r) \in SUBSET (1 .. r)
  BY <1>5, PathClosed
<1>8. u # r
  BY <1>6, <1>7
<1> DEFINE c == Continue(s, r)
<1>9. c # 0 /\ Path(s, r) = {r} \cup Path(s, c)
  BY <1>5, <1>6, <1>8, PathUnfold
<1>10. c \in 1 .. Len(s) /\ c < r
  BY <1>5, <1>9, ContinueBelow
<1>11. u \in Path(s, c) /\ u < r
  BY <1>6, <1>7, <1>8, <1>9
<1>12. c \notin Bad
  BY <1>4, <1>10
<1>13. Path(s, u) = Path(s, c) \cap (1 .. u)
  BY <1>10, <1>11, <1>12
<1> QED
  BY <1>6, <1>7, <1>9, <1>11, <1>13
-----------------------------------------------------------------------------
(***************************************************************************)
(* The stack as the evaluator keeps it, when the ids to come are n and up. *)
(***************************************************************************)
Ordered(s, n) ==
  /\ \A p, q \in 1 .. Len(s) : p < q => s[p].id < s[q].id
  /\ \A p \in 1 .. Len(s) : s[p].id < n

Lexical(s) ==
  \A p \in 1 .. Len(s) : Sees(s, p) = {s[p].id} \cup s[p].home /\ s[p].id \notin s[p].home

\* From a frame of the evaluator's own a lookup goes on above the root, but for
\* the frame of a composition's first function, which takes no bindings.
Sheltered(s) ==
  \A p \in 2 .. Len(s) : s[p].internal /\ ~ s[p].opaque => Continue(s, p) > Root

StackOK(s, n) ==
  /\ s \in Seq(Frame) /\ n \in Nat
  /\ Grounded(s) /\ Ordered(s, n) /\ Lexical(s) /\ Sheltered(s)

\* What is left of the frames a function was made in is one path, from the root.
OnePath(s, chain) ==
  Path(s, InnermostLive(s, chain)) = {Root} \cup StillOnStack(s, chain)

ChainBefore(chain, n) == \A pair \in chain : pair[2] < n

LEMMA FrameAt ==
  ASSUME NEW s \in Seq(Frame), NEW p \in 1 .. Len(s)
  PROVE  s[p] \in Frame /\ s[p].id \in Nat /\ s[p].bind \in Bindings
<1>1. s[p] \in Frame
  OBVIOUS
<1> QED
  BY <1>1 DEF Frame

LEMMA InnermostLiveIn ==
  ASSUME NEW s, Len(s) \in Nat \ {0}, NEW chain
  PROVE  /\ InnermostLive(s, chain) \in 1 .. Len(s)
         /\ InnermostLive(s, chain) \in {Root} \cup StillOnStack(s, chain)
         /\ \A q \in StillOnStack(s, chain) : q <= InnermostLive(s, chain)
<1>1. StillOnStack(s, chain) \in SUBSET (1 .. Len(s))
  BY DEF StillOnStack
<1>2. CASE StillOnStack(s, chain) = {}
  BY <1>2 DEF InnermostLive, Root
<1>3. CASE StillOnStack(s, chain) # {}
  <2>1. InnermostLive(s, chain) = Highest(StillOnStack(s, chain))
    BY <1>3 DEF InnermostLive
  <2>2. /\ Highest(StillOnStack(s, chain)) \in StillOnStack(s, chain)
        /\ \A q \in StillOnStack(s, chain) : q <= Highest(StillOnStack(s, chain))
    BY <1>1, <1>3, HighestExists
  <2> QED
    BY <1>1, <2>1, <2>2
<1> QED
  BY <1>2, <1>3

LEMMA FrameBelowInternalIn ==
  ASSUME NEW s, Grounded(s), NEW p \in 1 .. Len(s)
  PROVE  FrameBelowInternal(s, p) \in 1 .. p
<1> DEFINE S == {q \in Path(s, p) : ~ s[q].internal \/ q = Root}
<1>1. S \in SUBSET (1 .. p)
  BY PathClosed
<1>2. Root \in S
  BY RootOnPath
<1>3. p \in Nat /\ S # {}
  BY <1>2
<1>4. FrameBelowInternal(s, p) = Highest(S)
  BY DEF FrameBelowInternal
<1> HIDE DEF S
<1>5. Highest(S) \in S
  BY <1>1, <1>3, HighestExists
<1> QED
  BY <1>1, <1>4, <1>5

LEMMA LookupIn ==
  ASSUME NEW s \in Seq(Frame), NEW p \in 1 .. Len(s), NEW n \in Names
  PROVE  Lookup(s, p, n) \in Value \cup {Unbound}
<1> DEFINE bound == {q \in Path(s, p) : s[q].bind[n] # Unbound}
<1>1. CASE bound = {}
  BY <1>1 DEF Lookup
<1>2. CASE bound # {}
  <2>1. bound \in SUBSET (1 .. p)
    BY DEF Path
  <2>2. Lookup(s, p, n) = s[Highest(bound)].bind[n]
    BY <1>2 DEF Lookup
  <2>3. p \in Nat /\ (1 .. p) \subseteq (1 .. Len(s))
    OBVIOUS
  <2> HIDE DEF bound
  <2>4. Highest(bound) \in bound
    BY <1>2, <2>1, <2>3, HighestExists
  <2>5. Highest(bound) \in 1 .. Len(s)
    BY <2>1, <2>3, <2>4
  <2>6. s[Highest(bound)].bind \in Bindings
    BY <2>5, FrameAt
  <2> QED
    BY <2>2, <2>6 DEF Bindings
<1> QED
  BY <1>1, <1>2

\* The home of a call's frame is what the frame it continues at sees.
LEMMA HomeIsSeen ==
  ASSUME NEW s, Len(s) \in Nat \ {0}, NEW chain, OnePath(s, chain)
  PROVE  {s[Root].id} \cup {s[p].id : p \in StillOnStack(s, chain)}
           = Sees(s, InnermostLive(s, chain))
BY DEF OnePath, Sees

(***************************************************************************)
(* Popping frames.                                                         *)
(***************************************************************************)
LEMMA CutFrames ==
  ASSUME NEW s \in Seq(Frame), NEW k \in 0 .. Len(s)
  PROVE  /\ Cut(s, k) \in Seq(Frame)
         /\ Len(Cut(s, k)) = k
         /\ \A p \in 1 .. k : Cut(s, k)[p] = s[p]
BY DEF Cut

LEMMA CutSees ==
  ASSUME NEW s \in Seq(Frame), NEW k \in 1 .. Len(s), NEW p \in 1 .. k
  PROVE  /\ Path(Cut(s, k), p) = Path(s, p)
         /\ Sees(Cut(s, k), p) = Sees(s, p)
<1>1. \A q \in 1 .. k : Cut(s, k)[q] = s[q]
  BY CutFrames
<1>2. Path(Cut(s, k), p) = Path(s, p)
  BY <1>1, PathAgree
<1>3. Path(s, p) \in SUBSET (1 .. p)
  BY DEF Path
<1> QED
  BY <1>1, <1>2, <1>3 DEF Sees

LEMMA CutOK ==
  ASSUME NEW s, NEW n, StackOK(s, n), NEW k \in 1 .. Len(s)
  PROVE  StackOK(Cut(s, k), n)
<1>1. /\ Cut(s, k) \in Seq(Frame)
      /\ Len(Cut(s, k)) = k
      /\ \A p \in 1 .. k : Cut(s, k)[p] = s[p]
  BY CutFrames DEF StackOK
<1>2. \A p \in 1 .. k : Sees(Cut(s, k), p) = Sees(s, p)
  BY CutSees DEF StackOK
<1>3. Grounded(Cut(s, k))
  BY <1>1 DEF StackOK, Grounded
<1>4. Ordered(Cut(s, k), n)
  BY <1>1 DEF StackOK, Ordered
<1>5. Lexical(Cut(s, k))
  BY <1>1, <1>2 DEF StackOK, Lexical
<1>6. Sheltered(Cut(s, k))
  <2>1. \A p \in 2 .. k : p \in 1 .. k /\ p \in 2 .. Len(s)
    BY DEF StackOK
  <2> QED
    BY <1>1, <2>1 DEF StackOK, Sheltered, Continue
<1> QED
  BY <1>1, <1>3, <1>4, <1>5, <1>6 DEF StackOK

LEMMA CutOnePath ==
  ASSUME NEW s, NEW n, StackOK(s, n), NEW k \in 1 .. Len(s),
         NEW chain, OnePath(s, chain)
  PROVE  /\ OnePath(Cut(s, k), chain)
         /\ InnermostLive(s, chain) <= k
              => InnermostLive(Cut(s, k), chain) = InnermostLive(s, chain)
<1> DEFINE t == Cut(s, k)
           i == InnermostLive(s, chain)
           j == InnermostLive(t, chain)
<1>1. /\ t \in Seq(Frame) /\ Len(t) = k
      /\ \A p \in 1 .. k : t[p] = s[p]
  BY CutFrames DEF StackOK
<1>2. StillOnStack(t, chain) = StillOnStack(s, chain) \cap (1 .. k)
  BY <1>1 DEF StillOnStack
<1>3. /\ i \in 1 .. Len(s) /\ i \in {Root} \cup StillOnStack(s, chain)
      /\ \A q \in StillOnStack(s, chain) : q <= i
  BY InnermostLiveIn DEF StackOK, Grounded
<1>4. /\ j \in 1 .. k /\ j \in {Root} \cup StillOnStack(t, chain)
      /\ \A q \in StillOnStack(t, chain) : q <= j
  BY <1>1, InnermostLiveIn
<1>5. j \in Path(s, i)
  BY <1>2, <1>4 DEF OnePath
<1>6. Path(s, j) = Path(s, i) \cap (1 .. j)
  BY <1>3, <1>5, PathInner DEF StackOK
<1>7. Path(t, j) = Path(s, j)
  BY <1>4, CutSees DEF StackOK
<1>8. {Root} \cup StillOnStack(t, chain) = ({Root} \cup StillOnStack(s, chain)) \cap (1 .. j)
  BY <1>2, <1>4 DEF Root
<1>9. OnePath(t, chain)
  BY <1>6, <1>7, <1>8 DEF OnePath
<1>10. ASSUME i <= k
       PROVE  j = i
  <2>1. i \in {Root} \cup StillOnStack(t, chain)
    BY <1>2, <1>3, <1>10
  <2>2. i <= j
    BY <1>3, <1>4, <2>1 DEF Root
  <2>3. j <= i
    BY <1>2, <1>3, <1>4 DEF Root
  <2> QED
    BY <1>3, <1>4, <2>2, <2>3
<1> QED
  BY <1>9, <1>10

\* If all frames but the root are the evaluator's own, one of them is opaque.
LEMMA OnlyOpaqueToRoot ==
  ASSUME NEW s, NEW n, StackOK(s, n), NEW from \in 2 .. Len(s),
         FrameBelowInternal(s, from) = Root
  PROVE  OpaqueOnTheWay(s, from)
<1> DEFINE P == Path(s, from)
           S == P \ {Root}
           own == {q \in P : ~ s[q].internal \/ q = Root}
<1>1. Grounded(s) /\ Sheltered(s) /\ Len(s) \in Nat /\ from \in 1 .. Len(s)
  BY DEF StackOK, Grounded
<1>2. /\ P \in SUBSET (1 .. from) /\ from \in P
      /\ \A q \in P : Continue(s, q) \in P \cup {0}
  BY <1>1, PathClosed
<1>3. S \in SUBSET Nat /\ S # {}
  BY <1>2 DEF Root
<1> HIDE DEF S
<1>4. PICK q \in S : \A y \in S : q <= y
  BY <1>3, LeastExists
<1>5. q \in P /\ q \in 2 .. Len(s) /\ q \in 1 .. Len(s) /\ q \in 1 .. from
  BY <1>1, <1>2, <1>4 DEF S, Root
<1>6. Continue(s, q) = Root
  <2>1. Continue(s, q) \in 0 .. q - 1 /\ Continue(s, q) # 0
    BY <1>1, <1>5, ContinueBelow DEF Continue, NoBarrier
  <2>2. Continue(s, q) \in P
    BY <1>2, <1>5, <2>1
  <2>3. Continue(s, q) \notin S
    BY <1>4, <1>5, <2>1
  <2> QED
    BY <2>2, <2>3 DEF S
<1>7. s[q].internal
  <2>1. own \in SUBSET (1 .. from) /\ from \in Nat
    BY <1>2
  <2>2. FrameBelowInternal(s, from) = Highest(own)
    BY DEF FrameBelowInternal
  <2>3. SUFFICES ASSUME ~ s[q].internal PROVE FALSE
    OBVIOUS
  <2>4. q \in own
    BY <1>5, <2>3
  <2> HIDE DEF own
  <2>5. q <= Highest(own)
    BY <2>1, <2>4, HighestExists
  <2> QED
    BY <1>5, <2>2, <2>5 DEF Root
<1>8. s[q].opaque
  BY <1>1, <1>5, <1>6, <1>7 DEF Sheltered, Root
<1> QED
  BY <1>5, <1>8 DEF OpaqueOnTheWay, Root

(***************************************************************************)
(* Pushing a frame.                                                        *)
(***************************************************************************)
LEMMA PushSees ==
  ASSUME NEW s \in Seq(Frame), NEW f \in Frame, NEW p \in 1 .. Len(s)
  PROVE  /\ Path(Append(s, f), p) = Path(s, p)
         /\ Sees(Append(s, f), p) = Sees(s, p)
<1>1. \A q \in 1 .. Len(s) : Append(s, f)[q] = s[q]
  OBVIOUS
<1>2. Path(Append(s, f), p) = Path(s, p)
  <2>1. p \in Nat \ {0} /\ \A q \in 1 .. p : Append(s, f)[q].barrier = s[q].barrier
    BY <1>1
  <2> QED
    BY <2>1, PathAgree
<1>3. Path(s, p) \in SUBSET (1 .. p)
  BY DEF Path
<1> QED
  BY <1>1, <1>2, <1>3 DEF Sees

LEMMA PushOK ==
  ASSUME NEW s, NEW n, StackOK(s, n), NEW f \in Frame, f.id = n,
         NEW at \in 1 .. Len(s), f.barrier \in {0, at},
         f.barrier = 0 => at = Len(s), f.home = Sees(s, at),
         f.internal /\ ~ f.opaque => at > Root
  PROVE  StackOK(Append(s, f), n + 1)
<1> DEFINE t == Append(s, f)
           new == Len(s) + 1
<1>1. /\ t \in Seq(Frame) /\ Len(t) = new /\ t[new] = f
      /\ \A p \in 1 .. Len(s) : t[p] = s[p]
  BY DEF StackOK
<1>2. Grounded(t)
  <2>1. Len(s) \in Nat \ {0} /\ \A p \in 1 .. Len(s) : s[p].barrier \in 0 .. p - 1
    BY DEF StackOK, Grounded
  <2>2. f.barrier \in 0 .. new - 1
    BY <2>1
  <2>3. ASSUME NEW p \in 1 .. new
        PROVE  t[p].barrier \in 0 .. p - 1
    <3>1. CASE p = new
      BY <1>1, <2>2, <3>1
    <3>2. CASE p # new
      <4>1. p \in 1 .. Len(s)
        <5>1. Len(s) \in Nat /\ p \in 1 .. Len(s) + 1
          BY <2>1
        <5> QED
          BY <3>2, <5>1
      <4>2. t[p] = s[p]
        BY <1>1, <4>1
      <4> QED
        BY <2>1, <4>1, <4>2
    <3> QED
      BY <3>1, <3>2
  <2>4. Len(t) \in Nat \ {0} /\ 1 .. Len(t) = 1 .. new
    BY <1>1, <2>1
  <2> HIDE DEF t, new
  <2> QED
    BY <2>3, <2>4 DEF Grounded
<1>3. Ordered(t, n + 1)
  <2>1. \A p \in 1 .. Len(s) : s[p].id < n
    BY DEF StackOK, Ordered
  <2>2. \A p \in 1 .. Len(s) : s[p].id \in Nat
    BY FrameAt DEF StackOK
  <2>3. ASSUME NEW p \in 1 .. new, NEW q \in 1 .. new, p < q
        PROVE  t[p].id < t[q].id
    <3>1. CASE q = new
      BY <1>1, <2>1, <2>3, <3>1 DEF StackOK
    <3>2. CASE q # new
      BY <1>1, <2>3, <3>2 DEF StackOK, Ordered
    <3> QED
      BY <3>1, <3>2
  <2>4. ASSUME NEW p \in 1 .. new
        PROVE  t[p].id < n + 1
    <3>1. CASE p = new
      BY <1>1, <3>1 DEF StackOK
    <3>2. CASE p # new
      <4>1. p \in 1 .. Len(s)
        BY <3>2 DEF StackOK
      <4> QED
        BY <1>1, <2>1, <2>2, <4>1 DEF StackOK
    <3> QED
      BY <3>1, <3>2
  <2> QED
    BY <1>1, <2>3, <2>4 DEF Ordered
<1>4. Continue(t, new) = at
  BY <1>1 DEF Continue, NoBarrier, StackOK
<1>5. Path(t, new) = {new} \cup Path(t, at)
  <2>1. new \in 1 .. Len(t) /\ Continue(t, new) # 0
    BY <1>1, <1>4 DEF StackOK
  <2> QED
    BY <1>2, <1>4, <2>1, PathUnfold
<1>6. Sees(t, new) = {f.id} \cup Sees(t, at)
  BY <1>1, <1>5 DEF Sees
<1>7. \A p \in 1 .. Len(s) : Sees(t, p) = Sees(s, p)
  BY PushSees DEF StackOK
<1>8. Lexical(t)
  <2>1. Sees(t, new) = {t[new].id} \cup t[new].home /\ t[new].id \notin t[new].home
    <3>1. Path(s, at) \in SUBSET (1 .. Len(s))
      BY DEF Path, StackOK
    <3>2. \A q \in Path(s, at) : s[q].id \in Nat /\ s[q].id < n
      BY <3>1, FrameAt DEF StackOK, Ordered
    <3>3. n \notin Sees(s, at)
      BY <3>2 DEF Sees, StackOK
    <3> QED
      BY <1>1, <1>6, <1>7, <3>3
  <2>2. ASSUME NEW p \in 1 .. Len(s)
        PROVE  Sees(t, p) = {t[p].id} \cup t[p].home /\ t[p].id \notin t[p].home
    BY <1>1, <1>7 DEF StackOK, Lexical
  <2>3. 1 .. Len(t) = (1 .. Len(s)) \cup {new}
    BY <1>1 DEF StackOK
  <2> QED
    BY <2>1, <2>2, <2>3 DEF Lexical
<1>9. Sheltered(t)
  <2>1. ASSUME NEW p \in 2 .. new, t[p].internal, ~ t[p].opaque
        PROVE  Continue(t, p) > Root
    <3>1. CASE p = new
      BY <1>1, <1>4, <2>1, <3>1
    <3>2. CASE p # new
      <4>1. p \in 2 .. Len(s) /\ p \in 1 .. Len(s)
        BY <3>2 DEF StackOK
      <4> QED
        BY <1>1, <2>1, <4>1 DEF StackOK, Sheltered, Continue
    <3> QED
      BY <3>1, <3>2
  <2> QED
    BY <1>1, <2>1 DEF Sheltered
<1> QED
  BY <1>1, <1>2, <1>3, <1>8, <1>9 DEF StackOK

LEMMA PushOnePath ==
  ASSUME NEW s, NEW n, StackOK(s, n), NEW f \in Frame, f.id = n,
         NEW chain, ChainBefore(chain, n), OnePath(s, chain)
  PROVE  OnePath(Append(s, f), chain)
<1> DEFINE t == Append(s, f)
<1>1. /\ Len(t) = Len(s) + 1 /\ t[Len(s) + 1] = f /\ Len(s) \in Nat \ {0}
      /\ \A p \in 1 .. Len(s) : t[p] = s[p]
  BY DEF StackOK, Grounded
<1>2. \A p : <<p, n>> \notin chain
  BY DEF ChainBefore, StackOK
<1>3. StillOnStack(t, chain) = StillOnStack(s, chain)
  <2>1. ASSUME NEW p \in 2 .. Len(t), <<p, t[p].id>> \in chain
        PROVE  p \in 2 .. Len(s)
    BY <1>1, <1>2, <2>1
  <2> QED
    BY <1>1, <2>1 DEF StillOnStack
<1>4. InnermostLive(t, chain) = InnermostLive(s, chain)
  BY <1>3 DEF InnermostLive
<1>5. InnermostLive(s, chain) \in 1 .. Len(s)
  BY <1>1, InnermostLiveIn
<1>6. Path(t, InnermostLive(s, chain)) = Path(s, InnermostLive(s, chain))
  BY <1>5, PushSees DEF StackOK
<1> QED
  BY <1>3, <1>4, <1>6 DEF OnePath

(***************************************************************************)
(* The top frame cleared: as if it were popped, and one that goes on where *)
(* it did were pushed.                                                     *)
(***************************************************************************)
LEMMA ClearIsPush ==
  ASSUME NEW s, NEW n, StackOK(s, n), NEW top, top = Len(s), top > Root,
         NEW f \in Frame, f.barrier = s[top].barrier, f.home = s[top].home,
         f.internal = s[top].internal, f.opaque = s[top].opaque
  PROVE  /\ [s EXCEPT ![top] = f] = Append(Cut(s, top - 1), f)
         /\ \E at \in 1 .. top - 1 :
              /\ f.barrier \in {0, at} /\ (f.barrier = 0 => at = top - 1)
              /\ f.home = Sees(Cut(s, top - 1), at)
              /\ f.internal /\ ~ f.opaque => at > Root
<1> DEFINE k == top - 1
           at == Continue(s, top)
<1>1. s \in Seq(Frame) /\ top \in 1 .. Len(s) /\ k \in 1 .. Len(s) /\ top \in 2 .. Len(s)
      /\ k \in Nat /\ top = k + 1
  BY DEF StackOK, Root
<1>2. /\ Cut(s, k) \in Seq(Frame) /\ Len(Cut(s, k)) = k
      /\ \A p \in 1 .. k : Cut(s, k)[p] = s[p]
  <2>1. k \in 0 .. Len(s)
    BY <1>1
  <2> QED
    BY <1>1, <2>1, CutFrames
<1>3. [s EXCEPT ![top] = f] = Append(Cut(s, k), f)
  <2> DEFINE t == [s EXCEPT ![top] = f]
             u == Append(Cut(s, k), f)
  <2>1. t \in Seq(Frame) /\ Len(t) = k + 1 /\ \A p \in 1 .. k + 1 : t[p] = IF p = top THEN f ELSE s[p]
    BY <1>1
  <2>2. u \in Seq(Frame) /\ Len(u) = k + 1 /\ u[k + 1] = f
        /\ \A p \in 1 .. k : u[p] = Cut(s, k)[p]
    BY <1>1, <1>2
  <2>3. ASSUME NEW p \in 1 .. k + 1 PROVE t[p] = u[p]
    <3>1. CASE p = top
      BY <1>1, <2>1, <2>2, <3>1
    <3>2. CASE p # top
      <4>1. p \in 1 .. k
        BY <1>1, <3>2
      <4> QED
        BY <1>2, <2>1, <2>2, <3>2, <4>1
    <3> QED
      BY <3>1, <3>2
  <2> HIDE DEF t, u
  <2>4. t = u
    BY <1>1, <2>1, <2>2, <2>3
  <2> QED
    BY <2>4 DEF t, u
<1>4. at \in 1 .. k /\ s[top].barrier \in {0, at} /\ (s[top].barrier = 0 => at = k)
  <2>1. s[top].barrier \in 0 .. k
    BY <1>1 DEF StackOK, Grounded
  <2> QED
    BY <1>1, <2>1 DEF Continue, NoBarrier
<1>5. Path(s, top) = {top} \cup Path(s, at)
  BY <1>1, <1>4, PathUnfold DEF StackOK
<1>6. Sees(s, top) = {s[top].id} \cup Sees(s, at)
  BY <1>5 DEF Sees
<1>7. s[top].id \notin Sees(s, at)
  <2>1. Path(s, at) \in SUBSET (1 .. k)
    BY <1>1, <1>4 DEF Path
  <2>2. \A q \in 1 .. k : s[q].id \in Nat /\ s[top].id \in Nat /\ s[q].id < s[top].id
    BY <1>1, FrameAt DEF StackOK, Ordered
  <2>3. \A q \in 1 .. k : s[q].id # s[top].id
    BY <2>2
  <2> QED
    BY <2>1, <2>3 DEF Sees
<1>8. Sees(s, top) = {s[top].id} \cup s[top].home /\ s[top].id \notin s[top].home
  BY <1>1 DEF StackOK, Lexical
<1>9. f.home = Sees(s, at)
  <2> DEFINE seen == Sees(s, at)
             home == s[top].home
             id == s[top].id
  <2>1. {id} \cup seen = {id} \cup home /\ id \notin seen /\ id \notin home
    BY <1>6, <1>7, <1>8
  <2> HIDE DEF seen, home, id
  <2>2. \A x : x \in {id} \cup seen <=> x \in {id} \cup home
    BY <2>1
  <2>3. \A x : x \in seen <=> x \in home
    BY <2>1, <2>2, Zenon
  <2>4. seen = home
    BY <2>3
  <2> QED
    BY <2>4 DEF seen, home
<1>10. Sees(Cut(s, k), at) = Sees(s, at)
  BY <1>1, <1>4, CutSees
<1>11. f.internal /\ ~ f.opaque => at > Root
  BY <1>1 DEF StackOK, Sheltered
<1> HIDE DEF at
<1> QED
  BY <1>3, <1>4, <1>9, <1>10, <1>11

(***************************************************************************)
(* Changes to what frames bind.                                            *)
(***************************************************************************)
SameFrames(s, t) ==
  /\ Len(t) = Len(s)
  /\ \A p \in 1 .. Len(s) :
       /\ t[p].barrier = s[p].barrier /\ t[p].id = s[p].id /\ t[p].home = s[p].home
       /\ t[p].internal = s[p].internal /\ t[p].opaque = s[p].opaque

LEMMA SameOK ==
  ASSUME NEW s, NEW n, StackOK(s, n), NEW t \in Seq(Frame), SameFrames(s, t)
  PROVE  /\ StackOK(t, n)
         /\ \A chain : OnePath(s, chain) => OnePath(t, chain)
<1>1. ASSUME NEW p \in 1 .. Len(s)
      PROVE  Path(t, p) = Path(s, p) /\ Sees(t, p) = Sees(s, p)
  <2>1. Path(t, p) = Path(s, p)
    BY PathAgree DEF SameFrames, StackOK
  <2>2. Path(s, p) \in SUBSET (1 .. p)
    BY DEF Path
  <2> QED
    BY <2>1, <2>2 DEF Sees, SameFrames, StackOK
<1>2. StackOK(t, n)
  <2>1. Grounded(t)
    BY DEF StackOK, Grounded, SameFrames
  <2>2. Ordered(t, n)
    BY DEF StackOK, Ordered, SameFrames
  <2>3. Lexical(t)
    BY <1>1 DEF StackOK, Lexical, SameFrames
  <2>4. Sheltered(t)
    <3>1. \A p \in 2 .. Len(s) : p \in 1 .. Len(s)
      OBVIOUS
    <3> QED
      BY <3>1 DEF StackOK, Sheltered, SameFrames, Continue
  <2> QED
    BY <2>1, <2>2, <2>3, <2>4 DEF StackOK
<1>3. ASSUME NEW chain, OnePath(s, chain)
      PROVE  OnePath(t, chain)
  <2>1. StillOnStack(t, chain) = StillOnStack(s, chain)
    <3>1. Len(t) = Len(s) /\ \A p \in 2 .. Len(s) : t[p].id = s[p].id
      BY DEF SameFrames, StackOK
    <3> QED
      BY <3>1 DEF StillOnStack
  <2>2. InnermostLive(t, chain) = InnermostLive(s, chain)
    BY <2>1 DEF InnermostLive
  <2>3. InnermostLive(s, chain) \in 1 .. Len(s)
    BY InnermostLiveIn DEF StackOK, Grounded
  <2> QED
    BY <1>1, <1>3, <2>1, <2>2, <2>3 DEF OnePath
<1> QED
  BY <1>2, <1>3

(***************************************************************************)
(* The scope a function takes when it is made.                             *)
(***************************************************************************)
LEMMA NewChain ==
  ASSUME NEW s, NEW n, StackOK(s, n)
  PROVE  /\ OnePath(s, Chain(s))
         /\ ChainBefore(Chain(s), n)
         /\ Chain(s) \in SUBSET (Nat \X Nat)
<1> DEFINE top == Len(s)
           P == Path(s, top)
<1>1. top \in 1 .. Len(s) /\ top \in Nat
  BY DEF StackOK, Grounded
<1>2. P \in SUBSET (1 .. top) /\ top \in P /\ Root \in P
  BY <1>1, PathClosed, RootOnPath DEF StackOK
<1>3. Chain(s) = {<<p, s[p].id>> : p \in P \ {Root}}
  BY DEF Chain, Top
<1>4. \A p \in P : s[p].id \in Nat /\ s[p].id < n
  BY <1>2, FrameAt DEF StackOK, Ordered
<1>5. StillOnStack(s, Chain(s)) = P \ {Root}
  BY <1>1, <1>2, <1>3 DEF StillOnStack, Root
<1>6. InnermostLive(s, Chain(s)) = top
  <2>1. /\ InnermostLive(s, Chain(s)) \in {Root} \cup (P \ {Root})
        /\ \A q \in P \ {Root} : q <= InnermostLive(s, Chain(s))
    BY <1>1, <1>5, InnermostLiveIn
  <2> QED
    BY <1>1, <1>2, <2>1 DEF Root
<1>7. OnePath(s, Chain(s))
  BY <1>2, <1>5, <1>6 DEF OnePath
<1>8. ChainBefore(Chain(s), n)
  BY <1>3, <1>4 DEF ChainBefore
<1>9. Chain(s) \in SUBSET (Nat \X Nat)
  BY <1>2, <1>3, <1>4
<1> QED
  BY <1>7, <1>8, <1>9

\* A function that sees the root alone has no chain.
LEMMA NoChain ==
  ASSUME NEW s, NEW n, StackOK(s, n)
  PROVE  OnePath(s, {}) /\ ChainBefore({}, n)
<1>1. StillOnStack(s, {}) = {} /\ InnermostLive(s, {}) = Root
  BY DEF StillOnStack, InnermostLive
<1>2. Root \in 1 .. Len(s) /\ Path(s, Root) = {Root}
  <2>1. Root \in 1 .. Len(s)
    BY DEF StackOK, Grounded, Root
  <2>2. Path(s, Root) \in SUBSET (1 .. Root) /\ Root \in Path(s, Root)
    BY <2>1, PathClosed DEF StackOK
  <2> QED
    BY <2>1, <2>2 DEF Root
<1> QED
  BY <1>1, <1>2 DEF OnePath, ChainBefore
=============================================================================
