----------------------------- MODULE ClosuresProofs -----------------------------
(***************************************************************************)
(* What closures keep, and when a trampoline may use a frame again: the    *)
(* tokens a closure holds keep the trampoline frames it can see and no     *)
(* others, no closure holds on to itself, and a tail call takes a frame    *)
(* exactly where no closure sees it.  And what comes of it: the scopes     *)
(* implement environments.                                                 *)
(***************************************************************************)
EXTENDS StepsProofs

(***************************************************************************)
(* The inductive invariant.                                                *)
(***************************************************************************)
\* What the kinds of closure have and have not.
HeapShaped(h) ==
  \A f \in Fns :
    /\ h[f].kind = "lambda" => /\ h[f].f = Unbound /\ h[f].g = Unbound
                               /\ h[f].env[Param] = Unbound
    /\ h[f].kind = "first" => ~ h[f].thunk
    /\ h[f].kind = "comp" => h[f].chain = {} /\ h[f].keep = 0
    /\ h[f].foreign => h[f].keep = 0

\* A frame's token keeps the tokens of the trampoline frames further out.
TokensLinked(s, o) ==
  /\ ~ s[Root].token
  /\ \A p \in 2 .. Len(s) :
       s[p].token => /\ s[p].tco /\ o[s[p].id] = NextTcoId(s, p)
                     /\ \A q \in TcoPath(s, p) : s[q].token

\* A frame whose token someone refers to has its token.
TokensFound(s, h, o) ==
  \A p \in 2 .. Len(s) :
    /\ \A f \in Fns : h[f].keep = s[p].id => s[p].token
    /\ \A t \in Ids : o[t] = s[p].id => s[p].token

Kept(h, o, f) == Reachable(h, o, {h[f].keep} \ {0})

\* A closure keeps the trampoline frames it sees,
SeenKept(s, h, o) ==
  \A f \in {g \in Fns : h[g].kind \in {"lambda", "first"} /\ ~ h[g].foreign} :
    \A p \in {q \in StillOnStack(s, h[f].chain) : s[q].tco} : s[p].id \in Kept(h, o, f)

\* and no other frame.
KeptSeen(s, h, o) ==
  \A f \in Fns : \A p \in 2 .. Len(s) :
    s[p].id \in Kept(h, o, f) => <<p, s[p].id>> \in h[f].chain

Acyclic(h, o) == \A f \in Fns : f \notin Reachable(h, o, References(h, o, f))

\* A count of references was taken only where there was one from a closure.
Counted(frame) == frame.seenAt = 0 \/ frame.seenAt >= 2

CountsOK(s) == \A p \in 1 .. Len(s) : Counted(s[p])

ClosInv(s, h, o) ==
  /\ HeapShaped(h) /\ TokensLinked(s, o) /\ TokensFound(s, h, o)
  /\ SeenKept(s, h, o) /\ KeptSeen(s, h, o) /\ Acyclic(h, o) /\ CountsOK(s)
-----------------------------------------------------------------------------
(***************************************************************************)
(* What is reachable.                                                      *)
(***************************************************************************)
LEMMA ReachTokens ==
  ASSUME NEW h, NEW o, RefsOK(h, o), NEW from \in SUBSET Ids
  PROVE  Reachable(h, o, from) \in SUBSET Ids
<1>1. from \in SUBSET Nodes /\ Ids \in SUBSET Nodes
  BY DEF Nodes
<1>2. ClosedUnder(h, o, Ids)
  BY RefsIn DEF ClosedUnder, Nodes
<1> QED
  BY <1>1, <1>2, ReachableIs

LEMMA ReachNone ==
  ASSUME NEW h, NEW o, RefsOK(h, o)
  PROVE  Reachable(h, o, {}) = {}
<1>1. ClosedUnder(h, o, {})
  BY DEF ClosedUnder
<1> QED
  BY <1>1, ReachableIs

\* What is reachable and not given is referred to.
LEMMA ReachReferrer ==
  ASSUME NEW h, NEW o, RefsOK(h, o), NEW from \in SUBSET Nodes,
         NEW n \in Reachable(h, o, from)
  PROVE  n \in from \/ \E m \in Reachable(h, o, from) : n \in References(h, o, m)
<1> DEFINE R == Reachable(h, o, from)
           Z == R \ {n}
<1>1. /\ R \in SUBSET Nodes /\ from \subseteq R /\ ClosedUnder(h, o, R)
      /\ \A Y \in SUBSET Nodes : from \subseteq Y /\ ClosedUnder(h, o, Y) => R \subseteq Y
  BY ReachableIs
<1>2. n \in R
  OBVIOUS
<1> HIDE DEF R
<1>3. SUFFICES ASSUME n \notin from, \A m \in R : n \notin References(h, o, m) PROVE FALSE
  BY DEF R
<1>4. Z \in SUBSET Nodes /\ from \subseteq Z /\ ClosedUnder(h, o, Z)
  BY <1>1, <1>3 DEF ClosedUnder
<1>5. R \subseteq Z
  BY <1>1, <1>4
<1> QED
  BY <1>2, <1>5

LEMMA ReachWithin ==
  ASSUME NEW h, NEW o, RefsOK(h, o), NEW from \in SUBSET Nodes, NEW other \in SUBSET Nodes,
         from \subseteq Reachable(h, o, other)
  PROVE  Reachable(h, o, from) \subseteq Reachable(h, o, other)
BY ReachableIs

LEMMA KeptIs ==
  ASSUME NEW h, NEW o, RefsOK(h, o), NEW f \in Fns
  PROVE  /\ {h[f].keep} \ {0} \in SUBSET Ids /\ {h[f].keep} \ {0} \in SUBSET Nodes
         /\ {h[f].keep} \ {0} \subseteq References(h, o, f)
         /\ Kept(h, o, f) \in SUBSET Ids
<1>1. {h[f].keep} \ {0} \in SUBSET Ids
  BY ClosuresAssumption DEF RefsOK, Ids
<1>2. Kept(h, o, f) \in SUBSET Ids
  BY <1>1, ReachTokens DEF Kept
<1> QED
  BY <1>1, <1>2 DEF References, Nodes

\* Only tokens named before n are kept.
LEMMA KeptBefore ==
  ASSUME NEW h, NEW o, NEW n \in Nat, h \in [Fns -> Closure], TokensBefore(h, o, n), NEW f \in Fns
  PROVE  n \notin Kept(h, o, f)
<1> DEFINE Z == Ids \cap (0 .. n - 1)
           from == {h[f].keep} \ {0}
<1>1. RefsOK(h, o)
  BY RefsBefore
<1>2. from \subseteq Z /\ from \in SUBSET Nodes /\ Z \in SUBSET Nodes
  BY <1>1, KeptIs DEF TokensBefore, Nodes
<1>3. ClosedUnder(h, o, Z)
  <2> SUFFICES ASSUME NEW t \in Z PROVE References(h, o, t) \subseteq Z
    BY DEF ClosedUnder
  <2>1. t \notin Fns /\ t \in Nodes /\ t \in Ids
    BY NodesFinite DEF Nodes
  <2>2. References(h, o, t) = {o[t]} \ {0} /\ References(h, o, t) \in SUBSET Ids
    BY <1>1, <2>1, RefsIn DEF References
  <2>3. o[t] \in 0 .. n - 1
    BY <2>1 DEF TokensBefore
  <2> QED
    BY <2>2, <2>3
<1>4. Kept(h, o, f) \subseteq Z
  <2> HIDE DEF Z
  <2> QED
    BY <1>1, <1>2, <1>3, ReachableIs DEF Kept
<1>5. n \notin 0 .. n - 1
  OBVIOUS
<1> QED
  BY <1>4, <1>5

LEMMA FrameIds ==
  ASSUME NEW s, NEW n, StackOK(s, n)
  PROVE  /\ s \in Seq(Frame) /\ Len(s) \in Nat \ {0} /\ Root \in 1 .. Len(s)
         /\ \A p \in 1 .. Len(s) : s[p].id \in Nat /\ s[p].id < n
         /\ \A p \in 2 .. Len(s) : s[p].id # 0
         /\ n <= MaxId + 1 => \A p \in 2 .. Len(s) : s[p].id \in Ids
         /\ \A p, q \in 1 .. Len(s) : s[p].id = s[q].id => p = q
<1>1. s \in Seq(Frame) /\ Len(s) \in Nat \ {0} /\ n \in Nat /\ Root \in 1 .. Len(s)
  BY DEF StackOK, Grounded, Root
<1>2. \A p \in 1 .. Len(s) : s[p].id \in Nat /\ s[p].id < n
  BY <1>1, FrameAt DEF StackOK, Ordered
<1>3. \A p, q \in 1 .. Len(s) : p < q => s[p].id < s[q].id
  BY DEF StackOK, Ordered
<1>4. \A p \in 2 .. Len(s) : s[p].id # 0
  <2> TAKE p \in 2 .. Len(s)
  <2>1. 1 \in 1 .. Len(s) /\ p \in 1 .. Len(s) /\ 1 < p
    BY <1>1
  <2> QED
    BY <1>2, <1>3, <2>1
<1>5. n <= MaxId + 1 => \A p \in 2 .. Len(s) : s[p].id \in Ids
  BY <1>1, <1>2, <1>4, ClosuresAssumption DEF Ids
<1>6. \A p, q \in 1 .. Len(s) : s[p].id = s[q].id => p = q
  <2> TAKE p, q \in 1 .. Len(s)
  <2>1. p < q \/ q < p \/ p = q
    BY <1>1
  <2> QED
    BY <1>2, <1>3, <2>1
<1> QED
  BY <1>1, <1>2, <1>4, <1>5, <1>6
-----------------------------------------------------------------------------
(***************************************************************************)
(* Dropping what lost its last reference keeps the invariant.              *)
(***************************************************************************)
LEMMA FreeSlotFields ==
  /\ FreeSlot.kind = "free" /\ FreeSlot.thunk = FALSE /\ FreeSlot.foreign = FALSE
  /\ FreeSlot.chain = {} /\ FreeSlot.keep = 0 /\ FreeSlot.env = NoBindings
  /\ FreeSlot.f = Unbound /\ FreeSlot.g = Unbound
BY DEF FreeSlot

LEMMA SettledClos ==
  ASSUME NEW s, NEW h, NEW o, NEW c, NEW v, Settle(s, h, o, c, v),
         NEW n, StackOK(s, n), n <= MaxId + 1, RefsOK(h, o), ClosInv(s, h, o)
  PROVE  ClosInv(stack', heap', outer')
<1> DEFINE live == Live(s, h, o, Held(c, v))
<1>1. /\ stack' = s
      /\ live \in SUBSET Nodes /\ ClosedUnder(h, o, live)
      /\ Held(c, v) \cup Tokens(s) \cup FrameFns(s, 1 .. Len(s)) \subseteq live
      /\ \A f \in Fns : heap'[f] = IF f \in live THEN h[f] ELSE FreeSlot
      /\ \A t \in Ids : outer'[t] = IF t \in live THEN o[t] ELSE 0
      /\ RefsOK(heap', outer')
      /\ \A m \in live : References(heap', outer', m) = References(h, o, m)
      /\ \A m \in Nodes \ live : References(heap', outer', m) = {}
  BY SettledHeap
<1> HIDE DEF live
<1>2. \A from \in SUBSET live : Reachable(heap', outer', from) = Reachable(h, o, from)
  BY <1>1, SettledReach
<1>3. \A p \in 2 .. Len(s) : s[p].id \in Ids /\ s[p].id # 0
  BY FrameIds
<1>4. HeapShaped(heap')
  <2> SUFFICES ASSUME NEW f \in Fns
               PROVE  /\ heap'[f].kind = "lambda" => /\ heap'[f].f = Unbound /\ heap'[f].g = Unbound
                                                     /\ heap'[f].env[Param] = Unbound
                      /\ heap'[f].kind = "first" => ~ heap'[f].thunk
                      /\ heap'[f].kind = "comp" => heap'[f].chain = {} /\ heap'[f].keep = 0
                      /\ heap'[f].foreign => heap'[f].keep = 0
    BY DEF HeapShaped
  <2>1. heap'[f] = h[f] \/ heap'[f] = FreeSlot
    BY <1>1
  <2> QED
    BY <2>1, FreeSlotFields DEF ClosInv, HeapShaped
<1>5. TokensLinked(s, outer')
  <2> SUFFICES ASSUME NEW p \in 2 .. Len(s), s[p].token PROVE outer'[s[p].id] = o[s[p].id]
    BY DEF ClosInv, TokensLinked
  <2>1. s[p].id \in Tokens(s)
    BY DEF Tokens
  <2> QED
    BY <1>1, <1>3, <2>1
<1>6. TokensFound(s, heap', outer')
  <2> SUFFICES ASSUME NEW p \in 2 .. Len(s)
               PROVE  /\ \A f \in Fns : heap'[f].keep = s[p].id => s[p].token
                      /\ \A t \in Ids : outer'[t] = s[p].id => s[p].token
    BY DEF TokensFound
  <2>1. \A f \in Fns : heap'[f].keep \in {h[f].keep, 0}
    BY <1>1, FreeSlotFields
  <2>2. \A t \in Ids : outer'[t] \in {o[t], 0}
    BY <1>1
  <2> QED
    BY <1>3, <2>1, <2>2 DEF ClosInv, TokensFound
<1>7. \A f \in Fns \cap live : heap'[f] = h[f] /\ Kept(heap', outer', f) = Kept(h, o, f)
  <2> TAKE f \in Fns \cap live
  <2>1. heap'[f] = h[f]
    BY <1>1
  <2>2. {h[f].keep} \ {0} \subseteq live
    BY <1>1, KeptIs DEF ClosedUnder
  <2> QED
    BY <1>2, <2>1, <2>2 DEF Kept
<1>8. \A f \in Fns \ live : heap'[f] = FreeSlot /\ Kept(heap', outer', f) = {}
  <2> TAKE f \in Fns \ live
  <2>1. heap'[f] = FreeSlot
    BY <1>1
  <2>2. {heap'[f].keep} \ {0} = {}
    BY <2>1, FreeSlotFields
  <2> QED
    BY <1>1, <2>1, <2>2, ReachNone DEF Kept
<1>9. SeenKept(s, heap', outer')
  <2> SUFFICES ASSUME NEW f \in Fns, heap'[f].kind \in {"lambda", "first"}, ~ heap'[f].foreign,
                      NEW p \in StillOnStack(s, heap'[f].chain), s[p].tco
               PROVE  s[p].id \in Kept(heap', outer', f)
    BY DEF SeenKept
  <2>1. f \in live
    BY <1>8, FreeSlotFields
  <2> QED
    BY <1>7, <2>1 DEF ClosInv, SeenKept
<1>10. KeptSeen(s, heap', outer')
  BY <1>7, <1>8 DEF ClosInv, KeptSeen
<1>11. Acyclic(heap', outer')
  <2> SUFFICES ASSUME NEW f \in Fns
               PROVE  f \notin Reachable(heap', outer', References(heap', outer', f))
    BY DEF Acyclic
  <2>1. CASE f \in live
    <3>1. References(heap', outer', f) = References(h, o, f) /\ References(h, o, f) \subseteq live
      BY <1>1, <2>1 DEF ClosedUnder
    <3> QED
      BY <1>2, <3>1 DEF ClosInv, Acyclic
  <2>2. CASE f \notin live
    <3>1. References(heap', outer', f) = {}
      BY <1>1, <2>2 DEF Nodes
    <3> QED
      BY <1>1, <3>1, ReachNone
  <2> QED
    BY <2>1, <2>2
<1> QED
  BY <1>1, <1>4, <1>5, <1>6, <1>9, <1>10, <1>11 DEF ClosInv
-----------------------------------------------------------------------------
(***************************************************************************)
(* Popping frames and pushing one keeps it.                                *)
(***************************************************************************)
SamePlace(e, f) == f.id = e.id /\ f.barrier = e.barrier /\ f.tco = e.tco

SameFrame(e, f) == SamePlace(e, f) /\ f.token = e.token

\* The lowest frames of s, and above them perhaps a fresh one with the id n.
FramesFrom(s, t, n) ==
  /\ Len(t) \in Nat \ {0}
  /\ \A p \in 1 .. Len(t) :
       \/ p \in 1 .. Len(s) /\ SameFrame(s[p], t[p]) /\ Counted(t[p])
       \/ p = Len(t) /\ p > 1 /\ t[p].id = n /\ ~ t[p].token /\ Counted(t[p])

LEMMA NextTcoIs ==
  ASSUME NEW s, NEW n, StackOK(s, n), NEW p \in 2 .. Len(s)
  PROVE  /\ TcoPath(s, p) \in SUBSET (2 .. p)
         /\ \/ NextTcoId(s, p) = 0
            \/ \E q \in TcoPath(s, p) : q < p /\ NextTcoId(s, p) = s[q].id
<1> DEFINE further == TcoPath(s, p) \ {p}
<1>1. p \in 1 .. Len(s) /\ Len(s) \in Nat
  BY FrameIds
<1>2. TcoPath(s, p) \in SUBSET (1 .. p)
  BY <1>1, TcoPathIn
<1>3. TcoPath(s, p) \in SUBSET (2 .. p)
  BY <1>2 DEF TcoPath, Root
<1>4. NextTcoId(s, p) = IF further = {} THEN 0 ELSE s[Highest(further)].id
  BY DEF NextTcoId
<1>5. further # {} => Highest(further) \in further
  <2>1. further \in SUBSET (1 .. p) /\ p \in Nat
    BY <1>1, <1>2
  <2> HIDE DEF further
  <2> QED
    BY <2>1, HighestExists
<1>6. \A q \in further : q < p
  BY <1>1, <1>2
<1> QED
  BY <1>3, <1>4, <1>5, <1>6

LEMMA SameTcoPath ==
  ASSUME NEW s, NEW n, StackOK(s, n), NEW t, NEW p \in 1 .. Len(s),
         \A q \in 1 .. p : SamePlace(s[q], t[q])
  PROVE  TcoPath(t, p) = TcoPath(s, p) /\ NextTcoId(t, p) = NextTcoId(s, p)
<1>1. Path(t, p) = Path(s, p)
  BY PathAgree DEF SamePlace
<1>2. TcoPath(s, p) \in SUBSET (1 .. p) /\ Path(s, p) \in SUBSET (1 .. p)
  BY TcoPathIn, PathClosed DEF StackOK
<1>3. TcoPath(t, p) = TcoPath(s, p)
  BY <1>1, <1>2 DEF TcoPath, SamePlace
<1> DEFINE further == TcoPath(s, p) \ {p}
<1>4. NextTcoId(s, p) = IF further = {} THEN 0 ELSE s[Highest(further)].id
  BY DEF NextTcoId
<1>5. NextTcoId(t, p) = IF further = {} THEN 0 ELSE t[Highest(further)].id
  BY <1>3 DEF NextTcoId
<1>6. further # {} => Highest(further) \in 1 .. p
  <2>1. further \in SUBSET (1 .. p) /\ p \in Nat
    BY <1>2
  <2> HIDE DEF further
  <2> QED
    BY <2>1, HighestExists
<1> HIDE DEF further
<1> QED
  BY <1>3, <1>4, <1>5, <1>6 DEF SamePlace

LEMMA FramesKeep ==
  ASSUME NEW s, NEW n, StackOK(s, n), NEW h, HeapOK(h, s, n), NEW o, TokensBefore(h, o, n),
         ClosInv(s, h, o), NEW t, FramesFrom(s, t, n)
  PROVE  ClosInv(t, h, o)
<1>1. RefsOK(h, o) /\ h \in [Fns -> Closure] /\ n \in Nat
  BY RefsBefore DEF HeapOK, StackOK
<1> DEFINE Old(p) == p \in 1 .. Len(s) /\ SameFrame(s[p], t[p]) /\ Counted(t[p])
           New(p) == p = Len(t) /\ p > 1 /\ t[p].id = n /\ ~ t[p].token /\ Counted(t[p])
<1>2. Len(t) \in Nat \ {0} /\ \A p \in 1 .. Len(t) : Old(p) \/ New(p)
  BY DEF FramesFrom
<1>3. \A p \in 1 .. Len(t) : ~ New(p) => \A q \in 1 .. p : Old(q)
  <2> SUFFICES ASSUME NEW p \in 1 .. Len(t), ~ New(p), NEW q \in 1 .. p PROVE Old(q)
    OBVIOUS
  <2>1. q \in 1 .. Len(t) /\ (q = Len(t) => q = p)
    BY <1>2
  <2> HIDE DEF Old
  <2> QED
    BY <1>2, <2>1
<1>4. Old(Root)
  BY <1>2, <1>3 DEF Root
<1>5. TokensLinked(t, o)
  <2>1. ~ t[Root].token
    BY <1>4 DEF SameFrame, SamePlace, ClosInv, TokensLinked
  <2>2. ASSUME NEW p \in 2 .. Len(t), t[p].token
        PROVE  /\ t[p].tco /\ o[t[p].id] = NextTcoId(t, p)
               /\ \A q \in TcoPath(t, p) : t[q].token
    <3>1. p \in 1 .. Len(t) /\ ~ New(p)
      BY <1>2, <2>2
    <3> HIDE DEF New
    <3>2. \A q \in 1 .. p : Old(q)
      BY <1>3, <3>1
    <3>3. p \in 2 .. Len(s) /\ p \in 1 .. Len(s)
          /\ \A q \in 1 .. p : SameFrame(s[q], t[q]) /\ SamePlace(s[q], t[q])
      BY <1>2, <3>2 DEF SameFrame
    <3>4. TcoPath(t, p) = TcoPath(s, p) /\ NextTcoId(t, p) = NextTcoId(s, p)
          /\ TcoPath(s, p) \in SUBSET (2 .. p)
      BY <3>3, SameTcoPath, NextTcoIs
    <3>5. SameFrame(s[p], t[p]) /\ \A q \in TcoPath(s, p) : SameFrame(s[q], t[q])
      BY <3>3, <3>4
    <3>6. s[p].token
      BY <2>2, <3>5 DEF SameFrame, SamePlace
    <3>7. /\ s[p].tco /\ o[s[p].id] = NextTcoId(s, p)
          /\ \A q \in TcoPath(s, p) : s[q].token
      BY <3>3, <3>6 DEF ClosInv, TokensLinked
    <3> QED
      BY <3>4, <3>5, <3>7 DEF SameFrame, SamePlace
  <2> QED
    BY <2>1, <2>2 DEF TokensLinked
<1>6. TokensFound(t, h, o)
  <2> SUFFICES ASSUME NEW p \in 2 .. Len(t)
               PROVE  /\ \A f \in Fns : h[f].keep = t[p].id => t[p].token
                      /\ \A i \in Ids : o[i] = t[p].id => t[p].token
    BY DEF TokensFound
  <2>1. CASE Old(p)
    <3>1. p \in 2 .. Len(s)
      BY <2>1
    <3> QED
      BY <2>1, <3>1 DEF ClosInv, TokensFound, SameFrame, SamePlace
  <2>2. CASE New(p)
    <3>1. n \notin 0 .. n - 1
      BY <1>1
    <3>2. (\A f \in Fns : h[f].keep # n) /\ \A i \in Ids : o[i] # n
      BY <3>1 DEF TokensBefore
    <3> QED
      BY <2>2, <3>2
  <2>3. p \in 1 .. Len(t)
    BY <1>2
  <2> HIDE DEF Old, New
  <2> QED
    BY <1>2, <2>1, <2>2, <2>3
<1>7. SeenKept(t, h, o)
  <2> SUFFICES ASSUME NEW f \in Fns, h[f].kind \in {"lambda", "first"}, ~ h[f].foreign,
                      NEW p \in StillOnStack(t, h[f].chain), t[p].tco
               PROVE  t[p].id \in Kept(h, o, f)
    BY DEF SeenKept
  <2>1. p \in 2 .. Len(t) /\ <<p, t[p].id>> \in h[f].chain
    BY DEF StillOnStack
  <2>2. CASE Old(p)
    <3>1. p \in StillOnStack(s, h[f].chain) /\ s[p].tco
      BY <2>1, <2>2 DEF StillOnStack, SameFrame, SamePlace
    <3>2. s[p].id \in Kept(h, o, f)
      BY <3>1 DEF ClosInv, SeenKept
    <3> QED
      BY <2>2, <3>2 DEF SameFrame, SamePlace
  <2>3. CASE New(p)
    <3>1. ChainBefore(h[f].chain, n)
      BY DEF HeapOK
    <3>2. <<p, n>>[2] < n
      BY <2>1, <2>3, <3>1 DEF ChainBefore
    <3> QED
      BY <1>1, <3>2
  <2>4. p \in 1 .. Len(t)
    BY <1>2, <2>1
  <2> HIDE DEF Old, New
  <2> QED
    BY <1>2, <2>2, <2>3, <2>4
<1>8. KeptSeen(t, h, o)
  <2> SUFFICES ASSUME NEW f \in Fns, NEW p \in 2 .. Len(t), t[p].id \in Kept(h, o, f)
               PROVE  <<p, t[p].id>> \in h[f].chain
    BY DEF KeptSeen
  <2>1. CASE Old(p)
    <3>1. p \in 2 .. Len(s)
      BY <2>1
    <3> QED
      BY <2>1, <3>1 DEF ClosInv, KeptSeen, SameFrame, SamePlace
  <2>2. CASE New(p)
    BY <1>1, <2>2, KeptBefore
  <2>3. p \in 1 .. Len(t)
    BY <1>2
  <2> HIDE DEF Old, New
  <2> QED
    BY <1>2, <2>1, <2>2, <2>3
<1>9. CountsOK(t)
  BY <1>2 DEF CountsOK
<1> QED
  BY <1>5, <1>6, <1>7, <1>8, <1>9 DEF ClosInv
-----------------------------------------------------------------------------
(***************************************************************************)
(* Making closures keeps it.                                               *)
(***************************************************************************)
\* A frame whose token a closure keeps has its token.
LEMMA KeptTokened ==
  ASSUME NEW s, NEW h, NEW o, RefsOK(h, o), TokensFound(s, h, o),
         NEW f \in Fns, NEW p \in 2 .. Len(s), s[p].id \in Kept(h, o, f)
  PROVE  s[p].token
<1> DEFINE n == s[p].id
<1>1. {h[f].keep} \ {0} \in SUBSET Nodes /\ Kept(h, o, f) \in SUBSET Ids
  BY KeptIs
<1>2. n \in {h[f].keep} \ {0} \/ \E m \in Kept(h, o, f) : n \in References(h, o, m)
  BY <1>1, ReachReferrer DEF Kept
<1>3. ASSUME NEW m \in Kept(h, o, f), n \in References(h, o, m) PROVE m \in Ids /\ o[m] = n
  <2>1. m \in Ids /\ m \notin Fns
    BY <1>1, NodesFinite
  <2> QED
    BY <1>3, <2>1 DEF References
<1> QED
  BY <1>2, <1>3 DEF TokensFound

\* The trampoline frames in sight, after their tokens are made.
InSight == TcoPath(stack, Top(stack))

Sighted(s, o) ==
  /\ InSight \in SUBSET (2 .. Len(stack)) /\ InSight \subseteq Path(stack, Top(stack))
  /\ \A q \in InSight : /\ s[q].token /\ o[stack[q].id] = NextTcoId(stack, q)
                        /\ TcoPath(stack, q) = InSight \cap (1 .. q)
  /\ \A p \in 2 .. Len(stack) : s[p].token <=> stack[p].token \/ p \in InSight
  /\ \A t \in Ids : \/ o[t] = outer[t]
                    \/ \E q \in InSight : /\ ~ stack[q].token /\ stack[q].id = t
                                          /\ o[t] = NextTcoId(stack, q)
  /\ \A p \in 2 .. Len(stack) : stack[p].token => o[stack[p].id] = outer[stack[p].id]
  /\ ~ s[Root].token

LEMMA SightTokened ==
  ASSUME IInv, CallInv, ClosInv(stack, heap, outer), NEW s, Tokenises(s),
         NEW sight, sight = InSight, NEW o, o = OuterTokens(stack)
  PROVE  Sighted(s, o)
<1>a. sight = TcoPath(stack, Top(stack))
  BY DEF InSight
<1> DEFINE top == Top(stack)
           made == TokensMadeAt(stack, top)
<1>0. /\ StackOK(stack, nextId) /\ Grounded(stack) /\ top \in 1 .. Len(stack) /\ top = Len(stack)
      /\ Root \in 1 .. Len(stack) /\ Len(stack) \in Nat
  BY StackFacts DEF Top, Root
<1>1. /\ \A p \in 2 .. Len(stack) : stack[p].id # 0
      /\ \A p, q \in 1 .. Len(stack) : stack[p].id = stack[q].id => p = q
  BY <1>0, FrameIds
<1>2. sight \in SUBSET (2 .. Len(stack)) /\ sight \subseteq Path(stack, top)
  <2>1. Path(stack, top) \in SUBSET (1 .. top)
    BY <1>0, PathClosed
  <2> QED
    BY <1>a, <1>0, <2>1 DEF TcoPath, Root
<1>3. \A q \in sight : TcoPath(stack, q) = sight \cap (1 .. q)
  <2> TAKE q \in sight
  <2>1. Path(stack, q) = Path(stack, top) \cap (1 .. q)
    BY <1>a, <1>0, <1>2, PathInner
  <2> QED
    BY <1>a, <2>1 DEF TcoPath
<1>4. made = {q \in sight : \A r \in sight : r >= q => ~ stack[r].token}
  BY <1>a DEF TokensMadeAt
<1>5. \A q \in sight : q \in made \/ stack[q].token
  <2> SUFFICES ASSUME NEW q \in sight, NEW r \in sight, r >= q, stack[r].token
               PROVE  stack[q].token
    BY <1>4
  <2>1. q \in TcoPath(stack, r)
    BY <1>2, <1>3
  <2> QED
    BY <1>2, <2>1 DEF ClosInv, TokensLinked
<1>6. \A q \in made : q \in sight /\ ~ stack[q].token /\ q \in 2 .. Len(stack)
  <2> TAKE q \in made
  <2>1. q \in sight /\ q \in 2 .. Len(stack)
    BY <1>2, <1>4
  <2>2. q >= q
    BY <2>1
  <2> QED
    BY <1>4, <2>1, <2>2
<1>7. \A p \in 1 .. Len(stack) : s[p].token <=> stack[p].token \/ p \in made
  BY DEF Tokenises
<1>8. o = [t \in Ids |-> IF \E p \in made : stack[p].id = t
                         THEN NextTcoId(stack, CHOOSE p \in made : stack[p].id = t)
                         ELSE outer[t]]
  BY DEF OuterTokens
<1> HIDE DEF made, top
<1>9. \A t \in Ids, q \in made : stack[q].id = t => o[t] = NextTcoId(stack, q)
  <2> SUFFICES ASSUME NEW t \in Ids, NEW q \in made, stack[q].id = t
               PROVE  o[t] = NextTcoId(stack, q)
    OBVIOUS
  <2>1. (CHOOSE p \in made : stack[p].id = t) = q
    <3>1. \A p \in made : stack[p].id = t => p = q
      BY <1>1, <1>6
    <3> QED
      BY <3>1
  <2> QED
    BY <1>8, <2>1
<1>10. \A t \in Ids : (\A q \in made : stack[q].id # t) => o[t] = outer[t]
  BY <1>8
<1>11. \A p \in 2 .. Len(stack) : stack[p].id \in Ids
  BY <1>0, FrameIds DEF CallInv, TokensBefore
<1>12. \A p \in 2 .. Len(stack) : p \notin made => o[stack[p].id] = outer[stack[p].id]
  <2> TAKE p \in 2 .. Len(stack)
  <2> HAVE p \notin made
  <2>1. \A q \in made : stack[q].id # stack[p].id
    BY <1>1, <1>6
  <2> QED
    BY <1>10, <1>11, <2>1
<1>13. \A q \in sight : s[q].token /\ o[stack[q].id] = NextTcoId(stack, q)
  <2> TAKE q \in sight
  <2>1. q \in 2 .. Len(stack) /\ q \in 1 .. Len(stack)
    BY <1>2
  <2>2. CASE q \in made
    BY <1>7, <1>9, <1>11, <2>1, <2>2
  <2>3. CASE q \notin made
    <3>1. stack[q].token
      BY <1>5, <2>3
    <3> QED
      BY <1>7, <1>12, <2>1, <2>3, <3>1 DEF ClosInv, TokensLinked
  <2> QED
    BY <2>2, <2>3
<1>14. \A t \in Ids : \/ o[t] = outer[t]
                      \/ \E q \in sight : /\ ~ stack[q].token /\ stack[q].id = t
                                          /\ o[t] = NextTcoId(stack, q)
  BY <1>6, <1>9, <1>10
<1>15. \A p \in 2 .. Len(stack) : stack[p].token => o[stack[p].id] = outer[stack[p].id]
  BY <1>6, <1>12
<1>16. ~ s[Root].token
  BY <1>0, <1>6, <1>7 DEF ClosInv, TokensLinked, Root
<1>17. \A p \in 2 .. Len(stack) : s[p].token <=> stack[p].token \/ p \in sight
  <2> TAKE p \in 2 .. Len(stack)
  <2>1. p \in 1 .. Len(stack)
    OBVIOUS
  <2> QED
    BY <1>5, <1>6, <1>7, <2>1
<1> QED
  BY <1>2, <1>3, <1>13, <1>14, <1>15, <1>16, <1>17 DEF top, Sighted


\* The closures `new` are made, of those that there were before.
Adds(new, h, o) ==
  /\ new \in SUBSET Fns /\ RefsOK(h, o) /\ RefsOK(heap, outer)
  /\ h \in [Fns -> Closure]
  /\ \A f \in new : heap[f] = FreeSlot /\ MadeNow(new, h, f)
  /\ \A f \in Fns \ new : h[f] = heap[f] /\ References(h, o, f) = References(heap, outer, f)
  /\ ClosedUnder(h, o, (Fns \ new) \cup Ids)
  /\ \A f \in new : h[f].kind # "comp" => References(h, o, f) \subseteq (Fns \ new) \cup Ids

LEMMA MadeAdds ==
  ASSUME IInv, CallInv, NEW new, NEW h, NEW s, NEW v, Makes(new, h, s, v),
         NEW o, o = OuterTokens(stack)
  PROVE  Adds(new, h, o)
<1>1. /\ new \in SUBSET Fns /\ h \in [Fns -> Closure]
      /\ \A f \in new : f \in Fns /\ heap[f] = FreeSlot /\ MadeNow(new, h, f)
      /\ \A f \in Fns \ new : h[f] = heap[f]
  BY DEF Makes
<1>2. TokensBefore(heap, outer, nextId) /\ HeapAccounted(heap) /\ nextId \in Nat
      /\ heap \in [Fns -> Closure]
  BY StackFacts DEF CallInv, HeapOK
<1>3. RefsOK(heap, outer)
  BY <1>2, RefsBefore
<1>4. KeptAt(stack, Top(stack)) \in 0 .. MaxId /\ o \in [Ids -> 0 .. MaxId] /\ 0 \in 0 .. MaxId
  <2> DEFINE R == 0 .. nextId - 1
             M == 0 .. MaxId
  <2>1. KeptAt(stack, Top(stack)) \in R /\ o \in [Ids -> R]
    BY MadeTokens
  <2>2. R \subseteq M /\ 0 \in M
    BY <1>2, ClosuresAssumption DEF TokensBefore
  <2> HIDE DEF R, M
  <2>3. KeptAt(stack, Top(stack)) \in M /\ o \in [Ids -> M] /\ 0 \in M
    BY <2>1, <2>2
  <2> QED
    BY <2>3 DEF M
<1>5. RefsOK(h, o)
  <2> SUFFICES ASSUME NEW f \in Fns PROVE h[f].keep \in 0 .. MaxId
    BY <1>1, <1>4 DEF RefsOK
  <2>1. CASE f \in new
    BY <1>1, <1>4, <2>1 DEF MadeNow
  <2>2. CASE f \notin new
    BY <1>1, <1>3, <2>2 DEF RefsOK
  <2> QED
    BY <2>1, <2>2
<1>6. \A f \in Fns \ new : References(h, o, f) = References(heap, outer, f)
  BY <1>1 DEF References
<1>7. \A x \in Known(heap) \cup {Unbound} : x \in Fns => x \in Fns \ new
  <2>1. \A f \in new : heap[f].kind = "free"
    BY <1>1, FreeSlotFields
  <2>2. Unbound \notin Fns
    BY ValuesDistinct
  <2> QED
    BY <2>1, <2>2 DEF Known
<1>8. \A b : KnownBindings(b, heap) => BoundFns(b) \subseteq Fns \ new
  BY <1>7 DEF KnownBindings, BoundFns
<1>9. ASSUME NEW f \in Fns, KnownBindings(h[f].env, heap), h[f].f \in Known(heap) \cup {Unbound},
             h[f].g \in Known(heap) \cup {Unbound}
      PROVE  References(h, o, f) \subseteq (Fns \ new) \cup Ids
  <2>1. References(h, o, f) = BoundFns(h[f].env) \cup ({h[f].f, h[f].g} \cap Fns)
                               \cup ({h[f].keep} \ {0})
    BY DEF References
  <2>2. BoundFns(h[f].env) \subseteq Fns \ new /\ {h[f].f, h[f].g} \cap Fns \subseteq Fns \ new
    BY <1>7, <1>8, <1>9
  <2>3. {h[f].keep} \ {0} \subseteq Ids
    BY <1>5, KeptIs
  <2> QED
    BY <2>1, <2>2, <2>3
<1>10. \A f \in new : h[f].kind # "comp" => References(h, o, f) \subseteq (Fns \ new) \cup Ids
  BY <1>1, <1>9 DEF MadeNow
<1>11. ClosedUnder(h, o, (Fns \ new) \cup Ids)
  <2>1. ASSUME NEW f \in Fns \ new PROVE References(h, o, f) \subseteq (Fns \ new) \cup Ids
    BY <1>1, <1>2, <1>9 DEF HeapAccounted
  <2>2. ASSUME NEW t \in Ids PROVE References(h, o, t) \subseteq (Fns \ new) \cup Ids
    BY <1>5, RefsIn DEF Nodes
  <2> QED
    BY <2>1, <2>2 DEF ClosedUnder
<1> QED
  BY <1>1, <1>3, <1>5, <1>6, <1>10, <1>11 DEF Adds

\* Making closures makes no cycle: they refer to closures made before them.
LEMMA MadeAcyclic ==
  ASSUME CallInv, Acyclic(heap, outer), NEW new, NEW h, NEW o, Adds(new, h, o)
  PROVE  Acyclic(h, o)
<1> DEFINE old == (Fns \ new) \cup Ids
<1>1. /\ new \in SUBSET Fns /\ RefsOK(h, o) /\ RefsOK(heap, outer)
      /\ \A f \in new : heap[f] = FreeSlot /\ MadeNow(new, h, f)
      /\ \A f \in Fns \ new : h[f] = heap[f] /\ References(h, o, f) = References(heap, outer, f)
      /\ ClosedUnder(h, o, old)
      /\ \A f \in new : h[f].kind # "comp" => References(h, o, f) \subseteq old
  BY DEF Adds
<1>2. Fns \cap Ids = {} /\ old \in SUBSET Nodes /\ Nodes = Fns \cup Ids
  BY NodesFinite, <1>1 DEF Nodes
<1> HIDE DEF old
<1>3. SUFFICES ASSUME NEW f \in Fns PROVE f \notin Reachable(h, o, References(h, o, f))
  BY DEF Acyclic
<1>4. f \in Nodes /\ References(h, o, f) \in SUBSET Nodes
  BY <1>1, RefsIn DEF Nodes
<1>5. ASSUME NEW Z \in SUBSET Nodes, References(h, o, f) \subseteq Z, ClosedUnder(h, o, Z), f \notin Z
      PROVE  f \notin Reachable(h, o, References(h, o, f))
  BY <1>1, <1>4, <1>5, ReachableIs
<1>6. CASE f \notin new
  <2> DEFINE R == Reachable(heap, outer, References(heap, outer, f))
             Z == (R \cap old) \cup Ids
  <2>1. /\ References(heap, outer, f) = References(h, o, f) /\ f \in old
        /\ References(h, o, f) \subseteq old
    <3>1. f \in old
      BY <1>6 DEF old
    <3> QED
      BY <1>1, <1>6, <3>1 DEF ClosedUnder
  <2>2. References(heap, outer, f) \in SUBSET Nodes
    BY <1>4, <2>1
  <2>3. R \in SUBSET Nodes /\ References(h, o, f) \subseteq R /\ ClosedUnder(heap, outer, R)
    BY <1>1, <2>1, <2>2, ReachableIs
  <2>4. f \notin R
    BY DEF Acyclic
  <2> HIDE DEF R
  <2>5. ASSUME NEW m \in Z PROVE References(h, o, m) \subseteq Z
    <3>1. CASE m \in Ids
      <4>1. m \in Nodes
        BY <1>2, <3>1
      <4> QED
        BY <1>1, <3>1, <4>1, RefsIn
    <3>2. CASE m \notin Ids
      <4>1. m \in R /\ m \in old /\ m \in Fns \ new
        BY <3>2, <2>5 DEF old
      <4>2. References(h, o, m) \subseteq R /\ References(h, o, m) \subseteq old
        BY <1>1, <2>3, <4>1 DEF ClosedUnder
      <4> QED
        BY <4>2
    <3> QED
      BY <3>1, <3>2
  <2>6. ClosedUnder(h, o, Z)
    BY <2>5 DEF ClosedUnder
  <2>7. Z \in SUBSET Nodes /\ References(h, o, f) \subseteq Z /\ f \notin Z
    BY <1>2, <2>1, <2>3, <2>4
  <2> HIDE DEF Z
  <2> QED
    BY <1>5, <2>6, <2>7
<1>7. CASE f \in new /\ h[f].kind # "comp"
  <2>1. f \notin old
    BY <1>2, <1>7 DEF old
  <2> QED
    BY <1>1, <1>2, <1>5, <1>7, <2>1
<1>8. CASE f \in new /\ h[f].kind = "comp"
  <2> DEFINE Z == old \cup {e \in new : h[e].kind = "first"}
  <2>1. MadeNow(new, h, f) /\ f \notin Z
    BY <1>1, <1>2, <1>8 DEF old
  <2>2. ClosedUnder(h, o, Z) /\ Z \in SUBSET Nodes
    BY <1>1, <1>2 DEF ClosedUnder
  <2>3. References(h, o, f) = BoundFns(h[f].env) \cup ({h[f].f, h[f].g} \cap Fns)
                               \cup ({h[f].keep} \ {0})
    BY DEF References
  <2>4. \A x \in Known(heap) \cup {Unbound} : x \in Fns => x \in old
    <3>1. \A e \in new : heap[e].kind = "free"
      BY <1>1, FreeSlotFields
    <3>2. Unbound \notin Fns
      BY ValuesDistinct
    <3> QED
      BY <3>1, <3>2 DEF Known, old
  <2>5. BoundFns(h[f].env) \subseteq old
    BY <2>1, <2>4 DEF MadeNow, KnownBindings, BoundFns
  <2>6. {h[f].f, h[f].g} \cap Fns \subseteq Z
    BY <2>1, <2>4 DEF MadeNow
  <2>7. {h[f].keep} \ {0} = {}
    BY <1>8, <2>1 DEF MadeNow
  <2>8. References(h, o, f) \subseteq Z
    BY <2>3, <2>5, <2>6, <2>7
  <2> HIDE DEF Z
  <2> QED
    BY <1>5, <2>1, <2>2, <2>8
<1> QED
  BY <1>6, <1>7, <1>8

LEMMA MadeLinked ==
  ASSUME IInv, ClosInv(stack, heap, outer), NEW s, Tokenises(s), NEW o, Sighted(s, o)
  PROVE  TokensLinked(s, o)
<1>0. /\ StackOK(stack, nextId) /\ Len(s) = Len(stack) /\ Len(stack) \in Nat
      /\ \A p \in 1 .. Len(stack) : SamePlace(stack[p], s[p])
  BY StackFacts DEF Tokenises, SamePlace
<1>1. /\ InSight \in SUBSET (2 .. Len(stack))
      /\ \A q \in InSight : /\ s[q].token /\ o[stack[q].id] = NextTcoId(stack, q)
                            /\ TcoPath(stack, q) = InSight \cap (1 .. q)
      /\ \A p \in 2 .. Len(stack) : s[p].token <=> stack[p].token \/ p \in InSight
      /\ \A p \in 2 .. Len(stack) : stack[p].token => o[stack[p].id] = outer[stack[p].id]
      /\ ~ s[Root].token
  BY DEF Sighted
<1>2. ASSUME NEW p \in 2 .. Len(s), s[p].token
      PROVE  s[p].tco /\ o[s[p].id] = NextTcoId(s, p) /\ \A q \in TcoPath(s, p) : s[q].token
  <2>1. p \in 2 .. Len(stack) /\ p \in 1 .. Len(stack) /\ \A q \in 1 .. p : SamePlace(stack[q], s[q])
    BY <1>0
  <2>2. TcoPath(s, p) = TcoPath(stack, p) /\ NextTcoId(s, p) = NextTcoId(stack, p)
        /\ TcoPath(stack, p) \in SUBSET (2 .. p)
    BY <1>0, <2>1, SameTcoPath, NextTcoIs
  <2>3. s[p].id = stack[p].id /\ s[p].tco = stack[p].tco
    BY <2>1 DEF SamePlace
  <2>4. CASE p \in InSight
    <3>1. stack[p].tco
      BY <2>4 DEF InSight, TcoPath
    <3> QED
      BY <1>1, <2>2, <2>3, <2>4, <3>1
  <2>5. CASE stack[p].token
    <3>1. /\ stack[p].tco /\ outer[stack[p].id] = NextTcoId(stack, p)
          /\ \A q \in TcoPath(stack, p) : stack[q].token
      BY <2>1, <2>5 DEF ClosInv, TokensLinked
    <3>2. \A q \in TcoPath(stack, p) : s[q].token
      <4> TAKE q \in TcoPath(stack, p)
      <4>1. q \in 2 .. Len(stack)
        BY <1>0, <2>1, <2>2
      <4> QED
        BY <1>1, <3>1, <4>1
    <3> QED
      BY <1>1, <2>1, <2>2, <2>3, <2>5, <3>1, <3>2
  <2> QED
    BY <1>1, <1>2, <2>1, <2>4, <2>5
<1> QED
  BY <1>1, <1>2 DEF TokensLinked

LEMMA MadeFound ==
  ASSUME IInv, ClosInv(stack, heap, outer), NEW new, NEW h, NEW s, Tokenises(s),
         NEW o, Sighted(s, o), Adds(new, h, o)
  PROVE  TokensFound(s, h, o)
<1>0. /\ StackOK(stack, nextId) /\ Len(s) = Len(stack) /\ Len(stack) \in Nat
      /\ \A p \in 1 .. Len(stack) : s[p].id = stack[p].id
  BY StackFacts DEF Tokenises
<1>1. /\ InSight \in SUBSET (2 .. Len(stack))
      /\ \A q \in InSight : s[q].token /\ TcoPath(stack, q) = InSight \cap (1 .. q)
      /\ \A p \in 2 .. Len(stack) : s[p].token <=> stack[p].token \/ p \in InSight
      /\ \A t \in Ids : o[t] = outer[t] \/ \E q \in InSight : o[t] = NextTcoId(stack, q)
  BY DEF Sighted
<1>2. /\ \A p \in 2 .. Len(stack) : stack[p].id # 0
      /\ \A p, q \in 1 .. Len(stack) : stack[p].id = stack[q].id => p = q
  BY <1>0, FrameIds
<1>3. SUFFICES ASSUME NEW p \in 2 .. Len(stack)
               PROVE  /\ \A f \in Fns : h[f].keep = stack[p].id => s[p].token
                      /\ \A t \in Ids : o[t] = stack[p].id => s[p].token
  BY <1>0 DEF TokensFound
<1>4. p \in 1 .. Len(stack) /\ stack[p].id # 0
  BY <1>2
<1>5. ASSUME NEW f \in Fns, h[f].keep = stack[p].id PROVE s[p].token
  <2>1. CASE f \notin new
    <3>1. heap[f].keep = stack[p].id
      BY <1>5, <2>1 DEF Adds
    <3> QED
      BY <1>1, <3>1 DEF ClosInv, TokensFound
  <2>2. CASE f \in new
    <3>1. MadeNow(new, h, f)
      BY <2>2 DEF Adds
    <3>2. h[f].keep = KeptAt(stack, Top(stack))
      BY <1>4, <1>5, <3>1 DEF MadeNow
    <3>3. KeptAt(stack, Top(stack)) = IF InSight = {} THEN 0 ELSE stack[Highest(InSight)].id
      BY DEF KeptAt, InSight
    <3>4. InSight # {}
      BY <1>4, <1>5, <3>2, <3>3
    <3>5. Highest(InSight) \in InSight
      <4>1. InSight \in SUBSET (1 .. Len(stack))
        BY <1>1
      <4> QED
        BY <1>0, <3>4, <4>1, HighestExists
    <3>6. p = Highest(InSight)
      <4> DEFINE high == Highest(InSight)
      <4>1. high \in InSight /\ InSight \in SUBSET (2 .. Len(stack)) /\ stack[p].id = stack[high].id
        BY <1>1, <1>5, <3>2, <3>3, <3>4, <3>5
      <4> HIDE DEF high
      <4>2. high \in 1 .. Len(stack)
        BY <4>1
      <4>3. p = high
        BY <1>2, <1>4, <4>1, <4>2
      <4> QED
        BY <4>3 DEF high
    <3> QED
      BY <1>1, <3>5, <3>6
  <2> QED
    BY <2>1, <2>2
<1>6. ASSUME NEW t \in Ids, o[t] = stack[p].id PROVE s[p].token
  <2>1. CASE o[t] = outer[t]
    BY <1>1, <1>6, <2>1 DEF ClosInv, TokensFound
  <2>2. ASSUME NEW q \in InSight, o[t] = NextTcoId(stack, q) PROVE s[p].token
    <3>1. q \in 2 .. Len(stack)
      BY <1>1
    <3>2. PICK r \in TcoPath(stack, q) : NextTcoId(stack, q) = stack[r].id
      BY <1>0, <1>4, <1>6, <2>2, <3>1, NextTcoIs
    <3>3. r \in InSight /\ r \in 1 .. Len(stack)
      BY <1>1, <3>2
    <3>4. p = r
      BY <1>2, <1>4, <1>6, <2>2, <3>2, <3>3
    <3> QED
      BY <1>1, <3>3, <3>4
  <2> QED
    BY <1>1, <2>1, <2>2
<1> QED
  BY <1>5, <1>6

\* A closure made before keeps what it kept.
LEMMA OldKept ==
  ASSUME IInv, ClosInv(stack, heap, outer), NEW new, NEW h, NEW s, NEW o, Sighted(s, o),
         Adds(new, h, o), NEW f \in Fns \ new
  PROVE  Kept(h, o, f) = Kept(heap, outer, f)
<1> DEFINE from == {heap[f].keep} \ {0}
<1>1. RefsOK(heap, outer) /\ RefsOK(h, o) /\ h[f] = heap[f]
  BY DEF Adds
<1>2. from \in SUBSET Nodes /\ Kept(heap, outer, f) \in SUBSET Ids
  BY <1>1, KeptIs
<1>3. ASSUME NEW n \in Kept(heap, outer, f) PROVE o[n] = outer[n]
  <2>1. n \in Ids
    BY <1>2
  <2>2. SUFFICES ASSUME NEW q \in InSight, ~ stack[q].token, stack[q].id = n PROVE FALSE
    BY <2>1 DEF Sighted
  <2>3. q \in 2 .. Len(stack) /\ TokensFound(stack, heap, outer)
    BY DEF Sighted, ClosInv
  <2>4. stack[q].id \in Kept(heap, outer, f)
    BY <2>2
  <2> QED
    BY <1>1, <2>2, <2>3, <2>4, KeptTokened
<1>4. \A n \in Kept(heap, outer, f) : References(h, o, n) = References(heap, outer, n)
  BY <1>2, <1>3, NodesFinite DEF References
<1>5. Kept(heap, outer, f) = Reachable(heap, outer, from) /\ Kept(h, o, f) = Reachable(h, o, from)
  BY <1>1 DEF Kept
<1> HIDE DEF from
<1> QED
  BY <1>1, <1>2, <1>4, <1>5, ReachableAgrees

\* A closure made here keeps the trampoline frames in sight.
LEMMA NewKept ==
  ASSUME IInv, CallInv, NEW new, NEW h, NEW s, NEW o, Sighted(s, o), Adds(new, h, o),
         NEW f \in new
  PROVE  /\ h[f].kind # "comp" => Kept(h, o, f) = {stack[q].id : q \in InSight}
         /\ h[f].kind = "comp" => Kept(h, o, f) = {}
<1>0. /\ StackOK(stack, nextId) /\ Len(stack) \in Nat
      /\ \A p, q \in 1 .. Len(stack) : stack[p].id = stack[q].id => p = q
      /\ \A p \in 2 .. Len(stack) : stack[p].id \in Ids /\ stack[p].id # 0
  <2>1. StackOK(stack, nextId) /\ nextId <= MaxId + 1
    BY StackFacts DEF CallInv, TokensBefore
  <2> QED
    BY <2>1, FrameIds, StackFacts
<1>1. /\ InSight \in SUBSET (2 .. Len(stack)) /\ InSight \in SUBSET (1 .. Len(stack))
      /\ \A q \in InSight : o[stack[q].id] = NextTcoId(stack, q) /\ TcoPath(stack, q) = InSight \cap (1 .. q)
  BY <1>0 DEF Sighted
<1>2. MadeNow(new, h, f) /\ RefsOK(h, o) /\ f \in Fns
  BY DEF Adds
<1> DEFINE K == Kept(h, o, f)
           Z == {stack[q].id : q \in InSight}
<1>3. h[f].kind = "comp" => K = {}
  <2>1. h[f].kind = "comp" => {h[f].keep} \ {0} = {}
    BY <1>2 DEF MadeNow
  <2> QED
    BY <1>2, <2>1, ReachNone DEF Kept
<1>4. KeptAt(stack, Top(stack)) = IF InSight = {} THEN 0 ELSE stack[Highest(InSight)].id
  BY DEF KeptAt, InSight
<1>5. SUFFICES ASSUME h[f].kind # "comp" PROVE K = Z
  BY <1>3
<1>6. h[f].keep = KeptAt(stack, Top(stack))
  BY <1>2, <1>5 DEF MadeNow
<1>7. /\ {h[f].keep} \ {0} \in SUBSET Nodes /\ {h[f].keep} \ {0} \subseteq K
      /\ K \in SUBSET Ids /\ ClosedUnder(h, o, K)
  BY <1>2, KeptIs, ReachableIs DEF Kept
<1>8. CASE InSight = {}
  <2>1. {h[f].keep} \ {0} = {} /\ Z = {}
    BY <1>4, <1>6, <1>8
  <2> QED
    BY <1>2, <2>1, ReachNone DEF Kept
<1>9. CASE InSight # {}
  <2>1. Highest(InSight) \in InSight /\ \A q \in InSight : q <= Highest(InSight)
    BY <1>0, <1>1, <1>9, HighestExists
  <2>2. h[f].keep = stack[Highest(InSight)].id
    BY <1>4, <1>6, <1>9
  <2>3. \A q \in InSight : stack[q].id \in Ids /\ stack[q].id # 0 /\ stack[q].id \notin Fns
    BY <1>0, <1>1, NodesFinite
  <2>4. \A q \in InSight : References(h, o, stack[q].id) = {NextTcoId(stack, q)} \ {0}
    BY <1>1, <2>3 DEF References
  <2>5. \A q \in InSight : NextTcoId(stack, q) # 0 => NextTcoId(stack, q) \in Z
    <3> TAKE q \in InSight
    <3>1. q \in 2 .. Len(stack)
      BY <1>1
    <3>2. NextTcoId(stack, q) = 0 \/ \E r \in TcoPath(stack, q) : NextTcoId(stack, q) = stack[r].id
      BY <1>0, <3>1, NextTcoIs
    <3> QED
      BY <1>1, <3>2
  <2>6. K \subseteq Z
    <3>1. Z \in SUBSET Nodes /\ {h[f].keep} \ {0} \subseteq Z
      BY <2>1, <2>2, <2>3 DEF Nodes
    <3>2. ClosedUnder(h, o, Z)
      BY <2>4, <2>5 DEF ClosedUnder
    <3>3. K = Reachable(h, o, {h[f].keep} \ {0})
      BY DEF Kept
    <3> HIDE DEF K, Z
    <3> QED
      BY <1>2, <1>7, <3>1, <3>2, <3>3, ReachableIs
  <2>7. Z \subseteq K
    <3> DEFINE Bad == {q \in InSight : stack[q].id \notin K}
               b == Highest(Bad)
    <3>1. SUFFICES ASSUME Bad # {} PROVE FALSE
      OBVIOUS
    <3>2. Bad \in SUBSET (1 .. Len(stack)) /\ Bad \subseteq InSight
      BY <1>1
    <3>3. stack[Highest(InSight)].id \in K
      BY <1>7, <2>1, <2>2, <2>3
    <3>4. \A q \in InSight : q \notin Bad => stack[q].id \in K
      OBVIOUS
    <3>5. \A q \in Bad : stack[q].id \notin K
      OBVIOUS
    <3> HIDE DEF Bad, K
    <3>6. b \in Bad /\ \A q \in Bad : q <= b
      BY <1>0, <3>1, <3>2, HighestExists
    <3> DEFINE Above == {r \in InSight : r > b}
    <3> HIDE DEF b
    <3>7. Highest(InSight) \in Above
      <4>1. Highest(InSight) # b /\ b \in InSight /\ b \in 1 .. Len(stack)
        BY <3>2, <3>3, <3>5, <3>6
      <4>2. Highest(InSight) \in 1 .. Len(stack) /\ b <= Highest(InSight)
        BY <1>1, <2>1, <4>1
      <4> QED
        BY <2>1, <4>1, <4>2
    <3>8. Above \in SUBSET Nat /\ Above # {}
      <4>1. \A i \in 1 .. Len(stack) : i \in Nat
        OBVIOUS
      <4>2. \A i \in InSight : i \in Nat
        BY <1>1, <4>1
      <4> QED
        BY <3>7, <4>2
    <3>9. PICK r \in Above : \A y \in Above : r <= y
      <4> HIDE DEF Above
      <4> QED
        BY <3>8, LeastExists
    <3>10. r \in InSight /\ r > b /\ b \in InSight /\ r \in 2 .. Len(stack) /\ b \in 2 .. Len(stack)
      BY <1>1, <3>2, <3>6, <3>9
    <3>11. stack[r].id \in K
      BY <3>4, <3>6, <3>10
    <3> DEFINE further == TcoPath(stack, r) \ {r}
    <3>12. b \in further /\ \A q \in further : q <= b
      <4>1. further = {q \in InSight : q < r}
        <5>1. \A q \in 1 .. Len(stack) : q \in 1 .. r /\ q # r <=> q < r
          BY <3>10
        <5>2. \A q \in InSight : q \in 1 .. r /\ q # r <=> q < r
          BY <1>1, <5>1
        <5>3. TcoPath(stack, r) = InSight \cap (1 .. r)
          BY <1>1, <3>10
        <5> QED
          BY <5>2, <5>3
      <4>2. ASSUME NEW q \in InSight, q < r PROVE q <= b
        <5>1. q \in 2 .. Len(stack)
          BY <1>1
        <5>2. q \notin Above
          BY <3>9, <3>10, <4>2, <5>1
        <5> QED
          BY <3>10, <5>1, <5>2
      <4> QED
        BY <3>10, <4>1, <4>2
    <3>13. NextTcoId(stack, r) = stack[b].id
      <4>1. NextTcoId(stack, r) = IF further = {} THEN 0 ELSE stack[Highest(further)].id
        BY DEF NextTcoId
      <4>2. further \in SUBSET (1 .. Len(stack))
        BY <1>1, <3>10
      <4> HIDE DEF further
      <4>3. Highest(further) \in further /\ \A q \in further : q <= Highest(further)
        BY <1>0, <3>12, <4>2, HighestExists
      <4>4. Highest(further) = b
        <5>1. Highest(further) <= b /\ b <= Highest(further)
          BY <3>12, <4>3
        <5>2. Highest(further) \in Nat /\ b \in Nat
          <6>1. Highest(further) \in 1 .. Len(stack)
            BY <4>2, <4>3
          <6> QED
            BY <3>10, <6>1
        <5> QED
          BY <5>1, <5>2
      <4> QED
        BY <3>12, <4>1, <4>4
    <3>14. stack[b].id \in K
      <4>1. References(h, o, stack[r].id) = {stack[b].id} \ {0}
        BY <2>4, <3>10, <3>13
      <4> QED
        BY <1>7, <2>3, <3>10, <3>11, <4>1 DEF ClosedUnder
    <3> QED
      BY <3>5, <3>6, <3>14
  <2> QED
    BY <2>6, <2>7
<1> QED
  BY <1>8, <1>9

LEMMA MadeClos ==
  ASSUME IInv, CallInv, ClosInv(stack, heap, outer), NEW new, NEW h, NEW s, Tokenises(s),
         NEW o, Sighted(s, o), Adds(new, h, o)
  PROVE  ClosInv(s, h, o)
<1>0. /\ StackOK(stack, nextId) /\ Len(s) = Len(stack) /\ Len(stack) \in Nat
      /\ \A p \in 1 .. Len(stack) : s[p].id = stack[p].id /\ s[p].tco = stack[p].tco
      /\ \A p, q \in 1 .. Len(stack) : stack[p].id = stack[q].id => p = q
      /\ InSight \in SUBSET (2 .. Len(stack))
  BY StackFacts, FrameIds DEF Tokenises, Sighted
<1>1. /\ RefsOK(h, o) /\ new \in SUBSET Fns
      /\ \A f \in new : MadeNow(new, h, f)
      /\ \A f \in Fns \ new : h[f] = heap[f]
  BY DEF Adds
<1>2. TokensLinked(s, o)
  BY MadeLinked
<1>3. TokensFound(s, h, o)
  BY MadeFound
<1>4. Acyclic(h, o)
  BY MadeAcyclic DEF ClosInv
<1>5. HeapShaped(h)
  <2> SUFFICES ASSUME NEW f \in Fns
               PROVE  /\ h[f].kind = "lambda" => /\ h[f].f = Unbound /\ h[f].g = Unbound
                                                 /\ h[f].env[Param] = Unbound
                      /\ h[f].kind = "first" => ~ h[f].thunk
                      /\ h[f].kind = "comp" => h[f].chain = {} /\ h[f].keep = 0
                      /\ h[f].foreign => h[f].keep = 0
    BY DEF HeapShaped
  <2>1. CASE f \in new
    BY <1>1, <2>1 DEF MadeNow
  <2>2. CASE f \notin new
    BY <1>1, <2>2 DEF ClosInv, HeapShaped
  <2> QED
    BY <2>1, <2>2
<1>6. CountsOK(s)
  <2> SUFFICES ASSUME NEW p \in 1 .. Len(s) PROVE Counted(s[p])
    BY DEF CountsOK
  <2>1. s[p].seenAt = stack[p].seenAt /\ p \in 1 .. Len(stack)
    BY <1>0 DEF Tokenises
  <2> QED
    BY <2>1 DEF ClosInv, CountsOK, Counted
<1>7. \A q \in InSight : <<q, stack[q].id>> \in Chain(stack)
  BY DEF InSight, TcoPath, Chain
<1>8. \A chain : StillOnStack(s, chain) = StillOnStack(stack, chain)
  BY <1>0 DEF StillOnStack
<1>9. SeenKept(s, h, o)
  <2> SUFFICES ASSUME NEW f \in Fns, h[f].kind \in {"lambda", "first"}, ~ h[f].foreign,
                      NEW p \in StillOnStack(s, h[f].chain), s[p].tco
               PROVE  s[p].id \in Kept(h, o, f)
    BY DEF SeenKept
  <2>1. p \in 2 .. Len(stack) /\ p \in 1 .. Len(stack) /\ <<p, stack[p].id>> \in h[f].chain
        /\ stack[p].tco /\ s[p].id = stack[p].id /\ p \in StillOnStack(stack, h[f].chain)
    BY <1>0, <1>8 DEF StillOnStack
  <2>2. CASE f \notin new
    <3>1. Kept(h, o, f) = Kept(heap, outer, f)
      BY <2>2, OldKept
    <3>2. stack[p].id \in Kept(heap, outer, f)
      BY <1>1, <2>1, <2>2 DEF ClosInv, SeenKept
    <3> QED
      BY <2>1, <3>1, <3>2
  <2>3. CASE f \in new
    <3>1. h[f].chain = Chain(stack) /\ h[f].kind # "comp"
      BY <1>1, <2>3 DEF MadeNow
    <3>2. Kept(h, o, f) = {stack[q].id : q \in InSight}
      BY <2>3, <3>1, NewKept
    <3>3. p \in InSight
      BY <1>0, <2>1, <3>1 DEF Chain, InSight, TcoPath
    <3> QED
      BY <2>1, <3>2, <3>3
  <2> QED
    BY <2>2, <2>3
<1>10. KeptSeen(s, h, o)
  <2> SUFFICES ASSUME NEW f \in Fns, NEW p \in 2 .. Len(s), s[p].id \in Kept(h, o, f)
               PROVE  <<p, s[p].id>> \in h[f].chain
    BY DEF KeptSeen
  <2>1. p \in 2 .. Len(stack) /\ p \in 1 .. Len(stack) /\ s[p].id = stack[p].id
    BY <1>0
  <2>2. CASE f \notin new
    <3>1. Kept(h, o, f) = Kept(heap, outer, f)
      BY <2>2, OldKept
    <3> QED
      BY <1>1, <2>1, <2>2, <3>1 DEF ClosInv, KeptSeen
  <2>3. CASE f \in new
    <3>1. h[f].kind # "comp"
      BY <2>3, NewKept
    <3>2. PICK q \in InSight : stack[p].id = stack[q].id
      BY <2>1, <2>3, <3>1, NewKept
    <3>3. p = q
      <4>1. q \in 1 .. Len(stack)
        BY <1>0
      <4> QED
        BY <1>0, <2>1, <3>2, <4>1
    <3>4. h[f].chain = Chain(stack)
      BY <1>1, <2>3, <3>1 DEF MadeNow
    <3> QED
      BY <1>7, <2>1, <3>3, <3>4
  <2> QED
    BY <2>2, <2>3
<1> QED
  BY <1>2, <1>3, <1>4, <1>5, <1>6, <1>9, <1>10 DEF ClosInv

\* A step that makes closures.
LEMMA MakesClos ==
  ASSUME IInv, CallInv, ClosInv(stack, heap, outer), IInv',
         NEW new, NEW h, NEW s, NEW v, Makes(new, h, s, v)
  PROVE  ClosInv(stack, heap, outer)'
<1> DEFINE o == OuterTokens(stack)
<1>1. Tokenises(s) /\ Settle(s, h, o, ctl, v) /\ nextId' = nextId
  BY DEF Makes
<1>2. Adds(new, h, o)
  BY MadeAdds
<1>3. Sighted(s, o)
  BY <1>1, SightTokened
<1> HIDE DEF o
<1>4. ClosInv(s, h, o) /\ RefsOK(h, o)
  BY <1>1, <1>2, <1>3, MadeClos DEF Adds
<1>5. StackOK(s, nextId) /\ nextId <= MaxId + 1
  <2>1. stack' = s
    BY <1>1 DEF Settle
  <2> QED
    BY <1>1, <2>1, StackNow DEF CallInv, TokensBefore
<1> QED
  BY <1>1, <1>4, <1>5, SettledClos
-----------------------------------------------------------------------------
(***************************************************************************)
(* The other steps keep it.                                                *)
(***************************************************************************)
LEMMA NarrowsClos ==
  ASSUME IInv, CallInv, ClosInv(stack, heap, outer), IInv',
         NEW k, NEW s, NEW c, NEW v, Narrows(k, s, c, v)
  PROVE  ClosInv(stack, heap, outer)'
<1>1. /\ k \in 1 .. Len(stack) /\ OnlyBindings(Cut(stack, k), s)
      /\ Settle(s, heap, outer, c, v) /\ nextId' = nextId
  BY DEF Narrows
<1>2. /\ StackOK(stack, nextId) /\ HeapOK(heap, stack, nextId) /\ TokensBefore(heap, outer, nextId)
      /\ stack \in Seq(Frame) /\ Len(stack) \in Nat \ {0}
  BY StackFacts DEF CallInv
<1>3. Len(Cut(stack, k)) = k /\ \A p \in 1 .. k : Cut(stack, k)[p] = stack[p]
  <2>1. k \in 0 .. Len(stack)
    BY <1>1, <1>2
  <2> QED
    BY <1>2, <2>1, CutFrames
<1>4. FramesFrom(stack, s, nextId)
  <2>1. Len(s) = k /\ Len(s) \in Nat \ {0}
    BY <1>1, <1>3 DEF OnlyBindings
  <2>2. ASSUME NEW p \in 1 .. Len(s)
        PROVE  p \in 1 .. Len(stack) /\ SameFrame(stack[p], s[p]) /\ Counted(s[p])
    <3>1. p \in 1 .. k /\ p \in 1 .. Len(stack)
      BY <1>1, <1>2, <2>1
    <3>2. SameFrame(stack[p], s[p]) /\ s[p].seenAt = stack[p].seenAt
      BY <1>1, <1>3, <3>1 DEF OnlyBindings, SameFrame, SamePlace
    <3> QED
      BY <3>1, <3>2 DEF ClosInv, CountsOK, Counted
  <2> QED
    BY <2>1, <2>2 DEF FramesFrom
<1>5. ClosInv(s, heap, outer)
  BY <1>2, <1>4, FramesKeep
<1>6. StackOK(s, nextId) /\ nextId <= MaxId + 1 /\ RefsOK(heap, outer)
  <2>1. stack' = s
    BY <1>1 DEF Settle
  <2>2. StackOK(s, nextId) /\ nextId <= MaxId + 1
    BY <1>1, <1>2, <2>1, StackNow DEF TokensBefore
  <2>3. heap \in [Fns -> Closure] /\ nextId \in Nat
    BY <1>2, StackFacts DEF HeapOK
  <2> QED
    BY <1>2, <2>2, <2>3, RefsBefore
<1> QED
  BY <1>1, <1>5, <1>6, SettledClos

LEMMA PushesClos ==
  ASSUME IInv, CallInv, ClosInv(stack, heap, outer), IInv',
         NEW f, NEW at, NEW c, Pushes(f, at, c)
  PROVE  ClosInv(stack, heap, outer)'
<1> DEFINE s == Append(stack, f)
<1>1. /\ f \in Frame /\ f.id = nextId /\ Fresh(f)
      /\ Settle(s, heap, outer, c, Data) /\ nextId' = nextId + 1 /\ nextId <= MaxId
  BY DEF Pushes, Fresh
<1>2. /\ StackOK(stack, nextId) /\ HeapOK(heap, stack, nextId) /\ TokensBefore(heap, outer, nextId)
      /\ stack \in Seq(Frame) /\ Len(stack) \in Nat \ {0} /\ nextId \in Nat
  BY StackFacts DEF CallInv
<1>3. /\ Len(s) = Len(stack) + 1 /\ s[Len(stack) + 1] = f
      /\ \A p \in 1 .. Len(stack) : s[p] = stack[p]
  BY <1>1, <1>2
<1> HIDE DEF s
<1>4. FramesFrom(stack, s, nextId)
  <2>1. Len(s) \in Nat \ {0}
    BY <1>2, <1>3
  <2>2. ASSUME NEW p \in 1 .. Len(stack) PROVE SameFrame(stack[p], s[p]) /\ Counted(s[p])
    BY <1>3 DEF SameFrame, SamePlace, ClosInv, CountsOK
  <2>3. \A p \in 1 .. Len(s) : p \in 1 .. Len(stack) \/ (p = Len(s) /\ p > 1)
    BY <1>2, <1>3
  <2> QED
    BY <1>1, <1>3, <2>1, <2>2, <2>3 DEF FramesFrom, Fresh, Counted
<1>5. ClosInv(s, heap, outer)
  BY <1>2, <1>4, FramesKeep
<1>6. StackOK(s, nextId') /\ nextId' <= MaxId + 1 /\ RefsOK(heap, outer)
  <2>1. stack' = s
    BY <1>1 DEF Settle
  <2>2. StackOK(s, nextId') /\ nextId' <= MaxId + 1
    BY <1>1, <1>2, <2>1, StackNow, ClosuresAssumption
  <2>3. heap \in [Fns -> Closure]
    BY <1>2 DEF HeapOK
  <2> QED
    BY <1>2, <2>2, <2>3, RefsBefore
<1> QED
  BY <1>1, <1>5, <1>6, SettledClos

LEMMA RenewsClos ==
  ASSUME IInv, CallInv, ClosInv(stack, heap, outer), IInv', NEW v, Renews(v)
  PROVE  ClosInv(stack, heap, outer)'
<1> DEFINE n == Len(stack)
<1>1. PICK s : Clears(v, s)
  BY RenewsClears
<1>2. /\ Settle(s, heap, outer, ctl, Data) /\ stack' = s
      /\ nextId' = nextId + 1 /\ nextId <= MaxId
  BY <1>1 DEF Clears, Renews, Settle
<1>3. /\ StackOK(stack, nextId) /\ HeapOK(heap, stack, nextId) /\ TokensBefore(heap, outer, nextId)
      /\ nextId \in Nat
  BY StackFacts DEF CallInv
<1>4. /\ n \in Nat /\ n > Root /\ n \in 2 .. n /\ ~ stack[n].tco /\ Len(s) = n /\ s[n].id = nextId
      /\ \A p \in 1 .. n : p # n => s[p] = stack[p]
      /\ \A p \in 1 .. n : s[p].token = stack[p].token /\ s[p].seenAt = stack[p].seenAt
  BY <1>1 DEF Clears, Root
<1>5. ~ s[n].token
  <2>1. ~ stack[n].token
    BY <1>4 DEF ClosInv, TokensLinked
  <2>2. s[n].token = stack[n].token
    BY <1>4
  <2> QED
    BY <2>1, <2>2
<1>6. \A p \in 1 .. n : Counted(s[p])
  BY <1>4 DEF ClosInv, CountsOK, Counted
<1>7. FramesFrom(stack, s, nextId)
  <2> SUFFICES ASSUME NEW p \in 1 .. n
               PROVE  \/ SameFrame(stack[p], s[p]) /\ Counted(s[p])
                      \/ p = n /\ p > 1 /\ s[p].id = nextId /\ ~ s[p].token /\ Counted(s[p])
    BY <1>4 DEF FramesFrom
  <2>1. CASE p = n
    BY <1>4, <1>5, <1>6, <2>1
  <2>2. CASE p # n
    BY <1>4, <1>6, <2>2 DEF SameFrame, SamePlace
  <2> QED
    BY <2>1, <2>2
<1>8. ClosInv(s, heap, outer)
  BY <1>3, <1>7, FramesKeep
<1>9. StackOK(s, nextId') /\ nextId' <= MaxId + 1 /\ RefsOK(heap, outer)
  <2>1. StackOK(s, nextId') /\ nextId' <= MaxId + 1
    BY <1>2, <1>3, StackNow, ClosuresAssumption
  <2>2. heap \in [Fns -> Closure]
    BY <1>3 DEF HeapOK
  <2> QED
    BY <1>3, <2>1, <2>2, RefsBefore
<1> QED
  BY <1>2, <1>8, <1>9, SettledClos
-----------------------------------------------------------------------------
(***************************************************************************)
(* When a frame must stay: who refers to the token of the top frame.       *)
(***************************************************************************)
Outside(s, held) == held \cup Tokens(s) \cup FrameFns(s, 1 .. Top(s) - 1)

Referrers(s, h, o, held) ==
  {m \in Nodes : m \in Live(s, h, o, held) /\ s[Top(s)].id \in References(h, o, m)}

\* What only the top frame's bindings hold cannot be reached from elsewhere.
LEMMA OwnedIs ==
  ASSUME NEW s, NEW n, StackOK(s, n), n <= MaxId + 1, NEW h, NEW o, RefsOK(h, o),
         NEW held \in SUBSET Fns, NEW live, live = Live(s, h, o, held)
  PROVE  /\ OwnedByTop(s, h, o, held, live) \in SUBSET live
         /\ Outside(s, held) \in SUBSET Nodes
         /\ OwnedByTop(s, h, o, held, live) \cap Reachable(h, o, Outside(s, held)) = {}
<1> DEFINE outside == Outside(s, held)
           Grown(S) == S \cup {i \in live \ outside :
                                \A m \in live : i \in References(h, o, m) => m \in S}
           st == [S \in SUBSET Nodes |-> Grown(S)]
           g == CHOOSE e : e = [S \in SUBSET Nodes |-> IF Grown(S) = S THEN S ELSE e[Grown(S)]]
           RO == Reachable(h, o, outside)
<1>1. /\ live \in SUBSET Nodes /\ ClosedUnder(h, o, live) /\ outside \in SUBSET Nodes
      /\ outside \subseteq live
  <2>1. /\ Tokens(s) \in SUBSET Ids /\ \A P : FrameFns(s, P) \in SUBSET Fns
        /\ live \in SUBSET Nodes
        /\ held \cup Tokens(s) \cup FrameFns(s, 1 .. Len(s)) \subseteq live
        /\ ClosedUnder(h, o, live)
    BY LiveIs
  <2>2. FrameFns(s, 1 .. Top(s) - 1) \subseteq FrameFns(s, 1 .. Len(s))
    BY DEF FrameFns, Top, StackOK, Grounded
  <2> QED
    BY <2>1, <2>2 DEF Outside, Nodes
<1> HIDE DEF outside
<1>2. Inflates(Nodes, st)
  <2>1. st \in [SUBSET Nodes -> SUBSET Nodes]
    BY <1>1
  <2>2. \A S \in SUBSET Nodes : S \subseteq st[S]
    OBVIOUS
  <2>3. \A S, T \in SUBSET Nodes : S \subseteq T => st[S] \subseteq st[T]
    OBVIOUS
  <2> HIDE DEF st
  <2> QED
    BY <2>1, <2>2, <2>3, NodesFinite DEF Inflates
<1>3. OwnedByTop(s, h, o, held, live) = g[{}]
  BY DEF OwnedByTop, Nodes, outside, Outside
<1>4. g = Iteration(Nodes, st)
  <2>1. \A e : [S \in SUBSET Nodes |-> IF Grown(S) = S THEN S ELSE e[Grown(S)]]
              = [S \in SUBSET Nodes |-> IF st[S] = S THEN S ELSE e[st[S]]]
    OBVIOUS
  <2> HIDE DEF st, Grown
  <2> QED
    BY <2>1, Zenon DEF Iteration
<1>5. st[live] = live
  BY <1>1
<1>6. /\ RO \in SUBSET Nodes /\ outside \subseteq RO /\ RO \subseteq live
      /\ \A i \in RO : i \in outside \/ \E m \in RO : i \in References(h, o, m)
  BY <1>1, ReachableIs, ReachReferrer
<1>7. st[Nodes \ RO] = Nodes \ RO
  <2> HIDE DEF RO
  <2>1. Nodes \ RO \in SUBSET Nodes
    OBVIOUS
  <2>2. Grown(Nodes \ RO) = Nodes \ RO
    <3> SUFFICES ASSUME NEW i \in live \ outside, i \in RO,
                        \A m \in live : i \in References(h, o, m) => m \in Nodes \ RO
                 PROVE  FALSE
      BY <1>1
    <3> QED
      BY <1>6
  <2> QED
    BY <2>1, <2>2
<1> DEFINE Z == Nodes \ RO
<1>8. Z \in SUBSET Nodes /\ st[Z] = Z /\ {} \subseteq Z /\ {} \subseteq live /\ {} \in SUBSET Nodes
      /\ Z \cap RO = {}
  BY <1>7
<1>9. outside = Outside(s, held) /\ RO = Reachable(h, o, outside)
  BY DEF outside
<1> HIDE DEF st, g, RO, Z
<1>10. g[{}] \subseteq live /\ g[{}] \subseteq Z
  BY <1>1, <1>2, <1>4, <1>5, <1>8, IterationIs
<1> QED
  BY <1>1, <1>3, <1>8, <1>9, <1>10

LEMMA StillSeenIs ==
  ASSUME NEW s, NEW n, StackOK(s, n), n <= MaxId + 1, Len(s) >= 2, NEW h, NEW o, RefsOK(h, o),
         NEW held \in SUBSET Fns, Counted(s[Top(s)])
  PROVE  /\ StillSeen(s, h, o, held) =>
              Referrers(s, h, o, held) # {} /\ TokenCount(s, h, o, held) >= 2
         /\ s[Top(s)].token /\ ~ StillSeen(s, h, o, held) =>
              Referrers(s, h, o, held) \cap Reachable(h, o, Outside(s, held)) = {}
<1> DEFINE live == Live(s, h, o, held)
           t == s[Top(s)].id
           R == Referrers(s, h, o, held)
           owned == OwnedByTop(s, h, o, held, live)
           inside == {m \in owned : t \in References(h, o, m)}
           count == StrongCount(s, h, o, live, t)
<1>1. SUFFICES ASSUME s[Top(s)].token
               PROVE  /\ StillSeen(s, h, o, held) => R # {} /\ TokenCount(s, h, o, held) >= 2
                      /\ ~ StillSeen(s, h, o, held) =>
                           R \cap Reachable(h, o, Outside(s, held)) = {}
  BY DEF StillSeen
<1>2. Top(s) \in 2 .. Len(s)
  BY DEF Top, StackOK, Grounded
<1>3. t \in Tokens(s)
  BY <1>1, <1>2 DEF Tokens
<1>4. count = 1 + Cardinality(R)
  <2>1. {m \in Fns \cup Ids : m \in live /\ t \in References(h, o, m)} = R
    BY DEF Referrers, Nodes
  <2> QED
    BY <1>3, <2>1 DEF StrongCount
<1>5. TokenCount(s, h, o, held) = count
  BY DEF TokenCount
<1>6. /\ live \in SUBSET Nodes /\ owned \in SUBSET live
      /\ owned \cap Reachable(h, o, Outside(s, held)) = {}
  <2>1. live \in SUBSET Nodes
    BY LiveIs
  <2> DEFINE reach == Reachable(h, o, Outside(s, held))
  <2>2. live = Live(s, h, o, held)
    OBVIOUS
  <2> HIDE DEF live, reach
  <2> QED
    BY <2>1, <2>2, OwnedIs DEF reach
<1>7. IsFiniteSet(R) /\ Cardinality(R) \in Nat /\ inside \in SUBSET R
      /\ inside \cap Reachable(h, o, Outside(s, held)) = {}
  <2>1. R \in SUBSET Nodes
    BY DEF Referrers
  <2>2. IsFiniteSet(R)
    BY <2>1, NodesFinite, FS_Subset
  <2>3. inside \in SUBSET R
    BY <1>6 DEF Referrers
  <2> QED
    BY <1>6, <2>2, <2>3, FS_CardinalityType
<1>8. StillSeen(s, h, o, held) <=>
        count = s[Top(s)].seenAt \/ Cardinality(inside) # count - 1
  BY <1>1, <1>5 DEF StillSeen, SeenFromOutside
<1> HIDE DEF inside, R, count, owned, live
<1>9. count - 1 = Cardinality(R)
  BY <1>4, <1>7
<1>10. ASSUME StillSeen(s, h, o, held) PROVE Cardinality(R) # 0
  <2>1. CASE count = s[Top(s)].seenAt
    BY <1>4, <1>7, <2>1 DEF Counted
  <2>2. CASE Cardinality(inside) # count - 1
    <3>1. R # {}
      <4>1. inside \subseteq R
        BY <1>7
      <4>2. R = {} => inside = R
        BY <4>1
      <4> QED
        BY <1>9, <2>2, <4>2
    <3> QED
      BY <1>7, <3>1, FS_EmptySet
  <2> QED
    BY <1>8, <1>10, <2>1, <2>2
<1>11. ASSUME ~ StillSeen(s, h, o, held) PROVE R = inside
  BY <1>7, <1>8, <1>9, <1>11, FS_Subset
<1>12. StillSeen(s, h, o, held) => R # {} /\ count >= 2
  BY <1>4, <1>7, <1>10, FS_EmptySet
<1> QED
  BY <1>5, <1>7, <1>11, <1>12

\* What of a tail call its frames' lives depend on.
LEMMA TailFrames ==
  ASSUME IInv, CallInv, NEW c, Ready(c), c[Len(c)].kind = "tramp",
         NEW fn, NEW arg, NEW held, NEW stop, NEW s, NEW f, TakesTail(c, fn, arg, held, stop, s, f)
  PROVE  /\ held \in SUBSET Fns /\ stop \in 2 .. Len(stack) /\ stop \in 1 .. Len(stack)
         /\ RefsOK(heap, outer) /\ nextId <= MaxId + 1
         /\ \A p \in 1 .. Len(stack) :
              /\ StackOK(Cut(stack, p), nextId) /\ Top(Cut(stack, p)) = p /\ Len(Cut(stack, p)) = p
              /\ \A q \in 1 .. p : Cut(stack, p)[q] = stack[q]
<1>1. c[Len(c)].height + 1 \in 2 .. Len(stack) + 1
  <2>1. Stacked(c, Len(stack)) /\ c # <<>>
    BY DEF Ready
  <2> QED
    BY <2>1, HeightIn, StackFacts
<1>2. stop \in c[Len(c)].height + 1 .. Len(stack) /\ held = HeldBelow(c, fn, arg)
  BY DEF TakesTail
<1>3. stop \in 2 .. Len(stack) /\ stop \in 1 .. Len(stack)
  BY <1>1, <1>2, StackFacts
<1>4. held \in SUBSET Fns
  BY <1>2, HeldIn DEF HeldBelow
<1>5. RefsOK(heap, outer) /\ nextId <= MaxId + 1
  <2>1. TokensBefore(heap, outer, nextId) /\ nextId \in Nat /\ heap \in [Fns -> Closure]
    BY StackFacts DEF CallInv, HeapOK
  <2> QED
    BY <2>1, RefsBefore DEF TokensBefore
<1>6. ASSUME NEW p \in 1 .. Len(stack)
      PROVE  /\ StackOK(Cut(stack, p), nextId) /\ Top(Cut(stack, p)) = p /\ Len(Cut(stack, p)) = p
             /\ \A q \in 1 .. p : Cut(stack, p)[q] = stack[q]
  <2>1. p \in 0 .. Len(stack)
    OBVIOUS
  <2>2. Len(Cut(stack, p)) = p /\ \A q \in 1 .. p : Cut(stack, p)[q] = stack[q]
    BY <2>1, StackFacts, CutFrames
  <2>3. StackOK(Cut(stack, p), nextId)
    BY StackFacts, CutOK
  <2> QED
    BY <2>2, <2>3 DEF Top
<1> QED
  BY <1>3, <1>4, <1>5, <1>6

LEMMA TakesTailClos ==
  ASSUME IInv, CallInv, ClosInv(stack, heap, outer), IInv',
         NEW c, Ready(c), c[Len(c)].kind = "tramp",
         NEW fn, NEW arg, NEW held, NEW stop, NEW s, NEW f, TakesTail(c, fn, arg, held, stop, s, f)
  PROVE  ClosInv(stack, heap, outer)'
<1> DEFINE t == Append(s, f)
           d == [c EXCEPT ![Len(c)].frames = Len(s) + 1 - c[Len(c)].height]
           u == Cut(stack, stop)
<1>1. /\ f \in Frame /\ f.id = nextId /\ Fresh(f) /\ s \in Seq(Frame)
      /\ Settle(t, heap, outer, d, Data) /\ nextId' = nextId + 1 /\ nextId <= MaxId
      /\ Len(s) \in {stop, stop - 1}
      /\ \A p \in 1 .. stop - 1 : s[p] = stack[p]
      /\ Len(s) = stop => s[stop] = Judged(stack[stop], f, stop, held)
      /\ Len(s) = stop => MustStay(u, f.barrier, held)
  BY DEF TakesTail
<1>2. /\ held \in SUBSET Fns /\ stop \in 2 .. Len(stack) /\ stop \in 1 .. Len(stack)
      /\ RefsOK(heap, outer) /\ nextId <= MaxId + 1
      /\ StackOK(u, nextId) /\ Top(u) = stop /\ Len(u) = stop /\ stop \in 1 .. stop
      /\ \A q \in 1 .. stop : u[q] = stack[q]
  <2>1. stop \in 1 .. Len(stack)
    BY TailFrames
  <2>2. StackOK(u, nextId) /\ Top(u) = stop /\ Len(u) = stop /\ \A q \in 1 .. stop : u[q] = stack[q]
    BY <2>1, TailFrames
  <2>3. stop \in 1 .. stop
    BY <2>1
  <2> QED
    BY <2>2, <2>3, TailFrames
<1>3. /\ StackOK(stack, nextId) /\ HeapOK(heap, stack, nextId) /\ TokensBefore(heap, outer, nextId)
      /\ stack \in Seq(Frame) /\ Len(stack) \in Nat \ {0} /\ nextId \in Nat
  BY StackFacts DEF CallInv
<1>4. /\ Len(t) = Len(s) + 1 /\ t[Len(s) + 1] = f
      /\ \A p \in 1 .. Len(s) : t[p] = s[p]
  BY <1>1
<1> HIDE DEF t, u, d
<1>5. Len(s) = stop => SameFrame(stack[stop], s[stop]) /\ Counted(s[stop])
  <2> SUFFICES ASSUME Len(s) = stop PROVE SameFrame(stack[stop], s[stop]) /\ Counted(s[stop])
    OBVIOUS
  <2>1. stack[stop] \in Frame /\ Counted(stack[stop])
    BY <1>2, <1>3, FrameAt DEF ClosInv, CountsOK
  <2> DEFINE count == TokenCount(u, heap, outer, held)
  <2>2. s[stop] = [stack[stop] EXCEPT !.seenAt = IF f.barrier >= stop THEN @ ELSE count]
    BY <1>1 DEF Judged, u
  <2>3. Counted(u[Top(u)])
    BY <1>2, <2>1
  <2>4. f.barrier >= stop \/ StillSeen(u, heap, outer, held)
    BY <1>1, <1>2 DEF MustStay
  <2>5. Len(u) >= 2
    BY <1>2
  <2>6. StillSeen(u, heap, outer, held) => count >= 2
    BY <1>2, <2>3, <2>5, StillSeenIs
  <2> HIDE DEF count
  <2>7. SameFrame(stack[stop], s[stop])
    BY <2>1, <2>2 DEF SameFrame, SamePlace, Frame
  <2>8. s[stop].seenAt = IF f.barrier >= stop THEN stack[stop].seenAt ELSE count
    BY <2>1, <2>2 DEF Frame
  <2> QED
    BY <2>1, <2>4, <2>6, <2>7, <2>8 DEF Counted
<1>6. FramesFrom(stack, t, nextId)
  <2>1. Len(t) \in Nat \ {0} /\ Len(s) \in Nat /\ Len(s) >= 1
    BY <1>1, <1>2, <1>4
  <2>2. ASSUME NEW p \in 1 .. Len(s)
        PROVE  p \in 1 .. Len(stack) /\ SameFrame(stack[p], t[p]) /\ Counted(t[p])
    <3>1. p \in 1 .. Len(stack) /\ (p \in 1 .. stop - 1 \/ (p = stop /\ Len(s) = stop))
      BY <1>1, <1>2, <1>3
    <3>2. CASE p \in 1 .. stop - 1
      BY <1>1, <1>4, <3>1, <3>2 DEF SameFrame, SamePlace, ClosInv, CountsOK
    <3>3. CASE p = stop /\ Len(s) = stop
      BY <1>4, <1>5, <3>1, <3>3
    <3> QED
      BY <3>1, <3>2, <3>3
  <2>3. \A p \in 1 .. Len(t) : p \in 1 .. Len(s) \/ (p = Len(t) /\ p > 1)
    BY <1>4, <2>1
  <2> QED
    BY <1>1, <1>4, <2>1, <2>2, <2>3 DEF FramesFrom, Fresh, Counted
<1>7. ClosInv(t, heap, outer)
  BY <1>3, <1>6, FramesKeep
<1>8. StackOK(t, nextId') /\ nextId' <= MaxId + 1
  <2>1. stack' = t
    BY <1>1 DEF Settle
  <2> QED
    BY <1>1, <1>3, <2>1, StackNow, ClosuresAssumption
<1> QED
  BY <1>1, <1>2, <1>7, <1>8, SettledClos

LEMMA TailClos ==
  ASSUME IInv, CallInv, ClosInv(stack, heap, outer), IInv', TailCalled
  PROVE  ClosInv(stack, heap, outer)'
<1>1. PICK c, fn, arg : TailCalls(c, fn, arg)
  BY DEF TailCalled
<1>2. Ready(c) /\ c[Len(c)].kind = "tramp" /\ fn \in Fns /\ arg \in Value /\ TailCall(c, fn, arg)
  BY <1>1 DEF TailCalls, Known
<1>3. PICK held, stop, s, f : TakesTail(c, fn, arg, held, stop, s, f)
  BY <1>2, TailCallIs
<1> QED
  BY <1>2, <1>3, TakesTailClos

LEMMA InitClos == Init => ClosInv(stack, heap, outer)
<1> SUFFICES ASSUME Init PROVE ClosInv(stack, heap, outer)
  OBVIOUS
<1>1. /\ \A f \in Fns : \/ heap[f] = FreeSlot
                        \/ heap[f] = [FreeSlot EXCEPT !.kind = "lambda", !.thunk = TRUE,
                                                      !.foreign = TRUE, !.chain = {<<2, 1>>}]
      /\ heap \in [Fns -> Closure] /\ outer = [t \in Ids |-> 0]
      /\ stack = <<NewFrame(0, NoBarrier, {})>>
  <2>1. IInv
    BY InitOK
  <2> QED
    BY <2>1 DEF Init, IInv, HeapOK
<1>2. \A f \in Fns : /\ heap[f].kind \in {"free", "lambda"} /\ heap[f].keep = 0
                     /\ heap[f].env = NoBindings /\ heap[f].f = Unbound /\ heap[f].g = Unbound
                     /\ heap[f].kind = "lambda" => heap[f].foreign
  <2> DEFINE e == [FreeSlot EXCEPT !.kind = "lambda", !.thunk = TRUE,
                                   !.foreign = TRUE, !.chain = {<<2, 1>>}]
  <2>1. /\ e.kind = "lambda" /\ e.foreign = TRUE /\ e.keep = 0 /\ e.env = NoBindings
        /\ e.f = Unbound /\ e.g = Unbound
    BY DEF FreeSlot
  <2>2. \A f \in Fns : heap[f] = FreeSlot \/ heap[f] = e
    BY <1>1
  <2> HIDE DEF e
  <2> QED
    BY <2>1, <2>2, FreeSlotFields
<1>3. Len(stack) = 1 /\ stack[1] = NewFrame(0, NoBarrier, {})
  BY <1>1
<1>4. ~ stack[1].token /\ stack[1].seenAt = 0
  BY <1>3 DEF NewFrame
<1>5. HeapShaped(heap)
  BY <1>2, CallsAssumption DEF HeapShaped, NoBindings
<1>6. /\ TokensLinked(stack, outer) /\ TokensFound(stack, heap, outer)
      /\ KeptSeen(stack, heap, outer) /\ CountsOK(stack)
  BY <1>3, <1>4 DEF TokensLinked, TokensFound, KeptSeen, CountsOK, Counted, Root
<1>7. SeenKept(stack, heap, outer)
  BY <1>2 DEF SeenKept
<1>8. RefsOK(heap, outer)
  BY <1>1, <1>2, ClosuresAssumption DEF RefsOK
<1>9. Acyclic(heap, outer)
  <2> SUFFICES ASSUME NEW f \in Fns
               PROVE  f \notin Reachable(heap, outer, References(heap, outer, f))
    BY DEF Acyclic
  <2>1. References(heap, outer, f) = {}
    BY <1>2, ValuesDistinct DEF References, BoundFns, NoBindings
  <2> QED
    BY <1>8, <2>1, ReachNone
<1> QED
  BY <1>5, <1>6, <1>7, <1>9 DEF ClosInv
-----------------------------------------------------------------------------
(***************************************************************************)
(* The invariant.                                                          *)
(***************************************************************************)
ScopesInv == IInv /\ CallInv /\ ClosInv(stack, heap, outer)

LEMMA ScopesKept == ScopesInv /\ [Next]_vars => ScopesInv'
<1> SUFFICES ASSUME ScopesInv, [Next]_vars PROVE ScopesInv'
  OBVIOUS
<1> USE DEF ScopesInv
<1>1. IInv' /\ CallInv'
  BY StepsKeep DEF CallsInv
<1>2. CASE UNCHANGED vars
  <2>1. stack' = stack /\ heap' = heap /\ outer' = outer
    BY <1>2 DEF vars
  <2>2. ClosInv(stack, heap, outer)' <=> ClosInv(stack', heap', outer')
    OBVIOUS
  <2> QED
    BY <1>1, <2>1, <2>2
<1>3. CASE Next
  <2>1. Narrowed \/ Pushed \/ Made \/ TailCalled \/ Renewed
    BY <1>3, NextShaped DEF Shaped
  <2>2. CASE Narrowed
    BY <1>1, <2>2, NarrowsClos DEF Narrowed
  <2>3. CASE Pushed
    BY <1>1, <2>3, PushesClos DEF Pushed
  <2>4. CASE Made
    BY <1>1, <2>4, MakesClos DEF Made
  <2>5. CASE TailCalled
    BY <1>1, <2>5, TailClos
  <2>6. CASE Renewed
    BY <1>1, <2>6, RenewsClos DEF Renewed
  <2> QED
    BY <1>1, <2>1, <2>2, <2>3, <2>4, <2>5, <2>6
<1> QED
  BY <1>2, <1>3

\* Closures, tokens and frames agree in every state of every evaluation.
THEOREM ScopesAgree == Spec => []ScopesInv
<1>1. Init => ScopesInv
  BY InitOK, InitCallInv, InitClos DEF ScopesInv
<1> QED
  BY <1>1, ScopesKept, PTL DEF Spec

\* A closure keeps the trampoline frames its body sees: while it lives, the
\* tokens it refers to (Context::def_scope) name each of them that is on the
\* stack, so Scope::still_seen can find them all.
THEOREM SeenFramesKept == Spec => []KeepsWhatItSees
<1>1. ScopesInv => KeepsWhatItSees
  BY DEF ScopesInv, ClosInv, SeenKept, Kept, KeepsWhatItSees
<1> QED
  BY <1>1, ScopesAgree, PTL

\* No closure reaches itself through what it captured, composed or keeps, so
\* counting references frees every closure of an evaluation.
THEOREM ClosuresAcyclic == Spec => []NoCycles
<1>1. ScopesInv => NoCycles
  BY DEF ScopesInv, ClosInv, Acyclic, NoCycles
<1> QED
  BY <1>1, ScopesAgree, PTL
-----------------------------------------------------------------------------
(***************************************************************************)
(* Tail calls take the frames that no closure sees, and keep the others.   *)
(***************************************************************************)
\* The locals of the evaluator during a tail call, and after it.
SameLocals(c, d) ==
  Len(d) = Len(c) /\ \A i \in 1 .. Len(c) : d[i].fn = c[i].fn /\ d[i].arg = c[i].arg

LEMMA Recounted ==
  ASSUME NEW c \in Seq(Activation), c # <<>>, NEW m
  PROVE  SameLocals(c, [c EXCEPT ![Len(c)].frames = m])
<1> DEFINE n == Len(c)
           d == [c EXCEPT ![n].frames = m]
<1>1. n \in 1 .. n /\ c[n] \in Activation /\ Len(d) = n
  BY ActAt
<1>2. \A i \in 1 .. n : d[i] = IF i = n THEN [c[n] EXCEPT !.frames = m] ELSE c[i]
  BY <1>1
<1>3. [c[n] EXCEPT !.frames = m].fn = c[n].fn /\ [c[n] EXCEPT !.frames = m].arg = c[n].arg
  BY <1>1 DEF Activation
<1> QED
  BY <1>1, <1>2, <1>3 DEF SameLocals

LEMMA TailHeld ==
  ASSUME NEW c, Ready(c), c[Len(c)].kind = "tramp", NEW fn \in Fns, NEW arg \in Value,
         NEW d, SameLocals(c, d)
  PROVE  HeldBelow(c, fn, arg) = Held(d, Data) \cup ({fn, arg} \cap Fns)
<1> DEFINE n == Len(c)
           b == SubSeq(c, 1, n - 1)
<1>1. Stacked(c, Len(stack)) /\ c # <<>>
  BY DEF Ready
<1>2. c \in Seq(Activation) /\ n \in Nat \ {0} /\ n \in 1 .. n /\ ActOK(c[n])
  BY <1>1, HeightIn DEF Stacked
<1>3. c[n] \in Activation /\ c[n].fn = Data /\ c[n].arg = Data
  BY <1>2 DEF ActOK
<1>4. Len(d) = n /\ \A i \in 1 .. n : d[i].fn = c[i].fn /\ d[i].arg = c[i].arg
  BY DEF SameLocals
<1>5. Len(b) = n - 1 /\ \A i \in 1 .. n - 1 : b[i] = c[i]
  <2> DEFINE k == n - 1
  <2>1. k \in Nat /\ Len(c) = k + 1 /\ b = SubSeq(c, 1, k)
    BY <1>2
  <2> HIDE DEF k
  <2>2. Len(b) = k /\ \A i \in 1 .. k : b[i] = c[i]
    BY <1>2, <2>1
  <2> QED
    BY <2>2 DEF k
<1> DEFINE A == UNION {{c[i].fn, c[i].arg} : i \in 1 .. n - 1}
<1>6. UNION {{b[i].fn, b[i].arg} : i \in 1 .. Len(b)} = A
  BY <1>5
<1>7. UNION {{d[i].fn, d[i].arg} : i \in 1 .. Len(d)} = A \cup {Data}
  <2>1. 1 .. n = (1 .. n - 1) \cup {n}
    BY <1>2
  <2>2. \A i \in 1 .. n - 1 : d[i].fn = c[i].fn /\ d[i].arg = c[i].arg
    BY <1>4, <2>1
  <2>3. d[n].fn = Data /\ d[n].arg = Data
    BY <1>2, <1>3, <1>4
  <2> DEFINE P == 1 .. n - 1
  <2>4. Len(d) = n /\ 1 .. n = P \cup {n} /\ A = UNION {{c[i].fn, c[i].arg} : i \in P}
        /\ \A i \in P : d[i].fn = c[i].fn /\ d[i].arg = c[i].arg
    BY <1>4, <2>1, <2>2
  <2> HIDE DEF P, A, n
  <2> QED
    BY <2>3, <2>4
<1> HIDE DEF A, b
<1>8. Held(d, Data) = Fns \cap A
  BY <1>7, ValuesDistinct DEF Held
<1>9. Held(b, fn) = Fns \cap ({fn} \cup A)
  BY <1>6 DEF Held
<1> QED
  BY <1>8, <1>9 DEF HeldBelow, b

\* The functions the frame of a function's body binds.
LEMMA BodyFns ==
  ASSUME HeapShaped(heap), heap \in [Fns -> Closure], NEW fn \in Fns, heap[fn].kind = "lambda",
         NEW arg \in Value, NEW b, b = BodyBindings(fn, arg)
  PROVE  /\ BoundFns(b) \subseteq ({fn, arg} \cap Fns) \cup BoundFns(heap[fn].env)
         /\ arg \in Fns => arg \in BoundFns(b)
         /\ fn \in BoundFns(b) \/ BoundFns(heap[fn].env) \subseteq BoundFns(b)
         /\ References(heap, outer, fn) = BoundFns(heap[fn].env) \cup ({heap[fn].keep} \ {0})
<1>1. heap[fn] \in Closure /\ heap[fn].self \in SUBSET Names
  BY DEF Closure
<1>2. b = [n \in Names |-> IF n = Param THEN arg
                           ELSE IF n \in heap[fn].self THEN fn ELSE heap[fn].env[n]]
  BY DEF BodyBindings
<1>3. Param \in Names /\ heap[fn].env[Param] = Unbound /\ Unbound \notin Fns
      /\ heap[fn].f = Unbound /\ heap[fn].g = Unbound
  BY CallsAssumption, ValuesDistinct DEF HeapShaped
<1>4. BoundFns(b) \subseteq ({fn, arg} \cap Fns) \cup BoundFns(heap[fn].env)
  BY <1>2 DEF BoundFns
<1>5. arg \in Fns => arg \in BoundFns(b)
  BY <1>2, <1>3 DEF BoundFns
<1>6. ASSUME fn \notin BoundFns(b), NEW n \in Names, heap[fn].env[n] \in Fns
      PROVE  heap[fn].env[n] \in BoundFns(b)
  <2>1. n # Param
    BY <1>3, <1>6
  <2>2. CASE n \in heap[fn].self
    <3>1. b[n] = fn
      BY <1>2, <2>1, <2>2
    <3> QED
      BY <1>6, <3>1 DEF BoundFns
  <2>3. CASE n \notin heap[fn].self
    <3>1. b[n] = heap[fn].env[n]
      BY <1>2, <2>1, <2>3
    <3> QED
      BY <1>6, <3>1 DEF BoundFns
  <2> QED
    BY <2>2, <2>3
<1>7. References(heap, outer, fn) = BoundFns(heap[fn].env) \cup ({heap[fn].keep} \ {0})
  BY <1>3 DEF References
<1> QED
  BY <1>4, <1>5, <1>6, <1>7 DEF BoundFns

\* What is alive after a tail call, and what its loop judged by.
AfterTail(live, later, fn, arg, held, s, f) ==
  /\ live \in SUBSET Nodes /\ later \in SUBSET Fns
  /\ held = later \cup ({fn, arg} \cap Fns)
  /\ ClosedUnder(heap, outer, live)
  /\ later \cup Tokens(s) \cup FrameFns(s, 1 .. Len(s)) \cup BoundFns(f.bind) \subseteq live
  /\ \A Z \in SUBSET Nodes :
       /\ later \cup Tokens(s) \cup FrameFns(s, 1 .. Len(s)) \cup BoundFns(f.bind) \subseteq Z
       /\ ClosedUnder(heap, outer, Z)
       => live \subseteq Z
  /\ \A g \in Fns : heap'[g] = IF g \in live THEN heap[g] ELSE FreeSlot
  /\ stack' = Append(s, f) /\ heap[fn].kind = "lambda" /\ f.bind = BodyBindings(fn, arg)

LEMMA TailLive ==
  ASSUME IInv, CallInv, ClosInv(stack, heap, outer), IInv',
         NEW c, Ready(c), c[Len(c)].kind = "tramp",
         NEW fn \in Fns, fn \in Known(heap), NEW arg \in Value,
         NEW held, NEW stop, NEW s, NEW f, TakesTail(c, fn, arg, held, stop, s, f)
  PROVE  \E live, later : AfterTail(live, later, fn, arg, held, s, f)
<1> DEFINE d == [c EXCEPT ![Len(c)].frames = Len(s) + 1 - c[Len(c)].height]
           t == Append(s, f)
           later == Held(d, Data)
           live == Live(t, heap, outer, later)
           roots == later \cup Tokens(t) \cup FrameFns(t, 1 .. Len(t))
<1>1. /\ held = HeldBelow(c, fn, arg) /\ s \in Seq(Frame) /\ f \in Frame /\ Fresh(f)
      /\ Settle(t, heap, outer, d, Data) /\ f.bind = BodyBindings(fn, arg)
      /\ heap[fn].thunk /\ ~ AtCaller(heap[fn]) /\ Len(s) \in {stop, stop - 1}
  BY DEF TakesTail
<1>2. held = later \cup ({fn, arg} \cap Fns) /\ later \in SUBSET Fns
  <2> DEFINE m == Len(s) + 1 - c[Len(c)].height
  <2>1. c \in Seq(Activation) /\ c # <<>>
    BY DEF Ready, Stacked
  <2> HIDE DEF m
  <2>2. SameLocals(c, [c EXCEPT ![Len(c)].frames = m])
    BY <2>1, Recounted
  <2>3. SameLocals(c, d)
    BY <2>2 DEF m
  <2> HIDE DEF d
  <2>4. HeldBelow(c, fn, arg) = Held(d, Data) \cup ({fn, arg} \cap Fns)
    BY <2>3, TailHeld
  <2> QED
    BY <1>1, <2>4, HeldIn
<1>3. heap[fn].kind = "lambda"
  <2>1. heap[fn] \in Closure /\ heap[fn].kind # "free"
    BY StackFacts DEF HeapOK, Known
  <2>2. heap[fn].kind # "first"
    BY <1>1 DEF ClosInv, HeapShaped
  <2>3. heap[fn].kind # "comp"
    BY <1>1 DEF AtCaller
  <2> QED
    BY <2>1, <2>2, <2>3 DEF Closure
<1>4. RefsOK(heap, outer) /\ stop \in 2 .. Len(stack)
  BY TailFrames
<1>5. StackOK(t, nextId') /\ nextId' <= MaxId + 1
  <2>1. stack' = t /\ nextId' = nextId + 1 /\ nextId <= MaxId /\ nextId \in Nat
    BY <1>1, StackFacts DEF Settle, TakesTail
  <2>2. StackOK(stack', nextId')
    BY StackNow
  <2> QED
    BY <2>1, <2>2, ClosuresAssumption
<1>6. /\ Len(t) = Len(s) + 1 /\ t[Len(s) + 1] = f /\ \A p \in 1 .. Len(s) : t[p] = s[p]
      /\ Len(s) \in Nat
  BY <1>1
<1>7. Tokens(t) = Tokens(s)
  <2>1. \A q \in 2 .. Len(t) : q \in 2 .. Len(s) \/ q = Len(s) + 1
    BY <1>6
  <2>2. \A q \in 2 .. Len(s) : q \in 2 .. Len(t) /\ t[q] = s[q]
    BY <1>6
  <2> HIDE DEF t
  <2> QED
    BY <1>1, <1>6, <2>1, <2>2 DEF Tokens, Fresh
<1>8. FrameFns(t, 1 .. Len(t)) = FrameFns(s, 1 .. Len(s)) \cup BoundFns(f.bind)
  <2> DEFINE P == 1 .. Len(s)
  <2>1. 1 .. Len(t) = P \cup {Len(s) + 1} /\ \A p \in P : t[p] = s[p]
    BY <1>6
  <2>2. P = 1 .. Len(s)
    OBVIOUS
  <2> HIDE DEF t, P
  <2>3. FrameFns(t, P \cup {Len(s) + 1}) = FrameFns(s, P) \cup BoundFns(f.bind)
    BY <1>6, <2>1 DEF FrameFns
  <2> QED
    BY <2>1, <2>2, <2>3
<1>9. stack' = t
  BY <1>1 DEF Settle
<1>10. /\ live \in SUBSET Nodes /\ roots \subseteq live /\ ClosedUnder(heap, outer, live)
       /\ \A Z \in SUBSET Nodes : roots \subseteq Z /\ ClosedUnder(heap, outer, Z) => live \subseteq Z
       /\ \A g \in Fns : heap'[g] = IF g \in live THEN heap[g] ELSE FreeSlot
  <2>1. later = Held(d, Data) /\ live = Live(t, heap, outer, Held(d, Data))
    OBVIOUS
  <2> HIDE DEF t, d, later, live
  <2>2. \A g \in Fns : heap'[g] = IF g \in live THEN heap[g] ELSE FreeSlot
    BY <1>1, <1>4, <1>5, <2>1, SettledHeap
  <2>3. /\ live \in SUBSET Nodes /\ roots \subseteq live /\ ClosedUnder(heap, outer, live)
        /\ \A Z \in SUBSET Nodes : roots \subseteq Z /\ ClosedUnder(heap, outer, Z) => live \subseteq Z
    BY <1>2, <1>4, <1>5, <2>1, LiveIs
  <2> QED
    BY <2>2, <2>3
<1>11. roots = later \cup Tokens(s) \cup FrameFns(s, 1 .. Len(s)) \cup BoundFns(f.bind)
  BY <1>7, <1>8
<1>12. AfterTail(live, later, fn, arg, held, s, f)
  <2>1. stack' = Append(s, f)
    BY <1>9
  <2> HIDE DEF roots, live, later, d, t
  <2> QED
    BY <1>1, <1>2, <1>3, <1>10, <1>11, <2>1 DEF AfterTail
<1> HIDE DEF live, later
<1> QED
  BY <1>12

\* A closure with a frame in its chain is a function, made by this evaluator
\* or another.
LEMMA ChainedAre ==
  ASSUME IInv, CallInv, ClosInv(stack, heap, outer), NEW g \in Fns, heap[g].chain # {}
  PROVE  heap[g].kind \in {"lambda", "first"}
<1>1. heap[g] \in Closure
  BY StackFacts DEF HeapOK
<1>2. heap[g].kind # "free"
  BY FreeSlotFields DEF CallInv, HeapAccounted
<1>3. heap[g].kind # "comp"
  BY DEF ClosInv, HeapShaped
<1> QED
  BY <1>1, <1>2, <1>3 DEF Closure

\* The frames of the tail call's trampoline.
LEMMA TailTco ==
  ASSUME CallInv, NEW c, Ready(c), Outer(c), c[Len(c)].kind = "tramp",
         NEW p \in c[Len(c)].height + 1 .. Len(stack)
  PROVE  stack[p].tco
<1>1. TcoFrames(c, stack)
  BY OuterKnown
<1>2. /\ Len(c) \in 1 .. Len(c) /\ Len(stack) = c[Len(c)].height + c[Len(c)].frames
  <2>1. Stacked(c, Len(stack)) /\ c # <<>>
    BY DEF Ready
  <2> QED
    BY <2>1, HeightIn DEF Ready, Exact
<1> QED
  BY <1>1, <1>2 DEF TcoFrames, Reusing

LEMMA DroppedUnseen ==
  ASSUME IInv, CallInv, ClosInv(stack, heap, outer), IInv',
         NEW c, Ready(c), Outer(c), c[Len(c)].kind = "tramp",
         NEW fn \in Fns, fn \in Known(heap), NEW arg \in Value,
         NEW held, NEW stop, NEW s, NEW f, TakesTail(c, fn, arg, held, stop, s, f),
         NEW p \in stop .. Len(stack), p > Len(s),
         NEW g \in Fns, ~ heap'[g].foreign
  PROVE  <<p, stack[p].id>> \notin heap'[g].chain
<1> SUFFICES ASSUME <<p, stack[p].id>> \in heap'[g].chain PROVE FALSE
  OBVIOUS
<1> DEFINE u == Cut(stack, p)
           t == stack[p].id
           RO == Reachable(heap, outer, Outside(u, held))
<1>1. /\ stop \in 2 .. Len(stack) /\ stop \in c[Len(c)].height + 1 .. Len(stack)
      /\ Len(s) \in {stop, stop - 1} /\ s \in Seq(Frame)
      /\ \A q \in 1 .. stop - 1 : s[q] = stack[q]
      /\ Len(s) = stop => s[stop] = Judged(stack[stop], f, stop, held)
      /\ Len(s) # stop => ~ MustStay(Cut(stack, stop), f.barrier, held)
      /\ \A q \in stop + 1 .. Len(stack) : ~ MustStay(Cut(stack, q), f.barrier, held)
  BY TailFrames DEF TakesTail
<1>2. p \in 2 .. Len(stack) /\ p \in 1 .. Len(stack) /\ p \in c[Len(c)].height + 1 .. Len(stack)
      /\ Len(s) <= p - 1
  <2>1. p \in 2 .. Len(stack) /\ p \in 1 .. Len(stack) /\ Len(s) <= p - 1
    BY <1>1
  <2>2. c[Len(c)].height \in Nat
    <3>1. Stacked(c, Len(stack)) /\ c # <<>>
      BY DEF Ready
    <3> QED
      BY <3>1, HeightIn
  <2> QED
    BY <1>1, <2>1, <2>2
<1>3. ~ MustStay(u, f.barrier, held)
  <2>1. p = stop \/ p \in stop + 1 .. Len(stack)
    BY <1>1
  <2>2. p = stop => Len(s) # stop
    BY <1>1
  <2> QED
    BY <1>1, <2>1, <2>2
<1>4. /\ held \in SUBSET Fns /\ RefsOK(heap, outer) /\ nextId <= MaxId + 1
      /\ StackOK(u, nextId) /\ Top(u) = p /\ Len(u) = p
      /\ \A q \in 1 .. p : u[q] = stack[q]
  BY <1>2, TailFrames
<1>5. PICK live, later : AfterTail(live, later, fn, arg, held, s, f)
  BY TailLive
<1>6. g \in live /\ heap'[g] = heap[g]
  <2>1. \A e \in Fns : heap'[e] = IF e \in live THEN heap[e] ELSE FreeSlot
    BY <1>5 DEF AfterTail
  <2> QED
    BY <2>1, FreeSlotFields
<1>7. t \in Kept(heap, outer, g)
  <2>1. heap[g].kind \in {"lambda", "first"} /\ ~ heap[g].foreign
    BY <1>6, ChainedAre
  <2>2. p \in StillOnStack(stack, heap[g].chain) /\ stack[p].tco
    BY <1>2, <1>6, TailTco DEF StillOnStack
  <2> QED
    BY <2>1, <2>2 DEF ClosInv, SeenKept
<1>8. stack[p].token
  BY <1>2, <1>4, <1>7, KeptTokened DEF ClosInv
<1>9. u[Top(u)].id = t /\ u[Top(u)].token /\ Counted(u[Top(u)]) /\ Len(u) >= 2
  <2>1. u[Top(u)] = stack[p]
    BY <1>2, <1>4
  <2> QED
    BY <1>2, <1>4, <1>8, <2>1 DEF ClosInv, CountsOK
<1> HIDE DEF u
<1>10. Referrers(u, heap, outer, held) \cap RO = {}
  BY <1>3, <1>4, <1>9, StillSeenIs DEF MustStay
<1>11. /\ Outside(u, held) \in SUBSET Nodes /\ RO \in SUBSET Nodes /\ Outside(u, held) \subseteq RO
       /\ ClosedUnder(heap, outer, RO) /\ RO \subseteq Live(u, heap, outer, held)
  <2>1. Outside(u, held) \in SUBSET Nodes
    BY <1>4, OwnedIs
  <2>2. RO \in SUBSET Nodes /\ Outside(u, held) \subseteq RO /\ ClosedUnder(heap, outer, RO)
        /\ \A Z \in SUBSET Nodes : Outside(u, held) \subseteq Z /\ ClosedUnder(heap, outer, Z)
                                     => RO \subseteq Z
    BY <1>4, <2>1, ReachableIs
  <2>3. /\ Live(u, heap, outer, held) \in SUBSET Nodes
        /\ ClosedUnder(heap, outer, Live(u, heap, outer, held))
        /\ held \cup Tokens(u) \cup FrameFns(u, 1 .. Len(u)) \subseteq Live(u, heap, outer, held)
    BY <1>4, LiveIs
  <2>4. FrameFns(u, 1 .. Top(u) - 1) \subseteq FrameFns(u, 1 .. Len(u))
    BY <1>2, <1>4 DEF FrameFns
  <2> QED
    BY <2>1, <2>2, <2>3, <2>4 DEF Outside
<1> HIDE DEF RO
<1>12. \A q \in 1 .. Len(s) : /\ q \in 1 .. p - 1 /\ q \in 1 .. p /\ u[q].id = s[q].id
                              /\ u[q].bind = s[q].bind /\ u[q].token = s[q].token
  <2> TAKE q \in 1 .. Len(s)
  <2>1. q \in 1 .. p - 1 /\ q \in 1 .. p /\ u[q] = stack[q]
    BY <1>1, <1>2, <1>4
  <2>2. q \in 1 .. stop - 1 \/ (q = stop /\ Len(s) = stop)
    BY <1>1
  <2>3. CASE q \in 1 .. stop - 1
    BY <1>1, <2>1, <2>3
  <2>4. CASE q = stop /\ Len(s) = stop
    <3>1. stack[stop] \in Frame
      BY <1>1, <2>4, StackFacts, FrameAt
    <3>2. LET j == Judged(stack[stop], f, stop, held)
          IN  j.id = stack[stop].id /\ j.bind = stack[stop].bind /\ j.token = stack[stop].token
      BY <3>1 DEF Judged, Frame
    <3> QED
      BY <1>1, <2>1, <2>4, <3>2
  <2> QED
    BY <2>2, <2>3, <2>4
<1>13. live \subseteq RO
  <2>1. later \cup ({fn, arg} \cap Fns) \subseteq RO
    BY <1>5, <1>11 DEF AfterTail, Outside
  <2>2. Tokens(s) \subseteq Tokens(u)
    <3>1. \A q \in 2 .. Len(s) : q \in 1 .. Len(s) /\ q \in 2 .. Len(u)
      BY <1>2, <1>4
    <3> QED
      BY <1>12, <3>1 DEF Tokens
  <2>3. FrameFns(s, 1 .. Len(s)) \subseteq FrameFns(u, 1 .. Top(u) - 1)
    BY <1>4, <1>12 DEF FrameFns
  <2>4. BoundFns(f.bind) \subseteq RO
    <3>1. HeapShaped(heap) /\ heap \in [Fns -> Closure] /\ heap[fn].kind = "lambda"
          /\ f.bind = BodyBindings(fn, arg)
      BY <1>5, StackFacts DEF AfterTail, ClosInv, HeapOK
    <3>2. /\ BoundFns(f.bind) \subseteq ({fn, arg} \cap Fns) \cup BoundFns(heap[fn].env)
          /\ References(heap, outer, fn) = BoundFns(heap[fn].env) \cup ({heap[fn].keep} \ {0})
      BY <3>1, BodyFns
    <3>3. References(heap, outer, fn) \subseteq RO
      BY <1>11, <2>1 DEF ClosedUnder
    <3> QED
      BY <2>1, <3>2, <3>3
  <2>5. later \cup Tokens(s) \cup FrameFns(s, 1 .. Len(s)) \cup BoundFns(f.bind) \subseteq RO
    BY <1>11, <2>1, <2>2, <2>3, <2>4 DEF Outside
  <2> QED
    BY <1>5, <1>11, <2>5 DEF AfterTail
<1>14. \E m \in RO : t \in References(heap, outer, m)
  <2> DEFINE from == {heap[g].keep} \ {0}
  <2>1. g \in RO /\ from \subseteq References(heap, outer, g) /\ from \in SUBSET Nodes
    BY <1>4, <1>6, <1>13, KeptIs
  <2>2. from \subseteq RO
    BY <1>11, <2>1 DEF ClosedUnder
  <2>3. Kept(heap, outer, g) \subseteq RO
    <3>1. Kept(heap, outer, g) = Reachable(heap, outer, from)
      BY DEF Kept
    <3> HIDE DEF from
    <3> QED
      BY <1>4, <1>11, <2>1, <2>2, <3>1, ReachableIs
  <2>4. t \in from \/ \E m \in Kept(heap, outer, g) : t \in References(heap, outer, m)
    <3>1. Kept(heap, outer, g) = Reachable(heap, outer, from)
      BY DEF Kept
    <3> HIDE DEF from, t
    <3> QED
      BY <1>4, <1>7, <2>1, <3>1, ReachReferrer
  <2> QED
    BY <2>1, <2>3, <2>4
<1> QED
  BY <1>9, <1>10, <1>11, <1>14 DEF Referrers

\* What closures and frames keep holds all the tokens that are alive.
LEMMA LiveTokens ==
  ASSUME IInv, CallInv, ClosInv(stack, heap, outer), NEW live \in SUBSET Nodes,
         ClosedUnder(heap, outer, live), NEW s,
         Len(s) \in 1 .. Len(stack),
         \A p \in 1 .. Len(s) : s[p].id = stack[p].id /\ s[p].token = stack[p].token,
         NEW roots \in SUBSET Fns, roots \cup Tokens(s) \subseteq live,
         \A Z \in SUBSET Nodes : roots \cup Tokens(s) \subseteq Z /\ ClosedUnder(heap, outer, Z)
                                   => live \subseteq Z,
         NEW m \in live, m \notin Fns
  PROVE  m \in Tokens(s) \/ \E g \in live \cap Fns : m \in Kept(heap, outer, g)
<1> DEFINE Z == (live \cap Fns) \cup {x \in Nodes : \E g \in live \cap Fns : x \in Kept(heap, outer, g)}
                \cup Tokens(s)
<1>1. RefsOK(heap, outer) /\ StackOK(stack, nextId)
  <2>1. TokensBefore(heap, outer, nextId) /\ nextId \in Nat /\ heap \in [Fns -> Closure]
    BY StackFacts DEF CallInv, HeapOK
  <2> QED
    BY <2>1, RefsBefore, StackFacts
<1>2. roots \cup Tokens(s) \subseteq Z /\ Z \in SUBSET Nodes
  OBVIOUS
<1>3. ASSUME NEW x \in Z PROVE References(heap, outer, x) \subseteq Z
  <2>1. CASE x \in live \cap Fns
    <3>1. References(heap, outer, x) \subseteq live /\ References(heap, outer, x) \subseteq Nodes
      BY <2>1 DEF ClosedUnder
    <3>2. ASSUME NEW y \in References(heap, outer, x), y \notin Fns PROVE y \in Kept(heap, outer, x)
      <4>1. y \in {heap[x].keep} \ {0}
        BY <2>1, <3>2 DEF References, BoundFns
      <4> QED
        BY <1>1, <2>1, <4>1, KeptIs, ReachableIs DEF Kept
    <3> QED
      BY <2>1, <3>1, <3>2
  <2>2. ASSUME NEW g \in live \cap Fns, x \in Kept(heap, outer, g)
        PROVE  References(heap, outer, x) \subseteq Z
    <3>1. Kept(heap, outer, g) \in SUBSET Nodes /\ ClosedUnder(heap, outer, Kept(heap, outer, g))
      BY <1>1, KeptIs, ReachableIs DEF Kept
    <3> QED
      BY <2>2, <3>1 DEF ClosedUnder
  <2>3. CASE x \in Tokens(s)
    <3>1. PICK p \in 2 .. Len(s) : s[p].token /\ x = s[p].id
      BY <2>3 DEF Tokens
    <3>2. p \in 2 .. Len(stack) /\ p \in 1 .. Len(s) /\ stack[p].token /\ x = stack[p].id
      BY <3>1
    <3>3. outer[x] = NextTcoId(stack, p) /\ \A q \in TcoPath(stack, p) : stack[q].token
      BY <3>2 DEF ClosInv, TokensLinked
    <3>4. x \notin Fns
      BY <2>3, <3>2, <1>1, FrameIds, NodesFinite DEF CallInv, TokensBefore
    <3>5. References(heap, outer, x) = {NextTcoId(stack, p)} \ {0}
      BY <3>3, <3>4 DEF References
    <3>6. ASSUME NextTcoId(stack, p) # 0 PROVE NextTcoId(stack, p) \in Tokens(s)
      <4>1. TcoPath(stack, p) \in SUBSET (2 .. p)
            /\ \E q \in TcoPath(stack, p) : NextTcoId(stack, p) = stack[q].id
        BY <1>1, <3>2, <3>6, NextTcoIs
      <4>2. PICK q \in TcoPath(stack, p) : NextTcoId(stack, p) = stack[q].id
        BY <4>1
      <4>3. q \in 2 .. Len(s) /\ q \in 1 .. Len(s) /\ stack[q].token
        BY <3>1, <3>3, <4>1, <4>2
      <4> QED
        BY <4>2, <4>3 DEF Tokens
    <3> QED
      BY <3>5, <3>6
  <2> HIDE DEF Z
  <2>4. x \in (live \cap Fns) \/ (\E g \in live \cap Fns : x \in Kept(heap, outer, g)) \/ x \in Tokens(s)
    BY <1>3 DEF Z
  <2> QED
    BY <2>1, <2>2, <2>3, <2>4
<1>4. ClosedUnder(heap, outer, Z)
  BY <1>3 DEF ClosedUnder
<1>5. m \in Z
  <2> HIDE DEF Z
  <2> QED
    BY <1>2, <1>4
<1> QED
  BY <1>5

LEMMA KeptForOne ==
  ASSUME IInv, CallInv, ClosInv(stack, heap, outer), IInv',
         NEW c, Ready(c), c[Len(c)].kind = "tramp",
         NEW fn \in Fns, fn \in Known(heap), NEW arg \in Value,
         NEW held, NEW stop, NEW s, NEW f, TakesTail(c, fn, arg, held, stop, s, f),
         Len(s) = stop
  PROVE  f.barrier = stop \/ \E g \in Fns : <<stop, stack[stop].id>> \in heap'[g].chain
<1> DEFINE u == Cut(stack, stop)
           t == stack[stop].id
<1>1. /\ stop \in 2 .. Len(stack) /\ stop \in 1 .. Len(stack) /\ s \in Seq(Frame)
      /\ \A q \in 1 .. stop - 1 : s[q] = stack[q]
      /\ s[stop] = Judged(stack[stop], f, stop, held)
      /\ MustStay(u, f.barrier, held)
      /\ f.barrier = BarrierFor(stack, heap[fn]) /\ f.barrier \in 1 .. stop
      /\ ~ AtCaller(heap[fn])
  BY TailFrames DEF TakesTail
<1>2. SUFFICES ASSUME f.barrier < stop, \A g \in Fns : <<stop, t>> \notin heap'[g].chain PROVE FALSE
  BY <1>1
<1>3. /\ held \in SUBSET Fns /\ RefsOK(heap, outer) /\ nextId <= MaxId + 1
      /\ StackOK(u, nextId) /\ Top(u) = stop /\ Len(u) = stop
      /\ \A q \in 1 .. stop : u[q] = stack[q]
  BY <1>1, TailFrames
<1>4. u[Top(u)].id = t /\ Counted(u[Top(u)]) /\ Len(u) >= 2 /\ t \in Ids /\ t # 0
  <2>1. u[Top(u)] = stack[stop]
    BY <1>1, <1>3
  <2>2. t \in Ids /\ t # 0
    BY <1>1, <1>3, StackFacts, FrameIds
  <2> QED
    BY <1>1, <1>3, <2>1, <2>2 DEF ClosInv, CountsOK
<1>5. StillSeen(u, heap, outer, held)
  BY <1>1, <1>2, <1>3 DEF MustStay
<1> HIDE DEF u
<1>6. PICK m \in Live(u, heap, outer, held) : m \in Nodes /\ t \in References(heap, outer, m)
  <2>1. Referrers(u, heap, outer, held) # {}
    BY <1>3, <1>4, <1>5, StillSeenIs
  <2> QED
    BY <1>4, <2>1 DEF Referrers
<1>7. PICK live, later : AfterTail(live, later, fn, arg, held, s, f)
  BY TailLive
<1>8. /\ live \in SUBSET Nodes /\ later \in SUBSET Fns /\ held = later \cup ({fn, arg} \cap Fns)
      /\ ClosedUnder(heap, outer, live)
      /\ later \cup Tokens(s) \cup FrameFns(s, 1 .. Len(s)) \cup BoundFns(f.bind) \subseteq live
      /\ \A g \in Fns : heap'[g] = IF g \in live THEN heap[g] ELSE FreeSlot
      /\ heap[fn].kind = "lambda" /\ f.bind = BodyBindings(fn, arg)
  BY <1>7 DEF AfterTail
<1>9. \A g \in live \cap Fns : t \notin Kept(heap, outer, g)
  <2> TAKE g \in live \cap Fns
  <2>1. t \in Kept(heap, outer, g) => <<stop, t>> \in heap[g].chain
    BY <1>1 DEF ClosInv, KeptSeen
  <2> QED
    BY <1>2, <1>8, <2>1
<1>10. t \notin Kept(heap, outer, fn)
  <2> SUFFICES ASSUME t \in Kept(heap, outer, fn) PROVE FALSE
    OBVIOUS
  <2>1. <<stop, t>> \in heap[fn].chain
    BY <1>1 DEF ClosInv, KeptSeen
  <2>2. stop \in StillOnStack(stack, heap[fn].chain)
    BY <1>1, <2>1 DEF StillOnStack
  <2>3. ~ heap[fn].foreign
    <3> SUFFICES ASSUME heap[fn].foreign PROVE FALSE
      OBVIOUS
    <3>1. {heap[fn].keep} \ {0} = {}
      BY DEF ClosInv, HeapShaped
    <3>2. Kept(heap, outer, fn) = {}
      BY <1>3, <3>1, ReachNone DEF Kept
    <3> QED
      BY <3>2
  <2>4. f.barrier = InnermostLive(stack, heap[fn].chain)
    BY <1>1, <2>3 DEF BarrierFor
  <2>5. stop <= InnermostLive(stack, heap[fn].chain)
    BY <2>2, StackFacts, InnermostLiveIn
  <2> QED
    BY <1>1, <1>2, <2>4, <2>5
<1>11. \A q \in 1 .. Len(s) : /\ q \in 1 .. stop /\ u[q].id = s[q].id /\ u[q].bind = s[q].bind
                              /\ u[q].token = s[q].token
                              /\ s[q].id = stack[q].id /\ s[q].token = stack[q].token
  <2> TAKE q \in 1 .. Len(s)
  <2>1. q \in 1 .. stop /\ u[q] = stack[q]
    BY <1>1, <1>3
  <2>2. q \in 1 .. stop - 1 \/ q = stop
    BY <1>1
  <2>3. CASE q \in 1 .. stop - 1
    BY <1>1, <2>1, <2>3
  <2>4. CASE q = stop
    <3>1. stack[stop] \in Frame
      BY <1>1, StackFacts, FrameAt
    <3>2. LET j == Judged(stack[stop], f, stop, held)
          IN  j.id = stack[stop].id /\ j.bind = stack[stop].bind /\ j.token = stack[stop].token
      BY <3>1 DEF Judged, Frame
    <3> QED
      BY <1>1, <2>1, <2>4, <3>2
  <2> QED
    BY <2>2, <2>3, <2>4
<1>12. HeapShaped(heap) /\ heap \in [Fns -> Closure]
  BY StackFacts DEF ClosInv, HeapOK
<1>13. /\ arg \in Fns => arg \in BoundFns(f.bind)
       /\ fn \in BoundFns(f.bind) \/ BoundFns(heap[fn].env) \subseteq BoundFns(f.bind)
       /\ References(heap, outer, fn) = BoundFns(heap[fn].env) \cup ({heap[fn].keep} \ {0})
  BY <1>8, <1>12, BodyFns
<1> DEFINE K == Kept(heap, outer, fn)
           Z == live \cup {fn} \cup K
<1>14. K \in SUBSET Ids /\ ClosedUnder(heap, outer, K) /\ {heap[fn].keep} \ {0} \subseteq K
  BY <1>3, KeptIs, ReachableIs DEF Kept
<1> HIDE DEF K
<1>15. Live(u, heap, outer, held) \subseteq Z
  <2>1. References(heap, outer, fn) \subseteq Z
    <3>1. BoundFns(heap[fn].env) \subseteq live
      <4>1. CASE fn \in BoundFns(f.bind)
        BY <1>8, <1>13, <4>1 DEF ClosedUnder
      <4>2. CASE BoundFns(heap[fn].env) \subseteq BoundFns(f.bind)
        BY <1>8, <4>2
      <4> QED
        BY <1>13, <4>1, <4>2
    <3> QED
      BY <1>13, <1>14, <3>1
  <2>2. ClosedUnder(heap, outer, Z)
    BY <1>8, <1>14, <2>1 DEF ClosedUnder
  <2>3. Z \in SUBSET Nodes
    BY <1>8, <1>14 DEF Nodes
  <2>4. held \subseteq Z
    BY <1>8, <1>13
  <2>5. Tokens(u) \subseteq Tokens(s)
    <3>1. \A q \in 2 .. Len(u) : q \in 1 .. Len(s) /\ q \in 2 .. Len(s)
      BY <1>3
    <3> QED
      BY <1>11, <3>1 DEF Tokens
  <2>6. FrameFns(u, 1 .. Len(u)) = FrameFns(s, 1 .. Len(s))
    BY <1>3, <1>11 DEF FrameFns
  <2>7. held \cup Tokens(u) \cup FrameFns(u, 1 .. Len(u)) \subseteq Z
    BY <1>8, <2>4, <2>5, <2>6
  <2> HIDE DEF Z
  <2> QED
    BY <1>3, <2>2, <2>3, <2>7, LiveIs
<1>16. m \in live
  <2>1. m # fn
    <3> SUFFICES ASSUME t \in References(heap, outer, fn) PROVE FALSE
      BY <1>6
    <3>1. t \notin Fns
      BY <1>4, NodesFinite
    <3>2. t \in K
      BY <1>13, <1>14, <3>1 DEF BoundFns
    <3> QED
      BY <1>10, <3>2 DEF K
  <2>2. m \notin K
    BY <1>6, <1>10, <1>14 DEF K, ClosedUnder
  <2> QED
    BY <1>6, <1>15, <2>1, <2>2
<1>17. m \notin Fns
  <2> SUFFICES ASSUME m \in Fns PROVE FALSE
    OBVIOUS
  <2>1. t \notin Fns
    BY <1>4, NodesFinite
  <2>2. t \in {heap[m].keep} \ {0}
    BY <1>6, <2>1 DEF References, BoundFns
  <2>3. t \in Kept(heap, outer, m)
    BY <1>3, <2>2, KeptIs, ReachableIs DEF Kept
  <2> QED
    BY <1>9, <1>16, <2>3
<1>18. m \in Tokens(s) \/ \E g \in live \cap Fns : m \in Kept(heap, outer, g)
  <2> DEFINE roots == later \cup FrameFns(s, 1 .. Len(s)) \cup BoundFns(f.bind)
  <2>1. roots \in SUBSET Fns
    BY <1>8 DEF FrameFns, BoundFns
  <2>2. /\ roots \cup Tokens(s) \subseteq live
        /\ \A Y \in SUBSET Nodes : roots \cup Tokens(s) \subseteq Y /\ ClosedUnder(heap, outer, Y)
                                     => live \subseteq Y
    <3>1. roots \cup Tokens(s) = later \cup Tokens(s) \cup FrameFns(s, 1 .. Len(s)) \cup BoundFns(f.bind)
      OBVIOUS
    <3> HIDE DEF roots
    <3> QED
      BY <1>7, <3>1 DEF AfterTail
  <2> HIDE DEF roots
  <2>3. Len(s) \in 1 .. Len(stack)
        /\ \A p \in 1 .. Len(s) : s[p].id = stack[p].id /\ s[p].token = stack[p].token
    BY <1>1, <1>11
  <2> QED
    BY <1>8, <1>16, <1>17, <2>1, <2>2, <2>3, LiveTokens
<1>19. \A g \in live \cap Fns : m \notin Kept(heap, outer, g)
  <2> SUFFICES ASSUME NEW g \in live \cap Fns, m \in Kept(heap, outer, g)
               PROVE  t \in Kept(heap, outer, g)
    BY <1>9
  <2>1. ClosedUnder(heap, outer, Kept(heap, outer, g))
    BY <1>3, KeptIs, ReachableIs DEF Kept
  <2> QED
    BY <1>6, <2>1 DEF ClosedUnder
<1>20. m \notin Tokens(s)
  <2> SUFFICES ASSUME NEW p \in 2 .. Len(s), s[p].token, m = s[p].id PROVE FALSE
    BY DEF Tokens
  <2>1. p \in 2 .. Len(stack) /\ p \in 1 .. Len(s) /\ p <= stop
    BY <1>1
  <2>2. stack[p].token /\ m = stack[p].id
    BY <1>11, <2>1
  <2>3. outer[m] = NextTcoId(stack, p)
    BY <2>1, <2>2 DEF ClosInv, TokensLinked
  <2>4. t = NextTcoId(stack, p)
    BY <1>6, <1>17, <2>3 DEF References
  <2>5. PICK q \in TcoPath(stack, p) : q < p /\ t = stack[q].id /\ q \in 2 .. p
    BY <1>4, <2>1, <2>4, StackFacts, NextTcoIs
  <2>6. q \in 1 .. Len(stack) /\ q # stop
    BY <1>1, <2>1, <2>5
  <2>7. q = stop
    BY <1>1, <2>5, <2>6, StackFacts, FrameIds
  <2> QED
    BY <2>6, <2>7
<1> QED
  BY <1>18, <1>19, <1>20
-----------------------------------------------------------------------------
(***************************************************************************)
(* Which frames a tail call uses again.                                    *)
(***************************************************************************)
\* A step in which a trampoline makes a tail call is one of the shape TailCalled.
LEMMA TailStepCalls ==
  ASSUME IInv, CallInv, [Next]_vars, TailStep
  PROVE  TailCalled
<1>1. /\ nextId' # nextId /\ Len(ctl') > 0 /\ Len(ctl) \in {Len(ctl'), Len(ctl') + 1}
  BY DEF TailStep
<1>2. Next
  BY <1>1 DEF vars
<1>3. ~ Narrowed
  BY <1>1, Zenon DEF Narrowed, Narrows
<1>4. ~ Made
  BY <1>1, Zenon DEF Made, Makes
<1>5. ~ Pushed
  <2> SUFFICES ASSUME NEW f, NEW at, NEW c, Pushes(f, at, c) PROVE FALSE
    BY DEF Pushed
  <2>1. ctl' = c /\ Len(c) > Len(ctl)
    BY Zenon DEF Pushes, Settle
  <2>2. Len(ctl) \in Nat
    BY DEF IInv, CtlOK, Stacked
  <2>3. Len(ctl') \in Int
    BY <1>1, <2>2
  <2> QED
    BY <1>1, <2>1, <2>2, <2>3
<1>6. ~ Renewed
  <2> SUFFICES ASSUME NEW v, Renews(v) PROVE FALSE
    BY DEF Renewed
  <2>1. ctl' = ctl /\ ctl[Len(ctl)].kind = "merge"
    BY Zenon DEF Renews, Settle, Here
  <2> QED
    BY <2>1 DEF TailStep
<1> QED
  BY <1>2, <1>3, <1>4, <1>5, <1>6, NextShaped DEF Shaped

\* What a tail call is, with everything the lemmas above ask of it.
TailTaken(c, fn, arg, held, stop, s, f) ==
  /\ Ready(c) /\ Outer(c) /\ c[Len(c)].kind = "tramp"
  /\ fn \in Fns /\ fn \in Known(heap) /\ arg \in Value
  /\ TakesTail(c, fn, arg, held, stop, s, f)

LEMMA TailStepTaken ==
  ASSUME IInv, CallInv, [Next]_vars, TailStep
  PROVE  \E c, fn, arg, held, stop, s, f : TailTaken(c, fn, arg, held, stop, s, f)
<1>1. PICK c, fn, arg : TailCalls(c, fn, arg)
  BY TailStepCalls DEF TailCalled
<1>2. /\ Ready(c) /\ c[Len(c)].kind = "tramp" /\ fn \in Fns /\ fn \in Known(heap)
      /\ arg \in Value /\ TailCall(c, fn, arg)
  BY <1>1 DEF TailCalls, Known
<1>3. Outer(c)
  BY <1>1, TailOuter
<1>4. PICK held, stop, s, f : TakesTail(c, fn, arg, held, stop, s, f)
  BY <1>2, TailCallIs
<1> QED
  BY <1>2, <1>3, <1>4 DEF TailTaken

\* The stack after a tail call, frame by frame.
LEMMA TailStack ==
  ASSUME IInv, NEW c, NEW fn, NEW arg, NEW held, NEW stop, NEW s, NEW f,
         TailTaken(c, fn, arg, held, stop, s, f)
  PROVE  /\ stop \in c[Len(c)].height + 1 .. Len(stack) /\ c[Len(c)].height \in Nat \ {0}
         /\ Len(stack) \in Nat /\ Len(s) \in {stop, stop - 1} /\ Len(s) \in Nat
         /\ Len(s) # stop => stop = c[Len(c)].height + 1
         /\ Len(stack') = Len(s) + 1 /\ stack'[Len(s) + 1] = f
         /\ \A p \in 1 .. Len(s) : stack'[p].id = stack[p].id
         /\ ctl'[Len(ctl')].frames = Len(s) + 1 - c[Len(c)].height
<1>1. /\ stop \in c[Len(c)].height + 1 .. Len(stack) /\ Len(s) \in {stop, stop - 1}
      /\ Len(s) # stop => stop = c[Len(c)].height + 1
      /\ s \in Seq(Frame) /\ \A p \in 1 .. stop - 1 : s[p] = stack[p]
      /\ Len(s) = stop => s[stop] = Judged(stack[stop], f, stop, held)
  BY DEF TailTaken, TakesTail
<1>2. /\ stack' = Append(s, f)
      /\ ctl' = [c EXCEPT ![Len(c)].frames = Len(s) + 1 - c[Len(c)].height]
  BY DEF TailTaken, TakesTail, Settle
<1>3. Len(stack) \in Nat /\ stack \in Seq(Frame)
  BY StackFacts
<1>4. c \in Seq(Activation) /\ c # <<>> /\ c[Len(c)].height \in Nat \ {0}
  <2>1. c \in Seq(Activation) /\ c # <<>> /\ Stacked(c, Len(stack))
    BY DEF TailTaken, Ready, Stacked
  <2>2. c[Len(c)].height \in 1 .. Len(stack)
    BY <2>1, HeightIn
  <2> QED
    BY <2>1, <2>2, <1>3
<1>5. ctl'[Len(ctl')].frames = Len(s) + 1 - c[Len(c)].height
  <2> DEFINE m == Len(s) + 1 - c[Len(c)].height
  <2>1. ctl' = [c EXCEPT ![Len(c)].frames = m]
    BY <1>2
  <2> HIDE DEF m
  <2>2. Len(c) \in 1 .. Len(c)
    BY <1>4
  <2>3. c[Len(c)] \in Activation
    BY <1>4, <2>2
  <2>4. Len(ctl') = Len(c) /\ ctl'[Len(c)] = [c[Len(c)] EXCEPT !.frames = m]
    BY <1>4, <2>1, <2>2
  <2>5. ctl'[Len(ctl')].frames = m
    BY <2>3, <2>4 DEF Activation
  <2> QED
    BY <2>5 DEF m
<1>6. Len(stack') = Len(s) + 1 /\ stack'[Len(s) + 1] = f /\ \A p \in 1 .. Len(s) : stack'[p] = s[p]
  BY <1>1, <1>2
<1>7. \A p \in 1 .. Len(s) : s[p].id = stack[p].id
  <2> SUFFICES ASSUME NEW p \in 1 .. Len(s) PROVE s[p].id = stack[p].id
    OBVIOUS
  <2>1. CASE p \in 1 .. stop - 1
    BY <1>1, <2>1
  <2>2. CASE p = stop /\ Len(s) = stop
    <3>1. stack[stop] \in Frame
      BY <1>1, <1>3, <1>4
    <3> QED
      BY <1>1, <2>2, <3>1 DEF Judged, Frame
  <2>3. p \in 1 .. stop - 1 \/ (p = stop /\ Len(s) = stop)
    BY <1>1, <1>4, <1>3
  <2> QED
    BY <2>1, <2>2, <2>3
<1>8. Len(s) \in Nat
  BY <1>1
<1> QED
  BY <1>1, <1>3, <1>4, <1>5, <1>6, <1>7, <1>8

\* The step's part of NoFrameReusedWhileSeen.
LEMMA ReusedUnseen ==
  ASSUME ScopesInv, ScopesInv', [Next]_vars, TailStep, NEW p \in 1 .. Len(stack),
         ~ (p <= Len(stack') /\ stack'[p].id = stack[p].id),
         NEW g \in Fns, ~ heap'[g].foreign
  PROVE  <<p, stack[p].id>> \notin heap'[g].chain
<1>1. IInv /\ CallInv /\ ClosInv(stack, heap, outer) /\ IInv'
  BY DEF ScopesInv
<1>2. PICK c, fn, arg, held, stop, s, f : TailTaken(c, fn, arg, held, stop, s, f)
  BY <1>1, TailStepTaken
<1>3. /\ Len(stack) \in Nat /\ Len(s) \in {stop, stop - 1} /\ Len(s) \in Nat
      /\ Len(stack') = Len(s) + 1
      /\ \A q \in 1 .. Len(s) : stack'[q].id = stack[q].id
      /\ stop \in Int
  BY <1>1, <1>2, TailStack
<1>4. ~ (p <= Len(s))
  BY <1>3
<1>5. p \in stop .. Len(stack) /\ p > Len(s)
  BY <1>3, <1>4
<1> QED
  BY <1>1, <1>2, <1>5, DroppedUnseen DEF TailTaken

\* The step's part of TailLoopsStayFlat.
LEMMA KeptIsSeen ==
  ASSUME ScopesInv, ScopesInv', [Next]_vars, TailStep, ctl'[Len(ctl')].frames > 1
  PROVE  LET q == Len(stack') - 1
         IN  \/ stack'[q + 1].barrier = q
             \/ \E f \in Fns : <<q, stack'[q].id>> \in heap'[f].chain
<1>1. IInv /\ CallInv /\ ClosInv(stack, heap, outer) /\ IInv'
  BY DEF ScopesInv
<1>2. PICK c, fn, arg, held, stop, s, f : TailTaken(c, fn, arg, held, stop, s, f)
  BY <1>1, TailStepTaken
<1>3. /\ stop \in c[Len(c)].height + 1 .. Len(stack) /\ c[Len(c)].height \in Nat \ {0}
      /\ Len(stack) \in Nat /\ Len(s) \in {stop, stop - 1} /\ Len(s) \in Nat
      /\ Len(s) # stop => stop = c[Len(c)].height + 1
      /\ Len(stack') = Len(s) + 1 /\ stack'[Len(s) + 1] = f
      /\ \A q \in 1 .. Len(s) : stack'[q].id = stack[q].id
      /\ ctl'[Len(ctl')].frames = Len(s) + 1 - c[Len(c)].height
  BY <1>1, <1>2, TailStack
<1>4. Len(s) = stop
  BY <1>3
<1>5. f.barrier = stop \/ \E g \in Fns : <<stop, stack[stop].id>> \in heap'[g].chain
  BY <1>1, <1>2, <1>4, KeptForOne DEF TailTaken
<1>6. Len(stack') - 1 = stop /\ stack'[stop + 1] = f /\ stack'[stop].id = stack[stop].id
  BY <1>3, <1>4
<1> QED
  BY <1>5, <1>6

\* A tail call uses a trampoline's frame again just when nothing left can see it:
\* it never takes a frame from a closure of this evaluator that was made in it or
\* above it, and a frame it keeps under its own is the callee's defining scope or
\* is seen by a closure.  This is what enter_tail_call decides by counting the
\* handles of a frame's scope token, whatever closures refer to one another, and
\* what keeps tail recursion both correct and in constant space.
THEOREM FramesReusedRight == Spec => FrameReusedIffUnseen
<1>1. ScopesInv /\ ScopesInv' /\ [Next]_vars =>
        [TailStep =>
           \A p \in 1 .. Len(stack) :
             \/ p <= Len(stack') /\ stack'[p].id = stack[p].id
             \/ \A f \in Fns : heap'[f].foreign \/ <<p, stack[p].id>> \notin heap'[f].chain]_vars
  BY ReusedUnseen
<1>2. ScopesInv /\ ScopesInv' /\ [Next]_vars =>
        [TailStep /\ ctl'[Len(ctl')].frames > 1 =>
           LET q == Len(stack') - 1
           IN  \/ stack'[q + 1].barrier = q
               \/ \E f \in Fns : <<q, stack'[q].id>> \in heap'[f].chain]_vars
  BY KeptIsSeen
<1>3. Spec => NoFrameReusedWhileSeen
  BY <1>1, ScopesAgree, PTL DEF Spec, NoFrameReusedWhileSeen
<1>4. Spec => TailLoopsStayFlat
  BY <1>2, ScopesAgree, PTL DEF Spec, TailLoopsStayFlat
<1> QED
  BY <1>3, <1>4 DEF FrameReusedIffUnseen

-----------------------------------------------------------------------------
(***************************************************************************)
(* The scopes implement environments: every step of an evaluation is, of   *)
(* the environments its frames stand for, a step of Environments or none.  *)
(***************************************************************************)
(***************************************************************************)
(* The environments a stack of frames stands for.                          *)
(***************************************************************************)
EnvOf(s, p) == [id |-> s[p].id, home |-> s[p].home, sees |-> Sees(s, p)]
Envs(s) == [p \in 1 .. Len(s) |-> EnvOf(s, p)]
IdsOf(s) == {s[p].id : p \in 1 .. Len(s)}

LEMMA EnvsAre ==
  ASSUME NEW s, Len(s) \in Nat
  PROVE  /\ Len(Envs(s)) = Len(s) /\ DOMAIN Envs(s) = 1 .. Len(s)
         /\ \A p \in 1 .. Len(s) : Envs(s)[p] = EnvOf(s, p)
         /\ Env!ActiveIds(Envs(s)) = IdsOf(s)
<1>1. DOMAIN Envs(s) = 1 .. Len(s) /\ \A p \in 1 .. Len(s) : Envs(s)[p] = EnvOf(s, p)
  BY DEF Envs
<1>2. Len(Envs(s)) = Len(s)
  BY DEF Envs
<1>3. \A p \in 1 .. Len(s) : EnvOf(s, p).id = s[p].id
  BY DEF EnvOf
<1> QED
  BY <1>1, <1>2, <1>3 DEF Env!ActiveIds, IdsOf

LEMMA SeesOnStack ==
  ASSUME NEW s, NEW n, StackOK(s, n), NEW p \in 1 .. Len(s)
  PROVE  Sees(s, p) \subseteq IdsOf(s)
<1>1. Path(s, p) \in SUBSET (1 .. p) /\ Len(s) \in Nat
  BY PathClosed DEF StackOK, Grounded
<1> QED
  BY <1>1 DEF Sees, IdsOf

\* Frames that differ in what no environment has.
LEMMA EnvsSame ==
  ASSUME NEW s, Len(s) \in Nat, NEW t, Len(t) = Len(s),
         \A p \in 1 .. Len(s) :
           t[p].id = s[p].id /\ t[p].barrier = s[p].barrier /\ t[p].home = s[p].home
  PROVE  Envs(t) = Envs(s) /\ IdsOf(t) = IdsOf(s)
<1>1. ASSUME NEW p \in 1 .. Len(s) PROVE EnvOf(t, p) = EnvOf(s, p)
  <2>1. Path(t, p) = Path(s, p)
    BY PathAgree
  <2>2. Path(s, p) \subseteq 1 .. Len(s)
    BY DEF Path
  <2> QED
    BY <2>1, <2>2 DEF EnvOf, Sees
<1> QED
  BY <1>1 DEF Envs, IdsOf

LEMMA EnvsCut ==
  ASSUME NEW s \in Seq(Frame), NEW k \in 1 .. Len(s)
  PROVE  Envs(Cut(s, k)) = SubSeq(Envs(s), 1, k)
<1>1. k \in 0 .. Len(s) /\ Len(s) \in Nat
  OBVIOUS
<1>2. Len(Cut(s, k)) = k /\ \A p \in 1 .. k : Cut(s, k)[p] = s[p]
  BY <1>1, CutFrames
<1>3. \A p \in 1 .. k : EnvOf(Cut(s, k), p) = EnvOf(s, p)
  BY <1>2, CutSees DEF EnvOf
<1>4. Envs(Cut(s, k)) = [p \in 1 .. k |-> EnvOf(s, p)]
  BY <1>2, <1>3 DEF Envs
<1>5. SubSeq(Envs(s), 1, k) = [p \in 1 .. k |-> Envs(s)[p]]
  BY <1>1
<1>6. \A p \in 1 .. k : Envs(s)[p] = EnvOf(s, p)
  BY <1>1, EnvsAre
<1> QED
  BY <1>4, <1>5, <1>6

\* A frame pushed where its code sees `seen` is an environment inside that place.
LEMMA EnvsPush ==
  ASSUME NEW s, NEW n, StackOK(s, n), NEW f \in Frame, NEW m, StackOK(Append(s, f), m),
         NEW seen, f.home = seen \cap IdsOf(s)
  PROVE  Envs(Append(s, f)) = Env!Inside(Envs(s), seen, f.id)
<1> DEFINE t == Append(s, f)
           k == Len(s)
           e == [id |-> f.id, home |-> f.home, sees |-> {f.id} \cup f.home]
<1>1. s \in Seq(Frame) /\ k \in Nat /\ Len(t) = k + 1 /\ t[k + 1] = f
  BY DEF StackOK
<1>2. Env!Inside(Envs(s), seen, f.id) = Append(Envs(s), e)
  BY <1>1, EnvsAre DEF Env!Inside
<1>3. EnvOf(t, k + 1) = e
  <2>1. k + 1 \in 1 .. Len(t)
    BY <1>1
  <2>2. Sees(t, k + 1) = {t[k + 1].id} \cup t[k + 1].home
    BY <2>1 DEF StackOK, Lexical
  <2> QED
    BY <1>1, <2>2 DEF EnvOf
<1>4. \A p \in 1 .. k : EnvOf(t, p) = EnvOf(s, p)
  BY <1>1, PushSees DEF EnvOf
<1>5. Len(Envs(s)) = k /\ \A p \in 1 .. k : Envs(s)[p] = EnvOf(s, p)
  BY <1>1, EnvsAre
<1> HIDE DEF e, k, t
<1>6. Envs(t) = [p \in 1 .. k + 1 |-> EnvOf(t, p)]
  BY <1>1 DEF Envs
<1>7. Append(Envs(s), e) = [p \in 1 .. k + 1 |-> IF p \in 1 .. k THEN EnvOf(s, p) ELSE e]
  <2>1. Append(Envs(s), e) = [p \in 1 .. Len(Envs(s)) + 1 |->
                                IF p \in 1 .. Len(Envs(s)) THEN Envs(s)[p] ELSE e]
    BY <1>1, <1>5 DEF Envs, k
  <2> QED
    BY <1>5, <2>1
<1>8. \A p \in 1 .. k + 1 : p \in 1 .. k \/ p = k + 1
  BY <1>1
<1>9. k + 1 \notin 1 .. k
  BY <1>1
<1> QED
  BY <1>2, <1>3, <1>4, <1>6, <1>7, <1>8, <1>9 DEF t
-----------------------------------------------------------------------------
(***************************************************************************)
(* An id a function has kept is the id of one frame, at one position.      *)
(***************************************************************************)
Placed(s, chain) == \A q \in 1 .. Len(s), pair \in chain : pair[2] = s[q].id => pair[1] = q

PlacesInv ==
  /\ stack[Root].id = 0
  /\ \A f \in Fns : ~ heap[f].foreign => Placed(stack, heap[f].chain)

\* What a closure sees, of the environments there are.
ScopeOf(c) ==
  IF c.kind = "free" THEN {} ELSE IF c.foreign THEN {0} ELSE {0} \cup {pair[2] : pair \in c.chain}

LEMMA FreeSlotChain == FreeSlot.chain = {} /\ FreeSlot.kind = "free" /\ ~ FreeSlot.foreign
BY DEF FreeSlot

LEMMA ScopesAre == ScopeOfFunction = [f \in Fns |-> ScopeOf(heap[f])]
BY DEF ScopeOfFunction, ScopeOf

\* A step leaves a closure as it was, or frees it.
KeptOrFreed(h, f) == heap'[f] = h[f] \/ heap'[f] = FreeSlot

LEMMA SettledOrFreed ==
  ASSUME NEW s, NEW h, NEW o, NEW c, NEW v, Settle(s, h, o, c, v), NEW f \in Fns
  PROVE  KeptOrFreed(h, f)
BY Zenon DEF Settle, KeptOrFreed

LEMMA PlacedPrefix ==
  ASSUME NEW s, Len(s) \in Nat, NEW t, Len(t) \in Nat, Len(t) <= Len(s),
         \A p \in 1 .. Len(t) : t[p].id = s[p].id, NEW chain, Placed(s, chain)
  PROVE  Placed(t, chain)
<1>1. \A p \in 1 .. Len(t) : p \in 1 .. Len(s)
  OBVIOUS
<1> QED
  BY <1>1 DEF Placed

LEMMA PlacedPush ==
  ASSUME NEW s, Len(s) \in Nat, NEW t, Len(t) = Len(s) + 1,
         \A p \in 1 .. Len(s) : t[p].id = s[p].id,
         NEW n \in Nat, t[Len(s) + 1].id = n,
         NEW chain \in SUBSET (Nat \X Nat), ChainBefore(chain, n), Placed(s, chain)
  PROVE  Placed(t, chain)
<1> SUFFICES ASSUME NEW q \in 1 .. Len(t), NEW pair \in chain, pair[2] = t[q].id
             PROVE  pair[1] = q
  BY DEF Placed
<1>1. CASE q \in 1 .. Len(s)
  BY <1>1 DEF Placed
<1>2. CASE q = Len(s) + 1
  <2>1. pair[2] < n /\ pair[2] \in Nat
    BY DEF ChainBefore
  <2>2. pair[2] = n
    BY <1>2
  <2> QED
    BY <2>1, <2>2
<1> QED
  BY <1>1, <1>2

\* A closure of a step's own state, with the facts its chain has.
LEMMA ChainsTyped ==
  ASSUME IInv, NEW f \in Fns, ~ heap[f].foreign
  PROVE  /\ heap[f].chain \in SUBSET (Nat \X Nat) /\ ChainBefore(heap[f].chain, nextId)
         /\ nextId \in Nat /\ nextId # 0
<1>1. HeapOK(heap, stack, nextId) /\ stack \in Seq(Frame) /\ Len(stack) \in Nat \ {0}
      /\ nextId \in Nat /\ StackOK(stack, nextId)
  BY StackFacts
<1>2. heap[f] \in Closure /\ ChainBefore(heap[f].chain, nextId)
  BY <1>1 DEF HeapOK
<1>3. heap[f].chain \in SUBSET (Nat \X Nat)
  BY <1>2 DEF Closure
<1>4. Root \in 1 .. Len(stack)
  BY <1>1 DEF Root
<1>5. stack[Root].id \in Nat /\ stack[Root].id < nextId
  BY <1>1, <1>4, FrameAt DEF StackOK, Ordered
<1> QED
  BY <1>1, <1>2, <1>3, <1>5

LEMMA RootFirst == ASSUME IInv PROVE Root \in 1 .. Len(stack)
BY StackFacts DEF Root

LEMMA SettledPlaces ==
  ASSUME NEW s, NEW h, NEW o, NEW c, NEW v, Settle(s, h, o, c, v), s[Root].id = 0,
         \A f \in Fns : ~ h[f].foreign => Placed(s, h[f].chain)
  PROVE  PlacesInv'
<1>1. stack' = s
  BY DEF Settle
<1>2. ASSUME NEW f \in Fns, ~ heap'[f].foreign PROVE Placed(s, heap'[f].chain)
  <2>1. CASE heap'[f] = h[f]
    BY <1>2, <2>1
  <2>2. CASE heap'[f] = FreeSlot
    BY <2>2, FreeSlotChain DEF Placed
  <2> QED
    BY <2>1, <2>2, SettledOrFreed DEF KeptOrFreed
<1> QED
  BY <1>1, <1>2 DEF PlacesInv

LEMMA NarrowsPlaces ==
  ASSUME IInv, PlacesInv, NEW k, NEW s, NEW c, NEW v, Narrows(k, s, c, v)
  PROVE  PlacesInv' /\ Envs(stack') = SubSeq(Envs(stack), 1, k) /\ k \in 1 .. Len(stack)
<1>1. /\ k \in 1 .. Len(stack) /\ OnlyBindings(Cut(stack, k), s)
      /\ Settle(s, heap, outer, c, v)
  BY DEF Narrows
<1>2. stack \in Seq(Frame) /\ Len(stack) \in Nat \ {0} /\ k \in 0 .. Len(stack)
  BY <1>1, StackFacts
<1>3. Len(Cut(stack, k)) = k /\ \A p \in 1 .. k : Cut(stack, k)[p] = stack[p]
  BY <1>2, CutFrames
<1>4. /\ Len(s) = k
      /\ \A p \in 1 .. k : /\ s[p].id = stack[p].id /\ s[p].barrier = Cut(stack, k)[p].barrier
                           /\ s[p].home = Cut(stack, k)[p].home /\ s[p].id = Cut(stack, k)[p].id
  BY <1>1, <1>3 DEF OnlyBindings
<1>5. Envs(s) = Envs(Cut(stack, k))
  <2>1. Len(Cut(stack, k)) \in Nat
    BY <1>1, <1>3
  <2> QED
    BY <1>3, <1>4, <2>1, EnvsSame
<1>6. Envs(stack') = SubSeq(Envs(stack), 1, k)
  BY <1>1, <1>2, <1>5, EnvsCut DEF Settle
<1>7. s[Root].id = 0
  <2>1. Root \in 1 .. k
    BY <1>1 DEF Root
  <2> QED
    BY <1>4, <2>1 DEF PlacesInv
<1>8. ASSUME NEW f \in Fns, ~ heap[f].foreign PROVE Placed(s, heap[f].chain)
  <2>1. Len(s) \in Nat /\ Len(s) <= Len(stack)
    BY <1>1, <1>2, <1>4
  <2> QED
    BY <1>2, <1>4, <1>8, <2>1, PlacedPrefix DEF PlacesInv
<1> QED
  BY <1>1, <1>6, <1>7, <1>8, SettledPlaces

LEMMA PushesPlaces ==
  ASSUME IInv, PlacesInv, IInv', NEW f, NEW at, NEW c, Pushes(f, at, c)
  PROVE  /\ PlacesInv' /\ at \in 1 .. Len(stack)
         /\ Envs(stack') = Env!Inside(Envs(stack), Sees(stack, at), nextId)
<1>1. /\ f \in Frame /\ f.id = nextId /\ at \in 1 .. Len(stack) /\ f.home = Sees(stack, at)
      /\ Settle(Append(stack, f), heap, outer, c, Data)
  BY DEF Pushes
<1>2. StackOK(stack, nextId) /\ stack \in Seq(Frame) /\ Len(stack) \in Nat
  BY StackFacts
<1>3. StackOK(Append(stack, f), nextId')
  BY <1>1 DEF IInv, Settle
<1>4. f.home = Sees(stack, at) \cap IdsOf(stack)
  BY <1>1, <1>2, SeesOnStack
<1>5. Envs(stack') = Env!Inside(Envs(stack), Sees(stack, at), nextId)
  BY <1>1, <1>2, <1>3, <1>4, EnvsPush DEF Settle
<1>6. /\ Len(Append(stack, f)) = Len(stack) + 1 /\ Append(stack, f)[Len(stack) + 1] = f
      /\ \A p \in 1 .. Len(stack) : Append(stack, f)[p] = stack[p]
  BY <1>1, <1>2
<1>7. Append(stack, f)[Root].id = 0
  BY <1>6, RootFirst DEF PlacesInv
<1>8. ASSUME NEW g \in Fns, ~ heap[g].foreign PROVE Placed(Append(stack, f), heap[g].chain)
  <2>1. /\ heap[g].chain \in SUBSET (Nat \X Nat) /\ ChainBefore(heap[g].chain, nextId)
        /\ nextId \in Nat /\ Placed(stack, heap[g].chain)
    BY <1>8, ChainsTyped DEF PlacesInv
  <2> QED
    BY <1>1, <1>2, <1>6, <2>1, PlacedPush
<1> QED
  BY <1>1, <1>5, <1>7, <1>8, SettledPlaces

\* A scope cleared is an environment of its own in the place of the one before.
LEMMA RenewsPlaces ==
  ASSUME IInv, PlacesInv, IInv', NEW v, NEW s, Clears(v, s), nextId' = nextId + 1
  PROVE  /\ PlacesInv' /\ Len(stack) > 1
         /\ Envs(stack') = [Envs(stack) EXCEPT ![Len(stack)] =
              [id |-> nextId, home |-> @.home, sees |-> {nextId} \cup @.home]]
<1> DEFINE n == Len(stack)
           e == [id |-> nextId, home |-> stack[n].home, sees |-> {nextId} \cup stack[n].home]
           low == Cut(stack, n - 1)
<1>1. /\ n \in Nat /\ n > 1 /\ n \in 1 .. n /\ n - 1 \in Nat /\ n - 1 \in 0 .. n
      /\ Root \in 1 .. n - 1 /\ stack \in Seq(Frame) /\ Len(s) = n /\ s[n].id = nextId
      /\ \A p \in 1 .. n : p # n => s[p] = stack[p]
      /\ \A p \in 1 .. n : s[p].home = stack[p].home
      /\ Settle(s, heap, outer, ctl, Data) /\ stack' = s
  BY DEF Clears, Root, Settle
<1>2. StackOK(stack, nextId) /\ StackOK(s, nextId')
  BY <1>1, StackFacts, StackNow
<1>3. /\ EnvOf(s, n) = e
      /\ EnvOf(stack, n).home = stack[n].home
      /\ \A p \in 1 .. n : p # n => EnvOf(s, p) = EnvOf(stack, p)
  <2>1. \A p \in 1 .. n : /\ Sees(s, p) = {s[p].id} \cup s[p].home
                           /\ Sees(stack, p) = {stack[p].id} \cup stack[p].home
    BY <1>1, <1>2 DEF StackOK, Lexical
  <2> QED
    BY <1>1, <2>1 DEF EnvOf
<1>4. Envs(s) = [Envs(stack) EXCEPT ![n] =
                  [id |-> nextId, home |-> @.home, sees |-> {nextId} \cup @.home]]
  <2>1. Envs(stack) = [p \in 1 .. n |-> EnvOf(stack, p)]
    BY DEF Envs
  <2>2. Envs(s) = [p \in 1 .. n |-> EnvOf(s, p)]
    BY <1>1 DEF Envs
  <2>3. \A p \in 1 .. n : EnvOf(s, p) = IF p = n THEN e ELSE EnvOf(stack, p)
    BY <1>3
  <2>4. Envs(stack)[n].home = stack[n].home
    BY <1>1, <1>3, <2>1
  <2> HIDE DEF n, e
  <2>5. Envs(s) = [Envs(stack) EXCEPT ![n] = e]
    BY <1>1, <2>1, <2>2, <2>3
  <2> QED
    BY <2>4, <2>5 DEF e
<1>5. s[Root].id = 0
  BY <1>1 DEF PlacesInv
<1>6. /\ Len(low) = n - 1 /\ \A p \in 1 .. n - 1 : low[p] = stack[p]
  BY <1>1, CutFrames
<1>7. ASSUME NEW g \in Fns, ~ heap[g].foreign PROVE Placed(s, heap[g].chain)
  <2>1. /\ heap[g].chain \in SUBSET (Nat \X Nat) /\ ChainBefore(heap[g].chain, nextId)
        /\ nextId \in Nat /\ Placed(stack, heap[g].chain)
    BY <1>7, ChainsTyped DEF PlacesInv
  <2>2. Placed(low, heap[g].chain)
    <3>1. /\ Len(low) <= Len(stack) /\ Len(low) \in Nat /\ Len(stack) \in Nat
          /\ \A p \in 1 .. Len(low) : low[p].id = stack[p].id
      BY <1>1, <1>6
    <3> HIDE DEF low
    <3> QED
      BY <2>1, <3>1, PlacedPrefix
  <2>3. /\ Len(s) = Len(low) + 1 /\ s[Len(low) + 1].id = nextId /\ Len(low) \in Nat
        /\ \A p \in 1 .. Len(low) : s[p].id = low[p].id
    <3>1. \A p \in 1 .. n - 1 : p \in 1 .. n /\ p # n
      BY <1>1
    <3>2. n - 1 + 1 = n
      BY <1>1
    <3> QED
      BY <1>1, <1>6, <3>1, <3>2
  <2> HIDE DEF low
  <2> QED
    BY <2>1, <2>2, <2>3, PlacedPush
<1> QED
  BY <1>1, <1>4, <1>5, <1>7, SettledPlaces

\* What a function made now sees is what the frame on top sees.
LEMMA MadeSees ==
  ASSUME IInv, PlacesInv
  PROVE  /\ {0} \cup {pair[2] : pair \in Chain(stack)} = Sees(stack, Top(stack))
         /\ Placed(stack, Chain(stack))
<1>1. Top(stack) \in 1 .. Len(stack) /\ Grounded(stack)
  BY StackFacts DEF Top
<1>2. Root \in Path(stack, Top(stack)) /\ Path(stack, Top(stack)) \in SUBSET (1 .. Top(stack))
  BY <1>1, RootOnPath, PathClosed
<1>3. stack[Root].id = 0
  BY DEF PlacesInv
<1>4. {pair[2] : pair \in Chain(stack)} = {stack[p].id : p \in Path(stack, Top(stack)) \ {Root}}
  <2> DEFINE seen == Path(stack, Top(stack)) \ {Root}
  <2>1. Chain(stack) = {<<p, stack[p].id>> : p \in seen}
    BY DEF Chain
  <2>2. \A p : <<p, stack[p].id>>[2] = stack[p].id
    OBVIOUS
  <2> HIDE DEF seen
  <2>3. {pair[2] : pair \in Chain(stack)} \subseteq {stack[p].id : p \in seen}
    BY <2>1, <2>2
  <2>4. ASSUME NEW p \in seen PROVE stack[p].id \in {pair[2] : pair \in Chain(stack)}
    <3>1. <<p, stack[p].id>> \in Chain(stack)
      BY <2>1
    <3> QED
      BY <2>2, <3>1
  <2> QED
    BY <2>3, <2>4 DEF seen
<1>5. {0} \cup {pair[2] : pair \in Chain(stack)} = Sees(stack, Top(stack))
  BY <1>2, <1>3, <1>4 DEF Sees
<1>6. Placed(stack, Chain(stack))
  <2> SUFFICES ASSUME NEW q \in 1 .. Len(stack), NEW p \in Path(stack, Top(stack)) \ {Root},
                      stack[p].id = stack[q].id
               PROVE  p = q
    BY DEF Placed, Chain
  <2>1. p \in 1 .. Len(stack)
    BY <1>1, <1>2
  <2> QED
    BY <2>1, StackFacts, FrameIds
<1> QED
  BY <1>5, <1>6

LEMMA MakesPlaces ==
  ASSUME IInv, PlacesInv, NEW new, NEW h, NEW s, NEW v, Makes(new, h, s, v)
  PROVE  PlacesInv' /\ Envs(stack') = Envs(stack)
<1>1. /\ \A f \in new : f \in Fns /\ MadeNow(new, h, f)
      /\ \A f \in Fns \ new : h[f] = heap[f]
      /\ Tokenises(s) /\ Settle(s, h, OuterTokens(stack), ctl, v)
  BY DEF Makes
<1>2. Len(stack) \in Nat
  BY StackFacts
<1>3. /\ Len(s) = Len(stack)
      /\ \A p \in 1 .. Len(stack) :
           s[p].id = stack[p].id /\ s[p].barrier = stack[p].barrier /\ s[p].home = stack[p].home
  BY <1>1 DEF Tokenises
<1>4. Envs(stack') = Envs(stack)
  BY <1>1, <1>2, <1>3, EnvsSame DEF Settle
<1>5. s[Root].id = 0
  BY <1>3, RootFirst DEF PlacesInv
<1>6. \A chain : Placed(stack, chain) => Placed(s, chain)
  BY <1>2, <1>3, PlacedPrefix
<1>7. ASSUME NEW f \in Fns, ~ h[f].foreign PROVE Placed(s, h[f].chain)
  <2>1. CASE f \notin new
    BY <1>1, <1>6, <1>7, <2>1 DEF PlacesInv
  <2>2. CASE f \in new /\ h[f].kind = "comp"
    <3>1. h[f].chain = {}
      BY <1>1, <2>2 DEF MadeNow
    <3> QED
      BY <3>1 DEF Placed
  <2>3. CASE f \in new /\ h[f].kind # "comp"
    <3>1. h[f].chain = Chain(stack)
      BY <1>1, <2>3 DEF MadeNow
    <3> QED
      BY <1>6, <3>1, MadeSees
  <2> QED
    BY <2>1, <2>2, <2>3
<1> QED
  BY <1>1, <1>4, <1>5, <1>7, SettledPlaces
-----------------------------------------------------------------------------
(***************************************************************************)
(* Every step, of the environments.                                        *)
(***************************************************************************)
LEMMA ActiveAre ==
  /\ ActiveEnvironments = Envs(stack) /\ ActiveEnvironments' = Envs(stack')
  /\ ScopeOfFunction = [f \in Fns |-> ScopeOf(heap[f])]
  /\ ScopeOfFunction' = [f \in Fns |-> ScopeOf(heap'[f])]
<1>1. ActiveEnvironments = Envs(stack) /\ ActiveEnvironments' = Envs(stack')
  BY DEF ActiveEnvironments, Envs, EnvOf
<1>2. ScopeOfFunction' = [f \in Fns |-> ScopeOf(heap'[f])]
  BY DEF ScopeOfFunction, ScopeOf
<1> QED
  BY <1>1, <1>2, ScopesAre

LEMMA FreeScope == ScopeOf(FreeSlot) = {}
BY DEF ScopeOf, FreeSlot

\* The functions a step does not make keep their scope or are dropped.
LEMMA ScopesDrop ==
  ASSUME NEW s, NEW h, NEW o, NEW c, NEW v, Settle(s, h, o, c, v),
         NEW new, \A f \in Fns \ new : h[f] = heap[f]
  PROVE  \A f \in Fns \ new : ScopeOfFunction'[f] \in {ScopeOfFunction[f], {}}
<1> TAKE f \in Fns \ new
<1>1. heap'[f] = heap[f] \/ heap'[f] = FreeSlot
  BY SettledOrFreed DEF KeptOrFreed
<1>2. ScopeOf(heap'[f]) \in {ScopeOf(heap[f]), {}}
  BY <1>1, FreeScope
<1> QED
  BY <1>2, ActiveAre

LEMMA Dropped ==
  ASSUME NEW s, NEW c, NEW v, Settle(s, heap, outer, c, v)
  PROVE  Env!Dropping
BY ScopesDrop DEF Env!Dropping

\* The ids taken, after a push.
LEMMA IdTaken ==
  ASSUME IInv, nextId' = nextId + 1, nextId <= MaxId
  PROVE  Env!NewId(nextId) /\ nextId \in Ids
<1>1. nextId \in Nat
  BY StackFacts
<1>2. nextId # 0
  <2>1. stack[Root].id \in Nat /\ stack[Root].id < nextId
    BY RootFirst, StackFacts, FrameAt DEF StackOK, Ordered
  <2> QED
    BY <1>1, <2>1
<1>3. nextId \in Ids /\ nextId \notin 1 .. nextId - 1
  BY <1>1, <1>2, ClosuresAssumption DEF Ids
<1>4. 1 .. nextId' - 1 = (1 .. nextId - 1) \cup {nextId}
  BY <1>1, <1>2
<1> QED
  BY <1>3, <1>4 DEF Env!NewId

LEMMA EnvironmentsThere ==
  ASSUME IInv
  PROVE  /\ Len(Envs(stack)) = Len(stack) /\ DOMAIN Envs(stack) = 1 .. Len(stack)
         /\ Len(stack) \in Nat \ {0}
         /\ \A p \in 1 .. Len(stack) : Envs(stack)[p].sees = Sees(stack, p)
<1>1. Len(stack) \in Nat \ {0}
  BY StackFacts
<1>2. /\ Len(Envs(stack)) = Len(stack) /\ DOMAIN Envs(stack) = 1 .. Len(stack)
      /\ \A p \in 1 .. Len(stack) : Envs(stack)[p] = EnvOf(stack, p)
  BY <1>1, EnvsAre
<1>3. \A p \in 1 .. Len(stack) : Envs(stack)[p].sees = Sees(stack, p)
  BY <1>2 DEF EnvOf
<1> QED
  BY <1>1, <1>2, <1>3

LEMMA NarrowsLeaves ==
  ASSUME IInv, PlacesInv, NEW k, NEW s, NEW c, NEW v, Narrows(k, s, c, v)
  PROVE  Env!Next
<1>1. Envs(stack') = SubSeq(Envs(stack), 1, k) /\ k \in 1 .. Len(stack)
  BY NarrowsPlaces
<1>2. Env!Dropping
  BY Dropped DEF Narrows
<1>3. 1 .. nextId' - 1 = 1 .. nextId - 1
  BY DEF Narrows
<1>4. Env!Leave(k) /\ k \in 1 .. Len(ActiveEnvironments)
  BY <1>1, <1>2, <1>3, ActiveAre, EnvironmentsThere DEF Env!Leave
<1> QED
  BY <1>4 DEF Env!Next

LEMMA PushesEnters ==
  ASSUME IInv, PlacesInv, IInv', NEW f, NEW at, NEW c, Pushes(f, at, c)
  PROVE  Env!Next
<1>1. /\ at \in 1 .. Len(stack)
      /\ Envs(stack') = Env!Inside(Envs(stack), Sees(stack, at), nextId)
  BY PushesPlaces
<1>2. Env!Dropping
  BY Dropped DEF Pushes
<1>3. Env!NewId(nextId) /\ nextId \in Ids
  BY IdTaken DEF Pushes
<1>4. Env!EnterWithin(at, nextId) /\ at \in 1 .. Len(ActiveEnvironments)
  BY <1>1, <1>2, <1>3, ActiveAre, EnvironmentsThere DEF Env!EnterWithin
<1> QED
  BY <1>3, <1>4 DEF Env!Next

LEMMA RenewsAfresh ==
  ASSUME IInv, CallInv, PlacesInv, IInv', NEW v, Renews(v)
  PROVE  Env!Next /\ PlacesInv'
<1>1. PICK s : Clears(v, s)
  BY RenewsClears
<1>2. nextId' = nextId + 1 /\ nextId <= MaxId /\ Settle(s, heap, outer, ctl, Data)
  BY <1>1 DEF Renews, Clears
<1>3. /\ PlacesInv' /\ Len(stack) > 1
      /\ Envs(stack') = [Envs(stack) EXCEPT ![Len(stack)] =
           [id |-> nextId, home |-> @.home, sees |-> {nextId} \cup @.home]]
  BY <1>1, <1>2, RenewsPlaces
<1>4. Env!Dropping /\ Env!NewId(nextId) /\ nextId \in Ids
  BY <1>2, Dropped, IdTaken
<1>5. Len(Envs(stack)) = Len(stack)
  BY EnvironmentsThere
<1>6. Env!Afresh(nextId)
  BY <1>3, <1>4, <1>5, ActiveAre DEF Env!Afresh
<1> QED
  BY <1>3, <1>4, <1>6 DEF Env!Next

LEMMA MakesFunctions ==
  ASSUME IInv, CallInv, PlacesInv, CallInv', NEW new, NEW h, NEW s, NEW v, Makes(new, h, s, v)
  PROVE  Env!Next
<1>1. /\ \A f \in new : f \in Fns /\ heap[f] = FreeSlot /\ MadeNow(new, h, f)
      /\ \A f \in Fns \ new : h[f] = heap[f]
      /\ Settle(s, h, OuterTokens(stack), ctl, v) /\ UNCHANGED nextId
      /\ \/ new = {v} /\ h[v].kind = "lambda"
         \/ \E f : new = {f, v} /\ f # v /\ h[f].kind = "first" /\ h[v].kind = "comp" /\ h[v].f = f
  BY DEF Makes
<1>2. Envs(stack') = Envs(stack)
  BY MakesPlaces
<1>3. UNCHANGED <<ActiveEnvironments, 1 .. nextId - 1>>
  BY <1>1, <1>2, ActiveAre
<1>4. ActiveEnvironments[Len(ActiveEnvironments)].sees = Sees(stack, Top(stack))
  BY ActiveAre, EnvironmentsThere DEF Top
<1>5. \A f \in new : f \in Fns /\ ScopeOfFunction[f] = {}
  BY <1>1, ActiveAre, FreeScope
<1>6. v \in new /\ v \in Fns /\ heap'[v] = h[v]
  <2>1. v \in new
    BY <1>1
  <2>2. v \in Known(heap')
    BY <1>1 DEF CallInv, Accounted, Settle
  <2>3. heap'[v].kind # "free"
    BY <1>1, <2>1, <2>2 DEF Known
  <2> QED
    BY <1>1, <2>1, <2>3, SettledOrFreed, FreeSlotChain DEF KeptOrFreed
<1>7. ASSUME NEW f \in new, h[f].kind # "comp", heap'[f] = h[f]
      PROVE  ScopeOfFunction'[f] = Sees(stack, Top(stack))
  <2>1. h[f].kind # "free" /\ ~ h[f].foreign /\ h[f].chain = Chain(stack) /\ f \in Fns
    BY <1>1, <1>7 DEF MadeNow
  <2> QED
    BY <1>7, <2>1, MadeSees, ActiveAre DEF ScopeOf
<1>8. \A f \in Fns \ new : ScopeOfFunction'[f] \in {ScopeOfFunction[f], {}}
  BY <1>1, ScopesDrop
<1>9. CASE new = {v} /\ h[v].kind = "lambda"
  <2>1. Env!Make(v)
    BY <1>3, <1>4, <1>5, <1>6, <1>7, <1>8, <1>9 DEF Env!Make
  <2> QED
    BY <1>6, <2>1 DEF Env!Next
<1>10. ASSUME NEW f, new = {f, v}, f # v, h[f].kind = "first", h[v].kind = "comp", h[v].f = f
       PROVE  Env!Next
  <2>1. f \in new /\ f \in Fns
    BY <1>1, <1>10
  <2>2. heap'[f] = h[f]
    <3>1. heap'[v].f \in Known(heap') \cup {Unbound}
      BY <1>6 DEF CallInv, HeapAccounted
    <3>2. f # Unbound
      BY <2>1, ValuesDistinct
    <3>3. heap'[f].kind # "free"
      BY <1>6, <1>10, <2>1, <3>1, <3>2 DEF Known
    <3> QED
      BY <1>1, <2>1, <3>3, SettledOrFreed, FreeSlotChain DEF KeptOrFreed
  <2>3. ScopeOfFunction'[f] = Sees(stack, Top(stack))
    BY <1>7, <1>10, <2>1, <2>2
  <2>4. ScopeOfFunction'[v] = {0}
    <3>1. h[v].chain = {} /\ ~ h[v].foreign /\ h[v].kind = "comp"
      BY <1>1, <1>6, <1>10 DEF MadeNow
    <3> QED
      BY <1>6, <3>1, ActiveAre DEF ScopeOf
  <2>5. Env!MakeTwo(f, v)
    BY <1>3, <1>4, <1>5, <1>6, <1>8, <1>10, <2>1, <2>3, <2>4 DEF Env!MakeTwo
  <2> QED
    BY <1>6, <2>1, <2>5 DEF Env!Next
<1> QED
  BY <1>1, <1>9, <1>10

\* Of a closure's scope, what is left is what its chain finds on the stack.
LEMMA ScopeLeft ==
  ASSUME NEW s, Len(s) \in Nat, Root \in 1 .. Len(s), s[Root].id = 0, NEW c \in Closure,
         c.kind # "free", ~ c.foreign => Placed(s, c.chain)
  PROVE  HomeOf(s, c) = ScopeOf(c) \cap IdsOf(s)
<1>1. 0 \in IdsOf(s)
  BY DEF IdsOf
<1>2. CASE c.foreign
  BY <1>1, <1>2 DEF HomeOf, ScopeOf
<1>3. CASE ~ c.foreign
  <2> DEFINE ids == {pair[2] : pair \in c.chain}
             found == {s[p].id : p \in StillOnStack(s, c.chain)}
  <2>1. HomeOf(s, c) = {0} \cup found /\ ScopeOf(c) = {0} \cup ids
    BY <1>3 DEF HomeOf, ScopeOf
  <2>2. found \subseteq ids \cap IdsOf(s)
    <3> SUFFICES ASSUME NEW p \in StillOnStack(s, c.chain) PROVE s[p].id \in ids \cap IdsOf(s)
      OBVIOUS
    <3>1. p \in 1 .. Len(s) /\ <<p, s[p].id>> \in c.chain
      BY DEF StillOnStack
    <3>2. <<p, s[p].id>>[2] = s[p].id
      OBVIOUS
    <3> QED
      BY <3>1, <3>2 DEF IdsOf
  <2>3. ids \cap IdsOf(s) \subseteq {0} \cup found
    <3> SUFFICES ASSUME NEW pair \in c.chain, NEW q \in 1 .. Len(s), pair[2] = s[q].id, s[q].id # 0
                 PROVE  s[q].id \in found
      BY DEF IdsOf
    <3>1. pair[1] = q
      BY <1>3 DEF Placed
    <3>2. pair = <<q, s[q].id>>
      <4>1. c.chain \in SUBSET (Nat \X Nat)
        BY DEF Closure
      <4>2. pair = <<pair[1], pair[2]>>
        BY <4>1
      <4> QED
        BY <3>1, <4>2
    <3>3. q \in 2 .. Len(s)
      <4>1. q # 1
        BY DEF Root
      <4> QED
        BY <4>1
    <3>4. q \in StillOnStack(s, c.chain)
      BY <3>2, <3>3 DEF StillOnStack
    <3> QED
      BY <3>4
  <2> QED
    BY <1>1, <2>1, <2>2, <2>3
<1> QED
  BY <1>2, <1>3

LEMMA TailPlaces ==
  ASSUME IInv, CallInv, PlacesInv, NEW c, NEW fn, NEW arg, NEW held, NEW stop, NEW s, NEW f,
         TailTaken(c, fn, arg, held, stop, s, f)
  PROVE  PlacesInv'
<1>1. /\ Len(stack) \in Nat /\ Len(s) \in Nat /\ Len(s) <= Len(stack) /\ Len(s) >= 1
      /\ Len(stack') = Len(s) + 1 /\ stack'[Len(s) + 1] = f
      /\ \A p \in 1 .. Len(s) : stack'[p].id = stack[p].id
  BY TailStack
<1>2. f.id = nextId /\ \E o, d : Settle(Append(s, f), heap, o, d, Data)
  BY DEF TailTaken, TakesTail
<1>3. stack' = Append(s, f)
  BY <1>2 DEF Settle
<1>4. stack'[Root].id = 0
  <2>1. Root \in 1 .. Len(s)
    BY <1>1 DEF Root
  <2> QED
    BY <1>1, <2>1 DEF PlacesInv
<1>5. ASSUME NEW g \in Fns, ~ heap[g].foreign PROVE Placed(stack', heap[g].chain)
  <2>1. /\ heap[g].chain \in SUBSET (Nat \X Nat) /\ ChainBefore(heap[g].chain, nextId)
        /\ nextId \in Nat /\ Placed(stack, heap[g].chain)
    BY <1>5, ChainsTyped DEF PlacesInv
  <2>2. Placed(Cut(stack, Len(s)), heap[g].chain)
    <3>1. Len(Cut(stack, Len(s))) = Len(s) /\ \A p \in 1 .. Len(s) : Cut(stack, Len(s))[p] = stack[p]
      BY <1>1, StackFacts, CutFrames
    <3> QED
      BY <1>1, <2>1, <3>1, PlacedPrefix
  <2>3. /\ Len(Cut(stack, Len(s))) = Len(s)
        /\ \A p \in 1 .. Len(s) : stack'[p].id = Cut(stack, Len(s))[p].id
    BY <1>1, StackFacts, CutFrames
  <2> QED
    BY <1>1, <1>2, <2>1, <2>2, <2>3, PlacedPush
<1> QED
  BY <1>2, <1>3, <1>4, <1>5, SettledPlaces

LEMMA TailEnters ==
  ASSUME ScopesInv, ScopesInv', PlacesInv, NEW c, NEW fn, NEW arg, NEW held, NEW stop, NEW s, NEW f,
         TailTaken(c, fn, arg, held, stop, s, f)
  PROVE  Env!Next
<1> DEFINE n == Len(s)
           kept == Cut(stack, n)
<1>0. IInv /\ CallInv /\ ClosInv(stack, heap, outer) /\ IInv'
  BY DEF ScopesInv
<1>1. /\ Len(stack) \in Nat /\ n \in Nat /\ n \in 1 .. Len(stack) /\ n \in {stop, stop - 1}
      /\ stop \in Int
      /\ Len(stack') = n + 1 /\ stack'[n + 1] = f
      /\ \A p \in 1 .. n : stack'[p].id = stack[p].id
  <2>1. /\ stop \in c[Len(c)].height + 1 .. Len(stack) /\ c[Len(c)].height \in Nat \ {0}
        /\ Len(stack) \in Nat /\ Len(s) \in {stop, stop - 1} /\ Len(s) \in Nat
        /\ Len(stack') = Len(s) + 1 /\ stack'[Len(s) + 1] = f
        /\ \A p \in 1 .. Len(s) : stack'[p].id = stack[p].id
    BY <1>0, TailStack
  <2>2. stop \in Int /\ Len(s) \in 1 .. Len(stack)
    BY <2>1
  <2> QED
    BY <2>1, <2>2
<1>2. /\ f \in Frame /\ f.id = nextId /\ f.home = HomeOf(kept, heap[fn])
      /\ nextId' = nextId + 1 /\ nextId <= MaxId /\ s \in Seq(Frame)
      /\ fn \in Fns /\ heap[fn].kind # "free"
      /\ Settle(Append(s, f), heap, outer,
                [c EXCEPT ![Len(c)].frames = Len(s) + 1 - c[Len(c)].height], Data)
  BY DEF TailTaken, TakesTail, Known
<1>3. /\ StackOK(kept, nextId) /\ Len(kept) = n /\ kept \in Seq(Frame)
      /\ \A p \in 1 .. n : kept[p] = stack[p]
  BY <1>0, <1>1, StackFacts, CutFrames, CutOK
<1> HIDE DEF kept
<1>4. f.home = ScopeOf(heap[fn]) \cap IdsOf(kept)
  <2>1. Root \in 1 .. n /\ kept[Root].id = 0
    BY <1>0, <1>1, <1>3 DEF Root, PlacesInv
  <2>2. ~ heap[fn].foreign => Placed(kept, heap[fn].chain)
    <3>1. n <= Len(stack)
      BY <1>1
    <3> QED
      BY <1>1, <1>2, <1>3, <3>1, PlacedPrefix DEF PlacesInv
  <2>3. heap[fn] \in Closure
    BY <1>0, <1>2, StackFacts DEF HeapOK
  <2> QED
    BY <1>1, <1>2, <1>3, <2>1, <2>2, <2>3, ScopeLeft
<1>5. Envs(stack') = Env!Inside(Envs(kept), ScopeOf(heap[fn]), nextId)
  <2> DEFINE t == Append(s, f)
             u == Append(kept, f)
  <2>1. t = stack' /\ StackOK(t, nextId')
    BY <1>0, <1>2 DEF IInv, Settle
  <2>2. Len(t) = n + 1 /\ t[n + 1] = f /\ \A p \in 1 .. n : t[p] = s[p]
    BY <1>1, <1>2
  <2>3. Len(u) = n + 1 /\ u[n + 1] = f /\ \A p \in 1 .. n : u[p] = stack[p]
    BY <1>1, <1>2, <1>3
  <2>4. \A p \in 1 .. n : /\ s[p].id = stack[p].id /\ s[p].barrier = stack[p].barrier
                          /\ s[p].home = stack[p].home /\ s[p].internal = stack[p].internal
                          /\ s[p].opaque = stack[p].opaque
    <3> TAKE p \in 1 .. n
    <3>1. /\ \A q \in 1 .. stop - 1 : s[q] = stack[q]
          /\ Len(s) = stop => s[stop] = Judged(stack[stop], f, stop, held)
      BY DEF TailTaken, TakesTail
    <3>2. p \in 1 .. stop - 1 \/ (p = stop /\ n = stop)
      BY <1>1
    <3>3. CASE p \in 1 .. stop - 1
      BY <3>1, <3>3
    <3>4. CASE p = stop /\ n = stop
      <4>1. stack[stop] \in Frame
        BY <1>0, <1>1, <3>4, StackFacts, FrameAt
      <4> QED
        BY <3>1, <3>4, <4>1 DEF Judged, Frame
    <3> QED
      BY <3>2, <3>3, <3>4
  <2> HIDE DEF t, u
  <2>5. u \in Seq(Frame)
    BY <1>2, <1>3 DEF u
  <2>6. SameFrames(t, u)
    <3> SUFFICES ASSUME NEW p \in 1 .. n + 1
                 PROVE  /\ u[p].barrier = t[p].barrier /\ u[p].id = t[p].id
                        /\ u[p].home = t[p].home /\ u[p].internal = t[p].internal
                        /\ u[p].opaque = t[p].opaque
      BY <2>2, <2>3 DEF SameFrames
    <3>1. p \in 1 .. n \/ p = n + 1
      BY <1>1
    <3> QED
      BY <2>2, <2>3, <2>4, <3>1
  <2>7. Envs(t) = Envs(u) /\ StackOK(u, nextId')
    <3>1. StackOK(u, nextId')
      BY <2>1, <2>5, <2>6, SameOK
    <3>2. Len(t) \in Nat
      BY <1>1, <2>2
    <3> QED
      BY <2>6, <3>1, <3>2, EnvsSame DEF SameFrames
  <2>8. Envs(u) = Env!Inside(Envs(kept), ScopeOf(heap[fn]), nextId)
    BY <1>2, <1>3, <1>4, <2>7, EnvsPush DEF u
  <2> QED
    BY <2>1, <2>7, <2>8
<1>6. Envs(kept) = SubSeq(Envs(stack), 1, n)
  BY <1>0, <1>1, StackFacts, EnvsCut DEF kept
<1>7. \A g \in Fns : ScopeOf(heap'[g]) \cap (IdsOf(stack) \ IdsOf(kept)) = {}
  <2> SUFFICES ASSUME NEW g \in Fns, NEW q \in 1 .. Len(stack),
                      stack[q].id \in ScopeOf(heap'[g]), stack[q].id \notin IdsOf(kept)
               PROVE  FALSE
    BY DEF IdsOf
  <2>1. q \notin 1 .. n
    BY <1>3 DEF IdsOf
  <2>2. q > n
    BY <1>1, <2>1
  <2>3. stack[q].id # 0
    <3>1. q \in 2 .. Len(stack)
      BY <1>1, <2>2
    <3> QED
      BY <1>0, <3>1, StackFacts, FrameIds
  <2>4. ~ heap'[g].foreign /\ \E pair \in heap'[g].chain : pair[2] = stack[q].id
    BY <2>3 DEF ScopeOf
  <2>5. heap'[g] = heap[g]
    BY <1>2, <2>4, SettledOrFreed, FreeSlotChain DEF KeptOrFreed
  <2>6. PICK pair \in heap[g].chain : pair[2] = stack[q].id
    BY <2>4, <2>5
  <2>7. pair = <<q, stack[q].id>>
    <3>1. pair[1] = q
      BY <2>4, <2>5, <2>6 DEF PlacesInv, Placed
    <3>2. heap[g].chain \in SUBSET (Nat \X Nat)
      BY <1>0, <2>4, <2>5, ChainsTyped
    <3>3. pair = <<pair[1], pair[2]>>
      BY <2>6, <3>2
    <3> QED
      BY <2>6, <3>1, <3>3
  <2>8. q \in stop .. Len(stack)
    BY <1>1, <2>2
  <2>9. <<q, stack[q].id>> \notin heap'[g].chain
    BY <1>0, <2>2, <2>4, <2>8, DroppedUnseen DEF TailTaken
  <2> QED
    BY <2>5, <2>6, <2>7, <2>9
<1>8. Env!Dropping /\ Env!NewId(nextId) /\ nextId \in Ids
  BY <1>0, <1>2, Dropped, IdTaken
<1>9. ScopeOf(heap[fn]) # {}
  BY <1>2 DEF ScopeOf
<1>10. Env!TailCall(fn, n, nextId) /\ n \in 1 .. Len(ActiveEnvironments)
  <2>1. /\ Env!ActiveIds(Envs(stack)) = IdsOf(stack) /\ Env!ActiveIds(Envs(kept)) = IdsOf(kept)
        /\ Len(Envs(stack)) = Len(stack)
    BY <1>1, <1>3, EnvsAre
  <2> QED
    BY <1>1, <1>2, <1>5, <1>6, <1>7, <1>8, <1>9, <2>1, ActiveAre DEF Env!TailCall
<1> QED
  BY <1>2, <1>8, <1>10 DEF Env!Next
-----------------------------------------------------------------------------
(***************************************************************************)
(* The refinement.                                                         *)
(***************************************************************************)
EnvInv == ScopesInv /\ PlacesInv

LEMMA InitEnvironments == Init => Env!Init /\ PlacesInv
<1> SUFFICES ASSUME Init PROVE Env!Init /\ PlacesInv
  OBVIOUS
<1>1. stack = <<NewFrame(0, NoBarrier, {})>> /\ nextId = 1
  BY DEF Init
<1>2. IInv
  BY InitOK
<1>3. /\ Len(stack) = 1 /\ stack[1] = NewFrame(0, NoBarrier, {}) /\ StackOK(stack, nextId)
  BY <1>1, <1>2, StackFacts
<1>4. stack[1].id = 0 /\ stack[1].home = {}
  BY <1>3 DEF NewFrame
<1>5. Sees(stack, 1) = {0}
  BY <1>3, <1>4 DEF StackOK, Lexical
<1>6. EnvOf(stack, 1) = [id |-> 0, home |-> {}, sees |-> {0}]
  BY <1>4, <1>5 DEF EnvOf
<1>7. Envs(stack) = <<[id |-> 0, home |-> {}, sees |-> {0}]>>
  <2>1. Envs(stack) = [p \in 1 .. 1 |-> EnvOf(stack, 1)]
    BY <1>3 DEF Envs
  <2> QED
    BY <1>6, <2>1
<1>8. \A f \in Fns : \/ heap[f] = FreeSlot
                     \/ heap[f].kind = "lambda" /\ heap[f].foreign
  <2>1. \A f \in Fns : \/ heap[f] = FreeSlot
                       \/ heap[f] = [FreeSlot EXCEPT !.kind = "lambda", !.thunk = TRUE,
                                                     !.foreign = TRUE, !.chain = {<<2, 1>>}]
    <3>1. heap \in [Fns -> Closure]
      BY <1>2 DEF IInv, HeapOK
    <3> QED
      BY <3>1 DEF Init
  <2> QED
    BY <2>1 DEF FreeSlot
<1>9. ScopeOfFunction \in [Fns -> {{}, {0}}]
  <2>1. \A f \in Fns : ScopeOf(heap[f]) \in {{}, {0}}
    BY <1>8, FreeScope DEF ScopeOf
  <2> QED
    BY <2>1, ActiveAre
<1>10. 1 .. nextId - 1 = {}
  BY <1>1
<1>11. PlacesInv
  BY <1>3, <1>4, <1>8, FreeSlotChain DEF PlacesInv, Placed, Root
<1> QED
  BY <1>7, <1>9, <1>10, <1>11, ActiveAre DEF Env!Init

\* Every step of an evaluation is a step of its environments, or none.
LEMMA StepsAreEnvironments ==
  ASSUME EnvInv, ScopesInv', [Next]_vars
  PROVE  [Env!Next]_(Env!envVars) /\ PlacesInv'
<1>0. IInv /\ CallInv /\ PlacesInv /\ ScopesInv /\ IInv' /\ CallInv'
  BY DEF EnvInv, ScopesInv
<1>1. CASE Narrowed
  BY <1>0, <1>1, NarrowsLeaves, NarrowsPlaces DEF Narrowed
<1>2. CASE Pushed
  BY <1>0, <1>2, PushesEnters, PushesPlaces DEF Pushed
<1>3. CASE Made
  BY <1>0, <1>3, MakesFunctions, MakesPlaces DEF Made
<1>4. CASE TailCalled
  <2>1. PICK c, fn, arg : TailCalls(c, fn, arg)
    BY <1>4 DEF TailCalled
  <2>2. PICK held, stop, s, f : TailTaken(c, fn, arg, held, stop, s, f)
    <3>1. /\ Ready(c) /\ c[Len(c)].kind = "tramp" /\ fn \in Fns /\ fn \in Known(heap)
          /\ arg \in Value /\ TailCall(c, fn, arg)
      BY <2>1 DEF TailCalls, Known
    <3>2. PICK held, stop, s, f : TakesTail(c, fn, arg, held, stop, s, f)
      BY <1>0, <3>1, TailCallIs
    <3>3. Outer(c)
      BY <1>0, <2>1, TailOuter
    <3> QED
      BY <3>1, <3>2, <3>3 DEF TailTaken
  <2> QED
    BY <1>0, <2>2, TailEnters, TailPlaces
<1>5. CASE Renewed
  BY <1>0, <1>5, RenewsAfresh DEF Renewed
<1>6. CASE UNCHANGED vars
  <2>1. UNCHANGED <<stack, heap, nextId>>
    BY <1>6 DEF vars
  <2>2. UNCHANGED Env!envVars
    BY <2>1, ActiveAre DEF Env!envVars
  <2>3. PlacesInv'
    BY <1>0, <2>1 DEF PlacesInv
  <2> QED
    BY <2>2, <2>3
<1> QED
  BY <1>0, <1>1, <1>2, <1>3, <1>4, <1>5, <1>6, NextShaped DEF Shaped

\* An evaluation's scopes implement environments: each block, call and tail call
\* runs in an environment of its own that sees what the place it is written in
\* sees, popping frames ends environments from the innermost out, and a frame a
\* tail call takes for its callee was the environment of no function still held.
THEOREM ScopesAreEnvironments == Spec => ImplementsEnvironments
<1>1. Init => Env!Init /\ PlacesInv
  BY InitEnvironments
<1>2. PlacesInv /\ ScopesInv /\ ScopesInv' /\ [Next]_vars => PlacesInv'
  BY StepsAreEnvironments DEF EnvInv
<1>3. PlacesInv /\ ScopesInv /\ ScopesInv' /\ [Next]_vars => [Env!Next]_(Env!envVars)
  BY StepsAreEnvironments DEF EnvInv
<1> QED
  BY <1>1, <1>2, <1>3, ScopesAgree, PTL DEF Spec, ImplementsEnvironments, Env!Spec
================================================================================
