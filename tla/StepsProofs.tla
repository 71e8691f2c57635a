------------------------------ MODULE StepsProofs ------------------------------
(***************************************************************************)
(* What the steps of Calls have in common: what an evaluator refers to     *)
(* exists, and a step narrows the stack, pushes a frame, makes closures or *)
(* is a tail call.  From that, what a step may never do to the frames the  *)
(* evaluator names by their index, and to the host's.                      *)
(***************************************************************************)
EXTENDS CallsProofs

(***************************************************************************)
(* Iterating a step on finite sets until nothing is added.                 *)
(***************************************************************************)
Inflates(V, st) ==
  /\ IsFiniteSet(V) /\ st \in [SUBSET V -> SUBSET V]
  /\ \A S \in SUBSET V : S \subseteq st[S]
  /\ \A S, T \in SUBSET V : S \subseteq T => st[S] \subseteq st[T]

Iteration(V, st) ==
  CHOOSE g : g = [S \in SUBSET V |-> IF st[S] = S THEN S ELSE g[st[S]]]

\* The least set above S that st adds nothing to.
Saturated(V, st, S) ==
  {x \in V : \A Z \in SUBSET V : S \subseteq Z /\ st[Z] = Z => x \in Z}

LEMMA SaturatedUnfolds ==
  ASSUME NEW V, NEW st, Inflates(V, st), NEW S \in SUBSET V
  PROVE  Saturated(V, st, S) = IF st[S] = S THEN S ELSE Saturated(V, st, st[S])
<1>1. st[S] \in SUBSET V /\ S \subseteq st[S]
  BY DEF Inflates
<1>2. ASSUME st[S] = S PROVE Saturated(V, st, S) = S
  BY <1>2 DEF Saturated
<1>3. \A Z \in SUBSET V : st[Z] = Z => (S \subseteq Z <=> st[S] \subseteq Z)
  <2> TAKE Z \in SUBSET V
  <2> HAVE st[Z] = Z
  <2>1. S \subseteq Z => st[S] \subseteq st[Z]
    BY DEF Inflates
  <2> QED
    BY <1>1, <2>1
<1>4. Saturated(V, st, S) = Saturated(V, st, st[S])
  BY <1>1, <1>3 DEF Saturated
<1> QED
  BY <1>2, <1>4

LEMMA IterationSaturates ==
  ASSUME NEW V, NEW st, Inflates(V, st), NEW from \in SUBSET V
  PROVE  Iteration(V, st)[from] = Saturated(V, st, from)
<1> DEFINE g == Iteration(V, st)
           Equation(e) == e = [S \in SUBSET V |-> IF st[S] = S THEN S ELSE e[st[S]]]
           witness == [S \in SUBSET V |-> Saturated(V, st, S)]
<1>1. Equation(witness)
  <2>1. \A S \in SUBSET V : st[S] \in SUBSET V
    BY DEF Inflates
  <2>2. \A S \in SUBSET V :
          witness[S] = IF st[S] = S THEN S ELSE witness[st[S]]
    BY <2>1, SaturatedUnfolds
  <2>3. witness = [S \in SUBSET V |-> witness[S]]
    OBVIOUS
  <2> HIDE DEF witness
  <2> QED
    BY <2>2, <2>3
<1>2. Equation(g)
  <2>1. \E e : Equation(e)
    BY <1>1
  <2> HIDE DEF witness
  <2> QED
    BY <2>1, Zenon DEF Iteration
<1>3. \A S \in SUBSET V : g[S] = IF st[S] = S THEN S ELSE g[st[S]]
  <2> HIDE DEF g
  <2> QED
    BY <1>2
<1> HIDE DEF g, witness
<1> DEFINE Gap(S) == Cardinality(V \ S)
           Wrong == {S \in SUBSET V : g[S] # Saturated(V, st, S)}
           Bad == {n \in Nat : \E S \in Wrong : Gap(S) = n}
<1>4. \A S \in SUBSET V : IsFiniteSet(V \ S) /\ Gap(S) \in Nat
  BY FS_Difference, FS_CardinalityType DEF Inflates
<1>5. SUFFICES ASSUME Wrong # {} PROVE FALSE
  BY <1>5 DEF g
<1>6. Bad # {} /\ Bad \in SUBSET Nat
  BY <1>4, <1>5
<1>7. PICK n \in Bad : \A m \in Bad : n <= m
  <2> HIDE DEF Bad
  <2> QED
    BY <1>6, LeastExists
<1>8. PICK S \in Wrong : Gap(S) = n
  BY <1>7
<1>9. st[S] # S
  BY <1>3, <1>8, SaturatedUnfolds
<1>10. st[S] \in SUBSET V /\ S \subseteq st[S]
  BY DEF Inflates
<1>11. st[S] \in Wrong
  BY <1>3, <1>8, <1>9, <1>10, SaturatedUnfolds
<1>12. Gap(st[S]) < Gap(S)
  <2>1. V \ st[S] \subseteq V \ S /\ V \ st[S] # V \ S
    BY <1>9, <1>10
  <2>2. Cardinality(V \ st[S]) <= Cardinality(V \ S) /\ Cardinality(V \ st[S]) # Cardinality(V \ S)
    <3> DEFINE A == V \ S
               B == V \ st[S]
    <3>1. IsFiniteSet(A) /\ B \subseteq A
      BY <1>4, <2>1
    <3> HIDE DEF A, B
    <3> QED
      BY <2>1, <3>1, FS_Subset DEF A, B
  <2> QED
    BY <1>4, <1>10, <2>2
<1>13. Gap(st[S]) \in Bad
  BY <1>4, <1>10, <1>11
<1> HIDE DEF Bad, Wrong, Gap
<1> QED
  BY <1>6, <1>7, <1>8, <1>12, <1>13
LEMMA IterationIs ==
  ASSUME NEW V, NEW st, Inflates(V, st), NEW from \in SUBSET V
  PROVE  /\ Iteration(V, st)[from] \in SUBSET V
         /\ from \subseteq Iteration(V, st)[from]
         /\ st[Iteration(V, st)[from]] = Iteration(V, st)[from]
         /\ \A Z \in SUBSET V : from \subseteq Z /\ st[Z] = Z => Iteration(V, st)[from] \subseteq Z
<1> DEFINE R == Saturated(V, st, from)
<1>1. Iteration(V, st)[from] = R
  BY IterationSaturates
<1>2. R \in SUBSET V /\ from \subseteq R
  BY DEF Saturated
<1>3. \A Z \in SUBSET V : from \subseteq Z /\ st[Z] = Z => R \subseteq Z
  BY DEF Saturated
<1> HIDE DEF R
<1>4. st[R] \subseteq R
  <2>1. \A x \in st[R] : \A Z \in SUBSET V : from \subseteq Z /\ st[Z] = Z => x \in Z
    <3> TAKE x \in st[R]
    <3> TAKE Z \in SUBSET V
    <3> HAVE from \subseteq Z /\ st[Z] = Z
    <3>1. st[R] \subseteq st[Z]
      BY <1>2, <1>3 DEF Inflates
    <3> QED
      BY <3>1
  <2>2. st[R] \in SUBSET V
    BY <1>2 DEF Inflates
  <2> QED
    BY <2>1, <2>2 DEF R, Saturated
<1>5. R \subseteq st[R]
  BY <1>2 DEF Inflates
<1> QED
  BY <1>1, <1>2, <1>3, <1>4, <1>5
-----------------------------------------------------------------------------
(***************************************************************************)
(* Reachable closures and tokens.                                          *)
(***************************************************************************)
Nodes == Fns \cup Ids

\* Closures and tokens refer to closures and tokens.
RefsOK(h, o) ==
  /\ h \in [Fns -> Closure] /\ \A f \in Fns : h[f].keep \in 0 .. MaxId
  /\ o \in [Ids -> 0 .. MaxId]

LEMMA NodesFinite == IsFiniteSet(Nodes) /\ Fns \cap Ids = {}
<1>1. IsFiniteSet(Ids)
  BY ClosuresAssumption, FS_Interval DEF Ids
<1>2. IsFiniteSet(Nodes)
  BY <1>1, ClosuresAssumption, FS_Union DEF Nodes
<1>3. Ids \subseteq 0 .. MaxId
  BY ClosuresAssumption DEF Ids
<1> QED
  BY <1>2, <1>3, ClosuresAssumption

LEMMA RefsIn ==
  ASSUME NEW h, NEW o, RefsOK(h, o), NEW n \in Nodes
  PROVE  /\ References(h, o, n) \in SUBSET Nodes
         /\ n \in Ids => References(h, o, n) \in SUBSET Ids
<1>1. CASE n \in Fns
  <2>1. {h[n].keep} \ {0} \subseteq Ids
    BY <1>1, ClosuresAssumption DEF RefsOK, Ids
  <2> QED
    BY <1>1, <2>1, NodesFinite DEF References, BoundFns, Nodes
<1>2. CASE n \notin Fns
  <2>1. n \in Ids
    BY <1>2 DEF Nodes
  <2>2. {o[n]} \ {0} \subseteq Ids
    BY <2>1, ClosuresAssumption DEF RefsOK, Ids
  <2> QED
    BY <1>2, <2>2 DEF References, Nodes
<1> QED
  BY <1>1, <1>2

\* A set that has what its nodes refer to.
ClosedUnder(h, o, S) == \A n \in S : References(h, o, n) \subseteq S

LEMMA ReachableIs ==
  ASSUME NEW h, NEW o, RefsOK(h, o), NEW from \in SUBSET Nodes
  PROVE  /\ Reachable(h, o, from) \in SUBSET Nodes
         /\ from \subseteq Reachable(h, o, from)
         /\ ClosedUnder(h, o, Reachable(h, o, from))
         /\ \A Z \in SUBSET Nodes : from \subseteq Z /\ ClosedUnder(h, o, Z)
                                      => Reachable(h, o, from) \subseteq Z
<1> DEFINE Grown(S) == S \cup UNION {References(h, o, n) : n \in S}
           st == [S \in SUBSET Nodes |-> Grown(S)]
           g == CHOOSE e : e = [S \in SUBSET Nodes |-> IF Grown(S) = S THEN S ELSE e[Grown(S)]]
<1>1. \A S \in SUBSET Nodes : Grown(S) \in SUBSET Nodes
  BY RefsIn
<1>2. Inflates(Nodes, st)
  <2>1. st \in [SUBSET Nodes -> SUBSET Nodes]
    BY <1>1
  <2>2. \A S \in SUBSET Nodes : S \subseteq st[S]
    OBVIOUS
  <2>3. \A S, T \in SUBSET Nodes : S \subseteq T => st[S] \subseteq st[T]
    OBVIOUS
  <2> HIDE DEF st
  <2> QED
    BY <2>1, <2>2, <2>3, NodesFinite DEF Inflates
<1>3. Reachable(h, o, from) = g[from]
  BY DEF Reachable, Nodes
<1>4. g = Iteration(Nodes, st)
  <2>1. \A e : [S \in SUBSET Nodes |-> IF Grown(S) = S THEN S ELSE e[Grown(S)]]
              = [S \in SUBSET Nodes |-> IF st[S] = S THEN S ELSE e[st[S]]]
    OBVIOUS
  <2> HIDE DEF st, Grown
  <2> QED
    BY <2>1, Zenon DEF Iteration
<1>5. \A S \in SUBSET Nodes : st[S] = S <=> ClosedUnder(h, o, S)
  BY DEF ClosedUnder
<1> HIDE DEF st, g
<1> QED
  BY <1>2, <1>3, <1>4, <1>5, IterationIs

\* Where the references agree on all that is reachable, the same is reachable.
LEMMA ReachableAgrees ==
  ASSUME NEW h, NEW o, RefsOK(h, o), NEW k, NEW q, RefsOK(k, q), NEW from \in SUBSET Nodes,
         \A n \in Reachable(h, o, from) : References(k, q, n) = References(h, o, n)
  PROVE  Reachable(k, q, from) = Reachable(h, o, from)
<1> DEFINE R == Reachable(h, o, from)
           Q == Reachable(k, q, from)
<1>1. /\ R \in SUBSET Nodes /\ from \subseteq R /\ ClosedUnder(h, o, R)
      /\ \A Z \in SUBSET Nodes : from \subseteq Z /\ ClosedUnder(h, o, Z) => R \subseteq Z
  BY ReachableIs
<1>2. /\ Q \in SUBSET Nodes /\ from \subseteq Q /\ ClosedUnder(k, q, Q)
      /\ \A Z \in SUBSET Nodes : from \subseteq Z /\ ClosedUnder(k, q, Z) => Q \subseteq Z
  BY ReachableIs
<1>3. \A n \in R : References(k, q, n) = References(h, o, n)
  OBVIOUS
<1> HIDE DEF R, Q
<1>4. Q \subseteq R
  BY <1>1, <1>2, <1>3 DEF ClosedUnder
<1>5. ClosedUnder(h, o, Q)
  BY <1>2, <1>3, <1>4 DEF ClosedUnder
<1>6. R \subseteq Q
  BY <1>1, <1>2, <1>5
<1> QED
  BY <1>4, <1>6 DEF R, Q

\* What the evaluator starts from.
Roots(s, c, v) == Held(c, v) \cup Tokens(s) \cup FrameFns(s, 1 .. Len(s))

LEMMA LiveIs ==
  ASSUME NEW s, NEW n, StackOK(s, n), n <= MaxId + 1, NEW h, NEW o, RefsOK(h, o),
         NEW held \in SUBSET Fns
  PROVE  /\ Tokens(s) \in SUBSET Ids /\ \A P : FrameFns(s, P) \in SUBSET Fns
         /\ Live(s, h, o, held) \in SUBSET Nodes
         /\ held \cup Tokens(s) \cup FrameFns(s, 1 .. Len(s)) \subseteq Live(s, h, o, held)
         /\ ClosedUnder(h, o, Live(s, h, o, held))
         /\ \A Z \in SUBSET Nodes :
              /\ held \cup Tokens(s) \cup FrameFns(s, 1 .. Len(s)) \subseteq Z
              /\ ClosedUnder(h, o, Z)
              => Live(s, h, o, held) \subseteq Z
<1>1. Tokens(s) \in SUBSET Ids
  <2> SUFFICES ASSUME NEW p \in 2 .. Len(s) PROVE s[p].id \in Ids
    BY DEF Tokens
  <2>1. /\ p \in 1 .. Len(s) /\ 1 \in 1 .. Len(s) /\ Len(s) \in 1 .. Len(s) /\ Len(s) \in Nat
        /\ s \in Seq(Frame) /\ n \in Nat
    BY DEF StackOK, Grounded
  <2>2. s[p].id \in Nat /\ s[1].id \in Nat /\ s[Len(s)].id \in Nat
    BY <2>1, FrameAt
  <2>3. s[1].id < s[p].id /\ s[p].id < n
    BY <2>1, <2>2 DEF StackOK, Ordered
  <2> QED
    BY <2>1, <2>2, <2>3, ClosuresAssumption DEF Ids
<1>2. \A P : FrameFns(s, P) \in SUBSET Fns
  BY DEF FrameFns, BoundFns
<1>3. held \cup Tokens(s) \cup FrameFns(s, 1 .. Len(s)) \in SUBSET Nodes
  BY <1>1, <1>2 DEF Nodes
<1> QED
  BY <1>1, <1>2, <1>3, ReachableIs DEF Live
-----------------------------------------------------------------------------
(***************************************************************************)
(* What the evaluator refers to exists.                                    *)
(***************************************************************************)
Known(h) == {x \in Value : x \in Fns => h[x].kind # "free"}

KnownBindings(b, h) == \A n \in Names : b[n] \in Known(h) \cup {Unbound}

KnownFrames(s, h) == \A p \in 1 .. Len(s) : KnownBindings(s[p].bind, h)

KnownActs(c, h) == \A i \in 1 .. Len(c) : c[i].fn \in Known(h) /\ c[i].arg \in Known(h)

Accounted(s, h, c, v) == v \in Known(h) /\ KnownActs(c, h) /\ KnownFrames(s, h)

HeapAccounted(h) ==
  \A f \in Fns : /\ KnownBindings(h[f].env, h)
                 /\ h[f].f \in Known(h) \cup {Unbound}
                 /\ h[f].g \in Known(h) \cup {Unbound}
                 /\ h[f].kind = "free" => h[f] = FreeSlot

\* The frames of a trampoline are frames of tail calls, and a merge's is not.
Reusing == {"tramp", "merge"}

TcoFrames(c, s) ==
  \A i \in 1 .. Len(c) :
    c[i].kind \in Reusing =>
      \A p \in c[i].height + 1 .. c[i].height + c[i].frames :
        s[p].tco <=> c[i].kind = "tramp"

\* Tokens are named by ids already taken.
TokensBefore(h, o, n) ==
  /\ n <= MaxId + 1
  /\ \A f \in Fns : h[f].keep \in 0 .. n - 1
  /\ o \in [Ids -> 0 .. n - 1]

CallInv ==
  /\ Accounted(stack, heap, ctl, hand)
  /\ HeapAccounted(heap)
  /\ TcoFrames(ctl, stack)
  /\ TokensBefore(heap, outer, nextId)

LEMMA RefsBefore ==
  ASSUME NEW h, NEW o, NEW n \in Nat, h \in [Fns -> Closure], TokensBefore(h, o, n)
  PROVE  RefsOK(h, o)
<1>1. 0 .. n - 1 \subseteq 0 .. MaxId
  BY ClosuresAssumption DEF TokensBefore
<1> QED
  BY <1>1 DEF TokensBefore, RefsOK

LEMMA HeldIn == \A c, v : Held(c, v) \in SUBSET Fns
BY DEF Held

\* Settling keeps what is live as it was, and frees the rest.
LEMMA SettledHeap ==
  ASSUME NEW s, NEW h, NEW o, NEW c, NEW v, Settle(s, h, o, c, v),
         NEW n, StackOK(s, n), n <= MaxId + 1, RefsOK(h, o),
         NEW live, live = Live(s, h, o, Held(c, v))
  PROVE  /\ stack' = s /\ ctl' = c /\ hand' = v
         /\ live \in SUBSET Nodes /\ ClosedUnder(h, o, live)
         /\ Held(c, v) \cup Tokens(s) \cup FrameFns(s, 1 .. Len(s)) \subseteq live
         /\ \A f \in Fns : heap'[f] = IF f \in live THEN h[f] ELSE FreeSlot
         /\ \A t \in Ids : outer'[t] = IF t \in live THEN o[t] ELSE 0
         /\ RefsOK(heap', outer')
         /\ \A m \in live : References(heap', outer', m) = References(h, o, m)
         /\ \A m \in Nodes \ live : References(heap', outer', m) = {}
<1>1. /\ stack' = s /\ ctl' = c /\ hand' = v
      /\ heap' = [f \in Fns |-> IF f \in live THEN h[f] ELSE FreeSlot]
      /\ outer' = [t \in Ids |-> IF t \in live THEN o[t] ELSE 0]
  BY DEF Settle
<1>2. /\ live \in SUBSET Nodes /\ ClosedUnder(h, o, live)
      /\ Held(c, v) \cup Tokens(s) \cup FrameFns(s, 1 .. Len(s)) \subseteq live
  BY LiveIs, HeldIn
<1>3. /\ \A f \in Fns : heap'[f] = IF f \in live THEN h[f] ELSE FreeSlot
      /\ \A t \in Ids : outer'[t] = IF t \in live THEN o[t] ELSE 0
  BY <1>1
<1>4. RefsOK(heap', outer')
  <2>1. FreeSlot.keep = 0 /\ 0 \in 0 .. MaxId
    BY ClosuresAssumption DEF FreeSlot
  <2>2. heap' \in [Fns -> Closure]
    BY <1>1, FreeSlotOK DEF RefsOK
  <2>3. \A f \in Fns : heap'[f].keep \in 0 .. MaxId
    BY <1>3, <2>1 DEF RefsOK
  <2>4. outer' \in [Ids -> 0 .. MaxId]
    BY <1>1, <2>1 DEF RefsOK
  <2> QED
    BY <2>2, <2>3, <2>4 DEF RefsOK
<1>5. \A m \in live : References(heap', outer', m) = References(h, o, m)
  <2> TAKE m \in live
  <2>1. CASE m \in Fns
    BY <1>3, <2>1 DEF References
  <2>2. CASE m \notin Fns
    <3>1. m \in Ids
      BY <1>2, <2>2 DEF Nodes
    <3> QED
      BY <1>3, <2>2, <3>1 DEF References
  <2> QED
    BY <2>1, <2>2
<1>6. \A m \in Nodes \ live : References(heap', outer', m) = {}
  <2> TAKE m \in Nodes \ live
  <2>1. CASE m \in Fns
    <3>1. heap'[m] = FreeSlot
      BY <1>3, <2>1
    <3>2. \A n_ \in Names : FreeSlot.env[n_] = Unbound
      BY DEF FreeSlot, NoBindings
    <3>3. FreeSlot.f = Unbound /\ FreeSlot.g = Unbound /\ FreeSlot.keep = 0
      BY DEF FreeSlot
    <3> QED
      BY <2>1, <3>1, <3>2, <3>3, ValuesDistinct DEF References, BoundFns
  <2>2. CASE m \notin Fns
    <3>1. m \in Ids
      BY <2>2 DEF Nodes
    <3> QED
      BY <1>3, <2>2, <3>1 DEF References
  <2> QED
    BY <2>1, <2>2
<1> QED
  BY <1>1, <1>2, <1>3, <1>4, <1>5, <1>6

LEMMA SettledReach ==
  ASSUME NEW h, NEW o, RefsOK(h, o), NEW k, NEW q, RefsOK(k, q),
         NEW live \in SUBSET Nodes, ClosedUnder(h, o, live),
         \A m \in live : References(k, q, m) = References(h, o, m),
         NEW from \in SUBSET live
  PROVE  /\ Reachable(k, q, from) = Reachable(h, o, from)
         /\ Reachable(h, o, from) \subseteq live
<1>1. from \in SUBSET Nodes
  OBVIOUS
<1>2. Reachable(h, o, from) \subseteq live
  BY <1>1, ReachableIs
<1> QED
  BY <1>1, <1>2, ReachableAgrees

\* And what everything refers to still exists.
LEMMA SettledCallInv ==
  ASSUME NEW s, NEW h, NEW o, NEW c, NEW v, Settle(s, h, o, c, v),
         StackOK(s, nextId'), h \in [Fns -> Closure], TokensBefore(h, o, nextId'),
         Accounted(s, h, c, v), HeapAccounted(h), TcoFrames(c, s)
  PROVE  CallInv'
<1> DEFINE live == Live(s, h, o, Held(c, v))
<1>1. nextId' \in Nat /\ nextId' <= MaxId + 1
  BY DEF StackOK, TokensBefore
<1>2. RefsOK(h, o)
  BY <1>1, RefsBefore
<1>3. /\ stack' = s /\ ctl' = c /\ hand' = v
      /\ live \in SUBSET Nodes /\ ClosedUnder(h, o, live)
      /\ Held(c, v) \cup Tokens(s) \cup FrameFns(s, 1 .. Len(s)) \subseteq live
      /\ \A f \in Fns : heap'[f] = IF f \in live THEN h[f] ELSE FreeSlot
      /\ \A t \in Ids : outer'[t] = IF t \in live THEN o[t] ELSE 0
      /\ RefsOK(heap', outer')
  BY <1>1, <1>2, SettledHeap
<1> HIDE DEF live
<1>4. ASSUME NEW x \in Known(h), x \in Fns => x \in live
      PROVE  x \in Known(heap')
  BY <1>3, <1>4 DEF Known
<1>5. Accounted(stack', heap', ctl', hand')
  <2>1. v \in Fns => v \in live
    BY <1>3 DEF Held
  <2>2. \A i \in 1 .. Len(c) : /\ c[i].fn \in Fns => c[i].fn \in live
                               /\ c[i].arg \in Fns => c[i].arg \in live
    BY <1>3 DEF Held
  <2>3. \A p \in 1 .. Len(s), n \in Names : s[p].bind[n] \in Fns => s[p].bind[n] \in live
    BY <1>3 DEF FrameFns, BoundFns
  <2>4. v \in Known(heap') /\ KnownActs(c, heap')
    BY <1>4, <2>1, <2>2 DEF Accounted, KnownActs
  <2>5. KnownFrames(s, heap')
    BY <1>4, <2>3 DEF Accounted, KnownFrames, KnownBindings
  <2> QED
    BY <1>3, <2>4, <2>5 DEF Accounted
<1>6. HeapAccounted(heap')
  <2>1. ASSUME NEW f \in Fns
        PROVE  /\ KnownBindings(heap'[f].env, heap')
               /\ heap'[f].f \in Known(heap') \cup {Unbound}
               /\ heap'[f].g \in Known(heap') \cup {Unbound}
               /\ heap'[f].kind = "free" => heap'[f] = FreeSlot
    <3>1. CASE f \in live
      <4>1. heap'[f] = h[f] /\ References(h, o, f) \subseteq live
        BY <1>3, <3>1 DEF ClosedUnder
      <4>2. /\ \A n \in Names : h[f].env[n] \in Fns => h[f].env[n] \in live
            /\ h[f].f \in Fns => h[f].f \in live
            /\ h[f].g \in Fns => h[f].g \in live
        BY <4>1 DEF References, BoundFns
      <4>3. /\ KnownBindings(h[f].env, h) /\ h[f].f \in Known(h) \cup {Unbound}
            /\ h[f].g \in Known(h) \cup {Unbound}
            /\ h[f].kind = "free" => h[f] = FreeSlot
        BY DEF HeapAccounted
      <4> QED
        BY <1>4, <4>1, <4>2, <4>3 DEF KnownBindings
    <3>2. CASE f \notin live
      <4>1. heap'[f] = FreeSlot
        BY <1>3, <3>2
      <4>2. FreeSlot.f = Unbound /\ FreeSlot.g = Unbound
            /\ \A n \in Names : FreeSlot.env[n] = Unbound
        BY DEF FreeSlot, NoBindings
      <4> QED
        BY <4>1, <4>2 DEF KnownBindings
    <3> QED
      BY <3>1, <3>2
  <2> QED
    BY <2>1 DEF HeapAccounted
<1>7. TokensBefore(heap', outer', nextId')
  <2>1. 0 \in 0 .. nextId' - 1
    <3>1. Len(s) \in Nat \ {0} /\ s \in Seq(Frame)
      BY DEF StackOK, Grounded, Ordered
    <3>2. 1 \in 1 .. Len(s)
      BY <3>1
    <3>3. s[1].id \in Nat
      BY <3>1, <3>2, FrameAt
    <3>4. s[1].id < nextId'
      BY <3>2 DEF StackOK, Ordered
    <3>5. \A m, n \in Nat : m < n => 0 \in 0 .. n - 1
      OBVIOUS
    <3> QED
      BY <1>1, <3>3, <3>4, <3>5
  <2>2. FreeSlot.keep = 0
    BY DEF FreeSlot
  <2>3. \A f \in Fns : heap'[f].keep \in 0 .. nextId' - 1
    BY <1>3, <2>1, <2>2 DEF TokensBefore
  <2>4. \A t \in Ids : outer'[t] \in 0 .. nextId' - 1
    BY <1>3, <2>1 DEF TokensBefore
  <2>5. outer' \in [Ids -> 0 .. nextId' - 1]
    BY <1>3, <2>4 DEF RefsOK
  <2> QED
    BY <1>1, <2>3, <2>5 DEF TokensBefore
<1> QED
  BY <1>3, <1>5, <1>6, <1>7 DEF CallInv
-----------------------------------------------------------------------------
(***************************************************************************)
(* What a step does to the stack.                                          *)
(***************************************************************************)
\* Frames whose bindings may differ, and nothing else.
OnlyBindings(s, t) ==
  /\ t \in Seq(Frame) /\ Len(t) = Len(s)
  /\ \A p \in 1 .. Len(s) :
       /\ t[p].id = s[p].id /\ t[p].barrier = s[p].barrier /\ t[p].home = s[p].home
       /\ t[p].internal = s[p].internal /\ t[p].opaque = s[p].opaque
       /\ t[p].tco = s[p].tco /\ t[p].token = s[p].token /\ t[p].seenAt = s[p].seenAt

HostKept(s) == mode = "idle" \/ s[Root].bind = stack[Root].bind

\* It ends activations and pops what they pushed; bindings may change.
Narrows(k, s, c, v) ==
  /\ k \in 1 .. Len(stack) /\ OnlyBindings(Cut(stack, k), s)
  /\ Settle(s, heap, outer, c, v) /\ nextId' = nextId
  /\ Accounted(s, heap, c, v) /\ TcoFrames(c, s) /\ HostKept(s)
  /\ \/ k = Len(stack) \/ c = <<>>
     \/ \E j \in 1 .. Len(ctl) : /\ Len(c) < j /\ ctl[j].height <= k
                                 /\ None(ctl, "tramp", j + 1, Len(ctl))

\* It starts one, and pushes a frame that sees what the frame `at` sees.
Pushes(f, at, c) ==
  /\ f \in Frame /\ f.id = nextId /\ ~ f.token /\ f.seenAt = 0
  /\ at \in 1 .. Len(stack) /\ f.barrier \in {0, at} /\ (f.barrier = 0 => at = Len(stack))
  /\ f.home = Sees(stack, at)
  /\ Settle(Append(stack, f), heap, outer, c, Data)
  /\ nextId' = nextId + 1 /\ nextId <= MaxId
  /\ Accounted(Append(stack, f), heap, c, Data) /\ TcoFrames(c, Append(stack, f))
  /\ Len(c) > Len(ctl)

\* A merge clears its scope, the frame on top, for the next comparison.
Renews(v) ==
  /\ mode = "run" /\ mode' = "run" /\ ctl # <<>> /\ Here.kind = "merge"
  /\ v \in Known(heap)
  /\ Settle([stack EXCEPT ![Len(stack)] = Cleared(@, v)], heap, outer, ctl, Data)
  /\ nextId' = nextId + 1 /\ nextId <= MaxId

\* It is a tail call.
TailCalls(c, fn, arg) ==
  /\ mode = "run" /\ mode' = "run"
  /\ \/ c = ctl
     \/ c = Below /\ Here.kind = "tail"
  /\ Ready(c) /\ c[Len(c)].kind = "tramp"
  /\ fn \in Fns /\ fn \in Known(heap) /\ arg \in Known(heap)
  /\ TailCall(c, fn, arg)

\* Tokens are made for the trampoline frames in sight.
Tokenises(s) ==
  /\ s \in Seq(Frame) /\ Len(s) = Len(stack)
  /\ \A p \in 1 .. Len(stack) :
       /\ s[p].id = stack[p].id /\ s[p].barrier = stack[p].barrier /\ s[p].home = stack[p].home
       /\ s[p].internal = stack[p].internal /\ s[p].opaque = stack[p].opaque
       /\ s[p].tco = stack[p].tco /\ s[p].seenAt = stack[p].seenAt
       /\ s[p].token <=> stack[p].token \/ p \in TokensMadeAt(stack, Top(stack))

\* A closure just made, one of `new`.
MadeNow(new, h, f) ==
  /\ h[f].kind \in {"lambda", "first", "comp"} /\ ~ h[f].foreign
  /\ h[f].kind # "comp" => /\ h[f].chain = Chain(stack)
                           /\ h[f].keep = KeptAt(stack, Top(stack))
  /\ h[f].kind = "comp" => h[f].chain = {} /\ h[f].keep = 0 /\ h[f].thunk
  /\ h[f].kind = "lambda" => /\ h[f].f = Unbound /\ h[f].g = Unbound
                             /\ h[f].env[Param] = Unbound
  /\ h[f].kind = "first" => ~ h[f].thunk /\ h[f].f \in Value
  /\ KnownBindings(h[f].env, heap)
  /\ h[f].g \in Known(heap) \cup {Unbound}
  /\ \/ h[f].f \in Known(heap) \cup {Unbound}
     \/ h[f].kind = "comp" /\ h[f].f \in new /\ h[h[f].f].kind = "first"

\* It makes a function, or a composition and the function that calls its first.
Makes(new, h, s, v) ==
  /\ \A f \in new : f \in Fns /\ heap[f] = FreeSlot /\ MadeNow(new, h, f)
  /\ \/ new = {v} /\ h[v].kind = "lambda"
     \/ \E f : new = {f, v} /\ f # v /\ h[f].kind = "first" /\ h[v].kind = "comp" /\ h[v].f = f
  /\ h \in [Fns -> Closure] /\ \A f \in Fns \ new : h[f] = heap[f]
  /\ Tokenises(s) /\ KnownFrames(s, h) /\ HostKept(s)
  /\ Settle(s, h, OuterTokens(stack), ctl, v) /\ UNCHANGED <<nextId, mode>>

Narrowed == \E k, s, c, v : Narrows(k, s, c, v)
Pushed   == \E f, at, c : Pushes(f, at, c)
Renewed  == \E v : Renews(v)
TailCalled == \E c, fn, arg : TailCalls(c, fn, arg)
Made == \E new, h, s, v : Makes(new, h, s, v)

\* Activations of ctl, up to the values they have in hand.
Outer(c) ==
  /\ c \in Seq(Activation) /\ Len(c) <= Len(ctl)
  /\ \A i \in 1 .. Len(c) :
       /\ c[i].kind = ctl[i].kind /\ c[i].height = ctl[i].height /\ c[i].frames = ctl[i].frames
       /\ c[i].fn = ctl[i].fn /\ c[i].arg \in {ctl[i].arg, Data}

LEMMA PlainKnown == \A h : Data \in Known(h) /\ EvalFn \in Known(h)
BY ValuesDistinct DEF Known, Value

LEMMA LookupKnown ==
  ASSUME NEW s \in Seq(Frame), NEW h, KnownFrames(s, h),
         NEW p \in 1 .. Len(s), NEW n \in Names
  PROVE  Lookup(s, p, n) \in Known(h) \cup {Unbound}
<1> DEFINE bound == {q \in Path(s, p) : s[q].bind[n] # Unbound}
<1>1. Len(s) \in Nat /\ p \in Nat
  OBVIOUS
<1>2. bound \in SUBSET (1 .. p)
  BY DEF Path
<1>3. CASE bound = {}
  BY <1>3 DEF Lookup
<1>4. CASE bound # {}
  <2>1. Highest(bound) \in bound
    <3> HIDE DEF bound
    <3> QED
      BY <1>1, <1>2, <1>4, HighestExists
  <2>2. Highest(bound) \in 1 .. Len(s)
    BY <1>1, <1>2, <2>1
  <2>3. Lookup(s, p, n) = s[Highest(bound)].bind[n]
    BY <1>4 DEF Lookup
  <2> QED
    BY <2>2, <2>3 DEF KnownFrames, KnownBindings
<1> QED
  BY <1>3, <1>4

LEMMA AvailKnown ==
  ASSUME IInv, CallInv
  PROVE  Avail \subseteq Known(heap) /\ hand \in Known(heap)
<1>1. Top(stack) \in 1 .. Len(stack) /\ stack \in Seq(Frame)
  BY StackFacts DEF Top
<1>2. hand \in Known(heap) /\ KnownFrames(stack, heap)
  BY DEF CallInv, Accounted
<1>3. \A n \in Names : Lookup(stack, Top(stack), n) \in Known(heap) \cup {Unbound}
  BY <1>1, <1>2, LookupKnown
<1> QED
  BY <1>2, <1>3, PlainKnown DEF Avail

LEMMA BodyBindingsKnown ==
  ASSUME IInv, CallInv, NEW fn \in Fns, fn \in Known(heap), NEW arg \in Known(heap)
  PROVE  KnownBindings(BodyBindings(fn, arg), heap)
<1>1. KnownBindings(heap[fn].env, heap)
  BY DEF CallInv, HeapAccounted
<1>2. CASE heap[fn].kind # "lambda"
  BY <1>2 DEF BodyBindings, KnownBindings, NoBindings
<1>3. CASE heap[fn].kind = "lambda"
  <2> DEFINE b == [n \in Names |-> IF n = Param THEN arg
                                   ELSE IF n \in heap[fn].self THEN fn
                                   ELSE heap[fn].env[n]]
  <2>1. BodyBindings(fn, arg) = b
    BY <1>3 DEF BodyBindings
  <2>2. \A n \in Names : b[n] \in Known(heap) \cup {Unbound}
    BY <1>1 DEF KnownBindings
  <2> QED
    BY <2>1, <2>2 DEF KnownBindings
<1> QED
  BY <1>2, <1>3

LEMMA OuterKnown ==
  ASSUME CallInv, NEW c, Outer(c)
  PROVE  KnownActs(c, heap) /\ TcoFrames(c, stack) /\ c \in Seq(Activation)
<1>1. \A i \in 1 .. Len(c) : i \in 1 .. Len(ctl)
  <2>1. Len(c) \in Nat
    BY DEF Outer
  <2> QED
    BY <2>1 DEF Outer
<1>2. KnownActs(ctl, heap) /\ TcoFrames(ctl, stack)
  BY DEF CallInv, Accounted
<1>3. KnownActs(c, heap)
  BY <1>1, <1>2, PlainKnown DEF Outer, KnownActs
<1>4. TcoFrames(c, stack)
  BY <1>1, <1>2 DEF Outer, TcoFrames
<1> QED
  BY <1>3, <1>4 DEF Outer

LEMMA PushedActs ==
  ASSUME NEW c \in Seq(Activation), NEW h, KnownActs(c, h), NEW act \in Activation,
         act.fn \in Known(h), act.arg \in Known(h)
  PROVE  KnownActs(Append(c, act), h)
<1> DEFINE d == Append(c, act)
<1>1. /\ Len(c) \in Nat /\ Len(d) = Len(c) + 1 /\ d[Len(c) + 1] = act
      /\ \A i \in 1 .. Len(c) : d[i] = c[i]
  OBVIOUS
<1> HIDE DEF d
<1>2. \A i \in 1 .. Len(d) : i \in 1 .. Len(c) \/ i = Len(c) + 1
  BY <1>1
<1>3. KnownActs(d, h)
  BY <1>1, <1>2 DEF KnownActs
<1> QED
  BY <1>3 DEF d

LEMMA StackedTops ==
  ASSUME NEW c, NEW len, Stacked(c, len), NEW i \in 1 .. Len(c)
  PROVE  /\ c[i].height \in Nat \ {0} /\ c[i].frames \in Nat
         /\ c[i].height + c[i].frames <= len
         /\ \A j \in i + 1 .. Len(c) : c[i].height + c[i].frames <= c[j].height
<1>1. /\ c \in Seq(Activation) /\ Len(c) \in Nat /\ c # <<>> /\ len \in Nat
      /\ \A j \in 1 .. Len(c) : ActOK(c[j])
  BY DEF Stacked
<1>2. \A j \in 1 .. Len(c) : c[j].height \in Nat \ {0} /\ c[j].frames \in Nat
  <2> TAKE j \in 1 .. Len(c)
  <2>1. c[j].height \in Nat /\ c[j].frames \in Nat
    BY <1>1, ActAt
  <2> QED
    BY <1>1, <2>1 DEF ActOK
<1>3. \A j \in i + 1 .. Len(c) : c[i].height + c[i].frames <= c[j].height
  BY HeightsGrow
<1>4. len >= c[Len(c)].height + c[Len(c)].frames /\ Len(c) \in 1 .. Len(c)
  BY <1>1 DEF Stacked
<1>5. CASE i = Len(c)
  BY <1>1, <1>2, <1>3, <1>4, <1>5
<1>6. CASE i # Len(c)
  <2>1. Len(c) \in i + 1 .. Len(c)
    BY <1>1, <1>6
  <2>2. c[i].height + c[i].frames <= c[Len(c)].height
    BY <1>3, <2>1
  <2>3. /\ c[i].height \in Nat /\ c[i].frames \in Nat
        /\ c[Len(c)].height \in Nat /\ c[Len(c)].frames \in Nat
    BY <1>2, <1>4
  <2>4. \A a, b, x, y, l \in Nat : a + b <= x /\ l >= x + y => a + b <= l
    OBVIOUS
  <2>5. c[i].height + c[i].frames <= len
    BY <1>1, <1>4, <2>2, <2>3, <2>4
  <2> QED
    BY <1>2, <1>3, <2>5
<1> QED
  BY <1>5, <1>6

\* A trampoline starts with a frame of a tail call.
LEMMA PushedTco ==
  ASSUME NEW c, Stacked(c, Len(stack)), TcoFrames(c, stack),
         NEW act \in Activation, stack \in Seq(Frame),
         NEW s \in Seq(Frame), Len(s) >= Len(stack),
         \A p \in 1 .. Len(stack) : s[p].tco = stack[p].tco,
         act.kind \in Reusing => /\ act.height = Len(stack) /\ act.frames = 1
                                 /\ s[Len(stack) + 1].tco <=> act.kind = "tramp"
  PROVE  TcoFrames(Append(c, act), s) /\ TcoFrames(c, s)
<1> DEFINE d == Append(c, act)
<1>1. c \in Seq(Activation) /\ Len(stack) \in Nat /\ Len(c) \in Nat
  BY DEF Stacked
<1>2. /\ Len(d) = Len(c) + 1 /\ d[Len(c) + 1] = act
      /\ \A i \in 1 .. Len(c) : d[i] = c[i]
  BY <1>1
<1> HIDE DEF d
<1>3. \A i \in 1 .. Len(d) : i \in 1 .. Len(c) \/ i = Len(c) + 1
  BY <1>1, <1>2
<1>4. ASSUME NEW i \in 1 .. Len(c), c[i].kind \in Reusing,
             NEW p \in c[i].height + 1 .. c[i].height + c[i].frames
      PROVE  s[p].tco <=> c[i].kind = "tramp"
  <2>1. /\ c[i].height \in Nat \ {0} /\ c[i].frames \in Nat
        /\ c[i].height + c[i].frames <= Len(stack)
    BY <1>1, <1>4, StackedTops
  <2>2. p \in 1 .. Len(stack)
    BY <1>1, <2>1
  <2> QED
    BY <1>4, <2>2 DEF TcoFrames
<1>5. TcoFrames(c, s)
  BY <1>4 DEF TcoFrames
<1>6. ASSUME act.kind \in Reusing, NEW p \in act.height + 1 .. act.height + act.frames
      PROVE  s[p].tco <=> act.kind = "tramp"
  <2>1. p = Len(stack) + 1
    BY <1>1, <1>6
  <2> QED
    BY <1>6, <2>1
<1>7. TcoFrames(d, s)
  BY <1>2, <1>3, <1>4, <1>6 DEF TcoFrames
<1> QED
  BY <1>5, <1>7 DEF d

\* Activations that may run on the stack as it is.
Fit(c) == Stacked(c, Len(stack)) /\ KnownActs(c, heap) /\ TcoFrames(c, stack)

LEMMA ReadyFit ==
  ASSUME CallInv, NEW c, Ready(c), Outer(c)
  PROVE  Fit(c)
BY OuterKnown DEF Ready, Fit

LEMMA OuterCtl ==
  ASSUME IInv, ctl # <<>>
  PROVE  /\ Outer(ctl) /\ Outer(Below) /\ \A st \in {"f", "g", "end"} : Outer(Stage(st))
         /\ Len(Below) = Len(ctl) - 1 /\ Len(Below) < Len(ctl) /\ Len(ctl) \in 1 .. Len(ctl)
         /\ \A st : Len(Stage(st)) = Len(ctl)
<1>1. ctl \in Seq(Activation) /\ Len(ctl) \in Nat \ {0}
  BY HereOK DEF Stacked
<1>2. Outer(ctl)
  BY <1>1 DEF Outer
<1>3. /\ Below \in Seq(Activation) /\ Len(Below) = Len(ctl) - 1
      /\ \A i \in 1 .. Len(ctl) - 1 : Below[i] = ctl[i]
  <2> DEFINE n == Len(ctl) - 1
             d == SubSeq(ctl, 1, n)
  <2>1. n \in Nat /\ Len(ctl) = n + 1
    BY <1>1
  <2>2. d \in Seq(Activation) /\ Len(d) = n /\ \A i \in 1 .. n : d[i] = ctl[i]
    BY <1>1, <2>1
  <2> QED
    BY <2>2 DEF Below
<1>4. Outer(Below)
  BY <1>1, <1>3 DEF Outer
<1>5. ASSUME NEW st \in {"f", "g", "end"} PROVE Outer(Stage(st))
  <2> DEFINE n == Len(ctl)
             a == [ctl[n] EXCEPT !.stage = st, !.arg = Data]
  <2>1. n \in 1 .. Len(ctl) /\ ctl[n] \in Activation
    BY <1>1, ActAt
  <2>2. a \in Activation /\ a.kind = ctl[n].kind /\ a.height = ctl[n].height
        /\ a.frames = ctl[n].frames /\ a.fn = ctl[n].fn /\ a.arg = Data
    BY <2>1 DEF Activation, Value
  <2>3. Stage(st) = [ctl EXCEPT ![n] = a]
    BY <2>1 DEF Stage
  <2> HIDE DEF a
  <2>4. /\ Stage(st) \in Seq(Activation) /\ Len(Stage(st)) = Len(ctl)
        /\ \A i \in 1 .. Len(ctl) : Stage(st)[i] = IF i = n THEN a ELSE ctl[i]
    BY <1>1, <2>2, <2>3
  <2> QED
    BY <1>1, <2>2, <2>4 DEF Outer
<1>6. \A st : Len(Stage(st)) = Len(ctl)
  BY <1>1 DEF Stage
<1> QED
  BY <1>1, <1>2, <1>3, <1>4, <1>5, <1>6

LEMMA SameBindings ==
  ASSUME IInv
  PROVE  /\ Cut(stack, Len(stack)) = stack /\ OnlyBindings(stack, stack)
         /\ Len(stack) \in 1 .. Len(stack) /\ HostKept(stack)
<1>1. stack \in Seq(Frame) /\ Len(stack) \in Nat \ {0}
  BY StackFacts
<1>2. Cut(stack, Len(stack)) = stack
  BY <1>1 DEF Cut
<1> QED
  BY <1>1, <1>2 DEF OnlyBindings, HostKept

LEMMA CutKnown ==
  ASSUME NEW s \in Seq(Frame), NEW h, KnownFrames(s, h), NEW k \in 1 .. Len(s)
  PROVE  /\ KnownFrames(Cut(s, k), h) /\ OnlyBindings(Cut(s, k), Cut(s, k))
         /\ Cut(s, k) \in Seq(Frame) /\ Len(Cut(s, k)) = k
         /\ Cut(s, k)[Root] = s[Root]
<1>1. k \in 0 .. Len(s) /\ Len(s) \in Nat
  OBVIOUS
<1>2. /\ Cut(s, k) \in Seq(Frame) /\ Len(Cut(s, k)) = k
      /\ \A p \in 1 .. k : Cut(s, k)[p] = s[p]
  BY <1>1, CutFrames
<1>3. \A p \in 1 .. k : p \in 1 .. Len(s)
  BY <1>1
<1>4. Root \in 1 .. k
  BY <1>1 DEF Root
<1> QED
  BY <1>2, <1>3, <1>4 DEF KnownFrames, OnlyBindings

LEMMA BindOne ==
  ASSUME NEW s \in Seq(Frame), NEW h, KnownFrames(s, h), NEW p \in 1 .. Len(s),
         NEW b \in Bindings, KnownBindings(b, h), NEW t, t = [s EXCEPT ![p].bind = b]
  PROVE  OnlyBindings(s, t) /\ KnownFrames(t, h) /\ \A q \in 1 .. Len(s) : q # p => t[q] = s[q]
<1> DEFINE f == [s[p] EXCEPT !.bind = b]
<1>1. s[p] \in Frame
  BY FrameAt
<1>2. /\ f \in Frame /\ f.bind = b
      /\ f.id = s[p].id /\ f.barrier = s[p].barrier /\ f.home = s[p].home
      /\ f.internal = s[p].internal /\ f.opaque = s[p].opaque
      /\ f.tco = s[p].tco /\ f.token = s[p].token /\ f.seenAt = s[p].seenAt
  BY <1>1 DEF Frame
<1>3. t = [s EXCEPT ![p] = f]
  OBVIOUS
<1> HIDE DEF f
<1>4. /\ t \in Seq(Frame) /\ Len(t) = Len(s)
      /\ \A q \in 1 .. Len(s) : t[q] = IF q = p THEN f ELSE s[q]
  BY <1>2, <1>3
<1>5. OnlyBindings(s, t)
  BY <1>2, <1>4 DEF OnlyBindings
<1>6. KnownFrames(t, h)
  BY <1>2, <1>4 DEF KnownFrames
<1> QED
  BY <1>4, <1>5, <1>6

\* The frames of the activations left are still there.
LEMMA NarrowTco ==
  ASSUME IInv, CallInv, NEW k \in 1 .. Len(stack), NEW s, OnlyBindings(Cut(stack, k), s),
         NEW c, Outer(c),
         \/ k = Len(stack) \/ c = <<>>
         \/ \E j \in 1 .. Len(ctl) : Len(c) < j /\ ctl[j].height <= k
  PROVE  TcoFrames(c, s)
<1>1. Stacked(ctl, Len(stack)) /\ Len(c) \in Nat /\ stack \in Seq(Frame) /\ Len(stack) \in Nat
  BY StackFacts DEF IInv, CtlOK, Outer
<1>2. Len(ctl) \in Nat
  BY <1>1 DEF Stacked
<1> SUFFICES ASSUME NEW i \in 1 .. Len(c), c[i].kind \in Reusing,
                    NEW p \in c[i].height + 1 .. c[i].height + c[i].frames
             PROVE  s[p].tco <=> c[i].kind = "tramp"
  BY DEF TcoFrames
<1>3. /\ i \in 1 .. Len(ctl) /\ c[i].height = ctl[i].height /\ c[i].frames = ctl[i].frames
      /\ ctl[i].kind = c[i].kind
  BY <1>1, <1>2 DEF Outer
<1>4. /\ ctl[i].height \in Nat \ {0} /\ ctl[i].frames \in Nat
      /\ ctl[i].height + ctl[i].frames <= Len(stack)
      /\ \A j \in i + 1 .. Len(ctl) : ctl[i].height + ctl[i].frames <= ctl[j].height
  BY <1>1, <1>3, StackedTops
<1>5. ctl[i].height + ctl[i].frames <= k
  <2>1. CASE k = Len(stack)
    BY <1>4, <2>1
  <2>2. CASE c = <<>>
    BY <2>2
  <2>3. ASSUME NEW j \in 1 .. Len(ctl), Len(c) < j, ctl[j].height <= k
        PROVE  ctl[i].height + ctl[i].frames <= k
    <3>1. j \in i + 1 .. Len(ctl)
      BY <1>1, <1>2, <2>3
    <3>2. ctl[i].height + ctl[i].frames <= ctl[j].height
      BY <1>4, <3>1
    <3>3. ctl[j].height \in Nat
      BY <1>1, StackedTops
    <3> HIDE DEF Outer
    <3>4. \A a, b, x, y \in Nat : a + b <= x /\ x <= y => a + b <= y
      OBVIOUS
    <3> QED
      BY <1>4, <2>3, <3>2, <3>3, <3>4
  <2> QED
    BY <2>1, <2>2, <2>3
<1>6. p \in 1 .. k
  BY <1>3, <1>4, <1>5
<1>7. s[p].tco = stack[p].tco
  <2>1. Len(Cut(stack, k)) = k /\ Cut(stack, k)[p] = stack[p]
    <3>1. k \in 0 .. Len(stack)
      BY <1>1
    <3> QED
      BY <1>1, <1>6, <3>1, CutFrames
  <2> QED
    BY <1>6, <2>1 DEF OnlyBindings
<1>8. stack[p].tco <=> c[i].kind = "tramp"
  BY <1>3 DEF CallInv, TcoFrames
<1> QED
  BY <1>7, <1>8

LEMMA PopTo ==
  ASSUME IInv, CallInv, NEW k \in 1 .. Len(stack), NEW s, OnlyBindings(Cut(stack, k), s),
         KnownFrames(s, heap), HostKept(s),
         NEW c, Outer(c), NEW v \in Known(heap), SettleStack(s, c, v), nextId' = nextId,
         \/ k = Len(stack) \/ c = <<>>
         \/ \E j \in 1 .. Len(ctl) : /\ Len(c) < j /\ ctl[j].height <= k
                                     /\ None(ctl, "tramp", j + 1, Len(ctl))
  PROVE  Narrowed
<1>1. TcoFrames(c, s)
  BY NarrowTco
<1>2. KnownActs(c, heap)
  BY OuterKnown
<1>3. Narrows(k, s, c, v)
  BY <1>1, <1>2 DEF Narrows, Accounted, SettleStack
<1> QED
  BY <1>3 DEF Narrowed

\* A step that leaves the stack as it is.
LEMMA StaysPut ==
  ASSUME IInv, CallInv, NEW c, Outer(c), NEW v \in Known(heap),
         SettleStack(stack, c, v), nextId' = nextId
  PROVE  Narrowed
<1>1. KnownFrames(stack, heap)
  BY DEF CallInv, Accounted
<1> QED
  BY <1>1, SameBindings, PopTo

LEMMA StaysPutUnder ==
  ASSUME IInv, CallInv, NEW c, Fit(c), NEW act \in Activation, act.kind \notin Reusing,
         act.fn \in Known(heap), act.arg \in Known(heap),
         SettleStack(stack, Append(c, act), Data), nextId' = nextId
  PROVE  Narrowed
<1>1. KnownFrames(stack, heap) /\ stack \in Seq(Frame) /\ Len(stack) >= Len(stack)
  BY StackFacts DEF CallInv, Accounted
<1>2. c \in Seq(Activation)
  BY DEF Fit, Stacked
<1>3. KnownActs(Append(c, act), heap)
  BY <1>2, PushedActs DEF Fit
<1>4. TcoFrames(Append(c, act), stack)
  BY <1>1, PushedTco DEF Fit
<1>5. Narrows(Len(stack), stack, Append(c, act), Data)
  BY <1>1, <1>3, <1>4, SameBindings, PlainKnown DEF Narrows, Accounted, SettleStack
<1> QED
  BY <1>5 DEF Narrowed

\* The activation on top pops the one frame it pushed.
LEMMA PopIs ==
  ASSUME IInv, ctl # <<>>, Here.frames = 1
  PROVE  LET k == Len(stack) - 1
         IN  Pop(stack) = Cut(stack, k) /\ k \in 1 .. Len(stack) /\ Here.height <= k
<1>1. /\ Here.height \in 1 .. Len(stack) /\ Here.height + Here.frames <= Len(stack)
      /\ Len(stack) \in Nat
  BY HereOK, StackFacts
<1>2. Top(stack) > Root
  BY <1>1 DEF Top, Root
<1> QED
  BY <1>1, <1>2 DEF Pop, Top

LEMMA HereInnermost ==
  ASSUME IInv, ctl # <<>>
  PROVE  Len(ctl) \in 1 .. Len(ctl) /\ None(ctl, "tramp", Len(ctl) + 1, Len(ctl))
         /\ Here = ctl[Len(ctl)]
<1>1. Len(ctl) \in Nat \ {0}
  BY HereOK
<1> QED
  BY <1>1 DEF None, Here

LEMMA PopStep ==
  ASSUME IInv, CallInv, ctl # <<>>, Here.frames = 1, NEW v \in Known(heap),
         SettleStack(Pop(stack), Below, v), nextId' = nextId
  PROVE  Narrowed
<1> DEFINE k == Len(stack) - 1
           s == Cut(stack, k)
<1>1. Pop(stack) = s /\ k \in 1 .. Len(stack) /\ Here.height <= k
  BY PopIs
<1>2. KnownFrames(stack, heap) /\ stack \in Seq(Frame)
  BY StackFacts DEF CallInv, Accounted
<1>3. Outer(Below) /\ Len(Below) < Len(ctl)
  BY OuterCtl
<1> HIDE DEF k
<1>4. OnlyBindings(Cut(stack, k), s) /\ KnownFrames(s, heap) /\ HostKept(s)
  BY <1>1, <1>2, CutKnown DEF HostKept
<1> HIDE DEF s
<1> QED
  BY <1>1, <1>3, <1>4, HereInnermost, PopTo

LEMMA LeaveStep ==
  ASSUME IInv, CallInv, ctl # <<>>, NEW c, Ready(c), c[Len(c)].kind = "tramp",
         c = ctl \/ (c = Below /\ Here.kind = "tail"),
         NEW v \in Known(heap), LeaveTrampoline(c, v)
  PROVE  Narrowed
<1> DEFINE tramp == c[Len(c)]
           d == SubSeq(c, 1, Len(c) - 1)
           k == Top(stack) - tramp.frames
           s == Cut(stack, k)
<1>1. SettleStack(s, d, v) /\ nextId' = nextId
  BY DEF LeaveTrampoline
<1>2. /\ c \in Seq(Activation) /\ Len(c) \in Nat \ {0} /\ Len(ctl) \in Nat \ {0}
      /\ tramp.height \in 1 .. Len(stack) /\ tramp.frames \in Nat
      /\ Len(stack) = tramp.height + tramp.frames
  BY HereOK, HeightIn DEF Ready, Exact, Stacked
<1>3. k = tramp.height /\ k \in 1 .. Len(stack)
  BY <1>2 DEF Top
<1>4. Outer(c) /\ Len(c) \in 1 .. Len(ctl) /\ None(ctl, "tramp", Len(c) + 1, Len(ctl))
  <2>1. CASE c = ctl
    BY <2>1, OuterCtl, HereInnermost
  <2>2. CASE c = Below /\ Here.kind = "tail"
    <3>1. Len(c) = Len(ctl) - 1 /\ Len(c) \in Nat \ {0}
      <4>1. Len(Below) = Len(ctl) - 1
        BY OuterCtl
      <4> QED
        BY <1>2, <2>2, <4>1
    <3>2. \A j \in Len(c) + 1 .. Len(ctl) : ctl[j].kind # "tramp"
      <4>1. \A j \in Len(c) + 1 .. Len(ctl) : j = Len(ctl)
        BY <1>2, <3>1
      <4> QED
        BY <2>2, <4>1 DEF Here
    <3> QED
      BY <1>2, <2>2, <3>1, <3>2, OuterCtl DEF None
  <2> QED
    BY <2>1, <2>2
<1>5. Outer(d) /\ Len(d) < Len(c)
  <2> DEFINE n == Len(c) - 1
  <2>1. n \in Nat /\ Len(c) = n + 1
    BY <1>2
  <2>2. d \in Seq(Activation) /\ Len(d) = n /\ \A i \in 1 .. n : d[i] = c[i]
    BY <1>2, <2>1
  <2>3. n <= Len(ctl) /\ \A i \in 1 .. n : i \in 1 .. Len(c)
    BY <1>2, <1>4, <2>1
  <2> HIDE DEF d, n
  <2> QED
    BY <1>4, <2>1, <2>2, <2>3 DEF Outer
<1>6. ctl[Len(c)].height <= k
  <2>1. Len(c) \in 1 .. Len(c)
    BY <1>2
  <2> QED
    BY <1>2, <1>3, <1>4, <2>1 DEF Outer
<1>7. KnownFrames(stack, heap) /\ stack \in Seq(Frame)
  BY StackFacts DEF CallInv, Accounted
<1> HIDE DEF k, tramp, d
<1>8. OnlyBindings(Cut(stack, k), s) /\ KnownFrames(s, heap) /\ HostKept(s)
  BY <1>3, <1>7, CutKnown DEF HostKept
<1> HIDE DEF s
<1> QED
  BY <1>1, <1>3, <1>4, <1>5, <1>6, <1>8, PopTo

\* PopInto: the bindings of the frame popped go to the frame `$eval` ran for.
LEMMA AfterEvalStep ==
  ASSUME IInv, CallInv, ctl # <<>>, Here.kind = "eval", NEW v \in Known(heap),
         SettleStack(AfterEval(stack, Here), Below, v), nextId' = nextId
  PROVE  Narrowed
<1>1. ActOK(Here)
  BY HereOK
<1>2. CASE Here.frames = 0
  <2>1. AfterEval(stack, Here) = stack
    BY <1>2 DEF AfterEval
  <2> QED
    BY <2>1, OuterCtl, StaysPut
<1>3. CASE Here.frames # 0
  <2> DEFINE k == Len(stack) - 1
             at == Here.saved[1]
  <2>1. /\ Here.frames = 1 /\ at \in 1 .. Here.height
        /\ at = Root => Here.saved[2] = 1
    BY <1>1, <1>3 DEF ActOK
  <2>2. CASE Here.saved[2] = 1
    <3>1. AfterEval(stack, Here) = Pop(stack)
      BY <1>3, <2>2 DEF AfterEval
    <3> QED
      BY <2>1, <3>1, PopStep
  <2>3. CASE Here.saved[2] # 1
    <3> DEFINE t == Cut(stack, k)
               b == Extend(t[at].bind, stack[Top(stack)].bind)
               s == [t EXCEPT ![at].bind = b]
    <3>1. AfterEval(stack, Here) = s
      BY <1>3, <2>3, Zenon DEF AfterEval, PopInto, Top
    <3>2. k \in 1 .. Len(stack) /\ Here.height <= k
      BY <2>1, PopIs
    <3>3. at \in 1 .. k /\ at # Root /\ Root \in 1 .. k
      <4>1. Here.height \in Nat
        BY HereOK
      <4> QED
        BY <2>1, <2>3, <3>2, <4>1 DEF Root
    <3>4. KnownFrames(stack, heap) /\ stack \in Seq(Frame)
      BY StackFacts DEF CallInv, Accounted
    <3> HIDE DEF k, at
    <3>5. /\ KnownFrames(t, heap) /\ t \in Seq(Frame) /\ Len(t) = k
          /\ t[Root] = stack[Root]
      BY <3>2, <3>4, CutKnown
    <3> HIDE DEF t
    <3>6. b \in Bindings /\ KnownBindings(b, heap)
      <4>1. Top(stack) \in 1 .. Len(stack)
        BY StackFacts DEF Top
      <4>2. /\ t[at].bind \in Bindings /\ stack[Top(stack)].bind \in Bindings
            /\ KnownBindings(t[at].bind, heap) /\ KnownBindings(stack[Top(stack)].bind, heap)
        BY <3>3, <3>4, <3>5, <4>1, FrameAt DEF KnownFrames
      <4> QED
        BY <4>2 DEF Extend, Bindings, KnownBindings
    <3> HIDE DEF b
    <3>7. /\ OnlyBindings(t, s) /\ KnownFrames(s, heap)
          /\ \A q \in 1 .. Len(t) : q # at => s[q] = t[q]
      <4>1. at \in 1 .. Len(t)
        BY <3>3, <3>5
      <4>2. s = [t EXCEPT ![at].bind = b]
        OBVIOUS
      <4> HIDE DEF s
      <4>3. t \in Seq(Frame) /\ KnownFrames(t, heap) /\ b \in Bindings /\ KnownBindings(b, heap)
        BY <3>5, <3>6
      <4>4. \A h : KnownFrames(t, h) /\ KnownBindings(b, h) => OnlyBindings(t, s) /\ KnownFrames(s, h)
        BY <4>1, <4>2, <4>3, BindOne
      <4>5. \A q \in 1 .. Len(t) : q # at => s[q] = t[q]
        BY <4>1, <4>2, <4>3, BindOne
      <4> QED
        BY <4>3, <4>4, <4>5
    <3>8. HostKept(s)
      BY <3>3, <3>5, <3>7 DEF HostKept
    <3> HIDE DEF s
    <3> QED
      BY <3>1, <3>2, <3>7, <3>8, OuterCtl, HereInnermost, PopTo DEF t
  <2> QED
    BY <2>2, <2>3
<1> QED
  BY <1>2, <1>3
-----------------------------------------------------------------------------
(***************************************************************************)
(* Pushes.                                                                 *)
(***************************************************************************)
\* A frame just made has no token, and nobody asked who sees it.
Fresh(f) == ~ f.token /\ f.seenAt = 0

LEMMA FreshFrames ==
  ASSUME NEW id, NEW barrier, NEW home
  PROVE  /\ Fresh(NewFrame(id, barrier, home)) /\ NewFrame(id, barrier, home).bind = NoBindings
         /\ NewFrame(id, barrier, home).tco = FALSE
BY DEF NewFrame, Fresh

LEMMA FreshCallFrames ==
  ASSUME NEW barrier, NEW home, NEW c, NEW bind
  PROVE  /\ Fresh(CallFrame(c, barrier, home, bind)) /\ CallFrame(c, barrier, home, bind).bind = bind
         /\ Fresh(TailCallFrame(c, barrier, home, bind))
         /\ TailCallFrame(c, barrier, home, bind).bind = bind
         /\ TailCallFrame(c, barrier, home, bind).tco
BY DEF NewFrame, CallFrame, TailCallFrame, Fresh

LEMMA NothingKnown == \A h : KnownBindings(NoBindings, h)
BY DEF KnownBindings, NoBindings

LEMMA PushStep ==
  ASSUME IInv, CallInv, NEW f \in Frame, f.id = nextId, Fresh(f), KnownBindings(f.bind, heap),
         NEW at \in 1 .. Len(stack), f.barrier \in {0, at}, f.barrier = 0 => at = Len(stack),
         f.home = Sees(stack, at),
         NEW d, Settle(Append(stack, f), heap, outer, d, Data), nextId' = nextId + 1, CanPush,
         KnownActs(d, heap), TcoFrames(d, Append(stack, f)), Len(d) > Len(ctl)
  PROVE  Pushed
<1> DEFINE s == Append(stack, f)
<1>1. stack \in Seq(Frame) /\ Len(stack) \in Nat /\ KnownFrames(stack, heap)
  BY StackFacts DEF CallInv, Accounted
<1>2. KnownFrames(s, heap)
  <2>1. Len(s) = Len(stack) + 1 /\ s[Len(stack) + 1] = f
        /\ \A p \in 1 .. Len(stack) : s[p] = stack[p]
    BY <1>1
  <2>2. \A p \in 1 .. Len(s) : p \in 1 .. Len(stack) \/ p = Len(stack) + 1
    BY <1>1, <2>1
  <2> HIDE DEF s
  <2> QED
    BY <1>1, <2>1, <2>2 DEF KnownFrames
<1> HIDE DEF s
<1>3. Accounted(s, heap, d, Data)
  BY <1>2, PlainKnown DEF Accounted
<1>4. Pushes(f, at, d)
  BY <1>3 DEF Pushes, CanPush, Fresh, s
<1> QED
  BY <1>4 DEF Pushed

\* With one activation more.
LEMMA PushOneStep ==
  ASSUME IInv, CallInv, NEW f \in Frame, f.id = nextId, Fresh(f), KnownBindings(f.bind, heap),
         NEW at \in 1 .. Len(stack), f.barrier \in {0, at}, f.barrier = 0 => at = Len(stack),
         f.home = Sees(stack, at),
         NEW c, Fit(c), Len(c) >= Len(ctl),
         NEW act \in Activation, act.fn \in Known(heap), act.arg \in Known(heap),
         act.kind # "tramp",
         act.kind = "merge" => act.height = Len(stack) /\ act.frames = 1 /\ ~ f.tco,
         Settle(Append(stack, f), heap, outer, Append(c, act), Data),
         nextId' = nextId + 1, CanPush
  PROVE  Pushed
<1>1. stack \in Seq(Frame) /\ Len(stack) \in Nat /\ c \in Seq(Activation) /\ Len(c) \in Nat
      /\ Len(ctl) \in Nat
  BY StackFacts DEF Fit, Stacked, IInv, CtlOK
<1>2. /\ Append(stack, f) \in Seq(Frame) /\ Len(Append(stack, f)) >= Len(stack)
      /\ \A p \in 1 .. Len(stack) : Append(stack, f)[p] = stack[p]
      /\ Append(stack, f)[Len(stack) + 1] = f
      /\ Len(Append(c, act)) > Len(ctl)
  BY <1>1
<1>3. KnownActs(Append(c, act), heap)
  BY <1>1, PushedActs DEF Fit
<1>4. TcoFrames(Append(c, act), Append(stack, f))
  BY <1>1, <1>2, PushedTco DEF Fit, Reusing
<1> QED
  BY <1>2, <1>3, <1>4, PushStep

LEMMA PushTcoSame ==
  ASSUME NEW c \in Seq(Activation), NEW s, TcoFrames(c, s), NEW act \in Activation, act.kind \notin Reusing
  PROVE  TcoFrames(Append(c, act), s)
<1> DEFINE d == Append(c, act)
<1>1. /\ Len(c) \in Nat /\ Len(d) = Len(c) + 1 /\ d[Len(c) + 1] = act
      /\ \A i \in 1 .. Len(c) : d[i] = c[i]
  OBVIOUS
<1> HIDE DEF d
<1>2. \A i \in 1 .. Len(d) : i \in 1 .. Len(c) \/ i = Len(c) + 1
  BY <1>1
<1>3. TcoFrames(d, s)
  BY <1>1, <1>2 DEF TcoFrames
<1> QED
  BY <1>3 DEF d

LEMMA BlockFrameIs ==
  ASSUME IInv
  PROVE  /\ BlockFrame \in Frame /\ BlockFrame.id = nextId /\ BlockFrame.barrier = 0
         /\ BlockFrame.home = Sees(stack, Len(stack)) /\ Fresh(BlockFrame)
         /\ BlockFrame.bind = NoBindings /\ ~ BlockFrame.tco
<1> DEFINE top == Len(stack)
           home == Sees(stack, top)
<1>1. top \in 1 .. Len(stack) /\ Sees(stack, top) \in SUBSET Nat /\ nextId \in Nat
  BY StackFacts, SeesType
<1>2. BlockFrame = NewFrame(nextId, 0, home) /\ 0 \in Nat /\ home \in SUBSET Nat
  BY <1>1 DEF BlockFrame, Top, NoBarrier
<1> HIDE DEF home
<1>3. /\ NewFrame(nextId, 0, home) \in Frame /\ NewFrame(nextId, 0, home).id = nextId
      /\ NewFrame(nextId, 0, home).barrier = 0 /\ NewFrame(nextId, 0, home).home = home
      /\ ~ NewFrame(nextId, 0, home).internal
  BY <1>1, <1>2, NewFrameOK
<1>4. /\ Fresh(NewFrame(nextId, 0, home)) /\ NewFrame(nextId, 0, home).bind = NoBindings
      /\ ~ NewFrame(nextId, 0, home).tco
  BY FreshFrames
<1> QED
  BY <1>2, <1>3, <1>4 DEF home

LEMMA BlockStep ==
  ASSUME IInv, CallInv, NEW f \in {BlockFrame, [BlockFrame EXCEPT !.internal = TRUE]},
         NEW c, Fit(c), Len(c) >= Len(ctl),
         NEW act \in Activation, act.fn \in Known(heap), act.arg \in Known(heap),
         act.kind # "tramp",
         act.kind = "merge" => act.height = Len(stack) /\ act.frames = 1,
         Settle(Append(stack, f), heap, outer, Append(c, act), Data),
         nextId' = nextId + 1, CanPush
  PROVE  Pushed
<1> DEFINE at == Len(stack)
<1>1. at \in 1 .. Len(stack) /\ at = Len(stack)
  BY StackFacts
<1>2. /\ BlockFrame \in Frame /\ BlockFrame.id = nextId /\ BlockFrame.barrier = 0
      /\ BlockFrame.home = Sees(stack, at) /\ Fresh(BlockFrame) /\ BlockFrame.bind = NoBindings
      /\ ~ BlockFrame.tco
  BY BlockFrameIs
<1> HIDE DEF at
<1>3. /\ f \in Frame /\ f.id = nextId /\ f.barrier = 0 /\ f.home = Sees(stack, at)
      /\ Fresh(f) /\ f.bind = NoBindings /\ ~ f.tco
  <2>1. CASE f = BlockFrame
    BY <1>2, <2>1
  <2>2. CASE f = [BlockFrame EXCEPT !.internal = TRUE]
    BY <1>2, <2>2 DEF Frame, Fresh
  <2> QED
    BY <2>1, <2>2
<1>4. KnownBindings(f.bind, heap)
  BY <1>3, NothingKnown
<1> QED
  BY <1>1, <1>3, <1>4, PushOneStep

LEMMA CallPlainStep ==
  ASSUME IInv, CallInv, NEW c, Ready(c), Fit(c), Len(c) >= Len(ctl),
         NEW fn \in Fns, fn \in Known(heap), NEW arg \in Known(heap),
         CallPlain(c, fn, arg), nextId' = nextId + 1, CanPush
  PROVE  Pushed
<1> DEFINE at == BarrierFor(stack, heap[fn])
           bind == BodyBindings(fn, arg)
           f == CallFrame(heap[fn], at, HomeOf(stack, heap[fn]), bind)
           act == IF heap[fn].kind = "first"
                  THEN [Act("first", 1) EXCEPT !.fn = heap[fn].f, !.arg = arg]
                  ELSE Act("call", 1)
<1>1. ~ AtCaller(heap[fn])
  BY DEF CallPlain, AtCaller, IInv, HeapOK
<1>2. at \in 1 .. Len(stack) /\ HomeOf(stack, heap[fn]) = Sees(stack, at)
  BY <1>1, BarrierOK, StackFacts
<1>3. bind \in Bindings /\ KnownBindings(bind, heap)
  BY BodyBindingsOK, BodyBindingsKnown DEF Known
<1>4. Settle(Append(stack, f), heap, outer, Append(c, act), Data)
  BY DEF CallPlain, SettleStack, With
<1>5. /\ act \in Activation /\ act.fn \in Known(heap) /\ act.arg \in Known(heap)
      /\ act.kind # "tramp" /\ act.kind # "merge"
  <2>1. CASE heap[fn].kind = "first"
    <3>1. heap[fn].f \in Known(heap)
      <4>1. heap[fn].f \in Value
        BY <2>1 DEF IInv, HeapOK
      <4>2. heap[fn].f \in Known(heap) \cup {Unbound}
        BY DEF CallInv, HeapAccounted
      <4> QED
        BY <4>1, <4>2, ValuesDistinct DEF Value
    <3>2. Act("first", 1) \in Activation /\ Act("first", 1).kind = "first"
      BY ActIs DEF Kinds
    <3>3. heap[fn].f \in Value /\ arg \in Value
      BY <3>1 DEF Known
    <3> QED
      BY <2>1, <3>1, <3>2, <3>3 DEF Activation
  <2>2. CASE heap[fn].kind # "first"
    BY <2>2, ActIs, PlainKnown DEF Kinds
  <2> QED
    BY <2>1, <2>2
<1> HIDE DEF act, bind
<1>6. /\ f \in Frame /\ f.id = nextId /\ f.barrier = at /\ f.home = Sees(stack, at)
      /\ Fresh(f) /\ f.bind = bind
  <2> DEFINE home == HomeOf(stack, heap[fn])
             k == heap[fn]
  <2>1. at \in Nat /\ home \in SUBSET Nat /\ nextId \in Nat
    BY <1>2, SeesType, StackFacts
  <2> HIDE DEF at, home, k
  <2>2. /\ CallFrame(k, at, home, bind) \in Frame /\ CallFrame(k, at, home, bind).id = nextId
        /\ CallFrame(k, at, home, bind).barrier = at
        /\ CallFrame(k, at, home, bind).home = home
        /\ CallFrame(k, at, home, bind).internal = Internal(k)
        /\ CallFrame(k, at, home, bind).opaque = Opaque(k)
    BY <1>3, <2>1, CallFrameOK
  <2>3. Fresh(CallFrame(k, at, home, bind)) /\ CallFrame(k, at, home, bind).bind = bind
    BY FreshCallFrames
  <2> QED
    BY <1>2, <2>2, <2>3 DEF home, k
<1> HIDE DEF f, at
<1> QED
  BY <1>2, <1>3, <1>4, <1>5, <1>6, PushOneStep

LEMMA CallTrampolineStep ==
  ASSUME IInv, CallInv, NEW c, Ready(c), Fit(c), Len(c) >= Len(ctl),
         NEW fn \in Fns, fn \in Known(heap), NEW arg \in Known(heap),
         CallTrampoline(c, fn, arg), nextId' = nextId + 1, CanPush
  PROVE  Pushed
<1> DEFINE comp == AtCaller(heap[fn])
           at == IF comp THEN EntryBase ELSE BarrierFor(stack, heap[fn])
           home == IF comp THEN Sees(stack, EntryBase) ELSE HomeOf(stack, heap[fn])
           bind == BodyBindings(fn, arg)
           f == TailCallFrame(heap[fn], at, home, bind)
           tramp == [Act("tramp", 1) EXCEPT !.saved = <<tailBase, 0>>]
           last == [Composition(fn, arg) EXCEPT !.height = Len(stack) + 1]
           body == IF comp THEN <<tramp, last>> ELSE <<tramp>>
           s == Append(stack, f)
<1>1. at \in 1 .. Len(stack) /\ home = Sees(stack, at)
  <2>1. EntryBase \in 1 .. Len(stack)
    BY EntryBaseIs, StackFacts
  <2> QED
    BY <2>1, BarrierOK, StackFacts
<1>2. Settle(s, heap, outer, c \o body, Data)
  BY Zenon DEF CallTrampoline, SettleStack
<1>3. bind \in Bindings /\ KnownBindings(bind, heap)
  BY BodyBindingsOK, BodyBindingsKnown DEF Known
<1>4. fn \in Value /\ arg \in Value /\ Len(stack) + 1 \in Nat /\ tailBase \in Nat
  BY StackFacts DEF Value, Known, IInv, BasesOK
<1>5. /\ tramp \in Activation /\ tramp.kind = "tramp" /\ tramp.frames = 1
      /\ tramp.height = Len(stack) /\ tramp.fn = Data /\ tramp.arg = Data
  <2>1. /\ Act("tramp", 1) \in Activation
        /\ Act("tramp", 1).kind = "tramp" /\ Act("tramp", 1).frames = 1
        /\ Act("tramp", 1).height = Len(stack)
        /\ Act("tramp", 1).fn = Data /\ Act("tramp", 1).arg = Data
    BY ActIs DEF Kinds
  <2> QED
    BY <1>4, <2>1 DEF Activation
<1>6. last \in Activation /\ last.kind = "tail" /\ last.fn = fn /\ last.arg = arg
  <2>1. Act("tail", 0) \in Activation /\ Act("tail", 0).kind = "tail"
    BY ActIs DEF Kinds
  <2>2. /\ Composition(fn, arg) \in Activation /\ Composition(fn, arg).kind = "tail"
        /\ Composition(fn, arg).fn = fn /\ Composition(fn, arg).arg = arg
    BY <1>4, <2>1 DEF Composition, Activation
  <2> QED
    BY <1>4, <2>2 DEF Activation
<1> HIDE DEF tramp, last
<1>7. /\ f \in Frame /\ f.id = nextId /\ f.barrier = at /\ f.home = Sees(stack, at)
      /\ Fresh(f) /\ f.bind = bind /\ f.tco
  <2> DEFINE k == heap[fn]
  <2>1. at \in Nat /\ home \in SUBSET Nat /\ nextId \in Nat
    BY <1>1, SeesType, StackFacts
  <2> HIDE DEF at, home, k, bind
  <2>2. /\ TailCallFrame(k, at, home, bind) \in Frame
        /\ TailCallFrame(k, at, home, bind).id = nextId
        /\ TailCallFrame(k, at, home, bind).barrier = at
        /\ TailCallFrame(k, at, home, bind).home = home
        /\ TailCallFrame(k, at, home, bind).internal = Internal(k)
        /\ TailCallFrame(k, at, home, bind).opaque = Opaque(k)
    BY <1>3, <2>1, CallFrameOK
  <2>3. /\ Fresh(TailCallFrame(k, at, home, bind)) /\ TailCallFrame(k, at, home, bind).bind = bind
        /\ TailCallFrame(k, at, home, bind).tco
    BY FreshCallFrames
  <2> QED
    BY <1>1, <2>2, <2>3 DEF k
<1> HIDE DEF f, at, home, bind
<1>8. /\ stack \in Seq(Frame) /\ Len(stack) \in Nat /\ c \in Seq(Activation) /\ Len(c) \in Nat
      /\ Len(ctl) \in Nat
  BY StackFacts DEF Fit, Stacked, IInv, CtlOK
<1>9. /\ s \in Seq(Frame) /\ Len(s) >= Len(stack) /\ s[Len(stack) + 1] = f
      /\ \A p \in 1 .. Len(stack) : s[p] = stack[p]
  BY <1>7, <1>8
<1>10. c \o <<tramp>> = Append(c, tramp) /\ c \o <<tramp, last>> = Append(Append(c, tramp), last)
  BY <1>5, <1>6, <1>8, TwoMore
<1> HIDE DEF s
<1>11. KnownActs(Append(c, tramp), heap) /\ TcoFrames(Append(c, tramp), s)
       /\ Append(c, tramp) \in Seq(Activation) /\ Len(Append(c, tramp)) = Len(c) + 1
  <2>1. KnownActs(Append(c, tramp), heap)
    BY <1>5, <1>8, PushedActs, PlainKnown DEF Fit
  <2>2. TcoFrames(Append(c, tramp), s)
    BY <1>5, <1>7, <1>8, <1>9, PushedTco DEF Fit, Reusing
  <2> QED
    BY <1>5, <1>8, <2>1, <2>2
<1> DEFINE d == Append(c, tramp)
<1>12. d \in Seq(Activation) /\ Len(d) = Len(c) + 1 /\ KnownActs(d, heap) /\ TcoFrames(d, s)
  BY <1>11
<1> HIDE DEF d
<1>13. /\ KnownActs(Append(d, last), heap) /\ TcoFrames(Append(d, last), s)
       /\ Len(Append(d, last)) = Len(c) + 2
  BY <1>6, <1>8, <1>12, PushedActs, PushTcoSame DEF Reusing
<1> DEFINE e == c \o body
<1>14. e \in {d, Append(d, last)} /\ Settle(Append(stack, f), heap, outer, e, Data)
  BY <1>2, <1>10 DEF d, s
<1> HIDE DEF body, e
<1>15. Len(e) > Len(ctl)
  <2>1. Len(e) = Len(c) + 1 \/ Len(e) = Len(c) + 2
    BY <1>12, <1>13, <1>14
  <2>2. Len(e) >= Len(c) + 1
    BY <1>8, <2>1
  <2> QED
    BY <1>8, <2>1, <2>2
<1>16. KnownActs(e, heap) /\ TcoFrames(e, Append(stack, f))
  BY <1>12, <1>13, <1>14 DEF s
<1> QED
  BY <1>1, <1>3, <1>7, <1>14, <1>15, <1>16, PushStep

LEMMA ApplyStep ==
  ASSUME IInv, CallInv, NEW c, Ready(c), Fit(c), Len(c) >= Len(ctl),
         NEW fn \in Fns, fn \in Known(heap), NEW arg \in Known(heap), Apply(c, fn, arg)
  PROVE  Pushed
BY CallPlainStep, CallTrampolineStep DEF Apply, CanCall

LEMMA StartEvalStep ==
  ASSUME IInv, CallInv, NEW c, Fit(c), Len(c) >= Len(ctl),
         NEW from \in 2 .. Len(stack), StartEval(c, from)
  PROVE  Pushed \/ Narrowed
<1> DEFINE at == FrameBelowInternal(stack, from)
<1>1. at \in 1 .. Len(stack) /\ CanPush
  <2>1. from \in 1 .. Len(stack)
    BY StackFacts
  <2>2. at \in 1 .. from
    BY <2>1, StackFacts, FrameBelowInternalIn
  <2> QED
    BY <2>1, <2>2, StackFacts DEF StartEval, CanCall
<1>2. CASE at = Top(stack)
  <2> DEFINE act == Act("eval", 0)
  <2>1. /\ act \in Activation /\ act.kind = "eval" /\ act.fn = Data /\ act.arg = Data
    BY ActIs DEF Kinds
  <2>2. SettleStack(stack, Append(c, act), Data) /\ nextId' = nextId
    BY <1>2 DEF StartEval, With
  <2> HIDE DEF act
  <2> QED
    BY <2>1, <2>2, PlainKnown, StaysPutUnder DEF Reusing
<1>3. CASE at # Top(stack)
  <2> DEFINE saved == <<at, IF OpaqueOnTheWay(stack, from) THEN 1 ELSE 0>>
             act == [Act("eval", 1) EXCEPT !.saved = saved]
             seen == Sees(stack, at)
             f == NewFrame(nextId, at, seen)
  <2>1. Settle(Append(stack, f), heap, outer, Append(c, act), Data) /\ nextId' = nextId + 1
    BY <1>3, Zenon DEF StartEval, SettleStack, With
  <2>2. saved \in Nat \X Nat
    BY <1>1
  <2> HIDE DEF saved
  <2>3. act \in Activation /\ act.kind = "eval" /\ act.fn = Data /\ act.arg = Data
    BY <2>2, ActIs DEF Kinds, Activation
  <2> HIDE DEF act
  <2>4. seen \in SUBSET Nat /\ at \in Nat /\ nextId \in Nat
    BY <1>1, SeesType, StackFacts
  <2> HIDE DEF at, seen
  <2>5. /\ f \in Frame /\ f.id = nextId /\ f.barrier = at /\ f.home = seen /\ ~ f.internal
    BY <2>4, NewFrameOK
  <2>6. Fresh(f) /\ f.bind = NoBindings
    BY FreshFrames
  <2> HIDE DEF f
  <2>7. KnownBindings(f.bind, heap)
    BY <2>6, NothingKnown
  <2>8. f.home = Sees(stack, at)
    BY <2>5 DEF seen
  <2> QED
    BY <1>1, <2>1, <2>3, <2>5, <2>6, <2>7, <2>8, PlainKnown, PushOneStep
<1> QED
  BY <1>2, <1>3
-----------------------------------------------------------------------------
(***************************************************************************)
(* Every step is one of these.                                             *)
(***************************************************************************)
LEMMA EvaluateStep ==
  ASSUME IInv, CallInv, Evaluate
  PROVE  Pushed
<1> DEFINE act == [Act("evaluate", 1) EXCEPT !.saved = <<Len(stack), 0>>]
           d == <<act>>
<1>1. ctl = <<>> /\ Len(stack) \in Nat /\ stack \in Seq(Frame)
  BY StackFacts DEF Evaluate, IInv, CtlOK
<1>2. Settle(Append(stack, BlockFrame), heap, outer, d, Data) /\ CanPush /\ nextId' = nextId + 1
  BY DEF Evaluate, SettleStack, OwnFrame
<1>3. act.kind = "evaluate" /\ act.fn = Data /\ act.arg = Data
  BY DEF Act
<1> HIDE DEF act
<1>4. Len(d) = 1 /\ d[1] = act
  OBVIOUS
<1>5. KnownActs(d, heap) /\ TcoFrames(d, Append(stack, BlockFrame)) /\ Len(d) > Len(ctl)
  <2>1. \A i \in 1 .. Len(d) : d[i] = act
    BY <1>4
  <2>2. Len(ctl) = 0
    BY <1>1
  <2> HIDE DEF d
  <2> QED
    BY <1>3, <1>4, <2>1, <2>2, PlainKnown DEF KnownActs, TcoFrames, Reusing
<1> HIDE DEF d
<1> DEFINE f == BlockFrame
           at == Len(stack)
<1>6. /\ f \in Frame /\ f.id = nextId /\ f.barrier = 0
      /\ f.home = Sees(stack, at) /\ Fresh(f) /\ f.bind = NoBindings
  BY BlockFrameIs
<1>7. at \in 1 .. Len(stack) /\ KnownBindings(f.bind, heap)
      /\ f.barrier \in {0, at} /\ (f.barrier = 0 => at = Len(stack))
      /\ Settle(Append(stack, f), heap, outer, d, Data)
      /\ TcoFrames(d, Append(stack, f))
  BY <1>2, <1>5, <1>6, NothingKnown, SameBindings
<1> HIDE DEF f, at
<1> QED
  BY <1>2, <1>5, <1>6, <1>7, PushStep

LEMMA BindStep ==
  ASSUME IInv, CallInv, NEW p \in 1 .. Len(stack), mode # "idle" => p # Root,
         NEW n \in Names, NEW x \in Known(heap), NEW v \in Known(heap),
         SettleStack([stack EXCEPT ![p].bind[n] = x], ctl, v), UNCHANGED nextId
  PROVE  Narrowed
<1> DEFINE b == [stack[p].bind EXCEPT ![n] = x]
           s == [stack EXCEPT ![p].bind = b]
<1>1. stack \in Seq(Frame) /\ KnownFrames(stack, heap) /\ Root \in 1 .. Len(stack)
  BY StackFacts DEF CallInv, Accounted, Root
<1>2. [stack EXCEPT ![p].bind[n] = x] = s
  BY <1>1
<1>3. b \in Bindings /\ KnownBindings(b, heap)
  <2>1. stack[p].bind \in Bindings /\ KnownBindings(stack[p].bind, heap)
    BY <1>1, FrameAt DEF KnownFrames
  <2>2. x \in Value
    BY DEF Known
  <2>3. b \in Bindings
    BY <2>1, <2>2 DEF Bindings
  <2>4. \A m \in Names : b[m] \in Known(heap) \cup {Unbound}
    BY <2>1 DEF KnownBindings, Bindings
  <2> HIDE DEF b
  <2> QED
    BY <2>3, <2>4 DEF KnownBindings
<1> HIDE DEF b
<1>4. s = [stack EXCEPT ![p].bind = b]
  OBVIOUS
<1> HIDE DEF s
<1>5. \A h : KnownFrames(stack, h) /\ KnownBindings(b, h) => OnlyBindings(stack, s) /\ KnownFrames(s, h)
  BY <1>1, <1>3, <1>4, BindOne
<1>6. \A q \in 1 .. Len(stack) : q # p => s[q] = stack[q]
  BY <1>1, <1>3, <1>4, BindOne
<1>7. OnlyBindings(stack, s) /\ KnownFrames(s, heap) /\ HostKept(s)
  BY <1>1, <1>3, <1>5, <1>6 DEF HostKept
<1>8. SettleStack(s, ctl, v)
  BY <1>2
<1>9. Outer(ctl)
  <2>1. ctl \in Seq(Activation) /\ Len(ctl) \in Nat
    BY DEF IInv, CtlOK, Stacked
  <2> QED
    BY <2>1 DEF Outer
<1> QED
  BY <1>7, <1>8, <1>9, SameBindings, PopTo

LEMMA FinishStep ==
  ASSUME IInv, CallInv, NEW v \in Known(heap), Finish(v)
  PROVE  Narrowed
<1> DEFINE k == Here.saved[1]
           s == Cut(stack, k)
<1>1. SettleStack(s, <<>>, v) /\ nextId' = nextId /\ Len(ctl) = 1
  BY DEF Finish, AtEntry
<1>2. ctl # <<>>
  BY <1>1
<1>3. k = 1 /\ 1 \in 1 .. Len(stack)
  <2>1. ActOK(Here) /\ Stacked(ctl, Len(stack))
    BY <1>2, HereOK
  <2>2. ctl[1].kind = "evaluate" /\ Here = ctl[1]
    BY <1>1, <2>1 DEF Stacked, Here
  <2> QED
    BY <2>1, <2>2, StackFacts DEF ActOK
<1>4. Outer(<<>>)
  <2>1. <<>> \in Seq(Activation) /\ Len(<<>>) = 0 /\ Len(ctl) >= 0
    BY <1>1
  <2> QED
    BY <2>1 DEF Outer
<1>5. KnownFrames(stack, heap) /\ stack \in Seq(Frame)
  BY StackFacts DEF CallInv, Accounted
<1> HIDE DEF k
<1>6. k \in 1 .. Len(stack)
  BY <1>3
<1>7. OnlyBindings(Cut(stack, k), s) /\ KnownFrames(s, heap) /\ HostKept(s)
  BY <1>5, <1>6, CutKnown DEF HostKept
<1> HIDE DEF s
<1> QED
  BY <1>1, <1>4, <1>6, <1>7, PopTo

LEMMA ReturnStep ==
  ASSUME IInv, CallInv, NEW kinds,
         kinds \in SUBSET {"block", "merge", "call", "args", "hof", "first"},
         Running(kinds), NEW v \in Known(heap), SettleStack(Pop(stack), Below, v),
         nextId' = nextId
  PROVE  Narrowed
<1>1. ctl # <<>> /\ Here.kind \in {"block", "merge", "call", "args", "hof", "first"}
  BY DEF Running
<1>2. Here.frames = 1
  BY <1>1, HereOK DEF ActOK
<1> QED
  BY <1>1, <1>2, PopStep

LEMMA UnwindStep ==
  ASSUME IInv, CallInv, Unwind
  PROVE  Narrowed
<1>1. ctl # <<>> /\ Data \in Known(heap) /\ nextId' = nextId
  BY PlainKnown DEF Unwind, IInv, CtlOK
<1> DEFINE popped == CASE Here.kind \in {"block", "call", "first", "args", "hof"} -> Pop(stack)
                       [] Here.kind = "eval" -> AfterEval(stack, Here)
                       [] OTHER -> stack
<1>2. SettleStack(popped, Below, Data)
  BY DEF Unwind
<1>3. CASE Here.kind \in {"block", "call", "first", "args", "hof"}
  <2>1. Here.frames = 1
    BY <1>1, <1>3, HereOK DEF ActOK
  <2>2. popped = Pop(stack)
    BY <1>3
  <2> HIDE DEF popped
  <2> QED
    BY <1>1, <1>2, <2>1, <2>2, PopStep
<1>4. CASE Here.kind = "eval"
  <2>1. popped = AfterEval(stack, Here)
    BY <1>4
  <2> HIDE DEF popped
  <2> QED
    BY <1>1, <1>2, <1>4, <2>1, AfterEvalStep
<1>5. CASE Here.kind \notin {"block", "call", "first", "args", "hof", "eval"}
  <2>1. popped = stack
    BY <1>5
  <2> HIDE DEF popped
  <2> QED
    BY <1>1, <1>2, <2>1, OuterCtl, StaysPut
<1> QED
  BY <1>3, <1>4, <1>5

\* What a step may build on.
LEMMA CtlFit ==
  ASSUME IInv, CallInv, mode = "run", ctl # <<>>
  PROVE  /\ Ready(ctl) /\ Fit(ctl) /\ Len(ctl) >= Len(ctl)
         /\ Top(stack) \in 2 .. Len(stack)
         /\ \A st \in {"f", "g", "end"} :
              Ready(Stage(st)) /\ Fit(Stage(st)) /\ Len(Stage(st)) >= Len(ctl)
<1>1. Len(ctl) \in Nat
  BY HereOK
<1>2. Ready(ctl) /\ Fit(ctl)
  BY ReadyInRun, OuterCtl, ReadyFit
<1>3. \A st \in {"f", "g", "end"} : Ready(Stage(st)) /\ Fit(Stage(st))
  BY StageReady, OuterCtl, ReadyFit
<1>4. \A st \in {"f", "g", "end"} : Len(Stage(st)) = Len(ctl)
  BY OuterCtl
<1> QED
  BY <1>1, <1>2, <1>3, <1>4, TopAboveHost

LEMMA BelowFit ==
  ASSUME IInv, CallInv, mode = "run", ctl # <<>>, Here.kind = "tail"
  PROVE  /\ Ready(Below) /\ Fit(Below) /\ Below[Len(Below)].kind = "tramp"
         /\ tailBase \in 2 .. Len(stack)
<1>1. Ready(Below) /\ Below[Len(Below)].kind = "tramp"
  BY BelowReady
<1> QED
  BY <1>1, OuterCtl, ReadyFit, TailBaseIn

LEMMA LastValueFit ==
  ASSUME IInv, CallInv, mode = "run", ctl # <<>>, Here.kind = "tramp"
  PROVE  Fit(LastValue) /\ Len(LastValue) >= Len(ctl)
<1> DEFINE act == [Act("tail", 0) EXCEPT !.stage = "end"]
<1>1. Ready(LastValue) /\ Len(LastValue) = Len(ctl) + 1
  BY LastValueReady
<1>2. /\ act \in Activation /\ act.kind = "tail" /\ act.fn = Data /\ act.arg = Data
  <2>1. Act("tail", 0) \in Activation /\ Act("tail", 0).kind = "tail"
        /\ Act("tail", 0).fn = Data /\ Act("tail", 0).arg = Data
    BY ActIs DEF Kinds
  <2> QED
    BY <2>1 DEF Activation
<1>3. LastValue = Append(ctl, act)
  BY DEF LastValue, With
<1> HIDE DEF act
<1>4. ctl \in Seq(Activation) /\ Len(ctl) \in Nat /\ KnownActs(ctl, heap) /\ TcoFrames(ctl, stack)
  BY HereOK DEF Stacked, CallInv, Accounted
<1>5. KnownActs(LastValue, heap) /\ TcoFrames(LastValue, stack)
  BY <1>2, <1>3, <1>4, PushedActs, PushTcoSame, PlainKnown DEF Reusing
<1> QED
  BY <1>1, <1>4, <1>5 DEF Fit, Ready

LEMMA CompositionKnown ==
  ASSUME IInv, NEW fn \in Known(heap), NEW arg \in Known(heap)
  PROVE  LET act == Composition(fn, arg)
         IN  /\ act \in Activation /\ act.kind \notin Reusing
             /\ act.fn \in Known(heap) /\ act.arg \in Known(heap)
<1>1. fn \in Value /\ arg \in Value
  BY DEF Known
<1>2. Act("tail", 0) \in Activation /\ Act("tail", 0).kind = "tail"
  BY ActIs DEF Kinds
<1>3. /\ Composition(fn, arg) \in Activation /\ Composition(fn, arg).kind = "tail"
      /\ Composition(fn, arg).fn = fn /\ Composition(fn, arg).arg = arg
  BY <1>1, <1>2 DEF Composition, Activation
<1> QED
  BY <1>3 DEF Reusing

LEMMA TailCallHofStep ==
  ASSUME IInv, CallInv, NEW fn \in Known(heap), TailCallHof(fn)
  PROVE  Pushed
<1> DEFINE f == [BlockFrame EXCEPT !.internal = TRUE]
           act == [Act("hof", 1) EXCEPT !.fn = fn, !.saved = callbackBase]
<1>1. /\ mode = "run" /\ ctl # <<>> /\ Here.kind = "tramp" /\ CanPush /\ nextId' = nextId + 1
      /\ SettleStack(WithInternal, With(LastValue, act), Data)
  BY DEF TailCallHof, Running, CanCall
<1>2. /\ act \in Activation /\ act.kind = "hof" /\ act.fn = fn /\ act.arg = Data
  <2>1. Act("hof", 1) \in Activation /\ Act("hof", 1).kind = "hof" /\ Act("hof", 1).arg = Data
    BY ActIs DEF Kinds
  <2>2. fn \in Value /\ callbackBase \in Nat \X Nat
    BY DEF Known, IInv, BasesOK
  <2> QED
    BY <2>1, <2>2 DEF Activation
<1> HIDE DEF act
<1>3. Settle(Append(stack, f), heap, outer, Append(LastValue, act), Data)
  BY <1>1 DEF SettleStack, WithInternal, With
<1> HIDE DEF f
<1>4. f \in {BlockFrame, [BlockFrame EXCEPT !.internal = TRUE]}
  BY DEF f
<1> QED
  BY <1>1, <1>2, <1>3, <1>4, PlainKnown, LastValueFit, BlockStep

LEMMA EnterStep ==
  ASSUME IInv, CallInv, InBody, CanCall, nextId' = nextId + 1,
         NEW kind \in {"block", "args"}, NEW fn \in Known(heap),
         NEW f \in {BlockFrame, [BlockFrame EXCEPT !.internal = TRUE]},
         SettleStack(Append(stack, f), With(ctl, [Act(kind, 1) EXCEPT !.fn = fn]), Data)
  PROVE  Pushed
<1> DEFINE act == [Act(kind, 1) EXCEPT !.fn = fn]
<1>1. mode = "run" /\ ctl # <<>> /\ CanPush
  BY DEF InBody, Running, CanCall
<1>2. /\ act \in Activation /\ act.kind = kind /\ act.fn = fn /\ act.arg = Data
  <2>1. kind \in Kinds /\ fn \in Value
    BY DEF Kinds, Known
  <2>2. Act(kind, 1) \in Activation /\ Act(kind, 1).kind = kind /\ Act(kind, 1).arg = Data
    BY <2>1, ActIs
  <2> QED
    BY <2>1, <2>2 DEF Activation
<1>3. Settle(Append(stack, f), heap, outer, Append(ctl, act), Data)
  BY DEF SettleStack, With
<1> HIDE DEF act
<1>4. act.fn \in Known(heap) /\ act.arg \in Known(heap) /\ act.kind \notin Reusing
  BY <1>2, PlainKnown DEF Reusing
<1>5. act.kind # "tramp" /\ act.kind # "merge"
  BY <1>4 DEF Reusing
<1> QED
  BY <1>1, <1>2, <1>3, <1>4, <1>5, CtlFit, BlockStep

\* A cleared scope binds `$` alone.
LEMMA ClearedKnown ==
  ASSUME NEW v \in Known(heap), NEW f \in Frame, nextId \in Nat
  PROVE  LET g == Cleared(f, v)
         IN  /\ g \in Frame /\ g.id = nextId /\ g.bind \in Bindings
             /\ KnownBindings(g.bind, heap)
             /\ g.barrier = f.barrier /\ g.home = f.home
             /\ g.internal = f.internal /\ g.opaque = f.opaque
             /\ g.tco = f.tco /\ g.token = f.token /\ g.seenAt = f.seenAt
<1> DEFINE b == [NoBindings EXCEPT ![Param] = v]
           g == [f EXCEPT !.id = nextId, !.bind = b]
<1>1. Cleared(f, v) = g
  BY DEF Cleared
<1>2. b \in Bindings /\ KnownBindings(b, heap)
  <2>1. v \in Value
    BY DEF Known
  <2>2. \A n \in Names : b[n] \in {v, Unbound}
    BY DEF NoBindings
  <2>3. b \in [Names -> Value \cup {Unbound}]
    BY <2>1 DEF NoBindings
  <2> HIDE DEF b
  <2> QED
    BY <2>2, <2>3 DEF Bindings, KnownBindings
<1> HIDE DEF b
<1>3. /\ g \in Frame /\ g.id = nextId /\ g.bind = b
      /\ g.barrier = f.barrier /\ g.home = f.home
      /\ g.internal = f.internal /\ g.opaque = f.opaque
      /\ g.tco = f.tco /\ g.token = f.token /\ g.seenAt = f.seenAt
  BY <1>2 DEF Frame
<1> HIDE DEF g
<1> QED
  BY <1>1, <1>2, <1>3

LEMMA StartMergeStep ==
  ASSUME IInv, CallInv, NEW v \in Known(heap), StartMerge(v)
  PROVE  Pushed
<1> DEFINE act == [Act("merge", 1) EXCEPT !.arg = v]
           f == Cleared(BlockFrame, v)
           at == Len(stack)
<1>1. mode = "run" /\ ctl # <<>> /\ CanPush /\ nextId' = nextId + 1
  BY DEF StartMerge, InBody, Running, CanCall
<1>2. /\ act \in Activation /\ act.kind = "merge" /\ act.fn = Data /\ act.arg = v
      /\ act.height = Len(stack) /\ act.frames = 1
  <2>1. /\ Act("merge", 1) \in Activation /\ Act("merge", 1).kind = "merge"
        /\ Act("merge", 1).fn = Data /\ Act("merge", 1).height = Len(stack)
        /\ Act("merge", 1).frames = 1
    BY ActIs DEF Kinds
  <2>2. v \in Value
    BY DEF Known
  <2> QED
    BY <2>1, <2>2 DEF Activation
<1>3. Settle(Append(stack, f), heap, outer, Append(ctl, act), Data)
  BY DEF StartMerge, SettleStack, With
<1> HIDE DEF act
<1>4. /\ BlockFrame \in Frame /\ BlockFrame.barrier = 0
      /\ BlockFrame.home = Sees(stack, at) /\ Fresh(BlockFrame) /\ ~ BlockFrame.tco
  BY BlockFrameIs
<1>5. nextId \in Nat /\ at \in 1 .. Len(stack) /\ at = Len(stack)
  BY StackFacts
<1> HIDE DEF at
<1>6. /\ f \in Frame /\ f.id = nextId /\ f.barrier = 0 /\ f.home = Sees(stack, at)
      /\ Fresh(f) /\ ~ f.tco /\ KnownBindings(f.bind, heap)
  BY <1>4, <1>5, ClearedKnown DEF Fresh
<1> HIDE DEF f
<1>7. act.fn \in Known(heap) /\ act.arg \in Known(heap) /\ act.kind # "tramp"
  BY <1>2, PlainKnown
<1> QED
  BY <1>1, <1>2, <1>3, <1>5, <1>6, <1>7, CtlFit, PushOneStep

LEMMA ComposeSecondStep ==
  ASSUME IInv, CallInv, ComposeSecond
  PROVE  Narrowed \/ Pushed \/ TailCalled
<1> DEFINE g == heap[Here.fn].g
<1>1. /\ mode = "run" /\ ctl # <<>> /\ Here.kind = "tail"
      /\ \/ /\ g \in Fns /\ AtCaller(heap[g])
            /\ SettleStack(stack, With(Below, Composition(g, hand)), Data)
            /\ UNCHANGED <<nextId, bases, mode>>
         \/ g \in Fns /\ TailCall(Below, g, hand)
         \/ g \in Fns /\ ~ heap[g].thunk /\ Apply(Stage("end"), g, hand)
         \/ g = EvalFn /\ StartEval(Stage("end"), tailBase)
  BY Zenon DEF ComposeSecond, Running
<1>2. hand \in Known(heap)
  BY AvailKnown
<1>3. Here.fn \in Fns /\ g \in Fns => g \in Known(heap)
  BY ValuesDistinct DEF CallInv, HeapAccounted
<1>4. Here.fn \in Known(heap)
  BY <1>1, HereInnermost DEF CallInv, Accounted, KnownActs
<1> HIDE DEF g
<1>5. /\ Fit(Below) /\ Ready(Below) /\ Below[Len(Below)].kind = "tramp"
      /\ tailBase \in 2 .. Len(stack)
      /\ Fit(Stage("end")) /\ Ready(Stage("end")) /\ Len(Stage("end")) >= Len(ctl)
  BY <1>1, BelowFit, CtlFit
<1>6. Here.fn \in Fns
  BY <1>1 DEF ComposeSecond
<1>7. CASE /\ g \in Fns /\ AtCaller(heap[g])
           /\ SettleStack(stack, With(Below, Composition(g, hand)), Data)
           /\ UNCHANGED <<nextId, bases, mode>>
  BY <1>2, <1>3, <1>5, <1>6, <1>7, CompositionKnown, StaysPutUnder DEF With
<1>8. CASE g \in Fns /\ TailCall(Below, g, hand)
  <2>1. mode' = "run"
    BY <1>1, <1>8 DEF TailCall
  <2>2. TailCalls(Below, g, hand)
    BY <1>1, <1>2, <1>3, <1>5, <1>6, <1>8, <2>1 DEF TailCalls
  <2> QED
    BY <2>2 DEF TailCalled
<1>9. CASE g \in Fns /\ ~ heap[g].thunk /\ Apply(Stage("end"), g, hand)
  BY <1>2, <1>3, <1>5, <1>6, <1>9, ApplyStep
<1>10. CASE g = EvalFn /\ StartEval(Stage("end"), tailBase)
  BY <1>5, <1>10, StartEvalStep
<1> QED
  BY <1>1, <1>7, <1>8, <1>9, <1>10

LEMMA TokenisedIs ==
  ASSUME IInv
  PROVE  LET t == Tokenised(stack)
         IN  Tokenises(t) /\ \A p \in 1 .. Len(stack) : t[p].bind = stack[p].bind
<1> DEFINE made == TokensMadeAt(stack, Top(stack))
           t == Tokenised(stack)
<1>1. t = [p \in 1 .. Len(stack) |->
             IF p \in made THEN [stack[p] EXCEPT !.token = TRUE] ELSE stack[p]]
  BY DEF Tokenised
<1>2. Len(stack) \in Nat /\ stack \in Seq(Frame)
  BY StackFacts
<1> HIDE DEF t, made
<1>3. ASSUME NEW p \in 1 .. Len(stack)
      PROVE  /\ t[p] \in Frame
             /\ t[p].id = stack[p].id /\ t[p].barrier = stack[p].barrier /\ t[p].home = stack[p].home
             /\ t[p].internal = stack[p].internal /\ t[p].opaque = stack[p].opaque
             /\ t[p].tco = stack[p].tco /\ t[p].seenAt = stack[p].seenAt
             /\ t[p].token <=> stack[p].token \/ p \in made
             /\ t[p].bind = stack[p].bind
  <2> DEFINE f == stack[p]
             g == [f EXCEPT !.token = TRUE]
  <2>1. f \in Frame
    BY <1>2, FrameAt
  <2>2. /\ g \in Frame
        /\ g.id = f.id /\ g.barrier = f.barrier /\ g.home = f.home
        /\ g.internal = f.internal /\ g.opaque = f.opaque
        /\ g.tco = f.tco /\ g.seenAt = f.seenAt /\ g.bind = f.bind
    BY <2>1 DEF Frame
  <2>3. g.token
    BY <2>1 DEF Frame
  <2> HIDE DEF g
  <2>4. t[p] = IF p \in made THEN g ELSE f
    BY <1>1 DEF g
  <2>5. CASE p \in made
    BY <2>2, <2>3, <2>4, <2>5
  <2>6. CASE p \notin made
    BY <2>1, <2>4, <2>6
  <2> QED
    BY <2>5, <2>6
<1>4. t \in Seq(Frame) /\ Len(t) = Len(stack)
  BY <1>1, <1>2, <1>3
<1>5. Tokenises(t)
  BY <1>3, <1>4 DEF Tokenises, made
<1> QED
  BY <1>3, <1>5 DEF t

LEMMA KnownGrows ==
  ASSUME NEW h, NEW k, NEW new, \A f \in Fns \ new : h[f] = k[f],
         \A f \in new : h[f].kind # "free"
  PROVE  /\ Known(k) \subseteq Known(h)
         /\ \A b : KnownBindings(b, k) => KnownBindings(b, h)
         /\ \A s : KnownFrames(s, k) => KnownFrames(s, h)
         /\ \A c : KnownActs(c, k) => KnownActs(c, h)
<1>1. Known(k) \subseteq Known(h)
  BY DEF Known
<1>2. \A b : KnownBindings(b, k) => KnownBindings(b, h)
  BY <1>1 DEF KnownBindings
<1> QED
  BY <1>1, <1>2 DEF KnownFrames, KnownActs

LEMMA DefineStep ==
  ASSUME IInv, CallInv, NEW self \in SUBSET Names, NEW thunk \in BOOLEAN,
         NEW free \in SUBSET (Names \ {Param}), Define(self, thunk, free)
  PROVE  Made
<1> DEFINE f == Pick(FreeFns)
           env == CaptureEnvironment(f, self, free)
           c == [MadeHere EXCEPT !.kind = "lambda", !.thunk = thunk, !.self = self, !.env = env]
           h == [heap EXCEPT ![f] = c]
           s == Tokenised(stack)
           top == Top(s)
           b == [n \in Names |-> IF n \in self THEN f ELSE s[top].bind[n]]
           t == [s EXCEPT ![top].bind = b]
<1>1. f \in Fns /\ heap[f] = FreeSlot /\ InBody
  <2>1. f \in Fns /\ f \in FreeFns
    BY FreeFnIn DEF Define, Pick
  <2>2. heap[f].kind = "free"
    BY <2>1 DEF FreeFns
  <2> QED
    BY <2>1, <2>2 DEF CallInv, HeapAccounted, Define
<1>2. Settle(t, h, OuterTokens(stack), ctl, f) /\ UNCHANGED <<nextId, bases, mode>>
  BY Zenon DEF Define
<1>3. Tokenises(s) /\ \A p \in 1 .. Len(stack) : s[p].bind = stack[p].bind
  BY TokenisedIs
<1>4. /\ top = Len(stack) /\ top \in 1 .. Len(s) /\ top \in 1 .. Len(stack) /\ stack \in Seq(Frame)
      /\ s \in Seq(Frame) /\ Len(s) = Len(stack) /\ Top(stack) \in 1 .. Len(stack)
  BY <1>3, StackFacts DEF Top, Tokenises
<1>5. top # Root /\ Root \in 1 .. Len(stack)
  <2>1. ctl # <<>>
    BY <1>1 DEF InBody, Running
  <2> QED
    BY <1>4, <2>1, TopAboveHost, StackFacts DEF Root, Top
<1> HIDE DEF s, top
<1>6. KnownFrames(stack, heap)
  BY DEF CallInv, Accounted
<1>7. KnownBindings(env, heap) /\ env[Param] = Unbound
  <2>1. \A n \in Names : Lookup(stack, Top(stack), n) \in Known(heap) \cup {Unbound}
    BY <1>4, <1>6, LookupKnown
  <2>2. env = [n \in Names |-> IF n \in free THEN Lookup(stack, Top(stack), n) ELSE Unbound]
    BY DEF CaptureEnvironment
  <2>3. Param \in Names
    BY CallsAssumption
  <2> HIDE DEF env
  <2> QED
    BY <2>1, <2>2, <2>3 DEF KnownBindings
<1>8. env \in Bindings
  <2>1. \A n \in Names : Lookup(stack, Top(stack), n) \in Value \cup {Unbound}
    BY <1>4, LookupIn
  <2>2. env = [n \in Names |-> IF n \in free THEN Lookup(stack, Top(stack), n) ELSE Unbound]
    BY DEF CaptureEnvironment
  <2> QED
    BY <2>1, <2>2 DEF Bindings
<1> HIDE DEF env, f
<1>9. MadeHere \in Closure
  BY MadeHereOK
<1>10. /\ c \in Closure /\ c.kind = "lambda" /\ c.foreign = MadeHere.foreign
       /\ c.chain = MadeHere.chain /\ c.keep = MadeHere.keep /\ c.env = env
       /\ c.f = MadeHere.f /\ c.g = MadeHere.g
  BY <1>8, <1>9 DEF Closure
<1>11. /\ MadeHere.foreign = FALSE /\ MadeHere.chain = Chain(stack)
       /\ MadeHere.keep = KeptAt(stack, Top(stack)) /\ MadeHere.f = Unbound /\ MadeHere.g = Unbound
  BY DEF MadeHere, FreeSlot
<1> HIDE DEF c
<1>12. h \in [Fns -> Closure] /\ h[f] = c /\ \A e \in Fns \ {f} : h[e] = heap[e]
  BY <1>1, <1>10 DEF IInv, HeapOK
<1> HIDE DEF h
<1>13. MadeNow({f}, h, f)
  BY <1>7, <1>10, <1>11, <1>12 DEF MadeNow
<1>14. /\ \A x : KnownBindings(x, heap) => KnownBindings(x, h)
       /\ KnownFrames(stack, heap) => KnownFrames(stack, h)
       /\ f \in Known(h)
  <2> DEFINE new == {f}
  <2>1. f \in Value /\ (\A e \in new : h[e].kind # "free") /\ \A e \in Fns \ new : h[e] = heap[e]
    BY <1>1, <1>10, <1>12 DEF Value
  <2>2. f \in Known(h)
    BY <2>1 DEF Known
  <2> HIDE DEF new
  <2>3. (\A x : KnownBindings(x, heap) => KnownBindings(x, h))
        /\ \A x : KnownFrames(x, heap) => KnownFrames(x, h)
    BY <2>1, KnownGrows
  <2> QED
    BY <2>2, <2>3
<1>15. KnownFrames(s, h)
  BY <1>3, <1>4, <1>6, <1>14 DEF KnownFrames
<1>16. b \in Bindings /\ KnownBindings(b, h)
  <2>1. s[top].bind \in Bindings /\ KnownBindings(s[top].bind, h)
    BY <1>4, <1>15, FrameAt DEF KnownFrames
  <2> QED
    BY <1>1, <1>14, <2>1 DEF Bindings, Value, KnownBindings
<1> HIDE DEF b
<1>17. t = [s EXCEPT ![top].bind = b]
  OBVIOUS
<1> HIDE DEF t
<1>18. \A k : KnownFrames(s, k) /\ KnownBindings(b, k) => OnlyBindings(s, t) /\ KnownFrames(t, k)
  BY <1>4, <1>16, <1>17, BindOne
<1>19. \A q \in 1 .. Len(s) : q # top => t[q] = s[q]
  BY <1>4, <1>15, <1>16, <1>17, BindOne
<1>20. OnlyBindings(s, t) /\ KnownFrames(t, h)
  BY <1>15, <1>16, <1>18
<1>21. Tokenises(t)
  BY <1>3, <1>4, <1>20 DEF Tokenises, OnlyBindings
<1>22. HostKept(t)
  BY <1>3, <1>4, <1>5, <1>19 DEF HostKept
<1>23. Makes({f}, h, t, f)
  BY <1>1, <1>2, <1>10, <1>12, <1>13, <1>20, <1>21, <1>22 DEF Makes
<1> QED
  BY <1>23 DEF Made

LEMMA ComposeStep ==
  ASSUME IInv, CallInv, NEW f \in Known(heap), NEW g \in Known(heap), Compose(f, g)
  PROVE  Made
<1> DEFINE first == Pick(FreeFns)
           comp == Pick(FreeFns \ {first})
           c1 == [MadeHere EXCEPT !.kind = "first", !.f = f]
           c2 == [FreeSlot EXCEPT !.kind = "comp", !.thunk = TRUE, !.f = first, !.g = g]
           h == [heap EXCEPT ![first] = c1, ![comp] = c2]
           s == Tokenised(stack)
           new == {first, comp}
<1>1. first \in FreeFns /\ comp \in FreeFns /\ comp # first
  <2>1. Cardinality(FreeFns) >= 2
    BY DEF Compose
  <2>2. FreeFns # {}
    <3>1. FreeFns = {} => Cardinality(FreeFns) = 0
      BY FS_EmptySet
    <3> QED
      BY <2>1, <3>1
  <2>3. first \in FreeFns
    BY <2>2 DEF Pick
  <2>4. FreeFns \ {first} # {}
    <3>1. FreeFns = {first} => Cardinality(FreeFns) = 1
      BY FS_Singleton
    <3> QED
      BY <2>1, <2>2, <3>1
  <2> QED
    BY <2>3, <2>4 DEF Pick
<1>2. Settle(s, h, OuterTokens(stack), ctl, comp) /\ UNCHANGED <<nextId, bases, mode>>
  BY Zenon DEF Compose
<1>3. InBody
  BY DEF Compose
<1> HIDE DEF first, comp
<1>4. /\ first \in Fns /\ heap[first] = FreeSlot /\ comp \in Fns /\ heap[comp] = FreeSlot
  <2>1. /\ first \in Fns /\ heap[first].kind = "free" /\ comp \in Fns /\ heap[comp].kind = "free"
    BY <1>1 DEF FreeFns
  <2> QED
    BY <2>1 DEF CallInv, HeapAccounted
<1>5. /\ MadeHere \in Closure /\ MadeHere.foreign = FALSE /\ MadeHere.thunk = FALSE
      /\ MadeHere.chain = Chain(stack) /\ MadeHere.keep = KeptAt(stack, Top(stack))
      /\ MadeHere.env = NoBindings /\ MadeHere.g = Unbound
  BY MadeHereOK DEF MadeHere, FreeSlot
<1>6. f \in Value /\ g \in Value
  BY DEF Known
<1>7. /\ c1 \in Closure /\ c1.kind = "first" /\ c1.foreign = FALSE /\ c1.thunk = FALSE
      /\ c1.chain = Chain(stack) /\ c1.keep = KeptAt(stack, Top(stack))
      /\ c1.env = NoBindings /\ c1.f = f /\ c1.g = Unbound
  BY <1>5, <1>6 DEF Closure
<1>8. /\ c2 \in Closure /\ c2.kind = "comp" /\ c2.foreign = FALSE /\ c2.thunk = TRUE
      /\ c2.chain = {} /\ c2.keep = 0 /\ c2.env = NoBindings /\ c2.f = first /\ c2.g = g
  <2>1. first \in Value
    BY <1>4 DEF Value
  <2>2. c2 \in Closure /\ c2.kind = "comp" /\ c2.thunk = TRUE /\ c2.f = first /\ c2.g = g
    BY <1>6, <2>1, FreeSlotOK DEF Closure
  <2> QED
    BY <2>2 DEF FreeSlot
<1> HIDE DEF c1, c2
<1>9. /\ h \in [Fns -> Closure] /\ h[first] = c1 /\ h[comp] = c2
      /\ \A e \in Fns \ {first, comp} : h[e] = heap[e]
  <2>1. heap \in [Fns -> Closure]
    BY DEF IInv, HeapOK
  <2> QED
    BY <1>1, <1>4, <1>7, <1>8, <2>1
<1> HIDE DEF h
<1>10. MadeNow(new, h, first)
  BY <1>6, <1>7, <1>9, NothingKnown DEF MadeNow
<1>11. MadeNow(new, h, comp)
  BY <1>7, <1>8, <1>9, NothingKnown DEF MadeNow
<1>12. (\A e \in new : h[e].kind # "free") /\ \A e \in Fns \ new : h[e] = heap[e]
  BY <1>7, <1>8, <1>9
<1>13. new = {first, comp}
  OBVIOUS
<1> HIDE DEF new
<1>14. \A x : KnownFrames(x, heap) => KnownFrames(x, h)
  BY <1>12, KnownGrows
<1>15. Tokenises(s) /\ \A p \in 1 .. Len(stack) : s[p].bind = stack[p].bind
  BY TokenisedIs
<1> HIDE DEF s
<1>16. KnownFrames(s, h)
  <2>1. KnownFrames(stack, h)
    BY <1>14 DEF CallInv, Accounted
  <2> QED
    BY <1>15, <2>1 DEF KnownFrames, Tokenises
<1>17. HostKept(s)
  BY <1>15, StackFacts DEF HostKept, Root
<1>18. \A e \in new : e \in Fns /\ heap[e] = FreeSlot /\ MadeNow(new, h, e)
  BY <1>4, <1>10, <1>11, <1>13
<1>19. \E e : new = {e, comp} /\ e # comp /\ h[e].kind = "first" /\ h[comp].kind = "comp" /\ h[comp].f = e
  BY <1>1, <1>7, <1>8, <1>9, <1>13
<1>20. Makes(new, h, s, comp)
  BY <1>2, <1>9, <1>12, <1>15, <1>16, <1>17, <1>18, <1>19 DEF Makes
<1> QED
  BY <1>20 DEF Made

\* Every step has one of the shapes.
Shaped == Narrowed \/ Pushed \/ Made \/ TailCalled \/ Renewed

\* What a merge's clearing does: the frames below stay, and the one on top keeps
\* all but its id and its bindings.
Clears(v, s) ==
  LET n == Len(stack)
  IN  /\ n \in Nat /\ n > Root /\ n \in 1 .. n /\ stack \in Seq(Frame) /\ stack[n] \in Frame
      /\ n = Here.height + 1 /\ ~ stack[n].tco
      /\ s \in Seq(Frame) /\ Len(s) = n
      /\ \A p \in 1 .. n : p # n => s[p] = stack[p]
      /\ s[n].id = nextId /\ s[n].bind \in Bindings /\ KnownBindings(s[n].bind, heap)
      /\ \A p \in 1 .. n :
           /\ s[p].barrier = stack[p].barrier /\ s[p].home = stack[p].home
           /\ s[p].internal = stack[p].internal /\ s[p].opaque = stack[p].opaque
           /\ s[p].tco = stack[p].tco /\ s[p].token = stack[p].token
           /\ s[p].seenAt = stack[p].seenAt
      /\ Settle(s, heap, outer, ctl, Data)
      /\ s[n].bind = [NoBindings EXCEPT ![Param] = v]

LEMMA RenewsClears ==
  ASSUME IInv, CallInv, NEW v, Renews(v)
  PROVE  \E s : Clears(v, s)
<1> DEFINE n == Len(stack)
           g == Cleared(stack[n], v)
           s == [stack EXCEPT ![n] = g]
<1>1. /\ v \in Known(heap) /\ ctl # <<>> /\ mode = "run" /\ Here.kind = "merge"
      /\ Settle(s, heap, outer, ctl, Data)
  BY DEF Renews
<1>2. /\ stack \in Seq(Frame) /\ n \in Nat /\ nextId \in Nat
      /\ Here.height \in 1 .. n /\ Here.frames = 1
  BY <1>1, HereOK, StackFacts DEF ActOK
<1>3. n = Here.height + 1 /\ n \in 1 .. n /\ n > Root
  <2>1. n = Here.height + Here.frames
    BY <1>1, ReadyInRun DEF Ready, Exact, Here
  <2> QED
    BY <1>2, <2>1 DEF Root
<1>4. stack[n] \in Frame /\ ~ stack[n].tco
  <2>1. Len(ctl) \in 1 .. Len(ctl) /\ ctl[Len(ctl)] = Here
    BY <1>1, HereInnermost
  <2>2. n \in Here.height + 1 .. Here.height + Here.frames
    BY <1>2, <1>3
  <2> QED
    BY <1>1, <1>2, <1>3, <2>1, <2>2, FrameAt DEF CallInv, TcoFrames, Reusing
<1>5. /\ g \in Frame /\ g.id = nextId /\ g.bind \in Bindings /\ KnownBindings(g.bind, heap)
      /\ g.barrier = stack[n].barrier /\ g.home = stack[n].home
      /\ g.internal = stack[n].internal /\ g.opaque = stack[n].opaque
      /\ g.tco = stack[n].tco /\ g.token = stack[n].token /\ g.seenAt = stack[n].seenAt
  BY <1>1, <1>2, <1>4, ClearedKnown
<1>6. g.bind = [NoBindings EXCEPT ![Param] = v]
  BY <1>4 DEF Cleared, Frame
<1> HIDE DEF g
<1>7. s \in Seq(Frame) /\ Len(s) = n /\ s[n] = g /\ \A p \in 1 .. n : p # n => s[p] = stack[p]
  BY <1>2, <1>3, <1>5
<1> HIDE DEF s
<1>8. Clears(v, s)
  BY <1>1, <1>2, <1>3, <1>4, <1>5, <1>6, <1>7 DEF Clears
<1> QED
  BY <1>8

LEMMA HereKnown ==
  ASSUME IInv, CallInv, ctl # <<>>
  PROVE  Here.fn \in Known(heap) /\ Here.arg \in Known(heap)
BY HereInnermost DEF CallInv, Accounted, KnownActs

LEMMA FieldKnown ==
  ASSUME CallInv, NEW f \in Fns
  PROVE  heap[f].f \in Known(heap) \cup {Unbound} /\ heap[f].g \in Known(heap) \cup {Unbound}
BY DEF CallInv, HeapAccounted

LEMMA NextShaped ==
  ASSUME IInv, CallInv, Next
  PROVE  Shaped
<1> USE DEF Running
<1>1. Avail \subseteq Known(heap) /\ hand \in Known(heap) /\ Data \in Known(heap) /\ EvalFn \in Known(heap)
  BY AvailKnown, PlainKnown
<1>2. Len(stack) \in Nat \ {0} /\ Root \in 1 .. Len(stack) /\ Top(stack) \in 1 .. Len(stack)
  BY StackFacts DEF Root, Top
<1>3. ASSUME Evaluate PROVE Shaped
  BY <1>3, EvaluateStep DEF Shaped
<1>4. ASSUME NEW n \in Names, HostBind(n) PROVE Shaped
  <2>1. mode = "idle" /\ SettleStack([stack EXCEPT ![Root].bind[n] = hand], ctl, Data)
        /\ UNCHANGED nextId
    BY <1>4 DEF HostBind
  <2> QED
    BY <1>1, <1>2, <2>1, BindStep DEF Shaped
<1>5. ASSUME NEW v \in Avail, Finish(v) PROVE Shaped
  BY <1>1, <1>5, FinishStep DEF Shaped
<1>6. ASSUME NEW v \in Avail, ExitBlock(v) \/ Return(v) PROVE Shaped
  <2>1. /\ Running({"block", "call"}) /\ SettleStack(Pop(stack), Below, v)
        /\ nextId' = nextId
    BY <1>6 DEF ExitBlock, Return
  <2> HIDE DEF Running
  <2> QED
    BY <1>1, <2>1, ReturnStep DEF Shaped
<1>7. ASSUME NEW v \in Avail, ReturnFromTrampoline(v) PROVE Shaped
  <2>1. mode = "run" /\ ctl # <<>> /\ ctl[Len(ctl)].kind = "tramp" /\ LeaveTrampoline(ctl, v)
    BY <1>7 DEF ReturnFromTrampoline, Here
  <2> QED
    BY <1>1, <2>1, ReadyInRun, LeaveStep DEF Shaped
<1>8. ASSUME EnterBlock PROVE Shaped
  <2> DEFINE act == [Act("block", 1) EXCEPT !.fn = Data]
  <2>1. Act("block", 1) = act
    BY DEF Act
  <2>2. /\ InBody /\ CanCall /\ nextId' = nextId + 1
        /\ SettleStack(Append(stack, BlockFrame), With(ctl, act), Data)
    BY <1>8, <2>1 DEF EnterBlock
  <2> QED
    BY <1>1, <2>2, EnterStep DEF Shaped
<1>9. ASSUME NEW self \in {{}} \cup {{n} : n \in Names \ {Param}}, NEW thunk \in BOOLEAN,
             NEW free \in SUBSET (Names \ {Param}), Define(self, thunk, free)
      PROVE  Shaped
  <2>1. self \in SUBSET Names
    OBVIOUS
  <2> QED
    BY <1>9, <2>1, DefineStep DEF Shaped
<1>10. ASSUME NEW n \in Names, NEW v \in Avail, Assign(n, v) PROVE Shaped
  <2>1. InBody /\ SettleStack([stack EXCEPT ![Top(stack)].bind[n] = v], ctl, Data)
        /\ UNCHANGED nextId
    BY <1>10 DEF Assign
  <2>2. mode = "run" /\ ctl # <<>>
    BY <2>1 DEF InBody
  <2>3. Top(stack) # Root
    BY <2>2, CtlFit DEF Root
  <2> QED
    BY <1>1, <1>2, <2>1, <2>3, BindStep DEF Shaped
<1>11. ASSUME NEW fn \in Avail \cap Fns, NEW arg \in Avail, Call(fn, arg) PROVE Shaped
  <2>1. mode = "run" /\ ctl # <<>> /\ Apply(ctl, fn, arg)
    BY <1>11 DEF Call, InBody
  <2> QED
    BY <1>1, <2>1, CtlFit, ApplyStep DEF Shaped
<1>12. ASSUME NEW fn \in Avail \cap Fns, NEW arg \in Avail, CallInTailPosition(fn, arg)
       PROVE  Shaped
  <2>1. /\ mode = "run" /\ mode' = "run" /\ ctl # <<>> /\ ctl[Len(ctl)].kind = "tramp"
        /\ TailCall(ctl, fn, arg)
    BY <1>12 DEF CallInTailPosition, TailCall, Here
  <2> QED
    BY <1>1, <2>1, ReadyInRun DEF Shaped, TailCalled, TailCalls
<1>13. ASSUME NEW fn \in Avail \cap Fns, NEW arg \in Avail, TailCallComposition(fn, arg)
       PROVE  Shaped
  <2> DEFINE act == Composition(fn, arg)
  <2>1. mode = "run" /\ ctl # <<>> /\ SettleStack(stack, Append(ctl, act), Data) /\ nextId' = nextId
    BY <1>13 DEF TailCallComposition, With
  <2>2. fn \in Known(heap) /\ arg \in Known(heap)
    BY <1>1
  <2>3. act \in Activation /\ act.kind \notin Reusing /\ act.fn \in Known(heap) /\ act.arg \in Known(heap)
    BY <2>2, CompositionKnown
  <2> HIDE DEF act
  <2> QED
    BY <2>1, <2>3, CtlFit, StaysPutUnder DEF Shaped
<1>14. ASSUME TailTimeout PROVE Shaped
  <2>1. mode = "run" /\ ctl # <<>> /\ ctl[Len(ctl)].kind = "tramp" /\ LeaveTrampoline(ctl, Data)
    BY <1>14 DEF TailTimeout, Here
  <2> QED
    BY <1>1, <2>1, ReadyInRun, LeaveStep DEF Shaped
<1>15. ASSUME NEW fn \in Avail \ {Data}, CallHof(fn) PROVE Shaped
  <2>1. /\ InBody /\ CanCall /\ nextId' = nextId + 1
        /\ SettleStack(Append(stack, [BlockFrame EXCEPT !.internal = TRUE]),
                       With(ctl, [Act("args", 1) EXCEPT !.fn = fn]), Data)
    BY <1>15 DEF CallHof, WithInternal
  <2> QED
    BY <1>1, <2>1, EnterStep DEF Shaped
<1>16. ASSUME NEW fn \in Avail \ {Data}, TailCallHof(fn) PROVE Shaped
  BY <1>1, <1>16, TailCallHofStep DEF Shaped
<1>17. ASSUME NEW v \in {hand, Data}, ApplyCallback(v) PROVE Shaped
  <2>1. mode = "run" /\ ctl # <<>> /\ Here.fn \in Fns /\ Apply(ctl, Here.fn, v)
    BY <1>17 DEF ApplyCallback
  <2> QED
    BY <1>1, <2>1, CtlFit, HereKnown, ApplyStep DEF Shaped
<1>18. ASSUME NEW v \in {hand, Data}, FinishHof(v) PROVE Shaped
  <2>1. Running({"args", "hof"}) /\ SettleStack(Pop(stack), Below, v) /\ nextId' = nextId
    BY <1>18 DEF FinishHof
  <2> HIDE DEF Running
  <2> QED
    BY <1>1, <2>1, ReturnStep DEF Shaped
<1>19. ASSUME CallEval \/ ApplyEval PROVE Shaped
  <2>1. mode = "run" /\ ctl # <<>> /\ StartEval(ctl, Top(stack))
    BY <1>19 DEF CallEval, ApplyEval, InBody
  <2> QED
    BY <2>1, CtlFit, StartEvalStep DEF Shaped
<1>20. ASSUME TailCallEval PROVE Shaped
  <2>1. mode = "run" /\ ctl # <<>> /\ Here.kind = "tramp" /\ StartEval(LastValue, tailBase)
    BY <1>20 DEF TailCallEval
  <2>2. tailBase \in 2 .. Len(stack)
    BY <2>1, ReadyInRun, TailBaseIn DEF Here
  <2> QED
    BY <2>1, <2>2, LastValueFit, StartEvalStep DEF Shaped
<1>21. ASSUME UseEval PROVE Shaped
  <2>1. mode = "run" /\ ctl # <<>> /\ SettleStack(stack, ctl, EvalFn) /\ nextId' = nextId
    BY <1>21 DEF UseEval, InBody
  <2> QED
    BY <1>1, <2>1, OuterCtl, StaysPut DEF Shaped
<1>22. ASSUME NEW v \in Avail, FinishEval(v) PROVE Shaped
  <2>1. ctl # <<>> /\ Here.kind = "eval" /\ SettleStack(AfterEval(stack, Here), Below, v)
        /\ nextId' = nextId
    BY <1>22 DEF FinishEval
  <2> QED
    BY <1>1, <2>1, AfterEvalStep DEF Shaped
<1>23. ASSUME NEW f \in Avail \ {Data}, NEW g \in Avail \ {Data}, Compose(f, g) PROVE Shaped
  BY <1>1, <1>23, ComposeStep DEF Shaped
<1>24. ASSUME ComposeFirst PROVE Shaped
  <2>1. /\ mode = "run" /\ ctl # <<>> /\ Here.fn \in Fns /\ heap[Here.fn].f \in Fns
        /\ Apply(Stage("g"), heap[Here.fn].f, Here.arg)
    BY <1>24 DEF ComposeFirst
  <2>2. heap[Here.fn].f \in Known(heap)
    BY <2>1, FieldKnown, ValuesDistinct
  <2> QED
    BY <2>1, <2>2, HereKnown, CtlFit, ApplyStep DEF Shaped
<1>25. ASSUME FirstCalls PROVE Shaped
  <2>1. /\ mode = "run" /\ ctl # <<>>
        /\ \/ Here.fn \in Fns /\ Apply(Stage("end"), Here.fn, Here.arg)
           \/ StartEval(Stage("end"), Top(stack))
    BY <1>25 DEF FirstCalls
  <2> QED
    BY <2>1, HereKnown, CtlFit, ApplyStep, StartEvalStep DEF Shaped
<1>26. ASSUME ReturnFromFirst PROVE Shaped
  <2>1. Running({"first"}) /\ SettleStack(Pop(stack), Below, hand) /\ nextId' = nextId
    BY <1>26 DEF ReturnFromFirst
  <2> HIDE DEF Running
  <2> QED
    BY <1>1, <2>1, ReturnStep DEF Shaped
<1>27. ASSUME ComposeSecond PROVE Shaped
  BY <1>27, ComposeSecondStep DEF Shaped
<1>28. ASSUME ReturnLast PROVE Shaped
  <2>1. /\ mode = "run" /\ ctl # <<>> /\ Here.kind = "tail" /\ LeaveTrampoline(Below, hand)
    BY <1>28 DEF ReturnLast
  <2> QED
    BY <1>1, <2>1, BelowFit, LeaveStep DEF Shaped
<1>29. ASSUME Fail PROVE Shaped
  <2>1. SettleStack(stack, ctl, Data) /\ nextId' = nextId /\ mode = "run"
    BY <1>29 DEF Fail
  <2>2. Outer(ctl)
    BY <2>1, ReadyInRun, OuterCtl DEF Ready
  <2> QED
    BY <1>1, <2>1, <2>2, StaysPut DEF Shaped
<1>30. ASSUME Unwind PROVE Shaped
  BY <1>30, UnwindStep DEF Shaped
<1>31. ASSUME NEW v \in Avail, StartMerge(v) PROVE Shaped
  BY <1>1, <1>31, StartMergeStep DEF Shaped
<1>32. ASSUME NEW v \in Avail, EndMerge(v) PROVE Shaped
  <2>1. Running({"merge"}) /\ SettleStack(Pop(stack), Below, v) /\ nextId' = nextId
    BY <1>32 DEF EndMerge
  <2> HIDE DEF Running
  <2> QED
    BY <1>1, <2>1, ReturnStep DEF Shaped
<1>33. ASSUME NEW v \in Value, NextComparison(v) PROVE Shaped
  <2>1. /\ mode = "run" /\ mode' = "run" /\ ctl # <<>> /\ Here.kind = "merge"
        /\ v \in {Here.arg, Data} /\ nextId' = nextId + 1 /\ nextId <= MaxId
        /\ Settle([stack EXCEPT ![Len(stack)] = Cleared(@, v)], heap, outer, ctl, Data)
    BY <1>33 DEF NextComparison, SettleStack, CanPush, Top
  <2>2. v \in Known(heap)
    BY <1>1, <2>1, HereKnown
  <2> QED
    BY <2>1, <2>2 DEF Shaped, Renewed, Renews
<1> HIDE DEF Running
<1> QED
  BY <1>3, <1>4, <1>5, <1>6, <1>7, <1>8, <1>9, <1>10, <1>11, <1>12, <1>13, <1>14, <1>15,
     <1>16, <1>17, <1>18, <1>19, <1>20, <1>21, <1>22, <1>23, <1>24, <1>25, <1>26, <1>27,
     <1>28, <1>29, <1>30, <1>31, <1>32, <1>33 DEF Next
-----------------------------------------------------------------------------
(***************************************************************************)
(* What a tail call does: it keeps the frames s of the stack, the topmost  *)
(* the frame `stop` it has judged or the one below that, and puts the      *)
(* callee's frame f above them.                                            *)
(***************************************************************************)
HeldBelow(c, fn, arg) == Held(SubSeq(c, 1, Len(c) - 1), fn) \cup ({arg} \cap Fns)

Judged(frame, f, stop, held) ==
  [frame EXCEPT !.seenAt =
     IF f.barrier >= stop THEN @ ELSE TokenCount(Cut(stack, stop), heap, outer, held)]

TakesTail(c, fn, arg, held, stop, s, f) ==
  /\ held = HeldBelow(c, fn, arg)
  /\ stop \in c[Len(c)].height + 1 .. Len(stack)
  /\ s \in Seq(Frame) /\ Len(s) \in {stop, stop - 1}
  /\ Len(s) = stop <=> MustStay(Cut(stack, stop), f.barrier, held)
  /\ Len(s) # stop => stop = c[Len(c)].height + 1
  /\ \A p \in stop + 1 .. Len(stack) : ~ MustStay(Cut(stack, p), f.barrier, held)
  /\ \A p \in 1 .. stop - 1 : s[p] = stack[p]
  /\ Len(s) = stop => s[stop] = Judged(stack[stop], f, stop, held)
  /\ f \in Frame /\ f.id = nextId /\ Fresh(f) /\ f.tco
  /\ f.barrier = BarrierFor(stack, heap[fn]) /\ f.barrier \in 1 .. Len(s)
  /\ f.home = HomeOf(Cut(stack, Len(s)), heap[fn]) /\ f.bind = BodyBindings(fn, arg)
  /\ Settle(Append(s, f), heap, outer,
            [c EXCEPT ![Len(c)].frames = Len(s) + 1 - c[Len(c)].height], Data)
  /\ nextId' = nextId + 1 /\ nextId <= MaxId
  /\ heap[fn].thunk /\ ~ AtCaller(heap[fn])
  /\ UNCHANGED bases

LEMMA TailCallIs ==
  ASSUME IInv, NEW c, Ready(c), c[Len(c)].kind = "tramp",
         NEW fn \in Fns, NEW arg \in Value, TailCall(c, fn, arg)
  PROVE  \E held, stop, s, f : TakesTail(c, fn, arg, held, stop, s, f)
<1> DEFINE tramp == c[Len(c)]
           first == Top(stack) - tramp.frames + 1
           held == Held(SubSeq(c, 1, Len(c) - 1), fn) \cup ({arg} \cap Fns)
           barrier == BarrierFor(stack, heap[fn])
           asked == {p \in first .. Top(stack) :
                       p = first \/ MustStay(Cut(stack, p), barrier, held)}
           stop == Highest(asked)
           s == Cut(stack, stop)
           stays == MustStay(s, barrier, held)
           judged == [s EXCEPT ![stop].seenAt =
                        IF barrier >= stop THEN @ ELSE TokenCount(s, heap, outer, held)]
           home == HomeOf(IF stays THEN s ELSE Cut(s, stop - 1), heap[fn])
           frame == TailCallFrame(heap[fn], barrier, home, BodyBindings(fn, arg))
           m == stop - first + (IF stays THEN 2 ELSE 1)
           d == [c EXCEPT ![Len(c)].frames = m]
<1>1. /\ CanPush /\ heap[fn].thunk /\ ~ AtCaller(heap[fn])
      /\ nextId' = nextId + 1 /\ UNCHANGED <<bases, mode>>
      /\ Settle(IF stays THEN Append(judged, frame) ELSE [s EXCEPT ![stop] = frame],
                heap, outer, d, Data)
  BY Zenon DEF TailCall, SettleStack
<1>2. /\ tramp.height \in Nat \ {0} /\ tramp.frames \in Nat \ {0}
      /\ Len(stack) = tramp.height + tramp.frames
  <2>1. c # <<>> /\ Stacked(c, Len(stack)) /\ Exact(c, Len(stack))
    BY DEF Ready
  <2>2. ActOK(tramp) /\ tramp.height \in 1 .. Len(stack) /\ tramp.frames \in Nat
    BY <2>1, HeightIn
  <2> QED
    BY <2>1, <2>2, StackFacts DEF ActOK, Exact
<1>3. first = tramp.height + 1 /\ first \in 2 .. Len(stack) /\ Top(stack) = Len(stack)
  BY <1>2 DEF Top
<1>4. barrier \in 1 .. Len(stack)
  BY <1>1, StackFacts, BarrierOK
<1>h. held = HeldBelow(c, fn, arg)
  BY DEF HeldBelow
<1>b. barrier = BarrierFor(stack, heap[fn])
  OBVIOUS
<1> HIDE DEF tramp, first, barrier, held
<1>5. /\ asked \in SUBSET (first .. Len(stack)) /\ asked \in SUBSET (1 .. Len(stack))
      /\ first \in asked
  BY <1>3
<1>6. stop \in asked /\ \A p \in asked : p <= stop
  <2>1. asked # {} /\ Len(stack) \in Nat
    BY <1>5, StackFacts
  <2> HIDE DEF asked
  <2> QED
    BY <1>5, <2>1, HighestExists
<1>7. /\ stop \in first .. Len(stack) /\ stop \in 1 .. Len(stack) /\ stop \in Nat
      /\ stop - 1 \in 1 .. Len(stack) /\ stop - 1 \in 1 .. stop
  BY <1>3, <1>5, <1>6
<1>8. \A p \in stop + 1 .. Len(stack) : ~ MustStay(Cut(stack, p), barrier, held)
  <2> SUFFICES ASSUME NEW p \in stop + 1 .. Len(stack), MustStay(Cut(stack, p), barrier, held)
               PROVE  FALSE
    OBVIOUS
  <2>1. p \in first .. Top(stack) /\ ~ (p <= stop)
    <3> HIDE DEF stop, asked
    <3> QED
      BY <1>3, <1>7
  <2>2. p \in asked
    BY <2>1
  <2> HIDE DEF stop, asked
  <2> QED
    BY <1>6, <2>1, <2>2
<1>9. stays \/ stop = first
  BY <1>6
<1>10. barrier <= stop
  <2> SUFFICES ASSUME barrier > stop PROVE FALSE
    BY <1>4, <1>7
  <2> HIDE DEF stop, asked
  <2>1. barrier \in stop + 1 .. Len(stack)
    BY <1>4, <1>7
  <2>2. Len(Cut(stack, barrier)) = barrier
    <3>1. stack \in Seq(Frame) /\ barrier \in 0 .. Len(stack)
      BY <1>4, StackFacts
    <3> QED
      BY <3>1, CutFrames
  <2>3. MustStay(Cut(stack, barrier), barrier, held)
    BY <1>4, <2>2 DEF MustStay, Top
  <2> QED
    BY <1>8, <2>1, <2>3
<1> HIDE DEF asked, stop
<1>11. s \in Seq(Frame) /\ Len(s) = stop /\ \A p \in 1 .. stop : s[p] = stack[p]
  <2>1. stack \in Seq(Frame) /\ stop \in 0 .. Len(stack)
    BY <1>7, StackFacts
  <2> QED
    BY <2>1, CutFrames
<1>12. BodyBindings(fn, arg) \in Bindings /\ nextId \in Nat /\ nextId <= MaxId
  BY <1>1, StackFacts, BodyBindingsOK DEF CanPush
<1>14. home \in SUBSET Nat
  <2> DEFINE k == IF stays THEN stop ELSE stop - 1
  <2>1. home = HomeOf(Cut(stack, k), heap[fn])
    <3>1. Cut(s, stop - 1) = Cut(stack, stop - 1)
      <4>1. stack \in Seq(Frame)
        BY StackFacts
      <4> QED
        BY <1>7, <4>1 DEF Cut
    <3> QED
      BY <3>1
  <2>2. k \in 1 .. Len(stack)
    BY <1>7
  <2> HIDE DEF k, home
  <2>3. StackOK(Cut(stack, k), nextId) /\ HeapOK(heap, Cut(stack, k), nextId)
    BY <2>2, StackFacts, CutBoth
  <2> DEFINE t == Cut(stack, k)
  <2> HIDE DEF t
  <2>4. StackOK(t, nextId) /\ HeapOK(heap, t, nextId)
    BY <2>3 DEF t
  <2>5. BarrierFor(t, heap[fn]) \in 1 .. Len(t) /\ HomeOf(t, heap[fn]) = Sees(t, BarrierFor(t, heap[fn]))
    BY <1>1, <2>4, BarrierOK
  <2>6. HomeOf(t, heap[fn]) \in SUBSET Nat
    BY <2>4, <2>5, SeesType DEF StackOK
  <2> QED
    BY <2>1, <2>6 DEF t
<1>15. /\ frame \in Frame /\ frame.id = nextId /\ frame.barrier = barrier /\ frame.home = home
       /\ Fresh(frame) /\ frame.bind = BodyBindings(fn, arg) /\ frame.tco
  <2> DEFINE bb == BodyBindings(fn, arg)
  <2>1. frame = TailCallFrame(heap[fn], barrier, home, bb) /\ bb \in Bindings /\ barrier \in Nat
    BY <1>4, <1>12
  <2> HIDE DEF frame, home, bb
  <2> DEFINE g == TailCallFrame(heap[fn], barrier, home, bb)
             e == CallFrame(heap[fn], barrier, home, bb)
  <2>2. /\ e \in Frame /\ e.id = nextId /\ e.barrier = barrier /\ e.home = home
        /\ e.internal = Internal(heap[fn]) /\ e.opaque = Opaque(heap[fn])
        /\ g \in Frame /\ g.id = nextId /\ g.barrier = barrier /\ g.home = home
        /\ g.internal = Internal(heap[fn]) /\ g.opaque = Opaque(heap[fn])
    BY <1>12, <1>14, <2>1, CallFrameOK
  <2>3. Fresh(g) /\ g.bind = bb /\ g.tco
    BY FreshCallFrames
  <2> HIDE DEF g
  <2> QED
    BY <2>1, <2>2, <2>3 DEF g, bb
<1>16. CASE stays
  <2>1. home = HomeOf(Cut(stack, stop), heap[fn])
    BY <1>16
  <2>2. m = stop + 1 - tramp.height
    <3>1. m = stop - first + 2
      BY <1>16
    <3> HIDE DEF m, stays
    <3> QED
      BY <1>2, <1>3, <1>7, <3>1
  <2>3. Settle(Append(judged, frame), heap, outer, d, Data)
    BY <1>1, <1>16
  <2>4. /\ judged \in Seq(Frame) /\ Len(judged) = stop
        /\ judged[stop] = Judged(stack[stop], frame, stop, held)
        /\ \A p \in 1 .. stop - 1 : judged[p] = stack[p]
    <3> DEFINE count == IF barrier >= stop THEN s[stop].seenAt ELSE TokenCount(s, heap, outer, held)
               z == [s EXCEPT ![stop].seenAt = count]
    <3>1. judged = z
      OBVIOUS
    <3>2. stop \in 1 .. Len(s) /\ s[stop] = stack[stop]
      BY <1>7, <1>11
    <3>3. count \in Nat
      <4>1. s[stop] \in Frame
        BY <1>11, <3>2, FrameAt
      <4> QED
        BY <4>1, TokenCountOK DEF Frame
    <3>4. Judged(stack[stop], frame, stop, held) = [stack[stop] EXCEPT !.seenAt = count]
      BY <1>15, <3>2 DEF Judged
    <3>5. z[stop] = [s[stop] EXCEPT !.seenAt = count] /\ \A p \in 1 .. stop - 1 : z[p] = s[p]
      BY <1>7, <1>11, <3>2
    <3>6. \A p \in 1 .. stop - 1 : s[p] = stack[p]
      BY <1>7, <1>11
    <3> HIDE DEF count, s, judged
    <3>7. z \in Seq(Frame) /\ SameFrames(s, z)
      BY <1>11, <3>2, <3>3, JudgedFrames
    <3>8. Len(z) = stop
      BY <1>11, <3>7 DEF SameFrames
    <3> HIDE DEF z
    <3> QED
      BY <3>1, <3>2, <3>4, <3>5, <3>6, <3>7, <3>8
  <2>5. d = [c EXCEPT ![Len(c)].frames = stop + 1 - c[Len(c)].height]
    BY <2>2 DEF tramp
  <2>6. barrier \in 1 .. stop
    BY <1>4, <1>7, <1>10
  <2>7. MustStay(Cut(stack, stop), barrier, held)
    BY <1>16
  <2>8. stop \in c[Len(c)].height + 1 .. Len(stack)
    BY <1>3, <1>7 DEF tramp
  <2> HIDE DEF frame, judged, d, home, m, stays, s
  <2>9. TakesTail(c, fn, arg, held, stop, judged, frame)
    BY <1>1, <1>8, <1>12, <1>15, <1>h, <1>b, <2>1, <2>3, <2>4, <2>5, <2>6, <2>7, <2>8
       DEF TakesTail
  <2> QED
    BY <2>9
<1>17. CASE ~ stays
  <2> DEFINE r == Cut(stack, stop - 1)
  <2>1. Cut(s, stop - 1) = r
    <3>1. stack \in Seq(Frame) /\ stop \in 1 .. Len(stack)
      BY <1>7, StackFacts
    <3> QED
      BY <3>1 DEF Cut
  <2>2. home = HomeOf(r, heap[fn])
    BY <1>17, <2>1
  <2>3. m = stop - tramp.height /\ stop = tramp.height + 1
    <3>1. m = stop - first + 1
      BY <1>17
    <3>2. stop = first
      BY <1>9, <1>17
    <3> HIDE DEF m, stays
    <3> QED
      BY <1>2, <1>3, <1>7, <3>1, <3>2
  <2>4. Settle([s EXCEPT ![stop] = frame], heap, outer, d, Data)
    BY <1>1, <1>17
  <2>5. barrier <= stop - 1
    BY <1>4, <1>7, <1>10, <1>11, <1>17 DEF MustStay, Top
  <2>6. ~ MustStay(Cut(stack, stop), barrier, held)
    BY <1>17
  <2> HIDE DEF stays, frame, m, home
  <2>7. r \in Seq(Frame) /\ Len(r) = stop - 1 /\ \A p \in 1 .. stop - 1 : r[p] = stack[p]
    <3>1. stack \in Seq(Frame) /\ stop - 1 \in 0 .. Len(stack)
      BY <1>7, StackFacts
    <3> QED
      BY <3>1, CutFrames
  <2>8. [s EXCEPT ![stop] = frame] = Append(r, frame)
    <3> HIDE DEF r, s
    <3> DEFINE u == [s EXCEPT ![stop] = frame]
    <3>2. u \in Seq(Frame) /\ Len(u) = stop /\ u[stop] = frame
          /\ \A p \in 1 .. stop - 1 : u[p] = r[p]
      BY <1>7, <1>11, <1>15, <2>7
    <3> DEFINE w == Append(r, frame)
    <3>3. w \in Seq(Frame) /\ Len(w) = stop /\ w[stop] = frame
          /\ \A p \in 1 .. stop - 1 : w[p] = r[p]
      BY <1>7, <1>15, <2>7
    <3> HIDE DEF u, w
    <3>4. \A p \in 1 .. stop : u[p] = w[p]
      BY <1>7, <3>2, <3>3
    <3>5. u = w
      BY <3>2, <3>3, <3>4, SeqEqual
    <3> QED
      BY <3>5 DEF u, w
  <2>9. d = [c EXCEPT ![Len(c)].frames = (stop - 1) + 1 - c[Len(c)].height]
    <3>1. (stop - 1) + 1 - tramp.height = m
      BY <1>2, <1>7, <2>3
    <3> QED
      BY <3>1 DEF tramp
  <2>10. barrier \in 1 .. stop - 1 /\ stop - 1 # stop
    BY <1>4, <1>7, <2>5
  <2>11. stop \in c[Len(c)].height + 1 .. Len(stack) /\ stop = c[Len(c)].height + 1
    BY <1>3, <1>7, <2>3 DEF tramp
  <2>12. home = HomeOf(Cut(stack, Len(r)), heap[fn])
    BY <2>2, <2>7
  <2> HIDE DEF d, r, s
  <2>13. TakesTail(c, fn, arg, held, stop, r, frame)
    BY <1>1, <1>8, <1>12, <1>15, <1>h, <1>b, <2>4, <2>6, <2>7, <2>8, <2>9, <2>10, <2>11, <2>12
       DEF TakesTail
  <2> QED
    BY <2>13
<1> QED
  BY <1>16, <1>17
-----------------------------------------------------------------------------
(***************************************************************************)
(* Steps keep what the evaluator refers to.                                *)
(***************************************************************************)
LEMMA Later ==
  ASSUME NEW h, NEW o, NEW n \in Nat, TokensBefore(h, o, n), NEW m \in Nat, n <= m, m <= MaxId + 1
  PROVE  TokensBefore(h, o, m)
<1>1. 0 .. n - 1 \subseteq 0 .. m - 1
  OBVIOUS
<1> QED
  BY <1>1 DEF TokensBefore

LEMMA StackNow ==
  ASSUME IInv', NEW s, stack' = s
  PROVE  StackOK(s, nextId')
BY DEF IInv

LEMMA NarrowsKeeps ==
  ASSUME IInv, CallInv, IInv', NEW k, NEW s, NEW c, NEW v, Narrows(k, s, c, v)
  PROVE  CallInv'
<1>1. Settle(s, heap, outer, c, v) /\ stack' = s /\ nextId' = nextId
  BY DEF Narrows, Settle
<1>2. Accounted(s, heap, c, v) /\ HeapAccounted(heap) /\ TcoFrames(c, s)
      /\ TokensBefore(heap, outer, nextId')
  BY <1>1 DEF Narrows, CallInv
<1>3. heap \in [Fns -> Closure] /\ StackOK(s, nextId')
  BY <1>1, StackNow DEF IInv, HeapOK
<1> QED
  BY <1>1, <1>2, <1>3, SettledCallInv

LEMMA PushesKeeps ==
  ASSUME IInv, CallInv, IInv', NEW f, NEW at, NEW c, Pushes(f, at, c)
  PROVE  CallInv'
<1> DEFINE s == Append(stack, f)
<1>1. Settle(s, heap, outer, c, Data) /\ stack' = s /\ nextId' = nextId + 1 /\ nextId <= MaxId
  BY DEF Pushes, Settle
<1>2. nextId \in Nat /\ nextId' \in Nat /\ nextId <= nextId' /\ nextId' <= MaxId + 1
  BY <1>1, StackFacts, ClosuresAssumption
<1>3. TokensBefore(heap, outer, nextId')
  BY <1>2, Later DEF CallInv
<1>4. Accounted(s, heap, c, Data) /\ HeapAccounted(heap) /\ TcoFrames(c, s)
  BY DEF Pushes, CallInv
<1>5. heap \in [Fns -> Closure] /\ StackOK(s, nextId')
  BY <1>1, StackNow DEF IInv, HeapOK
<1> HIDE DEF s
<1> QED
  BY <1>1, <1>3, <1>4, <1>5, SettledCallInv

\* Of a tail call.
LEMMA TakesTailKeeps ==
  ASSUME IInv, CallInv, IInv', NEW c, Ready(c), Outer(c), c[Len(c)].kind = "tramp",
         NEW fn \in Fns, fn \in Known(heap), NEW arg \in Known(heap),
         NEW held, NEW stop, NEW s, NEW f, TakesTail(c, fn, arg, held, stop, s, f)
  PROVE  CallInv'
<1> DEFINE n == Len(c)
           m == Len(s) + 1 - c[n].height
           d == [c EXCEPT ![n].frames = m]
           t == Append(s, f)
<1>1. Settle(t, heap, outer, d, Data) /\ stack' = t /\ nextId' = nextId + 1 /\ nextId <= MaxId
  BY DEF TakesTail, Settle
<1>2. nextId \in Nat /\ nextId' \in Nat /\ nextId <= nextId' /\ nextId' <= MaxId + 1
  BY <1>1, StackFacts, ClosuresAssumption
<1>3. TokensBefore(heap, outer, nextId')
  BY <1>2, Later DEF CallInv
<1>4. heap \in [Fns -> Closure] /\ StackOK(t, nextId')
  BY <1>1, StackNow DEF IInv, HeapOK
<1>5. /\ c \in Seq(Activation) /\ n \in 1 .. n /\ n \in Nat /\ c[n] \in Activation
      /\ c[n].height \in Nat \ {0} /\ c[n].frames \in Nat
      /\ Len(stack) = c[n].height + c[n].frames
  <2>1. c # <<>> /\ Stacked(c, Len(stack)) /\ Exact(c, Len(stack))
    BY DEF Ready
  <2>2. ActOK(c[n]) /\ c[n].height \in 1 .. Len(stack) /\ c[n].frames \in Nat /\ n \in Nat \ {0}
    BY <2>1, HeightIn
  <2> QED
    BY <2>1, <2>2 DEF ActOK, Exact, Stacked
<1>6. /\ s \in Seq(Frame) /\ stop \in c[n].height + 1 .. Len(stack) /\ Len(s) \in {stop, stop - 1}
      /\ \A p \in 1 .. stop - 1 : s[p] = stack[p]
      /\ Len(s) = stop => s[stop] = Judged(stack[stop], f, stop, held)
      /\ f \in Frame /\ f.tco /\ f.bind = BodyBindings(fn, arg)
  BY DEF TakesTail
<1>7. stop \in 1 .. Len(stack) /\ stop \in Nat /\ stack \in Seq(Frame) /\ Len(s) <= Len(stack)
  BY <1>5, <1>6, StackFacts
<1>8. \A p \in 1 .. Len(s) : s[p].bind = stack[p].bind /\ s[p].tco = stack[p].tco
  <2> TAKE p \in 1 .. Len(s)
  <2>1. stack[stop] \in Frame
    BY <1>7, FrameAt
  <2>2. /\ Judged(stack[stop], f, stop, held).bind = stack[stop].bind
        /\ Judged(stack[stop], f, stop, held).tco = stack[stop].tco
    BY <2>1 DEF Judged, Frame
  <2>3. p = stop \/ p \in 1 .. stop - 1
    BY <1>6, <1>7
  <2>4. p = stop => Len(s) = stop
    BY <1>6, <1>7
  <2> QED
    BY <1>6, <2>2, <2>3, <2>4
<1>9. Len(t) = Len(s) + 1 /\ t[Len(s) + 1] = f /\ \A p \in 1 .. Len(s) : t[p] = s[p]
  BY <1>6
<1> HIDE DEF t
<1>10. KnownFrames(t, heap)
  <2>1. \A p \in 1 .. Len(s) : p \in 1 .. Len(stack)
    BY <1>6, <1>7
  <2>2. KnownBindings(BodyBindings(fn, arg), heap)
    BY BodyBindingsKnown
  <2>3. \A p \in 1 .. Len(t) : p = Len(s) + 1 \/ p \in 1 .. Len(s)
    BY <1>6, <1>9
  <2>4. KnownFrames(stack, heap)
    BY DEF CallInv, Accounted
  <2> QED
    BY <1>6, <1>8, <1>9, <2>1, <2>2, <2>3, <2>4 DEF KnownFrames
<1>11. KnownActs(c, heap) /\ TcoFrames(c, stack)
  BY OuterKnown
<1>12. /\ d \in Seq(Activation) /\ Len(d) = n
       /\ \A i \in 1 .. n : /\ d[i].fn = c[i].fn /\ d[i].arg = c[i].arg
                            /\ d[i].kind = c[i].kind /\ d[i].height = c[i].height
       /\ \A i \in 1 .. n - 1 : d[i] = c[i]
       /\ d[n].frames = m
  <2> DEFINE act == [c[n] EXCEPT !.frames = m]
  <2>1. m \in Nat
    BY <1>5, <1>6
  <2>2. /\ act \in Activation /\ act.kind = c[n].kind /\ act.height = c[n].height
        /\ act.fn = c[n].fn /\ act.arg = c[n].arg /\ act.frames = m
    BY <1>5, <2>1 DEF Activation
  <2>3. d = [c EXCEPT ![n] = act]
    OBVIOUS
  <2> HIDE DEF act, m, d
  <2>4. d \in Seq(Activation) /\ Len(d) = n /\ d[n] = act /\ \A i \in 1 .. n : i # n => d[i] = c[i]
    BY <1>5, <2>2, <2>3
  <2> QED
    BY <1>5, <2>2, <2>4
<1>13. KnownActs(d, heap)
  BY <1>11, <1>12 DEF KnownActs
<1>14. TcoFrames(d, t)
  <2> SUFFICES ASSUME NEW i \in 1 .. n, c[i].kind \in Reusing,
                      NEW p \in c[i].height + 1 .. c[i].height + d[i].frames
               PROVE  t[p].tco <=> c[i].kind = "tramp"
    BY <1>12 DEF TcoFrames
  <2>0. c[i].height \in Nat
    BY <1>5, ActAt
  <2>1. CASE i = n
    <3>1. p \in c[n].height + 1 .. Len(s) + 1
      <4>1. c[n].height + m = Len(s) + 1
        BY <1>5, <1>6
      <4> HIDE DEF m, d
      <4> QED
        BY <1>12, <2>1, <4>1
    <3>2. p = Len(s) + 1 \/ (p \in 1 .. Len(s) /\ p \in c[n].height + 1 .. c[n].height + c[n].frames)
      BY <1>5, <1>6, <1>7, <3>1
    <3> QED
      BY <1>5, <1>6, <1>8, <1>9, <1>11, <2>1, <3>2 DEF TcoFrames
  <2>2. CASE i # n
    <3>1. i \in 1 .. n - 1 /\ n \in i + 1 .. n
      BY <1>5, <2>2
    <3>2. p \in c[i].height + 1 .. c[i].height + c[i].frames
      BY <1>12, <3>1
    <3>3. c[i].height + c[i].frames <= c[n].height
      BY <3>1, HeightsGrow DEF Ready
    <3>4. c[i].frames \in Nat
      BY <1>5, ActAt
    <3>5. p \in 1 .. Len(s)
      <4>1. c[n].height <= Len(s) /\ Len(s) \in Nat
        BY <1>5, <1>6
      <4>2. \A a, b, h, l \in Nat : a + b <= h /\ h <= l => a + 1 .. a + b \subseteq 1 .. l
        OBVIOUS
      <4> QED
        BY <1>5, <2>0, <3>2, <3>3, <3>4, <4>1, <4>2
    <3> QED
      BY <1>8, <1>9, <1>11, <3>2, <3>5 DEF TcoFrames
  <2> QED
    BY <2>1, <2>2
<1> HIDE DEF d
<1>15. Accounted(t, heap, d, Data) /\ HeapAccounted(heap)
  BY <1>10, <1>13, PlainKnown DEF Accounted, CallInv
<1> QED
  BY <1>1, <1>3, <1>4, <1>14, <1>15, SettledCallInv

\* The tokens taken and made are of frames on the stack.
LEMMA MadeTokens ==
  ASSUME IInv, CallInv
  PROVE  /\ KeptAt(stack, Top(stack)) \in 0 .. nextId - 1
         /\ OuterTokens(stack) \in [Ids -> 0 .. nextId - 1]
<1> DEFINE top == Top(stack)
           made == TokensMadeAt(stack, top)
<1>1. /\ top \in 1 .. Len(stack) /\ StackOK(stack, nextId) /\ Len(stack) \in Nat
      /\ nextId \in Nat /\ stack \in Seq(Frame)
  BY StackFacts DEF Top
<1>2. \A p \in 1 .. Len(stack) : stack[p].id \in 0 .. nextId - 1
  <2> TAKE p \in 1 .. Len(stack)
  <2>1. stack[p].id \in Nat
    BY <1>1, FrameAt
  <2>2. stack[p].id < nextId
    BY <1>1 DEF StackOK, Ordered
  <2> QED
    BY <1>1, <2>1, <2>2
<1>3. 0 \in 0 .. nextId - 1
  BY <1>1, <1>2
<1>4. \A p \in 1 .. Len(stack) : \A S \in SUBSET TcoPath(stack, p) :
        S # {} => Highest(S) \in 1 .. Len(stack)
  BY <1>1, TcoPathIn
<1>5. made \in SUBSET (1 .. Len(stack))
  <2>1. TcoPath(stack, top) \in SUBSET (1 .. top)
    BY <1>1, TcoPathIn
  <2> QED
    BY <1>1, <2>1 DEF TokensMadeAt
<1>6. \A p \in 1 .. Len(stack) : NextTcoId(stack, p) \in 0 .. nextId - 1
  <2> TAKE p \in 1 .. Len(stack)
  <2> DEFINE further == TcoPath(stack, p) \ {p}
  <2>1. further \in SUBSET TcoPath(stack, p)
    OBVIOUS
  <2>2. NextTcoId(stack, p) = IF further = {} THEN 0 ELSE stack[Highest(further)].id
    BY DEF NextTcoId
  <2> HIDE DEF further
  <2> QED
    BY <1>2, <1>3, <1>4, <2>1, <2>2
<1>7. KeptAt(stack, top) \in 0 .. nextId - 1
  <2> DEFINE all == TcoPath(stack, top)
  <2>1. KeptAt(stack, top) = IF all = {} THEN 0 ELSE stack[Highest(all)].id
    BY DEF KeptAt
  <2>2. all \in SUBSET TcoPath(stack, top)
    OBVIOUS
  <2> HIDE DEF all
  <2> QED
    BY <1>1, <1>2, <1>3, <1>4, <2>1, <2>2
<1>8. OuterTokens(stack) =
        [t \in Ids |-> IF \E p \in made : stack[p].id = t
                       THEN NextTcoId(stack, CHOOSE p \in made : stack[p].id = t)
                       ELSE outer[t]]
  BY DEF OuterTokens
<1>9. outer \in [Ids -> 0 .. nextId - 1]
  BY DEF CallInv, TokensBefore
<1> HIDE DEF made, top
<1>10. \A t \in Ids : (\E p \in made : stack[p].id = t) =>
         NextTcoId(stack, CHOOSE p \in made : stack[p].id = t) \in 0 .. nextId - 1
  BY <1>5, <1>6
<1>11. OuterTokens(stack) \in [Ids -> 0 .. nextId - 1]
  <2> DEFINE R == 0 .. nextId - 1
  <2>1. /\ outer \in [Ids -> R]
        /\ \A t \in Ids : (\E p \in made : stack[p].id = t) =>
             NextTcoId(stack, CHOOSE p \in made : stack[p].id = t) \in R
    BY <1>9, <1>10
  <2> HIDE DEF R
  <2>2. OuterTokens(stack) \in [Ids -> R]
    BY <1>8, <2>1
  <2> QED
    BY <2>2 DEF R
<1> QED
  BY <1>7, <1>11 DEF top

LEMMA MakesKeeps ==
  ASSUME IInv, CallInv, IInv', NEW new, NEW h, NEW s, NEW v, Makes(new, h, s, v)
  PROVE  CallInv'
<1> DEFINE o == OuterTokens(stack)
<1>1. Settle(s, h, o, ctl, v) /\ stack' = s /\ nextId' = nextId
  BY DEF Makes, Settle
<1>2. /\ \A f \in new : f \in Fns /\ heap[f] = FreeSlot /\ MadeNow(new, h, f)
      /\ v \in new
      /\ h \in [Fns -> Closure] /\ \A f \in Fns \ new : h[f] = heap[f]
      /\ Tokenises(s) /\ KnownFrames(s, h)
  BY DEF Makes
<1>3. /\ \A f \in new : f \in Known(h)
      /\ \A f \in new : h[f].kind # "free"
  BY <1>2 DEF MadeNow, Known, Value
<1>4. /\ Known(heap) \subseteq Known(h)
      /\ \A b : KnownBindings(b, heap) => KnownBindings(b, h)
      /\ \A c : KnownActs(c, heap) => KnownActs(c, h)
  BY <1>2, <1>3, KnownGrows
<1>5. StackOK(s, nextId')
  BY <1>1, StackNow
<1>6. TokensBefore(h, o, nextId')
  <2>1. nextId <= MaxId + 1 /\ \A f \in Fns : heap[f].keep \in 0 .. nextId - 1
    BY DEF CallInv, TokensBefore
  <2>2. KeptAt(stack, Top(stack)) \in 0 .. nextId - 1 /\ o \in [Ids -> 0 .. nextId - 1]
    BY MadeTokens
  <2>3. 0 \in 0 .. nextId - 1
    BY <2>2, StackFacts
  <2>4. ASSUME NEW f \in Fns PROVE h[f].keep \in 0 .. nextId - 1
    <3>1. CASE f \in new
      BY <1>2, <2>2, <2>3, <3>1 DEF MadeNow
    <3>2. CASE f \notin new
      BY <1>2, <2>1, <3>2
    <3> QED
      BY <3>1, <3>2
  <2> QED
    BY <1>1, <2>1, <2>2, <2>4 DEF TokensBefore
<1>7. Accounted(s, h, ctl, v)
  BY <1>2, <1>3, <1>4 DEF CallInv, Accounted
<1>8. HeapAccounted(h)
  <2> SUFFICES ASSUME NEW f \in Fns
               PROVE  /\ KnownBindings(h[f].env, h)
                      /\ h[f].f \in Known(h) \cup {Unbound}
                      /\ h[f].g \in Known(h) \cup {Unbound}
                      /\ h[f].kind = "free" => h[f] = FreeSlot
    BY DEF HeapAccounted
  <2>1. CASE f \in new
    <3>1. MadeNow(new, h, f)
      BY <1>2, <2>1
    <3> QED
      BY <1>3, <1>4, <2>1, <3>1 DEF MadeNow
  <2>2. CASE f \notin new
    <3>1. h[f] = heap[f]
      BY <1>2, <2>2
    <3> QED
      BY <1>4, <3>1 DEF CallInv, HeapAccounted
  <2> QED
    BY <2>1, <2>2
<1>9. TcoFrames(ctl, s)
  <2> SUFFICES ASSUME NEW i \in 1 .. Len(ctl), ctl[i].kind \in Reusing,
                      NEW p \in ctl[i].height + 1 .. ctl[i].height + ctl[i].frames
               PROVE  s[p].tco <=> ctl[i].kind = "tramp"
    BY DEF TcoFrames
  <2>1. stack[p].tco <=> ctl[i].kind = "tramp"
    BY DEF CallInv, TcoFrames
  <2>2. p \in 1 .. Len(stack)
    <3>1. Stacked(ctl, Len(stack)) /\ Len(stack) \in Nat
      BY StackFacts DEF IInv, CtlOK
    <3>2. ctl[i].height \in Nat \ {0} /\ ctl[i].frames \in Nat /\ ctl[i].height + ctl[i].frames <= Len(stack)
      BY <3>1, StackedTops
    <3> QED
      BY <3>1, <3>2
  <2> QED
    BY <1>2, <2>1, <2>2 DEF Tokenises
<1> HIDE DEF o
<1> QED
  BY <1>1, <1>2, <1>5, <1>6, <1>7, <1>8, <1>9, SettledCallInv

LEMMA RenewsKeeps ==
  ASSUME IInv, CallInv, IInv', NEW v, Renews(v)
  PROVE  CallInv'
<1>1. PICK s : Clears(v, s)
  BY RenewsClears
<1>2. /\ Settle(s, heap, outer, ctl, Data) /\ stack' = s
      /\ nextId' = nextId + 1 /\ nextId <= MaxId
  BY <1>1 DEF Clears, Renews, Settle
<1>3. nextId \in Nat /\ nextId' \in Nat /\ nextId <= nextId' /\ nextId' <= MaxId + 1
  BY <1>2, StackFacts, ClosuresAssumption
<1>4. TokensBefore(heap, outer, nextId')
  BY <1>3, Later DEF CallInv
<1>5. KnownFrames(s, heap)
  <2>1. /\ KnownFrames(stack, heap) /\ Len(s) = Len(stack)
        /\ \A p \in 1 .. Len(stack) : p # Len(stack) => s[p] = stack[p]
        /\ KnownBindings(s[Len(stack)].bind, heap)
    BY <1>1 DEF CallInv, Accounted, Clears
  <2> SUFFICES ASSUME NEW p \in 1 .. Len(stack) PROVE KnownBindings(s[p].bind, heap)
    BY <2>1 DEF KnownFrames
  <2>2. KnownBindings(stack[p].bind, heap)
    BY <2>1 DEF KnownFrames
  <2>3. CASE p = Len(stack)
    BY <2>1, <2>3
  <2>4. CASE p # Len(stack)
    BY <2>1, <2>2, <2>4
  <2> QED
    BY <2>3, <2>4
<1>6. TcoFrames(ctl, s)
  <2> SUFFICES ASSUME NEW i \in 1 .. Len(ctl), ctl[i].kind \in Reusing,
                      NEW p \in ctl[i].height + 1 .. ctl[i].height + ctl[i].frames
               PROVE  s[p].tco <=> ctl[i].kind = "tramp"
    BY DEF TcoFrames
  <2>1. stack[p].tco <=> ctl[i].kind = "tramp"
    BY DEF CallInv, TcoFrames
  <2>2. p \in 1 .. Len(stack)
    <3>1. Stacked(ctl, Len(stack)) /\ Len(stack) \in Nat
      BY StackFacts DEF IInv, CtlOK
    <3>2. ctl[i].height \in Nat \ {0} /\ ctl[i].frames \in Nat /\ ctl[i].height + ctl[i].frames <= Len(stack)
      BY <3>1, StackedTops
    <3> QED
      BY <3>1, <3>2
  <2>3. s[p].tco = stack[p].tco
    BY <1>1, <2>2 DEF Clears
  <2> QED
    BY <2>1, <2>3
<1>7. Accounted(s, heap, ctl, Data) /\ HeapAccounted(heap)
  BY <1>5, PlainKnown DEF CallInv, Accounted
<1>8. heap \in [Fns -> Closure] /\ StackOK(s, nextId')
  BY <1>2, StackNow DEF IInv, HeapOK
<1> QED
  BY <1>2, <1>4, <1>6, <1>7, <1>8, SettledCallInv

LEMMA TailOuter ==
  ASSUME IInv, NEW c, NEW fn, NEW arg, TailCalls(c, fn, arg)
  PROVE  Outer(c) /\ ctl # <<>> /\ Len(c) \in 1 .. Len(ctl) /\ (c = ctl \/ Len(c) = Len(ctl) - 1)
<1>1. (c = ctl \/ (c = Below /\ Here.kind = "tail")) /\ c # <<>> /\ mode = "run"
  BY DEF TailCalls, Ready
<1>2. ctl # <<>>
  BY <1>1 DEF IInv, CtlOK
<1> QED
  BY <1>1, <1>2, OuterCtl DEF Outer

LEMMA TailKeeps ==
  ASSUME IInv, CallInv, IInv', NEW c, NEW fn, NEW arg, TailCalls(c, fn, arg)
  PROVE  CallInv'
<1>1. /\ Ready(c) /\ c[Len(c)].kind = "tramp" /\ fn \in Fns /\ fn \in Known(heap)
      /\ arg \in Known(heap) /\ arg \in Value /\ TailCall(c, fn, arg)
  BY DEF TailCalls, Known
<1>2. Outer(c)
  BY TailOuter
<1>3. PICK held, stop, s, f : TakesTail(c, fn, arg, held, stop, s, f)
  BY <1>1, TailCallIs
<1> QED
  BY <1>1, <1>2, <1>3, TakesTailKeeps

LEMMA CallInvKept == IInv /\ CallInv /\ IInv' /\ [Next]_vars => CallInv'
<1> SUFFICES ASSUME IInv, CallInv, IInv', [Next]_vars PROVE CallInv'
  OBVIOUS
<1>1. CASE Next
  <2>1. Shaped
    BY <1>1, NextShaped
  <2> QED
    BY <2>1, NarrowsKeeps, PushesKeeps, MakesKeeps, TailKeeps, RenewsKeeps
       DEF Shaped, Narrowed, Pushed, Made, TailCalled, Renewed
<1>2. CASE UNCHANGED vars
  BY <1>2 DEF vars, CallInv
<1> QED
  BY <1>1, <1>2

LEMMA InitCallInv == Init => CallInv
<1> SUFFICES ASSUME Init PROVE CallInv
  OBVIOUS
<1>1. PICK foreign \in SUBSET Fns :
        /\ heap = [f \in Fns |-> IF f \in foreign
                     THEN [FreeSlot EXCEPT !.kind = "lambda", !.thunk = TRUE,
                                           !.foreign = TRUE, !.chain = {<<2, 1>>}]
                     ELSE FreeSlot]
        /\ hand \in IF foreign = {} THEN {Data} ELSE foreign
  BY DEF Init
<1>2. \A f \in Fns : /\ f \in foreign => heap[f].kind = "lambda"
                     /\ f \notin foreign => heap[f] = FreeSlot
                     /\ heap[f].env = NoBindings /\ heap[f].f = Unbound /\ heap[f].g = Unbound
                     /\ heap[f].keep = 0
  BY <1>1 DEF FreeSlot
<1>3. hand \in Known(heap)
  <2>1. CASE foreign = {}
    BY <1>1, <2>1, PlainKnown
  <2>2. CASE foreign # {}
    <3>1. hand \in foreign /\ hand \in Fns
      BY <1>1, <2>2
    <3> QED
      BY <1>2, <3>1 DEF Known, Value
  <2> QED
    BY <2>1, <2>2
<1>4. stack = <<NewFrame(0, NoBarrier, {})>> /\ nextId = 1 /\ ctl = <<>>
      /\ outer = [t \in Ids |-> 0]
  BY DEF Init
<1>5. KnownFrames(stack, heap)
  <2>1. Len(stack) = 1 /\ stack[1].bind = NoBindings
    BY <1>4 DEF NewFrame
  <2> QED
    BY <2>1, NothingKnown DEF KnownFrames
<1>6. KnownActs(ctl, heap) /\ TcoFrames(ctl, stack)
  BY <1>4 DEF KnownActs, TcoFrames
<1>7. HeapAccounted(heap)
  BY <1>2, NothingKnown DEF HeapAccounted
<1>8. TokensBefore(heap, outer, nextId)
  BY <1>2, <1>4, ClosuresAssumption DEF TokensBefore
<1> QED
  BY <1>3, <1>5, <1>6, <1>7, <1>8 DEF CallInv, Accounted
-----------------------------------------------------------------------------
(***************************************************************************)
(* Frames the evaluator names by their index.                              *)
(***************************************************************************)
LEMMA BaseLow ==
  ASSUME NEW c, NEW n \in Nat, n <= Len(c), NEW tb, TailBaseIs(c, n, tb),
         \A i \in 1 .. n : SavesBases(c, i)
  PROVE  \/ tb = Root
         \/ \E i \in 1 .. n : /\ c[i].kind = "tramp" /\ None(c, "tramp", i + 1, n)
                              /\ tb \in 2 .. c[i].height
<1> DEFINE S == {i \in 1 .. n : c[i].kind = "tramp"}
<1>1. CASE S = {}
  BY <1>1 DEF None, TailBaseIs
<1>2. CASE S # {}
  <2>1. Highest(S) \in S /\ \A q \in S : q <= Highest(S)
    BY <1>2, HighestExists
  <2>2. PICK i \in S : \A q \in S : q <= i
    BY <2>1
  <2>3. None(c, "tramp", i + 1, n)
    <3> SUFFICES ASSUME NEW k \in i + 1 .. n, c[k].kind = "tramp" PROVE FALSE
      BY DEF None
    <3>1. k \in S
      OBVIOUS
    <3> QED
      BY <2>2, <3>1
  <2>4. tb \in 2 .. c[i].height
    BY <2>3 DEF TailBaseIs, SavesBases
  <2> QED
    BY <2>3, <2>4
<1> QED
  BY <1>1, <1>2

LEMMA HeightsRise ==
  ASSUME NEW c, NEW len, Stacked(c, len), NEW i \in 1 .. Len(c), NEW j \in i .. Len(c)
  PROVE  c[i].height \in Nat \ {0} /\ c[j].height \in Nat \ {0} /\ c[i].height <= c[j].height
<1>1. c \in Seq(Activation) /\ j \in 1 .. Len(c)
  BY DEF Stacked
<1>2. /\ c[i].height \in Nat \ {0} /\ c[i].frames \in Nat /\ c[j].height \in Nat \ {0}
  BY <1>1, StackedTops
<1>3. CASE i = j
  BY <1>2, <1>3
<1>4. CASE i # j
  <2>1. j \in i + 1 .. Len(c)
    BY <1>4
  <2>2. c[i].height + c[i].frames <= c[j].height
    BY <2>1, HeightsGrow
  <2> QED
    BY <1>2, <2>2
<1> QED
  BY <1>3, <1>4

\* An activation's indexed frames are no higher than an activation above it has
\* found the stack, if no trampoline lies over that.
LEMMA IndexedLow ==
  ASSUME IInv, NEW i \in 1 .. Len(ctl), NEW p \in IndexedFrames(i),
         NEW j \in i .. Len(ctl), None(ctl, "tramp", j + 1, Len(ctl))
  PROVE  p \in 1 .. ctl[j].height
<1>1. /\ Stacked(ctl, Len(stack)) /\ BasesOK(ctl, tailBase, callbackBase)
      /\ \A k \in 1 .. Len(ctl) : SavesBases(ctl, k)
      /\ Len(ctl) \in Nat
  BY DEF IInv, CtlOK, BasesOK, Stacked
<1>2. ctl[i].height \in Nat \ {0} /\ ctl[j].height \in Nat \ {0} /\ ctl[i].height <= ctl[j].height
  BY <1>1, HeightsRise
<1>3. CASE ctl[i].kind = "eval"
  <2>1. p = ctl[i].saved[1] /\ p # 0
    BY <1>3 DEF IndexedFrames
  <2>2. ActOK(ctl[i])
    BY <1>1 DEF Stacked
  <2> QED
    BY <1>2, <1>3, <2>1, <2>2 DEF ActOK
<1>4. CASE ctl[i].kind = "tramp" /\ p = ctl[i].saved[1]
  <2>1. /\ i > 1 /\ TailBaseIs(ctl, i - 1, p)
    BY <1>1, <1>4 DEF SavesBases
  <2>2. i - 1 \in Nat /\ i - 1 <= Len(ctl) /\ \A k \in 1 .. i - 1 : SavesBases(ctl, k)
    BY <1>1, <2>1
  <2>3. \/ p = Root
        \/ \E k \in 1 .. i - 1 : p \in 2 .. ctl[k].height
    BY <2>1, <2>2, BaseLow
  <2>4. \A k \in 1 .. i - 1 : ctl[k].height \in Nat /\ ctl[k].height <= ctl[j].height
    <3> TAKE k \in 1 .. i - 1
    <3>1. k \in 1 .. Len(ctl) /\ j \in k .. Len(ctl)
      OBVIOUS
    <3> QED
      BY <1>1, <3>1, HeightsRise
  <2> QED
    BY <1>2, <2>3, <2>4 DEF Root
<1>5. CASE ctl[i].kind = "tramp" /\ p = tailBase
  <2>1. TailBaseIs(ctl, Len(ctl), tailBase)
    BY <1>1 DEF BasesOK
  <2>2. \/ p = Root
        \/ \E k \in 1 .. Len(ctl) : /\ ctl[k].kind = "tramp" /\ None(ctl, "tramp", k + 1, Len(ctl))
                                    /\ p \in 2 .. ctl[k].height
    BY <1>1, <1>5, <2>1, BaseLow
  <2>3. ASSUME NEW k \in 1 .. Len(ctl), ctl[k].kind = "tramp", p \in 2 .. ctl[k].height
        PROVE  p \in 1 .. ctl[j].height
    <3>1. j \in k .. Len(ctl)
      <4>1. ~ k \in j + 1 .. Len(ctl)
        BY <2>3 DEF None
      <4> QED
        BY <4>1
    <3>2. ctl[k].height \in Nat /\ ctl[k].height <= ctl[j].height
      BY <1>1, <3>1, HeightsRise
    <3> QED
      BY <1>2, <2>3, <3>2
  <2> QED
    BY <1>2, <2>2, <2>3 DEF Root
<1> QED
  BY <1>3, <1>4, <1>5 DEF IndexedFrames

LEMMA IndexedIn ==
  ASSUME IInv, NEW i \in 1 .. Len(ctl), NEW p \in IndexedFrames(i)
  PROVE  p \in 1 .. Len(stack)
<1>1. Stacked(ctl, Len(stack)) /\ Len(stack) \in Nat /\ Len(ctl) \in Nat
  BY StackFacts DEF IInv, CtlOK, Stacked
<1>2. Len(ctl) \in i .. Len(ctl) /\ None(ctl, "tramp", Len(ctl) + 1, Len(ctl)) /\ Len(ctl) \in 1 .. Len(ctl)
  BY <1>1 DEF None
<1>3. p \in 1 .. ctl[Len(ctl)].height
  BY <1>2, IndexedLow
<1>4. /\ ctl[Len(ctl)].height \in Nat \ {0} /\ ctl[Len(ctl)].frames \in Nat
      /\ ctl[Len(ctl)].height + ctl[Len(ctl)].frames <= Len(stack)
  BY <1>1, <1>2, StackedTops
<1> QED
  BY <1>1, <1>3, <1>4

\* What a step keeps of the stack below.
LEMMA TailKeepsBelow ==
  ASSUME IInv, NEW c, NEW fn, NEW arg, TailCalls(c, fn, arg)
  PROVE  /\ Len(c) \in 1 .. Len(ctl) /\ Len(ctl') = Len(c)
         /\ None(ctl, "tramp", Len(c) + 1, Len(ctl))
         /\ ctl[Len(c)].height \in Nat \ {0}
         /\ \A p \in 1 .. ctl[Len(c)].height : stack'[p] = stack[p]
<1>1. /\ Ready(c) /\ c[Len(c)].kind = "tramp" /\ fn \in Fns
      /\ arg \in Value /\ TailCall(c, fn, arg)
      /\ (c = ctl \/ (c = Below /\ Here.kind = "tail"))
  BY DEF TailCalls, Known
<1>2. Outer(c) /\ ctl # <<>> /\ Len(c) \in 1 .. Len(ctl) /\ (c = ctl \/ Len(c) = Len(ctl) - 1)
  BY TailOuter
<1>3. PICK held, stop, s, f : TakesTail(c, fn, arg, held, stop, s, f)
  BY <1>1, TailCallIs
<1>4. /\ stop \in c[Len(c)].height + 1 .. Len(stack) /\ Len(s) \in {stop, stop - 1}
      /\ s \in Seq(Frame) /\ \A p \in 1 .. stop - 1 : s[p] = stack[p]
      /\ stack' = Append(s, f) /\ Len(ctl') = Len(c)
  <2>1. /\ stop \in c[Len(c)].height + 1 .. Len(stack) /\ Len(s) \in {stop, stop - 1}
        /\ s \in Seq(Frame) /\ \A p \in 1 .. stop - 1 : s[p] = stack[p]
    BY <1>3 DEF TakesTail
  <2>2. /\ stack' = Append(s, f)
        /\ ctl' = [c EXCEPT ![Len(c)].frames = Len(s) + 1 - c[Len(c)].height]
    BY <1>3 DEF TakesTail, Settle
  <2>3. c \in Seq(Activation)
    BY <1>2 DEF Outer
  <2>4. \A m : Len([c EXCEPT ![Len(c)].frames = m]) = Len(c)
    BY <2>3
  <2> QED
    BY <2>1, <2>2, <2>4
<1>5. ctl[Len(c)].height = c[Len(c)].height /\ ctl[Len(c)].height \in Nat \ {0}
  <2>1. ctl[Len(c)].height = c[Len(c)].height
    BY <1>2 DEF Outer
  <2>2. Stacked(ctl, Len(stack))
    BY DEF IInv, CtlOK
  <2> QED
    BY <1>2, <2>1, <2>2, StackedTops
<1>6. \A p \in 1 .. ctl[Len(c)].height : stack'[p] = stack[p]
  <2> TAKE p \in 1 .. ctl[Len(c)].height
  <2>1. p \in 1 .. stop - 1 /\ p \in 1 .. Len(s)
    BY <1>4, <1>5
  <2> QED
    BY <1>4, <2>1
<1>7. None(ctl, "tramp", Len(c) + 1, Len(ctl))
  <2>1. CASE c = ctl
    BY <1>2, <2>1, HereInnermost
  <2>2. CASE Len(c) = Len(ctl) - 1 /\ c # ctl
    BY <1>1, <1>2, <2>2 DEF None, Here
  <2> QED
    BY <1>2, <2>1, <2>2
<1> QED
  BY <1>2, <1>4, <1>5, <1>6, <1>7
-----------------------------------------------------------------------------
(***************************************************************************)
(* The theorems.                                                           *)
(***************************************************************************)
CallsInv == IInv /\ CallInv

LEMMA StepsKeep == CallsInv /\ [Next]_vars => CallsInv'
BY NextOK, CallInvKept DEF CallsInv

\* What the frames, the closures and the evaluator's locals refer to has not
\* been freed, a trampoline's frames are frames of tail calls, and every token
\* is that of a frame pushed before.
THEOREM ReferencesHeld == Spec => []CallsInv
<1>1. Init => CallsInv
  BY InitOK, InitCallInv DEF CallsInv
<1> QED
  BY <1>1, StepsKeep, PTL DEF Spec

\* The step's part of HostFrameUntouched.
LEMMA HostFrameKept ==
  ASSUME IInv, CallInv, [Next]_vars, mode # "idle"
  PROVE  stack'[Root].bind = stack[Root].bind
<1>0. Len(stack) \in Nat \ {0} /\ stack \in Seq(Frame)
  BY StackFacts
<1>1. CASE Narrowed
  BY <1>1, Zenon DEF Narrowed, Narrows, Settle, HostKept
<1>2. CASE Pushed
  <2>1. PICK f \in Frame : stack' = Append(stack, f)
    BY <1>2 DEF Pushed, Pushes, Settle
  <2> QED
    BY <1>0, <2>1 DEF Root
<1>3. CASE Made
  BY <1>3, Zenon DEF Made, Makes, Settle, HostKept
<1>4. CASE TailCalled
  <2>1. PICK c, fn, arg : TailCalls(c, fn, arg)
    BY <1>4 DEF TailCalled
  <2>2. /\ ctl[Len(c)].height \in Nat \ {0}
        /\ \A p \in 1 .. ctl[Len(c)].height : stack'[p] = stack[p]
    BY <2>1, TailKeepsBelow
  <2>3. Root \in 1 .. ctl[Len(c)].height
    BY <2>2 DEF Root
  <2> QED
    BY <2>2, <2>3
<1>5. CASE Renewed
  <2>1. PICK v, s : Clears(v, s)
    BY <1>5, RenewsClears DEF Renewed
  <2>2. stack' = s
    BY <2>1 DEF Clears, Settle
  <2> QED
    BY <1>0, <2>1, <2>2 DEF Clears, Root
<1>6. CASE UNCHANGED vars
  BY <1>6 DEF vars
<1> QED
  BY <1>1, <1>2, <1>3, <1>4, <1>5, <1>6, NextShaped DEF Shaped

\* The host's frame is the evaluation's own affair to read and never to bind in:
\* nothing an expression does, an error included, changes a binding of the root
\* frame while an evaluation runs.
THEOREM HostFrameSafe == Spec => HostFrameUntouched
<1>1. CallsInv /\ [Next]_vars => [mode # "idle" => stack'[Root].bind = stack[Root].bind]_vars
  BY HostFrameKept DEF CallsInv
<1> QED
  BY <1>1, ReferencesHeld, PTL DEF Spec, HostFrameUntouched

\* The step's part of IndicesStayTrue.
LEMMA IndexedKept ==
  ASSUME IInv, CallInv, [Next]_vars,
         NEW i \in 1 .. Len(ctl), i \in 1 .. Len(ctl'), NEW p \in IndexedFrames(i)
  PROVE  stack'[p].id = stack[p].id
<1>0. /\ Len(stack) \in Nat \ {0} /\ stack \in Seq(Frame) /\ p \in 1 .. Len(stack)
      /\ Stacked(ctl, Len(stack)) /\ Len(ctl) \in Nat
  BY StackFacts, IndexedIn DEF IInv, CtlOK, Stacked
<1>1. CASE Narrowed
  <2>1. PICK k, s, c, v : Narrows(k, s, c, v)
    BY <1>1 DEF Narrowed
  <2>2. /\ stack' = s /\ ctl' = c /\ k \in 1 .. Len(stack) /\ OnlyBindings(Cut(stack, k), s)
        /\ \/ k = Len(stack) \/ c = <<>>
           \/ \E j \in 1 .. Len(ctl) : /\ Len(c) < j /\ ctl[j].height <= k
                                       /\ None(ctl, "tramp", j + 1, Len(ctl))
    BY <2>1, Zenon DEF Narrows, Settle
  <2>3. p \in 1 .. k
    <3>1. CASE k = Len(stack)
      BY <1>0, <3>1
    <3>2. CASE c = <<>>
      BY <2>2, <3>2
    <3>3. ASSUME NEW j \in 1 .. Len(ctl), Len(c) < j, ctl[j].height <= k,
                 None(ctl, "tramp", j + 1, Len(ctl))
          PROVE  p \in 1 .. k
      <4>1. i \in 1 .. Len(c)
        BY <2>2
      <4>2. Len(c) \in Nat
        BY <4>1
      <4>3. j \in i .. Len(ctl)
        BY <3>3, <4>1, <4>2
      <4>4. p \in 1 .. ctl[j].height /\ ctl[j].height \in Nat
        BY <1>0, <3>3, <4>3, IndexedLow, HeightsRise
      <4> QED
        BY <2>2, <3>3, <4>4
    <3> QED
      BY <2>2, <3>1, <3>2, <3>3
  <2>4. Len(Cut(stack, k)) = k /\ Cut(stack, k)[p] = stack[p]
    <3>1. k \in 0 .. Len(stack)
      BY <2>2
    <3> QED
      BY <1>0, <2>3, <3>1, CutFrames
  <2> QED
    BY <2>2, <2>3, <2>4 DEF OnlyBindings
<1>2. CASE Pushed
  <2>1. PICK f \in Frame : stack' = Append(stack, f)
    BY <1>2 DEF Pushed, Pushes, Settle
  <2> QED
    BY <1>0, <2>1
<1>3. CASE Made
  <2>1. PICK s : Tokenises(s) /\ stack' = s
    BY <1>3, Zenon DEF Made, Makes, Settle
  <2> QED
    BY <1>0, <2>1 DEF Tokenises
<1>4. CASE TailCalled
  <2>1. PICK c, fn, arg : TailCalls(c, fn, arg)
    BY <1>4 DEF TailCalled
  <2>2. /\ Len(c) \in 1 .. Len(ctl) /\ Len(ctl') = Len(c)
        /\ None(ctl, "tramp", Len(c) + 1, Len(ctl))
        /\ \A q \in 1 .. ctl[Len(c)].height : stack'[q] = stack[q]
    BY <2>1, TailKeepsBelow
  <2>3. Len(c) \in i .. Len(ctl)
    BY <2>2
  <2> QED
    BY <2>2, <2>3, IndexedLow
<1>5. CASE Renewed
  <2>1. PICK v, s : Clears(v, s)
    BY <1>5, RenewsClears DEF Renewed
  <2>2. stack' = s /\ Len(stack) = Here.height + 1
    BY <2>1 DEF Clears, Settle
  <2>3. None(ctl, "tramp", Len(ctl) + 1, Len(ctl)) /\ Len(ctl) \in i .. Len(ctl)
    BY <1>0 DEF None
  <2>4. p \in 1 .. Here.height
    BY <2>3, IndexedLow DEF Here
  <2>5. p # Len(stack)
    <3>1. Here.height \in Nat
      BY <2>3, HereOK
    <3> QED
      BY <2>2, <2>4, <3>1
  <2> QED
    BY <1>0, <2>1, <2>2, <2>5 DEF Clears
<1>6. CASE UNCHANGED vars
  BY <1>6 DEF vars
<1> QED
  BY <1>1, <1>2, <1>3, <1>4, <1>5, <1>6, NextShaped DEF Shaped

\* The indices that `$eval`, a trampoline and tail_base hold name the frames they
\* named when they were taken: no step pops a frame under one and pushes another.
THEOREM IndicesTrue == Spec => IndicesStayTrue
<1>1. CallsInv /\ CallsInv' /\ [Next]_vars =>
        [\A i \in {j \in DOMAIN ctl \cap DOMAIN ctl' : ctl'[j].kind = ctl[j].kind} :
           \A p \in IndexedFrames(i) : stack'[p].id = stack[p].id]_vars
  <2> SUFFICES ASSUME CallsInv, CallsInv', [Next]_vars,
                      NEW i \in DOMAIN ctl \cap DOMAIN ctl', NEW p \in IndexedFrames(i)
               PROVE  stack'[p].id = stack[p].id
    OBVIOUS
  <2>1. DOMAIN ctl = 1 .. Len(ctl) /\ DOMAIN ctl' = 1 .. Len(ctl')
    BY DEF CallsInv, IInv, CtlOK, Stacked
  <2> QED
    BY <2>1, IndexedKept DEF CallsInv
<1> QED
  BY <1>1, ReferencesHeld, PTL DEF Spec, IndicesStayTrue
================================================================================
