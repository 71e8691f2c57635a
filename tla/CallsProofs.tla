------------------------------ MODULE CallsProofs ------------------------------
(***************************************************************************)
(* Theorems about Calls, for every set of names, functions and forms and   *)
(* every bound: types, the shape of the stack, lexical scoping, and what   *)
(* an evaluation leaves behind.                                            *)
(***************************************************************************)
EXTENDS Calls, ScopeStackProofs, FiniteSetTheorems, SequenceTheorems

(***************************************************************************)
(* The inductive invariant.  Its parts take the state as parameters, since *)
(* a step is proved from the stack, heap and activations it settles on.    *)
(***************************************************************************)
HeapOK(h, s, n) ==
  /\ h \in [Fns -> Closure]
  /\ \A f \in Fns : /\ h[f].kind = "first" => h[f].f \in Value
                    /\ h[f].kind = "comp" => h[f].thunk
                    /\ ~ h[f].foreign => /\ OnePath(s, h[f].chain)
                                         /\ ChainBefore(h[f].chain, n)

\* What an activation of its kind has pushed and saved.
ActOK(act) ==
  /\ act \in Activation /\ act.height >= 1
  /\ act.kind \in {"evaluate", "block", "merge", "call", "args", "hof", "first"} => act.frames = 1
  /\ act.kind = "evaluate" => act.height = 1 /\ act.saved[1] = 1
  /\ act.kind = "tramp" => act.frames >= 1 /\ act.fn = Data /\ act.arg = Data
  /\ act.kind = "tail" => act.frames = 0
  /\ act.kind = "eval" => \/ act.frames = 0 /\ act.saved[1] = 0
                          \/ /\ act.frames = 1 /\ act.saved[1] \in 1 .. act.height
                             /\ act.saved[1] = Root => act.saved[2] = 1

\* The activation `act` may have been started by `by`.
StartedBy(act, by) ==
  /\ act.height = by.height + by.frames
  /\ act.kind = "tail" => by.kind = "tramp"
  /\ act.kind = "hof" => by.kind = "tail"
  /\ by.kind = "hof" => act.frames >= 1

\* The activations c lie one upon the other, up to a stack of `len` frames.
Stacked(c, len) ==
  /\ c \in Seq(Activation) /\ len \in Nat \ {0}
  /\ \A i \in 1 .. Len(c) :
       /\ ActOK(c[i])
       /\ c[i].kind = "evaluate" <=> i = 1
  /\ \A i \in 1 .. Len(c) - 1 : StartedBy(c[i + 1], c[i])
  /\ c # <<>> => len >= c[Len(c)].height + c[Len(c)].frames

\* While no error unwinds, the stack has just the frames they have pushed.
Exact(c, len) == c # <<>> => len = c[Len(c)].height + c[Len(c)].frames

CtlOK(c, len, m) ==
  /\ Stacked(c, len)
  /\ m \in {"idle", "run", "err"}
  /\ m = "idle" <=> c = <<>>
  /\ m = "idle" => len = 1
  /\ m = "run" => Exact(c, len)

\* No activation of the kind from i to j.
None(c, kind, i, j) == \A k \in i .. j : c[k].kind # kind

\* A trampoline was entered from the frame on top, or, for a callback that a
\* builtin in tail position applies, from where the builtin's was entered from.
BaseAt(c, i) == IF c[i - 1].kind = "hof" THEN c[i].saved[1] ELSE c[i].height

\* What tail_base is above the first n activations of c.
TailBaseIs(c, n, tb) ==
  /\ None(c, "tramp", 1, n) => tb = Root
  /\ \A i \in 1 .. n :
       c[i].kind = "tramp" /\ None(c, "tramp", i + 1, n) => tb = BaseAt(c, i)

\* And callback_base.  A builtin in tail position lies on its trampoline's body,
\* and that on the trampoline.
CallbackAt(c, i) == <<BaseAt(c, i - 2), c[i].height + 1>>

CallbackBaseIs(c, n, cb) ==
  /\ None(c, "hof", 1, n) => cb = <<0, 0>>
  /\ \A i \in 1 .. n :
       c[i].kind = "hof" /\ None(c, "hof", i + 1, n) => cb = CallbackAt(c, i)

\* An activation restores the base that held when it started.
SavesBases(c, i) ==
  /\ c[i].kind = "tramp" =>
       /\ i > 1 /\ BaseAt(c, i) \in 2 .. c[i].height
       /\ c[i].saved[1] \in Nat \ {0} /\ TailBaseIs(c, i - 1, c[i].saved[1])
  /\ c[i].kind = "hof" =>
       /\ i > 3
       /\ c[i].saved \in Nat \X Nat /\ CallbackBaseIs(c, i - 1, c[i].saved)

BasesOK(c, tb, cb) ==
  /\ tb \in Nat \ {0} /\ TailBaseIs(c, Len(c), tb)
  /\ cb \in Nat \X Nat /\ CallbackBaseIs(c, Len(c), cb)
  /\ \A i \in 1 .. Len(c) : SavesBases(c, i)

IInv ==
  /\ StackOK(stack, nextId)
  /\ HeapOK(heap, stack, nextId)
  /\ outer \in [Ids -> Nat]
  /\ hand \in Value
  /\ CtlOK(ctl, Len(stack), mode)
  /\ BasesOK(ctl, tailBase, callbackBase)
-----------------------------------------------------------------------------
(***************************************************************************)
(* What a step settles on has the invariant's parts.                       *)
(***************************************************************************)
LEMMA FreeSlotOK == FreeSlot \in Closure
BY DEF FreeSlot, Closure, NoBindings, Bindings

LEMMA SettleOK ==
  ASSUME NEW s, NEW h, NEW o, NEW c, NEW v, Settle(s, h, o, c, v),
         StackOK(s, nextId'), HeapOK(h, s, nextId'), o \in [Ids -> Nat], v \in Value,
         CtlOK(c, Len(s), mode'), BasesOK(c, tailBase', callbackBase')
  PROVE  IInv'
<1> DEFINE live == Live(s, h, o, Held(c, v))
<1>1. /\ stack' = s /\ ctl' = c /\ hand' = v
      /\ heap' = [f \in Fns |-> IF f \in live THEN h[f] ELSE FreeSlot]
      /\ outer' = [t \in Ids |-> IF t \in live THEN o[t] ELSE 0]
  BY DEF Settle
<1> HIDE DEF live
<1>2. HeapOK(heap', s, nextId')
  <2>1. heap' \in [Fns -> Closure]
    BY <1>1, FreeSlotOK DEF HeapOK
  <2>2. OnePath(s, {}) /\ ChainBefore({}, nextId')
    BY NoChain
  <2>3. ASSUME NEW f \in Fns
        PROVE  /\ heap'[f].kind = "first" => heap'[f].f \in Value
               /\ heap'[f].kind = "comp" => heap'[f].thunk
               /\ ~ heap'[f].foreign => /\ OnePath(s, heap'[f].chain)
                                        /\ ChainBefore(heap'[f].chain, nextId')
    <3>1. CASE f \in live
      <4>1. heap'[f] = h[f]
        BY <1>1, <3>1
      <4> QED
        BY <4>1 DEF HeapOK
    <3>2. CASE f \notin live
      <4>1. heap'[f] = FreeSlot
        BY <1>1, <3>2
      <4>2. FreeSlot.kind = "free" /\ FreeSlot.chain = {}
        BY DEF FreeSlot
      <4> QED
        BY <2>2, <4>1, <4>2
    <3> QED
      BY <3>1, <3>2
  <2> QED
    BY <2>1, <2>3 DEF HeapOK
<1>3. outer' \in [Ids -> Nat]
  BY <1>1
<1> QED
  BY <1>1, <1>2, <1>3 DEF IInv
-----------------------------------------------------------------------------
(***************************************************************************)
(* The stack and the heap together.                                        *)
(***************************************************************************)
LEMMA CutBoth ==
  ASSUME NEW s, NEW n, NEW h, StackOK(s, n), HeapOK(h, s, n), NEW k \in 1 .. Len(s)
  PROVE  StackOK(Cut(s, k), n) /\ HeapOK(h, Cut(s, k), n) /\ Len(Cut(s, k)) = k
<1>1. StackOK(Cut(s, k), n) /\ Len(Cut(s, k)) = k
  <2>1. s \in Seq(Frame) /\ k \in 0 .. Len(s)
    BY DEF StackOK
  <2>2. Len(Cut(s, k)) = k
    BY <2>1, CutFrames
  <2> QED
    BY <2>2, CutOK
<1>2. \A f \in Fns : ~ h[f].foreign => OnePath(Cut(s, k), h[f].chain)
  BY CutOnePath DEF HeapOK
<1> QED
  BY <1>1, <1>2 DEF HeapOK

LEMMA PushBoth ==
  ASSUME NEW s, NEW n, NEW h, StackOK(s, n), HeapOK(h, s, n),
         NEW f \in Frame, f.id = n,
         NEW at \in 1 .. Len(s), f.barrier \in {0, at},
         f.barrier = 0 => at = Len(s), f.home = Sees(s, at),
         f.internal /\ ~ f.opaque => at > Root
  PROVE  /\ StackOK(Append(s, f), n + 1) /\ HeapOK(h, Append(s, f), n + 1)
         /\ Len(Append(s, f)) = Len(s) + 1
<1>1. StackOK(Append(s, f), n + 1)
  BY PushOK
<1>2. \A g \in Fns : ~ h[g].foreign => OnePath(Append(s, f), h[g].chain)
  BY PushOnePath DEF HeapOK
<1>3. \A g \in Fns : ~ h[g].foreign => ChainBefore(h[g].chain, n + 1)
  <2> TAKE g \in Fns
  <2>1. ASSUME ~ h[g].foreign, NEW pair \in h[g].chain
        PROVE  pair[2] < n + 1
    <3>1. pair \in Nat \X Nat
      BY DEF HeapOK, Closure
    <3>2. pair[2] < n
      BY <2>1 DEF HeapOK, ChainBefore
    <3> QED
      BY <3>1, <3>2 DEF StackOK
  <2> QED
    BY <2>1 DEF ChainBefore
<1> QED
  BY <1>1, <1>2, <1>3 DEF HeapOK, StackOK

\* The frame on top cleared for what runs in it next.
OnTop(s, f) == [s EXCEPT ![Top(s)] = f]

LEMMA ClearBoth ==
  ASSUME NEW s, NEW n, NEW h, StackOK(s, n), HeapOK(h, s, n), NEW top, top = Len(s), top > Root,
         NEW f \in Frame, f.id = n, f.barrier = s[top].barrier, f.home = s[top].home,
         f.internal = s[top].internal, f.opaque = s[top].opaque
  PROVE  /\ StackOK(OnTop(s, f), n + 1) /\ HeapOK(h, OnTop(s, f), n + 1)
         /\ Len(OnTop(s, f)) = top
<1> DEFINE t == Cut(s, top - 1)
           u == OnTop(s, f)
<1>1. top \in Nat /\ top - 1 \in 1 .. Len(s) /\ s \in Seq(Frame)
  BY DEF StackOK, Root
<1>2. StackOK(t, n) /\ HeapOK(h, t, n) /\ Len(t) = top - 1
  BY <1>1, CutBoth
<1>3. u = Append(t, f)
  BY ClearIsPush DEF OnTop, Top
<1>4. PICK at \in 1 .. top - 1 :
        /\ f.barrier \in {0, at} /\ (f.barrier = 0 => at = top - 1)
        /\ f.home = Sees(t, at)
        /\ f.internal /\ ~ f.opaque => at > Root
  BY ClearIsPush
<1> HIDE DEF t, u
<1>5. /\ StackOK(Append(t, f), n + 1) /\ HeapOK(h, Append(t, f), n + 1)
      /\ Len(Append(t, f)) = Len(t) + 1
  BY <1>2, <1>4, PushBoth
<1>6. Len(Append(t, f)) = top
  BY <1>1, <1>2, <1>5
<1> QED
  BY <1>3, <1>5, <1>6 DEF u

LEMMA SameBoth ==
  ASSUME NEW s, NEW n, NEW h, StackOK(s, n), HeapOK(h, s, n),
         NEW t \in Seq(Frame), SameFrames(s, t)
  PROVE  StackOK(t, n) /\ HeapOK(h, t, n) /\ Len(t) = Len(s)
<1>1. StackOK(t, n) /\ \A chain : OnePath(s, chain) => OnePath(t, chain)
  BY SameOK
<1> QED
  BY <1>1 DEF HeapOK, SameFrames

\* A frame whose bindings change.
LEMMA BindFrames ==
  ASSUME NEW s \in Seq(Frame), NEW p \in 1 .. Len(s), NEW b \in Bindings
  PROVE  /\ [s EXCEPT ![p].bind = b] \in Seq(Frame)
         /\ SameFrames(s, [s EXCEPT ![p].bind = b])
<1>1. s[p] \in Frame
  BY FrameAt
<1>2. [s[p] EXCEPT !.bind = b] \in Frame
  BY <1>1 DEF Frame
<1>3. [s EXCEPT ![p].bind = b] = [s EXCEPT ![p] = [s[p] EXCEPT !.bind = b]]
  OBVIOUS
<1>4. [s EXCEPT ![p] = [s[p] EXCEPT !.bind = b]] \in Seq(Frame)
  BY <1>2
<1>5. [s[p] EXCEPT !.bind = b].id = s[p].id /\ [s[p] EXCEPT !.bind = b].home = s[p].home
      /\ [s[p] EXCEPT !.bind = b].barrier = s[p].barrier
      /\ [s[p] EXCEPT !.bind = b].internal = s[p].internal
      /\ [s[p] EXCEPT !.bind = b].opaque = s[p].opaque
  BY <1>1 DEF Frame
<1> QED
  BY <1>2, <1>3, <1>4, <1>5 DEF SameFrames
-----------------------------------------------------------------------------
(***************************************************************************)
(* The activations: one more, one less, one changed.                       *)
(***************************************************************************)
LEMMA ActAt ==
  ASSUME NEW c \in Seq(Activation), NEW i \in 1 .. Len(c)
  PROVE  /\ c[i] \in Activation /\ c[i].height \in Nat /\ c[i].frames \in Nat
         /\ c[i].saved \in Nat \X Nat /\ c[i].saved[1] \in Nat /\ c[i].saved[2] \in Nat
<1>1. c[i] \in Activation
  OBVIOUS
<1>2. c[i].height \in Nat /\ c[i].frames \in Nat /\ c[i].saved \in Nat \X Nat
  BY <1>1 DEF Activation
<1> QED
  BY <1>1, <1>2

LEMMA PushStacked ==
  ASSUME NEW c, NEW len, Stacked(c, len), c # <<>>, NEW act, ActOK(act),
         act.kind # "evaluate", StartedBy(act, c[Len(c)])
  PROVE  Stacked(Append(c, act), act.height + act.frames)
<1> DEFINE d == Append(c, act)
           n == Len(c)
<1>1. /\ c \in Seq(Activation) /\ act \in Activation /\ n \in Nat \ {0}
      /\ act.height \in Nat \ {0} /\ act.frames \in Nat
  BY DEF Stacked, ActOK, Activation
<1>2. /\ d \in Seq(Activation) /\ Len(d) = n + 1 /\ d[n + 1] = act
      /\ \A i \in 1 .. n : d[i] = c[i]
  BY <1>1
<1>3. ASSUME NEW i \in 1 .. n + 1
      PROVE  ActOK(d[i]) /\ (d[i].kind = "evaluate" <=> i = 1)
  <2>1. CASE i = n + 1
    BY <1>1, <1>2, <2>1
  <2>2. CASE i # n + 1
    <3>1. i \in 1 .. n /\ d[i] = c[i]
      BY <1>1, <1>2, <2>2
    <3> QED
      BY <3>1 DEF Stacked
  <2> QED
    BY <2>1, <2>2
<1>4. ASSUME NEW i \in 1 .. n
      PROVE  StartedBy(d[i + 1], d[i])
  <2>1. CASE i = n
    BY <1>1, <1>2, <2>1
  <2>2. CASE i # n
    <3>1. i \in 1 .. n - 1 /\ i + 1 \in 1 .. n
      BY <1>1, <2>2
    <3> QED
      BY <1>2, <3>1 DEF Stacked
  <2> QED
    BY <2>1, <2>2
<1>5. act.height + act.frames \in Nat \ {0}
  BY <1>1
<1>6. 1 .. Len(d) = 1 .. n + 1 /\ 1 .. Len(d) - 1 = 1 .. n /\ d[Len(d)] = act
  BY <1>1, <1>2
<1> HIDE DEF d
<1> QED
  BY <1>1, <1>2, <1>3, <1>4, <1>5, <1>6 DEF Stacked

LEMMA PopStacked ==
  ASSUME NEW c, NEW len, Stacked(c, len), Len(c) > 1,
         NEW m \in Nat, m >= c[Len(c)].height
  PROVE  /\ Stacked(SubSeq(c, 1, Len(c) - 1), m)
         /\ SubSeq(c, 1, Len(c) - 1) # <<>>
         /\ m = c[Len(c)].height => Exact(SubSeq(c, 1, Len(c) - 1), m)
<1> DEFINE n == Len(c) - 1
           d == SubSeq(c, 1, n)
<1>1. /\ c \in Seq(Activation) /\ n \in Nat \ {0} /\ Len(c) = n + 1
  BY DEF Stacked
<1>2. /\ d \in Seq(Activation) /\ Len(d) = n
      /\ \A i \in 1 .. n : d[i] = c[i]
  BY <1>1
<1>3. ASSUME NEW i \in 1 .. n
      PROVE  ActOK(d[i]) /\ (d[i].kind = "evaluate" <=> i = 1)
  <2>1. i \in 1 .. Len(c) /\ d[i] = c[i]
    BY <1>1, <1>2
  <2> QED
    BY <2>1 DEF Stacked
<1>4. ASSUME NEW i \in 1 .. n - 1
      PROVE  StartedBy(d[i + 1], d[i])
  <2>1. i \in 1 .. Len(c) - 1 /\ i \in 1 .. n /\ i + 1 \in 1 .. n
    BY <1>1
  <2> QED
    BY <1>2, <2>1 DEF Stacked
<1>5. c[n + 1].height = d[n].height + d[n].frames /\ c[n + 1].height \in Nat \ {0}
  <2>1. n \in 1 .. Len(c) - 1 /\ n \in 1 .. n /\ n + 1 \in 1 .. Len(c)
    BY <1>1
  <2>2. StartedBy(c[n + 1], c[n]) /\ ActOK(c[n + 1])
    BY <2>1 DEF Stacked
  <2> QED
    BY <1>2, <2>1, <2>2 DEF ActOK, Activation, StartedBy
<1>6. m \in Nat \ {0}
  BY <1>1, <1>5
<1> HIDE DEF d
<1>9. d # <<>>
  BY <1>1, <1>2
<1>7. Stacked(d, m)
  BY <1>1, <1>2, <1>3, <1>4, <1>5, <1>6 DEF Stacked
<1>8. m = c[Len(c)].height => Exact(d, m)
  BY <1>1, <1>2, <1>5 DEF Exact
<1> QED
  BY <1>7, <1>8, <1>9 DEF d

\* The frames of activations further out lie below those of activations further in.
LEMMA HeightsGrow ==
  ASSUME NEW c, NEW len, Stacked(c, len), NEW i \in 1 .. Len(c), NEW j \in i + 1 .. Len(c)
  PROVE  c[i].height + c[i].frames <= c[j].height
<1> DEFINE low == c[i].height + c[i].frames
           Bad == {k \in i + 1 .. Len(c) : c[k].height < low}
<1>1. c \in Seq(Activation) /\ Len(c) \in Nat
  BY DEF Stacked
<1>2. \A k \in 1 .. Len(c) : c[k].height \in Nat /\ c[k].frames \in Nat
  BY <1>1, ActAt
<1>3. low \in Nat
  BY <1>2
<1> HIDE DEF low
<1>4. SUFFICES ASSUME Bad # {} PROVE FALSE
  BY <1>1, <1>2, <1>3 DEF low
<1>5. Bad \in SUBSET Nat
  BY <1>1
<1>6. PICK k \in Bad : \A y \in Bad : k <= y
  <2> HIDE DEF Bad
  <2> QED
    BY <1>4, <1>5, LeastExists
<1>7. /\ k \in 1 .. Len(c) /\ k - 1 \in 1 .. Len(c) /\ k - 1 \in 1 .. Len(c) - 1
      /\ c[k].height < low /\ (k - 1) + 1 = k
  BY <1>1, <1>6
<1>8. c[k].height = c[k - 1].height + c[k - 1].frames
  BY <1>7 DEF Stacked, StartedBy
<1>9. CASE k - 1 = i
  BY <1>2, <1>7, <1>8, <1>9 DEF low
<1>10. CASE k - 1 # i
  <2>1. k - 1 \in i + 1 .. Len(c)
    BY <1>6, <1>7, <1>10
  <2>2. k - 1 \notin Bad
    BY <1>6, <1>7
  <2> QED
    BY <1>2, <1>3, <1>7, <1>8, <2>1, <2>2
<1> QED
  BY <1>9, <1>10

\* Activations with the same kinds, heights and saved values have the same bases.
SameActs(c, d, n) ==
  \A i \in 1 .. n : /\ d[i].kind = c[i].kind /\ d[i].height = c[i].height
                    /\ d[i].saved = c[i].saved

LEMMA BasesAgree ==
  ASSUME NEW c, NEW d, NEW n \in Nat, SameActs(c, d, n), \A i \in 1 .. n : SavesBases(c, i)
  PROVE  /\ \A tb : TailBaseIs(c, n, tb) => TailBaseIs(d, n, tb)
         /\ \A cb : CallbackBaseIs(c, n, cb) => CallbackBaseIs(d, n, cb)
         /\ \A i \in 1 .. n : SavesBases(d, i)
<1>1. ASSUME NEW kind, NEW i \in Nat \ {0}, NEW j \in 0 .. n
      PROVE  None(d, kind, i, j) <=> None(c, kind, i, j)
  <2>1. \A k \in i .. j : k \in 1 .. n
    OBVIOUS
  <2> QED
    BY <2>1 DEF None, SameActs
<1>2. ASSUME NEW i \in 2 .. n PROVE BaseAt(d, i) = BaseAt(c, i)
  <2>1. i \in 1 .. n /\ i - 1 \in 1 .. n
    OBVIOUS
  <2> QED
    BY <2>1 DEF BaseAt, SameActs
<1>3. ASSUME NEW m \in 0 .. n, NEW tb, TailBaseIs(c, m, tb) PROVE TailBaseIs(d, m, tb)
  <2>1. None(d, "tramp", 1, m) => tb = Root
    BY <1>1, <1>3 DEF TailBaseIs
  <2>2. ASSUME NEW i \in 1 .. m, d[i].kind = "tramp", None(d, "tramp", i + 1, m)
        PROVE  tb = BaseAt(d, i)
    <3>1. i \in 1 .. n /\ i + 1 \in Nat \ {0}
      OBVIOUS
    <3>2. c[i].kind = "tramp" /\ None(c, "tramp", i + 1, m)
      BY <1>1, <2>2, <3>1 DEF SameActs
    <3>3. i \in 2 .. n
      BY <3>1, <3>2 DEF SavesBases
    <3> QED
      BY <1>2, <1>3, <3>2, <3>3 DEF TailBaseIs
  <2> QED
    BY <2>1, <2>2 DEF TailBaseIs
<1>4. ASSUME NEW m \in 0 .. n, NEW cb, CallbackBaseIs(c, m, cb) PROVE CallbackBaseIs(d, m, cb)
  <2>1. None(d, "hof", 1, m) => cb = <<0, 0>>
    BY <1>1, <1>4 DEF CallbackBaseIs
  <2>2. ASSUME NEW i \in 1 .. m, d[i].kind = "hof", None(d, "hof", i + 1, m)
        PROVE  cb = CallbackAt(d, i)
    <3>1. i \in 1 .. n /\ i + 1 \in Nat \ {0}
      OBVIOUS
    <3>2. c[i].kind = "hof" /\ None(c, "hof", i + 1, m) /\ d[i].height = c[i].height
      BY <1>1, <2>2, <3>1 DEF SameActs
    <3>3. i > 3
      BY <3>1, <3>2 DEF SavesBases
    <3>4. BaseAt(d, i - 2) = BaseAt(c, i - 2)
      BY <1>2, <3>1, <3>3
    <3>5. cb = CallbackAt(c, i)
      BY <1>4, <3>2 DEF CallbackBaseIs
    <3> QED
      BY <3>2, <3>4, <3>5 DEF CallbackAt
  <2> QED
    BY <2>1, <2>2 DEF CallbackBaseIs
<1>5. ASSUME NEW i \in 1 .. n PROVE SavesBases(d, i)
  <2>1. /\ d[i].kind = c[i].kind /\ d[i].height = c[i].height /\ d[i].saved = c[i].saved
        /\ SavesBases(c, i) /\ i - 1 \in 0 .. n
    BY DEF SameActs
  <2>2. ASSUME c[i].kind = "tramp"
        PROVE  BaseAt(d, i) = BaseAt(c, i) /\ TailBaseIs(d, i - 1, d[i].saved[1])
    <3>1. i \in 2 .. n /\ TailBaseIs(c, i - 1, c[i].saved[1])
      BY <2>1, <2>2 DEF SavesBases
    <3> QED
      BY <1>2, <1>3, <2>1, <3>1
  <2>3. ASSUME c[i].kind = "hof" PROVE CallbackBaseIs(d, i - 1, d[i].saved)
    <3>1. CallbackBaseIs(c, i - 1, c[i].saved)
      BY <2>1, <2>3 DEF SavesBases
    <3> QED
      BY <1>4, <2>1, <3>1
  <2> QED
    BY <2>1, <2>2, <2>3 DEF SavesBases
<1>6. n \in 0 .. n
  OBVIOUS
<1> QED
  BY <1>3, <1>4, <1>5, <1>6

LEMMA SameBases ==
  ASSUME NEW c, NEW d, NEW tb, NEW cb, BasesOK(c, tb, cb), Len(d) = Len(c),
         SameActs(c, d, Len(c)), Len(c) \in Nat
  PROVE  BasesOK(d, tb, cb)
BY BasesAgree DEF BasesOK

\* The bases above an activation, by its kind.
LEMMA NextBase ==
  ASSUME NEW c, NEW n \in Nat
  PROVE  /\ c[n + 1].kind # "tramp" =>
              \A tb : TailBaseIs(c, n, tb) <=> TailBaseIs(c, n + 1, tb)
         /\ c[n + 1].kind = "tramp" => TailBaseIs(c, n + 1, BaseAt(c, n + 1))
         /\ c[n + 1].kind # "hof" =>
              \A cb : CallbackBaseIs(c, n, cb) <=> CallbackBaseIs(c, n + 1, cb)
         /\ c[n + 1].kind = "hof" => CallbackBaseIs(c, n + 1, CallbackAt(c, n + 1))
<1>1. ASSUME NEW kind, NEW i \in 1 .. n + 1
      PROVE  None(c, kind, i, n + 1) <=> None(c, kind, i, n) /\ c[n + 1].kind # kind
  <2>1. i .. n + 1 = (i .. n) \cup {n + 1}
    OBVIOUS
  <2> QED
    BY <2>1 DEF None
<1>2. 1 .. n + 1 = (1 .. n) \cup {n + 1} /\ 1 \in 1 .. n + 1
      /\ \A i \in 1 .. n : i + 1 \in 1 .. n + 1
  OBVIOUS
<1>3. \A kind : None(c, kind, (n + 1) + 1, n + 1)
  BY DEF None
<1>4. ASSUME c[n + 1].kind # "tramp", NEW tb
      PROVE  TailBaseIs(c, n, tb) <=> TailBaseIs(c, n + 1, tb)
  BY <1>1, <1>2, <1>4 DEF TailBaseIs
<1>5. ASSUME c[n + 1].kind = "tramp"
      PROVE  TailBaseIs(c, n + 1, BaseAt(c, n + 1))
  BY <1>1, <1>2, <1>5 DEF TailBaseIs
<1>6. ASSUME c[n + 1].kind # "hof", NEW cb
      PROVE  CallbackBaseIs(c, n, cb) <=> CallbackBaseIs(c, n + 1, cb)
  BY <1>1, <1>2, <1>6 DEF CallbackBaseIs
<1>7. ASSUME c[n + 1].kind = "hof"
      PROVE  CallbackBaseIs(c, n + 1, CallbackAt(c, n + 1))
  BY <1>1, <1>2, <1>7 DEF CallbackBaseIs
<1> QED
  BY <1>4, <1>5, <1>6, <1>7

LEMMA AppendAct ==
  ASSUME NEW c \in Seq(Activation), NEW act \in Activation
  PROVE  /\ Len(c) \in Nat /\ Len(Append(c, act)) = Len(c) + 1
         /\ Append(c, act)[Len(c) + 1] = act /\ SameActs(c, Append(c, act), Len(c))
         /\ Append(c, act) \in Seq(Activation) /\ Append(c, act) # <<>>
         /\ \A i \in 1 .. Len(c) : Append(c, act)[i] = c[i]
BY DEF SameActs

\* Pushing an activation that changes neither base.
LEMMA PushBases ==
  ASSUME NEW c, NEW tb, NEW cb, BasesOK(c, tb, cb), c \in Seq(Activation),
         NEW act \in Activation, act.kind \notin {"tramp", "hof"}
  PROVE  BasesOK(Append(c, act), tb, cb)
<1> DEFINE d == Append(c, act)
           n == Len(c)
<1>1. n \in Nat /\ Len(d) = n + 1 /\ d[n + 1] = act /\ SameActs(c, d, n)
  BY AppendAct
<1> HIDE DEF d
<1>2. /\ TailBaseIs(d, n, tb) /\ CallbackBaseIs(d, n, cb)
      /\ \A i \in 1 .. n : SavesBases(d, i)
  BY <1>1, BasesAgree DEF BasesOK
<1>3. TailBaseIs(d, n + 1, tb) /\ CallbackBaseIs(d, n + 1, cb)
  BY <1>1, <1>2, NextBase
<1>4. SavesBases(d, n + 1)
  BY <1>1 DEF SavesBases
<1>5. 1 .. Len(d) = (1 .. n) \cup {n + 1}
  BY <1>1
<1> QED
  BY <1>1, <1>2, <1>3, <1>4, <1>5 DEF BasesOK, d

\* A trampoline saves the base it replaces.
LEMMA PushTrampBases ==
  ASSUME NEW c, NEW tb, NEW cb, BasesOK(c, tb, cb), c \in Seq(Activation), c # <<>>,
         NEW act \in Activation, act.kind = "tramp", act.saved[1] = tb,
         NEW base \in 2 .. act.height,
         base = IF c[Len(c)].kind = "hof" THEN tb ELSE act.height
  PROVE  BasesOK(Append(c, act), base, cb)
<1> DEFINE d == Append(c, act)
           n == Len(c)
<1>1. /\ n \in Nat /\ Len(d) = n + 1 /\ d[n + 1] = act /\ SameActs(c, d, n)
      /\ d[n] = c[n] /\ n > 0
  <2>1. n > 0 /\ n \in 1 .. n
    OBVIOUS
  <2> QED
    BY <2>1, AppendAct
<1> HIDE DEF d
<1>2. /\ TailBaseIs(d, n, tb) /\ CallbackBaseIs(d, n, cb)
      /\ \A i \in 1 .. n : SavesBases(d, i)
  BY <1>1, BasesAgree DEF BasesOK
<1>3. BaseAt(d, n + 1) = base
  <2>1. (n + 1) - 1 = n
    BY <1>1
  <2> QED
    BY <1>1, <2>1 DEF BaseAt
<1>4. TailBaseIs(d, n + 1, base) /\ CallbackBaseIs(d, n + 1, cb)
  BY <1>1, <1>2, <1>3, NextBase
<1>5. SavesBases(d, n + 1)
  <2>1. (n + 1) - 1 = n /\ n + 1 > 1 /\ tb \in Nat \ {0}
    BY <1>1 DEF BasesOK
  <2> QED
    BY <1>1, <1>2, <1>3, <2>1 DEF SavesBases
<1>6. 1 .. Len(d) = (1 .. n) \cup {n + 1} /\ base \in Nat \ {0}
  BY <1>1 DEF Activation
<1> QED
  BY <1>1, <1>2, <1>4, <1>5, <1>6 DEF BasesOK, d

\* A builtin in tail position saves the callback base it replaces.
LEMMA PushHofBases ==
  ASSUME NEW c, NEW tb, NEW cb, BasesOK(c, tb, cb), c \in Seq(Activation), Len(c) > 2,
         NEW act \in Activation, act.kind = "hof", act.saved = cb,
         NEW base \in Nat \X Nat, base = <<BaseAt(c, Len(c) - 1), act.height + 1>>
  PROVE  BasesOK(Append(c, act), tb, base)
<1> DEFINE d == Append(c, act)
           n == Len(c)
<1>1. n \in Nat /\ Len(d) = n + 1 /\ d[n + 1] = act /\ SameActs(c, d, n) /\ n > 2
  BY AppendAct
<1> HIDE DEF d
<1>2. /\ TailBaseIs(d, n, tb) /\ CallbackBaseIs(d, n, cb)
      /\ \A i \in 1 .. n : SavesBases(d, i)
  BY <1>1, BasesAgree DEF BasesOK
<1>3. CallbackAt(d, n + 1) = base
  <2>1. /\ (n + 1) - 2 = n - 1 /\ n - 1 \in 1 .. n /\ (n - 1) - 1 \in 1 .. n
    BY <1>1
  <2>2. BaseAt(d, n - 1) = BaseAt(c, n - 1)
    BY <1>1, <2>1 DEF BaseAt, SameActs
  <2> QED
    BY <1>1, <2>1, <2>2 DEF CallbackAt
<1>4. TailBaseIs(d, n + 1, tb) /\ CallbackBaseIs(d, n + 1, base)
  BY <1>1, <1>2, <1>3, NextBase
<1>5. SavesBases(d, n + 1)
  <2>1. (n + 1) - 1 = n /\ n + 1 > 3 /\ cb \in Nat \X Nat
    BY <1>1 DEF BasesOK
  <2> QED
    BY <1>1, <1>2, <2>1 DEF SavesBases
<1>6. 1 .. Len(d) = (1 .. n) \cup {n + 1} /\ tb \in Nat \ {0}
  BY <1>1 DEF BasesOK
<1> QED
  BY <1>1, <1>2, <1>4, <1>5, <1>6 DEF BasesOK, d

\* What the two bases are once the innermost activation is over.
RestoredTail(c, tb)     == IF c[Len(c)].kind = "tramp" THEN c[Len(c)].saved[1] ELSE tb
RestoredCallback(c, cb) == IF c[Len(c)].kind = "hof" THEN c[Len(c)].saved ELSE cb

LEMMA PopBases ==
  ASSUME NEW c, NEW tb, NEW cb, BasesOK(c, tb, cb), c \in Seq(Activation), c # <<>>
  PROVE  BasesOK(SubSeq(c, 1, Len(c) - 1), RestoredTail(c, tb), RestoredCallback(c, cb))
<1> DEFINE n == Len(c) - 1
           d == SubSeq(c, 1, n)
           rt == RestoredTail(c, tb)
           rc == RestoredCallback(c, cb)
<1>1. /\ n \in Nat /\ Len(c) = n + 1 /\ Len(d) = n
      /\ \A i \in 1 .. n : d[i] = c[i]
  <2>1. Len(c) \in Nat \ {0}
    OBVIOUS
  <2>2. n \in Nat /\ Len(c) = n + 1
    BY <2>1
  <2> QED
    BY <2>2
<1>2. SameActs(c, d, n)
  BY <1>1 DEF SameActs
<1> HIDE DEF d
<1>3. /\ TailBaseIs(c, n + 1, tb) /\ CallbackBaseIs(c, n + 1, cb)
      /\ SavesBases(c, n + 1) /\ \A i \in 1 .. n : SavesBases(c, i)
      /\ tb \in Nat \ {0} /\ cb \in Nat \X Nat /\ (n + 1) - 1 = n
  BY <1>1 DEF BasesOK
<1>4. TailBaseIs(c, n, rt) /\ rt \in Nat \ {0}
  <2>1. CASE c[n + 1].kind = "tramp"
    <3>1. rt = c[n + 1].saved[1]
      BY <1>1, <2>1 DEF RestoredTail
    <3> QED
      BY <1>3, <2>1, <3>1 DEF SavesBases
  <2>2. CASE c[n + 1].kind # "tramp"
    <3>1. rt = tb
      BY <1>1, <2>2 DEF RestoredTail
    <3> QED
      BY <1>1, <1>3, <2>2, <3>1, NextBase
  <2> QED
    BY <2>1, <2>2
<1>5. CallbackBaseIs(c, n, rc) /\ rc \in Nat \X Nat
  <2>1. CASE c[n + 1].kind = "hof"
    <3>1. rc = c[n + 1].saved
      BY <1>1, <2>1 DEF RestoredCallback
    <3> QED
      BY <1>3, <2>1, <3>1 DEF SavesBases
  <2>2. CASE c[n + 1].kind # "hof"
    <3>1. rc = cb
      BY <1>1, <2>2 DEF RestoredCallback
    <3> QED
      BY <1>1, <1>3, <2>2, <3>1, NextBase
  <2> QED
    BY <2>1, <2>2
<1> HIDE DEF rt, rc, n
<1>6. /\ TailBaseIs(d, n, rt) /\ CallbackBaseIs(d, n, rc)
      /\ \A i \in 1 .. n : SavesBases(d, i)
  BY <1>1, <1>2, <1>3, <1>4, <1>5, BasesAgree
<1> QED
  BY <1>1, <1>4, <1>5, <1>6 DEF BasesOK, d, rt, rc, n
-----------------------------------------------------------------------------
(***************************************************************************)
(* Entering calls.                                                         *)
(***************************************************************************)
\* Activations c may call from: all their frames are on the stack, and no more.
Ready(c) ==
  /\ c # <<>> /\ Stacked(c, Len(stack)) /\ Exact(c, Len(stack))
  /\ BasesOK(c, tailBase, callbackBase)

LEMMA ReadyInRun ==
  ASSUME IInv, mode = "run"
  PROVE  Ready(ctl)
BY DEF IInv, CtlOK, Ready

LEMMA StackFacts ==
  ASSUME IInv
  PROVE  /\ stack \in Seq(Frame) /\ Len(stack) \in Nat \ {0} /\ nextId \in Nat
         /\ Grounded(stack) /\ StackOK(stack, nextId) /\ HeapOK(heap, stack, nextId)
BY DEF IInv, StackOK, Grounded

LEMMA SeesType ==
  ASSUME NEW s \in Seq(Frame), NEW p \in 1 .. Len(s)
  PROVE  Sees(s, p) \in SUBSET Nat
<1>1. Path(s, p) \in SUBSET (1 .. p)
  BY DEF Path
<1>2. \A q \in Path(s, p) : s[q].id \in Nat
  BY <1>1, FrameAt
<1> QED
  BY <1>2 DEF Sees

LEMMA NewFrameOK ==
  ASSUME NEW id \in Nat, NEW barrier \in Nat, NEW home \in SUBSET Nat
  PROVE  /\ NewFrame(id, barrier, home) \in Frame
         /\ NewFrame(id, barrier, home).id = id
         /\ NewFrame(id, barrier, home).barrier = barrier
         /\ NewFrame(id, barrier, home).home = home
         /\ ~ NewFrame(id, barrier, home).internal
BY DEF NewFrame, Frame, NoBindings, Bindings

\* The frame of a call continues where its function's scope ends, and no
\* further out than the caller can have dropped.
LEMMA BarrierOK ==
  ASSUME NEW s, NEW n, NEW h, StackOK(s, n), HeapOK(h, s, n),
         NEW fn \in Fns, ~ AtCaller(h[fn])
  PROVE  /\ BarrierFor(s, h[fn]) \in 1 .. Len(s)
         /\ HomeOf(s, h[fn]) = Sees(s, BarrierFor(s, h[fn]))
<1>1. Len(s) \in Nat \ {0} /\ Root \in 1 .. Len(s)
  BY DEF StackOK, Grounded, Root
<1>2. CASE h[fn].foreign
  <2>1. BarrierFor(s, h[fn]) = Root /\ HomeOf(s, h[fn]) = {s[Root].id}
    BY <1>2 DEF BarrierFor, HomeOf
  <2>2. Path(s, Root) = {Root}
    <3>1. Path(s, Root) \in SUBSET (1 .. Root) /\ Root \in Path(s, Root)
      BY <1>1, PathClosed DEF StackOK
    <3> QED
      BY <3>1 DEF Root
  <2> QED
    BY <1>1, <2>1, <2>2 DEF Sees
<1>3. CASE ~ h[fn].foreign
  <2>1. BarrierFor(s, h[fn]) = InnermostLive(s, h[fn].chain)
    BY <1>3 DEF BarrierFor
  <2>2. OnePath(s, h[fn].chain)
    BY <1>3 DEF HeapOK
  <2>3. HomeOf(s, h[fn]) = {s[Root].id} \cup {s[p].id : p \in StillOnStack(s, h[fn].chain)}
    BY <1>3 DEF HomeOf
  <2>4. HomeOf(s, h[fn]) = Sees(s, InnermostLive(s, h[fn].chain))
    BY <1>1, <2>2, <2>3, HomeIsSeen
  <2>5. InnermostLive(s, h[fn].chain) \in 1 .. Len(s)
    BY <1>1, InnermostLiveIn
  <2> QED
    BY <2>1, <2>4, <2>5
<1> QED
  BY <1>2, <1>3

LEMMA BodyBindingsOK ==
  ASSUME IInv, NEW fn \in Fns, NEW arg \in Value
  PROVE  BodyBindings(fn, arg) \in Bindings
<1>1. heap[fn].env \in Bindings
  BY DEF IInv, HeapOK, Closure
<1>2. fn \in Value
  BY DEF Value
<1>3. CASE heap[fn].kind # "lambda"
  BY <1>3 DEF BodyBindings, NoBindings, Bindings
<1>4. CASE heap[fn].kind = "lambda"
  <2>1. BodyBindings(fn, arg) =
          [n \in Names |-> IF n = Param THEN arg
                           ELSE IF n \in heap[fn].self THEN fn ELSE heap[fn].env[n]]
    BY <1>4 DEF BodyBindings
  <2> QED
    BY <1>1, <1>2, <2>1 DEF Bindings
<1> QED
  BY <1>3, <1>4

LEMMA CallFrameOK ==
  ASSUME NEW c, NEW barrier \in Nat, NEW home \in SUBSET Nat,
         NEW bind \in Bindings, nextId \in Nat
  PROVE  /\ CallFrame(c, barrier, home, bind) \in Frame
         /\ CallFrame(c, barrier, home, bind).id = nextId
         /\ CallFrame(c, barrier, home, bind).barrier = barrier
         /\ CallFrame(c, barrier, home, bind).home = home
         /\ CallFrame(c, barrier, home, bind).internal = Internal(c)
         /\ CallFrame(c, barrier, home, bind).opaque = Opaque(c)
         /\ TailCallFrame(c, barrier, home, bind) \in Frame
         /\ TailCallFrame(c, barrier, home, bind).id = nextId
         /\ TailCallFrame(c, barrier, home, bind).barrier = barrier
         /\ TailCallFrame(c, barrier, home, bind).home = home
         /\ TailCallFrame(c, barrier, home, bind).internal = Internal(c)
         /\ TailCallFrame(c, barrier, home, bind).opaque = Opaque(c)
<1>1. Internal(c) \in BOOLEAN /\ Opaque(c) \in BOOLEAN
  BY DEF Internal, Opaque
<1>2. /\ CallFrame(c, barrier, home, bind) \in Frame
      /\ CallFrame(c, barrier, home, bind).id = nextId
      /\ CallFrame(c, barrier, home, bind).barrier = barrier
      /\ CallFrame(c, barrier, home, bind).home = home
      /\ CallFrame(c, barrier, home, bind).internal = Internal(c)
      /\ CallFrame(c, barrier, home, bind).opaque = Opaque(c)
  BY <1>1 DEF CallFrame, NewFrame, Frame
<1> QED
  BY <1>2 DEF TailCallFrame, Frame

LEMMA PushCallFrame ==
  ASSUME IInv, NEW fn \in Fns, NEW arg \in Value,
         NEW s, StackOK(s, nextId), HeapOK(heap, s, nextId),
         NEW at \in 1 .. Len(s), NEW home, home = Sees(s, at),
         AtCaller(heap[fn]) => at > Root,
         NEW f \in {CallFrame(heap[fn], at, home, BodyBindings(fn, arg)),
                   TailCallFrame(heap[fn], at, home, BodyBindings(fn, arg))}
  PROVE  /\ f \in Frame
         /\ StackOK(Append(s, f), nextId + 1) /\ HeapOK(heap, Append(s, f), nextId + 1)
         /\ Len(Append(s, f)) = Len(s) + 1
<1>1. s \in Seq(Frame) /\ nextId \in Nat /\ at \in Nat
  BY DEF StackOK
<1>2. home \in SUBSET Nat
  BY <1>1, SeesType
<1>3. BodyBindings(fn, arg) \in Bindings
  BY BodyBindingsOK
<1>4. /\ f \in Frame /\ f.id = nextId /\ f.barrier = at /\ f.home = home
      /\ f.internal = Internal(heap[fn]) /\ f.opaque = Opaque(heap[fn])
  BY <1>1, <1>2, <1>3, CallFrameOK
<1>5. f.barrier # 0 /\ (f.internal /\ ~ f.opaque => at > Root)
  BY <1>4 DEF Internal, Opaque, AtCaller
<1> QED
  BY <1>4, <1>5, PushBoth

LEMMA ActIs ==
  ASSUME IInv, NEW kind \in Kinds, NEW pushes \in Nat
  PROVE  /\ Act(kind, pushes) \in Activation
         /\ Act(kind, pushes).kind = kind /\ Act(kind, pushes).frames = pushes
         /\ Act(kind, pushes).height = Len(stack) /\ Act(kind, pushes).saved = <<0, 0>>
         /\ Act(kind, pushes).fn = Data /\ Act(kind, pushes).arg = Data
BY StackFacts DEF Act, Activation, Value

\* One with a function and an argument.
ActOn(kind, fn, arg) == [Act(kind, 1) EXCEPT !.fn = fn, !.arg = arg]

LEMMA ActOnIs ==
  ASSUME IInv, NEW kind \in Kinds, NEW fn \in Value, NEW arg \in Value
  PROVE  /\ ActOn(kind, fn, arg) \in Activation
         /\ ActOn(kind, fn, arg).kind = kind /\ ActOn(kind, fn, arg).frames = 1
         /\ ActOn(kind, fn, arg).height = Len(stack)
         /\ ActOn(kind, fn, arg).fn = fn /\ ActOn(kind, fn, arg).arg = arg
<1> DEFINE a == Act(kind, 1)
           act == ActOn(kind, fn, arg)
<1>1. a \in Activation /\ a.kind = kind /\ a.frames = 1 /\ a.height = Len(stack)
  BY ActIs
<1> HIDE DEF a
<1>2. act = [a EXCEPT !.fn = fn, !.arg = arg]
  BY DEF a, ActOn
<1> HIDE DEF act
<1>3. /\ act \in Activation /\ act.kind = kind /\ act.frames = 1
      /\ act.height = Len(stack) /\ act.fn = fn /\ act.arg = arg
  BY <1>1, <1>2 DEF Activation
<1> QED
  BY <1>3 DEF act

\* Naming what it has already changes nothing.
LEMMA ActPlain ==
  ASSUME IInv, NEW kind \in Kinds, NEW fn \in Value, NEW arg \in Value
  PROVE  /\ Act(kind, 1) = ActOn(kind, Data, Data)
         /\ [Act(kind, 1) EXCEPT !.fn = fn] = ActOn(kind, fn, Data)
         /\ [Act(kind, 1) EXCEPT !.arg = arg] = ActOn(kind, Data, arg)
<1> DEFINE a == Act(kind, 1)
<1>1. a \in Activation /\ a.fn = Data /\ a.arg = Data
  BY ActIs
<1> HIDE DEF a
<1>2. a = [a EXCEPT !.fn = Data, !.arg = Data]
  BY <1>1 DEF Activation
<1>3. [a EXCEPT !.fn = fn] = [a EXCEPT !.fn = fn, !.arg = Data]
  BY <1>1 DEF Activation
<1>4. [a EXCEPT !.arg = arg] = [a EXCEPT !.fn = Data, !.arg = arg]
  BY <1>1 DEF Activation
<1> QED
  BY <1>2, <1>3, <1>4 DEF a, ActOn

\* While anything runs, an evaluation's own frame lies above the host's.
LEMMA RunsAboveHost ==
  ASSUME NEW c, NEW len, Stacked(c, len), c # <<>>
  PROVE  len \in Nat /\ len >= 2
<1>1. c \in Seq(Activation) /\ Len(c) \in Nat \ {0} /\ len \in Nat
  BY DEF Stacked
<1>2. 1 \in 1 .. Len(c) /\ Len(c) \in 1 .. Len(c)
  BY <1>1
<1>3. c[1].height = 1 /\ c[1].frames = 1
  BY <1>2 DEF Stacked, ActOK
<1>4. len >= c[Len(c)].height + c[Len(c)].frames
  BY DEF Stacked
<1>5. c[Len(c)].height \in Nat /\ c[Len(c)].frames \in Nat
  BY <1>1, <1>2, ActAt
<1>6. CASE Len(c) = 1
  BY <1>1, <1>3, <1>4, <1>6
<1>7. CASE Len(c) # 1
  <2>1. Len(c) \in 1 + 1 .. Len(c)
    <3> DEFINE n == Len(c)
    <3>1. n \in Nat \ {0} /\ n # 1
      BY <1>1, <1>7
    <3> HIDE DEF n
    <3>2. n \in 1 + 1 .. n
      BY <3>1
    <3> QED
      BY <3>2 DEF n
  <2>2. c[1].height + c[1].frames <= c[Len(c)].height
    BY <1>2, <2>1, HeightsGrow
  <2> QED
    BY <1>1, <1>3, <1>4, <1>5, <2>2
<1> QED
  BY <1>6, <1>7

LEMMA TopAboveHost ==
  ASSUME IInv, ctl # <<>>
  PROVE  Top(stack) \in 2 .. Len(stack)
<1>1. Len(stack) \in Nat /\ Len(stack) >= 2
  BY RunsAboveHost DEF IInv, CtlOK
<1> QED
  BY <1>1 DEF Top

\* What a builtin in tail position lies on, and the bases it goes by.
LEMMA AtHof ==
  ASSUME NEW c, NEW len, Stacked(c, len), NEW tb, NEW cb, BasesOK(c, tb, cb),
         NEW j \in 1 .. Len(c), c[j].kind = "hof"
  PROVE  /\ j - 2 \in 1 .. Len(c) /\ c[j - 2].kind = "tramp" /\ c[j - 1].kind = "tail"
         /\ BaseAt(c, j - 2) \in 2 .. c[j].height
<1>1. j > 3 /\ c \in Seq(Activation) /\ Len(c) \in Nat
  BY DEF BasesOK, SavesBases, Stacked
<1>2. /\ j - 1 \in 1 .. Len(c) - 1 /\ (j - 1) + 1 = j
      /\ j - 2 \in 1 .. Len(c) - 1 /\ (j - 2) + 1 = j - 1 /\ j - 2 \in 1 .. Len(c)
  BY <1>1
<1>3. c[j - 1].kind = "tail" /\ c[j - 2].kind = "tramp"
  BY <1>2 DEF Stacked, StartedBy
<1>4. BaseAt(c, j - 2) \in 2 .. c[j - 2].height
  BY <1>2, <1>3 DEF BasesOK, SavesBases
<1>5. c[j - 2].height + c[j - 2].frames <= c[j].height
  <2>1. j \in (j - 2) + 1 .. Len(c)
    BY <1>1
  <2> QED
    BY <1>2, <2>1, HeightsGrow
<1>6. c[j - 2].height \in Nat /\ c[j - 2].frames \in Nat /\ c[j].height \in Nat
  BY <1>1, <1>2, ActAt
<1> QED
  BY <1>2, <1>3, <1>4, <1>5, <1>6

\* The innermost activation of a kind.
LEMMA InnermostOf ==
  ASSUME NEW c, Len(c) \in Nat, NEW kind, ~ None(c, kind, 1, Len(c))
  PROVE  \E i \in 1 .. Len(c) : c[i].kind = kind /\ None(c, kind, i + 1, Len(c))
<1> DEFINE S == {i \in 1 .. Len(c) : c[i].kind = kind}
<1>1. S \in SUBSET (1 .. Len(c)) /\ S # {}
  BY DEF None
<1>2. Highest(S) \in S /\ \A q \in S : q <= Highest(S)
  <2> HIDE DEF S
  <2> QED
    BY <1>1, HighestExists
<1>3. Highest(S) \in 1 .. Len(c) /\ c[Highest(S)].kind = kind
  BY <1>2
<1>4. \A k \in Highest(S) + 1 .. Len(c) : k \notin S /\ k \in 1 .. Len(c)
  BY <1>2, <1>3
<1>5. None(c, kind, Highest(S) + 1, Len(c))
  BY <1>4 DEF None
<1> QED
  BY <1>3, <1>5

\* So a callback of a builtin in tail position starts where the builtin's
\* trampoline did, and every other call from the frame on top.
LEMMA EntryBaseIs ==
  ASSUME IInv, NEW c, Ready(c)
  PROVE  /\ EntryBase = IF c[Len(c)].kind = "hof" THEN tailBase ELSE Len(stack)
         /\ EntryBase \in 2 .. Len(stack)
<1> DEFINE n == Len(c)
           len == Len(stack)
<1>1. /\ Stacked(c, len) /\ BasesOK(c, tailBase, callbackBase) /\ c # <<>>
      /\ c[n].height + c[n].frames = len
  BY DEF Ready, Exact
<1>2. len \in Nat /\ len >= 2 /\ c \in Seq(Activation) /\ n \in Nat \ {0} /\ n \in 1 .. n
  BY <1>1, RunsAboveHost DEF Stacked
<1>3. c[n].height \in Nat /\ c[n].frames \in Nat
  BY <1>2, ActAt
<1>4. CASE c[n].kind = "hof"
  <2>1. /\ n - 2 \in 1 .. n /\ c[n - 2].kind = "tramp" /\ c[n - 1].kind = "tail"
        /\ BaseAt(c, n - 2) \in 2 .. c[n].height
    BY <1>1, <1>2, <1>4, AtHof
  <2>2. tailBase = BaseAt(c, n - 2)
    <3>1. \A k \in (n - 2) + 1 .. n : k \in {n - 1, n}
      BY <1>2
    <3>2. None(c, "tramp", (n - 2) + 1, n)
      BY <1>4, <2>1, <3>1 DEF None
    <3> QED
      BY <1>1, <2>1, <3>2 DEF BasesOK, TailBaseIs
  <2>3. callbackBase = CallbackAt(c, n)
    <3>1. None(c, "hof", n + 1, n)
      BY <1>2 DEF None
    <3> QED
      BY <1>1, <1>2, <1>4, <3>1 DEF BasesOK, CallbackBaseIs
  <2>4. c[n].frames = 1
    BY <1>1, <1>2, <1>4 DEF Stacked, ActOK
  <2>5. callbackBase[1] = tailBase /\ callbackBase[2] = len
    BY <1>1, <2>2, <2>3, <2>4 DEF CallbackAt
  <2> QED
    BY <1>1, <1>2, <1>3, <1>4, <2>1, <2>2, <2>4, <2>5 DEF EntryBase
<1>5. CASE c[n].kind # "hof"
  <2>1. callbackBase[2] # len
    <3>1. CASE None(c, "hof", 1, n)
      <4>1. callbackBase = <<0, 0>>
        BY <1>1, <3>1 DEF BasesOK, CallbackBaseIs
      <4> QED
        BY <1>2, <4>1
    <3>2. CASE ~ None(c, "hof", 1, n)
      <4>1. PICK j \in 1 .. n : c[j].kind = "hof" /\ None(c, "hof", j + 1, n)
        BY <1>2, <3>2, InnermostOf
      <4>2. callbackBase = CallbackAt(c, j)
        BY <1>1, <4>1 DEF BasesOK, CallbackBaseIs
      <4>3. callbackBase[2] = c[j].height + 1
        BY <4>2 DEF CallbackAt
      <4>4. j \in 1 .. n - 1 /\ j + 1 \in 1 .. n
        BY <1>2, <1>5, <4>1
      <4>5. /\ c[j].frames = 1 /\ c[j + 1].frames >= 1
            /\ c[j + 1].height = c[j].height + c[j].frames
        BY <1>1, <4>1, <4>4 DEF Stacked, ActOK, StartedBy
      <4>6. /\ c[j].height \in Nat /\ c[j + 1].height \in Nat
            /\ c[j + 1].frames \in Nat
        BY <1>2, <4>1, <4>4, ActAt
      <4>7. c[j + 1].height + c[j + 1].frames <= len
        <5>1. CASE j + 1 = n
          BY <1>1, <1>2, <5>1
        <5>2. CASE j + 1 # n
          <6>1. n \in (j + 1) + 1 .. n
            BY <1>2, <4>4, <5>2
          <6>2. c[j + 1].height + c[j + 1].frames <= c[n].height
            BY <1>1, <4>4, <6>1, HeightsGrow
          <6> QED
            BY <1>1, <1>2, <1>3, <4>6, <6>2
        <5> QED
          BY <5>1, <5>2
      <4> QED
        BY <1>2, <4>3, <4>5, <4>6, <4>7
    <3> QED
      BY <3>1, <3>2
  <2> QED
    BY <1>2, <1>5, <2>1 DEF EntryBase
<1> QED
  BY <1>4, <1>5

\* One activation more that changes no base.
LEMMA PushReady ==
  ASSUME NEW c, Ready(c), NEW act, ActOK(act), act.kind \notin {"evaluate", "tramp", "hof"},
         act.kind = "tail" => c[Len(c)].kind = "tramp",
         act.frames = 0 => c[Len(c)].kind # "hof",
         act.height = Len(stack)
  PROVE  /\ CtlOK(Append(c, act), Len(stack) + act.frames, "run")
         /\ BasesOK(Append(c, act), tailBase, callbackBase)
<1>1. StartedBy(act, c[Len(c)])
  BY DEF Ready, Exact, StartedBy, ActOK, Activation
<1>2. Stacked(Append(c, act), Len(stack) + act.frames)
  BY <1>1, PushStacked DEF Ready
<1>3. c \in Seq(Activation) /\ act \in Activation
  BY DEF Ready, Stacked, ActOK
<1>4. BasesOK(Append(c, act), tailBase, callbackBase)
  BY <1>3, PushBases DEF Ready
<1>5. /\ Append(c, act) # <<>>
      /\ Append(c, act)[Len(Append(c, act))] = act
  BY <1>3
<1>6. Exact(Append(c, act), Len(stack) + act.frames)
  BY <1>5 DEF Exact
<1> QED
  BY <1>2, <1>4, <1>5, <1>6 DEF CtlOK

\* A trampoline that is entered from the activations c.
LEMMA PushTrampoline ==
  ASSUME IInv, NEW c, Ready(c), NEW act, ActOK(act), act.kind = "tramp", act.frames = 1,
         act.height = Len(stack), act.saved[1] = tailBase
  PROVE  /\ CtlOK(Append(c, act), Len(stack) + 1, "run")
         /\ BasesOK(Append(c, act), EntryBase, callbackBase)
<1>1. StartedBy(act, c[Len(c)])
  BY DEF Ready, Exact, StartedBy
<1>2. Stacked(Append(c, act), Len(stack) + 1)
  BY <1>1, PushStacked DEF Ready
<1>3. c \in Seq(Activation) /\ act \in Activation
  BY DEF Ready, Stacked, ActOK
<1>4. /\ EntryBase \in 2 .. act.height
      /\ EntryBase = IF c[Len(c)].kind = "hof" THEN tailBase ELSE act.height
  BY EntryBaseIs
<1>5. BasesOK(Append(c, act), EntryBase, callbackBase)
  BY <1>3, <1>4, PushTrampBases DEF Ready
<1>6. /\ Append(c, act) # <<>>
      /\ Append(c, act)[Len(Append(c, act))] = act
  BY <1>3
<1>7. Exact(Append(c, act), Len(stack) + 1)
  BY <1>6 DEF Exact
<1> QED
  BY <1>2, <1>5, <1>6, <1>7 DEF CtlOK

LEMMA CallPlainOK ==
  ASSUME IInv, mode' = "run", NEW c, Ready(c), NEW fn \in Fns, NEW arg \in Value,
         CallPlain(c, fn, arg), nextId' = nextId + 1
  PROVE  IInv'
<1> DEFINE at == BarrierFor(stack, heap[fn])
           f == CallFrame(heap[fn], at, HomeOf(stack, heap[fn]), BodyBindings(fn, arg))
           act == IF heap[fn].kind = "first"
                  THEN [Act("first", 1) EXCEPT !.fn = heap[fn].f, !.arg = arg]
                  ELSE Act("call", 1)
<1>1. ~ AtCaller(heap[fn])
  BY DEF CallPlain, AtCaller, IInv, HeapOK
<1>2. at \in 1 .. Len(stack) /\ HomeOf(stack, heap[fn]) = Sees(stack, at)
  BY <1>1, BarrierOK, StackFacts
<1>3. /\ StackOK(Append(stack, f), nextId + 1) /\ HeapOK(heap, Append(stack, f), nextId + 1)
      /\ Len(Append(stack, f)) = Len(stack) + 1
  <2>1. f = CallFrame(heap[fn], at, HomeOf(stack, heap[fn]), BodyBindings(fn, arg))
    OBVIOUS
  <2>2. StackOK(stack, nextId) /\ HeapOK(heap, stack, nextId)
    BY StackFacts
  <2> HIDE DEF at, f
  <2> QED
    BY <1>1, <1>2, <2>1, <2>2, PushCallFrame
<1>4. /\ ActOK(act) /\ act.kind \in {"first", "call"}
      /\ act.height = Len(stack) /\ act.frames = 1
  <2>1. CASE heap[fn].kind = "first"
    <3>1. heap[fn].f \in Value
      BY <2>1 DEF IInv, HeapOK
    <3>2. /\ Act("first", 1) \in Activation
          /\ Act("first", 1).kind = "first" /\ Act("first", 1).frames = 1
          /\ Act("first", 1).height = Len(stack)
      BY ActIs DEF Kinds
    <3>3. /\ act \in Activation /\ act.kind = "first" /\ act.frames = 1
          /\ act.height = Len(stack)
      BY <2>1, <3>1, <3>2 DEF Activation
    <3> QED
      BY <3>3, StackFacts DEF ActOK
  <2>2. CASE heap[fn].kind # "first"
    <3>1. /\ act \in Activation /\ act.kind = "call" /\ act.frames = 1
          /\ act.height = Len(stack)
      BY <2>2, ActIs DEF Kinds
    <3> QED
      BY <3>1, StackFacts DEF ActOK
  <2> QED
    BY <2>1, <2>2
<1>5. Settle(Append(stack, f), heap, outer, Append(c, act), Data) /\ UNCHANGED bases
  BY DEF CallPlain, SettleStack, With
<1> HIDE DEF f, act
<1>6. /\ CtlOK(Append(c, act), Len(stack) + 1, "run")
      /\ BasesOK(Append(c, act), tailBase, callbackBase)
  BY <1>4, PushReady
<1>7. outer \in [Ids -> Nat] /\ Data \in Value
  BY DEF IInv, Value
<1> QED
  BY <1>3, <1>5, <1>6, <1>7, SettleOK DEF bases

LEMMA TwoMore ==
  ASSUME NEW c \in Seq(Activation), NEW a \in Activation, NEW b \in Activation
  PROVE  /\ c \o <<a>> = Append(c, a)
         /\ c \o <<a, b>> = Append(Append(c, a), b)
OBVIOUS

LEMMA CallTrampolineOK ==
  ASSUME IInv, mode' = "run", NEW c, Ready(c), NEW fn \in Fns, NEW arg \in Value,
         CallTrampoline(c, fn, arg), nextId' = nextId + 1
  PROVE  IInv'
<1> DEFINE comp == AtCaller(heap[fn])
           at == IF comp THEN EntryBase ELSE BarrierFor(stack, heap[fn])
           home == IF comp THEN Sees(stack, EntryBase) ELSE HomeOf(stack, heap[fn])
           f == TailCallFrame(heap[fn], at, home, BodyBindings(fn, arg))
           tramp == [Act("tramp", 1) EXCEPT !.saved = <<tailBase, 0>>]
           last == [Composition(fn, arg) EXCEPT !.height = Len(stack) + 1]
           body == IF comp THEN <<tramp, last>> ELSE <<tramp>>
<1>1. at \in 1 .. Len(stack) /\ home = Sees(stack, at) /\ (comp => at > Root)
  <2>1. EntryBase \in 1 .. Len(stack) /\ EntryBase > 1
    BY EntryBaseIs, StackFacts
  <2> QED
    BY <2>1, BarrierOK, StackFacts DEF Root
<1>2. /\ StackOK(Append(stack, f), nextId + 1) /\ HeapOK(heap, Append(stack, f), nextId + 1)
      /\ Len(Append(stack, f)) = Len(stack) + 1
  <2>1. f = TailCallFrame(heap[fn], at, home, BodyBindings(fn, arg))
    OBVIOUS
  <2>2. StackOK(stack, nextId) /\ HeapOK(heap, stack, nextId)
    BY StackFacts
  <2> HIDE DEF at, home, f
  <2> QED
    BY <1>1, <2>1, <2>2, PushCallFrame
<1>3. Settle(Append(stack, f), heap, outer, c \o body, Data)
  BY Zenon DEF CallTrampoline, SettleStack
<1>4. tailBase' = EntryBase /\ callbackBase' = callbackBase
  BY DEF CallTrampoline
<1> HIDE DEF f
<1>5. /\ Act("tramp", 1) \in Activation
      /\ Act("tramp", 1).kind = "tramp" /\ Act("tramp", 1).frames = 1
      /\ Act("tramp", 1).height = Len(stack)
      /\ Act("tramp", 1).fn = Data /\ Act("tramp", 1).arg = Data
  BY ActIs DEF Kinds
<1>6. tailBase \in Nat \ {0} /\ Len(stack) \in Nat \ {0}
  BY StackFacts DEF IInv, BasesOK
<1>7. /\ tramp \in Activation /\ tramp.kind = "tramp" /\ tramp.frames = 1
      /\ tramp.height = Len(stack) /\ tramp.saved[1] = tailBase
      /\ tramp.fn = Data /\ tramp.arg = Data
  BY <1>5, <1>6 DEF Activation
<1>8. ActOK(tramp)
  BY <1>6, <1>7 DEF ActOK
<1>9. /\ last \in Activation /\ last.kind = "tail" /\ last.frames = 0
      /\ last.height = Len(stack) + 1
  <2>1. /\ Act("tail", 0) \in Activation
        /\ Act("tail", 0).kind = "tail" /\ Act("tail", 0).frames = 0
    BY ActIs DEF Kinds
  <2>2. fn \in Value
    BY DEF Value
  <2>3. /\ Composition(fn, arg) \in Activation /\ Composition(fn, arg).kind = "tail"
        /\ Composition(fn, arg).frames = 0
    BY <2>1, <2>2 DEF Composition, Activation
  <2> QED
    BY <1>6, <2>3 DEF Activation
<1>10. ActOK(last)
  BY <1>6, <1>9 DEF ActOK
<1> HIDE DEF tramp, last
<1>11. /\ CtlOK(Append(c, tramp), Len(stack) + 1, "run")
       /\ BasesOK(Append(c, tramp), EntryBase, callbackBase)
  BY <1>7, <1>8, PushTrampoline
<1>12. c \in Seq(Activation)
  BY DEF Ready, Stacked
<1>13. c \o <<tramp>> = Append(c, tramp) /\ c \o <<tramp, last>> = Append(Append(c, tramp), last)
  BY <1>7, <1>9, <1>12, TwoMore
<1>14. /\ CtlOK(c \o body, Len(stack) + 1, "run")
       /\ BasesOK(c \o body, EntryBase, callbackBase)
  <2>1. CASE ~ comp
    BY <1>11, <1>13, <2>1
  <2>2. CASE comp
    <3> DEFINE d == Append(c, tramp)
    <3>1. /\ d \in Seq(Activation) /\ d # <<>> /\ d[Len(d)] = tramp
      BY <1>7, <1>12
    <3> HIDE DEF d
    <3>2. Stacked(d, Len(stack) + 1) /\ BasesOK(d, EntryBase, callbackBase)
      BY <1>11 DEF CtlOK, d
    <3>3. last.kind # "evaluate" /\ StartedBy(last, d[Len(d)])
      BY <1>6, <1>7, <1>9, <3>1 DEF StartedBy
    <3>4. Stacked(Append(d, last), last.height + last.frames)
      BY <1>10, <3>1, <3>2, <3>3, PushStacked
    <3>5. last.height + last.frames = Len(stack) + 1
      BY <1>6, <1>9
    <3>6. Append(d, last) # <<>> /\ Append(d, last)[Len(Append(d, last))] = last
      BY <1>9, <3>1
    <3>7. Exact(Append(d, last), Len(stack) + 1)
      BY <3>5, <3>6 DEF Exact
    <3>8. BasesOK(Append(d, last), EntryBase, callbackBase)
      BY <1>9, <3>1, <3>2, PushBases
    <3>9. CtlOK(Append(d, last), Len(stack) + 1, "run")
      BY <3>4, <3>5, <3>6, <3>7 DEF CtlOK
    <3>10. c \o body = Append(d, last)
      BY <1>13, <2>2 DEF d
    <3> QED
      BY <3>8, <3>9, <3>10
  <2> QED
    BY <2>1, <2>2
<1>15. outer \in [Ids -> Nat] /\ Data \in Value
  BY DEF IInv, Value
<1> HIDE DEF body
<1> QED
  BY <1>2, <1>3, <1>4, <1>14, <1>15, SettleOK

LEMMA ApplyOK ==
  ASSUME IInv, mode = "run", NEW c, Ready(c), NEW fn \in Fns, NEW arg \in Value,
         Apply(c, fn, arg)
  PROVE  IInv'
BY CallPlainOK, CallTrampolineOK DEF Apply
-----------------------------------------------------------------------------
(***************************************************************************)
(* Leaving calls.                                                          *)
(***************************************************************************)
\* The frames below those the innermost activation has pushed.
LEMMA HeightIn ==
  ASSUME NEW c, NEW len, Stacked(c, len), c # <<>>
  PROVE  /\ c[Len(c)].height \in 1 .. len
         /\ c[Len(c)].frames \in Nat
         /\ c[Len(c)].height + c[Len(c)].frames <= len
         /\ ActOK(c[Len(c)])
         /\ Len(c) \in Nat \ {0}
<1>1. c \in Seq(Activation) /\ len \in Nat
  BY DEF Stacked
<1>2. Len(c) \in 1 .. Len(c) /\ Len(c) \in Nat \ {0}
  BY <1>1
<1>3. ActOK(c[Len(c)])
  BY <1>2 DEF Stacked
<1>4. c[Len(c)].height \in Nat \ {0} /\ c[Len(c)].frames \in Nat
  BY <1>3 DEF ActOK, Activation
<1>5. c[Len(c)].height + c[Len(c)].frames <= len
  BY DEF Stacked
<1> QED
  BY <1>1, <1>2, <1>3, <1>4, <1>5

\* The innermost activation of c returns, and pops its frames.
LEMMA PopReady ==
  ASSUME NEW c, NEW len, Stacked(c, len), BasesOK(c, tailBase, callbackBase),
         Len(c) > 1,
         NEW m \in {"run", "err"}, NEW k \in Nat, k >= c[Len(c)].height,
         m = "run" => k = c[Len(c)].height
  PROVE  /\ CtlOK(SubSeq(c, 1, Len(c) - 1), k, m)
         /\ BasesOK(SubSeq(c, 1, Len(c) - 1),
                    RestoredTail(c, tailBase), RestoredCallback(c, callbackBase))
<1>1. /\ Stacked(SubSeq(c, 1, Len(c) - 1), k)
      /\ SubSeq(c, 1, Len(c) - 1) # <<>>
      /\ k = c[Len(c)].height => Exact(SubSeq(c, 1, Len(c) - 1), k)
  BY PopStacked
<1>2. c \in Seq(Activation) /\ c # <<>>
  BY DEF Stacked
<1> QED
  BY <1>1, <1>2, PopBases DEF CtlOK

LEMMA OuterActivation ==
  ASSUME NEW c, NEW len, Stacked(c, len), c # <<>>, c[Len(c)].kind # "evaluate"
  PROVE  Len(c) > 1
<1>1. Len(c) \in Nat \ {0}
  BY HeightIn
<1>2. Len(c) \in 1 .. Len(c)
  BY <1>1
<1>3. Len(c) # 1
  BY <1>2, Zenon DEF Stacked
<1>4. \A n \in Nat \ {0} : n # 1 => n > 1
  OBVIOUS
<1> QED
  BY <1>1, <1>3, <1>4

LEMMA LeaveTrampolineOK ==
  ASSUME IInv, NEW c, Ready(c), c[Len(c)].kind = "tramp",
         NEW v \in Value, LeaveTrampoline(c, v), mode' \in {"run", "err"}
  PROVE  IInv'
<1> DEFINE act == c[Len(c)]
           k == Len(stack) - act.frames
           d == SubSeq(c, 1, Len(c) - 1)
<1>1. Stacked(c, Len(stack)) /\ Exact(c, Len(stack)) /\ BasesOK(c, tailBase, callbackBase)
      /\ c # <<>>
  BY DEF Ready
<1>2. /\ act.height \in 1 .. Len(stack) /\ act.frames \in Nat
      /\ Len(stack) = act.height + act.frames
  BY <1>1, HeightIn DEF Exact
<1>3. Len(c) > 1
  <2>1. c[Len(c)].kind # "evaluate"
    OBVIOUS
  <2> QED
    BY <1>1, <2>1, OuterActivation
<1>4. k = act.height /\ k \in 1 .. Len(stack)
  BY <1>2, StackFacts
<1>5. /\ CtlOK(d, k, mode')
      /\ BasesOK(d, RestoredTail(c, tailBase), RestoredCallback(c, callbackBase))
  BY <1>1, <1>3, <1>4, PopReady
<1>6. RestoredTail(c, tailBase) = act.saved[1] /\ RestoredCallback(c, callbackBase) = callbackBase
  BY DEF RestoredTail, RestoredCallback
<1>7. /\ Settle(Cut(stack, k), heap, outer, d, v)
      /\ tailBase' = act.saved[1] /\ UNCHANGED <<nextId, callbackBase>>
  BY DEF LeaveTrampoline, SettleStack, TailBaseAfter, Top
<1> HIDE DEF d, k, act
<1>8. StackOK(Cut(stack, k), nextId) /\ HeapOK(heap, Cut(stack, k), nextId) /\ Len(Cut(stack, k)) = k
  BY <1>4, StackFacts, CutBoth
<1>9. outer \in [Ids -> Nat]
  BY DEF IInv
<1> QED
  BY <1>5, <1>6, <1>7, <1>8, <1>9, SettleOK

\* An activation that pops the one frame it has pushed.
LEMMA PopOneOK ==
  ASSUME IInv, mode \in {"run", "err"}, mode' = mode, Len(ctl) > 1, Here.frames = 1,
         NEW v \in Value, SettleStack(Pop(stack), Below, v), nextId' = nextId,
         tailBase' = RestoredTail(ctl, tailBase),
         callbackBase' = RestoredCallback(ctl, callbackBase)
  PROVE  IInv'
<1> DEFINE k == Len(stack) - 1
<1>1. /\ Stacked(ctl, Len(stack)) /\ BasesOK(ctl, tailBase, callbackBase)
      /\ mode = "run" => Exact(ctl, Len(stack))
  BY DEF IInv, CtlOK
<1>2. ctl # <<>>
  BY <1>1 DEF Stacked
<1>3. Here.height \in 1 .. Len(stack) /\ Here.height + 1 <= Len(stack)
  BY <1>1, <1>2, HeightIn DEF Here
<1>4. k \in 1 .. Len(stack) /\ k \in Nat /\ k >= Here.height
  BY <1>3, StackFacts
<1>5. mode = "run" => k = Here.height
  BY <1>1, <1>2, <1>3, StackFacts DEF Exact, Here
<1>6. /\ CtlOK(Below, k, mode)
      /\ BasesOK(Below, tailBase', callbackBase')
  BY <1>1, <1>4, <1>5, PopReady DEF Below, Here
<1>7. Pop(stack) = Cut(stack, k)
  BY <1>3, StackFacts DEF Pop, Top, Root
<1> HIDE DEF k
<1>8. StackOK(Cut(stack, k), nextId) /\ HeapOK(heap, Cut(stack, k), nextId) /\ Len(Cut(stack, k)) = k
  BY <1>4, StackFacts, CutBoth
<1>9. outer \in [Ids -> Nat]
  BY DEF IInv
<1> QED
  BY <1>6, <1>7, <1>8, <1>9, SettleOK DEF SettleStack
-----------------------------------------------------------------------------
(***************************************************************************)
(* One lemma per kind of step.                                             *)
(***************************************************************************)
LEMMA AvailOK ==
  ASSUME IInv
  PROVE  Avail \subseteq Value
<1>1. \A n \in Names : Lookup(stack, Top(stack), n) \in Value \cup {Unbound}
  <2>1. stack \in Seq(Frame) /\ Top(stack) \in 1 .. Len(stack)
    BY StackFacts DEF Top
  <2> QED
    BY <2>1, LookupIn
<1>2. hand \in Value /\ Data \in Value
  BY DEF IInv, Value
<1> QED
  BY <1>1, <1>2 DEF Avail

\* A step that changes bindings, tokens or the value in hand only, or fails.
LEMMA SameStep ==
  ASSUME IInv, NEW s \in Seq(Frame), SameFrames(stack, s), NEW v \in Value,
         NEW h, NEW o, Settle(s, h, o, ctl, v), UNCHANGED <<nextId, bases>>,
         HeapOK(h, stack, nextId), o \in [Ids -> Nat],
         mode' = mode \/ (mode = "run" /\ mode' = "err")
  PROVE  IInv'
<1>1. StackOK(stack, nextId) /\ CtlOK(ctl, Len(stack), mode)
      /\ BasesOK(ctl, tailBase, callbackBase)
  BY DEF IInv
<1>2. StackOK(s, nextId) /\ HeapOK(h, s, nextId) /\ Len(s) = Len(stack)
  BY <1>1, SameBoth
<1>3. CtlOK(ctl, Len(s), mode')
  BY <1>1, <1>2 DEF CtlOK
<1> QED
  BY <1>1, <1>2, <1>3, SettleOK DEF bases

LEMMA HereOK ==
  ASSUME IInv, ctl # <<>>
  PROVE  /\ Stacked(ctl, Len(stack)) /\ BasesOK(ctl, tailBase, callbackBase)
         /\ mode = "run" => Exact(ctl, Len(stack))
         /\ mode \in {"run", "err"}
         /\ ActOK(Here) /\ Here.height \in 1 .. Len(stack) /\ Here.frames \in Nat
         /\ Here.height + Here.frames <= Len(stack)
         /\ mode = "run" => Len(stack) = Here.height + Here.frames
         /\ Len(ctl) \in Nat \ {0}
<1>1. /\ Stacked(ctl, Len(stack)) /\ BasesOK(ctl, tailBase, callbackBase)
      /\ mode = "run" => Exact(ctl, Len(stack))
      /\ mode \in {"run", "err"}
  BY DEF IInv, CtlOK
<1> QED
  BY <1>1, HeightIn DEF Here, Exact

\* An activation that pops no frame: it has none, or leaves them as it fails.
LEMMA PopNoneOK ==
  ASSUME IInv, mode' = mode, Len(ctl) > 1, ctl # <<>>, mode = "run" => Here.frames = 0,
         NEW v \in Value, SettleStack(stack, Below, v), nextId' = nextId,
         tailBase' = RestoredTail(ctl, tailBase),
         callbackBase' = RestoredCallback(ctl, callbackBase)
  PROVE  IInv'
<1> DEFINE k == Len(stack)
<1>1. /\ Stacked(ctl, k) /\ BasesOK(ctl, tailBase, callbackBase)
      /\ mode \in {"run", "err"}
      /\ Here.height \in 1 .. k /\ (mode = "run" => k = Here.height + Here.frames)
  BY HereOK
<1>2. k \in Nat /\ k >= Here.height /\ (mode = "run" => k = Here.height)
  BY <1>1, StackFacts
<1>3. /\ CtlOK(Below, k, mode)
      /\ BasesOK(Below, tailBase', callbackBase')
  BY <1>1, <1>2, PopReady DEF Below, Here
<1>4. outer \in [Ids -> Nat] /\ StackOK(stack, nextId) /\ HeapOK(heap, stack, nextId)
  BY DEF IInv
<1> QED
  BY <1>3, <1>4, SettleOK DEF SettleStack

LEMMA AfterEvalOK ==
  ASSUME IInv, mode' = mode, Len(ctl) > 1, ctl # <<>>, Here.kind = "eval",
         NEW v \in Value, SettleStack(AfterEval(stack, Here), Below, v),
         UNCHANGED <<nextId, bases>>
  PROVE  IInv'
<1>1. tailBase' = RestoredTail(ctl, tailBase) /\ callbackBase' = RestoredCallback(ctl, callbackBase)
  BY DEF RestoredTail, RestoredCallback, Here, bases
<1>2. /\ Stacked(ctl, Len(stack)) /\ BasesOK(ctl, tailBase, callbackBase)
      /\ mode \in {"run", "err"} /\ ActOK(Here)
      /\ Here.height \in 1 .. Len(stack) /\ Here.height + Here.frames <= Len(stack)
      /\ mode = "run" => Len(stack) = Here.height + Here.frames
  BY HereOK
<1>3. \/ Here.frames = 0 /\ Here.saved[1] = 0
      \/ Here.frames = 1 /\ Here.saved[1] \in 1 .. Here.height
  BY <1>2 DEF ActOK
<1>4. CASE Here.frames = 0
  <2>1. SettleStack(stack, Below, v)
    BY <1>4 DEF AfterEval
  <2> QED
    BY <1>1, <1>4, <2>1, PopNoneOK
<1>5. CASE Here.frames = 1 /\ Here.saved[2] = 1
  <2>1. SettleStack(Pop(stack), Below, v)
    BY <1>5 DEF AfterEval
  <2> QED
    BY <1>1, <1>2, <1>5, <2>1, PopOneOK
<1>6. CASE Here.frames = 1 /\ Here.saved[2] # 1
  <2> DEFINE k == Len(stack) - 1
             t == Cut(stack, k)
             at == Here.saved[1]
             b == Extend(t[at].bind, stack[Len(stack)].bind)
             u == [t EXCEPT ![at].bind = b]
  <2>1. /\ k \in Nat /\ k \in 1 .. Len(stack) /\ k >= Here.height
        /\ mode = "run" => k = Here.height
        /\ at \in 1 .. k /\ Len(stack) \in 1 .. Len(stack)
    BY <1>2, <1>3, <1>6, StackFacts
  <2>2. SettleStack(u, Below, v)
    <3>1. Here.frames # 0 /\ Here.saved[2] # 1
      BY <1>6
    <3>2. AfterEval(stack, Here) = PopInto(stack, at)
      BY <3>1, Zenon DEF AfterEval
    <3>3. PopInto(stack, at) = u
      BY Zenon DEF PopInto, Top
    <3> QED
      BY <3>2, <3>3
  <2>3. CtlOK(Below, k, mode) /\ BasesOK(Below, tailBase', callbackBase')
    BY <1>1, <1>2, <2>1, PopReady DEF Below, Here
  <2> HIDE DEF k, at
  <2>4. StackOK(t, nextId) /\ HeapOK(heap, t, nextId) /\ Len(t) = k
    BY <2>1, StackFacts, CutBoth
  <2>5. t \in Seq(Frame)
    BY <2>4 DEF StackOK
  <2>6. b \in Bindings
    <3>1. t[at].bind \in Bindings /\ stack[Len(stack)].bind \in Bindings
      BY <2>1, <2>4, <2>5, FrameAt, StackFacts
    <3> QED
      BY <3>1 DEF Extend, Bindings
  <2> HIDE DEF t, b
  <2>7. u \in Seq(Frame) /\ SameFrames(t, u)
    BY <2>1, <2>4, <2>5, <2>6, BindFrames
  <2> HIDE DEF u
  <2>8. StackOK(u, nextId) /\ HeapOK(heap, u, nextId) /\ Len(u) = k
    BY <2>4, <2>7, SameBoth
  <2>9. outer \in [Ids -> Nat]
    BY DEF IInv
  <2> QED
    BY <2>2, <2>3, <2>8, <2>9, SettleOK DEF SettleStack, bases
<1> QED
  BY <1>3, <1>4, <1>5, <1>6

\* A frame on the top one, in its scope.
\* The frames pushed in the scope of the one on top.
BlockFrames ==
  {BlockFrame, [BlockFrame EXCEPT !.internal = TRUE]} \cup {Cleared(BlockFrame, v) : v \in Value}

\* What clearing a frame changes.
LEMMA ClearedIs ==
  ASSUME NEW f \in Frame, nextId \in Nat, NEW v \in Value
  PROVE  /\ Cleared(f, v) \in Frame /\ Cleared(f, v).id = nextId
         /\ Cleared(f, v).barrier = f.barrier /\ Cleared(f, v).home = f.home
         /\ Cleared(f, v).internal = f.internal /\ Cleared(f, v).opaque = f.opaque
         /\ Cleared(f, v).tco = f.tco /\ Cleared(f, v).token = f.token
         /\ Cleared(f, v).seenAt = f.seenAt
         /\ Cleared(f, v).bind = [NoBindings EXCEPT ![Param] = v]
<1> DEFINE b == [NoBindings EXCEPT ![Param] = v]
<1>1. b \in Bindings
  BY DEF NoBindings, Bindings
<1>2. Cleared(f, v) = [f EXCEPT !.id = nextId, !.bind = b]
  BY DEF Cleared
<1> HIDE DEF b
<1> QED
  BY <1>1, <1>2 DEF Frame, b

LEMMA PushBlock ==
  ASSUME IInv, NEW f \in BlockFrames, ctl # <<>> \/ f = BlockFrame
  PROVE  /\ StackOK(Append(stack, f), nextId + 1)
         /\ HeapOK(heap, Append(stack, f), nextId + 1)
         /\ Len(Append(stack, f)) = Len(stack) + 1
<1> DEFINE top == Len(stack)
<1>1. top \in 1 .. Len(stack) /\ Sees(stack, top) \in SUBSET Nat /\ nextId \in Nat
  BY StackFacts, SeesType
<1>2. /\ BlockFrame \in Frame /\ BlockFrame.id = nextId /\ BlockFrame.barrier = 0
      /\ BlockFrame.home = Sees(stack, top) /\ ~ BlockFrame.internal
  <2> DEFINE home == Sees(stack, top)
  <2>1. BlockFrame = NewFrame(nextId, 0, home) /\ 0 \in Nat /\ home \in SUBSET Nat
    BY <1>1 DEF BlockFrame, Top, NoBarrier
  <2> HIDE DEF home
  <2>2. /\ NewFrame(nextId, 0, home) \in Frame /\ NewFrame(nextId, 0, home).id = nextId
        /\ NewFrame(nextId, 0, home).barrier = 0 /\ NewFrame(nextId, 0, home).home = home
        /\ ~ NewFrame(nextId, 0, home).internal
    BY <1>1, <2>1, NewFrameOK
  <2> QED
    BY <2>1, <2>2 DEF home
<1>3. f \in Frame /\ f.id = nextId /\ f.barrier = 0 /\ f.home = Sees(stack, top)
  <2>1. CASE f \in {BlockFrame, [BlockFrame EXCEPT !.internal = TRUE]}
    BY <1>2, <2>1 DEF Frame
  <2>2. ASSUME NEW v \in Value, f = Cleared(BlockFrame, v)
        PROVE  f \in Frame /\ f.id = nextId /\ f.barrier = 0 /\ f.home = Sees(stack, top)
    BY <1>1, <1>2, <2>2, ClearedIs
  <2> QED
    BY <2>1, <2>2 DEF BlockFrames
<1>4. f.internal => top > Root
  <2>1. ctl # <<>> => top >= 2
    BY RunsAboveHost DEF IInv, CtlOK
  <2> QED
    BY <1>1, <1>2, <2>1 DEF Root
<1> QED
  BY <1>1, <1>3, <1>4, StackFacts, PushBoth

LEMMA EvaluateOK ==
  ASSUME IInv, Evaluate
  PROVE  IInv'
<1> DEFINE act == [Act("evaluate", 1) EXCEPT !.saved = <<Len(stack), 0>>]
<1>1. /\ Len(stack) = 1 /\ ctl = <<>> /\ mode' = "run" /\ nextId' = nextId + 1
      /\ Settle(Append(stack, BlockFrame), heap, outer, <<act>>, Data) /\ UNCHANGED bases
  BY DEF IInv, CtlOK, Evaluate, SettleStack, OwnFrame
<1>2. /\ act \in Activation /\ act.kind = "evaluate" /\ act.frames = 1
      /\ act.height = 1 /\ act.saved[1] = 1
  BY <1>1, ActIs DEF Kinds, Activation
<1>3. ActOK(act)
  BY <1>2 DEF ActOK
<1>4. /\ StackOK(Append(stack, BlockFrame), nextId + 1)
      /\ HeapOK(heap, Append(stack, BlockFrame), nextId + 1)
      /\ Len(Append(stack, BlockFrame)) = 2
  BY <1>1, PushBlock DEF BlockFrames
<1> HIDE DEF act
<1>5. /\ <<act>> = Append(<<>>, act) /\ <<>> \in Seq(Activation) /\ <<act>> \in Seq(Activation)
      /\ Len(<<act>>) = 1 /\ <<act>>[1] = act /\ <<act>> # <<>>
  BY <1>2
<1>6. BasesOK(<<act>>, tailBase, callbackBase)
  <2>1. BasesOK(<<>>, tailBase, callbackBase)
    BY <1>1 DEF IInv
  <2> QED
    BY <1>2, <1>5, <2>1, PushBases
<1>7. Stacked(<<act>>, 2)
  <2>1. \A i \in 1 .. 1 : <<act>>[i] = act /\ i = 1
    BY <1>5
  <2>2. 1 .. 1 - 1 = {} /\ 2 \in Nat \ {0} /\ 2 >= act.height + act.frames
    BY <1>2
  <2> QED
    BY <1>2, <1>3, <1>5, <2>1, <2>2 DEF Stacked
<1>8. CtlOK(<<act>>, 2, "run")
  <2>1. Exact(<<act>>, 2)
    BY <1>2, <1>5 DEF Exact
  <2> QED
    BY <1>5, <1>7, <2>1 DEF CtlOK
<1>9. outer \in [Ids -> Nat] /\ Data \in Value
  BY DEF IInv, Value
<1> QED
  BY <1>1, <1>4, <1>6, <1>8, <1>9, SettleOK DEF bases

LEMMA FinishOK ==
  ASSUME IInv, NEW v \in Value, Finish(v)
  PROVE  IInv'
<1>1. /\ Len(ctl) = 1 /\ mode' = "idle" /\ UNCHANGED <<nextId, bases>>
      /\ Settle(Cut(stack, Here.saved[1]), heap, outer, <<>>, v)
  BY DEF Finish, SettleStack, AtEntry
<1>2. /\ ctl \in Seq(Activation) /\ ctl # <<>> /\ ctl[1].kind = "evaluate"
      /\ ctl[1].saved[1] = 1
  <2>1. Stacked(ctl, Len(stack)) /\ 1 \in 1 .. Len(ctl)
    BY <1>1 DEF IInv, CtlOK
  <2>2. ctl \in Seq(Activation) /\ ActOK(ctl[1])
    BY <2>1, Zenon DEF Stacked
  <2>3. ctl[1].kind = "evaluate"
    BY <2>1, Zenon DEF Stacked
  <2>4. ctl # <<>>
    BY <1>1
  <2> QED
    BY <2>2, <2>3, <2>4 DEF ActOK
<1>3. SubSeq(ctl, 1, Len(ctl) - 1) = <<>>
  BY <1>1, <1>2
<1>4. BasesOK(<<>>, tailBase, callbackBase)
  <2>1. BasesOK(<<>>, RestoredTail(ctl, tailBase), RestoredCallback(ctl, callbackBase))
    BY <1>2, <1>3, PopBases DEF IInv
  <2> QED
    BY <1>1, <1>2, <2>1 DEF RestoredTail, RestoredCallback
<1>5. 1 \in 1 .. Len(stack)
  BY StackFacts
<1>6. StackOK(Cut(stack, 1), nextId) /\ HeapOK(heap, Cut(stack, 1), nextId) /\ Len(Cut(stack, 1)) = 1
  BY <1>5, StackFacts, CutBoth
<1>7. CtlOK(<<>>, 1, "idle")
  <2>1. Stacked(<<>>, 1)
    BY DEF Stacked
  <2> QED
    BY <2>1 DEF CtlOK
<1>8. outer \in [Ids -> Nat]
  BY DEF IInv
<1> QED
  BY <1>1, <1>2, <1>4, <1>6, <1>7, <1>8, SettleOK DEF bases, Here

\* A block, or a builtin with a callback, in a frame on the top one.
LEMMA EnterOK ==
  ASSUME IInv, mode = "run", NEW c, Ready(c), NEW kind \in {"block", "args", "merge"},
         NEW fn \in Value, NEW arg \in Value, NEW f \in BlockFrames,
         SettleStack(Append(stack, f), With(c, ActOn(kind, fn, arg)), Data),
         nextId' = nextId + 1, UNCHANGED <<bases, mode>>
  PROVE  IInv'
<1> DEFINE act == ActOn(kind, fn, arg)
<1>1. /\ act \in Activation /\ act.kind = kind /\ act.frames = 1 /\ act.height = Len(stack)
  <2>1. kind \in Kinds
    BY DEF Kinds
  <2> QED
    BY <2>1, ActOnIs
<1>2. ActOK(act)
  BY <1>1, StackFacts DEF ActOK
<1>3. Settle(Append(stack, f), heap, outer, Append(c, act), Data)
  BY DEF SettleStack, With
<1> HIDE DEF act
<1>4. /\ CtlOK(Append(c, act), Len(stack) + 1, "run")
      /\ BasesOK(Append(c, act), tailBase, callbackBase)
  BY <1>1, <1>2, PushReady
<1>5. /\ StackOK(Append(stack, f), nextId + 1)
      /\ HeapOK(heap, Append(stack, f), nextId + 1)
      /\ Len(Append(stack, f)) = Len(stack) + 1
  <2>1. ctl # <<>>
    BY DEF IInv, CtlOK
  <2> QED
    BY <2>1, PushBlock
<1>6. outer \in [Ids -> Nat] /\ Data \in Value
  BY DEF IInv, Value
<1> QED
  BY <1>3, <1>4, <1>5, <1>6, SettleOK DEF bases

LEMMA StartEvalOK ==
  ASSUME IInv, mode = "run", NEW c, Ready(c), c[Len(c)].kind # "hof",
         NEW from \in 2 .. Len(stack), StartEval(c, from)
  PROVE  IInv'
<1> DEFINE at == FrameBelowInternal(stack, from)
<1>1. mode' = "run" /\ UNCHANGED bases /\ outer \in [Ids -> Nat] /\ Data \in Value
  BY DEF StartEval, IInv, Value
<1>2. at \in 1 .. from /\ at \in 1 .. Len(stack)
  <2>1. at \in 1 .. from
    <3>1. from \in 1 .. Len(stack)
      BY StackFacts
    <3> QED
      BY <3>1, StackFacts, FrameBelowInternalIn
  <2> QED
    BY <2>1, StackFacts
<1>3. CASE at = Top(stack)
  <2> DEFINE act == Act("eval", 0)
  <2>1. /\ act \in Activation /\ act.kind = "eval" /\ act.frames = 0 /\ act.height = Len(stack)
        /\ act.saved[1] = 0
    BY ActIs DEF Kinds
  <2>2. ActOK(act)
    BY <2>1, StackFacts DEF ActOK
  <2>3. Settle(stack, heap, outer, Append(c, act), Data) /\ nextId' = nextId
    BY <1>3 DEF StartEval, SettleStack, With
  <2> HIDE DEF act
  <2>4. /\ CtlOK(Append(c, act), Len(stack) + 0, "run")
        /\ BasesOK(Append(c, act), tailBase, callbackBase)
    BY <2>1, <2>2, PushReady
  <2>5. Len(stack) + 0 = Len(stack)
    BY StackFacts
  <2> QED
    BY <1>1, <2>3, <2>4, <2>5, StackFacts, SettleOK DEF bases
<1>4. CASE at # Top(stack)
  <2> DEFINE saved == <<at, IF OpaqueOnTheWay(stack, from) THEN 1 ELSE 0>>
             act == [Act("eval", 1) EXCEPT !.saved = saved]
             f == NewFrame(nextId, at, Sees(stack, at))
  <2>1. /\ Settle(Append(stack, f), heap, outer, Append(c, act), Data)
        /\ nextId' = nextId + 1
    BY <1>4, Zenon DEF StartEval, SettleStack, With
  <2>2. saved \in Nat \X Nat /\ saved[1] = at /\ (at = Root => saved[2] = 1)
    <3>1. at = Root => OpaqueOnTheWay(stack, from)
      BY StackFacts, OnlyOpaqueToRoot
    <3> QED
      BY <1>2, <3>1
  <2> HIDE DEF saved
  <2>3. /\ act \in Activation /\ act.kind = "eval" /\ act.frames = 1
        /\ act.height = Len(stack) /\ act.saved[1] = at /\ (at = Root => act.saved[2] = 1)
    BY <2>2, ActIs DEF Kinds, Activation
  <2>4. ActOK(act)
    BY <1>2, <2>3, StackFacts DEF ActOK
  <2> HIDE DEF act
  <2>5. /\ CtlOK(Append(c, act), Len(stack) + 1, "run")
        /\ BasesOK(Append(c, act), tailBase, callbackBase)
    BY <2>3, <2>4, PushReady
  <2> HIDE DEF at
  <2>6. Sees(stack, at) \in SUBSET Nat
    BY <1>2, SeesType, StackFacts
  <2>7. /\ f \in Frame /\ f.id = nextId /\ f.barrier = at /\ f.home = Sees(stack, at)
        /\ ~ f.internal
    BY <1>2, <2>6, StackFacts, NewFrameOK
  <2> HIDE DEF f
  <2>8. /\ StackOK(Append(stack, f), nextId + 1)
        /\ HeapOK(heap, Append(stack, f), nextId + 1)
        /\ Len(Append(stack, f)) = Len(stack) + 1
    BY <1>2, <2>7, StackFacts, PushBoth
  <2> QED
    BY <1>1, <2>1, <2>5, <2>8, SettleOK DEF bases
<1> QED
  BY <1>3, <1>4
-----------------------------------------------------------------------------
(***************************************************************************)
(* Making functions.                                                       *)
(***************************************************************************)
LEMMA SameTransitive ==
  ASSUME NEW s, NEW t, NEW u, SameFrames(s, t), SameFrames(t, u)
  PROVE  SameFrames(s, u)
BY DEF SameFrames

LEMMA TcoPathIn ==
  ASSUME NEW s, NEW n, StackOK(s, n), NEW p \in 1 .. Len(s)
  PROVE  /\ TcoPath(s, p) \in SUBSET (1 .. p)
         /\ \A S \in SUBSET TcoPath(s, p) :
              S # {} => Highest(S) \in 1 .. Len(s) /\ s[Highest(S)].id \in Nat
<1>1. TcoPath(s, p) \in SUBSET (1 .. p) /\ Len(s) \in Nat /\ s \in Seq(Frame)
  BY DEF TcoPath, Path, StackOK, Grounded
<1>2. ASSUME NEW S \in SUBSET TcoPath(s, p), S # {}
      PROVE  Highest(S) \in 1 .. Len(s) /\ s[Highest(S)].id \in Nat
  <2>1. p \in Nat /\ S \in SUBSET (1 .. p)
    BY <1>1
  <2>2. Highest(S) \in S
    BY <1>2, <2>1, HighestExists
  <2>3. Highest(S) \in 1 .. Len(s)
    <3>1. Highest(S) \in 1 .. p
      BY <2>1, <2>2
    <3> QED
      BY <1>1, <3>1
  <2> QED
    BY <1>1, <2>3, FrameAt
<1> QED
  BY <1>1, <1>2

LEMMA TokenisedOK ==
  ASSUME IInv
  PROVE  Tokenised(stack) \in Seq(Frame) /\ SameFrames(stack, Tokenised(stack))
<1> DEFINE made == TokensMadeAt(stack, Top(stack))
           t == Tokenised(stack)
<1>1. t = [p \in 1 .. Len(stack) |->
             IF p \in made THEN [stack[p] EXCEPT !.token = TRUE] ELSE stack[p]]
  BY DEF Tokenised
<1>2. Len(stack) \in Nat /\ stack \in Seq(Frame)
  BY StackFacts
<1> HIDE DEF t, made
<1>3. ASSUME NEW p \in 1 .. Len(stack)
      PROVE  /\ t[p] \in Frame /\ t[p].id = stack[p].id
             /\ t[p].barrier = stack[p].barrier /\ t[p].home = stack[p].home
             /\ t[p].internal = stack[p].internal /\ t[p].opaque = stack[p].opaque
  <2>1. stack[p] \in Frame
    BY <1>2, FrameAt
  <2>2. /\ [stack[p] EXCEPT !.token = TRUE] \in Frame
        /\ [stack[p] EXCEPT !.token = TRUE].id = stack[p].id
        /\ [stack[p] EXCEPT !.token = TRUE].barrier = stack[p].barrier
        /\ [stack[p] EXCEPT !.token = TRUE].home = stack[p].home
        /\ [stack[p] EXCEPT !.token = TRUE].internal = stack[p].internal
        /\ [stack[p] EXCEPT !.token = TRUE].opaque = stack[p].opaque
    BY <2>1 DEF Frame
  <2> QED
    BY <1>1, <2>1, <2>2
<1>4. t \in Seq(Frame) /\ Len(t) = Len(stack)
  BY <1>1, <1>2, <1>3
<1> QED
  BY <1>3, <1>4 DEF SameFrames, t

LEMMA OuterTokensOK ==
  ASSUME IInv
  PROVE  OuterTokens(stack) \in [Ids -> Nat]
<1> DEFINE top == Top(stack)
           made == TokensMadeAt(stack, top)
<1>1. top \in 1 .. Len(stack) /\ StackOK(stack, nextId) /\ outer \in [Ids -> Nat]
      /\ Len(stack) \in Nat
  BY StackFacts DEF Top, IInv
<1>2. made \in SUBSET (1 .. Len(stack))
  BY <1>1, TcoPathIn DEF TokensMadeAt
<1>3. ASSUME NEW p \in made
      PROVE  NextTcoId(stack, p) \in Nat
  <2> DEFINE further == TcoPath(stack, p) \ {p}
  <2>1. p \in 1 .. Len(stack)
    BY <1>2
  <2>2. further = {} \/ stack[Highest(further)].id \in Nat
    BY <1>1, <2>1, TcoPathIn
  <2>3. NextTcoId(stack, p) = IF further = {} THEN 0 ELSE stack[Highest(further)].id
    BY DEF NextTcoId
  <2> QED
    BY <2>2, <2>3
<1>4. ASSUME NEW t \in Ids, \E p \in made : stack[p].id = t
      PROVE  NextTcoId(stack, CHOOSE p \in made : stack[p].id = t) \in Nat
  BY <1>3, <1>4
<1>5. OuterTokens(stack) =
        [t \in Ids |-> IF \E p \in made : stack[p].id = t
                       THEN NextTcoId(stack, CHOOSE p \in made : stack[p].id = t)
                       ELSE outer[t]]
  BY DEF OuterTokens
<1> HIDE DEF made
<1> QED
  BY <1>1, <1>4, <1>5

\* A closure made here sees the frames of one path.
LEMMA MadeHereOK ==
  ASSUME IInv
  PROVE  /\ MadeHere \in Closure /\ MadeHere.foreign = FALSE /\ MadeHere.kind = "free"
         /\ OnePath(stack, MadeHere.chain) /\ ChainBefore(MadeHere.chain, nextId)
<1> DEFINE kept == KeptAt(stack, Top(stack))
<1>1. /\ OnePath(stack, Chain(stack)) /\ ChainBefore(Chain(stack), nextId)
      /\ Chain(stack) \in SUBSET (Nat \X Nat)
  BY StackFacts, NewChain
<1>2. kept \in Nat
  <2>1. Top(stack) \in 1 .. Len(stack) /\ StackOK(stack, nextId)
    BY StackFacts DEF Top
  <2>2. TcoPath(stack, Top(stack)) = {} \/ stack[Highest(TcoPath(stack, Top(stack)))].id \in Nat
    BY <2>1, TcoPathIn
  <2> QED
    BY <2>2 DEF KeptAt
<1>3. MadeHere = [FreeSlot EXCEPT !.chain = Chain(stack), !.keep = kept]
  BY DEF MadeHere
<1> HIDE DEF kept
<1>4. MadeHere \in Closure /\ MadeHere.chain = Chain(stack)
  BY <1>1, <1>2, <1>3, FreeSlotOK DEF Closure
<1>5. MadeHere.foreign = FALSE /\ MadeHere.kind = "free"
  BY <1>3 DEF FreeSlot
<1> QED
  BY <1>1, <1>4, <1>5

LEMMA FreeFnIn ==
  ASSUME FreeFns # {}
  PROVE  Pick(FreeFns) \in Fns
BY DEF Pick, FreeFns

LEMMA DefineOK ==
  ASSUME IInv, NEW self \in SUBSET Names, NEW thunk \in BOOLEAN,
         NEW free \in SUBSET Names, Define(self, thunk, free)
  PROVE  IInv'
<1> DEFINE f == Pick(FreeFns)
           env == CaptureEnvironment(f, self, free)
           c == [MadeHere EXCEPT !.kind = "lambda", !.thunk = thunk, !.self = self, !.env = env]
           h == [heap EXCEPT ![f] = c]
           s == Tokenised(stack)
           top == Top(s)
           b == [n \in Names |-> IF n \in self THEN f ELSE s[top].bind[n]]
           t == [s EXCEPT ![top].bind = b]
<1>1. f \in Fns
  BY FreeFnIn DEF Define
<1>2. Settle(t, h, OuterTokens(stack), ctl, f) /\ UNCHANGED <<nextId, bases, mode>>
  BY Zenon DEF Define
<1>3. s \in Seq(Frame) /\ SameFrames(stack, s)
  BY TokenisedOK
<1>4. top \in 1 .. Len(s) /\ stack \in Seq(Frame)
  BY <1>3, StackFacts DEF Top, SameFrames
<1> HIDE DEF s, top
<1>5. b \in Bindings
  <2>1. s[top].bind \in Bindings
    BY <1>3, <1>4, FrameAt
  <2> QED
    BY <1>1, <2>1 DEF Bindings, Value
<1>6. env \in Bindings
  <2>1. Top(stack) \in 1 .. Len(stack)
    BY StackFacts DEF Top
  <2>2. \A n \in Names : Lookup(stack, Top(stack), n) \in Value \cup {Unbound}
    BY <1>4, <2>1, LookupIn
  <2>3. env = [n \in Names |-> IF n \in free THEN Lookup(stack, Top(stack), n) ELSE Unbound]
    BY DEF CaptureEnvironment
  <2> QED
    BY <2>2, <2>3 DEF Bindings
<1> HIDE DEF env, b, f
<1>7. /\ MadeHere \in Closure /\ MadeHere.foreign = FALSE
      /\ OnePath(stack, MadeHere.chain) /\ ChainBefore(MadeHere.chain, nextId)
  BY MadeHereOK
<1>8. /\ c \in Closure /\ c.kind = "lambda" /\ c.foreign = FALSE
      /\ c.chain = MadeHere.chain
  BY <1>6, <1>7 DEF Closure
<1> HIDE DEF c
<1>9. HeapOK(h, stack, nextId)
  <2>1. HeapOK(heap, stack, nextId)
    BY DEF IInv
  <2> QED
    BY <1>1, <1>7, <1>8, <2>1 DEF HeapOK
<1>10. t \in Seq(Frame) /\ SameFrames(s, t)
  BY <1>3, <1>4, <1>5, BindFrames
<1> HIDE DEF t, h
<1>11. f \in Value
  BY <1>1 DEF Value
<1> QED
  BY <1>2, <1>3, <1>9, <1>10, <1>11, OuterTokensOK, SameTransitive, SameStep

LEMMA ComposeOK ==
  ASSUME IInv, NEW f \in Value, NEW g \in Value, Compose(f, g)
  PROVE  IInv'
<1> DEFINE first == Pick(FreeFns)
           comp == Pick(FreeFns \ {first})
           c1 == [MadeHere EXCEPT !.kind = "first", !.f = f]
           c2 == [FreeSlot EXCEPT !.kind = "comp", !.thunk = TRUE, !.f = first, !.g = g]
           h == [heap EXCEPT ![first] = c1, ![comp] = c2]
<1>1. first \in Fns /\ comp \in Fns
  <2>1. Cardinality(FreeFns) >= 2
    BY DEF Compose
  <2>2. FreeFns # {}
    <3>1. FreeFns = {} => Cardinality(FreeFns) = 0
      BY FS_EmptySet
    <3> QED
      BY <2>1, <3>1
  <2>3. FreeFns \ {first} # {}
    <3>1. FreeFns = {first} => Cardinality(FreeFns) = 1
      BY FS_Singleton
    <3> QED
      BY <2>1, <2>2, <3>1
  <2>4. FreeFns \in SUBSET Fns
    BY DEF FreeFns
  <2> QED
    BY <2>2, <2>3, <2>4 DEF Pick
<1>2. Settle(Tokenised(stack), h, OuterTokens(stack), ctl, comp) /\ UNCHANGED <<nextId, bases, mode>>
  BY Zenon DEF Compose
<1>3. /\ MadeHere \in Closure /\ MadeHere.foreign = FALSE
      /\ OnePath(stack, MadeHere.chain) /\ ChainBefore(MadeHere.chain, nextId)
  BY MadeHereOK
<1> HIDE DEF first, comp
<1>4. /\ c1 \in Closure /\ c1.kind = "first" /\ c1.foreign = FALSE
      /\ c1.chain = MadeHere.chain /\ c1.f = f
  BY <1>3 DEF Closure
<1>5. /\ c2 \in Closure /\ c2.kind = "comp" /\ c2.foreign = FALSE /\ c2.thunk = TRUE
      /\ c2.chain = {}
  <2>1. first \in Value
    BY <1>1 DEF Value
  <2>2. c2 \in Closure /\ c2.kind = "comp" /\ c2.thunk = TRUE
    BY <2>1, FreeSlotOK DEF Closure
  <2> QED
    BY <2>2 DEF FreeSlot
<1> HIDE DEF c1, c2
<1>6. OnePath(stack, {}) /\ ChainBefore({}, nextId)
  BY StackFacts, NoChain
<1>7. HeapOK(h, stack, nextId)
  <2>1. HeapOK(heap, stack, nextId)
    BY DEF IInv
  <2>2. h \in [Fns -> Closure]
    BY <1>1, <1>4, <1>5, <2>1 DEF HeapOK
  <2>3. \A e \in Fns : h[e] \in {heap[e], c1, c2}
    BY <1>1, <2>1 DEF HeapOK
  <2> HIDE DEF h
  <2> QED
    BY <1>3, <1>4, <1>5, <1>6, <2>1, <2>2, <2>3 DEF HeapOK
<1>8. comp \in Value
  BY <1>1 DEF Value
<1> HIDE DEF h
<1> QED
  BY <1>2, <1>7, <1>8, TokenisedOK, OuterTokensOK, SameStep
-----------------------------------------------------------------------------
(***************************************************************************)
(* Tail calls.                                                             *)
(***************************************************************************)
LEMMA TokenCountOK ==
  ASSUME NEW s, NEW h, NEW o, NEW held
  PROVE  TokenCount(s, h, o, held) \in Nat
<1> DEFINE live == Live(s, h, o, held)
           t == s[Top(s)].id
           S == {n \in Fns \cup Ids : n \in live /\ t \in References(h, o, n)}
<1>1. IsFiniteSet(Fns \cup Ids)
  <2>1. IsFiniteSet(Ids)
    BY ClosuresAssumption, FS_Interval DEF Ids
  <2> QED
    BY <2>1, ClosuresAssumption, FS_Union
<1>2. S \subseteq Fns \cup Ids
  OBVIOUS
<1>3. TokenCount(s, h, o, held) = (IF t \in Tokens(s) THEN 1 ELSE 0) + Cardinality(S)
  BY Zenon DEF TokenCount, StrongCount
<1> HIDE DEF S
<1>4. Cardinality(S) \in Nat
  BY <1>1, <1>2, FS_Subset, FS_CardinalityType
<1> QED
  BY <1>3, <1>4

\* A frame that is asked who sees it.
LEMMA JudgedFrames ==
  ASSUME NEW s \in Seq(Frame), NEW p \in 1 .. Len(s), NEW count \in Nat
  PROVE  /\ [s EXCEPT ![p].seenAt = count] \in Seq(Frame)
         /\ SameFrames(s, [s EXCEPT ![p].seenAt = count])
<1>1. s[p] \in Frame
  BY FrameAt
<1>2. /\ [s[p] EXCEPT !.seenAt = count] \in Frame
      /\ [s[p] EXCEPT !.seenAt = count].id = s[p].id
      /\ [s[p] EXCEPT !.seenAt = count].home = s[p].home
      /\ [s[p] EXCEPT !.seenAt = count].barrier = s[p].barrier
      /\ [s[p] EXCEPT !.seenAt = count].internal = s[p].internal
      /\ [s[p] EXCEPT !.seenAt = count].opaque = s[p].opaque
  BY <1>1 DEF Frame
<1>3. [s EXCEPT ![p].seenAt = count] = [s EXCEPT ![p] = [s[p] EXCEPT !.seenAt = count]]
  OBVIOUS
<1>4. [s EXCEPT ![p] = [s[p] EXCEPT !.seenAt = count]] \in Seq(Frame)
  BY <1>2
<1> QED
  BY <1>2, <1>3, <1>4 DEF SameFrames

\* The trampoline's number of frames changes.
LEMMA Reframe ==
  ASSUME NEW c, Ready(c), c[Len(c)].kind = "tramp", NEW m \in Nat \ {0}
  PROVE  /\ CtlOK([c EXCEPT ![Len(c)].frames = m], c[Len(c)].height + m, "run")
         /\ BasesOK([c EXCEPT ![Len(c)].frames = m], tailBase, callbackBase)
<1> DEFINE n == Len(c)
           act == [c[n] EXCEPT !.frames = m]
           d == [c EXCEPT ![n] = act]
           len == c[n].height + m
<1>1. /\ c \in Seq(Activation) /\ n \in Nat \ {0} /\ ActOK(c[n]) /\ n \in 1 .. n
      /\ c[n].height \in Nat \ {0}
  <2>1. Stacked(c, Len(stack)) /\ c # <<>>
    BY DEF Ready
  <2>2. ActOK(c[n]) /\ n \in Nat \ {0}
    BY <2>1, HeightIn
  <2>3. c[n].height \in Nat \ {0}
    BY <2>2 DEF ActOK, Activation
  <2> QED
    BY <2>1, <2>2, <2>3 DEF Stacked
<1>2. /\ act \in Activation /\ act.kind = c[n].kind /\ act.height = c[n].height
      /\ act.saved = c[n].saved /\ act.frames = m
      /\ act.fn = c[n].fn /\ act.arg = c[n].arg
  BY <1>1 DEF ActOK, Activation
<1>3. ActOK(act)
  BY <1>1, <1>2 DEF ActOK
<1>4. [c EXCEPT ![Len(c)].frames = m] = d
  OBVIOUS
<1> HIDE DEF act
<1>5. /\ d \in Seq(Activation) /\ Len(d) = n /\ d[n] = act
      /\ \A i \in 1 .. n : i # n => d[i] = c[i]
  BY <1>1, <1>2
<1> HIDE DEF d
<1>6. \A i \in 1 .. n : /\ d[i].kind = c[i].kind /\ d[i].height = c[i].height
                        /\ d[i].saved = c[i].saved
  BY <1>2, <1>5
<1>7. \A i \in 1 .. n - 1 : d[i].frames = c[i].frames /\ i \in 1 .. n /\ i + 1 \in 1 .. n
  BY <1>1, <1>5
<1>8. Stacked(c, Len(stack)) /\ BasesOK(c, tailBase, callbackBase)
  BY DEF Ready
<1>9. BasesOK(d, tailBase, callbackBase)
  BY <1>1, <1>5, <1>6, <1>8, SameBases DEF SameActs
<1>10. \A i \in 1 .. n : ActOK(d[i])
  BY <1>3, <1>5, <1>8 DEF Stacked
<1>11. \A i \in 1 .. n : d[i].kind = "evaluate" <=> i = 1
  BY <1>6, <1>8 DEF Stacked
<1>12. ASSUME NEW i \in 1 .. n - 1
       PROVE  StartedBy(d[i + 1], d[i])
  <2>1. StartedBy(c[i + 1], c[i])
    BY <1>8 DEF Stacked
  <2>2. d[i + 1].frames = c[i + 1].frames \/ d[i + 1].frames = m
    BY <1>2, <1>5, <1>7
  <2> QED
    BY <1>6, <1>7, <2>1, <2>2 DEF StartedBy
<1>13. len \in Nat \ {0} /\ d # <<>> /\ d[Len(d)].height + d[Len(d)].frames = len
  BY <1>1, <1>2, <1>5
<1> HIDE DEF len
<1>14. Stacked(d, len) /\ Exact(d, len)
  BY <1>5, <1>10, <1>11, <1>12, <1>13 DEF Stacked, Exact
<1> QED
  BY <1>4, <1>9, <1>13, <1>14 DEF CtlOK, len

\* A call goes on in the same frame whatever is popped above that frame.
LEMMA BarrierKept ==
  ASSUME NEW s, NEW n, NEW h, StackOK(s, n), HeapOK(h, s, n),
         NEW fn \in Fns, ~ AtCaller(h[fn]),
         NEW k \in 1 .. Len(s), BarrierFor(s, h[fn]) <= k
  PROVE  BarrierFor(Cut(s, k), h[fn]) = BarrierFor(s, h[fn])
<1>1. CASE h[fn].foreign
  BY <1>1 DEF BarrierFor
<1>2. CASE ~ h[fn].foreign
  <2>1. OnePath(s, h[fn].chain)
    BY <1>2 DEF HeapOK
  <2>2. BarrierFor(s, h[fn]) = InnermostLive(s, h[fn].chain)
        /\ BarrierFor(Cut(s, k), h[fn]) = InnermostLive(Cut(s, k), h[fn].chain)
    BY <1>2 DEF BarrierFor
  <2> QED
    BY <2>1, <2>2, CutOnePath
<1> QED
  BY <1>1, <1>2

\* A frame for the callee above the first k frames.
LEMMA TailFrameOK ==
  ASSUME IInv, NEW fn \in Fns, NEW arg \in Value, ~ AtCaller(heap[fn]),
         NEW k \in 1 .. Len(stack), BarrierFor(stack, heap[fn]) <= k,
         NEW s, s \in Seq(Frame), SameFrames(Cut(stack, k), s),
         NEW f, f = TailCallFrame(heap[fn], BarrierFor(stack, heap[fn]),
                                  HomeOf(Cut(stack, k), heap[fn]), BodyBindings(fn, arg))
  PROVE  /\ f \in Frame /\ Len(Append(s, f)) = k + 1
         /\ StackOK(Append(s, f), nextId + 1) /\ HeapOK(heap, Append(s, f), nextId + 1)
<1> DEFINE t == Cut(stack, k)
           at == BarrierFor(t, heap[fn])
           home == HomeOf(t, heap[fn])
<1>1. StackOK(t, nextId) /\ HeapOK(heap, t, nextId) /\ Len(t) = k
  BY StackFacts, CutBoth
<1>2. at = BarrierFor(stack, heap[fn])
  BY StackFacts, BarrierKept
<1> HIDE DEF t
<1>3. at \in 1 .. Len(t) /\ home = Sees(t, at)
  BY <1>1, BarrierOK
<1>4. StackOK(s, nextId) /\ HeapOK(heap, s, nextId) /\ Len(s) = k
  BY <1>1, SameBoth DEF t
<1> HIDE DEF at, home
<1>5. at \in 1 .. Len(s) /\ t[at].id = s[at].id /\ t[at].home = s[at].home
  BY <1>1, <1>3, <1>4 DEF SameFrames, t
<1>6. Sees(t, at) = Sees(s, at)
  <2>1. Sees(t, at) = {t[at].id} \cup t[at].home
    BY <1>1, <1>3 DEF StackOK, Lexical
  <2>2. Sees(s, at) = {s[at].id} \cup s[at].home
    BY <1>4, <1>5 DEF StackOK, Lexical
  <2> QED
    BY <1>5, <2>1, <2>2
<1>7. f = TailCallFrame(heap[fn], at, home, BodyBindings(fn, arg))
  BY <1>2 DEF t, home
<1> QED
  BY <1>3, <1>4, <1>5, <1>6, <1>7, PushCallFrame

LEMMA TailCallOK ==
  ASSUME IInv, mode = "run", mode' = "run", NEW c, Ready(c), c[Len(c)].kind = "tramp",
         NEW fn \in Fns, NEW arg \in Value, TailCall(c, fn, arg)
  PROVE  IInv'
<1> DEFINE tramp == c[Len(c)]
           first == Top(stack) - tramp.frames + 1
           held == Held(SubSeq(c, 1, Len(c) - 1), fn) \cup ({arg} \cap Fns)
           barrier == BarrierFor(stack, heap[fn])
           asked == {p \in first .. Top(stack) :
                       p = first \/ MustStay(Cut(stack, p), barrier, held)}
           stop == Highest(asked)
           s == Cut(stack, stop)
           stays == MustStay(s, barrier, held)
           count == IF barrier >= stop THEN s[stop].seenAt
                    ELSE TokenCount(s, heap, outer, held)
           judged == [s EXCEPT ![stop].seenAt = count]
           home == HomeOf(IF stays THEN s ELSE Cut(s, stop - 1), heap[fn])
           frame == TailCallFrame(heap[fn], barrier, home, BodyBindings(fn, arg))
           m == stop - first + (IF stays THEN 2 ELSE 1)
           d == [c EXCEPT ![Len(c)].frames = m]
<1>1. /\ ~ AtCaller(heap[fn]) /\ nextId' = nextId + 1 /\ UNCHANGED <<bases, mode>>
      /\ Settle(IF stays THEN Append(judged, frame) ELSE [s EXCEPT ![stop] = frame],
                heap, outer, d, Data)
  BY Zenon DEF TailCall, SettleStack
<1>2. /\ tramp.height \in Nat \ {0} /\ tramp.frames \in Nat \ {0}
      /\ Len(stack) = tramp.height + tramp.frames
  <2>1. c # <<>> /\ Stacked(c, Len(stack)) /\ Exact(c, Len(stack))
    BY DEF Ready
  <2>2. ActOK(tramp) /\ tramp.height \in 1 .. Len(stack) /\ tramp.frames \in Nat
    BY <2>1, HeightIn
  <2> QED
    BY <2>1, <2>2, StackFacts DEF ActOK, Exact
<1>3. first = tramp.height + 1 /\ first \in 2 .. Len(stack) /\ Top(stack) = Len(stack)
  BY <1>2 DEF Top
<1>4. barrier \in 1 .. Len(stack)
  BY <1>1, StackFacts, BarrierOK
<1> HIDE DEF tramp, first, barrier, held
<1>5. /\ asked \in SUBSET (first .. Len(stack)) /\ asked \in SUBSET (1 .. Len(stack))
      /\ first \in asked
  BY <1>3
<1>6. stop \in asked /\ \A p \in asked : p <= stop
  <2>1. asked # {} /\ Len(stack) \in Nat
    BY <1>5, StackFacts
  <2> HIDE DEF asked
  <2> QED
    BY <1>5, <2>1, HighestExists
<1>7. /\ stop \in first .. Len(stack) /\ stop \in 1 .. Len(stack)
      /\ stop - 1 \in 1 .. Len(stack) /\ stop - 1 \in 1 .. stop
  BY <1>3, <1>5, <1>6
<1>8. barrier <= stop
  <2> SUFFICES ASSUME barrier > stop PROVE FALSE
    BY <1>4, <1>7
  <2>1. barrier \in first .. Len(stack)
    BY <1>3, <1>4, <1>7
  <2>2. Len(Cut(stack, barrier)) = barrier
    <3>1. stack \in Seq(Frame) /\ barrier \in 0 .. Len(stack)
      BY <1>4, StackFacts
    <3> QED
      BY <3>1, CutFrames
  <2>3. MustStay(Cut(stack, barrier), barrier, held)
    BY <1>4, <2>2 DEF MustStay, Top
  <2>4. barrier \in asked
    BY <1>3, <2>1, <2>3
  <2> HIDE DEF asked, stop
  <2> QED
    BY <1>4, <1>6, <1>7, <2>4
<1> HIDE DEF asked, stop
<1>9. StackOK(s, nextId) /\ HeapOK(heap, s, nextId) /\ Len(s) = stop /\ s \in Seq(Frame)
  <2>1. StackOK(s, nextId) /\ HeapOK(heap, s, nextId) /\ Len(s) = stop
    BY <1>7, StackFacts, CutBoth
  <2> QED
    BY <2>1 DEF StackOK
<1>10. outer \in [Ids -> Nat] /\ Data \in Value
  BY DEF IInv, Value
<1>11. CASE stays
  <2>1. count \in Nat
    <3>1. s[stop] \in Frame
      BY <1>7, <1>9, FrameAt
    <3> QED
      BY <3>1, TokenCountOK DEF Frame
  <2>2. frame = TailCallFrame(heap[fn], barrier, HomeOf(s, heap[fn]), BodyBindings(fn, arg))
    BY <1>11
  <2>3. m = stop - first + 2 /\ m \in Nat \ {0} /\ tramp.height + m = stop + 1
    <3>1. m = stop - first + 2
      BY <1>11
    <3> HIDE DEF m, stays
    <3>2. stop \in Nat /\ stop >= first /\ tramp.height \in Nat /\ first = tramp.height + 1
      BY <1>2, <1>3, <1>7
    <3> QED
      BY <3>1, <3>2
  <2>4. Settle(Append(judged, frame), heap, outer, d, Data)
    BY <1>1, <1>11
  <2> HIDE DEF count, stays, frame, m
  <2>5. judged \in Seq(Frame) /\ SameFrames(s, judged)
    <3>1. stop \in 1 .. Len(s)
      BY <1>7, <1>9
    <3> HIDE DEF s
    <3> QED
      BY <1>9, <2>1, <3>1, JudgedFrames
  <2> HIDE DEF judged
  <2>6. /\ Len(Append(judged, frame)) = stop + 1
        /\ StackOK(Append(judged, frame), nextId + 1)
        /\ HeapOK(heap, Append(judged, frame), nextId + 1)
    BY <1>1, <1>7, <1>8, <2>2, <2>5, TailFrameOK DEF barrier
  <2>7. CtlOK(d, tramp.height + m, "run") /\ BasesOK(d, tailBase, callbackBase)
    BY <2>3, Reframe DEF tramp
  <2> HIDE DEF d
  <2> QED
    BY <1>1, <1>10, <2>3, <2>4, <2>6, <2>7, SettleOK DEF bases
<1>12. CASE ~ stays
  <2> DEFINE r == Cut(stack, stop - 1)
  <2>1. Cut(s, stop - 1) = r
    <3>1. stack \in Seq(Frame) /\ stop \in 1 .. Len(stack)
      BY <1>7, StackFacts
    <3> QED
      BY <3>1 DEF Cut
  <2>2. frame = TailCallFrame(heap[fn], barrier, HomeOf(r, heap[fn]), BodyBindings(fn, arg))
    BY <1>12, <2>1
  <2>3. m = stop - first + 1 /\ m \in Nat \ {0} /\ tramp.height + m = stop
    <3>1. m = stop - first + 1
      BY <1>12
    <3> HIDE DEF m, stays
    <3>2. stop \in Nat /\ stop >= first /\ tramp.height \in Nat /\ first = tramp.height + 1
      BY <1>2, <1>3, <1>7
    <3> QED
      BY <3>1, <3>2
  <2>4. Settle([s EXCEPT ![stop] = frame], heap, outer, d, Data)
    BY <1>1, <1>12
  <2>5. barrier <= stop - 1
    BY <1>4, <1>7, <1>8, <1>9, <1>12 DEF MustStay, Top
  <2> HIDE DEF stays, frame, m
  <2>6. r \in Seq(Frame) /\ SameFrames(r, r) /\ Len(r) = stop - 1
        /\ \A p \in 1 .. stop - 1 : r[p] = stack[p]
    <3>1. stack \in Seq(Frame) /\ stop - 1 \in 0 .. Len(stack)
      BY <1>7, StackFacts
    <3> QED
      BY <3>1, CutFrames DEF SameFrames
  <2>7. /\ frame \in Frame /\ Len(Append(r, frame)) = (stop - 1) + 1
        /\ StackOK(Append(r, frame), nextId + 1)
        /\ HeapOK(heap, Append(r, frame), nextId + 1)
    BY <1>1, <1>7, <2>2, <2>5, <2>6, TailFrameOK DEF barrier
  <2>8. [s EXCEPT ![stop] = frame] = Append(r, frame)
    <3>1. \A p \in 1 .. stop : s[p] = stack[p]
      <4>1. stack \in Seq(Frame) /\ stop \in 0 .. Len(stack)
        BY <1>7, StackFacts
      <4> QED
        BY <4>1, CutFrames
    <3> HIDE DEF r, s
    <3> DEFINE u == [s EXCEPT ![stop] = frame]
    <3>2. u \in Seq(Frame) /\ Len(u) = stop /\ u[stop] = frame
          /\ \A p \in 1 .. stop - 1 : u[p] = r[p]
      BY <1>7, <1>9, <2>6, <2>7, <3>1
    <3> DEFINE w == Append(r, frame)
    <3>3. w \in Seq(Frame) /\ Len(w) = stop /\ w[stop] = frame
          /\ \A p \in 1 .. stop - 1 : w[p] = r[p]
      BY <1>7, <2>6, <2>7
    <3> HIDE DEF u, w
    <3>4. \A p \in 1 .. stop : u[p] = w[p]
      BY <1>7, <3>2, <3>3
    <3>5. u = w
      BY <3>2, <3>3, <3>4, SeqEqual
    <3> QED
      BY <3>5 DEF u, w
  <2>9. CtlOK(d, tramp.height + m, "run") /\ BasesOK(d, tailBase, callbackBase)
    BY <2>3, Reframe DEF tramp
  <2> HIDE DEF d, r, s
  <2>10. (stop - 1) + 1 = stop
    BY <1>7
  <2> QED
    BY <1>1, <1>10, <2>3, <2>4, <2>7, <2>8, <2>9, <2>10, SettleOK DEF bases
<1> QED
  BY <1>11, <1>12
-----------------------------------------------------------------------------
(***************************************************************************)
(* Builtins and compositions.                                              *)
(***************************************************************************)
LEMMA ReadyFromCtl ==
  ASSUME NEW c, c # <<>>, CtlOK(c, Len(stack), "run"), BasesOK(c, tailBase, callbackBase)
  PROVE  Ready(c)
BY DEF CtlOK, Ready

LEMMA CompositionOK ==
  ASSUME IInv, NEW fn \in Value, NEW arg \in Value
  PROVE  /\ ActOK(Composition(fn, arg)) /\ Composition(fn, arg).kind = "tail"
         /\ Composition(fn, arg).frames = 0 /\ Composition(fn, arg).height = Len(stack)
<1>1. /\ Act("tail", 0) \in Activation
      /\ Act("tail", 0).kind = "tail" /\ Act("tail", 0).frames = 0
      /\ Act("tail", 0).height = Len(stack)
  BY ActIs DEF Kinds
<1>2. /\ Composition(fn, arg) \in Activation /\ Composition(fn, arg).kind = "tail"
      /\ Composition(fn, arg).frames = 0 /\ Composition(fn, arg).height = Len(stack)
  BY <1>1 DEF Composition, Activation
<1> QED
  BY <1>2, StackFacts DEF ActOK

\* An activation without frames of its own, on a trampoline.
LEMMA PushTail ==
  ASSUME IInv, NEW c, Ready(c), c[Len(c)].kind = "tramp",
         NEW act, ActOK(act), act.kind = "tail", act.height = Len(stack)
  PROVE  /\ CtlOK(Append(c, act), Len(stack), "run")
         /\ BasesOK(Append(c, act), tailBase, callbackBase)
         /\ Ready(Append(c, act))
         /\ Append(c, act)[Len(Append(c, act))] = act
<1>1. act.frames = 0
  BY DEF ActOK
<1>2. /\ CtlOK(Append(c, act), Len(stack) + act.frames, "run")
      /\ BasesOK(Append(c, act), tailBase, callbackBase)
  BY PushReady
<1>3. Len(stack) + act.frames = Len(stack)
  BY <1>1, StackFacts
<1>4. c \in Seq(Activation) /\ act \in Activation
  BY DEF Ready, Stacked, ActOK
<1>5. Append(c, act) # <<>> /\ Append(c, act)[Len(Append(c, act))] = act
  BY <1>4
<1> QED
  BY <1>2, <1>3, <1>5, ReadyFromCtl

\* A composition in tail position of the trampoline last in c.
LEMMA EnterComposition ==
  ASSUME IInv, mode = "run", NEW c, Ready(c), c[Len(c)].kind = "tramp",
         NEW fn \in Value, NEW arg \in Value,
         SettleStack(stack, With(c, Composition(fn, arg)), Data),
         UNCHANGED <<nextId, bases, mode>>
  PROVE  IInv'
<1>1. /\ CtlOK(Append(c, Composition(fn, arg)), Len(stack), "run")
      /\ BasesOK(Append(c, Composition(fn, arg)), tailBase, callbackBase)
  BY CompositionOK, PushTail
<1>2. outer \in [Ids -> Nat] /\ Data \in Value
  BY DEF IInv, Value
<1> QED
  BY <1>1, <1>2, StackFacts, SettleOK DEF SettleStack, With, bases

LEMMA LastValueReady ==
  ASSUME IInv, mode = "run", ctl # <<>>, Here.kind = "tramp"
  PROVE  /\ Ready(LastValue) /\ LastValue[Len(LastValue)].kind = "tail"
         /\ Len(LastValue) = Len(ctl) + 1 /\ \A i \in 1 .. Len(ctl) : LastValue[i] = ctl[i]
<1> DEFINE act == [Act("tail", 0) EXCEPT !.stage = "end"]
<1>1. /\ Act("tail", 0) \in Activation
      /\ Act("tail", 0).kind = "tail" /\ Act("tail", 0).frames = 0
      /\ Act("tail", 0).height = Len(stack)
  BY ActIs DEF Kinds
<1>2. /\ act \in Activation /\ act.kind = "tail" /\ act.frames = 0 /\ act.height = Len(stack)
  BY <1>1 DEF Activation
<1>3. ActOK(act)
  BY <1>2, StackFacts DEF ActOK
<1>4. LastValue = Append(ctl, act)
  BY DEF LastValue, With
<1> HIDE DEF act
<1>5. ctl \in Seq(Activation)
  BY DEF IInv, CtlOK, Stacked
<1>6. Len(LastValue) = Len(ctl) + 1 /\ \A i \in 1 .. Len(ctl) : LastValue[i] = ctl[i]
  BY <1>2, <1>4, <1>5
<1>7. Ready(LastValue) /\ LastValue[Len(LastValue)] = act
  BY <1>2, <1>3, <1>4, ReadyInRun, PushTail DEF Here
<1> QED
  BY <1>2, <1>6, <1>7

\* The frame the innermost trampoline was entered from lies below its frames.
LEMMA TailBaseBelow ==
  ASSUME NEW c, NEW len, Stacked(c, len), NEW tb, NEW cb, BasesOK(c, tb, cb),
         NEW i \in 1 .. Len(c), c[i].kind = "tramp", None(c, "tramp", i + 1, Len(c))
  PROVE  tb = BaseAt(c, i) /\ tb \in 2 .. c[i].height
BY DEF BasesOK, SavesBases, TailBaseIs

LEMMA TailBaseIn ==
  ASSUME IInv, NEW c, Ready(c), c[Len(c)].kind = "tramp"
  PROVE  tailBase \in 2 .. Len(stack) /\ tailBase = BaseAt(c, Len(c))
<1>1. c # <<>> /\ Stacked(c, Len(stack)) /\ BasesOK(c, tailBase, callbackBase)
  BY DEF Ready
<1>2. c[Len(c)].height \in 1 .. Len(stack) /\ Len(c) \in Nat \ {0}
  BY <1>1, HeightIn
<1>3. None(c, "tramp", Len(c) + 1, Len(c)) /\ Len(c) \in 1 .. Len(c)
  BY <1>2 DEF None
<1>4. tailBase = BaseAt(c, Len(c)) /\ tailBase \in 2 .. c[Len(c)].height
  BY <1>1, <1>3, TailBaseBelow
<1> QED
  BY <1>2, <1>4, StackFacts

LEMMA TailCallHofOK ==
  ASSUME IInv, NEW fn \in Value, TailCallHof(fn)
  PROVE  IInv'
<1> DEFINE act == [Act("hof", 1) EXCEPT !.fn = fn, !.saved = callbackBase]
           c == LastValue
           base == <<tailBase, Len(stack) + 1>>
<1>1. /\ mode = "run" /\ ctl # <<>> /\ Here.kind = "tramp"
      /\ mode' = "run" /\ nextId' = nextId + 1
      /\ callbackBase' = base /\ tailBase' = tailBase
      /\ Settle(WithInternal, heap, outer, Append(c, act), Data)
  BY DEF TailCallHof, Running, SettleStack, With
<1>2. /\ Ready(c) /\ c[Len(c)].kind = "tail"
      /\ Len(c) = Len(ctl) + 1 /\ \A i \in 1 .. Len(ctl) : c[i] = ctl[i]
  BY <1>1, LastValueReady
<1>3. callbackBase \in Nat \X Nat
  BY DEF IInv, BasesOK
<1>4. /\ act \in Activation /\ act.kind = "hof" /\ act.frames = 1
      /\ act.height = Len(stack) /\ act.saved = callbackBase
  <2>1. /\ Act("hof", 1) \in Activation
        /\ Act("hof", 1).kind = "hof" /\ Act("hof", 1).frames = 1
        /\ Act("hof", 1).height = Len(stack)
    BY ActIs DEF Kinds
  <2> QED
    BY <1>3, <2>1 DEF Activation
<1>5. ActOK(act)
  BY <1>4, StackFacts DEF ActOK
<1>6. /\ base \in Nat \X Nat /\ base = <<BaseAt(c, Len(c) - 1), act.height + 1>>
      /\ Len(c) > 2
  <2>1. tailBase \in 2 .. Len(stack) /\ tailBase = BaseAt(ctl, Len(ctl))
    BY <1>1, ReadyInRun, TailBaseIn DEF Here
  <2>2. Len(ctl) \in Nat /\ Len(ctl) > 1
    <3>1. Stacked(ctl, Len(stack)) /\ ctl[Len(ctl)].kind # "evaluate"
      BY <1>1, HereOK DEF Here
    <3> QED
      BY <1>1, <3>1, OuterActivation, HeightIn
  <2> HIDE DEF c
  <2>3. BaseAt(c, Len(c) - 1) = BaseAt(ctl, Len(ctl))
    <3>1. /\ Len(c) - 1 = Len(ctl) /\ Len(ctl) \in 1 .. Len(ctl)
          /\ Len(ctl) - 1 \in 1 .. Len(ctl)
      BY <1>2, <2>2
    <3> QED
      BY <1>2, <3>1 DEF BaseAt
  <2> QED
    BY <1>2, <1>4, <2>1, <2>2, <2>3, StackFacts
<1> HIDE DEF act, c, base
<1>7. /\ StackOK(WithInternal, nextId + 1) /\ HeapOK(heap, WithInternal, nextId + 1)
      /\ Len(WithInternal) = Len(stack) + 1
  BY <1>1, PushBlock DEF WithInternal, BlockFrames
<1>8. c \in Seq(Activation) /\ c # <<>>
  BY <1>2 DEF Ready, Stacked
<1>9. Stacked(Append(c, act), Len(stack) + 1)
  <2>1. StartedBy(act, c[Len(c)])
    BY <1>2, <1>4 DEF Ready, Exact, StartedBy
  <2>2. Stacked(Append(c, act), act.height + act.frames)
    BY <1>2, <1>4, <1>5, <2>1, PushStacked DEF Ready
  <2> QED
    BY <1>4, <2>2
<1>10. Append(c, act) # <<>> /\ Append(c, act)[Len(Append(c, act))] = act
  BY <1>4, <1>8
<1>11. CtlOK(Append(c, act), Len(stack) + 1, "run")
  BY <1>4, <1>9, <1>10 DEF CtlOK, Exact
<1>12. BasesOK(Append(c, act), tailBase, base)
  BY <1>2, <1>4, <1>6, <1>8, PushHofBases DEF Ready
<1>13. outer \in [Ids -> Nat] /\ Data \in Value
  BY DEF IInv, Value
<1> QED
  BY <1>1, <1>7, <1>11, <1>12, <1>13, SettleOK

\* The activation of a composition's second call gives way to that call.
LEMMA BelowReady ==
  ASSUME IInv, mode = "run", ctl # <<>>, Here.kind = "tail"
  PROVE  Ready(Below) /\ Below[Len(Below)].kind = "tramp"
<1>1. /\ Stacked(ctl, Len(stack)) /\ BasesOK(ctl, tailBase, callbackBase)
      /\ Len(stack) = Here.height + Here.frames /\ Here.height \in 1 .. Len(stack)
      /\ ActOK(Here) /\ Len(ctl) \in Nat \ {0}
  BY HereOK
<1>2. Here.height = Len(stack) /\ Len(stack) \in Nat
  BY <1>1, StackFacts DEF ActOK
<1>3. Len(ctl) > 1
  BY <1>1, OuterActivation DEF Here
<1>4. Stacked(Below, Len(stack)) /\ Below # <<>> /\ Exact(Below, Len(stack))
  <2>1. ctl[Len(ctl)].height = Len(stack) /\ Len(stack) >= ctl[Len(ctl)].height
    BY <1>2 DEF Here
  <2> QED
    BY <1>1, <1>2, <1>3, <2>1, PopStacked DEF Below
<1>5. BasesOK(Below, tailBase, callbackBase)
  <2>1. RestoredTail(ctl, tailBase) = tailBase
        /\ RestoredCallback(ctl, callbackBase) = callbackBase
    BY DEF RestoredTail, RestoredCallback, Here
  <2>2. ctl \in Seq(Activation)
    BY <1>1 DEF Stacked
  <2> QED
    BY <1>1, <2>1, <2>2, PopBases DEF Below
<1>6. Below[Len(Below)] = ctl[Len(ctl) - 1] /\ ctl[Len(ctl) - 1].kind = "tramp"
  <2>1. ctl \in Seq(Activation) /\ Len(ctl) \in 1 .. Len(ctl)
    BY <1>1 DEF Stacked
  <2>2. ctl[Len(ctl) - 1].kind = "tramp"
    <3>1. Len(ctl) - 1 \in 1 .. Len(ctl) - 1 /\ (Len(ctl) - 1) + 1 = Len(ctl)
      BY <1>1, <1>3
    <3> QED
      BY <1>1, <3>1 DEF Stacked, StartedBy, Here
  <2>3. Below[Len(Below)] = ctl[Len(ctl) - 1]
    BY <1>3, <2>1 DEF Below
  <2> QED
    BY <2>2, <2>3
<1> QED
  BY <1>4, <1>5, <1>6 DEF Ready

LEMMA StageReady ==
  ASSUME IInv, mode = "run", ctl # <<>>, NEW st \in {"f", "g", "end"}
  PROVE  Ready(Stage(st)) /\ Stage(st)[Len(Stage(st))].kind = Here.kind
<1> DEFINE n == Len(ctl)
           act == [Here EXCEPT !.stage = st, !.arg = Data]
           d == [ctl EXCEPT ![n] = act]
<1>1. /\ Stacked(ctl, Len(stack)) /\ Exact(ctl, Len(stack))
      /\ BasesOK(ctl, tailBase, callbackBase) /\ n \in Nat \ {0} /\ ActOK(Here)
  BY HereOK
<1>2. ctl \in Seq(Activation) /\ Here \in Activation /\ n \in 1 .. n /\ Here = ctl[n]
  BY <1>1 DEF Stacked, ActOK, Here
<1>3. /\ act \in Activation /\ act.kind = Here.kind /\ act.height = Here.height
      /\ act.saved = Here.saved /\ act.frames = Here.frames
  BY <1>2 DEF Activation, Value
<1>4. ActOK(act)
  BY <1>1, <1>3 DEF ActOK
<1>5. Stage(st) = d
  BY <1>2 DEF Stage
<1> HIDE DEF act
<1>6. /\ d \in Seq(Activation) /\ Len(d) = n /\ d # <<>>
      /\ \A i \in 1 .. n : d[i] = IF i = n THEN act ELSE ctl[i]
  BY <1>1, <1>2, <1>3
<1> HIDE DEF d
<1>7. \A i \in 1 .. n : /\ d[i].kind = ctl[i].kind /\ d[i].height = ctl[i].height
                        /\ d[i].saved = ctl[i].saved /\ d[i].frames = ctl[i].frames
  BY <1>2, <1>3, <1>6
<1>8. BasesOK(d, tailBase, callbackBase)
  BY <1>1, <1>6, <1>7, SameBases DEF SameActs
<1>9. \A i \in 1 .. n : ActOK(d[i])
  BY <1>1, <1>4, <1>6 DEF Stacked
<1>10. \A i \in 1 .. n : d[i].kind = "evaluate" <=> i = 1
  BY <1>1, <1>7 DEF Stacked
<1>11. \A i \in 1 .. n - 1 : StartedBy(d[i + 1], d[i])
  <2>1. \A i \in 1 .. n - 1 : i \in 1 .. n /\ i + 1 \in 1 .. n
    BY <1>1
  <2> QED
    BY <1>1, <1>7, <2>1 DEF Stacked, StartedBy
<1>12. Stacked(d, Len(stack)) /\ Exact(d, Len(stack))
  BY <1>1, <1>2, <1>6, <1>7, <1>9, <1>10, <1>11 DEF Stacked, Exact
<1>13. d[Len(d)].kind = Here.kind
  BY <1>2, <1>6, <1>7
<1> QED
  BY <1>5, <1>6, <1>8, <1>12, <1>13 DEF Ready
-----------------------------------------------------------------------------
(***************************************************************************)
(* Every action.                                                           *)
(***************************************************************************)
\* An activation that returns a value and pops its one frame.
LEMMA ReturnOK ==
  ASSUME IInv, NEW kinds, kinds \in SUBSET {"block", "merge", "call", "args", "hof", "first"},
         Running(kinds), NEW v \in Value, SettleStack(Pop(stack), Below, v),
         UNCHANGED <<nextId, tailBase, mode>>, callbackBase' = CallbackBaseAfter(Here)
  PROVE  IInv'
<1>1. mode = "run" /\ ctl # <<>> /\ Here.kind \in {"block", "merge", "call", "args", "hof", "first"}
  BY DEF Running
<1>2. Here.frames = 1
  BY <1>1, HereOK DEF ActOK
<1>3. Len(ctl) > 1
  BY <1>1, HereOK, OuterActivation DEF Here
<1>4. /\ tailBase' = RestoredTail(ctl, tailBase)
      /\ callbackBase' = RestoredCallback(ctl, callbackBase)
  BY <1>1 DEF RestoredTail, RestoredCallback, CallbackBaseAfter, Here
<1> QED
  BY <1>1, <1>2, <1>3, <1>4, PopOneOK

\* The next comparison of a merge: its scope is cleared in place.
LEMMA NextComparisonOK ==
  ASSUME IInv, NEW v \in Value, NextComparison(v)
  PROVE  IInv'
<1> DEFINE top == Top(stack)
           f == Cleared(stack[top], v)
           s == OnTop(stack, f)
<1>1. mode = "run" /\ mode' = mode /\ ctl # <<>> /\ nextId' = nextId + 1 /\ UNCHANGED bases
  BY DEF NextComparison, Running
<1>2. Settle(s, heap, outer, ctl, Data)
  BY Zenon DEF NextComparison, SettleStack, OnTop
<1>3. top = Len(stack) /\ top > Root /\ top \in 1 .. Len(stack) /\ stack \in Seq(Frame)
  <2>1. top \in 2 .. Len(stack) /\ Len(stack) \in Nat
    BY <1>1, TopAboveHost, StackFacts
  <2> QED
    BY <2>1, StackFacts DEF Top, Root
<1> HIDE DEF top
<1>4. /\ f \in Frame /\ f.id = nextId
      /\ f.barrier = stack[top].barrier /\ f.home = stack[top].home
      /\ f.internal = stack[top].internal /\ f.opaque = stack[top].opaque
  BY <1>3, FrameAt, ClearedIs, StackFacts
<1> HIDE DEF f
<1>5. StackOK(s, nextId + 1) /\ HeapOK(heap, s, nextId + 1) /\ Len(s) = Len(stack)
  <2>1. StackOK(stack, nextId) /\ HeapOK(heap, stack, nextId)
    BY StackFacts
  <2> QED
    BY <1>3, <1>4, <2>1, ClearBoth
<1>6. /\ CtlOK(ctl, Len(s), mode') /\ BasesOK(ctl, tailBase', callbackBase')
      /\ outer \in [Ids -> Nat] /\ Data \in Value
  BY <1>1, <1>5 DEF IInv, bases, Value
<1> HIDE DEF s
<1> QED
  BY <1>1, <1>2, <1>5, <1>6, SettleOK

LEMMA FinishEvalOK ==
  ASSUME IInv, NEW v \in Value, FinishEval(v)
  PROVE  IInv'
<1>1. /\ mode = "run" /\ ctl # <<>> /\ Here.kind = "eval" /\ mode' = mode
      /\ SettleStack(AfterEval(stack, Here), Below, v) /\ UNCHANGED <<nextId, bases>>
  BY DEF FinishEval, Running
<1>2. Len(ctl) > 1
  BY <1>1, HereOK, OuterActivation DEF Here
<1> QED
  BY <1>1, <1>2, AfterEvalOK

LEMMA UnwindOK ==
  ASSUME IInv, Unwind
  PROVE  IInv'
<1> DEFINE pops == {"block", "call", "first", "args", "hof"}
           s == CASE Here.kind \in pops -> Pop(stack)
                  [] Here.kind = "eval" -> AfterEval(stack, Here)
                  [] OTHER -> stack
<1>1. /\ mode = "err" /\ Len(ctl) > 1 /\ mode' = mode /\ nextId' = nextId
      /\ SettleStack(s, Below, Data)
      /\ tailBase' = TailBaseAfter(Here) /\ callbackBase' = CallbackBaseAfter(Here)
  BY Zenon DEF Unwind
<1>2. ctl # <<>> /\ Data \in Value
  BY <1>1 DEF IInv, CtlOK, Value
<1>3. /\ tailBase' = RestoredTail(ctl, tailBase)
      /\ callbackBase' = RestoredCallback(ctl, callbackBase)
  BY <1>1 DEF RestoredTail, RestoredCallback, TailBaseAfter, CallbackBaseAfter, Here
<1>4. CASE Here.kind \in pops
  <2>1. s = Pop(stack)
    BY <1>4
  <2>2. Here.frames = 1
    BY <1>2, <1>4, HereOK DEF ActOK
  <2> HIDE DEF s
  <2> QED
    BY <1>1, <1>2, <1>3, <2>1, <2>2, PopOneOK
<1>5. CASE Here.kind = "eval"
  <2>1. s = AfterEval(stack, Here)
    BY <1>5
  <2>2. UNCHANGED <<nextId, bases>>
    BY <1>1, <1>5 DEF TailBaseAfter, CallbackBaseAfter, bases
  <2> HIDE DEF s
  <2> QED
    BY <1>1, <1>2, <1>5, <2>1, <2>2, AfterEvalOK
<1>6. CASE Here.kind \notin pops /\ Here.kind # "eval"
  <2>1. s = stack
    BY <1>6
  <2> HIDE DEF s
  <2> QED
    BY <1>1, <1>2, <1>3, <2>1, PopNoneOK
<1> QED
  BY <1>4, <1>5, <1>6

LEMMA ComposeSecondOK ==
  ASSUME IInv, ComposeSecond
  PROVE  IInv'
<1> DEFINE g == heap[Here.fn].g
<1>1. /\ mode = "run" /\ ctl # <<>> /\ Here.kind = "tail"
      /\ \/ /\ g \in Fns /\ AtCaller(heap[g])
            /\ SettleStack(stack, With(Below, Composition(g, hand)), Data)
            /\ UNCHANGED <<nextId, bases, mode>>
         \/ g \in Fns /\ TailCall(Below, g, hand)
         \/ g \in Fns /\ ~ heap[g].thunk /\ Apply(Stage("end"), g, hand)
         \/ g = EvalFn /\ StartEval(Stage("end"), tailBase)
  BY Zenon DEF ComposeSecond, Running
<1>2. /\ Ready(Below) /\ Below[Len(Below)].kind = "tramp"
      /\ Ready(Stage("end")) /\ Stage("end")[Len(Stage("end"))].kind = "tail"
  BY <1>1, BelowReady, StageReady
<1>3. hand \in Value
  BY DEF IInv
<1> HIDE DEF g
<1>4. CASE /\ g \in Fns /\ AtCaller(heap[g])
           /\ SettleStack(stack, With(Below, Composition(g, hand)), Data)
           /\ UNCHANGED <<nextId, bases, mode>>
  <2>1. g \in Value
    BY <1>4 DEF Value
  <2> QED
    BY <1>1, <1>2, <1>3, <1>4, <2>1, EnterComposition
<1>5. CASE g \in Fns /\ TailCall(Below, g, hand)
  <2>1. mode' = "run"
    BY <1>1, <1>5 DEF TailCall
  <2> QED
    BY <1>1, <1>2, <1>3, <1>5, <2>1, TailCallOK
<1>6. CASE g \in Fns /\ ~ heap[g].thunk /\ Apply(Stage("end"), g, hand)
  BY <1>1, <1>2, <1>3, <1>6, ApplyOK
<1>7. CASE g = EvalFn /\ StartEval(Stage("end"), tailBase)
  <2>1. tailBase \in 2 .. Len(stack)
    BY <1>2, TailBaseIn
  <2> QED
    BY <1>1, <1>2, <1>7, <2>1, StartEvalOK
<1> QED
  BY <1>1, <1>4, <1>5, <1>6, <1>7

LEMMA InitOK == Init => IInv
<1> SUFFICES ASSUME Init PROVE IInv
  OBVIOUS
<1> DEFINE f == NewFrame(0, NoBarrier, {})
<1>1. /\ stack = <<f>> /\ nextId = 1 /\ tailBase = 1 /\ callbackBase = <<0, 0>>
      /\ outer = [t \in Ids |-> 0] /\ ctl = <<>> /\ mode = "idle"
  BY DEF Init, Root
<1>2. /\ f \in Frame /\ f.id = 0 /\ f.barrier = 0 /\ f.home = {}
  <2>1. f = NewFrame(0, 0, {}) /\ {} \in SUBSET Nat /\ 0 \in Nat
    BY DEF NoBarrier
  <2> HIDE DEF f
  <2> QED
    BY <2>1, NewFrameOK
<1> HIDE DEF f
<1>3. /\ stack \in Seq(Frame) /\ Len(stack) = 1 /\ stack[1] = f
  BY <1>1, <1>2
<1>4. Grounded(stack) /\ Ordered(stack, nextId)
  BY <1>1, <1>2, <1>3 DEF Grounded, Ordered
<1>5. Lexical(stack)
  <2>1. Path(stack, 1) \in SUBSET (1 .. 1) /\ 1 \in Path(stack, 1)
    BY <1>3, <1>4, PathClosed
  <2>2. Sees(stack, 1) = {0}
    BY <1>2, <1>3, <2>1 DEF Sees
  <2>3. \A p \in 1 .. Len(stack) : p = 1
    BY <1>3
  <2> QED
    BY <1>2, <1>3, <2>2, <2>3 DEF Lexical
<1>6. StackOK(stack, nextId)
  <2>1. Sheltered(stack)
    BY <1>3 DEF Sheltered
  <2> QED
    BY <1>1, <1>3, <1>4, <1>5, <2>1 DEF StackOK
<1>7. HeapOK(heap, stack, nextId) /\ hand \in Value
  <2>1. PICK foreign \in SUBSET Fns :
          /\ heap = [e \in Fns |->
               IF e \in foreign
               THEN [FreeSlot EXCEPT !.kind = "lambda", !.thunk = TRUE,
                                     !.foreign = TRUE, !.chain = {<<2, 1>>}]
               ELSE FreeSlot]
          /\ hand \in IF foreign = {} THEN {Data} ELSE foreign
    BY DEF Init
  <2> DEFINE c == [FreeSlot EXCEPT !.kind = "lambda", !.thunk = TRUE,
                                   !.foreign = TRUE, !.chain = {<<2, 1>>}]
  <2>2. /\ FreeSlot \in Closure /\ FreeSlot.kind = "free" /\ FreeSlot.chain = {}
    BY FreeSlotOK DEF FreeSlot
  <2>3. c \in Closure /\ c.kind = "lambda" /\ c.foreign = TRUE
    <3>1. {<<2, 1>>} \in SUBSET (Nat \X Nat)
      OBVIOUS
    <3>2. c \in Closure
      BY <2>2, <3>1 DEF Closure
    <3> QED
      BY <2>2, <3>2 DEF Closure
  <2> HIDE DEF c
  <2>4. OnePath(stack, {}) /\ ChainBefore({}, nextId)
    BY <1>6, NoChain
  <2>5. heap \in [Fns -> Closure] /\ \A e \in Fns : heap[e] \in {c, FreeSlot}
    BY <2>1, <2>2, <2>3 DEF c
  <2>6. HeapOK(heap, stack, nextId)
    BY <2>2, <2>3, <2>4, <2>5 DEF HeapOK
  <2> QED
    BY <2>1, <2>6 DEF Value
<1>8. CtlOK(ctl, Len(stack), mode)
  BY <1>1, <1>3 DEF CtlOK, Stacked
<1>9. BasesOK(ctl, tailBase, callbackBase)
  <2>1. Len(ctl) = 0
    BY <1>1
  <2> QED
    BY <1>1, <2>1 DEF BasesOK, TailBaseIs, CallbackBaseIs, Root
<1>10. outer \in [Ids -> Nat]
  BY <1>1
<1> QED
  BY <1>6, <1>7, <1>8, <1>9, <1>10 DEF IInv

LEMMA NextOK == IInv /\ [Next]_vars => IInv'
<1> SUFFICES ASSUME IInv, [Next]_vars PROVE IInv'
  OBVIOUS
<1> USE DEF Running
<1>1. Avail \subseteq Value /\ hand \in Value /\ Data \in Value
  BY AvailOK DEF IInv, Value
<1>2. ASSUME Evaluate PROVE IInv'
  BY <1>2, EvaluateOK
<1>3. ASSUME NEW n \in Names, HostBind(n) PROVE IInv'
  <2> DEFINE b == [stack[Root].bind EXCEPT ![n] = hand]
             s == [stack EXCEPT ![Root].bind = b]
  <2>1. Root \in 1 .. Len(stack) /\ stack \in Seq(Frame)
    BY StackFacts DEF Root
  <2>2. b \in Bindings
    BY <1>1, <2>1, FrameAt DEF Bindings
  <2>3. /\ SettleStack(s, ctl, Data) /\ UNCHANGED <<nextId, bases, mode>>
    <3>1. [stack EXCEPT ![Root].bind[n] = hand] = s
      BY <2>1
    <3> QED
      BY <1>3, <3>1, Zenon DEF HostBind
  <2> HIDE DEF b
  <2>4. s \in Seq(Frame) /\ SameFrames(stack, s)
    BY <2>1, <2>2, BindFrames
  <2> HIDE DEF s
  <2> QED
    BY <1>1, <2>3, <2>4, SameStep DEF SettleStack, IInv
<1>4. ASSUME NEW v \in Avail, Finish(v) PROVE IInv'
  BY <1>1, <1>4, FinishOK
<1>5. ASSUME NEW v \in Avail, ExitBlock(v) PROVE IInv'
  <2>1. callbackBase' = CallbackBaseAfter(Here) /\ UNCHANGED tailBase
    BY <1>5 DEF ExitBlock, CallbackBaseAfter, bases
  <2>2. Running({"block"}) /\ SettleStack(Pop(stack), Below, v) /\ UNCHANGED <<nextId, mode>>
    BY <1>5 DEF ExitBlock
  <2> QED
    BY <1>1, <2>1, <2>2, ReturnOK
<1>6. ASSUME NEW v \in Avail, Return(v) PROVE IInv'
  <2>1. callbackBase' = CallbackBaseAfter(Here) /\ UNCHANGED tailBase
    BY <1>6 DEF Return, CallbackBaseAfter, bases
  <2>2. Running({"call"}) /\ SettleStack(Pop(stack), Below, v) /\ UNCHANGED <<nextId, mode>>
    BY <1>6 DEF Return
  <2> QED
    BY <1>1, <2>1, <2>2, ReturnOK
<1>7. ASSUME NEW v \in Avail, ReturnFromTrampoline(v) PROVE IInv'
  <2>1. mode = "run" /\ mode' = "run" /\ ctl[Len(ctl)].kind = "tramp" /\ LeaveTrampoline(ctl, v)
    BY <1>7 DEF ReturnFromTrampoline, Here
  <2> QED
    BY <1>1, <2>1, ReadyInRun, LeaveTrampolineOK
<1>8. ASSUME EnterBlock PROVE IInv'
  <2> DEFINE act == ActOn("block", Data, Data)
  <2>1. Act("block", 1) = act /\ BlockFrame \in BlockFrames
    BY <1>1, ActPlain DEF Kinds, BlockFrames
  <2>2. /\ mode = "run" /\ nextId' = nextId + 1 /\ UNCHANGED <<bases, mode>>
        /\ SettleStack(Append(stack, BlockFrame), With(ctl, act), Data)
    BY <1>8, <2>1 DEF EnterBlock, InBody
  <2> QED
    BY <1>1, <2>1, <2>2, ReadyInRun, EnterOK
<1>9. ASSUME NEW self \in {{}} \cup {{n} : n \in Names \ {Param}}, NEW thunk \in BOOLEAN,
             NEW free \in SUBSET (Names \ {Param}), Define(self, thunk, free)
      PROVE  IInv'
  <2>1. self \in SUBSET Names /\ free \in SUBSET Names
    OBVIOUS
  <2> QED
    BY <1>9, <2>1, DefineOK
<1>10. ASSUME NEW n \in Names, NEW v \in Avail, Assign(n, v) PROVE IInv'
  <2> DEFINE top == Top(stack)
             b == [stack[top].bind EXCEPT ![n] = v]
             s == [stack EXCEPT ![top].bind = b]
  <2>1. top \in 1 .. Len(stack) /\ stack \in Seq(Frame)
    BY StackFacts DEF Top
  <2>2. b \in Bindings
    BY <1>1, <2>1, FrameAt DEF Bindings
  <2>3. /\ SettleStack(s, ctl, Data) /\ UNCHANGED <<nextId, bases, mode>>
    <3>1. [stack EXCEPT ![top].bind[n] = v] = s
      BY <2>1
    <3> QED
      BY <1>10, <3>1, Zenon DEF Assign
  <2> HIDE DEF b, top
  <2>4. s \in Seq(Frame) /\ SameFrames(stack, s)
    BY <2>1, <2>2, BindFrames
  <2> HIDE DEF s
  <2> QED
    BY <1>1, <2>3, <2>4, SameStep DEF SettleStack, IInv
<1>11. ASSUME NEW fn \in Avail \cap Fns, NEW arg \in Avail, Call(fn, arg) PROVE IInv'
  BY <1>1, <1>11, ReadyInRun, ApplyOK DEF Call, InBody
<1>12. ASSUME NEW fn \in Avail \cap Fns, NEW arg \in Avail, CallInTailPosition(fn, arg)
       PROVE  IInv'
  <2>1. /\ mode = "run" /\ mode' = "run" /\ ctl[Len(ctl)].kind = "tramp"
        /\ TailCall(ctl, fn, arg)
    BY <1>12 DEF CallInTailPosition, TailCall, Here
  <2> QED
    BY <1>1, <2>1, ReadyInRun, TailCallOK
<1>13. ASSUME NEW fn \in Avail \cap Fns, NEW arg \in Avail, TailCallComposition(fn, arg)
       PROVE  IInv'
  <2>1. /\ mode = "run" /\ ctl[Len(ctl)].kind = "tramp"
        /\ SettleStack(stack, With(ctl, Composition(fn, arg)), Data)
        /\ UNCHANGED <<nextId, bases, mode>>
    BY <1>13 DEF TailCallComposition, Here
  <2> QED
    BY <1>1, <2>1, ReadyInRun, EnterComposition
<1>14. ASSUME TailTimeout PROVE IInv'
  <2>1. /\ mode = "run" /\ mode' = "err" /\ ctl[Len(ctl)].kind = "tramp"
        /\ LeaveTrampoline(ctl, Data)
    BY <1>14 DEF TailTimeout, Here
  <2> QED
    BY <1>1, <2>1, ReadyInRun, LeaveTrampolineOK
<1>15. ASSUME NEW fn \in Avail \ {Data}, CallHof(fn) PROVE IInv'
  <2>1. /\ mode = "run" /\ nextId' = nextId + 1 /\ UNCHANGED <<bases, mode>>
        /\ SettleStack(WithInternal,
                       With(ctl, ActOn("args", fn, Data)), Data)
    <3>1. [Act("args", 1) EXCEPT !.fn = fn] = ActOn("args", fn, Data)
      BY <1>1, ActPlain DEF Kinds
    <3> QED
      BY <1>15, <3>1 DEF CallHof, InBody
  <2>2. /\ WithInternal = Append(stack, [BlockFrame EXCEPT !.internal = TRUE])
        /\ [BlockFrame EXCEPT !.internal = TRUE] \in BlockFrames
    BY DEF WithInternal, BlockFrames
  <2> QED
    BY <1>1, <2>1, <2>2, ReadyInRun, EnterOK
<1>16. ASSUME NEW fn \in Avail \ {Data}, TailCallHof(fn) PROVE IInv'
  BY <1>1, <1>16, TailCallHofOK
<1>17. ASSUME NEW v \in {hand, Data}, ApplyCallback(v) PROVE IInv'
  BY <1>1, <1>17, ReadyInRun, ApplyOK DEF ApplyCallback
<1>18. ASSUME NEW v \in {hand, Data}, FinishHof(v) PROVE IInv'
  <2>1. /\ Running({"args", "hof"}) /\ SettleStack(Pop(stack), Below, v)
        /\ UNCHANGED <<nextId, tailBase, mode>> /\ callbackBase' = CallbackBaseAfter(Here)
    BY <1>18 DEF FinishHof
  <2> QED
    BY <1>1, <2>1, ReturnOK
<1>19. ASSUME CallEval \/ ApplyEval PROVE IInv'
  <2>1. mode = "run" /\ ctl # <<>> /\ ctl[Len(ctl)].kind # "hof" /\ StartEval(ctl, Top(stack))
    BY <1>19 DEF CallEval, ApplyEval, InBody, Here
  <2> QED
    BY <2>1, TopAboveHost, ReadyInRun, StartEvalOK
<1>20. ASSUME TailCallEval PROVE IInv'
  <2>1. mode = "run" /\ ctl # <<>> /\ Here.kind = "tramp" /\ StartEval(LastValue, tailBase)
    BY <1>20 DEF TailCallEval
  <2>2. tailBase \in 2 .. Len(stack)
    BY <2>1, ReadyInRun, TailBaseIn DEF Here
  <2>3. Ready(LastValue) /\ LastValue[Len(LastValue)].kind # "hof"
    BY <2>1, LastValueReady
  <2> QED
    BY <2>1, <2>2, <2>3, StartEvalOK
<1>21. ASSUME UseEval PROVE IInv'
  <2>1. SettleStack(stack, ctl, EvalFn) /\ UNCHANGED <<nextId, bases, mode>>
    BY <1>21 DEF UseEval
  <2>2. stack \in Seq(Frame) /\ SameFrames(stack, stack) /\ EvalFn \in Value
    BY StackFacts DEF SameFrames, Value
  <2> QED
    BY <2>1, <2>2, SameStep DEF SettleStack, IInv
<1>22. ASSUME NEW v \in Avail, FinishEval(v) PROVE IInv'
  BY <1>1, <1>22, FinishEvalOK
<1>23. ASSUME NEW f \in Avail \ {Data}, NEW g \in Avail \ {Data}, Compose(f, g) PROVE IInv'
  BY <1>1, <1>23, ComposeOK
<1>24. ASSUME ComposeFirst PROVE IInv'
  <2>1. /\ mode = "run" /\ ctl # <<>> /\ heap[Here.fn].f \in Fns
        /\ Apply(Stage("g"), heap[Here.fn].f, Here.arg)
    BY <1>24 DEF ComposeFirst
  <2>2. Here.arg \in Value
    BY <2>1, HereOK DEF ActOK, Activation
  <2> QED
    BY <2>1, <2>2, StageReady, ApplyOK
<1>25. ASSUME FirstCalls PROVE IInv'
  <2>1. /\ mode = "run" /\ ctl # <<>> /\ Here.kind = "first"
        /\ \/ Here.fn \in Fns /\ Apply(Stage("end"), Here.fn, Here.arg)
           \/ StartEval(Stage("end"), Top(stack))
    BY <1>25 DEF FirstCalls
  <2>2. Here.arg \in Value
    BY <2>1, HereOK DEF ActOK, Activation
  <2>3. Ready(Stage("end")) /\ Stage("end")[Len(Stage("end"))].kind # "hof"
    BY <2>1, StageReady
  <2> QED
    BY <2>1, <2>2, <2>3, TopAboveHost, ApplyOK, StartEvalOK
<1>26. ASSUME ReturnFromFirst PROVE IInv'
  <2>1. Running({"first"}) /\ SettleStack(Pop(stack), Below, hand)
        /\ UNCHANGED <<nextId, tailBase, mode>>
    BY <1>26 DEF ReturnFromFirst, bases
  <2>2. callbackBase' = CallbackBaseAfter(Here)
    BY <1>26 DEF ReturnFromFirst, CallbackBaseAfter, bases
  <2> QED
    BY <1>1, <2>1, <2>2, ReturnOK
<1>27. ASSUME ComposeSecond PROVE IInv'
  BY <1>27, ComposeSecondOK
<1>28. ASSUME ReturnLast PROVE IInv'
  <2>1. /\ mode = "run" /\ mode' = "run" /\ ctl # <<>> /\ Here.kind = "tail"
        /\ LeaveTrampoline(Below, hand)
    BY <1>28 DEF ReturnLast
  <2> QED
    BY <1>1, <2>1, BelowReady, LeaveTrampolineOK
<1>29. ASSUME Fail PROVE IInv'
  <2>1. /\ SettleStack(stack, ctl, Data) /\ UNCHANGED <<nextId, bases>>
        /\ mode = "run" /\ mode' = "err"
    BY <1>29 DEF Fail
  <2>2. stack \in Seq(Frame) /\ SameFrames(stack, stack)
    BY StackFacts DEF SameFrames
  <2> QED
    BY <1>1, <2>1, <2>2, SameStep DEF SettleStack, IInv
<1>30. ASSUME Unwind PROVE IInv'
  BY <1>30, UnwindOK
<1>31. ASSUME UNCHANGED vars PROVE IInv'
  BY <1>31 DEF vars, IInv
<1>32. ASSUME NEW v \in Avail, StartMerge(v) PROVE IInv'
  <2> DEFINE f == Cleared(BlockFrame, v)
             act == ActOn("merge", Data, v)
  <2>1. [Act("merge", 1) EXCEPT !.arg = v] = act /\ f \in BlockFrames
    BY <1>1, ActPlain DEF Kinds, BlockFrames
  <2>2. /\ mode = "run" /\ nextId' = nextId + 1 /\ UNCHANGED <<bases, mode>>
        /\ SettleStack(Append(stack, f), With(ctl, act), Data)
    BY <1>32, <2>1 DEF StartMerge, InBody
  <2> HIDE DEF f
  <2> QED
    BY <1>1, <2>1, <2>2, ReadyInRun, EnterOK
<1>33. ASSUME NEW v \in Avail, EndMerge(v) PROVE IInv'
  <2>1. callbackBase' = CallbackBaseAfter(Here) /\ UNCHANGED tailBase
    BY <1>33 DEF EndMerge, CallbackBaseAfter, bases
  <2>2. Running({"merge"}) /\ SettleStack(Pop(stack), Below, v) /\ UNCHANGED <<nextId, mode>>
    BY <1>33 DEF EndMerge
  <2> QED
    BY <1>1, <2>1, <2>2, ReturnOK
<1>34. ASSUME NEW v \in Value, NextComparison(v) PROVE IInv'
  BY <1>34, NextComparisonOK
<1> HIDE DEF Running
<1> QED
  BY <1>2, <1>3, <1>4, <1>5, <1>6, <1>7, <1>8, <1>9, <1>10, <1>11, <1>12, <1>13,
     <1>14, <1>15, <1>16, <1>17, <1>18, <1>19, <1>20, <1>21, <1>22, <1>23, <1>24,
     <1>25, <1>26, <1>27, <1>28, <1>29, <1>30, <1>31, <1>32, <1>33, <1>34 DEF Next
-----------------------------------------------------------------------------
(***************************************************************************)
(* The theorems.                                                           *)
(***************************************************************************)
\* Every state an evaluator reaches has the inductive invariant.
THEOREM Invariance == Spec => []IInv
<1>1. Init => IInv
  BY InitOK
<1>2. IInv /\ [Next]_vars => IInv'
  BY NextOK
<1> QED
  BY <1>1, <1>2, PTL DEF Spec

\* The scope stack, the closures and the evaluator's locals keep their types:
\* scope_stack is never empty, and every activation's saved values are indices.
THEOREM TypesKept == Spec => []TypeOK
<1>1. IInv => TypeOK
  <2> SUFFICES ASSUME IInv PROVE TypeOK
    OBVIOUS
  <2>1. stack \in Seq(Frame) /\ Len(stack) >= 1 /\ nextId \in Nat
    BY StackFacts
  <2>2. tailBase \in Nat /\ callbackBase \in Nat \X Nat
    BY DEF IInv, BasesOK
  <2>3. heap \in [Fns -> Closure] /\ outer \in [Ids -> Nat] /\ hand \in Value
    BY DEF IInv, HeapOK
  <2>4. ctl \in Seq(Activation) /\ mode \in {"idle", "run", "err"}
    BY DEF IInv, CtlOK, Stacked
  <2> QED
    BY <2>1, <2>2, <2>3, <2>4 DEF TypeOK
<1> QED
  BY <1>1, Invariance, PTL

\* Context::lookup_from ends: it only ever moves towards the root.
THEOREM LookupsEnd == Spec => []BarriersBelow
<1>1. IInv => BarriersBelow
  <2> SUFFICES ASSUME IInv PROVE BarriersBelow
    OBVIOUS
  <2>1. \A p \in 1 .. Len(stack) : stack[p].barrier \in 0 .. p - 1
    BY StackFacts DEF Grounded
  <2>2. 1 \in 1 .. Len(stack)
    BY StackFacts
  <2>3. stack[1].barrier = 0
    BY <2>1, <2>2
  <2> QED
    BY <2>1, <2>3 DEF BarriersBelow, Root, NoBarrier
<1> QED
  BY <1>1, Invariance, PTL

\* Context::def_scope may name a frame by its id: no two frames have the same.
THEOREM IdsUnique == Spec => []IdsGrow
<1>1. IInv => IdsGrow
  <2> SUFFICES ASSUME IInv PROVE IdsGrow
    OBVIOUS
  <2>1. Ordered(stack, nextId) /\ Len(stack) \in 1 .. Len(stack)
    BY StackFacts DEF StackOK
  <2> QED
    BY <2>1 DEF Ordered, IdsGrow
<1> QED
  BY <1>1, Invariance, PTL

\* So a lookup always ends, and finds no frame in another's place (Context::lookup,
\* push_frame).
THEOREM FramesOrdered == Spec => []FramesInOrder
<1>1. BarriersBelow /\ IdsGrow => FramesInOrder
  BY DEF FramesInOrder
<1> QED
  BY <1>1, LookupsEnd, IdsUnique, PTL

\* The `debug_assert` of Evaluator::evaluate: whatever ran, an evaluation that
\* succeeds has popped every scope it pushed.
THEOREM ScopesPopped == Spec => []StackBalanced
<1>1. IInv => StackBalanced
  <2> SUFFICES ASSUME IInv PROVE StackBalanced
    OBVIOUS
  <2>1. Stacked(ctl, Len(stack)) /\ (mode = "run" => Exact(ctl, Len(stack)))
    BY DEF IInv, CtlOK
  <2>2. \A i \in 1 .. Len(ctl) - 1 : ctl[i + 1].height = ctl[i].height + ctl[i].frames
    BY <2>1 DEF Stacked, StartedBy
  <2>3. ctl # <<>> => Len(stack) >= ctl[Len(ctl)].height + ctl[Len(ctl)].frames
    BY <2>1 DEF Stacked
  <2>4. ctl # <<>> /\ mode = "run" => Len(stack) = ctl[Len(ctl)].height + ctl[Len(ctl)].frames
    BY <2>1 DEF Exact
  <2> QED
    BY <2>2, <2>3, <2>4, Zenon DEF StackBalanced
<1> QED
  BY <1>1, Invariance, PTL

\* Lexical scoping, through every call, tail call, composition and `$eval`: code
\* looks names up in the frames it is written in, and in no other.
THEOREM LexicalScoping == Spec => []LexicalScope
<1>1. IInv => LexicalScope
  BY StackFacts DEF StackOK, Lexical, LexicalScope
<1> QED
  BY <1>1, Invariance, PTL

\* An evaluation leaves the evaluator as it found it, whether it succeeds or
\* fails: no scope of its own, and no base of a tail call it was in.
THEOREM HostRestored == Spec => []EntryRestored
<1>1. IInv => EntryRestored
  <2> SUFFICES ASSUME IInv, mode = "idle"
               PROVE  Len(stack) = 1 /\ tailBase = Root /\ callbackBase = <<0, 0>>
    BY DEF EntryRestored
  <2>1. ctl = <<>> /\ Len(stack) = 1
    BY DEF IInv, CtlOK
  <2>2. Len(ctl) = 0
    BY <2>1
  <2>3. None(ctl, "tramp", 1, Len(ctl)) /\ None(ctl, "hof", 1, Len(ctl))
    BY <2>2 DEF None
  <2> QED
    BY <2>1, <2>3 DEF IInv, BasesOK, TailBaseIs, CallbackBaseIs
<1> QED
  BY <1>1, Invariance, PTL

\* Context::tail_base, wherever it is read: the frame the innermost tail-call loop
\* was entered from, or for a callback of a builtin in tail position the one the
\* builtin's loop was entered from (tail_call_hof's callback_base).
THEOREM TailBaseCorrect == Spec => []TailBaseExact
<1>1. IInv => TailBaseExact
  <2> SUFFICES ASSUME IInv PROVE TailBaseExact
    OBVIOUS
  <2>1. TailBaseIs(ctl, Len(ctl), tailBase) /\ Len(ctl) \in Nat /\ DOMAIN ctl = 1 .. Len(ctl)
    BY DEF IInv, BasesOK, CtlOK, Stacked
  <2>2. CASE Trampolines = {}
    <3>1. None(ctl, "tramp", 1, Len(ctl))
      BY <2>1, <2>2 DEF Trampolines, None
    <3> QED
      BY <2>1, <2>2, <3>1 DEF TailBaseExact, TailBaseIs
  <2>3. CASE Trampolines # {}
    <3> DEFINE i == Highest(Trampolines)
    <3>1. Trampolines \in SUBSET (1 .. Len(ctl))
      BY <2>1 DEF Trampolines
    <3>2. i \in Trampolines /\ \A q \in Trampolines : q <= i
      BY <2>1, <2>3, <3>1, HighestExists
    <3> HIDE DEF i
    <3>3. i \in 1 .. Len(ctl) /\ ctl[i].kind = "tramp"
      BY <2>1, <3>2 DEF Trampolines
    <3>4. \A k \in i + 1 .. Len(ctl) : k \notin Trampolines /\ k \in DOMAIN ctl
      BY <2>1, <3>2, <3>3
    <3>5. None(ctl, "tramp", i + 1, Len(ctl))
      BY <3>4 DEF None, Trampolines
    <3>6. tailBase = BaseAt(ctl, i)
      BY <2>1, <3>3, <3>5 DEF TailBaseIs
    <3> QED
      BY <2>3, <3>6 DEF TailBaseExact, BaseAt, i
  <2> QED
    BY <2>2, <2>3
<1> QED
  BY <1>1, Invariance, PTL
=============================================================================
