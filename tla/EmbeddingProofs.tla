---------------------------- MODULE EmbeddingProofs ----------------------------
(***************************************************************************)
(* What the library promises its hosts: the error slot and the handles of  *)
(* the C ABI, the stack CPython is told it runs on, drops that free        *)
(* nothing early, and wrappers of Python's dicts that read alike.          *)
(***************************************************************************)
EXTENDS MCEmbedding, HostFunctionsProofs, WellFoundedInduction

LEMMA FrontIs ==
  ASSUME NEW S, NEW s \in Seq(S), s # <<>>
  PROVE  /\ Front(s) \in Seq(S) /\ Len(Front(s)) = Len(s) - 1 /\ Len(s) \in Nat \ {0}
         /\ \A i \in 1 .. Len(s) - 1 : Front(s)[i] = s[i]
<1> DEFINE n == Len(s) - 1
<1>1. Len(s) \in Nat \ {0} /\ n \in 0 .. Len(s)
  OBVIOUS
<1>2. Front(s) = SubSeq(s, 1, n)
  BY DEF Front
<1>3. \A i \in 1 .. n : i \in 1 .. Len(s)
  BY <1>1
<1> HIDE DEF n
<1>4. Front(s) \in Seq(S) /\ Len(Front(s)) = n /\ \A i \in 1 .. n : Front(s)[i] = s[i]
  BY <1>1, <1>2, <1>3
<1> QED
  BY <1>1, <1>4 DEF n

(***************************************************************************)
(* Handles of the C ABI.                                                   *)
(***************************************************************************)
Errors == {"argument", "registration", "no text", "evaluation", "panic"}

Setting ==
  [vars : [BindNames -> Nat], fns : [HostNames -> {"none", "own", "override"}], limits : Nat,
   bytecode : {"unknown", "made", "none"}]

\* What an evaluation or callback under way is, and what stands on a handle.
CallRecord ==
  [who : {"eval"}, on : Handles, how : {"vm", "tree"}, vars : [BindNames -> Nat],
   fns : [HostNames -> {"none", "own", "override"}], limits : Nat] \cup {Callback}

Accepted(s) ==
  \A n \in HostNames : s.fns[n] # "none" => Accepts(n, s.fns[n] = "override")

HandleInv ==
  /\ handles \in [Handles -> Setting] /\ \A h \in Handles : Accepted(handles[h])
  /\ calls \in Seq(CallRecord) /\ Len(calls) <= MaxNested
  /\ settings \in 0 .. MaxSettings
  /\ replied \in {"ok", "undefined"} \cup Errors
  /\ SlotOfLastCall

LEMMA SucceedsTells ==
  ASSUME Succeeds
  PROVE  replied' \in {"ok", "undefined"} \cup Errors /\ SlotOfLastCall'
BY DEF Succeeds, SlotOfLastCall

LEMMA FailsTells ==
  ASSUME NEW error \in Errors, Fails(error)
  PROVE  replied' \in {"ok", "undefined"} \cup Errors /\ SlotOfLastCall'
BY DEF Fails, SlotOfLastCall, Errors

LEMMA ChangeKeeps ==
  ASSUME HandleInv, NEW h \in Handles, NEW s \in Setting, Accepted(s), Changes(h, s)
  PROVE  HandleInv'
<1>1. /\ settings' \in 0 .. MaxSettings /\ calls' = calls
      /\ handles' = [handles EXCEPT ![h] = s]
  BY HandleAssumption DEF HandleInv, Changes
<1>2. handles' \in [Handles -> Setting] /\ \A k \in Handles : Accepted(handles'[k])
  BY <1>1 DEF HandleInv
<1>3. replied' \in {"ok", "undefined"} \cup Errors /\ SlotOfLastCall'
  BY SucceedsTells DEF Changes
<1> QED
  BY <1>1, <1>2, <1>3 DEF HandleInv

LEMMA ReplyKeeps ==
  ASSUME HandleInv, UNCHANGED <<handles, calls, settings>>,
         replied' \in {"ok", "undefined"} \cup Errors, SlotOfLastCall'
  PROVE  HandleInv'
BY DEF HandleInv

LEMMA CallKeeps ==
  ASSUME HandleInv, NEW call \in CallRecord, Len(calls) < MaxNested,
         calls' = Append(calls, call), UNCHANGED <<slot, settings, replied>>,
         handles' \in [Handles -> Setting], \A h \in Handles : Accepted(handles'[h])
  PROVE  HandleInv'
<1>1. calls \in Seq(CallRecord)
  BY DEF HandleInv
<1>2. calls' \in Seq(CallRecord) /\ Len(calls') = Len(calls) + 1
  BY <1>1
<1>3. Len(calls') <= MaxNested
  BY <1>1, <1>2, HandleAssumption
<1> QED
  BY <1>2, <1>3 DEF HandleInv, SlotOfLastCall

LEMMA ReturnKeeps ==
  ASSUME HandleInv, calls # <<>>, calls' = Front(calls), UNCHANGED <<handles, settings>>,
         replied' \in {"ok", "undefined"} \cup Errors, SlotOfLastCall'
  PROVE  HandleInv'
<1>1. calls \in Seq(CallRecord) /\ Len(calls) <= MaxNested
  BY DEF HandleInv
<1>2. Len(calls) \in Nat \ {0}
  BY <1>1
<1>3. calls' \in Seq(CallRecord) /\ Len(calls') = Len(calls) - 1
  BY <1>1, FrontIs
<1>4. Len(calls') <= MaxNested
  BY <1>1, <1>2, <1>3, HandleAssumption
<1> QED
  BY <1>3, <1>4 DEF HandleInv

LEMMA EvaluationIs ==
  ASSUME NEW h \in Handles, NEW how \in {"vm", "tree"}, NEW s \in Setting
  PROVE  Evaluation(h, how, s) \in CallRecord
<1>1. /\ s.vars \in [BindNames -> Nat] /\ s.fns \in [HostNames -> {"none", "own", "override"}]
      /\ s.limits \in Nat
  BY DEF Setting
<1> QED
  BY <1>1 DEF Evaluation, CallRecord

LEMMA HandlesStart == HandleInit => HandleInv
<1> SUFFICES ASSUME HandleInit PROVE HandleInv
  OBVIOUS
<1>1. NewHandle \in Setting /\ Accepted(NewHandle)
  BY DEF NewHandle, Setting, Accepted
<1>2. handles \in [Handles -> Setting] /\ \A h \in Handles : Accepted(handles[h])
  BY <1>1 DEF HandleInit
<1>3. calls = <<>> /\ settings = 0 /\ replied = "ok" /\ SlotOfLastCall
  BY DEF HandleInit, SlotOfLastCall
<1> QED
  BY <1>2, <1>3, HandleAssumption DEF HandleInv

LEMMA HandlesKept ==
  ASSUME HandleInv, [HandleNext]_handleVars
  PROVE  HandleInv'
<1>0. /\ handles \in [Handles -> Setting] /\ \A h \in Handles : Accepted(handles[h])
  BY DEF HandleInv
<1>1. CASE UNCHANGED handleVars
  BY <1>1 DEF handleVars, HandleInv, SlotOfLastCall
<1>2. CASE Refused
  <2>1. replied' \in {"ok", "undefined"} \cup Errors /\ SlotOfLastCall'
    BY <1>2, FailsTells DEF Refused, Errors
  <2> QED
    BY <1>2, <2>1, ReplyKeeps DEF Refused
<1>3. ASSUME NEW h \in Handles, Parsed(h) PROVE HandleInv'
  BY <1>3, SucceedsTells, ReplyKeeps DEF Parsed
<1>4. ASSUME NEW h \in Handles, SetLimits(h) PROVE HandleInv'
  <2> DEFINE s == [handles[h] EXCEPT !.limits = @ + 1]
  <2>1. s \in Setting
    BY <1>0 DEF Setting
  <2>2. Accepted(s)
    BY <1>0 DEF Accepted, Setting
  <2> QED
    BY <1>4, <2>1, <2>2, ChangeKeeps DEF SetLimits
<1>5. ASSUME NEW h \in Handles, NEW n \in BindNames, BindVar(h, n) PROVE HandleInv'
  <2> DEFINE s == [handles[h] EXCEPT !.vars[n] = @ + 1]
  <2>1. s \in Setting
    <3>1. handles[h] \in Setting /\ handles[h].vars \in [BindNames -> Nat]
      BY <1>0 DEF Setting
    <3>2. [handles[h].vars EXCEPT ![n] = @ + 1] \in [BindNames -> Nat]
      BY <3>1
    <3> QED
      BY <3>1, <3>2 DEF Setting
  <2>2. Accepted(s)
    BY <1>0 DEF Accepted, Setting
  <2> QED
    BY <1>5, <2>1, <2>2, ChangeKeeps DEF BindVar
<1>6. ASSUME NEW h \in Handles, NEW n \in HostNames, NEW override \in BOOLEAN, Register(h, n, override)
      PROVE  HandleInv'
  <2>1. CASE Accepts(n, override)
    <3> DEFINE kind == IF override THEN "override" ELSE "own"
               s == [handles[h] EXCEPT !.fns[n] = kind]
    <3>1. s \in Setting
      BY <1>0 DEF Setting
    <3>2. handles[h] \in Setting /\ Accepted(handles[h])
      BY <1>0
    <3>3. \A m \in HostNames : s.fns[m] = IF m = n THEN kind ELSE handles[h].fns[m]
      BY <3>2 DEF Setting
    <3>4. Accepts(n, kind = "override")
      BY <2>1
    <3>5. Accepted(s)
      BY <3>2, <3>3, <3>4 DEF Accepted
    <3>6. Changes(h, s)
      BY <1>6, <2>1 DEF Register
    <3> QED
      BY <3>1, <3>5, <3>6, ChangeKeeps
  <2>2. CASE ~ Accepts(n, override)
    <3>1. Fails("registration") /\ UNCHANGED <<handles, calls, settings>>
      BY <1>6, <2>2 DEF Register
    <3> QED
      BY <3>1, FailsTells, ReplyKeeps DEF Errors
  <2> QED
    BY <2>1, <2>2
<1>7. ASSUME NEW h \in Handles, Evaluate(h) PROVE HandleInv'
  <2>1. Len(calls) < MaxNested /\ UNCHANGED <<slot, settings, replied>>
    BY <1>7 DEF Evaluate
  <2>2. CASE MayCompile(handles[h])
    <3> DEFINE how == IF Made(h) = "made" THEN "vm" ELSE "tree"
    <3>1. Made(h) \in {"unknown", "made", "none"}
      BY <1>0 DEF Made, Setting
    <3>2. /\ handles' = [handles EXCEPT ![h].bytecode = Made(h)]
          /\ calls' = Append(calls, Evaluation(h, how, handles[h]))
      BY <1>7, <2>2 DEF Evaluate
    <3>3. /\ handles' \in [Handles -> Setting]
          /\ \A k \in Handles : handles'[k].fns = handles[k].fns
      BY <1>0, <3>1, <3>2 DEF Setting
    <3>4. \A k \in Handles : Accepted(handles'[k])
      BY <1>0, <3>3 DEF Accepted
    <3>5. Evaluation(h, how, handles[h]) \in CallRecord
      BY <1>0, EvaluationIs
    <3> QED
      BY <2>1, <3>2, <3>3, <3>4, <3>5, CallKeeps
  <2>3. CASE ~ MayCompile(handles[h])
    <3>1. /\ UNCHANGED handles
          /\ calls' = Append(calls, Evaluation(h, "tree", handles[h]))
      BY <1>7, <2>3 DEF Evaluate
    <3>2. Evaluation(h, "tree", handles[h]) \in CallRecord
      BY <1>0, EvaluationIs
    <3> QED
      BY <1>0, <2>1, <3>1, <3>2, CallKeeps
  <2> QED
    BY <2>2, <2>3
<1>8. ASSUME NEW n \in HostNames, CallHost(n) PROVE HandleInv'
  <2>1. Callback \in CallRecord
    BY DEF Callback, CallRecord
  <2> QED
    BY <1>0, <1>8, <2>1, CallKeeps DEF CallHost
<1>9. CASE CallbackReturns
  <2>1. replied' \in {"ok", "undefined"} \cup Errors /\ SlotOfLastCall'
    BY <1>9 DEF CallbackReturns, HandleInv, SlotOfLastCall
  <2> QED
    BY <1>9, <2>1, ReturnKeeps DEF CallbackReturns
<1>10. ASSUME NEW result \in Results, EvaluateReturns(result) PROVE HandleInv'
  <2>1. replied' \in {"ok", "undefined"} \cup Errors /\ SlotOfLastCall'
    BY <1>10 DEF EvaluateReturns, Results, Errors, AfterValue, SlotOfLastCall
  <2> QED
    BY <1>10, <2>1, ReturnKeeps DEF EvaluateReturns
<1> QED
  BY <1>1, <1>2, <1>3, <1>4, <1>5, <1>6, <1>7, <1>8, <1>9, <1>10 DEF HandleNext

LEMMA HandlesAlways == HandleSpec => []HandleInv
<1>1. HandleInv /\ [HandleNext]_handleVars => HandleInv'
  BY HandlesKept
<1> QED
  BY <1>1, HandlesStart, PTL DEF HandleSpec

\* The state's parts keep their types, and every registration that stands is one
\* an evaluation may copy (register_host_fn).
THEOREM HandlesTyped == HandleSpec => []HandleTypeOK
<1>1. HandleInv => HandleTypeOK
  <2> SUFFICES ASSUME HandleInv PROVE HandleTypeOK
    OBVIOUS
  <2>1. \A h \in Handles : handles[h] \in Setting /\ Accepted(handles[h])
    BY DEF HandleInv
  <2>2. \A h \in Handles :
          /\ handles[h].bytecode \in {"unknown", "made", "none"}
          /\ handles[h].fns \in [HostNames -> {"none", "own", "override"}]
    BY <2>1 DEF Setting
  <2>3. \A h \in Handles, n \in CompiledFns : handles[h].fns[n] = "none"
    BY <2>1, <2>2, HandleAssumption DEF Accepted, Accepts
  <2>4. slot \in {"empty", "argument", "registration"} \cup Results
    BY DEF HandleInv, SlotOfLastCall, Results, Errors
  <2> QED
    BY <2>1, <2>2, <2>3, <2>4 DEF HandleInv, Accepted, HandleTypeOK
<1> QED
  BY <1>1, HandlesAlways, PTL

\* The error slot speaks of the call that returned last, however many calls its
\* callbacks made in between, on whatever handles (clear_error, set_error,
\* jsonata_evaluate).
THEOREM SlotTells == HandleSpec => []SlotOfLastCall
<1>1. HandleInv => SlotOfLastCall
  BY DEF HandleInv
<1> QED
  BY <1>1, HandlesAlways, PTL

-----------------------------------------------------------------------------
(***************************************************************************)
(* The stack under Python callbacks.                                       *)
(***************************************************************************)
LEMMA MaxIs ==
  ASSUME NEW S \in SUBSET Nat, NEW x \in S, \A y \in S : y <= x
  PROVE  Max(S) = x
<1>1. x \in S /\ \A y \in S : x >= y
  OBVIOUS
<1>2. Max(S) \in S /\ \A y \in S : Max(S) >= y
  BY <1>1, Zenon DEF Max
<1>3. Max(S) \in Nat /\ x \in Nat /\ Max(S) >= x /\ Max(S) <= x
  BY <1>2
<1> QED
  BY <1>3

LEMMA MaxOfBounded ==
  ASSUME NEW S \in SUBSET Nat, S # {}, NEW b \in Nat, \A y \in S : y <= b
  PROVE  Max(S) \in S /\ \A y \in S : y <= Max(S)
<1> DEFINE above == {n \in Nat : \A y \in S : y <= n}
<1>1. above \in SUBSET Nat /\ b \in above
  OBVIOUS
<1>2. PICK x \in above : \A y \in above : x <= y
  BY <1>1, LeastExists
<1>3. x \in S
  <2> SUFFICES ASSUME x \notin S PROVE FALSE
    OBVIOUS
  <2>1. \A y \in S : y < x
    BY <1>2
  <2>2. x - 1 \in above
    <3>1. PICK y \in S : y < x
      BY <2>1
    <3>2. x - 1 \in Nat
      BY <1>2, <3>1
    <3>3. \A z \in S : z <= x - 1
      BY <1>2, <2>1
    <3> QED
      BY <3>2, <3>3
  <2> QED
    BY <1>2, <2>2
<1> QED
  BY <1>2, <1>3, MaxIs

\* The protected calls of c, outermost first, are at the places m, and l lists the
\* segments they run on.
Places(c, l, m) ==
  /\ m \in [1 .. Len(l) -> 1 .. Len(c)]
  /\ \A j, k \in 1 .. Len(l) : j < k => m[j] < m[k]
  /\ \A i \in 1 .. Len(c) : c[i].how = "protected" => \E k \in 1 .. Len(l) : m[k] = i
  /\ \A k \in 1 .. Len(l) : c[m[k]].how = "protected" /\ l[k] = c[m[k]].segment

\* The innermost protected call among the first i of c is at j, or there is none.
InnermostMoved(c, i, j) ==
  /\ j \in 0 .. i /\ (j # 0 => c[j].how = "protected")
  /\ \A k \in 1 .. i : k > j => c[k].how # "protected"

SegmentOf(c, j) == IF j = 0 THEN Main ELSE c[j].segment

\* None of the first i calls had no way to set the bounds, nor did not know where it
\* started.
AllKnown(c, i) ==
  \A j \in 1 .. i : c[j].how # "unprotected" /\ (c[j].who = "eval" => c[j].entry # Nowhere)

\* An evaluation is called from Python code and, near where it started, is on that
\* code's segment; Python code is called directly only there.
CalledRight(c, i) ==
  /\ c[i].who = "eval" =>
       /\ i > 1 /\ c[i - 1].who = "python" /\ c[i].how = "direct"
       /\ c[i].near => c[i].segment = c[i - 1].segment
  /\ c[i].how = "host" => c[i].segment = Main

\* Python code is on the segment of the innermost protected call.
OnItsStack(c, i) ==
  c[i].who = "python" /\ AllKnown(c, i) =>
    \E j \in 0 .. i : InnermostMoved(c, i, j) /\ c[i].segment = SegmentOf(c, j)

\* Every call of c is right; `can` says whether CPython's bounds can be set.
CallsRight(c, can) ==
  /\ c \in Seq(PyCall) /\ c # <<>> /\ c[1].who = "python"
  /\ \A i \in 1 .. Len(c) : CalledRight(c, i)
  /\ can => \A i \in 1 .. Len(c) : OnItsStack(c, i)
  /\ \E b \in Nat : \A i \in 1 .. Len(c) : c[i].segment <= b

PyInv ==
  /\ api \in BOOLEAN /\ measured \in BOOLEAN
  /\ CallsRight(pyCalls, api)
  /\ protected \in Seq(Nat) /\ \E m : Places(pyCalls, protected, m)
  /\ bounds = BoundsAfter(protected)

\* What holds of the first calls does not depend on those after them.
LEMMA SamePrefix ==
  ASSUME NEW c, NEW d, NEW i \in Nat, \A k \in 1 .. i : c[k] = d[k]
  PROVE  /\ i >= 1 /\ CalledRight(c, i) => CalledRight(d, i)
         /\ i >= 1 /\ OnItsStack(c, i) => OnItsStack(d, i)
         /\ AllKnown(c, i) <=> AllKnown(d, i)
         /\ \A j : InnermostMoved(c, i, j) <=> InnermostMoved(d, i, j)
<1>1. AllKnown(c, i) <=> AllKnown(d, i)
  BY DEF AllKnown
<1>2. \A j \in 0 .. i : SegmentOf(c, j) = SegmentOf(d, j)
  BY DEF SegmentOf
<1>3. ASSUME NEW j \in 0 .. i PROVE InnermostMoved(c, i, j) <=> InnermostMoved(d, i, j)
  <2>1. j # 0 => c[j] = d[j]
    OBVIOUS
  <2> QED
    BY <2>1 DEF InnermostMoved
<1>4. \A j : InnermostMoved(c, i, j) <=> InnermostMoved(d, i, j)
  BY <1>3 DEF InnermostMoved
<1>5. i >= 1 => c[i] = d[i] /\ (i > 1 => c[i - 1] = d[i - 1])
  OBVIOUS
<1>6. i >= 1 /\ CalledRight(c, i) => CalledRight(d, i)
  BY <1>5 DEF CalledRight
<1>7. i >= 1 /\ OnItsStack(c, i) => OnItsStack(d, i)
  BY <1>1, <1>2, <1>4, <1>5 DEF OnItsStack
<1> QED
  BY <1>1, <1>4, <1>6, <1>7

\* The innermost protected call is the one the list ends with.
LEMMA InnermostIsLast ==
  ASSUME NEW c \in Seq(PyCall), NEW l \in Seq(Nat), NEW m, Places(c, l, m)
  PROVE  \E j \in 0 .. Len(c) : /\ InnermostMoved(c, Len(c), j)
                                /\ BoundsAfter(l) = SegmentOf(c, j)
<1> DEFINE n == Len(l)
<1>1. n \in Nat /\ Len(c) \in Nat
  OBVIOUS
<1>2. /\ m \in [1 .. n -> 1 .. Len(c)] /\ \A j, k \in 1 .. n : j < k => m[j] < m[k]
      /\ \A i \in 1 .. Len(c) : c[i].how = "protected" => \E k \in 1 .. n : m[k] = i
      /\ \A k \in 1 .. n : c[m[k]].how = "protected" /\ l[k] = c[m[k]].segment
  BY DEF Places
<1>3. BoundsAfter(l) = IF n = 0 THEN Main ELSE l[n]
  BY DEF BoundsAfter, Last
<1> HIDE DEF n
<1>4. CASE n = 0
  <2>1. InnermostMoved(c, Len(c), 0)
    BY <1>1, <1>2, <1>4 DEF InnermostMoved
  <2> QED
    BY <1>1, <1>3, <1>4, <2>1 DEF SegmentOf
<1>5. CASE n # 0
  <2>1. n \in 1 .. n /\ m[n] \in 1 .. Len(c)
    BY <1>1, <1>2, <1>5
  <2>2. \A k \in 1 .. n : m[k] <= m[n]
    <3> TAKE k \in 1 .. n
    <3>1. k = n \/ k < n
      BY <1>1
    <3>2. m[k] \in Nat /\ m[n] \in Nat
      BY <1>2, <2>1
    <3> QED
      BY <1>2, <2>1, <3>1, <3>2
  <2>3. InnermostMoved(c, Len(c), m[n])
    <3>1. \A i \in 1 .. Len(c) : i > m[n] => c[i].how # "protected"
      BY <1>2, <2>1, <2>2
    <3> QED
      BY <1>2, <2>1, <3>1 DEF InnermostMoved
  <2>4. BoundsAfter(l) = SegmentOf(c, m[n])
    BY <1>2, <1>3, <1>5, <2>1 DEF SegmentOf
  <2> QED
    BY <2>1, <2>3, <2>4
<1> QED
  BY <1>4, <1>5

LEMMA InnermostIsOne ==
  ASSUME NEW c, NEW i \in Nat, NEW j, NEW k, InnermostMoved(c, i, j), InnermostMoved(c, i, k)
  PROVE  j = k
BY DEF InnermostMoved

\* A call that is not protected leaves the list as it is ...
LEMMA PlacesCalled ==
  ASSUME NEW c \in Seq(PyCall), NEW l \in Seq(Nat), NEW m, Places(c, l, m),
         NEW f \in PyCall, f.how # "protected"
  PROVE  Places(Append(c, f), l, m)
<1> DEFINE d == Append(c, f)
<1>1. /\ Len(c) \in Nat /\ Len(d) = Len(c) + 1 /\ d[Len(c) + 1] = f
      /\ \A i \in 1 .. Len(c) : d[i] = c[i]
  OBVIOUS
<1> HIDE DEF d
<1>2. m \in [1 .. Len(l) -> 1 .. Len(d)] /\ \A k \in 1 .. Len(l) : m[k] \in 1 .. Len(c)
  <2>1. m \in [1 .. Len(l) -> 1 .. Len(c)]
    BY DEF Places
  <2>2. 1 .. Len(c) \subseteq 1 .. Len(d)
    BY <1>1
  <2> QED
    BY <2>1, <2>2
<1>3. \A i \in 1 .. Len(d) : d[i].how = "protected" => i \in 1 .. Len(c)
  BY <1>1
<1> QED
  BY <1>1, <1>2, <1>3 DEF Places, d

\* ... and a protected one is put at its end.
LEMMA PlacesProtected ==
  ASSUME NEW c \in Seq(PyCall), NEW l \in Seq(Nat), NEW m, Places(c, l, m),
         NEW f \in PyCall, f.how = "protected"
  PROVE  \E p : Places(Append(c, f), Append(l, f.segment), p)
<1> DEFINE d == Append(c, f)
           n == Len(l)
           t == Append(l, f.segment)
           p == [k \in 1 .. n + 1 |-> IF k <= n THEN m[k] ELSE Len(c) + 1]
<1>1. /\ Len(c) \in Nat /\ Len(d) = Len(c) + 1 /\ d[Len(c) + 1] = f
      /\ \A i \in 1 .. Len(c) : d[i] = c[i]
  OBVIOUS
<1>2. f.segment \in Nat
  BY DEF PyCall
<1>3. n \in Nat /\ Len(t) = n + 1 /\ t[n + 1] = f.segment /\ \A k \in 1 .. n : t[k] = l[k]
  BY <1>2
<1>4. /\ m \in [1 .. n -> 1 .. Len(c)] /\ \A j, k \in 1 .. n : j < k => m[j] < m[k]
      /\ \A i \in 1 .. Len(c) : c[i].how = "protected" => \E k \in 1 .. n : m[k] = i
      /\ \A k \in 1 .. n : c[m[k]].how = "protected" /\ l[k] = c[m[k]].segment
  BY DEF Places
<1> HIDE DEF d, n, t
<1>5. p[n + 1] = Len(c) + 1 /\ \A k \in 1 .. n : p[k] = m[k] /\ p[k] \in 1 .. Len(c)
  <2>1. n + 1 \in 1 .. n + 1 /\ ~ (n + 1 <= n)
    BY <1>3
  <2>2. \A k \in 1 .. n : k \in 1 .. n + 1 /\ k <= n
    BY <1>3
  <2> QED
    BY <1>4, <2>1, <2>2
<1>6. p \in [1 .. n + 1 -> 1 .. Len(d)]
  BY <1>1, <1>3, <1>4
<1> HIDE DEF p
<1>7. \A k \in 1 .. n + 1 : k = n + 1 \/ k \in 1 .. n
  BY <1>3
<1>8. \A j, k \in 1 .. n + 1 : j < k => p[j] < p[k]
  <2> TAKE j, k \in 1 .. n + 1
  <2> HAVE j < k
  <2>1. j \in 1 .. n
    BY <1>3
  <2>2. CASE k = n + 1
    BY <1>1, <1>5, <2>1, <2>2
  <2>3. CASE k \in 1 .. n
    BY <1>4, <1>5, <2>1, <2>3
  <2> QED
    BY <1>7, <2>2, <2>3
<1>9. \A i \in 1 .. Len(d) : d[i].how = "protected" => \E k \in 1 .. n + 1 : p[k] = i
  <2> TAKE i \in 1 .. Len(d)
  <2> HAVE d[i].how = "protected"
  <2>1. CASE i = Len(c) + 1
    BY <1>3, <1>5, <2>1
  <2>2. CASE i \in 1 .. Len(c)
    <3>1. PICK k \in 1 .. n : m[k] = i
      BY <1>1, <1>4, <2>2
    <3> QED
      BY <1>3, <1>5, <3>1
  <2> QED
    BY <1>1, <2>1, <2>2
<1>10. \A k \in 1 .. n + 1 : d[p[k]].how = "protected" /\ t[k] = d[p[k]].segment
  <2> TAKE k \in 1 .. n + 1
  <2>1. CASE k = n + 1
    BY <1>1, <1>3, <1>5, <2>1
  <2>2. CASE k \in 1 .. n
    <3>1. p[k] = m[k] /\ p[k] \in 1 .. Len(c) /\ d[p[k]] = c[m[k]] /\ t[k] = l[k]
      BY <1>1, <1>3, <1>5, <2>2
    <3> QED
      BY <1>4, <2>2, <3>1
  <2> QED
    BY <1>7, <2>1, <2>2
<1>11. Places(d, t, p)
  BY <1>3, <1>6, <1>8, <1>9, <1>10 DEF Places
<1> QED
  BY <1>11 DEF d, t

\* When a call that is not protected returns, or an evaluation goes elsewhere, the
\* list stays right ...
LEMMA PlacesStay ==
  ASSUME NEW c \in Seq(PyCall), NEW l \in Seq(Nat), NEW m, Places(c, l, m), c # <<>>,
         Last(c).how # "protected", NEW d, Len(d) \in {Len(c) - 1, Len(c)},
         \A i \in 1 .. Len(c) - 1 : d[i] = c[i],
         Len(d) = Len(c) => d[Len(c)].how # "protected"
  PROVE  Places(d, l, m)
<1> DEFINE n == Len(l)
           top == Len(c)
<1>1. top \in Nat \ {0} /\ n \in Nat
  OBVIOUS
<1>2. /\ m \in [1 .. n -> 1 .. top] /\ \A j, k \in 1 .. n : j < k => m[j] < m[k]
      /\ \A i \in 1 .. top : c[i].how = "protected" => \E k \in 1 .. n : m[k] = i
      /\ \A k \in 1 .. n : c[m[k]].how = "protected" /\ l[k] = c[m[k]].segment
  BY DEF Places
<1>3. c[top].how # "protected"
  BY DEF Last
<1>4. /\ Len(d) \in {top - 1, top} /\ \A i \in 1 .. top - 1 : d[i] = c[i]
      /\ Len(d) = top => d[top].how # "protected"
  OBVIOUS
<1> HIDE DEF n, top
<1>5. \A k \in 1 .. n : m[k] \in 1 .. top - 1
  <2> TAKE k \in 1 .. n
  <2>1. m[k] \in 1 .. top /\ m[k] # top
    BY <1>2, <1>3
  <2> QED
    BY <1>1, <2>1
<1>6. m \in [1 .. n -> 1 .. Len(d)]
  <2>1. 1 .. top - 1 \subseteq 1 .. Len(d)
    BY <1>1, <1>4
  <2> QED
    BY <1>2, <1>5, <2>1
<1>7. \A i \in 1 .. Len(d) : d[i].how = "protected" => \E k \in 1 .. n : m[k] = i
  <2> TAKE i \in 1 .. Len(d)
  <2>1. i \in 1 .. top - 1 \/ (i = top /\ Len(d) = top)
    BY <1>1, <1>4
  <2>2. i \in 1 .. top - 1 => d[i] = c[i] /\ i \in 1 .. top
    BY <1>1, <1>4
  <2> QED
    BY <1>2, <1>4, <2>1, <2>2
<1>8. \A k \in 1 .. n : d[m[k]] = c[m[k]]
  BY <1>4, <1>5
<1> QED
  BY <1>2, <1>6, <1>7, <1>8 DEF Places, n

\* ... and when a protected one returns, its end is taken off.
LEMMA PlacesGivenBack ==
  ASSUME NEW c \in Seq(PyCall), NEW l \in Seq(Nat), NEW m, Places(c, l, m), c # <<>>,
         Last(c).how = "protected"
  PROVE  l # <<>> /\ \E p : Places(Front(c), Front(l), p)
<1> DEFINE n == Len(l)
           top == Len(c)
           p == [k \in 1 .. n - 1 |-> m[k]]
<1>1. top \in Nat \ {0} /\ n \in Nat
  OBVIOUS
<1>2. /\ m \in [1 .. n -> 1 .. top] /\ \A j, k \in 1 .. n : j < k => m[j] < m[k]
      /\ \A i \in 1 .. top : c[i].how = "protected" => \E k \in 1 .. n : m[k] = i
      /\ \A k \in 1 .. n : c[m[k]].how = "protected" /\ l[k] = c[m[k]].segment
  BY DEF Places
<1>3. c[top].how = "protected"
  BY DEF Last
<1>4. PICK last \in 1 .. n : m[last] = top
  BY <1>1, <1>2, <1>3
<1>5. n \in Nat \ {0} /\ l # <<>>
  BY <1>1, <1>4
<1>6. /\ Len(Front(l)) = n - 1 /\ \A k \in 1 .. n - 1 : Front(l)[k] = l[k]
  BY <1>5, FrontIs
<1>7. /\ Len(Front(c)) = top - 1 /\ \A i \in 1 .. top - 1 : Front(c)[i] = c[i]
  BY FrontIs
<1> HIDE DEF n, top
<1>8. last = n
  <2>1. last < n => m[last] < m[n] /\ m[n] \in 1 .. top
    BY <1>1, <1>2, <1>4, <1>5
  <2> QED
    BY <1>1, <1>4, <2>1
<1>9. \A k \in 1 .. n - 1 : p[k] = m[k] /\ k \in 1 .. n /\ k < n
  BY <1>1
<1>10. \A k \in 1 .. n - 1 : p[k] \in 1 .. top - 1
  <2> TAKE k \in 1 .. n - 1
  <2>1. n \in 1 .. n /\ k \in 1 .. n /\ k < n
    BY <1>5, <1>9
  <2>2. m[k] < m[n] /\ m[k] \in 1 .. top
    BY <1>2, <2>1
  <2> QED
    BY <1>1, <1>4, <1>8, <1>9, <2>2
<1>11. p \in [1 .. n - 1 -> 1 .. top - 1]
  BY <1>10
<1> HIDE DEF p
<1>12. \A j, k \in 1 .. n - 1 : j < k => p[j] < p[k]
  BY <1>2, <1>9
<1>13. \A i \in 1 .. top - 1 : Front(c)[i].how = "protected" => \E k \in 1 .. n - 1 : p[k] = i
  <2> TAKE i \in 1 .. top - 1
  <2> HAVE Front(c)[i].how = "protected"
  <2>1. i \in 1 .. top /\ i # top /\ c[i].how = "protected"
    BY <1>1, <1>7
  <2>2. PICK k \in 1 .. n : m[k] = i
    BY <1>2, <2>1
  <2>3. k \in 1 .. n - 1
    BY <1>1, <1>4, <1>8, <2>1, <2>2
  <2> QED
    BY <1>9, <2>2, <2>3
<1>14. \A k \in 1 .. n - 1 : Front(c)[p[k]].how = "protected" /\ Front(l)[k] = Front(c)[p[k]].segment
  <2> TAKE k \in 1 .. n - 1
  <2>1. Front(c)[p[k]] = c[m[k]] /\ Front(l)[k] = l[k] /\ k \in 1 .. n
    BY <1>6, <1>7, <1>9, <1>10
  <2> QED
    BY <1>2, <2>1
<1>15. Places(Front(c), Front(l), p)
  BY <1>6, <1>7, <1>11, <1>12, <1>13, <1>14 DEF Places
<1> QED
  BY <1>5, <1>15

-----------------------------------------------------------------------------
(***************************************************************************)
(* The steps.                                                              *)
(***************************************************************************)
LEMMA CallAt ==
  ASSUME NEW c \in Seq(PyCall)
  PROVE  \A i \in 1 .. Len(c) : c[i] \in PyCall /\ c[i].segment \in Nat
<1>1. \A i \in 1 .. Len(c) : c[i] \in PyCall
  OBVIOUS
<1> QED
  BY <1>1 DEF PyCall

\* A call is put on top of those of c.
LEMMA RightCalled ==
  ASSUME NEW c, NEW can, CallsRight(c, can), NEW f \in PyCall,
         CalledRight(Append(c, f), Len(c) + 1),
         can => OnItsStack(Append(c, f), Len(c) + 1)
  PROVE  CallsRight(Append(c, f), can)
<1> DEFINE d == Append(c, f)
           top == Len(c)
<1>1. /\ c \in Seq(PyCall) /\ c # <<>> /\ c[1].who = "python"
      /\ \A i \in 1 .. top : CalledRight(c, i)
      /\ can => \A i \in 1 .. top : OnItsStack(c, i)
  BY DEF CallsRight
<1>2. PICK b \in Nat : \A i \in 1 .. top : c[i].segment <= b
  BY DEF CallsRight
<1>3. /\ top \in Nat \ {0} /\ d \in Seq(PyCall) /\ Len(d) = top + 1 /\ d[top + 1] = f
      /\ \A i \in 1 .. top : d[i] = c[i]
  BY <1>1
<1>4. CalledRight(d, top + 1) /\ (can => OnItsStack(d, top + 1))
  OBVIOUS
<1> HIDE DEF d, top
<1>5. \A i \in 1 .. Len(d) : i = top + 1 \/ i \in 1 .. top
  BY <1>3
<1>6. ASSUME NEW i \in 1 .. top
      PROVE  CalledRight(d, i) /\ (can => OnItsStack(d, i))
  <2>1. i \in Nat /\ i >= 1 /\ \A k \in 1 .. i : c[k] = d[k]
    BY <1>3
  <2> QED
    BY <1>1, <2>1, SamePrefix
<1>7. f.segment \in Nat
  BY DEF PyCall
<1>8. \E u \in Nat : \A i \in 1 .. Len(d) : d[i].segment <= u
  <2> DEFINE u == b + f.segment
  <2>1. u \in Nat /\ f.segment <= u /\ \A i \in 1 .. top : c[i].segment <= u
    <3>1. \A i \in 1 .. top : c[i].segment \in Nat
      BY <1>1, CallAt DEF top
    <3> QED
      BY <1>2, <1>7, <3>1
  <2> HIDE DEF u
  <2> QED
    BY <1>3, <1>5, <2>1
<1>9. d # <<>> /\ d[1].who = "python"
  BY <1>1, <1>3
<1>10. CallsRight(d, can)
  BY <1>3, <1>4, <1>5, <1>6, <1>8, <1>9 DEF CallsRight
<1> QED
  BY <1>10 DEF d

LEMMA RightReturned ==
  ASSUME NEW c, NEW can, CallsRight(c, can), Len(c) > 1
  PROVE  CallsRight(Front(c), can)
<1> DEFINE d == Front(c)
           top == Len(c)
<1>1. /\ c \in Seq(PyCall) /\ c # <<>> /\ c[1].who = "python"
      /\ \A i \in 1 .. top : CalledRight(c, i)
      /\ can => \A i \in 1 .. top : OnItsStack(c, i)
  BY DEF CallsRight
<1>2. PICK b \in Nat : \A i \in 1 .. top : c[i].segment <= b
  BY DEF CallsRight
<1>3. /\ top \in Nat \ {0} /\ top > 1 /\ d \in Seq(PyCall) /\ Len(d) = top - 1
      /\ \A i \in 1 .. top - 1 : d[i] = c[i]
  BY <1>1, FrontIs
<1> HIDE DEF d, top
<1>4. ASSUME NEW i \in 1 .. Len(d)
      PROVE  CalledRight(d, i) /\ (can => OnItsStack(d, i)) /\ d[i].segment <= b
  <2>1. i \in Nat /\ i >= 1 /\ i \in 1 .. top /\ \A k \in 1 .. i : c[k] = d[k]
    BY <1>3
  <2>2. d[i] = c[i]
    BY <2>1
  <2> QED
    BY <1>1, <1>2, <2>1, <2>2, SamePrefix
<1>5. d # <<>> /\ d[1].who = "python"
  BY <1>1, <1>3
<1>6. CallsRight(d, can)
  BY <1>3, <1>4, <1>5 DEF CallsRight
<1> QED
  BY <1>6 DEF d

\* The evaluation on top of c goes elsewhere.
LEMMA RightMoved ==
  ASSUME NEW c, NEW can, CallsRight(c, can), NEW f \in PyCall, f.who = "eval",
         CalledRight(ReplaceAt(c, Len(c), f), Len(c)), Last(c).who = "eval"
  PROVE  CallsRight(ReplaceAt(c, Len(c), f), can)
<1> DEFINE d == ReplaceAt(c, Len(c), f)
           top == Len(c)
<1>1. /\ c \in Seq(PyCall) /\ c # <<>> /\ c[1].who = "python"
      /\ \A i \in 1 .. top : CalledRight(c, i)
      /\ can => \A i \in 1 .. top : OnItsStack(c, i)
  BY DEF CallsRight
<1>2. PICK b \in Nat : \A i \in 1 .. top : c[i].segment <= b
  BY DEF CallsRight
<1>3. /\ top \in Nat \ {0} /\ d \in Seq(PyCall) /\ Len(d) = top /\ d[top] = f
      /\ \A i \in 1 .. top - 1 : d[i] = c[i]
  BY <1>1 DEF ReplaceAt
<1>4. CalledRight(d, top) /\ c[top].who = "eval"
  BY DEF Last
<1> HIDE DEF d, top
<1>5. \A i \in 1 .. Len(d) : i = top \/ i \in 1 .. top - 1
  BY <1>3
<1>6. ASSUME NEW i \in 1 .. top - 1
      PROVE  CalledRight(d, i) /\ (can => OnItsStack(d, i))
  <2>1. i \in Nat /\ i >= 1 /\ i \in 1 .. top /\ \A k \in 1 .. i : c[k] = d[k]
    BY <1>3
  <2> QED
    BY <1>1, <2>1, SamePrefix
<1>7. OnItsStack(d, top)
  BY <1>3 DEF OnItsStack
<1>8. f.segment \in Nat
  BY DEF PyCall
<1>9. \E u \in Nat : \A i \in 1 .. Len(d) : d[i].segment <= u
  <2> DEFINE u == b + f.segment
  <2>1. u \in Nat /\ f.segment <= u /\ \A i \in 1 .. top : c[i].segment <= u
    <3>1. \A i \in 1 .. top : c[i].segment \in Nat
      BY <1>1, CallAt DEF top
    <3> QED
      BY <1>2, <1>8, <3>1
  <2> HIDE DEF u
  <2>2. \A i \in 1 .. top - 1 : i \in 1 .. top
    BY <1>3
  <2> QED
    BY <1>3, <1>5, <2>1, <2>2
<1>10. d # <<>> /\ d[1].who = "python"
  <2>1. top # 1
    BY <1>1, <1>4
  <2>2. 1 \in 1 .. top - 1
    BY <1>3, <2>1
  <2> QED
    BY <1>1, <1>3, <2>2
<1>11. CallsRight(d, can)
  BY <1>3, <1>4, <1>5, <1>6, <1>7, <1>9, <1>10 DEF CallsRight
<1> QED
  BY <1>11 DEF d

LEMMA FreshIs ==
  ASSUME CallsRight(pyCalls, api)
  PROVE  FreshSegment \in Nat /\ \A i \in 1 .. Len(pyCalls) : pyCalls[i].segment < FreshSegment
<1> DEFINE S == {pyCalls[i].segment : i \in DOMAIN pyCalls}
<1>1. pyCalls \in Seq(PyCall) /\ pyCalls # <<>>
  BY DEF CallsRight
<1>2. PICK b \in Nat : \A i \in 1 .. Len(pyCalls) : pyCalls[i].segment <= b
  BY DEF CallsRight
<1>3. DOMAIN pyCalls = 1 .. Len(pyCalls) /\ 1 \in DOMAIN pyCalls
  BY <1>1
<1>4. \A i \in 1 .. Len(pyCalls) : pyCalls[i].segment \in Nat
  BY <1>1, CallAt
<1>5. S \in SUBSET Nat /\ S # {} /\ \A y \in S : y <= b
  BY <1>2, <1>3, <1>4
<1>6. FreshSegment = 1 + Max(S)
  BY DEF FreshSegment
<1>7. \A i \in 1 .. Len(pyCalls) : pyCalls[i].segment \in S
  BY <1>3
<1> HIDE DEF S
<1>8. Max(S) \in S /\ \A y \in S : y <= Max(S)
  BY <1>5, MaxOfBounded
<1>9. Max(S) \in Nat
  BY <1>5, <1>8
<1> HIDE DEF FreshSegment
<1> QED
  BY <1>4, <1>6, <1>7, <1>8, <1>9

\* Directly called Python code is on the stack its evaluation was called on.
LEMMA DirectOnItsStack ==
  ASSUME CallsRight(pyCalls, api), api, EvalRuns, Direct
  PROVE  OnItsStack(Append(pyCalls, Python(Inner.segment, "direct")), Len(pyCalls) + 1)
<1> DEFINE c == pyCalls
           top == Len(pyCalls)
           f == Python(Inner.segment, "direct")
           d == Append(c, f)
<1>1. /\ c \in Seq(PyCall) /\ c # <<>>
      /\ \A i \in 1 .. top : CalledRight(c, i) /\ OnItsStack(c, i)
  BY DEF CallsRight
<1>2. /\ top \in Nat \ {0} /\ Len(d) = top + 1 /\ d[top + 1] = f
      /\ \A i \in 1 .. top : d[i] = c[i]
  BY <1>1
<1>3. Inner = c[top]
  BY DEF Inner, Last
<1>4. c[top].who = "eval" /\ (c[top].entry = Nowhere \/ c[top].near) /\ f.segment = c[top].segment
      /\ f.how = "direct"
  BY <1>3 DEF EvalRuns, Direct, Python
<1> HIDE DEF c, top, f, d
<1> SUFFICES ASSUME AllKnown(d, top + 1)
             PROVE  \E j \in 0 .. top + 1 : InnermostMoved(d, top + 1, j) /\ d[top + 1].segment = SegmentOf(d, j)
  BY DEF OnItsStack, c, d, f, top
<1>5. c[top].entry # Nowhere
  <2>1. top \in 1 .. top + 1 /\ d[top] = c[top]
    BY <1>2
  <2> QED
    BY <1>4, <2>1 DEF AllKnown
<1>6. CalledRight(c, top)
  BY <1>1, <1>2
<1>7. top > 1 /\ c[top - 1].who = "python" /\ c[top].segment = c[top - 1].segment /\ c[top].how = "direct"
  BY <1>4, <1>5, <1>6 DEF CalledRight
<1>8. AllKnown(c, top - 1)
  <2>1. \A j \in 1 .. top - 1 : j \in 1 .. top + 1 /\ d[j] = c[j]
    BY <1>2
  <2> QED
    BY <2>1 DEF AllKnown
<1>9. top - 1 \in 1 .. top
  BY <1>2, <1>7
<1>10. PICK j \in 0 .. top - 1 : InnermostMoved(c, top - 1, j) /\ c[top - 1].segment = SegmentOf(c, j)
  BY <1>1, <1>7, <1>8, <1>9 DEF OnItsStack
<1>11. j # 0 => d[j] = c[j]
  BY <1>2, <1>10
<1>12. \A k \in 1 .. top + 1 : k > j => d[k].how # "protected"
  <2> TAKE k \in 1 .. top + 1
  <2> HAVE k > j
  <2>1. k \in 1 .. top - 1 \/ k = top \/ k = top + 1
    BY <1>2
  <2>2. k \in 1 .. top - 1 => d[k] = c[k] /\ c[k].how # "protected"
    BY <1>2, <1>10 DEF InnermostMoved
  <2>3. d[top] = c[top]
    BY <1>2
  <2> QED
    BY <1>2, <1>4, <1>7, <2>1, <2>2, <2>3
<1>13. InnermostMoved(d, top + 1, j)
  BY <1>2, <1>10, <1>11, <1>12 DEF InnermostMoved
<1>14. d[top + 1].segment = SegmentOf(d, j)
  BY <1>2, <1>4, <1>7, <1>10, <1>11 DEF SegmentOf
<1>15. j \in 0 .. top + 1
  BY <1>2, <1>10
<1> QED
  BY <1>13, <1>14, <1>15

StackStep ==
  \/ StartEval \/ HostReturns \/ EvalReturns \/ CallDirect \/ CallProtected
  \/ \E how \in {"grown", "unprotected"} : CallGrown(how)
  \/ \E near \in BOOLEAN, segment \in 0 .. MaxPyCalls : Goes(near, segment)

LEMMA PythonIs ==
  ASSUME NEW segment \in Nat, NEW how \in {"host", "direct", "grown", "unprotected", "protected"}
  PROVE  /\ Python(segment, how) \in PyCall /\ Python(segment, how).who = "python"
         /\ Python(segment, how).how = how /\ Python(segment, how).segment = segment
BY DEF Python, PyCall

LEMMA PyStart == StackInit => PyInv
<1> SUFFICES ASSUME StackInit PROVE PyInv
  OBVIOUS
<1> DEFINE f == Python(Main, "host")
<1>1. api \in BOOLEAN /\ measured \in BOOLEAN /\ pyCalls = <<f>> /\ bounds = Main /\ protected = <<>>
  BY DEF StackInit
<1>2. f \in PyCall /\ f.who = "python" /\ f.how = "host" /\ f.segment = Main /\ Main \in Nat
  BY PyStackAssumption, PythonIs
<1> HIDE DEF f
<1>3. /\ pyCalls \in Seq(PyCall) /\ pyCalls # <<>> /\ Len(pyCalls) = 1 /\ pyCalls[1] = f
  BY <1>1, <1>2
<1>4. CalledRight(pyCalls, 1)
  BY <1>2, <1>3 DEF CalledRight
<1>5. OnItsStack(pyCalls, 1)
  <2>1. InnermostMoved(pyCalls, 1, 0)
    BY <1>2, <1>3 DEF InnermostMoved
  <2> QED
    BY <1>2, <1>3, <2>1 DEF OnItsStack, SegmentOf
<1>6. CallsRight(pyCalls, api)
  BY <1>2, <1>3, <1>4, <1>5 DEF CallsRight
<1>7. Places(pyCalls, protected, [k \in 1 .. 0 |-> 1])
  <2>1. Len(protected) = 0
    BY <1>1
  <2>2. [k \in 1 .. 0 |-> 1] \in [1 .. 0 -> 1 .. 1]
    OBVIOUS
  <2>3. \A i \in 1 .. 1 : pyCalls[i].how # "protected"
    BY <1>2, <1>3
  <2> QED
    BY <1>3, <2>1, <2>2, <2>3 DEF Places
<1>8. protected \in Seq(Nat) /\ bounds = BoundsAfter(protected)
  BY <1>1 DEF BoundsAfter
<1> QED
  BY <1>1, <1>6, <1>7, <1>8 DEF PyInv

LEMMA PyStep ==
  ASSUME PyInv, StackStep
  PROVE  PyInv'
<1> DEFINE c == pyCalls
           top == Len(pyCalls)
<1>1. /\ api \in BOOLEAN /\ measured \in BOOLEAN /\ CallsRight(c, api)
      /\ protected \in Seq(Nat) /\ bounds = BoundsAfter(protected)
  BY DEF PyInv
<1>2. PICK m : Places(c, protected, m)
  BY DEF PyInv
<1>3. /\ c \in Seq(PyCall) /\ c # <<>> /\ \A i \in 1 .. top : CalledRight(c, i)
      /\ c[1].who = "python"
  BY <1>1 DEF CallsRight
<1>4. /\ top \in Nat \ {0} /\ Inner = c[top] /\ Last(c) = c[top]
      /\ \A i \in 1 .. top : c[i] \in PyCall /\ c[i].segment \in Nat
  BY <1>3, CallAt DEF Inner, Last
<1>5. FreshSegment \in Nat
  BY <1>1, FreshIs
<1>6. EvalRuns => /\ top > 1 /\ c[top].who = "eval" /\ c[top - 1].who = "python"
                  /\ c[top].how = "direct"
                  /\ c[top].near => c[top].segment = c[top - 1].segment
  <2>1. CalledRight(c, top) /\ top \in 1 .. top
    BY <1>3, <1>4
  <2> QED
    BY <1>4, <2>1 DEF EvalRuns, CalledRight
\* A call that leaves the list of protected calls alone.
<1>7. ASSUME NEW f \in PyCall, f.how # "protected", CalledRight(Append(c, f), top + 1),
             api => OnItsStack(Append(c, f), top + 1),
             pyCalls' = Append(c, f), UNCHANGED <<api, measured, bounds, protected>>
      PROVE  PyInv'
  <2>1. CallsRight(Append(c, f), api)
    BY <1>1, <1>7, RightCalled
  <2>2. Places(Append(c, f), protected, m)
    BY <1>1, <1>2, <1>3, <1>7, PlacesCalled
  <2> QED
    BY <1>1, <1>7, <2>1, <2>2 DEF PyInv
\* Python code is called.
<1>8. ASSUME NEW segment \in Nat, NEW how \in {"direct", "grown", "unprotected", "protected"}
      PROVE  LET f == Python(segment, how)
             IN /\ f \in PyCall /\ f.how = how /\ f.who = "python" /\ f.segment = segment
                /\ Append(c, f) \in Seq(PyCall) /\ Append(c, f)[top + 1] = f
                /\ CalledRight(Append(c, f), top + 1)
  <2> DEFINE f == Python(segment, how)
  <2>1. f \in PyCall /\ f.how = how /\ f.who = "python" /\ f.segment = segment
    BY PythonIs
  <2> HIDE DEF f
  <2>2. Append(c, f) \in Seq(PyCall) /\ Append(c, f)[top + 1] = f
    BY <1>3, <2>1
  <2>3. CalledRight(Append(c, f), top + 1)
    BY <2>1, <2>2 DEF CalledRight
  <2> QED
    BY <2>1, <2>2, <2>3 DEF f
<1>9. CASE StartEval
  <2> DEFINE f == [who |-> "eval", segment |-> Inner.segment, entry |-> EntryHere,
                   near |-> TRUE, how |-> "direct"]
             d == Append(c, f)
  <2>1. EntryHere \in Nat \cup {Nowhere} /\ Inner.segment \in Nat
    BY <1>4 DEF EntryHere
  <2>2. f \in PyCall
    BY <2>1 DEF PyCall
  <2>3. f.how # "protected" /\ f.who = "eval" /\ f.how = "direct" /\ f.segment = c[top].segment
    BY <1>4
  <2>4. c[top].who = "python" /\ pyCalls' = d /\ UNCHANGED <<api, measured, bounds, protected>>
    BY <1>4, <1>9 DEF StartEval, PythonRuns
  <2> HIDE DEF f
  <2>5. d[top + 1] = f /\ d[top] = c[top] /\ top + 1 > 1 /\ top + 1 - 1 = top
    BY <1>3, <1>4, <2>2
  <2> HIDE DEF d
  <2>6. CalledRight(d, top + 1)
    BY <2>3, <2>4, <2>5 DEF CalledRight
  <2>7. OnItsStack(d, top + 1)
    BY <2>3, <2>5 DEF OnItsStack
  <2> QED
    BY <1>7, <2>2, <2>3, <2>4, <2>6, <2>7 DEF d
<1>10. CASE CallDirect
  <2> DEFINE f == Python(Inner.segment, "direct")
  <2>1. /\ f \in PyCall /\ f.how = "direct" /\ CalledRight(Append(c, f), top + 1)
    BY <1>4, <1>8
  <2>2. pyCalls' = Append(c, f) /\ UNCHANGED <<api, measured, bounds, protected>> /\ EvalRuns /\ Direct
    BY <1>10 DEF CallDirect
  <2>3. api => OnItsStack(Append(c, f), top + 1)
    BY <1>1, <2>2, DirectOnItsStack
  <2> HIDE DEF f
  <2> QED
    BY <1>7, <2>1, <2>2, <2>3
<1>11. ASSUME NEW how \in {"grown", "unprotected"}, CallGrown(how) PROVE PyInv'
  <2> DEFINE f == Python(FreshSegment, how)
             d == Append(c, f)
  <2>1. /\ f \in PyCall /\ f.how = how /\ d[top + 1] = f /\ CalledRight(d, top + 1)
    BY <1>5, <1>8
  <2>2. pyCalls' = d /\ UNCHANGED <<api, measured, bounds, protected>> /\ (api => how = "unprotected")
    BY <1>11 DEF CallGrown
  <2> HIDE DEF f
  <2>3. api => OnItsStack(d, top + 1)
    <3>1. api => d[top + 1].how = "unprotected" /\ top + 1 \in 1 .. top + 1
      BY <1>4, <2>1, <2>2
    <3> HIDE DEF d
    <3> QED
      BY <3>1 DEF OnItsStack, AllKnown
  <2> QED
    BY <1>7, <2>1, <2>2, <2>3
<1>12. CASE CallProtected
  <2> DEFINE f == Python(FreshSegment, "protected")
             d == Append(c, f)
  <2>1. /\ f \in PyCall /\ f.how = "protected" /\ f.segment = FreshSegment
        /\ d[top + 1] = f /\ CalledRight(d, top + 1)
    BY <1>5, <1>8
  <2>2. /\ pyCalls' = d /\ UNCHANGED <<api, measured>>
        /\ bounds' = FreshSegment /\ protected' = Append(protected, FreshSegment)
    BY <1>12 DEF CallProtected
  <2> HIDE DEF f
  <2>3. OnItsStack(d, top + 1)
    <3>1. top + 1 \in 0 .. top + 1 /\ top + 1 # 0 /\ top + 1 \in Nat
      BY <1>4
    <3> HIDE DEF d
    <3>2. InnermostMoved(d, top + 1, top + 1)
      BY <2>1, <3>1 DEF InnermostMoved
    <3> QED
      BY <3>1, <3>2 DEF OnItsStack, SegmentOf
  <2>4. CallsRight(d, api)
    BY <1>1, <2>1, <2>3, RightCalled
  <2>5. \E p : Places(d, Append(protected, FreshSegment), p)
    BY <1>1, <1>2, <1>3, <2>1, PlacesProtected
  <2>6. protected' \in Seq(Nat) /\ bounds' = BoundsAfter(protected')
    <3>1. /\ protected' \in Seq(Nat) /\ protected' # <<>> /\ Len(protected') = Len(protected) + 1
          /\ protected'[Len(protected) + 1] = FreshSegment
      BY <1>1, <1>5, <2>2
    <3> QED
      BY <2>2, <3>1 DEF BoundsAfter, Last
  <2> QED
    BY <1>1, <2>2, <2>4, <2>5, <2>6 DEF PyInv
\* A call that leaves the list of protected calls alone returns.
<1>13. ASSUME c[top].how # "protected", top > 1,
              pyCalls' = Front(c), UNCHANGED <<api, measured, bounds, protected>>
       PROVE  PyInv'
  <2>1. CallsRight(Front(c), api)
    BY <1>1, <1>13, RightReturned
  <2>2. /\ Len(Front(c)) = top - 1 /\ \A i \in 1 .. top - 1 : Front(c)[i] = c[i]
    BY <1>3, FrontIs
  <2>3. Places(Front(c), protected, m)
    <3>1. Len(Front(c)) \in {Len(c) - 1, Len(c)} /\ Len(Front(c)) # Len(c)
      BY <1>4, <2>2
    <3> QED
      BY <1>1, <1>2, <1>3, <1>4, <1>13, <2>2, <3>1, PlacesStay
  <2> QED
    BY <1>1, <1>13, <2>1, <2>3 DEF PyInv
<1>14. CASE EvalReturns
  <2>1. EvalRuns /\ pyCalls' = Front(c) /\ UNCHANGED <<api, measured, bounds, protected>>
    BY <1>14 DEF EvalReturns
  <2> QED
    BY <1>6, <1>13, <2>1
<1>15. CASE HostReturns
  <2>1. top > 1 /\ pyCalls' = Front(c) /\ UNCHANGED <<api, measured>>
    BY <1>15 DEF HostReturns
  <2>2. CASE c[top].how # "protected"
    <3>1. UNCHANGED <<protected, bounds>>
      BY <1>4, <1>15, <2>2 DEF HostReturns
    <3> QED
      BY <1>13, <2>1, <2>2, <3>1
  <2>3. CASE c[top].how = "protected"
    <3>1. protected' = Front(protected) /\ bounds' = BoundsAfter(Front(protected))
      BY <1>4, <1>15, <2>3 DEF HostReturns
    <3>2. protected # <<>> /\ \E p : Places(Front(c), Front(protected), p)
      BY <1>1, <1>2, <1>3, <1>4, <2>3, PlacesGivenBack
    <3>3. Front(protected) \in Seq(Nat)
      BY <1>1, <3>2, FrontIs
    <3>4. CallsRight(Front(c), api)
      BY <1>1, <2>1, RightReturned
    <3> QED
      BY <1>1, <2>1, <3>1, <3>2, <3>3, <3>4 DEF PyInv
  <2> QED
    BY <2>2, <2>3
<1>16. ASSUME NEW near \in BOOLEAN, NEW segment \in 0 .. MaxPyCalls, Goes(near, segment) PROVE PyInv'
  <2> DEFINE f == [Inner EXCEPT !.near = near, !.segment = segment]
             d == ReplaceAt(c, top, f)
  <2>1. /\ EvalRuns /\ pyCalls' = d /\ UNCHANGED <<api, measured, bounds, protected>>
        /\ near => segment = c[top - 1].segment
    BY <1>16 DEF Goes
  <2>2. segment \in Nat /\ c[top] \in PyCall
    BY <1>4, PyStackAssumption
  <2>3. f \in PyCall /\ f.who = c[top].who /\ f.how = c[top].how /\ f.near = near /\ f.segment = segment
    BY <1>4, <2>2 DEF PyCall
  <2> HIDE DEF f
  <2>4. /\ d \in Seq(PyCall) /\ Len(d) = top /\ d[top] = f
        /\ \A i \in 1 .. top - 1 : d[i] = c[i]
    BY <1>3, <1>4, <2>3 DEF ReplaceAt
  <2>5. top > 1 /\ top - 1 \in 1 .. top - 1
    BY <1>4, <1>6, <2>1
  <2>6. CalledRight(d, top)
    BY <1>6, <2>1, <2>3, <2>4, <2>5 DEF CalledRight
  <2>7. CallsRight(d, api)
    BY <1>1, <1>4, <1>6, <2>1, <2>3, <2>6, RightMoved
  <2>8. Places(d, protected, m)
    <3>1. c[top].how # "protected" /\ d[top].how # "protected"
      BY <1>6, <2>1, <2>3, <2>4
    <3>2. Len(d) \in {Len(c) - 1, Len(c)}
      BY <2>4
    <3> HIDE DEF d
    <3> QED
      BY <1>1, <1>2, <1>3, <1>4, <2>4, <3>1, <3>2, PlacesStay
  <2> QED
    BY <1>1, <2>1, <2>7, <2>8 DEF PyInv
<1> QED
  BY <1>9, <1>10, <1>11, <1>12, <1>14, <1>15, <1>16 DEF StackStep

LEMMA PyAlways == PySpec => []PyInv
<1>1. PyInit => PyInv
  BY PyStart DEF PyInit
<1>2. PyInv /\ [PyNext]_pyVars => PyInv'
  <2> SUFFICES ASSUME PyInv, [PyNext]_pyVars PROVE PyInv'
    OBVIOUS
  <2>1. StackStep \/ UNCHANGED stackVars
    BY DEF PyNext, pyVars, StackStep, EvalBegins, Reads, HostCalled, HostEnds, EvalEnds, Deeper, PythonChanges
  <2>2. UNCHANGED stackVars => PyInv'
    BY DEF stackVars, PyInv
  <2> QED
    BY <2>1, <2>2, PyStep
<1> QED
  BY <1>1, <1>2, PTL DEF PySpec

\* The calls under way and the bounds keep their types (with_python_stack).
THEOREM StacksTyped == PySpec => []StackTypeOK
<1>1. PyInv => StackTypeOK
  <2> SUFFICES ASSUME PyInv PROVE StackTypeOK
    OBVIOUS
  <2>1. bounds \in Nat
    <3>1. protected # <<>> => Last(protected) \in Nat
      BY DEF PyInv, Last
    <3> QED
      BY <3>1, PyStackAssumption DEF PyInv, BoundsAfter
  <2> QED
    BY <2>1 DEF PyInv, CallsRight, StackTypeOK
<1> QED
  BY <1>1, PyAlways, PTL

\* CPython's bounds are those of the innermost protected call under way, however
\* calls nest and return; and Python code runs with the bounds of the stack it is on,
\* unless a call around it had no way to set them or did not know where it started
\* (with_python_stack, PROTECTED, StackEntry).
THEOREM BoundsFollowCalls == PySpec => []BoundsOfCalls
<1>1. PyInv => BoundsOfCalls
  <2> SUFFICES ASSUME PyInv PROVE BoundsOfCalls
    OBVIOUS
  <2> DEFINE c == pyCalls
             top == Len(pyCalls)
             moved == {i \in DOMAIN pyCalls : pyCalls[i].how = "protected"}
  <2>1. /\ c \in Seq(PyCall) /\ c # <<>> /\ (api => \A i \in 1 .. top : OnItsStack(c, i))
    BY DEF PyInv, CallsRight
  <2>2. top \in Nat \ {0} /\ DOMAIN c = 1 .. top /\ Inner = c[top]
    BY <2>1 DEF Inner, Last
  <2>3. PICK j \in 0 .. top : InnermostMoved(c, top, j) /\ bounds = SegmentOf(c, j)
    BY <2>1, InnermostIsLast DEF PyInv
  <2>4. BoundsGivenBack
    <3>1. CASE j = 0
      <4>1. moved = {}
        BY <2>2, <2>3, <3>1 DEF InnermostMoved
      <4> QED
        BY <2>3, <3>1, <4>1 DEF BoundsGivenBack, SegmentOf
    <3>2. CASE j # 0
      <4>1. j \in moved /\ moved \in SUBSET Nat
        BY <2>2, <2>3, <3>2 DEF InnermostMoved
      <4>2. \A i \in moved : i <= j
        BY <2>2, <2>3 DEF InnermostMoved
      <4> HIDE DEF moved
      <4>3. Max(moved) = j /\ moved # {}
        BY <4>1, <4>2, MaxIs
      <4>4. bounds = pyCalls[j].segment
        BY <2>3, <3>2 DEF SegmentOf
      <4> QED
        BY <4>3, <4>4, Zenon DEF BoundsGivenBack, moved
    <3> QED
      BY <3>1, <3>2
  <2>5. PythonSeesItsStack
    <3> SUFFICES ASSUME PythonRuns, api,
                        \A i \in DOMAIN pyCalls :
                          /\ pyCalls[i].how # "unprotected"
                          /\ pyCalls[i].who = "eval" => pyCalls[i].entry # Nowhere
                 PROVE  bounds = Inner.segment
      BY DEF PythonSeesItsStack
    <3>1. c[top].who = "python" /\ AllKnown(c, top) /\ OnItsStack(c, top)
      BY <2>1, <2>2 DEF PythonRuns, AllKnown
    <3>2. PICK k \in 0 .. top : InnermostMoved(c, top, k) /\ c[top].segment = SegmentOf(c, k)
      BY <3>1 DEF OnItsStack
    <3>3. k = j
      BY <2>2, <2>3, <3>2, InnermostIsOne
    <3> QED
      BY <2>2, <2>3, <3>2, <3>3
  <2> QED
    BY <2>4, <2>5 DEF BoundsOfCalls
<1> QED
  BY <1>1, PyAlways, PTL
-----------------------------------------------------------------------------
(***************************************************************************)
(* References counted.                                                     *)
(***************************************************************************)
LEMMA SameSize ==
  ASSUME NEW S, IsFiniteSet(S), NEW T, NEW f \in [S -> T],
         \A x, y \in S : f[x] = f[y] => x = y, \A t \in T : \E x \in S : f[x] = t
  PROVE  IsFiniteSet(T) /\ Cardinality(T) = Cardinality(S)
<1>1. f \in Bijection(S, T)
  BY DEF Bijection, Injection, Surjection, IsInjective
<1> QED
  BY <1>1, FS_Bijection DEF ExistsBijection

LEMMA RefsFinite ==
  ASSUME NEW s \in Seq(Nodes), NEW n
  PROVE  IsFiniteSet(RefsIn(n, s)) /\ Occurrences(n, s) \in Nat
<1>1. RefsIn(n, s) \in SUBSET (1 .. Len(s)) /\ Len(s) \in Nat
  BY DEF RefsIn
<1>2. IsFiniteSet(1 .. Len(s))
  BY <1>1, FS_Interval
<1>3. IsFiniteSet(RefsIn(n, s))
  BY <1>1, <1>2, FS_Subset
<1> QED
  BY <1>3, FS_CardinalityType DEF Occurrences

LEMMA OccurrencesConcat ==
  ASSUME NEW s \in Seq(Nodes), NEW t \in Seq(Nodes), NEW n
  PROVE  Occurrences(n, s \o t) = Occurrences(n, s) + Occurrences(n, t)
<1> DEFINE first == RefsIn(n, s)
           second == RefsIn(n, t)
           shifted == {Len(s) + i : i \in second}
<1>1. IsFiniteSet(first) /\ IsFiniteSet(second)
  BY RefsFinite
<1>2. /\ Len(s) \in Nat /\ Len(t) \in Nat /\ s \o t \in Seq(Nodes) /\ Len(s \o t) = Len(s) + Len(t)
      /\ \A i \in 1 .. Len(s) : (s \o t)[i] = s[i]
      /\ \A i \in 1 .. Len(t) : (s \o t)[Len(s) + i] = t[i]
  OBVIOUS
<1>3. first \subseteq 1 .. Len(s) /\ second \subseteq 1 .. Len(t)
  BY DEF RefsIn
<1>4. RefsIn(n, s \o t) = first \cup shifted
  <2>1. ASSUME NEW i \in RefsIn(n, s \o t) PROVE i \in first \cup shifted
    <3>1. i \in 1 .. Len(s) + Len(t) /\ (s \o t)[i] = n
      BY <1>2 DEF RefsIn
    <3>2. CASE i <= Len(s)
      <4>1. i \in 1 .. Len(s)
        BY <1>2, <3>1, <3>2
      <4> QED
        BY <1>2, <3>1, <4>1 DEF RefsIn
    <3>3. CASE ~ (i <= Len(s))
      <4> DEFINE j == i - Len(s)
      <4>1. j \in 1 .. Len(t) /\ i = Len(s) + j
        BY <1>2, <3>1, <3>3
      <4> HIDE DEF j
      <4>2. t[j] = n
        BY <1>2, <3>1, <4>1
      <4>3. j \in second
        BY <4>1, <4>2 DEF RefsIn
      <4> QED
        BY <4>1, <4>3
    <3> QED
      BY <3>2, <3>3
  <2>2. ASSUME NEW i \in first PROVE i \in RefsIn(n, s \o t)
    <3>1. i \in 1 .. Len(s) /\ i \in 1 .. Len(s) + Len(t) /\ s[i] = n
      BY <1>2, <1>3 DEF RefsIn
    <3> QED
      BY <1>2, <3>1 DEF RefsIn
  <2>3. ASSUME NEW i \in second PROVE Len(s) + i \in RefsIn(n, s \o t)
    <3>1. i \in 1 .. Len(t) /\ Len(s) + i \in 1 .. Len(s) + Len(t) /\ t[i] = n
      BY <1>2, <1>3 DEF RefsIn
    <3> QED
      BY <1>2, <3>1 DEF RefsIn
  <2> QED
    BY <2>1, <2>2, <2>3
<1> HIDE DEF first, second
<1>5. first \cap shifted = {}
  BY <1>2, <1>3
<1>6. IsFiniteSet(shifted) /\ Cardinality(shifted) = Cardinality(second)
  <2> DEFINE f == [i \in second |-> Len(s) + i]
  <2>1. f \in [second -> shifted]
    OBVIOUS
  <2>2. \A x, y \in second : f[x] = f[y] => x = y
    BY <1>2, <1>3
  <2>3. \A z \in shifted : \E x \in second : f[x] = z
    OBVIOUS
  <2> HIDE DEF f, shifted
  <2> QED
    BY <1>1, <2>1, <2>2, <2>3, SameSize
<1> HIDE DEF shifted
<1>7. Cardinality(first \cup shifted) = Cardinality(first) + Cardinality(shifted) - Cardinality({})
  BY <1>1, <1>5, <1>6, FS_Union
<1>8. Cardinality({}) = 0 /\ Cardinality(first) \in Nat /\ Cardinality(second) \in Nat
  BY <1>1, FS_EmptySet, FS_CardinalityType
<1> QED
  BY <1>4, <1>6, <1>7, <1>8 DEF Occurrences, first, second

LEMMA OccurrencesFew ==
  ASSUME NEW n, NEW m
  PROVE  /\ Occurrences(n, <<>>) = 0
         /\ Occurrences(n, <<m>>) = IF m = n THEN 1 ELSE 0
<1>1. RefsIn(n, <<>>) = {}
  BY DEF RefsIn
<1>2. RefsIn(n, <<m>>) = IF m = n THEN {1} ELSE {}
  BY DEF RefsIn
<1>3. Cardinality({}) = 0
  BY FS_EmptySet
<1>4. Cardinality({1}) = 1
  BY FS_Singleton, Zenon
<1> QED
  BY <1>1, <1>2, <1>3, <1>4 DEF Occurrences

One(n, m) == IF m = n THEN 1 ELSE 0

LEMMA OccurrencesAppend ==
  ASSUME NEW s \in Seq(Nodes), NEW m \in Nodes, NEW n
  PROVE  Occurrences(n, Append(s, m)) = Occurrences(n, s) + One(n, m)
<1>1. Append(s, m) = s \o <<m>> /\ <<m>> \in Seq(Nodes)
  OBVIOUS
<1>2. Occurrences(n, s \o <<m>>) = Occurrences(n, s) + Occurrences(n, <<m>>)
  BY <1>1, OccurrencesConcat
<1>3. Occurrences(n, <<m>>) = One(n, m)
  BY OccurrencesFew DEF One
<1> QED
  BY <1>1, <1>2, <1>3

LEMMA OccurrencesTail ==
  ASSUME NEW s \in Seq(Nodes), s # <<>>, NEW n
  PROVE  /\ Head(s) \in Nodes /\ Tail(s) \in Seq(Nodes)
         /\ Occurrences(n, s) = Occurrences(n, Tail(s)) + One(n, Head(s))
<1>1. /\ Head(s) \in Nodes /\ Tail(s) \in Seq(Nodes) /\ <<Head(s)>> \in Seq(Nodes)
      /\ s = <<Head(s)>> \o Tail(s)
  OBVIOUS
<1>2. Occurrences(n, s) = Occurrences(n, <<Head(s)>>) + Occurrences(n, Tail(s))
  BY <1>1, OccurrencesConcat
<1>3. Occurrences(n, <<Head(s)>>) = One(n, Head(s)) /\ One(n, Head(s)) \in Nat
  BY OccurrencesFew DEF One
<1>4. Occurrences(n, Tail(s)) \in Nat
  BY <1>1, RefsFinite
<1> QED
  BY <1>1, <1>2, <1>3, <1>4

LEMMA OccurrencesFront ==
  ASSUME NEW s \in Seq(Nodes), s # <<>>, NEW n
  PROVE  /\ Last(s) \in Nodes /\ Front(s) \in Seq(Nodes)
         /\ Occurrences(n, s) = Occurrences(n, Front(s)) + One(n, Last(s))
<1>1. /\ Front(s) \in Seq(Nodes) /\ Len(Front(s)) = Len(s) - 1 /\ Len(s) \in Nat \ {0}
      /\ \A i \in 1 .. Len(s) - 1 : Front(s)[i] = s[i]
  BY FrontIs
<1>2. Last(s) \in Nodes /\ Last(s) = s[Len(s)]
  BY <1>1 DEF Last
<1>3. s = Append(Front(s), Last(s))
  BY <1>1, <1>2
<1> QED
  BY <1>1, <1>2, <1>3, OccurrencesAppend

LEMMA OccurrencesRemoved ==
  ASSUME NEW s \in Seq(Nodes), NEW i \in 1 .. Len(s), NEW n
  PROVE  /\ s[i] \in Nodes /\ RemoveAt(s, i) \in Seq(Nodes)
         /\ Occurrences(n, s) = Occurrences(n, RemoveAt(s, i)) + One(n, s[i])
<1> DEFINE a == SubSeq(s, 1, i - 1)
           b == SubSeq(s, i + 1, Len(s))
           c == Append(a, s[i])
<1>1. s[i] \in Nodes /\ <<s[i]>> \in Seq(Nodes)
  OBVIOUS
<1>2. a \in Seq(Nodes) /\ b \in Seq(Nodes)
  OBVIOUS
<1>3. s = c \o b /\ c \in Seq(Nodes)
  <2>1. Len(s) \in Nat /\ i \in Nat /\ 1 <= i /\ i <= Len(s)
    OBVIOUS
  <2>2. Len(a) = i - 1 /\ \A j \in 1 .. i - 1 : a[j] = s[j]
    BY <2>1
  <2>3. Len(b) = Len(s) - i /\ \A j \in 1 .. Len(s) - i : b[j] = s[i + j]
    BY <2>1
  <2> HIDE DEF a, b
  <2>4. c \in Seq(Nodes) /\ Len(c) = i /\ c[i] = s[i] /\ \A j \in 1 .. i - 1 : c[j] = s[j]
    BY <1>1, <1>2, <2>1, <2>2
  <2>5. \A j \in 1 .. i : c[j] = s[j]
    BY <2>1, <2>4
  <2> HIDE DEF c
  <2>6. c \o b \in Seq(Nodes) /\ Len(c \o b) = Len(s)
    BY <1>2, <2>1, <2>3, <2>4
  <2>7. ASSUME NEW j \in 1 .. Len(s) PROVE (c \o b)[j] = s[j]
    <3>1. CASE j <= i
      BY <1>2, <2>1, <2>4, <2>5, <3>1
    <3>2. CASE ~ (j <= i)
      <4>1. j - i \in 1 .. Len(s) - i /\ i + (j - i) = j
        BY <2>1, <3>2
      <4>2. (c \o b)[j] = b[j - i]
        BY <1>2, <2>1, <2>3, <2>4, <3>2
      <4> QED
        BY <2>3, <4>1, <4>2
    <3> QED
      BY <3>1, <3>2
  <2> DEFINE whole == c \o b
  <2>8. whole \in Seq(Nodes) /\ s \in Seq(Nodes) /\ Len(whole) = Len(s)
    BY <2>6
  <2>9. \A j \in 1 .. Len(s) : whole[j] = s[j]
    BY <2>7
  <2> HIDE DEF whole
  <2>10. whole = s
    BY <2>8, <2>9
  <2> QED
    BY <2>4, <2>10 DEF whole
<1>4. RemoveAt(s, i) = a \o b
  BY DEF RemoveAt
<1> HIDE DEF a, b
<1>6. Occurrences(n, s) = Occurrences(n, a) + One(n, s[i]) + Occurrences(n, b)
  <2>1. Occurrences(n, c) = Occurrences(n, a) + One(n, s[i])
    BY <1>1, <1>2, OccurrencesAppend
  <2> HIDE DEF c
  <2>2. Occurrences(n, c \o b) = Occurrences(n, c) + Occurrences(n, b)
    BY <1>2, <1>3, OccurrencesConcat
  <2> QED
    BY <1>3, <2>1, <2>2
<1>7. Occurrences(n, RemoveAt(s, i)) = Occurrences(n, a) + Occurrences(n, b)
  BY <1>2, <1>4, OccurrencesConcat
<1>8. Occurrences(n, a) \in Nat /\ Occurrences(n, b) \in Nat /\ One(n, s[i]) \in Nat
  BY <1>2, RefsFinite DEF One
<1> QED
  BY <1>1, <1>2, <1>4, <1>6, <1>7, <1>8

LEMMA NoneThere ==
  ASSUME NEW s \in Seq(Nodes), NEW n, Occurrences(n, s) = 0
  PROVE  \A i \in DOMAIN s : s[i] # n
<1>1. IsFiniteSet(RefsIn(n, s))
  BY RefsFinite
<1>2. RefsIn(n, s) = {}
  BY <1>1, FS_EmptySet DEF Occurrences
<1> QED
  BY <1>2 DEF RefsIn

\* The references that the lists of D hold.
RefsOver(n, lists, D) == UNION {{<<k, i>> : i \in RefsIn(n, lists[k])} : k \in D}

LEMMA RefsOverIs ==
  ASSUME NEW n, NEW lists, NEW D
  PROVE  \A x : x \in RefsOver(n, lists, D) <=> \E k \in D : \E i \in RefsIn(n, lists[k]) : x = <<k, i>>
BY DEF RefsOver

LEMMA HeldSplit ==
  ASSUME NEW n, NEW lists, NEW D, IsFiniteSet(D), \A k \in D : lists[k] \in Seq(Nodes),
         NEW at \in D
  PROVE  /\ Cardinality(RefsOver(n, lists, D)) \in Nat
         /\ Cardinality(RefsOver(n, lists, D \ {at})) \in Nat
         /\ Cardinality(RefsOver(n, lists, D))
              = Cardinality(RefsOver(n, lists, D \ {at})) + Occurrences(n, lists[at])
<1> DEFINE pairs(k) == {<<k, i>> : i \in RefsIn(n, lists[k])}
           rest == RefsOver(n, lists, D \ {at})
<1>1. ASSUME NEW k \in D
      PROVE  IsFiniteSet(pairs(k)) /\ Cardinality(pairs(k)) = Occurrences(n, lists[k])
  <2> DEFINE f == [i \in RefsIn(n, lists[k]) |-> <<k, i>>]
             T == pairs(k)
             S == RefsIn(n, lists[k])
  <2>1. IsFiniteSet(S)
    BY RefsFinite
  <2>2. f \in [S -> T]
    OBVIOUS
  <2>3. \A x, y \in S : f[x] = f[y] => x = y
    OBVIOUS
  <2>4. \A t \in T : \E x \in S : f[x] = t
    OBVIOUS
  <2> HIDE DEF S, T, f
  <2>5. IsFiniteSet(T) /\ Cardinality(T) = Cardinality(S)
    BY <2>1, <2>2, <2>3, <2>4, SameSize
  <2> QED
    BY <2>5 DEF S, T, Occurrences
<1>2. IsFiniteSet(rest)
  <2> DEFINE E == D \ {at}
             all == {pairs(k) : k \in E}
             g == [k \in E |-> pairs(k)]
  <2>1. IsFiniteSet(E)
    BY FS_Subset
  <2>2. g \in Surjection(E, all)
    BY DEF Surjection
  <2>3. IsFiniteSet(all)
    <3> HIDE DEF g, all, E
    <3> QED
      BY <2>1, <2>2, FS_Surjection
  <2>4. \A T \in all : IsFiniteSet(T)
    BY <1>1
  <2>5. rest = UNION all
    BY DEF RefsOver
  <2> HIDE DEF all
  <2> QED
    BY <2>3, <2>4, <2>5, FS_UNION
<1>3. RefsOver(n, lists, D) = rest \cup pairs(at)
  BY DEF RefsOver
<1>4. rest \cap pairs(at) = {}
  BY DEF RefsOver
<1> DEFINE here == pairs(at)
<1>5. IsFiniteSet(here) /\ Cardinality(here) = Occurrences(n, lists[at])
  BY <1>1
<1> HIDE DEF rest, here
<1>6. /\ IsFiniteSet(rest \cup here)
      /\ Cardinality(rest \cup here) = Cardinality(rest) + Cardinality(here) - Cardinality({})
  <2>1. rest \cap here = {}
    BY <1>4 DEF here
  <2>2. /\ IsFiniteSet(rest \cup here)
        /\ Cardinality(rest \cup here) = Cardinality(rest) + Cardinality(here) - Cardinality(rest \cap here)
    BY <1>2, <1>5, FS_Union
  <2> QED
    BY <2>1, <2>2
<1>7. Cardinality({}) = 0 /\ Cardinality(rest) \in Nat /\ Cardinality(here) \in Nat
  BY <1>2, <1>5, FS_EmptySet, FS_CardinalityType
<1> QED
  BY <1>3, <1>5, <1>6, <1>7 DEF rest, here

LEMMA HeldIs ==
  ASSUME NEW n, NEW lists, IsFiniteSet(DOMAIN lists),
         \A k \in DOMAIN lists : lists[k] \in Seq(Nodes)
  PROVE  /\ Held(n, lists) \in Nat
         /\ Held(n, lists) = Cardinality(RefsOver(n, lists, DOMAIN lists))
         /\ Held(n, lists) = 0 => \A k \in DOMAIN lists : Occurrences(n, lists[k]) = 0
<1>1. Held(n, lists) = Cardinality(RefsOver(n, lists, DOMAIN lists))
  BY DEF Held, RefsOf, RefsOver
<1>2. CASE DOMAIN lists = {}
  <2>1. RefsOver(n, lists, DOMAIN lists) = {}
    BY <1>2, RefsOverIs
  <2>2. Held(n, lists) = 0
    BY <1>1, <2>1, FS_EmptySet
  <2> QED
    BY <1>1, <1>2, <2>2
<1>3. ASSUME NEW k \in DOMAIN lists
      PROVE  Held(n, lists) \in Nat /\ (Held(n, lists) = 0 => Occurrences(n, lists[k]) = 0)
  <2> DEFINE D == DOMAIN lists
  <2>1. k \in D /\ IsFiniteSet(D) /\ \A j \in D : lists[j] \in Seq(Nodes)
    BY <1>3
  <2> HIDE DEF D
  <2>2. /\ Cardinality(RefsOver(n, lists, D)) \in Nat
        /\ Cardinality(RefsOver(n, lists, D \ {k})) \in Nat
        /\ Cardinality(RefsOver(n, lists, D))
             = Cardinality(RefsOver(n, lists, D \ {k})) + Occurrences(n, lists[k])
    BY <2>1, HeldSplit
  <2>3. Occurrences(n, lists[k]) \in Nat
    BY <2>1, RefsFinite
  <2>4. Held(n, lists) = Cardinality(RefsOver(n, lists, D))
    BY <1>1 DEF D
  <2> QED
    BY <2>2, <2>3, <2>4
<1> QED
  BY <1>1, <1>2, <1>3

\* One list of many has changed: so have the references held, by what it held.
LEMMA HeldChanged ==
  ASSUME NEW n, NEW D, IsFiniteSet(D), NEW lists \in [D -> Seq(Nodes)], NEW at \in D,
         NEW list \in Seq(Nodes)
  PROVE  LET changed == [lists EXCEPT ![at] = list]
         IN  /\ changed \in [D -> Seq(Nodes)]
             /\ Held(n, changed) + Occurrences(n, lists[at]) = Held(n, lists) + Occurrences(n, list)
             /\ Held(n, lists) \in Nat /\ Held(n, changed) \in Nat
             /\ Occurrences(n, lists[at]) \in Nat /\ Occurrences(n, list) \in Nat
<1> DEFINE changed == [lists EXCEPT ![at] = list]
           E == D \ {at}
<1>1. changed \in [D -> Seq(Nodes)] /\ changed[at] = list /\ \A k \in E : changed[k] = lists[k]
  OBVIOUS
<1>2. /\ DOMAIN lists = D /\ DOMAIN changed = D /\ \A k \in D : lists[k] \in Seq(Nodes)
      /\ \A k \in D : changed[k] \in Seq(Nodes)
  BY <1>1
<1> HIDE DEF changed
<1>3. RefsOver(n, changed, E) = RefsOver(n, lists, E)
  BY <1>1 DEF RefsOver
<1>4. /\ Cardinality(RefsOver(n, lists, D)) = Cardinality(RefsOver(n, lists, E)) + Occurrences(n, lists[at])
      /\ Cardinality(RefsOver(n, lists, E)) \in Nat
  BY <1>2, HeldSplit
<1>5. Cardinality(RefsOver(n, changed, D)) = Cardinality(RefsOver(n, changed, E)) + Occurrences(n, list)
  <2>1. Cardinality(RefsOver(n, changed, D))
          = Cardinality(RefsOver(n, changed, D \ {at})) + Occurrences(n, changed[at])
    BY <1>2, HeldSplit
  <2> QED
    BY <1>1, <2>1
<1>6. Held(n, lists) = Cardinality(RefsOver(n, lists, D)) /\ Held(n, lists) \in Nat
  BY <1>2, HeldIs
<1>7. Held(n, changed) = Cardinality(RefsOver(n, changed, D)) /\ Held(n, changed) \in Nat
  BY <1>2, HeldIs
<1>8. Occurrences(n, lists[at]) \in Nat /\ Occurrences(n, list) \in Nat
  BY <1>2, RefsFinite
<1> QED
  BY <1>1, <1>3, <1>4, <1>5, <1>6, <1>7, <1>8 DEF changed

(***************************************************************************)
(* What the drops under way hold.                                          *)
(***************************************************************************)
\* The references that one drop holds.
FrameOwes(n, f) == Occurrences(n, f.todo) + Occurrences(n, f.pending) + Occurrences(n, f.husk)

LEMMA FrameOwesIs ==
  ASSUME NEW n, NEW f \in Drops
  PROVE  /\ f.todo \o f.pending \o f.husk \in Seq(Nodes)
         /\ Occurrences(n, f.todo \o f.pending \o f.husk) = FrameOwes(n, f)
         /\ f.todo \in Seq(Nodes) /\ f.pending \in Seq(Nodes) /\ f.husk \in Seq(Nodes)
         /\ Occurrences(n, f.todo) \in Nat /\ Occurrences(n, f.pending) \in Nat
         /\ Occurrences(n, f.husk) \in Nat /\ FrameOwes(n, f) \in Nat
<1>1. f.todo \in Seq(Nodes) /\ f.pending \in Seq(Nodes) /\ f.husk \in Seq(Nodes)
  BY DEF Drops
<1> DEFINE a == f.todo
           b == f.pending
           c == f.husk
<1> HIDE DEF a, b, c
<1>2. a \in Seq(Nodes) /\ b \in Seq(Nodes) /\ c \in Seq(Nodes)
  BY <1>1 DEF a, b, c
<1>3. a \o b \in Seq(Nodes) /\ a \o b \o c \in Seq(Nodes)
  BY <1>2
<1> DEFINE d == a \o b
<1> HIDE DEF d
<1>4. Occurrences(n, d) = Occurrences(n, a) + Occurrences(n, b)
  BY <1>2, OccurrencesConcat DEF d
<1>5. Occurrences(n, d \o c) = Occurrences(n, d) + Occurrences(n, c)
  BY <1>2, <1>3, OccurrencesConcat DEF d
<1>6. Occurrences(n, a) \in Nat /\ Occurrences(n, b) \in Nat /\ Occurrences(n, c) \in Nat
  BY <1>2, RefsFinite
<1>7. FrameOwes(n, f) = Occurrences(n, a) + Occurrences(n, b) + Occurrences(n, c)
  BY DEF FrameOwes, a, b, c
<1>8. d \o c \in Seq(Nodes) /\ d \o c = f.todo \o f.pending \o f.husk
  BY <1>3 DEF a, b, c, d
<1> QED
  BY <1>1, <1>4, <1>5, <1>6, <1>7, <1>8 DEF a, b, c

LEMMA OwedTyped ==
  ASSUME NEW s \in Seq(Drops), NEW n
  PROVE  /\ DOMAIN OwedBy(s) = 1 .. Len(s) /\ IsFiniteSet(1 .. Len(s))
         /\ \A k \in 1 .. Len(s) : /\ OwedBy(s)[k] \in Seq(Nodes)
                                   /\ s[k] \in Drops /\ Occurrences(n, OwedBy(s)[k]) = FrameOwes(n, s[k])
         /\ Held(n, OwedBy(s)) \in Nat
         /\ Held(n, OwedBy(s)) = Cardinality(RefsOver(n, OwedBy(s), 1 .. Len(s)))
<1>1. DOMAIN s = 1 .. Len(s) /\ Len(s) \in Nat /\ \A k \in 1 .. Len(s) : s[k] \in Drops
  OBVIOUS
<1>2. DOMAIN OwedBy(s) = 1 .. Len(s)
  BY <1>1 DEF OwedBy
<1>3. \A k \in 1 .. Len(s) : OwedBy(s)[k] = s[k].todo \o s[k].pending \o s[k].husk
  BY <1>1 DEF OwedBy
<1>4. IsFiniteSet(1 .. Len(s))
  BY <1>1, FS_Interval
<1>5. \A k \in 1 .. Len(s) : /\ OwedBy(s)[k] \in Seq(Nodes)
                             /\ s[k] \in Drops /\ Occurrences(n, OwedBy(s)[k]) = FrameOwes(n, s[k])
  BY <1>1, <1>3, FrameOwesIs
<1>6. /\ Held(n, OwedBy(s)) \in Nat
      /\ Held(n, OwedBy(s)) = Cardinality(RefsOver(n, OwedBy(s), DOMAIN OwedBy(s)))
  BY <1>2, <1>4, <1>5, HeldIs
<1> QED
  BY <1>2, <1>4, <1>5, <1>6

LEMMA OwedAppend ==
  ASSUME NEW s \in Seq(Drops), NEW f \in Drops, NEW n
  PROVE  /\ Append(s, f) \in Seq(Drops) /\ Held(n, OwedBy(s)) \in Nat
         /\ Held(n, OwedBy(Append(s, f))) = Held(n, OwedBy(s)) + FrameOwes(n, f)
<1> DEFINE t == Append(s, f)
           m == Len(s)
<1>1. /\ t \in Seq(Drops) /\ m \in Nat /\ Len(t) = m + 1 /\ t[m + 1] = f
      /\ \A k \in 1 .. m : t[k] = s[k]
  OBVIOUS
<1> HIDE DEF t
<1>2. m + 1 \in 1 .. Len(t) /\ (1 .. Len(t)) \ {m + 1} = 1 .. m
  BY <1>1
<1>3. \A k \in 1 .. m : OwedBy(t)[k] = OwedBy(s)[k]
  <2>1. DOMAIN t = 1 .. m + 1 /\ DOMAIN s = 1 .. m
    BY <1>1
  <2>2. \A k \in 1 .. m : OwedBy(s)[k] = s[k].todo \o s[k].pending \o s[k].husk
    BY <2>1 DEF OwedBy
  <2>3. \A k \in 1 .. m + 1 : OwedBy(t)[k] = t[k].todo \o t[k].pending \o t[k].husk
    BY <2>1 DEF OwedBy
  <2>4. \A k \in 1 .. m : k \in 1 .. m + 1
    BY <1>1
  <2> QED
    BY <1>1, <2>2, <2>3, <2>4
<1>4. RefsOver(n, OwedBy(t), 1 .. m) = RefsOver(n, OwedBy(s), 1 .. m)
  BY <1>3 DEF RefsOver
<1> DEFINE D == 1 .. Len(t)
           at == m + 1
<1>5. /\ IsFiniteSet(D) /\ at \in D /\ \A k \in D : OwedBy(t)[k] \in Seq(Nodes)
      /\ Occurrences(n, OwedBy(t)[at]) = FrameOwes(n, f)
      /\ Held(n, OwedBy(t)) = Cardinality(RefsOver(n, OwedBy(t), D))
      /\ D \ {at} = 1 .. m
  BY <1>1, <1>2, OwedTyped
<1>6. Held(n, OwedBy(s)) = Cardinality(RefsOver(n, OwedBy(s), 1 .. m)) /\ Held(n, OwedBy(s)) \in Nat
  BY OwedTyped
<1> HIDE DEF D, at, m
<1>7. Cardinality(RefsOver(n, OwedBy(t), D))
        = Cardinality(RefsOver(n, OwedBy(t), D \ {at})) + Occurrences(n, OwedBy(t)[at])
  BY <1>5, HeldSplit
<1> QED
  BY <1>1, <1>4, <1>5, <1>6, <1>7 DEF t

LEMMA OwedTop ==
  ASSUME NEW s \in Seq(Drops), s # <<>>, NEW n
  PROVE  /\ Last(s) \in Drops /\ Front(s) \in Seq(Drops) /\ Held(n, OwedBy(Front(s))) \in Nat
         /\ Held(n, OwedBy(s)) = Held(n, OwedBy(Front(s))) + FrameOwes(n, Last(s))
<1>1. /\ Front(s) \in Seq(Drops) /\ Len(Front(s)) = Len(s) - 1 /\ Len(s) \in Nat \ {0}
      /\ \A i \in 1 .. Len(s) - 1 : Front(s)[i] = s[i]
  BY FrontIs
<1>2. Last(s) \in Drops /\ Last(s) = s[Len(s)]
  BY <1>1 DEF Last
<1>3. s = Append(Front(s), Last(s))
  BY <1>1, <1>2
<1> QED
  BY <1>1, <1>2, <1>3, OwedAppend

LEMMA OwedNone ==
  ASSUME NEW n
  PROVE  Held(n, OwedBy(<<>>)) = 0
<1>1. <<>> \in Seq(Drops) /\ Len(<<>>) = 0 /\ 1 .. 0 = {}
  OBVIOUS
<1>2. RefsOver(n, OwedBy(<<>>), {}) = {}
  BY RefsOverIs
<1>3. Held(n, OwedBy(<<>>)) = Cardinality(RefsOver(n, OwedBy(<<>>), 1 .. Len(<<>>)))
  BY <1>1, OwedTyped
<1> QED
  BY <1>1, <1>2, <1>3, FS_EmptySet

LEMMA OwedUnder ==
  ASSUME stack \in Seq(Drops), stack # <<>>, NEW f \in Drops, NEW m
  PROVE  /\ Under(f) \in Seq(Drops) /\ TopDrop \in Drops /\ Front(stack) \in Seq(Drops)
         /\ Owed(m) \in Nat /\ Held(m, OwedBy(Under(f))) \in Nat
         /\ FrameOwes(m, f) \in Nat /\ FrameOwes(m, TopDrop) \in Nat
         /\ Held(m, OwedBy(Under(f))) + FrameOwes(m, TopDrop) = Owed(m) + FrameOwes(m, f)
<1> DEFINE below == Front(stack)
<1>1. /\ TopDrop \in Drops /\ below \in Seq(Drops) /\ Held(m, OwedBy(below)) \in Nat
      /\ Held(m, OwedBy(stack)) = Held(m, OwedBy(below)) + FrameOwes(m, TopDrop)
  BY OwedTop DEF TopDrop
<1> HIDE DEF below
<1>2. /\ Append(below, f) \in Seq(Drops)
      /\ Held(m, OwedBy(Append(below, f))) = Held(m, OwedBy(below)) + FrameOwes(m, f)
  BY <1>1, OwedAppend
<1>3. Under(f) = Append(below, f)
  BY DEF Under, below
<1>4. FrameOwes(m, f) \in Nat /\ FrameOwes(m, TopDrop) \in Nat
  BY <1>1, FrameOwesIs
<1> QED
  BY <1>1, <1>2, <1>3, <1>4 DEF Owed, below

LEMMA FrameLessOne ==
  ASSUME NEW f \in Drops, f.todo # <<>>, NEW m
  PROVE  LET g == [f EXCEPT !.todo = Tail(@)]
         IN  /\ g \in Drops /\ Head(f.todo) \in Nodes
             /\ g.pending = f.pending /\ g.husk = f.husk
             /\ FrameOwes(m, g) \in Nat /\ One(m, Head(f.todo)) \in Nat
             /\ FrameOwes(m, g) + One(m, Head(f.todo)) = FrameOwes(m, f)
<1> DEFINE g == [f EXCEPT !.todo = Tail(@)]
           list == f.todo
<1>1. /\ list \in Seq(Nodes) /\ Occurrences(m, list) \in Nat /\ Occurrences(m, f.pending) \in Nat
      /\ Occurrences(m, f.husk) \in Nat
  BY FrameOwesIs
<1>2. list # <<>>
  OBVIOUS
<1>3. g.todo = Tail(list) /\ g.pending = f.pending /\ g.husk = f.husk
  BY DEF Drops
<1> HIDE DEF list
<1>4. /\ Head(list) \in Nodes /\ Tail(list) \in Seq(Nodes)
      /\ Occurrences(m, list) = Occurrences(m, Tail(list)) + One(m, Head(list))
  BY <1>1, <1>2, OccurrencesTail
<1>5. g \in Drops
  BY <1>4 DEF Drops, list
<1> HIDE DEF g
<1>6. Occurrences(m, Tail(list)) \in Nat
  BY <1>4, RefsFinite
<1>7. One(m, Head(list)) \in Nat
  BY DEF One
<1>8. FrameOwes(m, f) = Occurrences(m, list) + Occurrences(m, f.pending) + Occurrences(m, f.husk)
  BY DEF FrameOwes, list
<1>9. FrameOwes(m, g) = Occurrences(m, Tail(list)) + Occurrences(m, f.pending) + Occurrences(m, f.husk)
  BY <1>3 DEF FrameOwes
<1>10. FrameOwes(m, g) \in Nat /\ FrameOwes(m, g) + One(m, Head(list)) = FrameOwes(m, f)
  BY <1>1, <1>4, <1>6, <1>7, <1>8, <1>9
<1> QED
  BY <1>3, <1>4, <1>5, <1>7, <1>10 DEF g, list

LEMMA Emptied ==
  ASSUME NEW lists \in [Nodes -> Seq(Nodes)], NEW at \in Nodes, NEW m
  PROVE  LET emptied == [lists EXCEPT ![at] = <<>>]
         IN  /\ emptied \in [Nodes -> Seq(Nodes)] /\ lists[at] \in Seq(Nodes)
             /\ Held(m, emptied) \in Nat /\ Held(m, lists) \in Nat
             /\ Occurrences(m, lists[at]) \in Nat
             /\ Held(m, emptied) + Occurrences(m, lists[at]) = Held(m, lists)
<1>1. IsFiniteSet(Nodes) /\ <<>> \in Seq(Nodes) /\ Occurrences(m, <<>>) = 0
  <2>1. Occurrences(m, <<>>) = 0 /\ Occurrences(m, <<at>>) = IF at = m THEN 1 ELSE 0
    BY OccurrencesFew
  <2> QED
    BY <2>1, NodesAssumption
<1> DEFINE emptied == [lists EXCEPT ![at] = <<>>]
<1>2. /\ emptied \in [Nodes -> Seq(Nodes)]
      /\ Held(m, emptied) + Occurrences(m, lists[at]) = Held(m, lists) + Occurrences(m, <<>>)
      /\ Held(m, lists) \in Nat /\ Held(m, emptied) \in Nat
      /\ Occurrences(m, lists[at]) \in Nat
  BY <1>1, HeldChanged
<1> HIDE DEF emptied
<1>3. Held(m, emptied) + Occurrences(m, lists[at]) = Held(m, lists)
  BY <1>1, <1>2
<1> QED
  BY <1>2, <1>3 DEF emptied

(***************************************************************************)
(* The invariant of the drops.                                             *)
(***************************************************************************)
\* Only what nothing holds, from outside or as an item, has lost its items.
Intact ==
  \A n \in Nodes : \/ items[n] = heap.items[n]
                   \/ Occurrences(n, held) = 0 /\ Held(n, items) = 0

DropInv == DropTypeOK /\ CountsTrue /\ Intact

LEMMA CountsAre ==
  ASSUME DropInv, NEW n \in Nodes
  PROVE  /\ count[n] = Occurrences(n, held) + Held(n, items) + Owed(n)
         /\ count[n] \in Nat /\ Occurrences(n, held) \in Nat /\ Held(n, items) \in Nat /\ Owed(n) \in Nat
<1>1. count[n] = Occurrences(n, held) + Held(n, items) + Owed(n) /\ count[n] \in Nat
  BY DEF DropInv, CountsTrue, DropTypeOK
<1>2. Occurrences(n, held) \in Nat
  BY RefsFinite DEF DropInv, DropTypeOK
<1>3. Held(n, items) \in Nat
  BY Emptied DEF DropInv, DropTypeOK
<1>4. Owed(n) \in Nat
  BY OwedTyped DEF DropInv, DropTypeOK, Owed
<1> QED
  BY <1>1, <1>2, <1>3, <1>4

LEMMA HeldKept ==
  ASSUME DropInv
  PROVE  SharedStaysWhole
<1> SUFFICES ASSUME NEW n \in StillHeld PROVE items[n] = heap.items[n]
  BY DEF SharedStaysWhole
<1>1. held \in Seq(Nodes) /\ items \in [Nodes -> Seq(Nodes)]
  BY DEF DropInv, DropTypeOK
<1>2. CASE n \in ToSet(held)
  <2>1. PICK i \in DOMAIN held : held[i] = n
    BY <1>2 DEF ToSet
  <2>2. n \in Nodes
    BY <1>1, <2>1
  <2>3. Occurrences(n, held) # 0
    BY <1>1, <2>1, NoneThere
  <2> QED
    BY <2>2, <2>3 DEF DropInv, Intact
<1>3. ASSUME NEW m \in Nodes, n \in ToSet(items[m]) PROVE items[n] = heap.items[n]
  <2> DEFINE list == items[m]
  <2>1. list \in Seq(Nodes) /\ n \in ToSet(list)
    BY <1>1, <1>3
  <2>2. DOMAIN items = Nodes /\ IsFiniteSet(Nodes) /\ \A k \in Nodes : items[k] \in Seq(Nodes)
    BY <1>1, NodesAssumption
  <2> HIDE DEF list
  <2>3. PICK i \in DOMAIN list : list[i] = n
    BY <2>1 DEF ToSet
  <2>4. n \in Nodes
    BY <2>1, <2>3
  <2>5. Occurrences(n, list) # 0
    BY <2>1, <2>3, NoneThere
  <2>6. Held(n, items) = 0 => \A k \in Nodes : Occurrences(n, items[k]) = 0
    BY <2>2, HeldIs
  <2>7. Held(n, items) # 0
    BY <2>5, <2>6 DEF list
  <2> QED
    BY <2>4, <2>7 DEF DropInv, Intact
<1> QED
  BY <1>2, <1>3 DEF StillHeld

\* A reference goes, that was held from outside or by the innermost drop: what is
\* freed by it is held by nothing, and what it held is held by the drop of it.
LEMMA ReferenceGoes ==
  ASSUME DropInv, NEW n \in Nodes, NEW below \in Seq(Drops), Drop(n, below),
         heap' = heap, known' = known, held' \in Seq(Nodes),
         \A m \in Nodes : /\ Occurrences(m, held') + Held(m, OwedBy(below)) + One(m, n)
                               = Occurrences(m, held) + Owed(m)
                          /\ Occurrences(m, held') <= Occurrences(m, held)
  PROVE  DropInv'
<1>1. /\ heap \in Heaps /\ known \in BOOLEAN /\ held \in Seq(Nodes) /\ items \in [Nodes -> Seq(Nodes)]
      /\ count \in [Nodes -> Nat] /\ stack \in Seq(Drops)
  BY DEF DropInv, DropTypeOK
<1>2. ASSUME NEW m \in Nodes
      PROVE  /\ Occurrences(m, held') \in Nat /\ Held(m, OwedBy(below)) \in Nat
             /\ One(m, n) = IF m = n THEN 1 ELSE 0
             /\ count[m] = Occurrences(m, held) + Held(m, items) + Owed(m)
             /\ count[m] \in Nat /\ Occurrences(m, held) \in Nat /\ Held(m, items) \in Nat /\ Owed(m) \in Nat
             /\ Occurrences(m, held') + Held(m, OwedBy(below)) + One(m, n) = Occurrences(m, held) + Owed(m)
             /\ Occurrences(m, held') <= Occurrences(m, held)
  BY CountsAre, RefsFinite, OwedTyped DEF One
<1>3. count' = [count EXCEPT ![n] = @ - 1]
  BY DEF Drop
<1>4. ASSUME NEW m \in Nodes
      PROVE  /\ count'[m] = Occurrences(m, held') + Held(m, items) + Held(m, OwedBy(below))
             /\ count'[m] \in Nat
  <2> DEFINE a == Occurrences(m, held')
             b == Held(m, OwedBy(below))
             c == Held(m, items)
             d == Occurrences(m, held)
             e == Owed(m)
             one == One(m, n)
  <2>1. count'[m] = IF m = n THEN count[m] - 1 ELSE count[m]
    BY <1>1, <1>3
  <2>2. /\ a \in Nat /\ b \in Nat /\ c \in Nat /\ d \in Nat /\ e \in Nat
        /\ one = (IF m = n THEN 1 ELSE 0) /\ count[m] = d + c + e /\ a + b + one = d + e
    BY <1>2
  <2> HIDE DEF a, b, c, d, e, one
  <2>3. count'[m] = a + c + b /\ a + c + b \in Nat
    <3>1. CASE m = n
      BY <2>1, <2>2, <3>1
    <3>2. CASE m # n
      BY <2>1, <2>2, <3>2
    <3> QED
      BY <3>1, <3>2
  <2> QED
    BY <2>3 DEF a, b, c
<1>5. count' \in [Nodes -> Nat]
  <2>1. DOMAIN count' = Nodes /\ count' = [m \in Nodes |-> count'[m]]
    BY <1>1, <1>3
  <2> QED
    BY <1>4, <2>1
<1>6. CASE Unique(n)
  <2> DEFINE f == DropFrame(n, DropsFlat(n), items[n])
             emptied == [items EXCEPT ![n] = <<>>]
  <2>1. stack' = Append(below, f) /\ items' = emptied
    BY <1>6 DEF Drop
  <2>2. f \in Drops /\ f.todo = items[n] /\ f.pending = <<>> /\ f.husk = <<>>
    <3>1. DropsFlat(n) \in BOOLEAN
      BY DEF DropsFlat
    <3>2. items[n] \in Seq(Nodes) /\ <<>> \in Seq(Nodes)
      BY <1>1
    <3> DEFINE flat == DropsFlat(n)
               list == items[n]
    <3> HIDE DEF flat, list
    <3>3. DropFrame(n, flat, list) \in Drops
      BY <3>1, <3>2 DEF flat, list, DropFrame, Drops
    <3>4. /\ DropFrame(n, flat, list).todo = list /\ DropFrame(n, flat, list).pending = <<>>
          /\ DropFrame(n, flat, list).husk = <<>>
      BY DEF DropFrame
    <3> QED
      BY <3>3, <3>4 DEF flat, list
  <2>3. /\ emptied \in [Nodes -> Seq(Nodes)] /\ emptied[n] = <<>>
        /\ \A m \in Nodes : m # n => emptied[m] = items[m]
    BY <1>1, Emptied
  <2>4. ASSUME NEW m \in Nodes
        PROVE  /\ Held(m, emptied) \in Nat /\ Occurrences(m, items[n]) \in Nat
               /\ Held(m, emptied) + Occurrences(m, items[n]) = Held(m, items)
    BY <1>1, Emptied
  <2> HIDE DEF f, emptied
  <2>5. ASSUME NEW m \in Nodes
        PROVE  /\ Append(below, f) \in Seq(Drops)
               /\ Held(m, OwedBy(Append(below, f))) = Held(m, OwedBy(below)) + Occurrences(m, items[n])
    <3>1. /\ Append(below, f) \in Seq(Drops)
          /\ Held(m, OwedBy(Append(below, f))) = Held(m, OwedBy(below)) + FrameOwes(m, f)
      BY <2>2, OwedAppend
    <3>2. Occurrences(m, <<>>) = 0 /\ Occurrences(m, <<n>>) = IF n = m THEN 1 ELSE 0
      BY OccurrencesFew
    <3>3. FrameOwes(m, f) = Occurrences(m, items[n])
      BY <2>2, <2>4, <3>2 DEF FrameOwes
    <3> QED
      BY <3>1, <3>3
  <2>6. DropTypeOK'
    BY <1>1, <1>5, <2>1, <2>3, <2>5 DEF DropTypeOK
  <2>7. CountsTrue'
    <3>1. ASSUME NEW m \in Nodes
          PROVE  count'[m] = Occurrences(m, held') + Held(m, items') + Held(m, OwedBy(stack'))
      <4> DEFINE a == Occurrences(m, held')
                 b == Held(m, OwedBy(below))
                 c == Held(m, items)
                 c2 == Held(m, emptied)
                 d == Occurrences(m, items[n])
                 b2 == Held(m, OwedBy(Append(below, f)))
      <4>1. /\ a \in Nat /\ b \in Nat /\ c \in Nat /\ c2 \in Nat /\ d \in Nat
            /\ count'[m] = a + c + b /\ c2 + d = c /\ b2 = b + d
        BY <1>2, <1>4, <2>4, <2>5
      <4> HIDE DEF a, b, c, c2, d, b2
      <4>2. count'[m] = a + c2 + b2
        BY <4>1
      <4> QED
        BY <2>1, <4>2 DEF a, b2, c2
    <3> QED
      BY <3>1 DEF CountsTrue, Owed
  <2>8. Intact'
    <3>1. ASSUME NEW m \in Nodes
          PROVE  \/ items'[m] = heap'.items[m]
                 \/ Occurrences(m, held') = 0 /\ Held(m, items') = 0
      <4>1. Occurrences(m, held) = 0 /\ Held(m, items) = 0
              => Occurrences(m, held') = 0 /\ Held(m, emptied) = 0
        <5> DEFINE a == Occurrences(m, held')
                   c == Held(m, items)
                   c2 == Held(m, emptied)
                   d == Occurrences(m, items[n])
                   e == Occurrences(m, held)
        <5>1. /\ a \in Nat /\ c \in Nat /\ c2 \in Nat /\ d \in Nat /\ e \in Nat
              /\ c2 + d = c /\ a <= e
          BY <1>2, <2>4
        <5> HIDE DEF a, c, c2, d, e
        <5>2. e = 0 /\ c = 0 => a = 0 /\ c2 = 0
          BY <5>1
        <5> QED
          BY <5>2 DEF a, c, c2, e
      <4>2. CASE m = n
        <5>1. count[n] = 1
          BY <1>6 DEF Unique
        <5> DEFINE a == Occurrences(m, held')
                   b == Held(m, OwedBy(below))
                   c == Held(m, items)
                   c2 == Held(m, emptied)
                   d == Occurrences(m, items[n])
        <5>2. /\ a \in Nat /\ b \in Nat /\ c \in Nat /\ c2 \in Nat /\ d \in Nat /\ c2 + d = c
              /\ a + c + b = 0
          <6>1. count'[m] = 0
            BY <1>1, <1>3, <4>2, <5>1
          <6> QED
            BY <1>2, <1>4, <2>4, <6>1
        <5> HIDE DEF a, b, c, c2, d
        <5>3. a = 0 /\ c2 = 0
          BY <5>2
        <5>4. Occurrences(m, held') = 0 /\ Held(m, emptied) = 0
          BY <5>3 DEF a, c2
        <5> QED
          BY <2>1, <5>4
      <4>3. CASE m # n
        BY <2>1, <2>3, <4>1, <4>3 DEF DropInv, Intact
      <4> QED
        BY <4>2, <4>3
    <3> QED
      BY <3>1 DEF Intact
  <2> QED
    BY <2>6, <2>7, <2>8 DEF DropInv
<1>7. CASE ~ Unique(n)
  <2>1. stack' = below /\ items' = items
    BY <1>7 DEF Drop
  <2>2. DropTypeOK'
    BY <1>1, <1>5, <2>1 DEF DropTypeOK
  <2>3. CountsTrue'
    BY <1>4, <2>1 DEF CountsTrue, Owed
  <2>4. Intact'
    <3>1. ASSUME NEW m \in Nodes
          PROVE  \/ items'[m] = heap'.items[m]
                 \/ Occurrences(m, held') = 0 /\ Held(m, items') = 0
      BY <1>2, <2>1 DEF DropInv, Intact
    <3> QED
      BY <3>1 DEF Intact
  <2> QED
    BY <2>2, <2>3, <2>4 DEF DropInv
<1> QED
  BY <1>6, <1>7

LEMMA DropStarts == DropInit => DropInv
<1> SUFFICES ASSUME DropInit PROVE DropInv
  OBVIOUS
<1>1. /\ heap \in Heaps /\ known \in BOOLEAN /\ held = heap.held /\ items = heap.items /\ stack = <<>>
      /\ count = [n \in Nodes |-> Occurrences(n, held) + Held(n, items)]
  BY LimitsAssumption DEF DropInit
<1>2. held \in Seq(Nodes) /\ items \in [Nodes -> Seq(Nodes)] /\ stack \in Seq(Drops)
  BY <1>1, HeapsAssumption
<1>3. ASSUME NEW n \in Nodes
      PROVE  Occurrences(n, held) \in Nat /\ Held(n, items) \in Nat /\ Owed(n) = 0
  BY <1>1, <1>2, RefsFinite, Emptied, OwedNone DEF Owed
<1>4. DropTypeOK
  BY <1>1, <1>2, <1>3 DEF DropTypeOK
<1>5. CountsTrue
  BY <1>1, <1>3 DEF CountsTrue
<1>6. Intact
  BY <1>1 DEF Intact
<1> QED
  BY <1>4, <1>5, <1>6 DEF DropInv

LEMMA ReleaseKeeps == DropInv /\ Release => DropInv'
<1> SUFFICES ASSUME DropInv, Release PROVE DropInv'
  OBVIOUS
<1>1. PICK i \in DOMAIN held : Drop(held[i], <<>>) /\ held' = RemoveAt(held, i)
  BY DEF Release
<1>2. stack = <<>> /\ heap' = heap /\ known' = known /\ <<>> \in Seq(Drops)
  BY DEF Release
<1>3. held \in Seq(Nodes) /\ i \in 1 .. Len(held)
  BY DEF DropInv, DropTypeOK
<1>4. ASSUME NEW m \in Nodes
      PROVE  /\ held[i] \in Nodes /\ held' \in Seq(Nodes)
             /\ Occurrences(m, held) = Occurrences(m, held') + One(m, held[i])
             /\ Held(m, OwedBy(<<>>)) = 0 /\ Owed(m) = 0
             /\ Occurrences(m, held') \in Nat /\ One(m, held[i]) \in Nat
  <2>1. /\ held[i] \in Nodes /\ held' \in Seq(Nodes)
        /\ Occurrences(m, held) = Occurrences(m, held') + One(m, held[i])
    BY <1>1, <1>3, OccurrencesRemoved
  <2> QED
    BY <1>2, <2>1, OwedNone, RefsFinite DEF Owed, One
<1> DEFINE n == held[i]
<1>5. n \in Nodes
  BY <1>3
<1>6. \A m \in Nodes : /\ held' \in Seq(Nodes)
                       /\ Occurrences(m, held') + Held(m, OwedBy(<<>>)) + One(m, n)
                            = Occurrences(m, held) + Owed(m)
                       /\ Occurrences(m, held') <= Occurrences(m, held)
  BY <1>4
<1>7. Drop(n, <<>>)
  BY <1>1
<1> HIDE DEF n
<1> QED
  BY <1>2, <1>5, <1>6, <1>7, ReferenceGoes

\* The next item of the innermost drop goes, or of the payload that drop_deep sorts.
LEMMA NextItemGoes ==
  ASSUME DropInv, stack # <<>>, TopDrop.todo # <<>>,
         Drop(Head(TopDrop.todo), Under([TopDrop EXCEPT !.todo = Tail(@)])),
         UNCHANGED <<heap, known, held>>
  PROVE  DropInv'
<1> DEFINE f == TopDrop
           g == [TopDrop EXCEPT !.todo = Tail(@)]
           n == Head(TopDrop.todo)
           below == Under(g)
<1>1. stack \in Seq(Drops) /\ held \in Seq(Nodes)
  BY DEF DropInv, DropTypeOK
<1>2. f \in Drops
  BY <1>1, OwedTop DEF TopDrop
<1>3. ASSUME NEW m \in Nodes
      PROVE  /\ g \in Drops /\ n \in Nodes /\ FrameOwes(m, g) \in Nat /\ One(m, n) \in Nat
             /\ FrameOwes(m, g) + One(m, n) = FrameOwes(m, f)
  BY <1>2, FrameLessOne
<1>4. g \in Drops /\ n \in Nodes
  BY <1>2, FrameLessOne
<1>5. Drop(n, below) /\ heap' = heap /\ known' = known /\ held' = held
  OBVIOUS
<1> HIDE DEF g, n
<1>6. ASSUME NEW m \in Nodes
      PROVE  /\ below \in Seq(Drops)
             /\ Owed(m) \in Nat /\ Held(m, OwedBy(below)) \in Nat /\ FrameOwes(m, f) \in Nat
             /\ Held(m, OwedBy(below)) + FrameOwes(m, f) = Owed(m) + FrameOwes(m, g)
  BY <1>1, <1>4, OwedUnder
<1> HIDE DEF f, below
<1>7. ASSUME NEW m \in Nodes
      PROVE  /\ Occurrences(m, held') + Held(m, OwedBy(below)) + One(m, n) = Occurrences(m, held) + Owed(m)
             /\ Occurrences(m, held') <= Occurrences(m, held)
  <2> DEFINE a == Occurrences(m, held)
             b == Held(m, OwedBy(below))
             one == One(m, n)
             e == Owed(m)
             fg == FrameOwes(m, g)
             ff == FrameOwes(m, f)
  <2>1. a \in Nat
    BY <1>1, RefsFinite
  <2>2. /\ b \in Nat /\ one \in Nat /\ e \in Nat /\ fg \in Nat /\ ff \in Nat
        /\ fg + one = ff /\ b + ff = e + fg
    BY <1>3, <1>6
  <2> HIDE DEF a, b, one, e, fg, ff
  <2>4. b + one = e
    BY <2>2
  <2>3. a + b + one = a + e /\ a <= a
    BY <2>1, <2>2, <2>4
  <2> QED
    BY <1>5, <2>3 DEF a, b, one, e
<1> QED
  BY <1>1, <1>4, <1>5, <1>6, <1>7, ReferenceGoes

\* Nothing goes: the references move within the innermost drop, and the counts stand.
LEMMA ReferencesMove ==
  ASSUME DropInv, stack # <<>>, NEW f \in Drops, stack' = Under(f),
         UNCHANGED <<heap, known, held, items, count>>,
         \A m \in Nodes : FrameOwes(m, f) = FrameOwes(m, TopDrop)
  PROVE  DropInv'
<1>1. /\ heap \in Heaps /\ known \in BOOLEAN /\ held \in Seq(Nodes) /\ items \in [Nodes -> Seq(Nodes)]
      /\ count \in [Nodes -> Nat] /\ stack \in Seq(Drops)
  BY DEF DropInv, DropTypeOK
<1>2. Under(f) \in Seq(Drops)
  <2>1. Front(stack) \in Seq(Drops)
    BY <1>1, OwedTop
  <2> DEFINE below == Front(stack)
  <2> HIDE DEF below
  <2>2. Append(below, f) \in Seq(Drops)
    BY <2>1 DEF below
  <2> QED
    BY <2>2 DEF Under, below
<1>3. DropTypeOK'
  BY <1>1, <1>2 DEF DropTypeOK
<1>4. ASSUME NEW m \in Nodes PROVE Held(m, OwedBy(stack')) = Owed(m)
  <2> DEFINE e == Owed(m)
             e2 == Held(m, OwedBy(Under(f)))
             a == FrameOwes(m, f)
             b == FrameOwes(m, TopDrop)
  <2>1. e \in Nat /\ e2 \in Nat /\ a \in Nat /\ b \in Nat /\ e2 + b = e + a
    BY <1>1, OwedUnder
  <2>2. a = b
    OBVIOUS
  <2> HIDE DEF e, e2, a, b
  <2>3. e2 = e
    BY <2>1, <2>2
  <2> QED
    BY <2>3 DEF e, e2
<1>5. CountsTrue'
  <2>1. ASSUME NEW m \in Nodes
        PROVE  count'[m] = Occurrences(m, held') + Held(m, items') + Held(m, OwedBy(stack'))
    BY <1>4 DEF DropInv, CountsTrue
  <2> QED
    BY <2>1 DEF CountsTrue, Owed
<1>6. Intact'
  <2>1. ASSUME NEW m \in Nodes
        PROVE  \/ items'[m] = heap'.items[m]
               \/ Occurrences(m, held') = 0 /\ Held(m, items') = 0
    BY DEF DropInv, Intact
  <2> QED
    BY <2>1 DEF Intact
<1> QED
  BY <1>3, <1>5, <1>6 DEF DropInv

LEMMA PostponeKeeps == DropInv /\ Postpone => DropInv'
<1> SUFFICES ASSUME DropInv, Postpone PROVE DropInv'
  OBVIOUS
<1> DEFINE f == TopDrop
           g == [TopDrop EXCEPT !.todo = Tail(@)]
           n == Head(TopDrop.todo)
           h == [TopDrop EXCEPT !.todo = Tail(@), !.pending = Append(@, Head(TopDrop.todo))]
<1>1. /\ stack # <<>> /\ f.todo # <<>> /\ stack' = Under(h)
      /\ UNCHANGED <<heap, known, held, items, count>>
  BY DEF Postpone
<1>2. f \in Drops
  <2>1. stack \in Seq(Drops)
    BY DEF DropInv, DropTypeOK
  <2> QED
    BY <1>1, <2>1, OwedTop DEF TopDrop
<1>3. ASSUME NEW m \in Nodes
      PROVE  /\ n \in Nodes /\ g \in Drops /\ g.pending = f.pending /\ g.husk = f.husk
             /\ FrameOwes(m, g) + One(m, n) = FrameOwes(m, f)
             /\ FrameOwes(m, g) \in Nat /\ One(m, n) \in Nat
  BY <1>1, <1>2, FrameLessOne
<1>4. /\ n \in Nodes /\ g \in Drops /\ g.pending = f.pending /\ g.husk = f.husk
  BY <1>1, <1>2, FrameLessOne
<1>5. /\ h.todo = g.todo /\ h.pending = Append(f.pending, n) /\ h.husk = f.husk /\ h \in Drops
  <2>1. f.pending \in Seq(Nodes)
    BY <1>2 DEF Drops
  <2> DEFINE list == Append(f.pending, n)
  <2>2. list \in Seq(Nodes)
    BY <1>4, <2>1
  <2>3. h = [g EXCEPT !.pending = list]
    BY <1>2 DEF Drops
  <2> HIDE DEF list, g, h
  <2>4. h \in Drops /\ h.todo = g.todo /\ h.pending = list /\ h.husk = g.husk
    BY <1>4, <2>2, <2>3 DEF Drops
  <2> QED
    BY <1>4, <2>4 DEF list
<1> HIDE DEF g, h, n
<1>6. ASSUME NEW m \in Nodes PROVE FrameOwes(m, h) = FrameOwes(m, f)
  <2> DEFINE list == f.pending
             a == Occurrences(m, g.todo)
             b == Occurrences(m, f.pending)
             b2 == Occurrences(m, Append(list, n))
             c == Occurrences(m, f.husk)
             one == One(m, n)
             ff == FrameOwes(m, f)
  <2>1. list \in Seq(Nodes) /\ a \in Nat /\ b \in Nat /\ c \in Nat
    BY <1>2, <1>4, FrameOwesIs
  <2>2. b2 = Occurrences(m, list) + one
    <3> HIDE DEF list
    <3> QED
      BY <1>4, <2>1, OccurrencesAppend
  <2>3. FrameOwes(m, g) = a + b + c /\ FrameOwes(m, h) = a + b2 + c
    BY <1>4, <1>5 DEF FrameOwes
  <2>4. one \in Nat /\ FrameOwes(m, g) + one = ff
    BY <1>3
  <2>5. b2 = b + one
    BY <2>2
  <2> HIDE DEF a, b, b2, c, one, ff
  <2>6. a + b2 + c = a + b + c + one
    BY <2>1, <2>4, <2>5
  <2>7. FrameOwes(m, h) = ff
    BY <2>3, <2>4, <2>6
  <2> QED
    BY <2>7 DEF ff
<1> HIDE DEF f
<1>7. \A m \in Nodes : FrameOwes(m, h) = FrameOwes(m, TopDrop)
  BY <1>6 DEF f
<1> QED
  BY <1>1, <1>5, <1>7, ReferencesMove

LEMMA DropHuskKeeps == DropInv /\ DropHusk => DropInv'
<1> SUFFICES ASSUME DropInv, DropHusk PROVE DropInv'
  OBVIOUS
<1> DEFINE f == TopDrop
           n == TopDrop.husk[1]
           h == [TopDrop EXCEPT !.husk = Tail(@)]
<1>1. /\ stack # <<>> /\ f.husk # <<>> /\ stack' = Under(h)
      /\ count' = [count EXCEPT ![n] = @ - 1] /\ UNCHANGED <<heap, known, held, items>>
  BY DEF DropHusk
<1>2. /\ heap \in Heaps /\ known \in BOOLEAN /\ held \in Seq(Nodes) /\ items \in [Nodes -> Seq(Nodes)]
      /\ count \in [Nodes -> Nat] /\ stack \in Seq(Drops)
  BY DEF DropInv, DropTypeOK
<1>3. f \in Drops
  BY <1>1, <1>2, OwedTop DEF TopDrop
<1> DEFINE list == f.husk
<1>4. list \in Seq(Nodes) /\ list # <<>>
  BY <1>1, <1>3 DEF Drops
<1>5. n = Head(list)
  BY <1>4
<1>6. h.todo = f.todo /\ h.pending = f.pending /\ h.husk = Tail(list)
  BY <1>3 DEF Drops
<1>7. Tail(list) \in Seq(Nodes) /\ n \in Nodes
  BY <1>4, <1>5
<1>8. h \in Drops
  BY <1>3, <1>7 DEF Drops
<1> HIDE DEF n, h, f
<1>9. ASSUME NEW m \in Nodes
      PROVE  FrameOwes(m, h) + One(m, n) = FrameOwes(m, f)
  <2> DEFINE a == Occurrences(m, f.todo)
             b == Occurrences(m, f.pending)
             c == Occurrences(m, list)
             c2 == Occurrences(m, Tail(list))
             one == One(m, n)
  <2>1. a \in Nat /\ b \in Nat /\ c \in Nat
    BY <1>3, FrameOwesIs
  <2>2. c2 \in Nat
    BY <1>7, RefsFinite
  <2>3. c = c2 + One(m, Head(list))
    <3> HIDE DEF list
    <3> QED
      BY <1>4, OccurrencesTail
  <2>4. FrameOwes(m, h) = a + b + c2 /\ FrameOwes(m, f) = a + b + c
    BY <1>6 DEF FrameOwes
  <2>5. c = c2 + one /\ one \in Nat
    BY <1>5, <2>3 DEF One
  <2> HIDE DEF a, b, c, c2, one
  <2>6. a + b + c2 + one = a + b + c
    BY <2>1, <2>2, <2>5
  <2> QED
    BY <2>4, <2>6 DEF one
<1> HIDE DEF list
<1>10. ASSUME NEW m \in Nodes
       PROVE  /\ Under(h) \in Seq(Drops)
              /\ count'[m] = Occurrences(m, held) + Held(m, items) + Held(m, OwedBy(Under(h)))
              /\ count'[m] \in Nat
  <2> DEFINE a == Occurrences(m, held)
             c == Held(m, items)
             e == Owed(m)
             e2 == Held(m, OwedBy(Under(h)))
             fh == FrameOwes(m, h)
             ff == FrameOwes(m, f)
             one == One(m, n)
  <2>1. count[m] = a + c + e /\ a \in Nat /\ c \in Nat /\ e \in Nat
    BY CountsAre
  <2>2. /\ Under(h) \in Seq(Drops) /\ e2 \in Nat /\ fh \in Nat /\ ff \in Nat /\ e2 + ff = e + fh
    BY <1>1, <1>2, <1>8, OwedUnder DEF f
  <2>3. fh + one = ff /\ one = IF m = n THEN 1 ELSE 0
    BY <1>9 DEF One
  <2>4. count'[m] = IF m = n THEN count[m] - 1 ELSE count[m]
    BY <1>1, <1>2
  <2> HIDE DEF a, c, e, e2, fh, ff, one
  <2>5. e2 + one = e
    BY <2>1, <2>2, <2>3
  <2>6. count'[m] = a + c + e2
    <3>1. CASE m = n
      BY <2>1, <2>2, <2>3, <2>4, <2>5, <3>1
    <3>2. CASE m # n
      BY <2>1, <2>2, <2>3, <2>4, <2>5, <3>2
    <3> QED
      BY <3>1, <3>2
  <2>7. a + c + e2 \in Nat
    BY <2>1, <2>2
  <2> QED
    BY <2>2, <2>6, <2>7 DEF a, c, e2
<1>11. DropTypeOK'
  <2>1. DOMAIN count' = Nodes /\ count' = [m \in Nodes |-> count'[m]]
    BY <1>1, <1>2
  <2>2. count' \in [Nodes -> Nat]
    BY <1>10, <2>1
  <2>3. stack' \in Seq(Drops)
    BY <1>1, <1>7, <1>10
  <2> QED
    BY <1>1, <1>2, <2>2, <2>3 DEF DropTypeOK
<1>12. CountsTrue'
  <2>1. ASSUME NEW m \in Nodes
        PROVE  count'[m] = Occurrences(m, held') + Held(m, items') + Held(m, OwedBy(stack'))
    BY <1>1, <1>10
  <2> QED
    BY <2>1 DEF CountsTrue, Owed
<1>13. Intact'
  <2>1. ASSUME NEW m \in Nodes
        PROVE  \/ items'[m] = heap'.items[m]
               \/ Occurrences(m, held') = 0 /\ Held(m, items') = 0
    BY <1>1 DEF DropInv, Intact
  <2> QED
    BY <2>1 DEF Intact
<1> QED
  BY <1>11, <1>12, <1>13 DEF DropInv

LEMMA DropEndsKeeps == DropInv /\ DropEnds => DropInv'
<1> SUFFICES ASSUME DropInv, DropEnds PROVE DropInv'
  OBVIOUS
<1>1. /\ stack # <<>> /\ stack' = Front(stack) /\ UNCHANGED <<heap, known, held, items, count>>
      /\ TopDrop.todo = <<>> /\ TopDrop.husk = <<>> /\ TopDrop.pending = <<>>
  BY DEF DropEnds
<1>2. /\ heap \in Heaps /\ known \in BOOLEAN /\ held \in Seq(Nodes) /\ items \in [Nodes -> Seq(Nodes)]
      /\ count \in [Nodes -> Nat] /\ stack \in Seq(Drops)
  BY DEF DropInv, DropTypeOK
<1>3. Front(stack) \in Seq(Drops)
  BY <1>1, <1>2, OwedTop
<1>4. ASSUME NEW m \in Nodes PROVE Held(m, OwedBy(stack')) = Owed(m)
  <2>1. /\ Held(m, OwedBy(Front(stack))) \in Nat
        /\ Held(m, OwedBy(stack)) = Held(m, OwedBy(Front(stack))) + FrameOwes(m, Last(stack))
    BY <1>1, <1>2, OwedTop
  <2>2. Occurrences(m, <<>>) = 0 /\ Occurrences(m, <<m>>) = IF m = m THEN 1 ELSE 0
    BY OccurrencesFew
  <2>3. FrameOwes(m, Last(stack)) = 0
    BY <1>1, <2>2 DEF FrameOwes, TopDrop
  <2> QED
    BY <1>1, <2>1, <2>3 DEF Owed
<1>5. DropTypeOK'
  BY <1>1, <1>2, <1>3 DEF DropTypeOK
<1>6. CountsTrue'
  <2>1. ASSUME NEW m \in Nodes
        PROVE  count'[m] = Occurrences(m, held') + Held(m, items') + Held(m, OwedBy(stack'))
    BY <1>1, <1>4 DEF DropInv, CountsTrue
  <2> QED
    BY <2>1 DEF CountsTrue, Owed
<1>7. Intact'
  <2>1. ASSUME NEW m \in Nodes
        PROVE  \/ items'[m] = heap'.items[m]
               \/ Occurrences(m, held') = 0 /\ Held(m, items') = 0
    BY <1>1 DEF DropInv, Intact
  <2> QED
    BY <2>1 DEF Intact
<1> QED
  BY <1>5, <1>6, <1>7 DEF DropInv

\* Where nobody else refers to what drop_deep takes the items of, nothing holds it any
\* more but the work list it comes from.
LEMMA TakeApartKeeps == DropInv /\ TakeApart => DropInv'
<1> SUFFICES ASSUME DropInv, TakeApart PROVE DropInv'
  OBVIOUS
<1> DEFINE f == TopDrop
           n == Last(TopDrop.pending)
           given == IF Unique(n) THEN items[n] ELSE <<>>
           h == [TopDrop EXCEPT !.pending = Front(@), !.husk = Husk(n), !.todo = given]
           emptied == [items EXCEPT ![n] = <<>>]
<1>1. /\ stack # <<>> /\ f.todo = <<>> /\ f.husk = <<>> /\ f.pending # <<>> /\ stack' = Under(h)
      /\ items' = (IF Unique(n) THEN emptied ELSE items)
      /\ UNCHANGED <<heap, known, held, count>>
  BY DEF TakeApart
<1>2. /\ heap \in Heaps /\ known \in BOOLEAN /\ held \in Seq(Nodes) /\ items \in [Nodes -> Seq(Nodes)]
      /\ count \in [Nodes -> Nat] /\ stack \in Seq(Drops)
  BY DEF DropInv, DropTypeOK
<1>3. f \in Drops
  BY <1>1, <1>2, OwedTop DEF TopDrop
<1> DEFINE list == f.pending
<1>4. list \in Seq(Nodes) /\ list # <<>>
  BY <1>1, <1>3 DEF Drops
<1>5. ASSUME NEW m
      PROVE  /\ n \in Nodes /\ Front(list) \in Seq(Nodes)
             /\ Occurrences(m, list) = Occurrences(m, Front(list)) + One(m, n)
             /\ Occurrences(m, Front(list)) \in Nat
  <2>1. n = Last(list)
    OBVIOUS
  <2> HIDE DEF list, n
  <2>2. /\ n \in Nodes /\ Front(list) \in Seq(Nodes)
        /\ Occurrences(m, list) = Occurrences(m, Front(list)) + One(m, n)
    BY <1>4, <2>1, OccurrencesFront
  <2> QED
    BY <2>2, RefsFinite
<1>6. n \in Nodes /\ Front(list) \in Seq(Nodes) /\ Husk(n) = <<n>> /\ <<n>> \in Seq(Nodes)
  <2>1. n \in Nodes /\ Front(list) \in Seq(Nodes)
    BY <1>5
  <2> HIDE DEF n
  <2> QED
    BY <2>1 DEF Husk
<1>7. given \in Seq(Nodes)
  <2> HIDE DEF n
  <2> QED
    BY <1>2, <1>6
<1>8. h \in Drops /\ h.todo = given /\ h.pending = Front(list) /\ h.husk = <<n>>
  <2> DEFINE husk == Husk(n)
             fewer == Front(f.pending)
  <2>1. husk \in Seq(Nodes) /\ fewer \in Seq(Nodes) /\ husk = <<n>>
    BY <1>6
  <2>2. h = [f EXCEPT !.pending = fewer, !.husk = husk, !.todo = given]
    OBVIOUS
  <2> HIDE DEF h, husk, fewer, given, n, f
  <2>3. h \in Drops /\ h.todo = given /\ h.pending = fewer /\ h.husk = husk
    BY <1>3, <1>7, <2>1, <2>2 DEF Drops
  <2> QED
    BY <2>1, <2>3 DEF fewer
<1> HIDE DEF h, given, n, f
<1>9. ASSUME NEW m \in Nodes
      PROVE  /\ FrameOwes(m, h) = FrameOwes(m, f) + Occurrences(m, given)
             /\ Occurrences(m, given) \in Nat /\ FrameOwes(m, f) \in Nat
             /\ (m = n => FrameOwes(m, f) >= 1)
  <2> DEFINE a == Occurrences(m, given)
             b == Occurrences(m, list)
             b2 == Occurrences(m, Front(list))
             one == One(m, n)
  <2>1. b = b2 + one /\ b2 \in Nat /\ one \in Nat /\ one = IF m = n THEN 1 ELSE 0
    BY <1>5 DEF One
  <2>2. a \in Nat
    BY <1>7, RefsFinite
  <2>3. Occurrences(m, <<>>) = 0 /\ Occurrences(m, <<n>>) = one
    BY OccurrencesFew, <2>1
  <2>4. FrameOwes(m, f) = 0 + b + 0
    BY <1>1, <2>3 DEF FrameOwes
  <2>5. FrameOwes(m, h) = a + b2 + one
    BY <1>8, <2>3 DEF FrameOwes
  <2> HIDE DEF a, b, b2, one
  <2>6. 0 + b + 0 = b /\ a + b2 + one = b + a /\ b \in Nat /\ (m = n => b >= 1)
    BY <2>1, <2>2
  <2> QED
    BY <2>2, <2>4, <2>5, <2>6 DEF a
<1> HIDE DEF list
<1>10. CASE Unique(n)
  <2>1. given = items[n] /\ items' = emptied
    BY <1>1, <1>10 DEF given
  <2>2. ASSUME NEW m \in Nodes
        PROVE  /\ emptied \in [Nodes -> Seq(Nodes)] /\ items[n] \in Seq(Nodes)
               /\ Held(m, emptied) \in Nat /\ Held(m, items) \in Nat
               /\ Occurrences(m, items[n]) \in Nat
               /\ Held(m, emptied) + Occurrences(m, items[n]) = Held(m, items)
    BY <1>2, <1>6, Emptied
  <2>3. \A m \in Nodes : m # n => emptied[m] = items[m]
    BY <1>2
  <2> HIDE DEF emptied
  <2>4. ASSUME NEW m \in Nodes
        PROVE  /\ Under(h) \in Seq(Drops)
               /\ Held(m, OwedBy(Under(h))) = Owed(m) + Occurrences(m, items[n])
               /\ Owed(m) >= FrameOwes(m, f) /\ Owed(m) \in Nat
    <3> DEFINE e == Owed(m)
               e2 == Held(m, OwedBy(Under(h)))
               rest == Held(m, OwedBy(Front(stack)))
               fh == FrameOwes(m, h)
               ff == FrameOwes(m, f)
               d == Occurrences(m, items[n])
    <3>1. /\ Under(h) \in Seq(Drops) /\ e \in Nat /\ e2 \in Nat /\ fh \in Nat /\ ff \in Nat /\ e2 + ff = e + fh
      BY <1>1, <1>2, <1>8, OwedUnder DEF f
    <3>2. fh = ff + d /\ d \in Nat
      BY <1>9, <2>1
    <3>3. rest \in Nat /\ e = rest + ff
      BY <1>1, <1>2, OwedTop DEF f, TopDrop, Owed
    <3> HIDE DEF e, e2, rest, fh, ff, d
    <3>4. e2 = e + d
      BY <3>1, <3>2
    <3>5. e >= ff
      BY <3>1, <3>3
    <3> QED
      BY <3>1, <3>4, <3>5 DEF e, e2, ff, d
  <2>5. DropTypeOK'
    <3>1. stack' \in Seq(Drops) /\ items' \in [Nodes -> Seq(Nodes)]
      BY <1>1, <1>6, <2>1, <2>2, <2>4
    <3> QED
      BY <1>1, <1>2, <3>1 DEF DropTypeOK
  <2>6. CountsTrue'
    <3>1. ASSUME NEW m \in Nodes
          PROVE  count'[m] = Occurrences(m, held') + Held(m, items') + Held(m, OwedBy(stack'))
      <4> DEFINE a == Occurrences(m, held)
                 c == Held(m, items)
                 c2 == Held(m, emptied)
                 d == Occurrences(m, items[n])
                 e == Owed(m)
                 e2 == Held(m, OwedBy(Under(h)))
      <4>1. /\ count[m] = a + c + e /\ a \in Nat /\ c \in Nat /\ e \in Nat
            /\ c2 \in Nat /\ d \in Nat /\ c2 + d = c /\ e2 = e + d
        BY CountsAre, <2>2, <2>4
      <4> HIDE DEF a, c, c2, d, e, e2
      <4>2. count[m] = a + c2 + e2
        BY <4>1
      <4> QED
        BY <1>1, <2>1, <4>2 DEF a, c2, e2
    <3> QED
      BY <3>1 DEF CountsTrue, Owed
  <2>7. Intact'
    <3>1. ASSUME NEW m \in Nodes
          PROVE  \/ items'[m] = heap'.items[m]
                 \/ Occurrences(m, held') = 0 /\ Held(m, items') = 0
      <4> DEFINE a == Occurrences(m, held)
                 c == Held(m, items)
                 c2 == Held(m, emptied)
                 d == Occurrences(m, items[n])
                 e == Owed(m)
                 ff == FrameOwes(m, f)
      <4>1. /\ count[m] = a + c + e /\ a \in Nat /\ c \in Nat /\ e \in Nat
            /\ c2 \in Nat /\ d \in Nat /\ c2 + d = c /\ e >= ff /\ ff \in Nat /\ (m = n => ff >= 1)
        BY CountsAre, <1>9, <2>2, <2>4
      <4>2. m = n => count[m] = 1
        BY <1>10 DEF Unique
      <4>3. m # n => items'[m] = items[m]
        BY <2>1, <2>3
      <4>4. \/ items[m] = heap.items[m]
            \/ a = 0 /\ c = 0
        BY DEF DropInv, Intact
      <4> HIDE DEF a, c, c2, d, e, ff
      <4>5. (a = 0 /\ c = 0) => (a = 0 /\ c2 = 0)
        BY <4>1
      <4>6. m = n => (a = 0 /\ c = 0)
        BY <4>1, <4>2
      <4>7. \/ items'[m] = heap.items[m]
            \/ a = 0 /\ c2 = 0
        BY <4>3, <4>4, <4>5, <4>6
      <4> QED
        BY <1>1, <2>1, <4>7 DEF a, c2
    <3> QED
      BY <3>1 DEF Intact
  <2> QED
    BY <2>5, <2>6, <2>7 DEF DropInv
<1>11. CASE ~ Unique(n)
  <2>1. given = <<>> /\ items' = items
    BY <1>1, <1>11 DEF given
  <2>2. ASSUME NEW m \in Nodes PROVE FrameOwes(m, h) = FrameOwes(m, f)
    <3>1. Occurrences(m, <<>>) = 0 /\ Occurrences(m, <<n>>) = IF n = m THEN 1 ELSE 0
      BY OccurrencesFew
    <3> QED
      BY <1>9, <2>1, <3>1
  <2>3. \A m \in Nodes : FrameOwes(m, h) = FrameOwes(m, TopDrop)
    BY <2>2 DEF f
  <2> QED
    BY <1>1, <1>8, <2>1, <2>3, ReferencesMove
<1> QED
  BY <1>10, <1>11

LEMMA DropStepKeeps == DropInv /\ [DropNext]_dropVars => DropInv'
<1> SUFFICES ASSUME DropInv, [DropNext]_dropVars PROVE DropInv'
  OBVIOUS
<1>1. CASE Release
  BY <1>1, ReleaseKeeps
<1>2. CASE DropItem
  BY <1>2, NextItemGoes DEF DropItem
<1>3. CASE Postpone
  BY <1>3, PostponeKeeps
<1>4. CASE DropRejected
  BY <1>4, NextItemGoes DEF DropRejected
<1>5. CASE TakeApart
  BY <1>5, TakeApartKeeps
<1>6. CASE DropHusk
  BY <1>6, DropHuskKeeps
<1>7. CASE DropEnds
  BY <1>7, DropEndsKeeps
<1>8. CASE UNCHANGED dropVars
  <2>1. /\ heap' = heap /\ known' = known /\ held' = held /\ items' = items /\ count' = count
        /\ stack' = stack
    BY <1>8 DEF dropVars
  <2>2. DropTypeOK'
    BY <2>1 DEF DropInv, DropTypeOK
  <2>3. CountsTrue'
    BY <2>1 DEF DropInv, CountsTrue, Owed
  <2>4. Intact'
    BY <2>1 DEF DropInv, Intact
  <2> QED
    BY <2>2, <2>3, <2>4 DEF DropInv
<1> QED
  BY <1>1, <1>2, <1>3, <1>4, <1>5, <1>6, <1>7, <1>8 DEF DropNext

\* The state of the drops keeps its types: no count goes below zero, however the
\* drops of JItems, JMap and drop_deep follow one another.
THEOREM DropsTyped == DropSpec => []DropTypeOK
<1>1. DropInit => DropInv
  BY DropStarts
<1>2. DropInv /\ [DropNext]_dropVars => DropInv'
  BY DropStepKeeps
<1>3. DropInv => DropTypeOK
  BY DEF DropInv
<1> QED
  BY <1>1, <1>2, <1>3, PTL DEF DropSpec

\* The count of every payload is the number of references to it, those of the work
\* lists included, and what somebody still holds has all its items: taking values
\* apart frees nothing early, nothing twice, and leaks nothing (JItems::drop,
\* JMap::drop, drop_deep, Rc::get_mut).
THEOREM DropsFreeNothingEarly == DropSpec => []NothingFreedEarly
<1>1. DropInit => DropInv
  BY DropStarts
<1>2. DropInv /\ [DropNext]_dropVars => DropInv'
  BY DropStepKeeps
<1>3. DropInv => NothingFreedEarly
  BY HeldKept DEF DropInv, NothingFreedEarly
<1> QED
  BY <1>1, <1>2, <1>3, PTL DEF DropSpec

(***************************************************************************)
(* How deep drops go.                                                      *)
(***************************************************************************)
LEMMA NextLevel ==
  ASSUME NEW K \in Nat \ {0}, NEW a \in Nat, a % K # K - 1
  PROVE  (a + 1) % K = (a % K) + 1
<1> DEFINE q  == a \div K
           r  == a % K
           q2 == (a + 1) \div K
           r2 == (a + 1) % K
<1>1. a = (K * q) + r /\ 0 <= r /\ r < K /\ q \in Int /\ r \in Int
  OBVIOUS
<1>2. a + 1 = (K * q2) + r2 /\ 0 <= r2 /\ r2 < K /\ q2 \in Int /\ r2 \in Int
  OBVIOUS
<1>3. r < K - 1
  BY <1>1
<1> HIDE DEF q, r, q2, r2
<1>4. K * (q2 - q) = r + 1 - r2
  BY <1>1, <1>2
<1>5. q2 - q = 0
  <2>1. CASE q2 - q >= 1
    <3>1. K * (q2 - q) >= K
      BY <1>1, <1>2, <2>1
    <3> QED
      BY <1>1, <1>2, <1>3, <1>4, <3>1
  <2>2. CASE q2 - q <= -1
    <3>1. K * (q2 - q) <= -K
      BY <1>1, <1>2, <2>2
    <3> QED
      BY <1>1, <1>2, <1>3, <1>4, <3>1
  <2> QED
    BY <1>1, <1>2, <2>1, <2>2
<1>6. K * (q2 - q) = 0
  BY <1>5
<1> QED
  BY <1>1, <1>2, <1>4, <1>6 DEF r, r2

\* The frames above the red zone, and how far a wrapper is from the last check.
Base     == IF known THEN Room ELSE 0
Level(n) == heap.above[n] % CheckEvery

\* The graphs of which the property speaks.
Fitting == (known /\ NoneTwice) \/ ~ Shared

\* A drop with nothing left to do, and one that has put nothing on its work list.
Ended(f) == f.todo = <<>> /\ f.pending = <<>> /\ f.husk = <<>>
Plain(f) == ~ f.flat /\ f.pending = <<>> /\ f.husk = <<>>

\* None of these items frees a payload with items when it goes ...
Harmless(todo) ==
  \A i \in DOMAIN todo :
    \/ items[todo[i]] = <<>>
    \/ count[todo[i]] >= 2 /\ \A j \in DOMAIN todo : todo[j] = todo[i] => j = i

\* ... and none of these frees one that does.
Shallow(todo) ==
  \A i \in DOMAIN todo : \A j \in DOMAIN items[todo[i]] : items[items[todo[i]][j]] = <<>>

\* The k-th drop, f, is one in the red zone: a wrapper between two checks, one that
\* has looked at the stack, one that frees payloads without items, one of these.
Skips(k, f) ==
  /\ Plain(f) /\ f.node \in heap.lazy
  /\ \A i \in DOMAIN f.todo : f.todo[i] \in ToSet(heap.items[f.node])
  /\ Level(f.node) # CheckEvery - 1 /\ k <= Base + 1 + Level(f.node)
Sorts(k, f) == (f.flat \/ (Plain(f) /\ Shallow(f.todo))) /\ k <= Base + CheckEvery
Scatters(k, f) ==
  /\ f.pending = <<>> /\ f.husk = <<>> /\ Harmless(f.todo) /\ k <= Base + CheckEvery + 1
  /\ k = Len(stack) \/ (k + 1 = Len(stack) /\ Ended(TopDrop))
Ends(k, f) == Ended(f) /\ k <= Base + CheckEvery + 2

FitsAt(k, f) == k <= Base \/ Skips(k, f) \/ Sorts(k, f) \/ Scatters(k, f) \/ Ends(k, f)
Fitted       == Fitting => \A k \in DOMAIN stack : FitsAt(k, stack[k])
OnlyEmptied  == \A n \in Nodes : items[n] = heap.items[n] \/ items[n] = <<>>
FewHolders   == ~ Shared => \A n \in Nodes : count[n] <= 1

DeepInv == DropInv /\ OnlyEmptied /\ FewHolders /\ Fitted

\* What a payload holds has a count, in which that is one.
LEMMA ItemsCounted ==
  ASSUME DropInv, NEW n \in Nodes, NEW i \in DOMAIN items[n]
  PROVE  items[n][i] \in Nodes /\ count[items[n][i]] \in Nat \ {0}
<1> DEFINE list == items[n]
           x == list[i]
<1>1. items \in [Nodes -> Seq(Nodes)] /\ IsFiniteSet(Nodes)
  BY NodesAssumption DEF DropInv, DropTypeOK
<1>2. list \in Seq(Nodes) /\ x \in Nodes
  BY <1>1
<1>3. Occurrences(x, list) # 0
  <2> HIDE DEF list
  <2> QED
    BY <1>2, NoneThere DEF list
<1>4. DOMAIN items = Nodes /\ \A k \in Nodes : items[k] \in Seq(Nodes)
  BY <1>1
<1>5. Held(x, items) # 0
  BY <1>1, <1>3, <1>4, HeldIs
<1> HIDE DEF x
<1>6. /\ count[x] = Occurrences(x, held) + Held(x, items) + Owed(x)
      /\ count[x] \in Nat /\ Occurrences(x, held) \in Nat /\ Held(x, items) \in Nat /\ Owed(x) \in Nat
  BY <1>2, CountsAre
<1> QED
  BY <1>2, <1>5, <1>6 DEF x

LEMMA ItemsScatter ==
  ASSUME DropInv, OnlyEmptied, FewHolders, Fitting, NEW n \in Nodes,
         \A i \in DOMAIN items[n] : ~ FreesContainer(items[n][i])
  PROVE  Harmless(items[n])
<1> DEFINE list == items[n]
<1> SUFFICES ASSUME NEW i \in DOMAIN list, items[list[i]] # <<>>
             PROVE  count[list[i]] >= 2 /\ \A j \in DOMAIN list : list[j] = list[i] => j = i
  BY DEF Harmless
<1>1. list[i] \in Nodes /\ count[list[i]] \in Nat \ {0}
  BY ItemsCounted
<1>2. count[list[i]] # 1
  BY DEF FreesContainer, Unique
<1>3. count[list[i]] >= 2
  BY <1>1, <1>2
<1>4. NoneTwice
  BY <1>1, <1>3 DEF Fitting, FewHolders
<1>5. list = heap.items[n]
  BY DEF OnlyEmptied
<1>6. \A j \in DOMAIN list : list[j] = list[i] => j = i
  BY <1>4, <1>5 DEF NoneTwice, IsInjective
<1> QED
  BY <1>3, <1>6

\* What a drop in the red zone can be, by what the payload looked at.
LEMMA NewDropFits ==
  ASSUME DropInv, OnlyEmptied, FewHolders, Fitting, NEW n \in Nodes, Len(stack) >= Base
  PROVE  \/ DropsFlat(n) \/ items[n] = <<>> \/ Harmless(items[n]) \/ Shallow(items[n])
         \/ n \in heap.lazy /\ Level(n) # CheckEvery - 1
<1> SUFFICES ASSUME ~ DropsFlat(n), items[n] # <<>>, ~ (n \in heap.lazy /\ Level(n) # CheckEvery - 1)
             PROVE  Harmless(items[n]) \/ Shallow(items[n])
  OBVIOUS
<1>1. CASE MustDropFlat(n)
  <2>1. n \notin heap.lazy /\ FreesOnlyScalars(n)
    BY <1>1 DEF DropsFlat, Level
  <2> QED
    BY <2>1, ItemsScatter DEF FreesOnlyScalars
<1>2. CASE ~ MustDropFlat(n)
  <2>1. ~ known
    BY <1>2 DEF MustDropFlat, Base
  <2>2. ~ Shared /\ \A i \in DOMAIN items[n] : ~ FreesNested(items[n][i])
    BY <1>2, <2>1 DEF MustDropFlat, Fitting
  <2>3. ASSUME NEW i \in DOMAIN items[n], NEW j \in DOMAIN items[items[n][i]]
        PROVE  items[items[items[n][i]][j]] = <<>>
    <3> DEFINE x == items[n][i]
               y == items[x][j]
    <3>1. x \in Nodes /\ count[x] \in Nat \ {0}
      BY ItemsCounted
    <3> HIDE DEF x
    <3>2. j \in DOMAIN items[x]
      BY <2>3 DEF x
    <3>3. y \in Nodes /\ count[y] \in Nat \ {0}
      BY <3>1, <3>2, ItemsCounted
    <3>4. count[x] = 1 /\ count[y] = 1
      BY <2>2, <3>1, <3>3 DEF FewHolders
    <3>5. ~ FreesContainer(y)
      BY <2>2, <3>2, <3>4 DEF FreesNested, Unique, x
    <3> QED
      BY <3>4, <3>5 DEF FreesContainer, Unique, x
  <2> QED
    BY <2>3 DEF Shallow
<1> QED
  BY <1>1, <1>2

LEMMA PlacesKnown ==
  ASSUME DropInv
  PROVE  /\ Base \in Nat /\ CheckEvery \in Nat \ {0} /\ RedZone >= CheckEvery + 2 /\ RedZone \in Nat
         /\ stack \in Seq(Drops) /\ heap \in Heaps /\ items \in [Nodes -> Seq(Nodes)]
         /\ count \in [Nodes -> Nat]
         /\ \A n \in Nodes : heap.above[n] \in Nat /\ Level(n) \in 0 .. CheckEvery - 1
<1>1. heap \in Heaps /\ stack \in Seq(Drops) /\ items \in [Nodes -> Seq(Nodes)] /\ count \in [Nodes -> Nat]
  BY DEF DropInv, DropTypeOK
<1>2. Base \in Nat /\ CheckEvery \in Nat \ {0} /\ RedZone >= CheckEvery + 2 /\ RedZone \in Nat
  BY LimitsAssumption DEF Base
<1>3. \A n \in Nodes : heap.above[n] \in Nat
  BY <1>1, HeapsAssumption
<1>4. \A n \in Nodes : Level(n) \in 0 .. CheckEvery - 1
  BY <1>2, <1>3 DEF Level
<1> QED
  BY <1>1, <1>2, <1>3, <1>4

\* A wrapper held by one between two checks is the next before the check.
LEMMA LevelBelow ==
  ASSUME DropInv, NEW n \in Nodes \cap heap.lazy, NEW m \in Nodes \cap heap.lazy,
         m \in ToSet(heap.items[n]), Level(n) # CheckEvery - 1
  PROVE  Level(m) = Level(n) + 1
<1>1. heap.above[m] = heap.above[n] + 1
  BY PlacesKnown, HeapsAssumption DEF Numbered
<1> QED
  BY <1>1, PlacesKnown, NextLevel DEF Level

\* Items are only ever taken, so what frees nothing goes on freeing nothing.
LEMMA ShallowStays ==
  ASSUME NEW todo \in Seq(Nodes), items \in [Nodes -> Seq(Nodes)], Shallow(todo),
         \A n \in Nodes : items'[n] = items[n] \/ items'[n] = <<>>
  PROVE  Shallow(todo)'
<1> SUFFICES ASSUME NEW i \in DOMAIN todo, NEW j \in DOMAIN items'[todo[i]]
             PROVE  items'[items'[todo[i]][j]] = <<>>
  BY DEF Shallow
<1> DEFINE x == todo[i]
<1>1. x \in Nodes
  OBVIOUS
<1>2. items'[x] = items[x]
  BY <1>1
<1>3. items[x] \in Seq(Nodes)
  BY <1>1
<1>4. j \in DOMAIN items[x]
  BY <1>2
<1> DEFINE y == items[x][j]
<1>5. y \in Nodes
  BY <1>3, <1>4
<1>6. items[y] = <<>>
  BY <1>4 DEF Shallow
<1>7. items'[y] = <<>>
  BY <1>5, <1>6
<1> QED
  BY <1>2, <1>7

\* The items after one that goes free no more than before, and so do those of what
\* it frees.
LEMMA HarmlessStays ==
  ASSUME DropInv, NEW n \in Nodes, NEW todo \in Seq(Nodes), Harmless(todo),
         count[n] = 1 \/ items[n] = <<>> \/ \A i \in DOMAIN todo : todo[i] # n,
         count' = [count EXCEPT ![n] = @ - 1],
         \A m \in Nodes : items'[m] = items[m] \/ items'[m] = <<>>
  PROVE  Harmless(todo)'
<1> SUFFICES ASSUME NEW i \in DOMAIN todo, items'[todo[i]] # <<>>
             PROVE  count'[todo[i]] >= 2 /\ \A j \in DOMAIN todo : todo[j] = todo[i] => j = i
  BY DEF Harmless
<1>1. todo[i] \in Nodes
  OBVIOUS
<1>2. count[todo[i]] >= 2 /\ \A j \in DOMAIN todo : todo[j] = todo[i] => j = i
  BY <1>1 DEF Harmless
<1>3. count'[todo[i]] = count[todo[i]]
  <2>1. todo[i] # n
    BY <1>1, <1>2
  <2> QED
    BY <1>1, <2>1, PlacesKnown
<1> QED
  BY <1>2, <1>3

LEMMA HarmlessTail ==
  ASSUME NEW todo \in Seq(Nodes), todo # <<>>, Harmless(todo)
  PROVE  /\ Harmless(Tail(todo)) /\ Tail(todo) \in Seq(Nodes)
         /\ count[Head(todo)] # 1 => \/ items[Head(todo)] = <<>>
                                     \/ \A i \in DOMAIN Tail(todo) : Tail(todo)[i] # Head(todo)
         /\ items[Head(todo)] = <<>> \/ count[Head(todo)] >= 2
<1>1. /\ Tail(todo) \in Seq(Nodes) /\ Head(todo) = todo[1] /\ 1 \in DOMAIN todo
      /\ \A i \in DOMAIN Tail(todo) : Tail(todo)[i] = todo[i + 1] /\ i + 1 \in DOMAIN todo /\ i + 1 # 1
                                      /\ i \in Nat
  OBVIOUS
<1>2. Harmless(Tail(todo))
  <2> SUFFICES ASSUME NEW i \in DOMAIN Tail(todo), items[Tail(todo)[i]] # <<>>
               PROVE  /\ count[Tail(todo)[i]] >= 2
                      /\ \A j \in DOMAIN Tail(todo) : Tail(todo)[j] = Tail(todo)[i] => j = i
    BY DEF Harmless
  <2>1. /\ count[todo[i + 1]] >= 2
        /\ \A j \in DOMAIN todo : todo[j] = todo[i + 1] => j = i + 1
    BY <1>1 DEF Harmless
  <2>2. ASSUME NEW j \in DOMAIN Tail(todo), Tail(todo)[j] = Tail(todo)[i] PROVE j = i
    <3>1. j + 1 = i + 1
      BY <1>1, <2>1, <2>2
    <3> QED
      BY <1>1, <3>1
  <2> QED
    BY <1>1, <2>1, <2>2
<1>3. \/ items[Head(todo)] = <<>>
      \/ count[Head(todo)] >= 2 /\ \A j \in DOMAIN todo : todo[j] = todo[1] => j = 1
  BY <1>1 DEF Harmless
<1> QED
  BY <1>1, <1>2, <1>3

\* A reference goes, held from outside or by the innermost drop: of the drop it leads
\* to, if any, the place is in the red zone only if the one below it allows for it.
LEMMA ReferenceFits ==
  ASSUME DeepInv, NEW n \in Nodes, NEW below \in Seq(Drops), Drop(n, below),
         heap' = heap, known' = known, Len(below) = Len(stack),
         \A k \in 1 .. Len(stack) - 1 : below[k] = stack[k],
         \/ stack = <<>>
         \/ /\ stack # <<>> /\ TopDrop.todo # <<>> /\ n = Head(TopDrop.todo)
            /\ below[Len(stack)] = [TopDrop EXCEPT !.todo = Tail(@)]
            /\ TopDrop.flat => ~ FreesNested(n)
  PROVE  Fitted'
<1> SUFFICES ASSUME Fitting' PROVE \A k \in DOMAIN stack' : FitsAt(k, stack[k])'
  BY DEF Fitted
<1>0. PICK L, top, f, g : /\ L = Len(stack) /\ top = TopDrop
                          /\ f = DropFrame(n, DropsFlat(n), items[n])
                          /\ g = [TopDrop EXCEPT !.todo = Tail(@)]
  OBVIOUS
<1>1. /\ Base' = Base /\ heap' = heap /\ known' = known /\ (\A m : Level(m)' = Level(m)) /\ Fitting
  BY DEF Base, Level, Fitting, Shared, NoneTwice
<1>2. DropInv /\ OnlyEmptied /\ FewHolders /\ \A k \in DOMAIN stack : FitsAt(k, stack[k])
  BY <1>1 DEF DeepInv, Fitted
<1>3. /\ Base \in Nat /\ CheckEvery \in Nat \ {0} /\ stack \in Seq(Drops) /\ heap \in Heaps
      /\ items \in [Nodes -> Seq(Nodes)] /\ count \in [Nodes -> Nat] /\ L \in Nat /\ DOMAIN stack = 1 .. L
      /\ \A m \in Nodes : Level(m) \in 0 .. CheckEvery - 1
  BY <1>0, <1>2, PlacesKnown
<1>4. /\ count' = [count EXCEPT ![n] = @ - 1]
      /\ \A m \in Nodes : items'[m] = items[m] \/ items'[m] = <<>>
      /\ (count[n] = 1) => stack' = Append(below, f)
      /\ (count[n] # 1) => stack' = below
  BY <1>0, <1>3 DEF Drop, Unique
<1>5. /\ f.todo = items[n] /\ f.pending = <<>> /\ f.husk = <<>> /\ f.node = n
      /\ f.flat = DropsFlat(n) /\ DropsFlat(n) \in BOOLEAN
  BY <1>0 DEF DropFrame, DropsFlat
<1>6. /\ DOMAIN below = 1 .. L /\ \A k \in 1 .. L : stack'[k] = below[k]
      /\ Len(stack') = (IF count[n] = 1 THEN L + 1 ELSE L)
      /\ DOMAIN stack' = 1 .. Len(stack') /\ (count[n] = 1 => stack'[L + 1] = f)
  BY <1>0, <1>3, <1>4
<1>7. ASSUME stack # <<>>
      PROVE  /\ top \in Drops /\ L \in 1 .. L /\ stack[L] = top
             /\ FitsAt(L, top) /\ top.todo \in Seq(Nodes) /\ top.todo # <<>>
             /\ n = Head(top.todo) /\ below[L] = g
             /\ g.flat = top.flat /\ g.pending = top.pending /\ g.husk = top.husk
             /\ g.node = top.node /\ g.todo = Tail(top.todo)
  <2>1. L \in 1 .. L /\ stack[L] = top /\ top \in Drops
    BY <1>0, <1>3, <1>7 DEF TopDrop, Last
  <2>2. FitsAt(L, top)
    BY <1>2, <1>3, <2>1
  <2>3. top.todo \in Seq(Nodes)
    BY <2>1 DEF Drops
  <2>4. /\ g.flat = top.flat /\ g.pending = top.pending /\ g.husk = top.husk
        /\ g.node = top.node /\ g.todo = Tail(top.todo)
    BY <1>0, <2>1 DEF Drops
  <2> QED
    BY <1>0, <1>7, <2>1, <2>2, <2>3, <2>4
<1>8. ASSUME NEW k \in 1 .. L - 1
      PROVE  FitsAt(k, stack[k])'
  <2>1. stack # <<>> /\ k \in 1 .. L /\ stack'[k] = stack[k] /\ stack[k] \in Drops
    BY <1>0, <1>3, <1>6
  <2>2. ~ Ended(TopDrop)
    BY <1>0, <1>7, <2>1 DEF Ended
  <2>3. FitsAt(k, stack[k]) /\ ~ Scatters(k, stack[k])
    <3>1. FitsAt(k, stack[k]) /\ k # L
      BY <1>2, <1>3, <2>1
    <3> QED
      BY <1>0, <1>3, <2>2, <3>1 DEF Scatters
  <2>4. stack[k].todo \in Seq(Nodes)
    BY <2>1 DEF Drops
  <2>5. Sorts(k, stack[k]) => Sorts(k, stack[k])'
    BY <1>1, <1>3, <1>4, <2>1, <2>4, ShallowStays DEF Sorts, Plain
  <2>6. Skips(k, stack[k]) => Skips(k, stack[k])'
    BY <1>1, <2>1 DEF Skips, Plain
  <2>7. Ends(k, stack[k]) => Ends(k, stack[k])'
    BY <1>1, <2>1 DEF Ends, Ended
  <2> QED
    BY <1>1, <2>3, <2>5, <2>6, <2>7 DEF FitsAt
<1>9. ASSUME stack # <<>>
      PROVE  FitsAt(L, stack[L])'
  <2>1. stack'[L] = g
    BY <1>6, <1>7, <1>9
  <2> DEFINE list == top.todo
  <2>2. list \in Seq(Nodes) /\ list # <<>> /\ n = Head(list)
    BY <1>7, <1>9
  <2>3. Tail(list) \in Seq(Nodes) /\ (Shallow(list) => Shallow(Tail(list)))
    <3> HIDE DEF list
    <3>1. /\ Tail(list) \in Seq(Nodes)
          /\ \A i \in DOMAIN Tail(list) : Tail(list)[i] = list[i + 1] /\ i + 1 \in DOMAIN list
      BY <2>2
    <3> QED
      BY <3>1 DEF Shallow
  <2>4. Sorts(L, top) => Sorts(L, g)'
    <3> SUFFICES ASSUME Sorts(L, top) PROVE Sorts(L, g)'
      OBVIOUS
    <3>1. Shallow(list) => Shallow(Tail(list))'
      <4> HIDE DEF list
      <4> QED
        BY <1>3, <1>4, <2>3, ShallowStays
    <3> QED
      BY <1>1, <1>7, <1>9, <3>1 DEF Sorts, Plain
  <2>5. Skips(L, top) => Skips(L, g)'
    <3>1. \A i \in DOMAIN Tail(list) : Tail(list)[i] = list[i + 1] /\ i + 1 \in DOMAIN list
      <4> HIDE DEF list
      <4> QED
        BY <2>2
    <3> SUFFICES ASSUME Skips(L, top) PROVE Skips(L, g)'
      OBVIOUS
    <3>2. /\ Plain(top) /\ top.node \in heap.lazy /\ Level(top.node) # CheckEvery - 1
          /\ L <= Base + 1 + Level(top.node)
          /\ \A i \in DOMAIN list : list[i] \in ToSet(heap.items[top.node])
      BY DEF Skips
    <3>3. Plain(g)' /\ g.node \in heap'.lazy
      BY <1>1, <1>7, <1>9, <3>2 DEF Plain
    <3>4. \A i \in DOMAIN g.todo : g.todo[i] \in ToSet(heap'.items[g.node])
      <4> HIDE DEF list
      <4>1. \A i \in DOMAIN Tail(list) : Tail(list)[i] \in ToSet(heap.items[top.node])
        BY <3>1, <3>2
      <4>2. g.todo = Tail(list) /\ g.node = top.node
        BY <1>7, <1>9 DEF list
      <4> QED
        BY <1>1, <4>1, <4>2
    <3>5. Level(g.node)' # CheckEvery - 1 /\ L <= Base' + 1 + Level(g.node)'
      BY <1>1, <1>7, <1>9, <3>2
    <3> QED
      BY <3>3, <3>4, <3>5 DEF Skips
  <2>6. Scatters(L, top) => Scatters(L, g)'
    <3> SUFFICES ASSUME Scatters(L, top) PROVE Scatters(L, g)'
      OBVIOUS
    <3>1. Harmless(list) /\ top.pending = <<>> /\ top.husk = <<>> /\ L <= Base + CheckEvery + 1
      BY DEF Scatters
    <3>2. /\ Harmless(Tail(list)) /\ (items[n] = <<>> \/ count[n] >= 2)
          /\ count[n] # 1 => items[n] = <<>> \/ \A i \in DOMAIN Tail(list) : Tail(list)[i] # n
      <4> HIDE DEF list
      <4> QED
        BY <2>2, <3>1, HarmlessTail
    <3>3. Harmless(Tail(list))'
      <4> HIDE DEF list
      <4> QED
        BY <1>2, <1>4, <2>3, <3>2, HarmlessStays
    <3>4. L = Len(stack') \/ (L + 1 = Len(stack') /\ Ended(TopDrop'))
      <4>1. CASE count[n] = 1
        <5>1. items[n] = <<>> /\ Len(stack') = L + 1 /\ stack'[L + 1] = f
          BY <1>6, <3>2, <4>1
        <5>2. TopDrop' = f
          BY <5>1 DEF TopDrop, Last
        <5> QED
          BY <1>5, <5>1, <5>2 DEF Ended
      <4>2. CASE count[n] # 1
        BY <1>6, <4>2
      <4> QED
        BY <4>1, <4>2
    <3> QED
      BY <1>1, <1>7, <1>9, <3>1, <3>3, <3>4 DEF Scatters
  <2>7. ~ Ends(L, top)
    BY <1>7, <1>9 DEF Ends, Ended
  <2> QED
    BY <1>1, <1>7, <1>9, <2>1, <2>4, <2>5, <2>6, <2>7 DEF FitsAt
<1>10. ASSUME count[n] = 1, L >= Base
       PROVE  FitsAt(L + 1, f)'
  <2>1. items[n] \in Seq(Nodes) /\ Len(stack') = L + 1
    BY <1>3, <1>6, <1>10
  <2>2. ASSUME Harmless(items[n]), L <= Base + CheckEvery
        PROVE  Scatters(L + 1, f)'
    <3>1. Harmless(f.todo)'
      BY <1>2, <1>4, <1>5, <1>10, <2>1, <2>2, HarmlessStays
    <3> QED
      BY <1>1, <1>3, <1>5, <2>1, <2>2, <3>1 DEF Scatters
  <2>3. ASSUME items[n] = <<>>, L <= Base + CheckEvery + 1
        PROVE  Ends(L + 1, f)'
    BY <1>1, <1>3, <1>5, <2>3 DEF Ends, Ended
  <2>4. ASSUME Shallow(items[n]), L < Base + CheckEvery
        PROVE  Sorts(L + 1, f)'
    <3>1. Shallow(f.todo)'
      BY <1>3, <1>4, <1>5, <2>1, <2>4, ShallowStays
    <3> QED
      BY <1>1, <1>3, <1>5, <2>4, <3>1 DEF Sorts, Plain
  <2>5. ASSUME L < Base + CheckEvery,
               n \in heap.lazy /\ Level(n) # CheckEvery - 1 => L <= Base + Level(n)
        PROVE  FitsAt(L + 1, f)'
    <3>1. CASE DropsFlat(n)
      BY <1>1, <1>3, <1>5, <2>5, <3>1 DEF FitsAt, Sorts
    <3>2. CASE ~ DropsFlat(n) /\ n \in heap.lazy /\ Level(n) # CheckEvery - 1
      <4>1. \A i \in DOMAIN items[n] : items[n][i] \in ToSet(heap.items[n])
        BY <1>2 DEF OnlyEmptied, ToSet
      <4>2. L + 1 <= Base + 1 + Level(n)
        BY <1>3, <2>5, <3>2
      <4>3. Skips(L + 1, f)'
        BY <1>1, <1>5, <3>2, <4>1, <4>2 DEF Skips, Plain
      <4> QED
        BY <4>3 DEF FitsAt
    <3>3. CASE items[n] = <<>>
      BY <1>3, <2>3, <2>5, <3>3 DEF FitsAt
    <3>4. CASE Harmless(items[n])
      BY <1>3, <2>2, <2>5, <3>4 DEF FitsAt
    <3>5. CASE Shallow(items[n])
      BY <2>4, <2>5, <3>5 DEF FitsAt
    <3>6. \/ DropsFlat(n) \/ items[n] = <<>> \/ Harmless(items[n]) \/ Shallow(items[n])
          \/ n \in heap.lazy /\ Level(n) # CheckEvery - 1
      BY <1>0, <1>1, <1>2, <1>10, NewDropFits
    <3> QED
      BY <3>1, <3>2, <3>3, <3>4, <3>5, <3>6
  <2>6. CASE L = Base
    BY <1>3, <2>5, <2>6
  <2>7. CASE L # Base
    <3>1. stack # <<>> /\ L > Base
      BY <1>3, <1>10, <2>7
    <3> DEFINE list == top.todo
    <3>2. list \in Seq(Nodes) /\ list # <<>> /\ n = Head(list)
      BY <1>7, <3>1
    <3>3. 1 \in DOMAIN list /\ list[1] = n
      <4> HIDE DEF list
      <4> QED
        BY <3>2
    <3>4. CASE Skips(L, top)
      <4> DEFINE m == top.node
      <4>1. /\ m \in heap.lazy /\ m \in Nodes /\ n \in ToSet(heap.items[m])
            /\ Level(m) # CheckEvery - 1 /\ L <= Base + 1 + Level(m)
        BY <1>7, <3>1, <3>3, <3>4 DEF Skips, Drops
      <4>2. L < Base + CheckEvery
        <5>1. Level(m) \in 0 .. CheckEvery - 1
          BY <1>3, <4>1
        <5> HIDE DEF m
        <5> QED
          BY <1>3, <4>1, <5>1
      <4>3. n \in heap.lazy => Level(n) = Level(m) + 1
        BY <1>2, <4>1, LevelBelow
      <4> QED
        BY <1>3, <2>5, <4>1, <4>2, <4>3
    <3>5. CASE Sorts(L, top)
      <4>1. Harmless(items[n])
        <5>1. CASE top.flat
          <6>1. ~ FreesNested(n)
            BY <1>0, <3>1, <5>1
          <6>2. \A i \in DOMAIN items[n] : ~ FreesContainer(items[n][i])
            BY <1>10, <6>1 DEF FreesNested, Unique
          <6> QED
            BY <1>1, <1>2, <6>2, ItemsScatter
        <5>2. CASE ~ top.flat
          <6>1. Shallow(list)
            BY <3>5, <5>2 DEF Sorts
          <6>2. \A j \in DOMAIN items[n] : items[items[n][j]] = <<>>
            <7> HIDE DEF list
            <7> QED
              BY <3>3, <6>1 DEF Shallow
          <6> QED
            BY <6>2 DEF Harmless
        <5> QED
          BY <5>1, <5>2
      <4> QED
        BY <2>2, <3>5, <4>1 DEF Sorts, FitsAt
    <3>6. CASE Scatters(L, top)
      <4>1. items[n] = <<>>
        <5>1. Harmless(list)
          BY <3>6 DEF Scatters
        <5> HIDE DEF list
        <5> QED
          BY <1>10, <3>2, <5>1, HarmlessTail
      <4> QED
        BY <2>3, <3>6, <4>1 DEF Scatters, FitsAt
    <3>7. ~ Ends(L, top)
      BY <1>7, <3>1 DEF Ends, Ended
    <3> QED
      BY <1>3, <1>7, <3>1, <3>4, <3>5, <3>6, <3>7 DEF FitsAt
  <2> QED
    BY <2>6, <2>7
<1>11. ASSUME count[n] = 1, ~ (L >= Base)
       PROVE  FitsAt(L + 1, f)'
  BY <1>1, <1>3, <1>11 DEF FitsAt
<1>12. ASSUME NEW k \in DOMAIN stack' PROVE FitsAt(k, stack[k])'
  <2>1. k \in 1 .. L - 1 \/ (k = L /\ stack # <<>>) \/ (k = L + 1 /\ count[n] = 1)
    BY <1>3, <1>6, <1>12
  <2>2. CASE k = L + 1 /\ count[n] = 1
    <3>1. stack'[k] = f
      BY <1>6, <2>2
    <3>2. FitsAt(L + 1, f)'
      BY <1>10, <1>11, <2>2
    <3> QED
      BY <2>2, <3>1, <3>2
  <2> QED
    BY <1>8, <1>9, <2>1, <2>2
<1> QED
  BY <1>12

\* A drop under way goes on without one on top of it.
LEMMA TopGoesOn ==
  ASSUME DeepInv, stack # <<>>, NEW f \in Drops, stack' = Under(f), heap' = heap, known' = known,
         \A n \in Nodes : items'[n] = items[n] \/ items'[n] = <<>>,
         f.flat = TopDrop.flat,
         \/ TopDrop.pending # <<>> \/ TopDrop.husk # <<>>
         \/ TopDrop.flat /\ TopDrop.todo # <<>> /\ FreesNested(Head(TopDrop.todo))
  PROVE  Fitted'
<1> SUFFICES ASSUME Fitting' PROVE \A k \in DOMAIN stack' : FitsAt(k, stack[k])'
  BY DEF Fitted
<1>0. PICK L, top : L = Len(stack) /\ top = TopDrop
  OBVIOUS
<1>1. /\ Base' = Base /\ heap' = heap /\ known' = known /\ (\A m : Level(m)' = Level(m)) /\ Fitting
  BY DEF Base, Level, Fitting, Shared, NoneTwice
<1>2. DropInv /\ \A k \in DOMAIN stack : FitsAt(k, stack[k])
  BY <1>1 DEF DeepInv, Fitted
<1>3. /\ stack \in Seq(Drops) /\ items \in [Nodes -> Seq(Nodes)] /\ L \in Nat \ {0}
      /\ DOMAIN stack = 1 .. L /\ top = stack[L] /\ top \in Drops
  BY <1>0, <1>2, PlacesKnown DEF TopDrop, Last
<1>4. /\ DOMAIN stack' = 1 .. L /\ stack'[L] = f
      /\ \A k \in 1 .. L - 1 : stack'[k] = stack[k]
  <2>1. /\ Front(stack) \in Seq(Drops) /\ Len(Front(stack)) = L - 1
        /\ \A k \in 1 .. L - 1 : Front(stack)[k] = stack[k]
    BY <1>0, <1>3, FrontIs
  <2> DEFINE low == Front(stack)
  <2>2. stack' = Append(low, f)
    BY DEF Under
  <2> HIDE DEF low
  <2> QED
    BY <1>3, <2>1, <2>2 DEF low
<1>5. ~ Ended(TopDrop)
  BY DEF Ended
<1>6. ASSUME NEW k \in 1 .. L - 1
      PROVE  FitsAt(k, stack[k])'
  <2>1. stack'[k] = stack[k] /\ stack[k] \in Drops /\ FitsAt(k, stack[k]) /\ k # L
    BY <1>2, <1>3, <1>4
  <2>2. ~ Scatters(k, stack[k])
    BY <1>0, <1>5, <2>1 DEF Scatters
  <2>3. stack[k].todo \in Seq(Nodes)
    BY <2>1 DEF Drops
  <2>4. Sorts(k, stack[k]) => Sorts(k, stack[k])'
    BY <1>1, <1>3, <2>1, <2>3, ShallowStays DEF Sorts, Plain
  <2>5. Skips(k, stack[k]) => Skips(k, stack[k])'
    BY <1>1, <2>1 DEF Skips, Plain
  <2>6. Ends(k, stack[k]) => Ends(k, stack[k])'
    BY <1>1, <2>1 DEF Ends, Ended
  <2> QED
    BY <1>1, <2>1, <2>2, <2>4, <2>5, <2>6 DEF FitsAt
<1>7. FitsAt(L, f)'
  <2>1. FitsAt(L, top)
    BY <1>2, <1>3
  <2>2. ~ Ends(L, top) /\ ~ Skips(L, top)
    BY <1>0, <1>5 DEF Ends, Skips, Plain
  <2>3. ~ Scatters(L, top)
    <3> SUFFICES ASSUME Scatters(L, top) PROVE FALSE
      OBVIOUS
    <3> DEFINE list == top.todo
    <3>1. list # <<>> /\ FreesNested(Head(list)) /\ Harmless(list) /\ list \in Seq(Nodes)
      BY <1>0, <1>3 DEF Scatters, Drops
    <3>2. items[Head(list)] = <<>> \/ count[Head(list)] >= 2
      <4> HIDE DEF list
      <4> QED
        BY <3>1, HarmlessTail
    <3> QED
      BY <3>1, <3>2 DEF FreesNested, Unique
  <2>4. Sorts(L, top) => f.flat /\ L <= Base + CheckEvery
    BY <1>0 DEF Sorts, Plain
  <2> QED
    BY <1>1, <2>1, <2>2, <2>3, <2>4 DEF FitsAt, Sorts
<1> QED
  BY <1>3, <1>4, <1>6, <1>7

LEMMA DropEndsFits ==
  ASSUME DeepInv, DropEnds
  PROVE  Fitted'
<1> SUFFICES ASSUME Fitting' PROVE \A k \in DOMAIN stack' : FitsAt(k, stack[k])'
  BY DEF Fitted
<1>0. PICK L : L = Len(stack)
  OBVIOUS
<1>1. stack # <<>> /\ stack' = Front(stack) /\ UNCHANGED <<heap, known, held, items, count>>
  BY DEF DropEnds
<1>2. /\ Base' = Base /\ (\A m : Level(m)' = Level(m)) /\ Fitting
      /\ (\A todo : Shallow(todo)' = Shallow(todo)) /\ \A todo : Harmless(todo)' = Harmless(todo)
  BY <1>1 DEF Base, Level, Fitting, Shared, NoneTwice, Shallow, Harmless
<1>3. DropInv /\ \A k \in DOMAIN stack : FitsAt(k, stack[k])
  BY <1>2 DEF DeepInv, Fitted
<1>4. stack \in Seq(Drops) /\ L \in Nat \ {0} /\ DOMAIN stack = 1 .. L
  BY <1>0, <1>1, <1>3, PlacesKnown
<1>5. /\ DOMAIN stack' = 1 .. L - 1 /\ Len(stack') = L - 1
      /\ \A k \in 1 .. L - 1 : stack'[k] = stack[k]
  <2>1. /\ Front(stack) \in Seq(Drops) /\ Len(Front(stack)) = L - 1
        /\ \A k \in 1 .. L - 1 : Front(stack)[k] = stack[k]
    BY <1>0, <1>1, <1>4, FrontIs
  <2> QED
    BY <1>1, <1>4, <2>1
<1>6. ASSUME NEW k \in 1 .. L - 1
      PROVE  FitsAt(k, stack[k])'
  <2>1. stack'[k] = stack[k] /\ FitsAt(k, stack[k]) /\ k \in Nat
    BY <1>3, <1>4, <1>5
  <2>2. Scatters(k, stack[k]) => Scatters(k, stack[k])'
    BY <1>0, <1>2, <1>4, <1>5, <2>1 DEF Scatters
  <2>3. Sorts(k, stack[k]) => Sorts(k, stack[k])'
    BY <1>2, <2>1 DEF Sorts, Plain
  <2>4. Skips(k, stack[k]) => Skips(k, stack[k])'
    BY <1>1, <1>2, <2>1 DEF Skips, Plain
  <2>5. Ends(k, stack[k]) => Ends(k, stack[k])'
    BY <1>2, <2>1 DEF Ends, Ended
  <2> QED
    BY <1>2, <2>1, <2>2, <2>3, <2>4, <2>5 DEF FitsAt
<1> QED
  BY <1>5, <1>6

LEMMA DropFewer ==
  ASSUME DeepInv, DropNext
  PROVE  OnlyEmptied' /\ FewHolders'
<1>1. /\ OnlyEmptied /\ FewHolders /\ items \in [Nodes -> Seq(Nodes)] /\ count \in [Nodes -> Nat]
      /\ stack \in Seq(Drops) /\ held \in Seq(Nodes)
  BY DEF DeepInv, DropInv, DropTypeOK
<1>2. heap' = heap
  BY DEF DropNext, Release, DropItem, Postpone, DropRejected, TakeApart, DropHusk, DropEnds
<1>3. \/ UNCHANGED <<items, count>>
      \/ \E n : count' = [count EXCEPT ![n] = @ - 1]
                /\ (items' = items \/ items' = [items EXCEPT ![n] = <<>>])
      \/ \E n : UNCHANGED count /\ items' = [items EXCEPT ![n] = <<>>]
  BY DEF DropNext, Release, DropItem, Postpone, DropRejected, TakeApart, DropHusk, DropEnds, Drop
<1>4. \A n \in Nodes : items'[n] \in {items[n], <<>>} /\ count'[n] \in {count[n], count[n] - 1}
  BY <1>1, <1>3
<1>5. OnlyEmptied'
  BY <1>1, <1>2, <1>4 DEF OnlyEmptied
<1>6. FewHolders'
  <2> SUFFICES ASSUME ~ Shared, NEW n \in Nodes PROVE count'[n] <= 1
    BY <1>2 DEF FewHolders, Shared
  <2>1. count[n] <= 1 /\ count[n] \in Nat
    BY <1>1 DEF FewHolders
  <2> QED
    BY <1>4, <2>1
<1> QED
  BY <1>5, <1>6

LEMMA NextItemFits ==
  ASSUME DeepInv, stack # <<>>, TopDrop.todo # <<>>,
         Drop(Head(TopDrop.todo), Under([TopDrop EXCEPT !.todo = Tail(@)])),
         TopDrop.flat => ~ FreesNested(Head(TopDrop.todo)),
         UNCHANGED <<heap, known, held>>
  PROVE  Fitted'
<1>0. PICK L, top, n, g, low : /\ L = Len(stack) /\ top = TopDrop /\ n = Head(TopDrop.todo)
                               /\ g = [TopDrop EXCEPT !.todo = Tail(@)] /\ low = Front(stack)
  OBVIOUS
<1>1. stack \in Seq(Drops) /\ L \in Nat \ {0} /\ top \in Drops
  BY <1>0, PlacesKnown DEF DeepInv, TopDrop, Last
<1>2. g \in Drops /\ n \in Nodes
  BY <1>0, <1>1, FrameLessOne
<1>3. low \in Seq(Drops) /\ Len(low) = L - 1 /\ \A k \in 1 .. L - 1 : low[k] = stack[k]
  BY <1>0, <1>1, FrontIs
<1> DEFINE below == Append(low, g)
<1>4. /\ below \in Seq(Drops) /\ Len(below) = L /\ below[L] = g
      /\ \A k \in 1 .. L - 1 : below[k] = stack[k]
  BY <1>1, <1>2, <1>3
<1>5. Drop(n, below)
  BY <1>0 DEF Under
<1> HIDE DEF below
<1> QED
  BY <1>0, <1>2, <1>4, <1>5, ReferenceFits

LEMMA DeepStarts == DropInit => DeepInv
<1> SUFFICES ASSUME DropInit PROVE DeepInv
  OBVIOUS
<1>1. DropInv
  BY DropStarts
<1>2. OnlyEmptied /\ Fitted
  BY DEF OnlyEmptied, Fitted, DropInit
<1>3. FewHolders
  <2> SUFFICES ASSUME ~ Shared, NEW n \in Nodes PROVE count[n] <= 1
    BY DEF FewHolders
  <2>1. count[n] = Occurrences(n, heap.held) + Held(n, heap.items) /\ count[n] \in Nat
    BY <1>1 DEF DropInit, DropInv, DropTypeOK
  <2>2. ~ (Occurrences(n, heap.held) + Held(n, heap.items) > 1)
    BY DEF Shared
  <2> QED
    BY <2>1, <2>2
<1> QED
  BY <1>1, <1>2, <1>3 DEF DeepInv

LEMMA DeepStepKeeps == DeepInv /\ [DropNext]_dropVars => DeepInv'
<1> SUFFICES ASSUME DeepInv, [DropNext]_dropVars PROVE DeepInv'
  OBVIOUS
<1>1. DropInv'
  BY DropStepKeeps DEF DeepInv
<1>2. CASE UNCHANGED dropVars
  BY <1>1, <1>2
  DEF DeepInv, dropVars, OnlyEmptied, FewHolders, Shared, Fitted, Fitting, NoneTwice, FitsAt, Base, Level,
      Skips, Sorts, Scatters, Ends, Plain, Ended, Shallow, Harmless, TopDrop
<1>3. CASE DropNext
  <2>1. OnlyEmptied' /\ FewHolders'
    BY <1>3, DropFewer
  <2>2. /\ stack \in Seq(Drops) /\ items \in [Nodes -> Seq(Nodes)] /\ held \in Seq(Nodes)
        /\ (stack # <<>> => TopDrop \in Drops)
    <3>1. stack \in Seq(Drops) /\ items \in [Nodes -> Seq(Nodes)] /\ held \in Seq(Nodes)
      BY DEF DeepInv, DropInv, DropTypeOK
    <3> QED
      BY <3>1 DEF TopDrop, Last
  <2>3. CASE Release
    <3>1. PICK n \in Nodes : Drop(n, <<>>) /\ stack = <<>> /\ heap' = heap /\ known' = known
      BY <2>2, <2>3 DEF Release
    <3>2. /\ <<>> \in Seq(Drops) /\ Len(<<>>) = Len(stack)
          /\ \A k \in 1 .. Len(stack) - 1 : <<>>[k] = stack[k]
      BY <3>1
    <3>3. Fitted'
      BY <3>1, <3>2, ReferenceFits
    <3> QED
      BY <1>1, <2>1, <3>3 DEF DeepInv
  <2>4. CASE DropItem \/ DropRejected
    BY <1>1, <2>1, <2>4, NextItemFits DEF DeepInv, DropItem, DropRejected
  <2>5. CASE Postpone
    <3> DEFINE f == [TopDrop EXCEPT !.todo = Tail(@), !.pending = Append(@, Head(TopDrop.todo))]
    <3>1. /\ stack # <<>> /\ TopDrop.flat /\ TopDrop.todo # <<>> /\ FreesNested(Head(TopDrop.todo))
          /\ stack' = Under(f) /\ UNCHANGED <<heap, known, held, items, count>>
      BY <2>5 DEF Postpone
    <3>2. f \in Drops /\ f.flat = TopDrop.flat
      <4>1. PICK todo, pending : todo = TopDrop.todo /\ pending = TopDrop.pending
        OBVIOUS
      <4>2. todo \in Seq(Nodes) /\ todo # <<>> /\ pending \in Seq(Nodes)
        BY <2>2, <3>1, <4>1 DEF Drops
      <4>3. Tail(todo) \in Seq(Nodes) /\ Append(pending, Head(todo)) \in Seq(Nodes)
        BY <4>2
      <4>4. f = [TopDrop EXCEPT !.todo = Tail(todo), !.pending = Append(pending, Head(todo))]
        BY <2>2, <3>1, <4>1 DEF Drops
      <4> QED
        BY <2>2, <3>1, <4>3, <4>4 DEF Drops
    <3> HIDE DEF f
    <3>3. Fitted'
      BY <3>1, <3>2, TopGoesOn
    <3> QED
      BY <1>1, <2>1, <3>3 DEF DeepInv
  <2>6. CASE TakeApart
    <3>1. PICK n, list : /\ n = Last(TopDrop.pending)
                         /\ list = IF Unique(n) THEN items[n] ELSE <<>>
      OBVIOUS
    <3> DEFINE f == [TopDrop EXCEPT !.pending = Front(@), !.husk = Husk(n), !.todo = list]
    <3>2. /\ stack # <<>> /\ TopDrop.pending # <<>> /\ TopDrop.pending \in Seq(Nodes)
          /\ stack' = Under(f) /\ UNCHANGED <<heap, known, held, count>>
          /\ items' = items \/ items' = [items EXCEPT ![n] = <<>>]
      BY <2>2, <2>6, <3>1 DEF TakeApart, Drops
    <3>3. n \in Nodes /\ Front(TopDrop.pending) \in Seq(Nodes) /\ list \in Seq(Nodes)
      <4>1. n \in Nodes
        BY <3>1, <3>2 DEF Last
      <4> QED
        BY <2>2, <3>1, <3>2, <4>1, FrontIs
    <3>4. f \in Drops /\ f.flat = TopDrop.flat
      <4>1. PICK front, husk : front = Front(TopDrop.pending) /\ husk = Husk(n)
        OBVIOUS
      <4>2. husk \in Seq(Nodes)
        BY <3>3, <4>1 DEF Husk
      <4>3. f = [TopDrop EXCEPT !.pending = front, !.husk = husk, !.todo = list]
        BY <2>2, <3>2, <4>1 DEF Drops
      <4> QED
        BY <2>2, <3>2, <3>3, <4>1, <4>2, <4>3 DEF Drops
    <3>5. \A m \in Nodes : items'[m] = items[m] \/ items'[m] = <<>>
      BY <2>2, <3>2
    <3> HIDE DEF f
    <3>6. Fitted'
      BY <3>2, <3>4, <3>5, TopGoesOn
    <3> QED
      BY <1>1, <2>1, <3>6 DEF DeepInv
  <2>7. CASE DropHusk
    <3> DEFINE f == [TopDrop EXCEPT !.husk = Tail(@)]
    <3>1. /\ stack # <<>> /\ TopDrop.husk # <<>> /\ stack' = Under(f)
          /\ UNCHANGED <<heap, known, held, items>>
      BY <2>7 DEF DropHusk
    <3>2. f \in Drops /\ f.flat = TopDrop.flat
      <4>1. PICK husk : husk = TopDrop.husk
        OBVIOUS
      <4>2. husk \in Seq(Nodes) /\ husk # <<>>
        BY <2>2, <3>1, <4>1 DEF Drops
      <4>3. Tail(husk) \in Seq(Nodes)
        BY <4>2
      <4>4. f = [TopDrop EXCEPT !.husk = Tail(husk)]
        BY <2>2, <3>1, <4>1 DEF Drops
      <4> QED
        BY <2>2, <3>1, <4>3, <4>4 DEF Drops
    <3> HIDE DEF f
    <3>3. Fitted'
      BY <3>1, <3>2, TopGoesOn
    <3> QED
      BY <1>1, <2>1, <3>3 DEF DeepInv
  <2>8. CASE DropEnds
    BY <1>1, <2>1, <2>8, DropEndsFits DEF DeepInv
  <2> QED
    BY <1>3, <2>3, <2>4, <2>5, <2>6, <2>7, <2>8 DEF DropNext
<1> QED
  BY <1>2, <1>3

LEMMA DeepFits == DeepInv => DropFitsUnlessShared
<1> SUFFICES ASSUME DeepInv, Fitting PROVE DropFits
  BY DEF DropFitsUnlessShared, Fitting
<1>1. /\ Base \in Nat /\ CheckEvery \in Nat \ {0} /\ RedZone >= CheckEvery + 2 /\ RedZone \in Nat
      /\ stack \in Seq(Drops) /\ \A n \in Nodes : Level(n) \in 0 .. CheckEvery - 1
  BY PlacesKnown DEF DeepInv
<1> DEFINE L == Len(stack)
<1>2. CASE stack = <<>>
  BY <1>1, <1>2 DEF DropFits, Base
<1>3. CASE stack # <<>>
  <2>1. L \in DOMAIN stack /\ L \in Nat /\ stack[L] \in Drops
    BY <1>1, <1>3
  <2>2. FitsAt(L, stack[L])
    BY <2>1 DEF DeepInv, Fitted
  <2>3. stack[L].node \in Nodes
    BY <2>1 DEF Drops
  <2>4. Level(stack[L].node) \in 0 .. CheckEvery - 1
    BY <1>1, <2>3
  <2>5. L <= Base + CheckEvery + 2
    BY <1>1, <2>1, <2>2, <2>4 DEF FitsAt, Skips, Sorts, Scatters, Ends
  <2> QED
    BY <1>1, <2>1, <2>5 DEF DropFits, Base
<1> QED
  BY <1>2, <1>3

\* However deep a value is, the drops under way fit on the stack: at most
\* LAZY_DROP_CHECK_EVERY + 2 of them lie in the red zone.  Where the stack's limit is
\* known this holds unless a payload holds another twice, and elsewhere unless a
\* payload has two holders (must_drop_flat, frees_only_scalars, drop_deep, #233).
THEOREM DropsFit == DropSpec => []DropFitsUnlessShared
<1>1. DropInit => DeepInv
  BY DeepStarts
<1>2. DeepInv /\ [DropNext]_dropVars => DeepInv'
  BY DeepStepKeeps
<1>3. DeepInv => DropFitsUnlessShared
  BY DeepFits
<1> QED
  BY <1>1, <1>2, <1>3, PTL DEF DropSpec

-----------------------------------------------------------------------------
(***************************************************************************)
(* Wrappers of Python's dicts.                                             *)
(***************************************************************************)
\* The places of dicts that NewDicts numbers.
DictPlaces(content, fields) ==
  {p \in UNION {{f} \X DOMAIN InList(content[f]) : f \in fields} :
     InList(content[p[1]])[p[2]].k = "dict"}

LEMMA ListIs ==
  ASSUME NEW v \in PyValues \cup {NotThere}
  PROVE  /\ InList(v) \in Seq(PyValues \cup {NotThere})
         /\ v.k # "list" => InList(v) = <<v>>
         /\ v.k = "list" => /\ InList(v) = v.items /\ v \in PyValues
                            /\ \A i \in DOMAIN InList(v) : InList(v)[i] \in PyValues /\ InList(v)[i].k # "list"
<1>1. CASE v = NotThere
  <2>1. v.k = "none"
    BY <1>1 DEF NotThere
  <2> QED
    BY <1>1, <2>1 DEF InList
<1>2. CASE v \in PyValues /\ v.k # "list"
  BY <1>2 DEF InList
<1>3. CASE v \in PyValues /\ v.k = "list"
  <2>1. v.items \in Seq({u \in PyValues : u.k # "list"})
    BY <1>3, LazyAssumption
  <2> DEFINE list == v.items
             S == {u \in PyValues : u.k # "list"}
  <2>2. InList(v) = list /\ list \in Seq(S) /\ \A u \in S : u \in PyValues /\ u.k # "list"
    BY <1>3, <2>1 DEF InList
  <2>3. S \subseteq PyValues \cup {NotThere}
    OBVIOUS
  <2> HIDE DEF list, S
  <2>4. list \in Seq(PyValues \cup {NotThere}) /\ \A i \in DOMAIN list : list[i] \in S
    BY <2>2, <2>3
  <2> QED
    BY <1>3, <2>2, <2>4 DEF list
<1> QED
  BY <1>1, <1>2, <1>3

LEMMA PlacesFinite ==
  ASSUME NEW content \in [Keys -> PyValues \cup {NotThere}], NEW fields \in SUBSET Keys
  PROVE  IsFiniteSet(DictPlaces(content, fields))
<1> DEFINE here(f) == {f} \X DOMAIN InList(content[f])
           all == {here(f) : f \in fields}
           g == [f \in fields |-> here(f)]
<1>1. IsFiniteSet(fields)
  BY LazyAssumption, FS_Subset
<1>2. ASSUME NEW f \in fields PROVE IsFiniteSet(here(f))
  <2> DEFINE list == InList(content[f])
             S == DOMAIN list
             T == here(f)
             h == [i \in S |-> <<f, i>>]
  <2>1. list \in Seq(PyValues \cup {NotThere})
    BY ListIs
  <2>2. S = 1 .. Len(list) /\ Len(list) \in Nat
    BY <2>1
  <2>3. IsFiniteSet(S)
    BY <2>2, FS_Interval
  <2>4. h \in [S -> T]
    OBVIOUS
  <2>5. \A x, y \in S : h[x] = h[y] => x = y
    OBVIOUS
  <2>6. \A t \in T : \E x \in S : h[x] = t
    OBVIOUS
  <2> HIDE DEF S, T, h
  <2>7. IsFiniteSet(T)
    BY <2>3, <2>4, <2>5, <2>6, SameSize
  <2> QED
    BY <2>7 DEF T
<1>3. g \in Surjection(fields, all)
  BY DEF Surjection
<1>4. IsFiniteSet(all)
  <2> HIDE DEF g, all
  <2> QED
    BY <1>1, <1>3, FS_Surjection
<1>5. \A T \in all : IsFiniteSet(T)
  BY <1>2
<1>6. IsFiniteSet(UNION all)
  <2> HIDE DEF all
  <2> QED
    BY <1>4, <1>5, FS_UNION
<1>7. DictPlaces(content, fields) \in SUBSET UNION all
  BY DEF DictPlaces
<1> HIDE DEF all
<1> QED
  BY <1>6, <1>7, FS_Subset

\* SetToSeq has every place, at one number.
LEMMA SeqOfSet ==
  ASSUME NEW S, IsFiniteSet(S)
  PROVE  SetToSeq(S) \in Seq(S) /\ \A x \in S : \E i \in DOMAIN SetToSeq(S) : SetToSeq(S)[i] = x
<1> DEFINE n == Cardinality(S)
<1>1. n \in Nat /\ ExistsBijection(1 .. n, S)
  BY FS_CardinalityType
<1>2. PICK b : b \in Bijection(1 .. n, S)
  BY <1>1 DEF ExistsBijection
<1>3. b \in [1 .. n -> S] /\ IsInjective(b)
  BY <1>2 DEF Bijection, Injection, IsInjective
<1> DEFINE s == SetToSeq(S)
<1>4. s = CHOOSE f \in [1 .. n -> S] : IsInjective(f)
  BY DEF SetToSeq
<1>5. s \in [1 .. n -> S] /\ IsInjective(s)
  BY <1>3, <1>4, Zenon
<1> HIDE DEF s, n
<1>6. s \in Injection(1 .. n, S)
  BY <1>5 DEF Injection, IsInjective
<1>7. IsFiniteSet(1 .. n) /\ Cardinality(1 .. n) = n
  BY <1>1, FS_Interval
<1>8. Cardinality(S) = n
  BY DEF n
<1>9. s \in Surjection(1 .. n, S)
  BY <1>6, <1>7, <1>8, FS_Injection
<1>10. \A x \in S : \E i \in 1 .. n : s[i] = x
  BY <1>9 DEF Surjection
<1>11. DOMAIN s = 1 .. n /\ s \in Seq(S)
  BY <1>1, <1>5
<1> QED
  BY <1>10, <1>11 DEF s

LEMMA NewsAre ==
  ASSUME NEW content \in [Keys -> PyValues \cup {NotThere}], NEW fields \in SUBSET Keys
  PROVE  LET news == NewDicts(content, fields)
         IN  /\ Len(news) \in Nat /\ DOMAIN news = 1 .. Len(news)
             /\ \A j \in 1 .. Len(news) :
                  /\ news[j][1] \in fields /\ news[j][2] \in DOMAIN InList(content[news[j][1]])
                  /\ InList(content[news[j][1]])[news[j][2]].k = "dict"
             /\ \A f \in fields : \A i \in DOMAIN InList(content[f]) :
                  InList(content[f])[i].k = "dict" => \E j \in 1 .. Len(news) : news[j] = <<f, i>>
<1> DEFINE S == DictPlaces(content, fields)
           news == NewDicts(content, fields)
<1>1. IsFiniteSet(S)
  BY PlacesFinite
<1>2. news = SetToSeq(S)
  BY DEF NewDicts, DictPlaces
<1>3. \A p \in S : /\ p[1] \in fields /\ p[2] \in DOMAIN InList(content[p[1]])
                   /\ InList(content[p[1]])[p[2]].k = "dict"
  BY DEF DictPlaces
<1>4. \A f \in fields : \A i \in DOMAIN InList(content[f]) :
        InList(content[f])[i].k = "dict" => <<f, i>> \in S
  BY DEF DictPlaces
<1> HIDE DEF S, news
<1>5. news \in Seq(S) /\ \A x \in S : \E i \in DOMAIN news : news[i] = x
  BY <1>1, <1>2, SeqOfSet
<1>6. Len(news) \in Nat /\ DOMAIN news = 1 .. Len(news) /\ \A j \in 1 .. Len(news) : news[j] \in S
  BY <1>5
<1> QED
  BY <1>3, <1>4, <1>5, <1>6 DEF news

LEMMA ItemsTold ==
  /\ \A v \in Items : v.k \in {"scalar", "string", "bad", "dict"}
  /\ \A v \in Values : v.k \in {"scalar", "string", "bad", "dict", "list"}
  /\ \A v \in Values \cup {NotThere} : v # Absent
  /\ \A v \in Values \cup {Absent} : v # NotThere
  /\ NotThere.k = "none" /\ Absent.k = "undefined"
  /\ \A v \in PyValues : v # NotThere /\ v # Absent
<1>1. \A v \in Items : v.k \in {"scalar", "string", "bad", "dict"}
  BY DEF Items
<1>2. \A v \in Values : v.k \in {"scalar", "string", "bad", "dict", "list"}
  BY <1>1 DEF Values
<1>3. NotThere.k = "none" /\ Absent.k = "undefined"
  BY DEF NotThere, Absent
<1>4. \A v \in PyValues : v.k # "none" /\ v.k # "undefined"
  BY LazyAssumption
<1> QED
  BY <1>1, <1>2, <1>3, <1>4

\* A reference is to the n-th wrapper or one before.
Within(v, n) == v.k = "dict" => v.w \in 1 .. n

LEMMA RefersIs ==
  ASSUME NEW v \in Values \cup {NotThere, Absent}, NEW n
  PROVE  Refers(v) \subseteq 1 .. n
           <=> IF v.k = "list" THEN \A i \in DOMAIN v.items : Within(v.items[i], n) ELSE Within(v, n)
<1>1. CASE v = NotThere
  <2>1. v.k = "none"
    BY <1>1 DEF NotThere
  <2> QED
    BY <1>1, <2>1 DEF Refers, Within
<1>2. CASE v # NotThere /\ v.k = "list"
  <2>1. Refers(v) = {v.items[i].w : i \in {j \in DOMAIN v.items : v.items[j].k = "dict"}}
    BY <1>2 DEF Refers, InList
  <2> QED
    BY <1>2, <2>1 DEF Within
<1>3. CASE v # NotThere /\ v.k # "list"
  <2>1. Refers(v) = {<<v>>[i].w : i \in {j \in DOMAIN <<v>> : <<v>>[j].k = "dict"}}
    BY <1>3 DEF Refers, InList
  <2>2. DOMAIN <<v>> = {1} /\ <<v>>[1] = v
    OBVIOUS
  <2>3. \A i \in DOMAIN <<v>> : i = 1
    BY <2>2
  <2>4. v.k = "dict" => Refers(v) = {v.w}
    BY <2>1, <2>2
  <2>5. v.k # "dict" => Refers(v) = {}
    BY <2>1, <2>2
  <2> QED
    BY <1>3, <2>4, <2>5 DEF Within
<1> QED
  BY <1>1, <1>2, <1>3

\* What convert makes of a field, the wrappers it makes being numbered `news`.
LEMMA ConvertIs ==
  ASSUME NEW content \in [Keys -> PyValues \cup {NotThere}], NEW fields \in SUBSET Keys,
         NEW f \in fields, content[f] # NotThere, Len(wrappers) \in Nat
  PROVE  LET news == NewDicts(content, fields)
             new  == Convert(content[f], f, news)
         IN  /\ new \in Values /\ Refers(new) \subseteq 1 .. Len(wrappers) + Len(news)
             /\ new.k = content[f].k
             /\ new.k = "dict" => \E j \in 1 .. Len(news) :
                  new.w = Len(wrappers) + j /\ news[j] = <<f, 1>>
<1> DEFINE news == NewDicts(content, fields)
           v == content[f]
           list == InList(v)
           n == Len(wrappers)
           number(i) == CHOOSE j \in DOMAIN news : news[j] = <<f, i>>
           at(i) == Item(list[i], n, number(i))
           new == Convert(v, f, news)
<1>1. v \in PyValues /\ v.k \in {"scalar", "string", "dict", "list", "bad"}
  BY LazyAssumption
<1>2. Len(news) \in Nat /\ DOMAIN news = 1 .. Len(news)
  BY NewsAre
<1>3. ASSUME NEW i \in DOMAIN list, list[i].k = "dict"
      PROVE  number(i) \in 1 .. Len(news) /\ news[number(i)] = <<f, i>>
  <2>1. \E j \in 1 .. Len(news) : news[j] = <<f, i>>
    BY <1>3, NewsAre
  <2> QED
    BY <1>2, <2>1
<1>4. list \in Seq(PyValues \cup {NotThere}) /\ (v.k # "list" => list = <<v>>)
      /\ (v.k = "list" => /\ list = v.items
                          /\ \A i \in DOMAIN list : list[i] \in PyValues /\ list[i].k # "list")
  BY ListIs
<1>5. new = IF v.k = "list" THEN [k |-> "list", items |-> [i \in DOMAIN v.items |-> at(i)]] ELSE at(1)
  BY DEF Convert
<1> HIDE DEF new, number
<1>6. ASSUME NEW i \in DOMAIN list, list[i] \in PyValues, list[i].k # "list"
      PROVE  at(i) \in Items /\ Within(at(i), n + Len(news)) /\ at(i).k = list[i].k
  <2>1. CASE list[i].k = "dict"
    <3>1. number(i) \in 1 .. Len(news)
      BY <1>3, <2>1
    <3> DEFINE m == number(i)
    <3>2. at(i) = [k |-> "dict", w |-> n + m]
      BY <2>1 DEF Item
    <3>3. n + m \in Nat /\ n + m \in 1 .. n + Len(news)
      BY <1>2, <3>1
    <3> HIDE DEF m, at, n
    <3> QED
      BY <2>1, <3>2, <3>3 DEF Items, Within
  <2>2. CASE list[i].k # "dict"
    <3>1. at(i) = list[i]
      BY <2>2 DEF Item
    <3>2. list[i].k \in {"scalar", "string", "bad"}
      BY <1>6, <2>2, LazyAssumption
    <3> HIDE DEF at, list
    <3> QED
      BY <1>6, <2>2, <3>1, <3>2 DEF Items, Within
  <2> QED
    BY <2>1, <2>2
<1>7. CASE v.k = "list"
  <2> DEFINE made == [i \in DOMAIN v.items |-> at(i)]
  <2>1. \A i \in DOMAIN list : at(i) \in Items /\ Within(at(i), n + Len(news))
    BY <1>4, <1>6, <1>7
  <2>2. DOMAIN list = 1 .. Len(list) /\ Len(list) \in Nat /\ list = v.items
    BY <1>4, <1>7
  <2>3. made \in Seq(Items) /\ DOMAIN made = DOMAIN list /\ \A i \in DOMAIN list : made[i] = at(i)
    <3> HIDE DEF list, at
    <3> QED
      BY <2>1, <2>2
  <2>4. new = [k |-> "list", items |-> made]
    BY <1>5, <1>7
  <2>5. \A i \in DOMAIN made : Within(made[i], n + Len(news))
    BY <2>1, <2>3
  <2> HIDE DEF made, at, list, n, news
  <2>6. new \in Values /\ new.k = "list" /\ new.items = made
    BY <2>3, <2>4 DEF Values
  <2>7. Refers(new) \subseteq 1 .. n + Len(news)
    BY <2>5, <2>6, RefersIs
  <2> QED
    BY <1>7, <2>6, <2>7 DEF new, n, news
<1>8. CASE v.k # "list"
  <2>1. list = <<v>> /\ 1 \in DOMAIN list /\ list[1] = v
    BY <1>4, <1>8
  <2>2. new = at(1)
    BY <1>5, <1>8
  <2>3. new \in Items /\ Within(new, n + Len(news)) /\ new.k = v.k
    BY <1>1, <1>6, <1>8, <2>1, <2>2
  <2>4. v.k = "dict" => \E j \in 1 .. Len(news) : new.w = n + j /\ news[j] = <<f, 1>>
    <3> SUFFICES ASSUME v.k = "dict" PROVE \E j \in 1 .. Len(news) : new.w = n + j /\ news[j] = <<f, 1>>
      OBVIOUS
    <3>1. number(1) \in 1 .. Len(news) /\ news[number(1)] = <<f, 1>>
      BY <1>3, <2>1
    <3>2. at(1) = [k |-> "dict", w |-> n + number(1)]
      BY <2>1 DEF Item
    <3>3. new.w = n + number(1)
      BY <2>2, <3>2
    <3> QED
      BY <3>1, <3>3
  <2>5. new \in Values
    BY <2>3 DEF Values
  <2>6. Refers(new) \subseteq 1 .. n + Len(news)
    <3>1. new.k # "list"
      BY <1>8, <2>3
    <3> HIDE DEF n, news
    <3> QED
      BY <2>3, <2>5, <3>1, RefersIs
  <2> QED
    BY <2>3, <2>4, <2>5, <2>6 DEF new
<1> QED
  BY <1>7, <1>8

\* A wrapper that nothing was read through.
Fresh(x) == /\ ~ x.made /\ \A f \in Keys : x.cache[f] = NotThere /\ x.whole[f] = NotThere

LEMMA WrapperIs ==
  ASSUME NEW d \in Dicts, NEW depth \in Nat
  PROVE  Wrapper(d, depth) \in Wrappers /\ Fresh(Wrapper(d, depth)) /\ Wrapper(d, depth).depth = depth
BY DEF Wrapper, Wrappers, Fresh

LEMMA WrappersForAre ==
  ASSUME NEW content \in [Keys -> PyValues \cup {NotThere}], NEW fields \in SUBSET Keys,
         \A f \in fields : content[f] # NotThere, NEW depth \in Nat
  PROVE  LET news == NewDicts(content, fields)
             new  == WrappersFor(content, news, depth)
         IN  /\ new \in Seq(Wrappers) /\ Len(new) = Len(news) /\ Len(news) \in Nat
             /\ \A j \in 1 .. Len(news) :
                  /\ Fresh(new[j])
                  /\ content[news[j][1]].k = "dict" => new[j].depth = depth
<1> DEFINE news == NewDicts(content, fields)
           new == WrappersFor(content, news, depth)
           value(j) == content[news[j][1]]
           dict(j) == InList(value(j))[news[j][2]].d
           down(j) == IF value(j).k = "list" THEN 0 ELSE depth
<1>1. Len(news) \in Nat /\ DOMAIN news = 1 .. Len(news)
  BY NewsAre
<1>2. ASSUME NEW j \in 1 .. Len(news) PROVE dict(j) \in Dicts /\ down(j) \in Nat
  <2>1. /\ news[j][1] \in fields /\ news[j][2] \in DOMAIN InList(value(j))
        /\ InList(value(j))[news[j][2]].k = "dict"
    BY NewsAre
  <2>2. value(j) \in PyValues
    BY <2>1
  <2> DEFINE v == value(j)
             i == news[j][2]
  <2>3. InList(v)[i] \in PyValues
    <3>1. i \in DOMAIN InList(v) /\ v \in PyValues
      BY <2>1, <2>2
    <3> HIDE DEF v, i
    <3>2. CASE v.k = "list"
      BY <3>1, <3>2, ListIs
    <3>3. CASE v.k # "list"
      <4>1. InList(v) = <<v>>
        BY <3>3 DEF InList
      <4> QED
        BY <3>1, <4>1
    <3> QED
      BY <3>2, <3>3
  <2>4. InList(v)[i].d \in Dicts
    BY <2>1, <2>3, LazyAssumption
  <2> QED
    BY <2>4
<1>3. new = [j \in 1 .. Len(news) |-> Wrapper(dict(j), down(j))]
  BY <1>1 DEF WrappersFor
<1> HIDE DEF dict, down
<1>4. ASSUME NEW j \in 1 .. Len(news)
      PROVE  Wrapper(dict(j), down(j)) \in Wrappers /\ Fresh(Wrapper(dict(j), down(j)))
             /\ Wrapper(dict(j), down(j)).depth = down(j)
  BY <1>2, WrapperIs
<1> HIDE DEF new, news
<1>5. new \in Seq(Wrappers) /\ Len(new) = Len(news)
  BY <1>1, <1>3, <1>4
<1>6. ASSUME NEW j \in 1 .. Len(news)
      PROVE  Fresh(new[j]) /\ (value(j).k = "dict" => new[j].depth = depth)
  <2>1. new[j] = Wrapper(dict(j), down(j))
    BY <1>3
  <2>2. value(j).k = "dict" => down(j) = depth
    BY DEF down
  <2> QED
    BY <1>4, <2>1, <2>2
<1> QED
  BY <1>1, <1>5, <1>6 DEF new, news

\* What each wrapper says of itself, with all it keeps among the first n wrappers.
Marked(x) ==
  /\ x.made => x.holds /\ \A f \in Keys : x.whole[f] # NotThere
  /\ \A f \in Keys : x.cache[f] # NotThere /\ Container(x.cache[f]) => x.holds

Keeps(x, n) == \A f \in Keys : Refers(x.cache[f]) \subseteq 1 .. n /\ Refers(x.whole[f]) \subseteq 1 .. n

OneDown(ws, i) == \A f \in Keys : ws[i].cache[f].k = "dict" => ws[ws[i].cache[f].w].depth = ws[i].depth + 1

LazyGood(ws) ==
  /\ ws \in Seq(Wrappers)
  /\ \A i \in 1 .. Len(ws) : Marked(ws[i]) /\ Keeps(ws[i], Len(ws)) /\ OneDown(ws, i)

LEMMA CacheTyped ==
  ASSUME NEW x \in Wrappers, NEW f \in Keys
  PROVE  /\ x.cache[f] \in Values \cup {NotThere} /\ x.whole[f] \in Values \cup {NotThere, Absent}
         /\ x.dict \in Dicts /\ x.depth \in Nat
BY DEF Wrappers

LEMMA FreshIsGood ==
  ASSUME NEW x, Fresh(x), NEW n
  PROVE  Marked(x) /\ Keeps(x, n) /\ \A f \in Keys : x.cache[f].k # "dict"
<1>1. NotThere.k = "none"
  BY ItemsTold
<1>2. Refers(NotThere) = {}
  BY DEF Refers
<1>3. Marked(x)
  BY DEF Fresh, Marked
<1>4. Keeps(x, n)
  BY <1>2 DEF Fresh, Keeps
<1> QED
  BY <1>1, <1>3, <1>4 DEF Fresh

LEMMA DictWithin ==
  ASSUME NEW x \in Wrappers, NEW n, Keeps(x, n), NEW f \in Keys, x.cache[f].k = "dict"
  PROVE  x.cache[f].w \in 1 .. n
<1> DEFINE v == x.cache[f]
<1>1. v \in Values \cup {NotThere, Absent} /\ Refers(v) \subseteq 1 .. n /\ v.k = "dict"
  BY CacheTyped DEF Keeps
<1> HIDE DEF v
<1>2. Within(v, n)
  BY <1>1, RefersIs
<1> QED
  BY <1>1, <1>2 DEF Within, v

\* A wrapper takes what was converted, for which there are new ones.
LEMMA Extends ==
  ASSUME NEW ws, LazyGood(ws), NEW at \in 1 .. Len(ws), NEW x \in Wrappers,
         x.depth = ws[at].depth, NEW new \in Seq(Wrappers), \A j \in 1 .. Len(new) : Fresh(new[j]),
         Marked(x), Keeps(x, Len(ws) + Len(new)),
         \A f \in Keys : x.cache[f].k = "dict" =>
           \/ x.cache[f] = ws[at].cache[f]
           \/ \E j \in 1 .. Len(new) : x.cache[f].w = Len(ws) + j /\ new[j].depth = ws[at].depth + 1
  PROVE  LET after == [ws EXCEPT ![at] = x] \o new
         IN  /\ LazyGood(after) /\ Len(after) = Len(ws) + Len(new)
             /\ after[at] = x /\ \A i \in 1 .. Len(ws) : i # at => after[i] = ws[i]
<1> DEFINE base == [ws EXCEPT ![at] = x]
           after == base \o new
           n == Len(ws)
           m == Len(ws) + Len(new)
<1>1. ws \in Seq(Wrappers) /\ n \in Nat /\ Len(new) \in Nat /\ m \in Nat
  BY DEF LazyGood
<1>2. /\ base \in Seq(Wrappers) /\ Len(base) = n /\ base[at] = x
      /\ \A i \in 1 .. n : i # at => base[i] = ws[i]
  BY <1>1
<1> HIDE DEF base
<1>3. /\ after \in Seq(Wrappers) /\ Len(after) = m
      /\ \A i \in 1 .. n : after[i] = base[i]
      /\ \A j \in 1 .. Len(new) : after[n + j] = new[j]
  <2>1. base \in Seq(Wrappers) /\ new \in Seq(Wrappers)
    BY <1>2
  <2>2. after \in Seq(Wrappers) /\ Len(after) = Len(base) + Len(new)
    BY <2>1
  <2>3. \A i \in 1 .. Len(base) : after[i] = base[i]
    BY <2>1
  <2>4. \A j \in 1 .. Len(new) : after[Len(base) + j] = new[j]
    BY <2>1
  <2> QED
    BY <1>2, <2>2, <2>3, <2>4
<1> HIDE DEF after
<1>4. after[at] = x /\ \A i \in 1 .. n : i # at => after[i] = ws[i]
  BY <1>2, <1>3
<1>5. \A i \in 1 .. n : after[i].depth = ws[i].depth /\ after[i] \in Wrappers
  <2>1. \A i \in 1 .. n : i \in 1 .. m
    BY <1>1
  <2> QED
    BY <1>1, <1>3, <1>4, <2>1
<1>6. ASSUME NEW i \in 1 .. m
      PROVE  Marked(after[i]) /\ Keeps(after[i], m) /\ OneDown(after, i)
  <2>1. CASE i = at
    <3>1. ASSUME NEW f \in Keys, x.cache[f].k = "dict"
          PROVE  after[x.cache[f].w].depth = ws[at].depth + 1
      <4>1. CASE x.cache[f] = ws[at].cache[f]
        <5>1. ws[at] \in Wrappers /\ Keeps(ws[at], n)
          BY <1>1 DEF LazyGood
        <5>2. ws[at].cache[f].w \in 1 .. n
          BY <3>1, <4>1, <5>1, DictWithin
        <5>3. ws[ws[at].cache[f].w].depth = ws[at].depth + 1
          BY <3>1, <4>1 DEF LazyGood, OneDown
        <5> QED
          BY <1>5, <4>1, <5>2, <5>3
      <4>2. CASE \E j \in 1 .. Len(new) : x.cache[f].w = Len(ws) + j /\ new[j].depth = ws[at].depth + 1
        <5>1. PICK j \in 1 .. Len(new) : x.cache[f].w = n + j /\ new[j].depth = ws[at].depth + 1
          BY <4>2
        <5> QED
          BY <1>3, <5>1
      <4> QED
        BY <3>1, <4>1, <4>2
    <3>2. OneDown(after, at)
      BY <1>4, <3>1 DEF OneDown
    <3>3. Marked(after[at]) /\ Keeps(after[at], m)
      BY <1>4
    <3> QED
      BY <2>1, <3>2, <3>3
  <2>2. CASE i \in 1 .. n /\ i # at
    <3>1. after[i] = ws[i] /\ Marked(ws[i]) /\ Keeps(ws[i], n) /\ OneDown(ws, i) /\ ws[i] \in Wrappers
      BY <1>1, <1>4, <2>2 DEF LazyGood
    <3>2. Keeps(ws[i], m)
      <4>1. \A k \in 1 .. n : k \in 1 .. m
        BY <1>1
      <4> QED
        BY <3>1, <4>1 DEF Keeps
    <3>3. ASSUME NEW f \in Keys, ws[i].cache[f].k = "dict"
          PROVE  after[ws[i].cache[f].w].depth = ws[i].depth + 1
      <4>1. ws[i].cache[f].w \in 1 .. n
        BY <3>1, <3>3, DictWithin
      <4> QED
        BY <1>5, <3>1, <3>3, <4>1 DEF OneDown
    <3>4. OneDown(after, i)
      BY <3>1, <3>3 DEF OneDown
    <3> QED
      BY <3>1, <3>2, <3>4
  <2>3. CASE ~ (i \in 1 .. n)
    <3>1. i - n \in 1 .. Len(new) /\ i = n + (i - n)
      BY <1>1, <2>3
    <3>2. Fresh(after[i])
      BY <1>3, <3>1
    <3> QED
      BY <3>2, FreshIsGood DEF OneDown
  <2> QED
    BY <2>1, <2>2, <2>3
<1>7. LazyGood(after)
  BY <1>3, <1>6 DEF LazyGood
<1> QED
  BY <1>3, <1>4, <1>7 DEF after, base

\* The wrappers of an evaluation go, when those before it keep none of them.
LEMMA Truncated ==
  ASSUME NEW ws, LazyGood(ws), NEW n \in 0 .. Len(ws), \A i \in 1 .. n : Keeps(ws[i], n)
  PROVE  /\ LazyGood(SubSeq(ws, 1, n)) /\ Len(SubSeq(ws, 1, n)) = n
         /\ \A i \in 1 .. n : SubSeq(ws, 1, n)[i] = ws[i]
<1> DEFINE after == SubSeq(ws, 1, n)
<1>1. ws \in Seq(Wrappers) /\ Len(ws) \in Nat /\ n \in Nat
  BY DEF LazyGood
<1>2. after \in Seq(Wrappers) /\ Len(after) = n /\ \A i \in 1 .. n : after[i] = ws[i]
  <2>1. \A i \in 1 .. n : i \in 1 .. Len(ws)
    BY <1>1
  <2> QED
    BY <1>1, <2>1
<1> HIDE DEF after
<1>3. ASSUME NEW i \in 1 .. n
      PROVE  Marked(after[i]) /\ Keeps(after[i], n) /\ OneDown(after, i)
  <2>1. i \in 1 .. Len(ws)
    BY <1>1
  <2>2. after[i] = ws[i] /\ Marked(ws[i]) /\ Keeps(ws[i], n) /\ OneDown(ws, i) /\ ws[i] \in Wrappers
    BY <1>1, <1>2, <2>1 DEF LazyGood
  <2>3. ASSUME NEW f \in Keys, ws[i].cache[f].k = "dict"
        PROVE  after[ws[i].cache[f].w].depth = ws[i].depth + 1
    <3>1. ws[i].cache[f].w \in 1 .. n
      BY <2>2, <2>3, DictWithin
    <3> QED
      BY <1>2, <2>2, <2>3, <3>1 DEF OneDown
  <2>4. OneDown(after, i)
    BY <2>2, <2>3 DEF OneDown
  <2> QED
    BY <2>2, <2>4
<1> QED
  BY <1>2, <1>3 DEF LazyGood, after

DictsTyped == dicts \in [Dicts -> [Keys -> PyValues \cup {NotThere}]]

LEMMA ContentTyped ==
  ASSUME DictsTyped, LazyGood(wrappers), NEW w \in 1 .. Len(wrappers)
  PROVE  /\ Content(w) \in [Keys -> PyValues \cup {NotThere}] /\ wrappers[w] \in Wrappers
         /\ Marked(wrappers[w]) /\ Keeps(wrappers[w], Len(wrappers)) /\ OneDown(wrappers, w)
         /\ Len(wrappers) \in Nat
<1>1. wrappers \in Seq(Wrappers)
  BY DEF LazyGood
<1>2. wrappers[w] \in Wrappers /\ Len(wrappers) \in Nat
  BY <1>1
<1>3. wrappers[w].dict \in Dicts
  BY <1>2 DEF Wrappers
<1> QED
  BY <1>2, <1>3 DEF Content, DictsTyped, LazyGood

\* What a read leaves of the wrapper w and of the others.
SettledKept(w) ==
  \A f \in Keys : Settled(w, f) =>
    \/ AtHand(w, f)' = AtHand(w, f)
    \/ ~ Whole(w) /\ Whole(w)' /\ Content(w)[f] = NotThere /\ AtHand(w, f)' = Absent

Extended(w) ==
  /\ LazyGood(wrappers') /\ Len(wrappers') >= Len(wrappers) /\ Len(wrappers') \in Nat
  /\ \A i \in 1 .. Len(wrappers) : i # w => wrappers'[i] = wrappers[i]
  /\ SettledKept(w)

LEMMA FieldIsRead ==
  ASSUME DictsTyped, LazyGood(wrappers), NEW w \in 1 .. Len(wrappers), NEW f \in Keys, GetField(w, f)
  PROVE  Extended(w)
<1> DEFINE content == Content(w)
           v == content[f]
           news == NewDicts(content, {f})
           value == Convert(v, f, news)
           n == Len(wrappers)
           old == wrappers[w]
           deep == DepthBelow(w)
           new == WrappersFor(content, news, deep)
           taken == [old EXCEPT !.cache[f] = value, !.holds = @ \/ Container(value)]
           x == IF Kept(value) THEN taken ELSE old
<1>1. /\ content \in [Keys -> PyValues \cup {NotThere}] /\ old \in Wrappers
      /\ Marked(old) /\ Keeps(old, n) /\ OneDown(wrappers, w) /\ n \in Nat
  BY ContentTyped
<1>2. AtHand(w, f) = NotThere /\ v # NotThere
  BY DEF GetField
<1>3. wrappers' = [wrappers EXCEPT ![w] = x] \o new
  <2>1. wrappers' = (IF Kept(value)
                     THEN [wrappers EXCEPT ![w].cache[f] = value, ![w].holds = @ \/ Container(value)]
                     ELSE wrappers) \o new
    BY DEF GetField
  <2>2. wrappers \in Seq(Wrappers)
    BY DEF LazyGood
  <2>3. CASE Kept(value)
    <3>1. [wrappers EXCEPT ![w].cache[f] = value, ![w].holds = @ \/ Container(value)]
            = [wrappers EXCEPT ![w] = taken]
      <4> HIDE DEF value
      <4> QED
        BY <1>1, <2>2 DEF Wrappers
    <3> QED
      BY <2>1, <2>3, <3>1
  <2>4. CASE ~ Kept(value)
    <3>1. [wrappers EXCEPT ![w] = old] = wrappers
      BY <2>2
    <3> QED
      BY <2>1, <2>4, <3>1
  <2> QED
    BY <2>3, <2>4
<1>4. ~ old.made /\ old.cache[f] = NotThere
  BY <1>1, <1>2 DEF AtHand, Whole, Marked
<1>5. /\ value \in Values /\ Refers(value) \subseteq 1 .. n + Len(news) /\ value.k = v.k
      /\ value.k = "dict" => \E j \in 1 .. Len(news) : value.w = n + j /\ news[j] = <<f, 1>>
  <2> HIDE DEF content
  <2> DEFINE fields == {f}
  <2>1. fields \in SUBSET Keys /\ f \in fields
    OBVIOUS
  <2> HIDE DEF fields
  <2>2. LET ns == NewDicts(content, fields)
            made == Convert(content[f], f, ns)
        IN  /\ made \in Values /\ Refers(made) \subseteq 1 .. Len(wrappers) + Len(ns)
            /\ made.k = content[f].k
            /\ made.k = "dict" => \E j \in 1 .. Len(ns) : made.w = Len(wrappers) + j /\ ns[j] = <<f, 1>>
    BY <1>1, <1>2, <2>1, ConvertIs
  <2> QED
    BY <2>2 DEF fields
<1>6. deep \in Nat /\ deep = old.depth + 1
  <2>1. old.depth \in Nat
    BY <1>1 DEF Wrappers
  <2> QED
    BY <2>1 DEF DepthBelow
<1>7. /\ new \in Seq(Wrappers) /\ Len(new) = Len(news) /\ Len(news) \in Nat
      /\ \A j \in 1 .. Len(news) : /\ Fresh(new[j])
                                   /\ content[news[j][1]].k = "dict" => new[j].depth = deep
  <2> DEFINE fields == {f}
  <2>1. fields \in SUBSET Keys /\ \A g \in fields : content[g] # NotThere
    BY <1>2
  <2> HIDE DEF fields, content, deep
  <2>2. LET ns == NewDicts(content, fields)
            made == WrappersFor(content, ns, deep)
        IN  /\ made \in Seq(Wrappers) /\ Len(made) = Len(ns) /\ Len(ns) \in Nat
            /\ \A j \in 1 .. Len(ns) : /\ Fresh(made[j])
                                       /\ content[ns[j][1]].k = "dict" => made[j].depth = deep
    BY <1>1, <1>6, <2>1, WrappersForAre
  <2> QED
    BY <2>2 DEF fields
<1> HIDE DEF value, news, deep, new
<1>8. /\ x \in Wrappers /\ x.depth = old.depth /\ x.made = old.made /\ x.whole = old.whole
      /\ \A g \in Keys : x.cache[g] = IF Kept(value) /\ g = f THEN value ELSE old.cache[g]
      /\ x.holds = (old.holds \/ (Kept(value) /\ Container(value)))
  <2>1. CASE Kept(value)
    <3>1. x = taken
      BY <2>1
    <3>2. Container(value) \in BOOLEAN /\ old.holds \in BOOLEAN
      BY <1>1 DEF Container, Wrappers
    <3>3. taken \in Wrappers /\ taken.depth = old.depth /\ taken.made = old.made /\ taken.whole = old.whole
      BY <1>1, <1>5, <3>2 DEF Wrappers
    <3>4. \A g \in Keys : taken.cache[g] = IF g = f THEN value ELSE old.cache[g]
      BY <1>1 DEF Wrappers
    <3>5. taken.holds = (old.holds \/ Container(value))
      BY <1>1 DEF Wrappers
    <3> QED
      BY <2>1, <3>1, <3>3, <3>4, <3>5
  <2>2. CASE ~ Kept(value)
    BY <1>1, <2>2 DEF Wrappers
  <2> QED
    BY <2>1, <2>2
<1> HIDE DEF x
<1>9. Marked(x)
  <2>1. x.made => x.holds /\ \A g \in Keys : x.whole[g] # NotThere
    BY <1>4, <1>8
  <2>2. ASSUME NEW g \in Keys, x.cache[g] # NotThere, Container(x.cache[g]) PROVE x.holds
    BY <1>1, <1>8, <2>2 DEF Marked
  <2> QED
    BY <2>1, <2>2 DEF Marked
<1>10. Keeps(x, n + Len(new))
  <2>1. \A k \in 1 .. n : k \in 1 .. n + Len(new)
    BY <1>1, <1>7
  <2>2. ASSUME NEW g \in Keys
        PROVE  Refers(x.cache[g]) \subseteq 1 .. n + Len(new) /\ Refers(x.whole[g]) \subseteq 1 .. n + Len(new)
    <3>1. Refers(old.cache[g]) \subseteq 1 .. n /\ Refers(old.whole[g]) \subseteq 1 .. n
      BY <1>1 DEF Keeps
    <3>2. Refers(value) \subseteq 1 .. n + Len(new)
      BY <1>5, <1>7
    <3> QED
      BY <1>8, <2>1, <3>1, <3>2
  <2> QED
    BY <2>2 DEF Keeps
<1>11. ASSUME NEW g \in Keys, x.cache[g].k = "dict"
       PROVE  \/ x.cache[g] = old.cache[g]
              \/ \E j \in 1 .. Len(new) : x.cache[g].w = n + j /\ new[j].depth = old.depth + 1
  <2>1. CASE Kept(value) /\ g = f
    <3>1. x.cache[g] = value
      BY <1>8, <2>1
    <3>2. PICK j \in 1 .. Len(news) : value.w = n + j /\ news[j] = <<f, 1>>
      BY <1>5, <1>11, <3>1
    <3>3. content[news[j][1]].k = "dict"
      <4>1. news[j][1] = f
        BY <3>2
      <4> QED
        BY <1>5, <1>11, <3>1, <4>1
    <3>4. new[j].depth = old.depth + 1
      BY <1>6, <1>7, <3>3
    <3> QED
      BY <1>7, <3>1, <3>2, <3>4
  <2>2. CASE ~ (Kept(value) /\ g = f)
    BY <1>8, <2>2
  <2> QED
    BY <2>1, <2>2
<1>12. \A j \in 1 .. Len(new) : Fresh(new[j])
  BY <1>7
<1>13. /\ LazyGood(wrappers') /\ Len(wrappers') = n + Len(new) /\ wrappers'[w] = x
       /\ \A i \in 1 .. n : i # w => wrappers'[i] = wrappers[i]
  <2> DEFINE after == [wrappers EXCEPT ![w] = x] \o new
  <2>1. LazyGood(after) /\ Len(after) = Len(wrappers) + Len(new)
        /\ after[w] = x /\ \A i \in 1 .. Len(wrappers) : i # w => after[i] = wrappers[i]
    <3>1. \A g \in Keys : x.cache[g].k = "dict" =>
            \/ x.cache[g] = wrappers[w].cache[g]
            \/ \E j \in 1 .. Len(new) :
                 x.cache[g].w = Len(wrappers) + j /\ new[j].depth = wrappers[w].depth + 1
      BY <1>11
    <3>2. x \in Wrappers /\ x.depth = wrappers[w].depth /\ new \in Seq(Wrappers)
      BY <1>7, <1>8
    <3>3. Marked(x) /\ Keeps(x, Len(wrappers) + Len(new))
      BY <1>9, <1>10
    <3> QED
      BY <1>12, <3>1, <3>2, <3>3, Extends
  <2> HIDE DEF after
  <2> QED
    BY <1>3, <2>1 DEF after
<1>14. SettledKept(w)
  <2>1. ASSUME NEW g \in Keys, Settled(w, g) PROVE AtHand(w, g)' = AtHand(w, g)
    <3>1. g # f /\ ~ Whole(w)
      BY <1>4, <2>1 DEF Settled, Whole, Cached
    <3> QED
      BY <1>4, <1>8, <1>13, <3>1 DEF AtHand, Whole
  <2> QED
    BY <2>1 DEF SettledKept
<1> QED
  BY <1>1, <1>7, <1>13, <1>14 DEF Extended

LEMMA WholeIsMade ==
  ASSUME DictsTyped, LazyGood(wrappers), NEW w \in 1 .. Len(wrappers), ToObject(w)
  PROVE  Extended(w)
<1> DEFINE content == Content(w)
           fields == ToConvert(w)
           news == NewDicts(content, fields)
           n == Len(wrappers)
           old == wrappers[w]
           new == WrappersFor(content, news, 0)
           map == [f \in Keys |->
                     IF content[f] = NotThere THEN Absent
                     ELSE IF f \in fields THEN Convert(content[f], f, news)
                     ELSE old.cache[f]]
           x == [old EXCEPT !.made = TRUE, !.whole = map, !.holds = TRUE]
<1>1. /\ content \in [Keys -> PyValues \cup {NotThere}] /\ old \in Wrappers
      /\ Marked(old) /\ Keeps(old, n) /\ OneDown(wrappers, w) /\ n \in Nat
  BY ContentTyped
<1>2. ~ old.made
  BY DEF ToObject, Whole
<1>3. wrappers' = [wrappers EXCEPT ![w] = x] \o new
  <2>1. wrappers' = [wrappers EXCEPT ![w].made = TRUE, ![w].whole = map, ![w].holds = TRUE] \o new
    BY DEF ToObject
  <2>2. wrappers \in Seq(Wrappers)
    BY DEF LazyGood
  <2>3. [wrappers EXCEPT ![w].made = TRUE, ![w].whole = map, ![w].holds = TRUE]
          = [wrappers EXCEPT ![w] = x]
    <3> HIDE DEF map
    <3> QED
      BY <1>1, <2>2 DEF Wrappers
  <2> QED
    BY <2>1, <2>3
<1>4. fields \in SUBSET Keys /\ \A f \in Keys : f \in fields <=> content[f] # NotThere /\ old.cache[f] = NotThere
  BY DEF ToConvert, Cached
<1> HIDE DEF content, fields
<1>5. ASSUME NEW f \in fields
      PROVE  Convert(content[f], f, news) \in Values /\ Refers(Convert(content[f], f, news)) \subseteq 1 .. n + Len(news)
  BY <1>1, <1>4, ConvertIs
<1>6. /\ new \in Seq(Wrappers) /\ Len(new) = Len(news) /\ Len(news) \in Nat
      /\ \A j \in 1 .. Len(news) : Fresh(new[j])
  <2>1. \A f \in fields : content[f] # NotThere
    BY <1>4
  <2>2. 0 \in Nat
    OBVIOUS
  <2> QED
    BY <1>1, <1>4, <2>1, <2>2, WrappersForAre
<1> HIDE DEF news, new
<1>7. ASSUME NEW f \in Keys
      PROVE  /\ map[f] \in Values \cup {Absent} /\ map[f] # NotThere /\ Refers(map[f]) \subseteq 1 .. n + Len(new)
             /\ old.cache[f] # NotThere => (map[f] = IF content[f] = NotThere THEN Absent ELSE old.cache[f])
  <2>1. map[f] = IF content[f] = NotThere THEN Absent
                 ELSE IF f \in fields THEN Convert(content[f], f, news)
                 ELSE old.cache[f]
    OBVIOUS
  <2>2. CASE content[f] = NotThere
    <3>1. Absent # NotThere /\ Absent.k = "undefined"
      BY ItemsTold
    <3>2. Refers(Absent) = {}
      BY <3>1 DEF Refers, InList
    <3> HIDE DEF map
    <3> QED
      BY <2>1, <2>2, <3>1, <3>2
  <2>3. CASE content[f] # NotThere /\ f \in fields
    <3> HIDE DEF map
    <3>1. map[f] = Convert(content[f], f, news)
      BY <2>1, <2>3
    <3>2. old.cache[f] = NotThere
      BY <1>4, <2>3
    <3>3. map[f] \in Values /\ Refers(map[f]) \subseteq 1 .. n + Len(new)
      BY <1>5, <1>6, <2>3, <3>1
    <3>4. map[f] # NotThere
      BY <3>3, ItemsTold
    <3> QED
      BY <3>2, <3>3, <3>4
  <2>4. CASE content[f] # NotThere /\ f \notin fields
    <3> HIDE DEF map
    <3>1. map[f] = old.cache[f]
      BY <2>1, <2>4
    <3>2. old.cache[f] # NotThere
      BY <1>4, <2>4
    <3>3. old.cache[f] \in Values
      BY <1>1, <3>2, CacheTyped
    <3>4. Refers(old.cache[f]) \subseteq 1 .. n
      BY <1>1 DEF Keeps
    <3>5. \A k \in 1 .. n : k \in 1 .. n + Len(new)
      BY <1>1, <1>6
    <3> QED
      BY <2>4, <3>1, <3>2, <3>3, <3>4, <3>5
  <2> QED
    BY <2>2, <2>3, <2>4
<1>8. map \in [Keys -> Values \cup {NotThere, Absent}]
  <2>1. map = [f \in Keys |-> map[f]]
    OBVIOUS
  <2> HIDE DEF map
  <2> QED
    BY <1>7, <2>1
<1> HIDE DEF map
<1>9. /\ x \in Wrappers /\ x.depth = old.depth /\ x.made /\ x.whole = map /\ x.holds /\ x.cache = old.cache
  BY <1>1, <1>8 DEF Wrappers
<1> HIDE DEF x
<1>10. Marked(x)
  BY <1>7, <1>9 DEF Marked
<1>11. Keeps(x, n + Len(new))
  <2>1. \A k \in 1 .. n : k \in 1 .. n + Len(new)
    BY <1>1, <1>6
  <2> QED
    BY <1>1, <1>7, <1>9, <2>1 DEF Keeps
<1>12. /\ LazyGood(wrappers') /\ Len(wrappers') = n + Len(new) /\ wrappers'[w] = x
       /\ \A i \in 1 .. n : i # w => wrappers'[i] = wrappers[i]
  <2> DEFINE after == [wrappers EXCEPT ![w] = x] \o new
  <2>1. \A j \in 1 .. Len(new) : Fresh(new[j])
    BY <1>6
  <2>2. LazyGood(after) /\ Len(after) = Len(wrappers) + Len(new)
        /\ after[w] = x /\ \A i \in 1 .. Len(wrappers) : i # w => after[i] = wrappers[i]
    BY <1>6, <1>9, <1>10, <1>11, <2>1, Extends
  <2> HIDE DEF after
  <2> QED
    BY <1>3, <2>2 DEF after
<1>13. SettledKept(w)
  <2>1. ASSUME NEW f \in Keys, Settled(w, f)
        PROVE  \/ AtHand(w, f)' = AtHand(w, f)
               \/ ~ Whole(w) /\ Whole(w)' /\ Content(w)[f] = NotThere /\ AtHand(w, f)' = Absent
    <3>1. ~ Whole(w) /\ old.cache[f] # NotThere
      BY <1>2, <2>1 DEF Settled, Whole, Cached
    <3>2. Whole(w)' /\ AtHand(w, f)' = map[f] /\ AtHand(w, f) = old.cache[f]
      BY <1>9, <1>12, <3>1 DEF AtHand, Whole
    <3>3. map[f] = IF content[f] = NotThere THEN Absent ELSE old.cache[f]
      BY <1>7, <3>1
    <3> QED
      BY <3>1, <3>2, <3>3 DEF content
  <2> QED
    BY <2>1 DEF SettledKept
<1> QED
  BY <1>1, <1>6, <1>12, <1>13 DEF Extended

(***************************************************************************)
(* The wrappers of nested evaluations.                                     *)
(***************************************************************************)
\* How many wrappers there were as evaluations began: fewer for those further out, and
\* what there was keeps none of those made since.
MarksGood(ms, ws) ==
  /\ ms \in Seq(0 .. MaxWrappers)
  /\ \A k \in 1 .. Len(ms) :
       /\ ms[k] <= Len(ws) /\ \A j \in 1 .. k : ms[j] <= ms[k]
       /\ \A i \in 1 .. ms[k] : Keeps(ws[i], ms[k])

\* Python code and evaluations take turns, and n evaluations are under way.
TurnsGood(c, n) ==
  /\ \A i \in 2 .. Len(c) : c[i].who = "python" <=> c[i - 1].who = "eval"
  /\ \/ c[Len(c)].who = "python" /\ Len(c) = 2 * n + 1
     \/ c[Len(c)].who = "eval" /\ Len(c) = 2 * n

LEMMA MarkMade ==
  ASSUME NEW ws, LazyGood(ws), NEW ms, MarksGood(ms, ws), Len(ws) <= MaxWrappers,
         NEW x \in Wrappers, Fresh(x)
  PROVE  LazyGood(Append(ws, x)) /\ MarksGood(Append(ms, Len(ws)), Append(ws, x))
<1> DEFINE after == Append(ws, x)
           marked == Append(ms, Len(ws))
           n == Len(ws)
           m == Len(ms)
<1>1. ws \in Seq(Wrappers) /\ n \in Nat /\ ms \in Seq(0 .. MaxWrappers) /\ m \in Nat
  BY DEF LazyGood, MarksGood
<1>2. /\ after \in Seq(Wrappers) /\ Len(after) = n + 1 /\ after[n + 1] = x
      /\ \A i \in 1 .. n : after[i] = ws[i]
  BY <1>1
<1>3. /\ marked \in Seq(0 .. MaxWrappers) /\ Len(marked) = m + 1 /\ marked[m + 1] = n
      /\ \A k \in 1 .. m : marked[k] = ms[k]
  <2>1. n \in 0 .. MaxWrappers
    BY <1>1, LazyAssumption
  <2> QED
    BY <1>1, <2>1
<1>4. \A i \in 1 .. n : Marked(ws[i]) /\ Keeps(ws[i], n) /\ OneDown(ws, i) /\ ws[i] \in Wrappers
  BY <1>1 DEF LazyGood
<1> HIDE DEF after, marked
<1>5. ASSUME NEW i \in 1 .. n + 1
      PROVE  Marked(after[i]) /\ Keeps(after[i], n + 1) /\ OneDown(after, i)
  <2>1. CASE i = n + 1
    BY <1>2, <2>1, FreshIsGood DEF OneDown
  <2>2. CASE i \in 1 .. n
    <3>1. after[i] = ws[i] /\ Marked(ws[i]) /\ Keeps(ws[i], n) /\ OneDown(ws, i) /\ ws[i] \in Wrappers
      BY <1>2, <1>4, <2>2
    <3>2. Keeps(ws[i], n + 1)
      <4>1. \A k \in 1 .. n : k \in 1 .. n + 1
        BY <1>1
      <4> QED
        BY <3>1, <4>1 DEF Keeps
    <3>3. ASSUME NEW f \in Keys, ws[i].cache[f].k = "dict"
          PROVE  after[ws[i].cache[f].w].depth = ws[i].depth + 1
      <4>1. ws[i].cache[f].w \in 1 .. n
        BY <3>1, <3>3, DictWithin
      <4> QED
        BY <1>2, <3>1, <3>3, <4>1 DEF OneDown
    <3> QED
      BY <3>1, <3>2, <3>3 DEF OneDown
  <2> QED
    BY <1>1, <2>1, <2>2
<1>6. LazyGood(after)
  BY <1>2, <1>5 DEF LazyGood
<1>7. ASSUME NEW k \in 1 .. m + 1
      PROVE  /\ marked[k] <= n + 1 /\ \A j \in 1 .. k : marked[j] <= marked[k]
             /\ \A i \in 1 .. marked[k] : Keeps(after[i], marked[k])
  <2>1. \A j \in 1 .. m : ms[j] \in Nat /\ ms[j] <= n
    <3>1. \A j \in 1 .. m : ms[j] \in 0 .. MaxWrappers
      BY <1>1, LazyAssumption
    <3> QED
      BY <3>1, LazyAssumption DEF MarksGood
  <2>2. CASE k = m + 1
    <3>1. marked[k] = n
      BY <1>3, <2>2
    <3>2. \A j \in 1 .. k : j = m + 1 \/ j \in 1 .. m
      BY <1>1, <2>2
    <3>3. \A j \in 1 .. k : marked[j] <= n
      BY <1>1, <1>3, <2>1, <3>2
    <3>4. \A i \in 1 .. n : Keeps(after[i], n)
      BY <1>2, <1>4
    <3> QED
      BY <1>1, <3>1, <3>3, <3>4
  <2>3. CASE k \in 1 .. m
    <3>1. marked[k] = ms[k] /\ \A j \in 1 .. k : marked[j] = ms[j]
      BY <1>1, <1>3, <2>3
    <3>2. /\ \A j \in 1 .. k : ms[j] <= ms[k]
          /\ \A i \in 1 .. ms[k] : Keeps(ws[i], ms[k])
      BY <2>3 DEF MarksGood
    <3>3. \A i \in 1 .. ms[k] : i \in 1 .. n
      BY <1>1, <2>1, <2>3
    <3>4. \A i \in 1 .. ms[k] : Keeps(after[i], ms[k])
      BY <1>2, <3>2, <3>3
    <3>5. ms[k] <= n + 1
      BY <1>1, <2>1, <2>3
    <3> QED
      BY <3>1, <3>2, <3>4, <3>5
  <2> QED
    BY <1>1, <2>2, <2>3
<1>8. MarksGood(marked, after)
  BY <1>2, <1>3, <1>7 DEF MarksGood
<1> QED
  BY <1>6, <1>8 DEF after, marked

\* An evaluation changes no wrapper that was there as it began.
LEMMA MarksStay ==
  ASSUME NEW ws, NEW ms, MarksGood(ms, ws), ms # <<>>, Len(ws) \in Nat,
         NEW after, Len(after) \in Nat, Len(after) >= Len(ws),
         \A i \in 1 .. Last(ms) : after[i] = ws[i]
  PROVE  MarksGood(ms, after)
<1> DEFINE m == Len(ms)
<1>1. ms \in Seq(0 .. MaxWrappers) /\ m \in Nat \ {0} /\ Last(ms) = ms[m]
  BY DEF MarksGood, Last
<1>2. \A k \in 1 .. m : ms[k] \in 0 .. MaxWrappers /\ ms[k] \in Nat
  BY <1>1, LazyAssumption
<1>3. ASSUME NEW k \in 1 .. m
      PROVE  ms[k] <= Len(after) /\ \A i \in 1 .. ms[k] : Keeps(after[i], ms[k])
  <2>1. ms[k] <= Len(ws) /\ \A i \in 1 .. ms[k] : Keeps(ws[i], ms[k])
    BY DEF MarksGood
  <2>2. m \in 1 .. m
    BY <1>1
  <2>3. ms[k] <= ms[m]
    BY <2>2 DEF MarksGood
  <2>4. \A i \in 1 .. ms[k] : i \in 1 .. ms[m]
    BY <1>2, <2>2, <2>3
  <2>5. ms[k] <= Len(after)
    BY <1>2, <2>1
  <2> QED
    BY <1>1, <2>1, <2>4, <2>5
<1> QED
  BY <1>3 DEF MarksGood

LEMMA MarkTaken ==
  ASSUME NEW ws, LazyGood(ws), NEW ms, MarksGood(ms, ws), ms # <<>>
  PROVE  LET after == SubSeq(ws, 1, Last(ms))
         IN  /\ LazyGood(after) /\ Len(after) <= Len(ws) /\ MarksGood(Front(ms), after)
             /\ Len(after) \in Nat /\ \A i \in 1 .. Len(after) : after[i] = ws[i]
<1> DEFINE n == Last(ms)
           after == SubSeq(ws, 1, n)
           m == Len(ms)
           front == Front(ms)
<1>1. ws \in Seq(Wrappers) /\ Len(ws) \in Nat /\ ms \in Seq(0 .. MaxWrappers) /\ m \in Nat \ {0} /\ n = ms[m]
  BY DEF LazyGood, MarksGood, Last
<1>2. m \in 1 .. m /\ \A k \in 1 .. m : ms[k] \in 0 .. MaxWrappers /\ ms[k] \in Nat
  BY <1>1, LazyAssumption
<1>3. n \in 0 .. Len(ws) /\ \A i \in 1 .. n : Keeps(ws[i], n)
  BY <1>1, <1>2 DEF MarksGood
<1>4. /\ front \in Seq(0 .. MaxWrappers) /\ Len(front) = m - 1
      /\ \A k \in 1 .. m - 1 : front[k] = ms[k]
  BY <1>1, FrontIs
<1> HIDE DEF n
<1>5. LazyGood(after) /\ Len(after) = n /\ \A i \in 1 .. n : after[i] = ws[i]
  BY <1>3, Truncated
<1> HIDE DEF after, front
<1>6. ASSUME NEW k \in 1 .. m - 1
      PROVE  /\ front[k] <= n /\ \A j \in 1 .. k : front[j] <= front[k]
             /\ \A i \in 1 .. front[k] : Keeps(after[i], front[k])
  <2>1. k \in 1 .. m /\ k \in 1 .. m - 1 /\ \A j \in 1 .. k : j \in 1 .. m - 1
    BY <1>1
  <2>2. front[k] = ms[k] /\ \A j \in 1 .. k : front[j] = ms[j]
    BY <1>4, <2>1
  <2>3. /\ \A j \in 1 .. k : ms[j] <= ms[k]
        /\ \A i \in 1 .. ms[k] : Keeps(ws[i], ms[k])
    BY <2>1 DEF MarksGood
  <2>4. ms[k] <= n
    BY <1>1, <1>2, <2>1 DEF MarksGood
  <2>5. \A i \in 1 .. ms[k] : i \in 1 .. n
    BY <1>1, <1>2, <2>1, <2>4
  <2> QED
    BY <1>5, <2>2, <2>3, <2>4, <2>5
<1>7. MarksGood(front, after)
  BY <1>4, <1>5, <1>6 DEF MarksGood
<1>8. n \in Nat /\ n <= Len(ws)
  BY <1>1, <1>3
<1> QED
  BY <1>5, <1>7, <1>8 DEF after, front, n

LEMMA TurnTaken ==
  ASSUME NEW c \in Seq(PyCall), c # <<>>, NEW n \in Nat, TurnsGood(c, n), NEW f \in PyCall,
         f.who # c[Len(c)].who
  PROVE  TurnsGood(Append(c, f), IF f.who = "eval" THEN n + 1 ELSE n)
<1> DEFINE d == Append(c, f)
           top == Len(c)
           n2 == IF f.who = "eval" THEN n + 1 ELSE n
<1>1. /\ top \in Nat \ {0} /\ Len(d) = top + 1 /\ d[top + 1] = f
      /\ \A i \in 1 .. top : d[i] = c[i]
  OBVIOUS
<1>2. f.who \in {"python", "eval"} /\ c[top].who \in {"python", "eval"}
  <2>1. c[top] \in PyCall
    BY <1>1
  <2> QED
    BY <2>1 DEF PyCall
<1> HIDE DEF d
<1>3. ASSUME NEW i \in 2 .. top + 1 PROVE d[i].who = "python" <=> d[i - 1].who = "eval"
  <2>1. CASE i = top + 1
    <3>1. i - 1 = top /\ top \in 1 .. top
      BY <1>1, <2>1
    <3>2. d[i] = f /\ d[i - 1] = c[top]
      BY <1>1, <2>1, <3>1
    <3> QED
      BY <1>2, <3>2
  <2>2. CASE i \in 2 .. top
    <3>1. i \in 1 .. top /\ i - 1 \in 1 .. top
      BY <1>1, <2>2
    <3>2. d[i] = c[i] /\ d[i - 1] = c[i - 1]
      BY <1>1, <3>1
    <3> QED
      BY <2>2, <3>2 DEF TurnsGood
  <2> QED
    BY <1>1, <2>1, <2>2
<1>4. CASE f.who = "eval"
  <2>1. top = 2 * n + 1
    BY <1>2, <1>4 DEF TurnsGood
  <2>2. Len(d) = 2 * (n + 1) /\ d[Len(d)].who = "eval" /\ n2 = n + 1
    BY <1>1, <1>4, <2>1
  <2>3. TurnsGood(d, n + 1)
    BY <1>1, <1>3, <2>2 DEF TurnsGood
  <2> QED
    BY <2>2, <2>3 DEF d
<1>5. CASE f.who = "python"
  <2>1. top = 2 * n
    BY <1>2, <1>5 DEF TurnsGood
  <2>2. Len(d) = 2 * n + 1 /\ d[Len(d)].who = "python" /\ n2 = n
    BY <1>1, <1>5, <2>1
  <2>3. TurnsGood(d, n)
    BY <1>1, <1>3, <2>2 DEF TurnsGood
  <2> QED
    BY <2>2, <2>3 DEF d
<1> QED
  BY <1>2, <1>4, <1>5

LEMMA TurnOver ==
  ASSUME NEW c \in Seq(PyCall), NEW n \in Nat, TurnsGood(c, n), Len(c) > 1
  PROVE  /\ c[Len(c)].who = "eval" => n > 0 /\ TurnsGood(Front(c), n - 1)
         /\ c[Len(c)].who = "python" => TurnsGood(Front(c), n)
<1> DEFINE d == Front(c)
           top == Len(c)
<1>1. /\ top \in Nat /\ top > 1 /\ Len(d) = top - 1 /\ \A i \in 1 .. top - 1 : d[i] = c[i]
  BY FrontIs
<1>2. c[top - 1].who \in {"python", "eval"}
  <2>1. top - 1 \in 1 .. top
    BY <1>1
  <2>2. c[top - 1] \in PyCall
    BY <2>1
  <2> QED
    BY <2>2 DEF PyCall
<1> HIDE DEF d
<1>3. d[Len(d)] = c[top - 1]
  <2>1. top - 1 \in 1 .. top - 1
    BY <1>1
  <2> QED
    BY <1>1, <2>1
<1>4. \A i \in 2 .. Len(d) : d[i].who = "python" <=> d[i - 1].who = "eval"
  <2>1. ASSUME NEW i \in 2 .. Len(d) PROVE d[i].who = "python" <=> d[i - 1].who = "eval"
    <3>1. i \in 1 .. top - 1 /\ i - 1 \in 1 .. top - 1 /\ i \in 2 .. top
      BY <1>1
    <3>2. d[i] = c[i] /\ d[i - 1] = c[i - 1]
      BY <1>1, <3>1
    <3> QED
      BY <3>1, <3>2 DEF TurnsGood
  <2> QED
    BY <2>1
<1>5. c[top].who = "python" <=> c[top - 1].who = "eval"
  <2>1. top \in 2 .. top
    BY <1>1
  <2> QED
    BY <2>1 DEF TurnsGood
<1>6. ASSUME c[top].who = "eval" PROVE n > 0 /\ TurnsGood(d, n - 1)
  <2>1. top = 2 * n
    BY <1>6 DEF TurnsGood
  <2>2. n > 0 /\ Len(d) = 2 * (n - 1) + 1
    BY <1>1, <2>1
  <2>3. c[top - 1].who = "python"
    BY <1>2, <1>5, <1>6
  <2> QED
    BY <1>3, <1>4, <2>2, <2>3 DEF TurnsGood
<1>7. ASSUME c[top].who = "python" PROVE TurnsGood(d, n)
  <2>1. top = 2 * n + 1
    BY <1>7 DEF TurnsGood
  <2>2. Len(d) = 2 * n
    BY <1>1, <2>1
  <2> QED
    BY <1>3, <1>4, <1>5, <1>7, <2>2 DEF TurnsGood
<1> QED
  BY <1>6, <1>7 DEF d

(***************************************************************************)
(* The steps.                                                              *)
(***************************************************************************)
LazyInv ==
  /\ DictsTyped /\ LazyGood(wrappers) /\ Len(wrappers) <= MaxWrappers
  /\ MarksGood(marks, wrappers) /\ TurnsGood(pyCalls, Len(marks))

LEMMA LazyStart == PyInit => LazyInv
<1> SUFFICES ASSUME PyInit PROVE LazyInv
  OBVIOUS
<1>1. /\ dicts \in [Dicts -> [Keys -> PyValues \cup {NotThere}]] /\ wrappers = <<>> /\ marks = <<>>
      /\ pyCalls = <<Python(Main, "host")>>
  BY DEF PyInit, LazyInit, StackInit
<1>2. Len(wrappers) = 0 /\ wrappers \in Seq(Wrappers) /\ Len(marks) = 0 /\ marks \in Seq(0 .. MaxWrappers)
  BY <1>1
<1>3. Len(pyCalls) = 1 /\ pyCalls[1].who = "python"
  BY <1>1 DEF Python
<1>4. LazyGood(wrappers) /\ MarksGood(marks, wrappers)
  BY <1>2 DEF LazyGood, MarksGood
<1>5. TurnsGood(pyCalls, Len(marks))
  BY <1>2, <1>3 DEF TurnsGood
<1> QED
  BY <1>1, <1>2, <1>4, <1>5, LazyAssumption DEF LazyInv, DictsTyped

LEMMA LazyTypes ==
  ASSUME LazyInv, PyInv
  PROVE  /\ pyCalls \in Seq(PyCall) /\ pyCalls # <<>> /\ Len(pyCalls) \in Nat \ {0}
         /\ Inner = pyCalls[Len(pyCalls)] /\ Inner \in PyCall
         /\ wrappers \in Seq(Wrappers) /\ Len(wrappers) \in Nat
         /\ marks \in Seq(0 .. MaxWrappers) /\ Len(marks) \in Nat
         /\ (EvalRuns => marks # <<>> /\ Last(marks) \in Nat /\ Last(marks) <= Len(wrappers))
<1>1. pyCalls \in Seq(PyCall) /\ pyCalls # <<>>
  BY DEF PyInv, CallsRight
<1>2. /\ Len(pyCalls) \in Nat \ {0} /\ Inner = pyCalls[Len(pyCalls)] /\ Inner \in PyCall
      /\ Len(pyCalls) \in 1 .. Len(pyCalls)
  BY <1>1 DEF Inner, Last
<1>3. /\ wrappers \in Seq(Wrappers) /\ Len(wrappers) \in Nat
      /\ marks \in Seq(0 .. MaxWrappers) /\ Len(marks) \in Nat
  BY DEF LazyInv, LazyGood, MarksGood
<1>4. ASSUME EvalRuns PROVE marks # <<>> /\ Last(marks) \in Nat /\ Last(marks) <= Len(wrappers)
  <2>1. Len(pyCalls) = 2 * Len(marks)
    BY <1>2, <1>4 DEF EvalRuns, LazyInv, TurnsGood
  <2>2. Len(marks) > 0
    BY <1>2, <1>3, <2>1
  <2>3. Len(marks) \in 1 .. Len(marks) /\ Last(marks) = marks[Len(marks)] /\ marks # <<>>
    BY <1>3, <2>2 DEF Last
  <2>4. Last(marks) \in 0 .. MaxWrappers
    BY <1>3, <2>3, LazyAssumption
  <2>5. Last(marks) <= Len(wrappers)
    BY <2>3 DEF LazyInv, MarksGood
  <2> QED
    BY <2>3, <2>4, <2>5, LazyAssumption
<1> QED
  BY <1>1, <1>2, <1>3, <1>4

LEMMA EvalBeginsKeeps ==
  ASSUME LazyInv, PyInv, NEW d \in Dicts, EvalBegins(d)
  PROVE  LazyInv'
<1> DEFINE f == [who |-> "eval", segment |-> Inner.segment, entry |-> EntryHere,
                 near |-> TRUE, how |-> "direct"]
           x == Wrapper(d, 0)
<1>1. /\ Inner.who = "python" /\ pyCalls' = Append(pyCalls, f)
      /\ Len(wrappers) < MaxWrappers /\ wrappers' = Append(wrappers, x) /\ dicts' = dicts
      /\ marks' = Append(marks, Len(wrappers))
  BY DEF EvalBegins, StartEval, PythonRuns, WrapInput
<1>2. /\ pyCalls \in Seq(PyCall) /\ pyCalls # <<>> /\ Inner = pyCalls[Len(pyCalls)] /\ Inner \in PyCall
      /\ wrappers \in Seq(Wrappers) /\ Len(wrappers) \in Nat
      /\ marks \in Seq(0 .. MaxWrappers) /\ Len(marks) \in Nat
  BY LazyTypes
<1>3. f \in PyCall /\ f.who = "eval"
  BY <1>2 DEF PyCall, EntryHere
<1>4. x \in Wrappers /\ Fresh(x)
  BY WrapperIs
<1> HIDE DEF f, x
<1>5. TurnsGood(Append(pyCalls, f), Len(marks) + 1)
  <2>1. TurnsGood(pyCalls, Len(marks))
    BY DEF LazyInv
  <2> QED
    BY <1>1, <1>2, <1>3, <2>1, TurnTaken
<1>6. Len(marks') = Len(marks) + 1
  BY <1>1, <1>2
<1>7. LazyGood(wrappers') /\ MarksGood(marks', wrappers')
  BY <1>1, <1>4, MarkMade DEF LazyInv
<1>8. Len(wrappers') <= MaxWrappers
  BY <1>1, <1>2, LazyAssumption
<1>9. DictsTyped'
  BY <1>1 DEF LazyInv, DictsTyped
<1>10. TurnsGood(pyCalls, Len(marks))'
  BY <1>1, <1>5, <1>6
<1> QED
  BY <1>7, <1>8, <1>9, <1>10 DEF LazyInv

LEMMA ReadsKeep ==
  ASSUME LazyInv, PyInv, Reads
  PROVE  /\ LazyInv' /\ Len(wrappers') >= Len(wrappers)
         /\ \E w \in 1 .. Len(wrappers) :
              Extended(w)
<1>1. PICK w \in Last(marks) + 1 .. Len(wrappers) : ToObject(w) \/ \E f \in Keys : GetField(w, f)
  BY DEF Reads
<1>2. EvalRuns /\ pyCalls' = pyCalls /\ marks' = marks
  BY DEF Reads, stackVars
<1>3. /\ Len(wrappers) \in Nat /\ Len(marks) \in Nat
      /\ marks # <<>> /\ Last(marks) \in Nat /\ Last(marks) <= Len(wrappers)
  BY <1>2, LazyTypes
<1>4. w \in 1 .. Len(wrappers) /\ \A i \in 1 .. Last(marks) : i # w /\ i \in 1 .. Len(wrappers)
  BY <1>3
<1>5. Extended(w)
  BY <1>1, <1>4, FieldIsRead, WholeIsMade DEF LazyInv
<1>6. dicts' = dicts /\ Len(wrappers') <= MaxWrappers
  BY <1>1 DEF GetField, ToObject
<1>7. MarksGood(marks, wrappers')
  <2>1. /\ Len(wrappers') \in Nat /\ Len(wrappers') >= Len(wrappers)
        /\ \A i \in 1 .. Last(marks) : wrappers'[i] = wrappers[i]
    BY <1>4, <1>5 DEF Extended
  <2>2. MarksGood(marks, wrappers)
    BY DEF LazyInv
  <2> QED
    BY <1>3, <2>1, <2>2, MarksStay
<1>8. LazyInv'
  <2>1. DictsTyped' /\ TurnsGood(pyCalls, Len(marks))'
    BY <1>2, <1>6 DEF LazyInv, DictsTyped
  <2>2. LazyGood(wrappers') /\ MarksGood(marks, wrappers)'
    BY <1>2, <1>5, <1>7 DEF Extended
  <2> QED
    BY <1>6, <2>1, <2>2 DEF LazyInv
<1> QED
  BY <1>4, <1>5, <1>8 DEF Extended

LEMMA EvalEndsKeeps ==
  ASSUME LazyInv, PyInv, EvalEnds
  PROVE  /\ LazyInv' /\ dicts' = dicts /\ Len(wrappers') \in Nat /\ Len(wrappers') <= Len(wrappers)
         /\ \A i \in 1 .. Len(wrappers') : wrappers'[i] = wrappers[i]
<1>1. /\ EvalRuns /\ pyCalls' = Front(pyCalls) /\ marks' = Front(marks)
      /\ wrappers' = SubSeq(wrappers, 1, Last(marks)) /\ dicts' = dicts
  BY DEF EvalEnds, EvalReturns, DropWrappers
<1>2. /\ pyCalls \in Seq(PyCall) /\ Len(pyCalls) \in Nat \ {0} /\ Inner = pyCalls[Len(pyCalls)]
      /\ Len(marks) \in Nat /\ marks # <<>> /\ marks \in Seq(0 .. MaxWrappers) /\ Len(wrappers) \in Nat
  BY <1>1, LazyTypes
<1>3. /\ LazyGood(wrappers') /\ Len(wrappers') <= Len(wrappers) /\ MarksGood(marks', wrappers')
      /\ Len(wrappers') \in Nat /\ \A i \in 1 .. Len(wrappers') : wrappers'[i] = wrappers[i]
  BY <1>1, <1>2, MarkTaken DEF LazyInv
<1>4. TurnsGood(Front(pyCalls), Len(marks) - 1)
  <2>1. TurnsGood(pyCalls, Len(marks)) /\ Inner.who = "eval"
    BY <1>1 DEF LazyInv, EvalRuns
  <2>2. Len(pyCalls) = 2 * Len(marks)
    BY <1>2, <2>1 DEF TurnsGood
  <2>3. Len(pyCalls) > 1
    BY <1>2, <2>2
  <2> QED
    BY <1>2, <2>1, <2>3, TurnOver
<1>5. Len(marks') = Len(marks) - 1
  BY <1>1, <1>2, FrontIs
<1>6. Len(wrappers') <= MaxWrappers
  BY <1>2, <1>3, LazyAssumption DEF LazyInv
<1>7. DictsTyped' /\ TurnsGood(pyCalls, Len(marks))'
  BY <1>1, <1>4, <1>5 DEF LazyInv, DictsTyped
<1> QED
  BY <1>1, <1>3, <1>6, <1>7 DEF LazyInv

LEMMA PythonChangesKeeps ==
  ASSUME LazyInv, NEW d \in Dicts, NEW f \in Keys, NEW v \in PyValues \cup {NotThere}, PythonChanges(d, f, v)
  PROVE  LazyInv'
<1>1. /\ dicts' = [dicts EXCEPT ![d][f] = v] /\ wrappers' = wrappers /\ marks' = marks
      /\ pyCalls' = pyCalls
  BY DEF PythonChanges, PySet, stackVars
<1>2. DictsTyped'
  BY <1>1 DEF LazyInv, DictsTyped
<1>3. LazyGood(wrappers)' /\ MarksGood(marks, wrappers)' /\ TurnsGood(pyCalls, Len(marks))'
  BY <1>1 DEF LazyInv
<1> QED
  BY <1>1, <1>2, <1>3 DEF LazyInv

\* The steps of the stack alone.
LEMMA CallsKeep ==
  ASSUME LazyInv, PyInv,
         HostCalled \/ HostEnds \/ \E near \in BOOLEAN, segment \in 0 .. MaxPyCalls : Deeper(near, segment)
  PROVE  LazyInv'
<1>1. dicts' = dicts /\ wrappers' = wrappers /\ marks' = marks
  BY DEF HostCalled, HostEnds, Deeper, lazyVars
<1>2. /\ pyCalls \in Seq(PyCall) /\ pyCalls # <<>> /\ Len(pyCalls) \in Nat \ {0}
      /\ Inner = pyCalls[Len(pyCalls)] /\ Inner \in PyCall /\ Len(marks) \in Nat
      /\ TurnsGood(pyCalls, Len(marks)) /\ CallsRight(pyCalls, api)
  BY LazyTypes DEF LazyInv, PyInv
<1>3. FreshSegment \in Nat /\ Inner.segment \in Nat
  BY <1>2, FreshIs DEF PyCall
<1>4. ASSUME HostCalled PROVE TurnsGood(pyCalls', Len(marks))
  <2>1. PICK segment \in Nat, how \in {"host", "direct", "grown", "unprotected", "protected"} :
          pyCalls' = Append(pyCalls, Python(segment, how))
    BY <1>3, <1>4 DEF HostCalled, CallDirect, CallProtected, CallGrown
  <2>2. Inner.who = "eval"
    BY <1>4 DEF HostCalled, CallDirect, CallProtected, CallGrown, EvalRuns
  <2> DEFINE f == Python(segment, how)
  <2>3. f \in PyCall /\ f.who = "python"
    BY PythonIs
  <2> HIDE DEF f
  <2>4. TurnsGood(Append(pyCalls, f), IF f.who = "eval" THEN Len(marks) + 1 ELSE Len(marks))
    BY <1>2, <2>2, <2>3, TurnTaken
  <2> QED
    BY <2>1, <2>3, <2>4 DEF f
<1>5. ASSUME HostEnds PROVE TurnsGood(pyCalls', Len(marks))
  <2>1. Inner.who = "python" /\ Len(pyCalls) > 1 /\ pyCalls' = Front(pyCalls)
    BY <1>5 DEF HostEnds, HostReturns, PythonRuns
  <2> QED
    BY <1>2, <2>1, TurnOver
<1>6. ASSUME NEW near \in BOOLEAN, NEW segment \in 0 .. MaxPyCalls, Deeper(near, segment)
      PROVE  TurnsGood(pyCalls', Len(marks))
  <2> DEFINE f == [Inner EXCEPT !.near = near, !.segment = segment]
             d == ReplaceAt(pyCalls, Len(pyCalls), f)
  <2>1. pyCalls' = d
    BY <1>6 DEF Deeper, Goes
  <2>2. f.who = Inner.who
    BY <1>2 DEF PyCall
  <2> HIDE DEF f
  <2>3. /\ Len(d) = Len(pyCalls) /\ d[Len(pyCalls)] = f
        /\ \A i \in 1 .. Len(pyCalls) : i # Len(pyCalls) => d[i] = pyCalls[i]
    BY <1>2 DEF ReplaceAt
  <2> HIDE DEF d
  <2>4. \A i \in 1 .. Len(pyCalls) : d[i].who = pyCalls[i].who
    BY <1>2, <2>2, <2>3
  <2>5. Len(pyCalls) \in 1 .. Len(pyCalls) /\ \A i \in 2 .. Len(pyCalls) : i \in 1 .. Len(pyCalls) /\ i - 1 \in 1 .. Len(pyCalls)
    BY <1>2
  <2>6. TurnsGood(d, Len(marks))
    BY <1>2, <2>3, <2>4, <2>5 DEF TurnsGood
  <2> QED
    BY <2>1, <2>6
<1>7. TurnsGood(pyCalls', Len(marks))
  BY <1>4, <1>5, <1>6
<1>8. LazyGood(wrappers)' /\ MarksGood(marks, wrappers)' /\ TurnsGood(pyCalls, Len(marks))' /\ DictsTyped'
  BY <1>1, <1>7 DEF LazyInv, DictsTyped
<1> QED
  BY <1>1, <1>8 DEF LazyInv

LEMMA LazyAlways == PySpec => [](LazyInv /\ PyInv)
<1>1. PyInit => LazyInv
  BY LazyStart
<1>2. LazyInv /\ PyInv /\ [PyNext]_pyVars => LazyInv'
  <2> SUFFICES ASSUME LazyInv, PyInv, [PyNext]_pyVars PROVE LazyInv'
    OBVIOUS
  <2>1. CASE \E d \in Dicts : EvalBegins(d)
    BY <2>1, EvalBeginsKeeps
  <2>2. CASE Reads
    BY <2>2, ReadsKeep
  <2>3. CASE EvalEnds
    BY <2>3, EvalEndsKeeps
  <2>4. CASE \E d \in Dicts, f \in Keys, v \in PyValues \cup {NotThere} : PythonChanges(d, f, v)
    BY <2>4, PythonChangesKeeps
  <2>5. CASE HostCalled \/ HostEnds \/ \E near \in BOOLEAN, segment \in 0 .. MaxPyCalls : Deeper(near, segment)
    BY <2>5, CallsKeep
  <2>6. CASE UNCHANGED pyVars
    <3>1. dicts' = dicts /\ wrappers' = wrappers /\ marks' = marks /\ pyCalls' = pyCalls
      BY <2>6 DEF pyVars, lazyVars, stackVars
    <3> QED
      BY <3>1 DEF LazyInv, DictsTyped
  <2> QED
    BY <2>1, <2>2, <2>3, <2>4, <2>5, <2>6 DEF PyNext
<1> QED
  BY <1>1, <1>2, PyAlways, PTL DEF PySpec

\* What Python's dicts hold, the wrappers and the marks that their drops go by keep
\* their types; what a wrapper has kept refers to wrappers that are alive, and the
\* drop of a chain of them finds each one marked, and one further down than the one
\* that keeps it (get_field, to_object, Drop for LazyPyDict).
THEOREM WrappersTyped == PySpec => []PyTypeOK
<1>1. LazyInv /\ PyInv => LazyTypeOK /\ marks \in Seq(0 .. MaxWrappers)
  <2> SUFFICES ASSUME LazyInv, PyInv PROVE LazyTypeOK /\ marks \in Seq(0 .. MaxWrappers)
    OBVIOUS
  <2>1. /\ wrappers \in Seq(Wrappers) /\ DOMAIN wrappers = 1 .. Len(wrappers)
        /\ marks \in Seq(0 .. MaxWrappers)
    BY LazyTypes
  <2>2. ASSUME NEW w \in 1 .. Len(wrappers)
        PROVE  /\ Marked(wrappers[w]) /\ Keeps(wrappers[w], Len(wrappers)) /\ OneDown(wrappers, w)
               /\ wrappers[w] \in Wrappers
    BY <2>1 DEF LazyInv, LazyGood
  <2>3. ChainsMarked
    <3>1. ASSUME NEW w \in 1 .. Len(wrappers),
                 Whole(w) \/ (\E f \in Keys : Cached(w, f) /\ Container(wrappers[w].cache[f]))
          PROVE  wrappers[w].holds
      BY <2>2, <3>1 DEF Marked, Whole, Cached
    <3>2. ASSUME NEW w \in 1 .. Len(wrappers), NEW f \in Keys, wrappers[w].cache[f].k = "dict"
          PROVE  wrappers[wrappers[w].cache[f].w].depth = wrappers[w].depth + 1
      BY <2>2, <3>2 DEF OneDown
    <3> QED
      BY <2>1, <3>1, <3>2 DEF ChainsMarked
  <2>4. ASSUME NEW w \in 1 .. Len(wrappers)
        PROVE  LET kept == {wrappers[w].cache[f] : f \in Keys}
                           \cup (IF Whole(w) THEN {wrappers[w].whole[f] : f \in Keys} ELSE {})
               IN UNION {Refers(v) : v \in kept} \subseteq 1 .. Len(wrappers)
    BY <2>2 DEF Keeps
  <2> QED
    BY <2>1, <2>3, <2>4 DEF LazyTypeOK, LazyInv, DictsTyped
<1>2. StackTypeOK /\ LazyTypeOK /\ marks \in Seq(0 .. MaxWrappers) => PyTypeOK
  BY DEF PyTypeOK
<1> QED
  BY <1>1, <1>2, LazyAlways, StacksTyped, PTL

\* A field that is said to be there can be read or fails to convert, and one that was
\* settled reads the same from then on, however Python changes the dicts meanwhile and
\* however evaluations nest, but for a key that was gone when the dict was made an
\* object of (contains_field, get_field, to_object).
THEOREM WrappersReadAlike == PySpec => ReadsAgree
<1>1. LazyInv /\ PyInv => PresenceAgrees
  <2> SUFFICES ASSUME LazyInv, PyInv, NEW w \in DOMAIN wrappers, NEW f \in Keys
               PROVE  LET v == IF AtHand(w, f) # NotThere THEN AtHand(w, f)
                               ELSE IF Content(w)[f] = NotThere THEN Absent ELSE Content(w)[f]
                      IN ContainsField(w, f) <=> v # Absent
    BY DEF PresenceAgrees
  <2>1. w \in 1 .. Len(wrappers)
    BY LazyTypes
  <2>2. /\ Content(w) \in [Keys -> PyValues \cup {NotThere}] /\ wrappers[w] \in Wrappers
        /\ Marked(wrappers[w])
    BY <2>1, ContentTyped DEF LazyInv
  <2>3. CASE Whole(w)
    BY <2>2, <2>3 DEF AtHand, Whole, ContainsField, Marked
  <2>4. CASE ~ Whole(w) /\ Cached(w, f)
    <3>1. wrappers[w].cache[f] \in Values \cup {NotThere}
      BY <2>2, CacheTyped
    <3>2. AtHand(w, f) = wrappers[w].cache[f] /\ AtHand(w, f) # NotThere /\ AtHand(w, f) # Absent
      BY <2>4, <3>1, ItemsTold DEF AtHand, Cached
    <3> QED
      BY <2>4, <3>2 DEF ContainsField
  <2>5. CASE ~ Whole(w) /\ ~ Cached(w, f)
    <3>1. AtHand(w, f) = NotThere
      BY <2>5 DEF AtHand, Cached
    <3>2. Content(w)[f] # NotThere => Content(w)[f] # Absent
      BY <2>2, ItemsTold
    <3> QED
      BY <2>5, <3>1, <3>2 DEF ContainsField
  <2> QED
    BY <2>3, <2>4, <2>5
<1> DEFINE Settles ==
      \A w \in DOMAIN wrappers \cap DOMAIN wrappers' : \A f \in Keys :
        Settled(w, f) =>
          \/ AtHand(w, f)' = AtHand(w, f)
          \/ ~ Whole(w) /\ Whole(w)' /\ Content(w)[f] = NotThere /\ AtHand(w, f)' = Absent
<1>2. LazyInv /\ PyInv /\ [PyNext]_pyVars => [Settles]_lazyVars
  <2> SUFFICES ASSUME LazyInv, PyInv, PyNext PROVE [Settles]_lazyVars
    BY DEF pyVars, lazyVars
  <2>1. /\ wrappers \in Seq(Wrappers) /\ DOMAIN wrappers = 1 .. Len(wrappers) /\ Len(wrappers) \in Nat
    BY LazyTypes
  \* Steps after which the wrappers there still are have not changed.
  <2>2. ASSUME \A w \in DOMAIN wrappers \cap DOMAIN wrappers' : wrappers'[w] = wrappers[w]
        PROVE  Settles
    BY <2>2 DEF AtHand, Whole
  <2>3. CASE \E d \in Dicts : EvalBegins(d)
    <3>1. PICK d \in Dicts : wrappers' = Append(wrappers, Wrapper(d, 0))
      BY <2>3 DEF EvalBegins, WrapInput
    <3>2. \A w \in DOMAIN wrappers : wrappers'[w] = wrappers[w]
      BY <2>1, <3>1
    <3> QED
      BY <2>2, <3>2
  <2>4. CASE Reads
    <3>1. PICK w \in 1 .. Len(wrappers) : Extended(w)
      BY <2>4, ReadsKeep
    <3>2. ASSUME NEW i \in DOMAIN wrappers \cap DOMAIN wrappers', NEW f \in Keys, Settled(i, f)
          PROVE  \/ AtHand(i, f)' = AtHand(i, f)
                 \/ ~ Whole(i) /\ Whole(i)' /\ Content(i)[f] = NotThere /\ AtHand(i, f)' = Absent
      <4>1. CASE i = w
        BY <3>1, <3>2, <4>1 DEF Extended, SettledKept
      <4>2. CASE i # w
        <5>1. wrappers'[i] = wrappers[i]
          BY <2>1, <3>1, <4>2 DEF Extended
        <5> QED
          BY <5>1 DEF AtHand, Whole
      <4> QED
        BY <4>1, <4>2
    <3> QED
      BY <3>2
  <2>5. CASE EvalEnds
    <3>1. /\ wrappers' \in Seq(Wrappers) /\ \A i \in 1 .. Len(wrappers') : wrappers'[i] = wrappers[i]
      BY <2>5, EvalEndsKeeps DEF LazyInv, LazyGood
    <3> QED
      BY <2>2, <3>1
  <2>6. CASE \/ HostCalled \/ HostEnds
             \/ \E near \in BOOLEAN, segment \in 0 .. MaxPyCalls : Deeper(near, segment)
             \/ \E d \in Dicts, f \in Keys, v \in PyValues \cup {NotThere} : PythonChanges(d, f, v)
    <3>1. wrappers' = wrappers
      BY <2>6 DEF HostCalled, HostEnds, Deeper, PythonChanges, PySet, lazyVars
    <3> QED
      BY <2>2, <3>1
  <2> HIDE DEF Settles
  <2> QED
    BY <2>3, <2>4, <2>5, <2>6 DEF PyNext
<1> QED
  BY <1>1, <1>2, LazyAlways, PTL DEF ReadsAgree, ReadsSettle, PySpec

-----------------------------------------------------------------------------
(***************************************************************************)
(* The library as its hosts see it.                                        *)
(***************************************************************************)
\* The parts beside each other behave as each does alone: what is proved of each
\* holds of the whole.
LEMMA PartsAsAlone == EmbeddingSpec => PySpec /\ DropSpec /\ NamesSpec /\ HandleSpec
<1>1. EmbeddingInit => PyInit /\ DropInit /\ NamesInit /\ HandleInit
  BY DEF EmbeddingInit, PythonRests, DropsRest, NamesRest, MCPyInit
<1>2. [EmbeddingNext]_<<part, pyVars, dropVars, namesVars, handleVars>>
        => [PyNext]_pyVars /\ [DropNext]_dropVars /\ [NamesNext]_namesVars /\ [HandleNext]_handleVars
  BY DEF EmbeddingNext, MCPyNext
<1> QED
  BY <1>1, <1>2, PTL DEF EmbeddingSpec, PySpec, DropSpec, NamesSpec, HandleSpec

\* Every part of what the hosts see keeps its type: wrappers that refer to wrappers
\* alive and are marked for their drop, payloads counted, host functions that no
\* compiled code calls outright, handles and the error slot.
THEOREM EmbeddingTyped == EmbeddingSpec => []EmbeddingTypeOK
BY PartsAsAlone, WrappersTyped, DropsTyped, NamesTyped, HandlesTyped, PTL DEF EmbeddingTypeOK
=============================================================================
