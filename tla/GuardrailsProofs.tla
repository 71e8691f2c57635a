--------------------------- MODULE GuardrailsProofs ---------------------------
(***************************************************************************)
(* Theorems about Guardrails, for all options, kinds of call and bounds:   *)
(* the depth counter is exact and within its limit, and every code is      *)
(* raised for its reason.                                                  *)
(***************************************************************************)
EXTENDS Guardrails, FiniteSetTheorems, SequenceTheorems, TLAPS

USE BoundsAssumption, OptionsAssumption

\* The levels under way when the calls are `c`.
LevelsIn(c) == {i \in 1 .. Len(c) : c[i].kind = "level"}

\* Calls laid one upon the other are finitely many, and so are the levels in them.
LEMMA LevelsFinite ==
  ASSUME NEW c \in Seq(Call)
  PROVE  IsFiniteSet(LevelsIn(c)) /\ Cardinality(LevelsIn(c)) \in Nat
<1>1. IsFiniteSet(1 .. Len(c))
  BY FS_Interval
<1>2. LevelsIn(c) \subseteq 1 .. Len(c)
  BY DEF LevelsIn
<1> QED
  BY <1>1, <1>2, FS_Subset, FS_CardinalityType

\* A call more is a level more if it is one.
LEMMA LevelsAppend ==
  ASSUME NEW c \in Seq(Call), NEW call \in Call
  PROVE  Cardinality(LevelsIn(Append(c, call)))
           = IF call.kind = "level" THEN Cardinality(LevelsIn(c)) + 1 ELSE Cardinality(LevelsIn(c))
<1>1. Len(c) + 1 \notin LevelsIn(c)
  BY DEF LevelsIn
<1>2. LevelsIn(Append(c, call))
        = IF call.kind = "level" THEN LevelsIn(c) \cup {Len(c) + 1} ELSE LevelsIn(c)
  BY DEF LevelsIn
<1> QED
  BY <1>1, <1>2, LevelsFinite, FS_AddElement

\* The innermost call over is a level less if it was one.
LEMMA LevelsFront ==
  ASSUME NEW c \in Seq(Call), c # <<>>
  PROVE  /\ Front(c) \in Seq(Call) /\ Len(Front(c)) = Len(c) - 1
         /\ Cardinality(LevelsIn(Front(c)))
              = IF Last(c).kind = "level" THEN Cardinality(LevelsIn(c)) - 1
                                          ELSE Cardinality(LevelsIn(c))
<1>1. Len(c) \in Nat \ {0} /\ \A i \in 1 .. Len(c) : c[i] \in Call
  OBVIOUS
<1>2. /\ Front(c) \in Seq(Call) /\ Len(Front(c)) = Len(c) - 1
      /\ \A i \in 1 .. Len(c) - 1 : Front(c)[i] = c[i]
  <2> DEFINE n == Len(c) - 1
  <2>1. /\ SubSeq(c, 1, n) \in Seq(Call)
        /\ Len(SubSeq(c, 1, n)) = IF 1 <= n THEN n - 1 + 1 ELSE 0
        /\ \A i \in 1 .. n - 1 + 1 : SubSeq(c, 1, n)[i] = c[1 + i - 1]
    BY <1>1, SubSeqProperties
  <2>2. Front(c) = SubSeq(c, 1, n)
    BY DEF Front
  <2>3. \A i \in 1 .. n : i \in 1 .. n - 1 + 1 /\ 1 + i - 1 = i
    BY <1>1
  <2>4. Len(SubSeq(c, 1, n)) = n
    <3>1. n \in Nat
      BY <1>1
    <3> HIDE DEF n
    <3> QED
      BY <2>1, <3>1
  <2> QED
    BY <2>1, <2>2, <2>3, <2>4
<1>3. LevelsIn(Front(c)) = LevelsIn(c) \ {Len(c)}
  BY <1>1, <1>2 DEF LevelsIn
<1>4. Len(c) \in LevelsIn(c) <=> Last(c).kind = "level"
  BY <1>1 DEF LevelsIn, Last
<1> QED
  BY <1>2, <1>3, <1>4, LevelsFinite, FS_RemoveElement

\* Another call in the innermost one's place, of its kind, changes no level.
LEMMA LevelsWithTop ==
  ASSUME NEW c \in Seq(Call), c # <<>>, NEW call \in Call, call.kind = Last(c).kind
  PROVE  LET d == [c EXCEPT ![Len(c)] = call]
         IN  d \in Seq(Call) /\ Len(d) = Len(c) /\ LevelsIn(d) = LevelsIn(c)
<1> DEFINE d == [c EXCEPT ![Len(c)] = call]
<1>1. Len(c) \in Nat \ {0} /\ \A i \in 1 .. Len(c) : c[i] \in Call
  OBVIOUS
<1>2. /\ d \in Seq(Call) /\ Len(d) = Len(c)
      /\ \A i \in 1 .. Len(c) : d[i] = IF i = Len(c) THEN call ELSE c[i]
  BY <1>1
<1> QED
  BY <1>1, <1>2 DEF LevelsIn, Last

(***************************************************************************)
(* The inductive invariant.                                                *)
(***************************************************************************)
IInv == TypeOK /\ DepthExact /\ DepthWithinLimit /\ TimedFromBegin

LEMMA LimitType ==
  ASSUME options \in OptionSets
  PROVE  EffectiveLimit \in Nat /\ EffectiveLimit <= MaxEvalDepth
<1>1. options.stack \in Nat \cup {None}
  OBVIOUS
<1> QED
  BY <1>1 DEF EffectiveLimit

LEMMA DepthIsLevels ==
  ASSUME calls \in Seq(Call)
  PROVE  DepthExact <=> depth = Cardinality(LevelsIn(calls))
<1>1. DOMAIN calls = 1 .. Len(calls)
  OBVIOUS
<1> QED
  BY <1>1 DEF DepthExact, Levels, LevelsIn

LEMMA TopType ==
  ASSUME calls \in Seq(Call), calls # <<>>
  PROVE  Top \in Call /\ Len(calls) \in Nat \ {0}
  BY DEF Top, Last

\* The codes the checks give.
LEMMA ErrorTypes ==
  ASSUME NEW kind
  PROVE  /\ LoopError \in {None, "U1003", "D1012"}
         /\ CheckpointError \in {None} \cup Codes
         /\ Refusal(kind) \in {None} \cup Codes
         /\ PassRefusal(kind) \in {None, "U1003", "D1012"}
         /\ ElementRefusal(kind) \in {None, "U1003", "D1012"}
<1>1. LoopError \in {None, "U1003", "D1012"}
  BY DEF LoopError
<1>2. CheckpointError \in {None} \cup Codes
  BY <1>1 DEF CheckpointError, Codes
<1> QED
  BY <1>1, <1>2 DEF Refusal, PassRefusal, ElementRefusal, Codes

\* What a step within an evaluation has to keep for the invariant to hold again.
LEMMA Keeps ==
  ASSUME IInv, UNCHANGED <<options, startTime, began>>,
         cancelled' \in BOOLEAN, clock' \in 0 .. MaxClock,
         calls' \in Seq(Call), Len(calls') <= MaxCalls, Idle => Idle',
         depth' = Cardinality(LevelsIn(calls')), depth' <= EffectiveLimit,
         raised' \in {None} \cup Codes, result' \in {"value"} \cup Codes
  PROVE  IInv'
<1>1. EffectiveLimit' = EffectiveLimit /\ EffectiveLimit \in Nat /\ EffectiveLimit <= MaxEvalDepth
  BY LimitType DEF IInv, TypeOK, EffectiveLimit
<1>2. depth' \in Nat
  BY LevelsFinite
<1>3. DOMAIN calls' = 1 .. Len(calls')
  OBVIOUS
<1>4. DepthExact'
  BY <1>3 DEF DepthExact, Levels, LevelsIn
<1>5. TypeOK' /\ DepthWithinLimit'
  BY <1>1, <1>2 DEF IInv, TypeOK, DepthWithinLimit
<1>6. TimedFromBegin'
  BY DEF IInv, TimedFromBegin, Idle
<1> QED
  BY <1>4, <1>5, <1>6 DEF IInv

\* An error raised where it is found leaves everything else as it was.
LEMMA RaiseKeeps ==
  ASSUME IInv, NEW kind, NEW error, error \in Codes, Raise(error, kind)
  PROVE  IInv'
<1>1. depth' = depth /\ calls' = calls
  BY DEF Raise, DepthRefused
<1>2. depth' = Cardinality(LevelsIn(calls')) /\ depth' <= EffectiveLimit
  BY <1>1, DepthIsLevels DEF IInv, TypeOK, DepthWithinLimit
<1> QED
  BY <1>1, <1>2, Keeps DEF IInv, TypeOK, Raise, given, outcome, Idle

\* The innermost call with something done is still a call of its kind.
LEMMA OneDoneType ==
  ASSUME calls \in Seq(Call), calls # <<>>, Working
  PROVE  OneDone \in Call /\ OneDone.kind = Top.kind
<1>1. Top \in Call
  BY TopType
<1>2. CASE Top.busy
  BY <1>1, <1>2 DEF OneDone, Call
<1>3. CASE ~ Top.busy
  <2>1. Top.left \in 0 .. MaxLeft /\ Top.left > 0
    BY <1>1, <1>3 DEF Working, Call
  <2> QED
    BY <1>1, <1>3, <2>1 DEF OneDone, Call
<1> QED
  BY <1>1, <1>2, <1>3 DEF Call

LEMMA WithTopType ==
  ASSUME calls \in Seq(Call), calls # <<>>, NEW call \in Call, call.kind = Top.kind
  PROVE  /\ WithTop(call) \in Seq(Call) /\ Len(WithTop(call)) = Len(calls)
         /\ LevelsIn(WithTop(call)) = LevelsIn(calls) /\ WithTop(call) # <<>>
<1>1. Len(calls) \in Nat \ {0}
  BY TopType
<1> QED
  BY <1>1, LevelsWithTop DEF WithTop, Top

\* A step that changes only the innermost call, and not its kind.
LEMMA TopKeeps ==
  ASSUME IInv, calls # <<>>, NEW call \in Call, call.kind = Top.kind,
         calls' = WithTop(call), UNCHANGED <<given, outcome, depth, raised>>
  PROVE  IInv'
<1>1. calls \in Seq(Call)
  BY DEF IInv, TypeOK
<1>2. /\ calls' \in Seq(Call) /\ Len(calls') = Len(calls)
      /\ LevelsIn(calls') = LevelsIn(calls)
  BY <1>1, WithTopType
<1>3. depth' = Cardinality(LevelsIn(calls')) /\ depth' <= EffectiveLimit
  BY <1>1, <1>2, DepthIsLevels DEF IInv, DepthWithinLimit
<1> QED
  BY <1>2, <1>3, Keeps DEF IInv, TypeOK, given, outcome, Idle

LEMMA LeafKeeps ==
  ASSUME IInv, Leaf
  PROVE  IInv'
<1>1. calls \in Seq(Call) /\ calls # <<>>
  BY DEF IInv, TypeOK, Leaf, Working, Evaluating
<1> QED
  BY <1>1, OneDoneType, TopKeeps DEF Leaf

LEMMA NextElementKeeps ==
  ASSUME IInv, NextElement
  PROVE  IInv'
<1>1. calls \in Seq(Call) /\ calls # <<>>
  BY DEF IInv, TypeOK, NextElement, Evaluating
<1>2. CASE ElementRefusal(Top.kind) # None
  BY <1>2, ErrorTypes, RaiseKeeps DEF NextElement, Codes
<1>3. CASE ElementRefusal(Top.kind) = None
  <2> DEFINE call == InMiddle(Top.left - 1)
  <2>1. Top \in Call /\ Top.left > 0
    BY <1>1, TopType DEF NextElement
  <2>2. call \in Call /\ call.kind = Top.kind
    <3>1. Top.kind \in Kinds /\ Top.left - 1 \in 0 .. MaxLeft
      BY <2>1 DEF Call
    <3> QED
      BY <3>1 DEF Call, InMiddle
  <2> QED
    BY <1>1, <1>3, <2>2, TopKeeps DEF NextElement
<1> QED
  BY <1>2, <1>3

LEMMA NextPassKeeps ==
  ASSUME IInv, NextPass
  PROVE  IInv'
<1>1. calls \in Seq(Call) /\ calls # <<>>
  BY DEF IInv, TypeOK, NextPass, Evaluating
<1>2. CASE PassRefusal(Top.kind) # None
  BY <1>2, ErrorTypes, RaiseKeeps DEF NextPass, Codes
<1>3. CASE PassRefusal(Top.kind) = None
  <2>1. PICK more \in {0, 1} : calls' = WithTop(InMiddle(more))
    BY <1>3 DEF NextPass
  <2> DEFINE call == InMiddle(more)
  <2>2. call \in Call /\ call.kind = Top.kind
    <3>1. Top \in Call /\ more \in 0 .. MaxLeft
      BY <1>1, TopType
    <3> QED
      BY <3>1 DEF Call, InMiddle
  <2> QED
    BY <1>1, <1>3, <2>1, <2>2, TopKeeps DEF NextPass
<1> QED
  BY <1>2, <1>3

LEMMA BeginKeeps ==
  ASSUME IInv, NEW kind \in Kinds, Begin(kind)
  PROVE  IInv'
<1>1. calls \in Seq(Call) /\ calls # <<>> /\ Len(calls) < MaxCalls
  BY DEF IInv, TypeOK, Begin, Working, Evaluating
<1>2. CASE Refusal(kind) # None
  BY <1>2, ErrorTypes, RaiseKeeps DEF Begin, Codes
<1>3. CASE Refusal(kind) = None
  <2> DEFINE below == WithTop(OneDone)
  <2>1. PICK n \in 0 .. MaxLeft : calls' = Append(below, NewCall(kind, n))
    BY <1>3 DEF Begin
  <2>2. below \in Seq(Call) /\ Len(below) = Len(calls) /\ LevelsIn(below) = LevelsIn(calls)
    BY <1>1, OneDoneType, WithTopType DEF Begin
  <2>3. NewCall(kind, n) \in Call /\ NewCall(kind, n).kind = kind
    BY DEF NewCall, Call
  <2>4. calls' \in Seq(Call) /\ Len(calls') = Len(calls) + 1
    BY <2>1, <2>2, <2>3
  <2>5. depth' = Cardinality(LevelsIn(calls'))
    BY <1>1, <1>3, <2>1, <2>2, <2>3, LevelsAppend, DepthIsLevels DEF Begin, IInv
  <2>6. depth' <= EffectiveLimit
    <3>1. CASE kind = "level"
      <4>1. CheckpointError = None /\ depth' = depth + 1
        BY <1>3, <3>1 DEF Refusal, Begin
      <4>2. "D1011" # None /\ "U1001" # None
        BY DEF Codes
      <4>3. ~ (depth + 1 > EffectiveLimit)
        BY <4>1, <4>2 DEF CheckpointError
      <4> QED
        BY <4>1, <4>3, LimitType DEF IInv, TypeOK
    <3>2. CASE kind # "level"
      BY <1>3, <3>2 DEF Begin, IInv, DepthWithinLimit
    <3> QED
      BY <3>1, <3>2
  <2>7. UNCHANGED <<given, outcome, raised>>
    BY <1>3 DEF Begin
  <2> HIDE DEF below
  <2> QED
    BY <1>1, <2>4, <2>5, <2>6, <2>7, Keeps DEF IInv, TypeOK, given, outcome, Idle
<1> QED
  BY <1>2, <1>3

LEMMA LeaveKeeps ==
  ASSUME IInv, calls # <<>>, NEW error \in {None} \cup Codes, Leave(error)
  PROVE  IInv'
<1>1. calls \in Seq(Call) /\ Len(calls) \in Nat \ {0}
  BY TopType DEF IInv, TypeOK
<1>2. /\ calls' \in Seq(Call) /\ Len(calls') = Len(calls) - 1
      /\ Cardinality(LevelsIn(calls'))
           = IF Top.kind = "level" THEN Cardinality(LevelsIn(calls)) - 1
                                   ELSE Cardinality(LevelsIn(calls))
  BY <1>1, LevelsFront DEF Leave, Top
<1>3. depth' = Cardinality(LevelsIn(calls')) /\ depth' <= depth
  BY <1>1, <1>2, DepthIsLevels DEF Leave, DepthAfter, IInv, TypeOK
<1>4. depth' <= EffectiveLimit
  <2>1. depth \in Nat /\ depth' \in Nat
    BY <1>2, <1>3, LevelsFinite DEF IInv, TypeOK
  <2> QED
    BY <1>3, <2>1, LimitType DEF IInv, TypeOK, DepthWithinLimit
<1>5. result' \in {"value"} \cup Codes /\ raised' \in {None} \cup Codes
  BY DEF Leave, IInv, TypeOK
<1>6. UNCHANGED <<options, startTime, began, cancelled, clock>>
  BY DEF Leave, given
<1> QED
  BY <1>1, <1>2, <1>3, <1>4, <1>5, <1>6, Keeps DEF IInv, TypeOK, Idle

\* An evaluation begins with one call, at no level.
LEMMA BeginsKeeps ==
  ASSUME IInv, Idle, NEW kind \in Kinds, kind # "level", NEW n \in 0 .. MaxLeft,
         calls' = <<NewCall(kind, n)>>, startTime' = StartTime, Begins,
         UNCHANGED <<given, depth, raised, result>>
  PROVE  IInv'
<1>1. NewCall(kind, n) \in Call /\ NewCall(kind, n).kind # "level"
  BY DEF NewCall, Call
<1>2. /\ <<>> \in Seq(Call) /\ calls = <<>> /\ calls' = Append(<<>>, NewCall(kind, n))
      /\ calls' \in Seq(Call) /\ Len(calls') = 1
  BY <1>1 DEF Idle
<1>3. Cardinality(LevelsIn(calls')) = Cardinality(LevelsIn(calls))
  BY <1>1, <1>2, LevelsAppend
<1>4. depth' = Cardinality(LevelsIn(calls'))
  BY <1>2, <1>3, DepthIsLevels DEF IInv
<1>5. EffectiveLimit' = EffectiveLimit
  BY DEF EffectiveLimit, given
<1>6. DepthExact'
  <2>1. DOMAIN calls' = 1 .. Len(calls')
    BY <1>2
  <2> QED
    BY <1>4, <2>1 DEF DepthExact, Levels, LevelsIn
<1>7. TypeOK'
  BY <1>2 DEF IInv, TypeOK, given, Begins, StartTime
<1>8. DepthWithinLimit' /\ TimedFromBegin'
  BY <1>5 DEF IInv, DepthWithinLimit, TimedFromBegin, Begins, StartTime, given
<1> QED
  BY <1>6, <1>7, <1>8 DEF IInv

LEMMA EvaluateKeeps ==
  ASSUME IInv, Evaluate
  PROVE  IInv'
<1>1. 1 \in 0 .. MaxLeft
  OBVIOUS
<1> QED
  BY <1>1, BeginsKeeps, KindsAssumption DEF Evaluate

LEMMA RunVmKeeps ==
  ASSUME IInv, RunVm
  PROVE  IInv'
<1>1. CASE cancelled
  <2>1. calls' = calls /\ calls = <<>> /\ result' = "U1003"
    BY <1>1 DEF RunVm, Idle
  <2>2. UNCHANGED <<given, depth, raised, startTime>> /\ Begins
    BY <1>1 DEF RunVm
  <2> QED
    BY <2>1, <2>2 DEF IInv, TypeOK, DepthExact, Levels, DepthWithinLimit, EffectiveLimit,
                      TimedFromBegin, Idle, given, Begins, Codes
<1>2. CASE ~ cancelled
  <2>1. PICK n \in 1 .. MaxLeft : calls' = <<NewCall("vm", n)>>
    BY <1>2 DEF RunVm
  <2>2. n \in 0 .. MaxLeft /\ "vm" \in Kinds /\ Idle
    BY DEF RunVm
  <2> QED
    BY <1>2, <2>1, <2>2, BeginsKeeps DEF RunVm
<1> QED
  BY <1>1, <1>2

LEMMA FailKeeps ==
  ASSUME IInv, Fail
  PROVE  IInv'
BY DEF Fail, Evaluating, IInv, TypeOK, DepthExact, Levels, DepthWithinLimit, EffectiveLimit,
       TimedFromBegin, Idle, given, outcome, Codes

LEMMA CancelKeeps ==
  ASSUME IInv, Cancel
  PROVE  IInv'
BY DEF Cancel, IInv, TypeOK, DepthExact, Levels, DepthWithinLimit, EffectiveLimit,
       TimedFromBegin, Idle, outcome

LEMMA TickKeeps ==
  ASSUME IInv, Tick
  PROVE  IInv'
BY DEF Tick, IInv, TypeOK, DepthExact, Levels, DepthWithinLimit, EffectiveLimit,
       TimedFromBegin, Idle, outcome

LEMMA InitHolds == Init => IInv
<1> SUFFICES ASSUME Init PROVE IInv
  OBVIOUS
<1>1. calls = <<>> /\ calls \in Seq(Call) /\ Len(calls) = 0 /\ Levels = {}
  BY DEF Init, Levels
<1>2. DepthExact
  BY <1>1, FS_EmptySet DEF DepthExact, Init
<1>3. EffectiveLimit \in Nat
  BY LimitType DEF Init
<1>4. began \in [at : 0 .. MaxClock, cancelled : BOOLEAN]
  BY DEF Init
<1>5. TypeOK
  <2>1. options \in OptionSets /\ clock \in 0 .. MaxClock
    BY DEF Init
  <2>5. cancelled \in BOOLEAN
    BY Zenon DEF Init
  <2>2. startTime \in {None} \cup 0 .. MaxClock /\ depth \in 0 .. MaxEvalDepth
    BY DEF Init
  <2>3. Len(calls) <= MaxCalls /\ raised \in {None} \cup Codes
    BY <1>1 DEF Init
  <2>4. result \in {"value"} \cup Codes
    BY DEF Init
  <2> QED
    BY <1>1, <1>4, <2>1, <2>2, <2>3, <2>4, <2>5 DEF TypeOK
<1>6. DepthWithinLimit /\ TimedFromBegin
  BY <1>1, <1>3 DEF Init, DepthWithinLimit, TimedFromBegin, Idle
<1> QED
  BY <1>2, <1>5, <1>6 DEF IInv

LEMMA StepKeeps ==
  ASSUME IInv, [Next]_vars
  PROVE  IInv'
<1>1. CASE Step
  <2>1. CASE Return
    BY <2>1, LeaveKeeps DEF Return, Evaluating
  <2>2. CASE Unwind
    BY <2>2, LeaveKeeps DEF Unwind, IInv, TypeOK
  <2> QED
    BY <1>1, <2>1, <2>2, LeafKeeps, BeginKeeps, NextElementKeeps, NextPassKeeps, FailKeeps
       DEF Step
<1>2. CASE UNCHANGED vars
  BY <1>2 DEF vars, IInv, TypeOK, DepthExact, Levels, DepthWithinLimit, EffectiveLimit,
              TimedFromBegin, Idle
<1> QED
  BY <1>1, <1>2, EvaluateKeeps, RunVmKeeps, CancelKeeps, TickKeeps DEF Next

\* The inductive invariant holds in every behaviour.
THEOREM Invariance == Spec => []IInv
BY InitHolds, StepKeeps, PTL DEF Spec

(***************************************************************************)
(* The properties.                                                         *)
(***************************************************************************)
\* The type of every variable, and with it that recursion_depth never goes below 0
\* or beyond MAX_EVAL_DEPTH.
THEOREM TypesKept == Spec => []TypeOK
<1>1. IInv => TypeOK
  BY DEF IInv
<1> QED
  BY <1>1, Invariance, PTL

\* recursion_depth is the number of levels under way: every way out of
\* with_checkpoint, with a value or an error, takes its level back.
THEOREM LevelsCounted == Spec => []DepthExact
<1>1. IInv => DepthExact
  BY DEF IInv
<1> QED
  BY <1>1, Invariance, PTL

\* What the checks find is so: of this evaluation, not of one before it.
LEMMA Reasons ==
  ASSUME IInv, ~ Idle
  PROVE  /\ LoopError = "U1003" \/ CheckpointError = "U1003" => cancelled
         /\ LoopError = "D1012" \/ CheckpointError = "D1012"
              => clock - began.at > options.timeout
         /\ LoopError \notin {"D1011", "U1001"}
         /\ CheckpointError \in {"D1011", "U1001"} => Cardinality(Levels) = EffectiveLimit
<1>1. None \notin {"U1003", "D1012", "D1011", "U1001", "error"}
  BY DEF Codes
<1>2. Overdue(startTime) => clock - began.at > options.timeout
  BY DEF Overdue, IInv, TimedFromBegin
<1>3. /\ LoopError = "U1003" => cancelled
      /\ LoopError = "D1012" => clock - began.at > options.timeout
      /\ LoopError \in {None, "U1003", "D1012"}
  BY <1>1, <1>2 DEF LoopError
<1>4. depth + 1 > EffectiveLimit => Cardinality(Levels) = EffectiveLimit
  <2>1. depth \in Nat /\ EffectiveLimit \in Nat /\ depth <= EffectiveLimit
    BY LimitType DEF IInv, TypeOK, DepthWithinLimit
  <2> QED
    BY <2>1 DEF IInv, DepthExact
<1>5. \/ depth + 1 > EffectiveLimit /\ CheckpointError \in {"D1011", "U1001"}
      \/ CheckpointError = LoopError
  BY DEF CheckpointError
<1> QED
  BY <1>1, <1>3, <1>4, <1>5

\* Every step but a check that refuses leaves `raised` alone, raises another error
\* or ends an evaluation.
LEMMA RaisedByChecks ==
  ASSUME IInv, Next, raised = None, raised' \in {"U1003", "D1012", "D1011", "U1001"}
  PROVE  ~ Idle /\ raised' \in {LoopError, CheckpointError}
<1>1. None \notin {"U1003", "D1012", "D1011", "U1001", "error"}
  BY DEF Codes
<1>2. ~ (Evaluate \/ RunVm \/ Cancel \/ Tick \/ Leaf \/ Fail \/ Unwind)
  BY <1>1 DEF Evaluate, RunVm, Cancel, Tick, Leaf, Fail, Unwind
<1>3. ~ Return
  BY <1>1 DEF Return, Leave
<1>4. ASSUME NEW kind \in Kinds, Begin(kind)
      PROVE  ~ Idle /\ raised' \in {LoopError, CheckpointError}
  <2>1. raised' = Refusal(kind) /\ raised' # None /\ ~ Idle
    BY <1>1, <1>4 DEF Begin, Raise, Working, Evaluating, Idle
  <2> QED
    BY <2>1 DEF Refusal
<1>5. ASSUME NextElement
      PROVE  ~ Idle /\ raised' \in {LoopError, CheckpointError}
  BY <1>1, <1>5 DEF NextElement, Raise, Evaluating, Idle, ElementRefusal
<1>6. ASSUME NextPass
      PROVE  ~ Idle /\ raised' \in {LoopError, CheckpointError}
  <2>1. raised' = PassRefusal(Top.kind) /\ raised' # None /\ ~ Idle
    BY <1>1, <1>6 DEF NextPass, Raise, Evaluating, Idle
  <2> QED
    BY <2>1 DEF PassRefusal
<1> QED
  BY <1>2, <1>3, <1>4, <1>5, <1>6 DEF Next, Step

\* U1003 is raised only once somebody has cancelled, D1012 only once this evaluation
\* has run longer than its timeout, and D1011 and U1001 only with as many levels
\* under way as the limit allows.
THEOREM ReasonsGiven == Spec => RaisedWithReason
<1> DEFINE Reason == raised = None =>
       /\ raised' = "U1003" => cancelled
       /\ raised' = "D1012" => clock - began.at > options.timeout
       /\ raised' \in {"D1011", "U1001"} => Cardinality(Levels) = EffectiveLimit
<1>1. ASSUME IInv, Next PROVE Reason
  <2> SUFFICES ASSUME raised = None, raised' \in {"U1003", "D1012", "D1011", "U1001"}
               PROVE  Reason
    OBVIOUS
  <2>1. ~ Idle /\ raised' \in {LoopError, CheckpointError}
    BY <1>1, RaisedByChecks
  <2> QED
    BY <1>1, <2>1, Reasons
<1>2. IInv /\ [Next]_vars => [Reason]_vars
  BY <1>1
<1> QED
  BY <1>2, Invariance, PTL DEF Spec, RaisedWithReason

\* Once the token is cancelled no node is begun, no element handed to a callback and
\* no pass of a tail-call loop made.  A custom matcher's loop is the exception: it
\* must not be among the kinds.
THEOREM CancelHeeded == "matcher" \notin Kinds => (Spec => NothingBegunOnceCancelled)
<1> SUFFICES ASSUME "matcher" \notin Kinds PROVE Spec => NothingBegunOnceCancelled
  OBVIOUS
<1> DEFINE Heeded == cancelled /\ ~ Idle =>
       /\ Len(calls') > Len(calls) => Last(calls').kind \notin {"level", "compiled"}
       /\ Len(calls') = Len(calls) => ~ (~ Top.busy /\ Last(calls').busy)
<1>1. ASSUME IInv, Next PROVE Heeded
  <2> SUFFICES ASSUME cancelled, ~ Idle PROVE Heeded
    OBVIOUS
  <2>1. calls \in Seq(Call) /\ calls # <<>> /\ Len(calls) \in Nat \ {0} /\ Top \in Call
    <3>1. calls \in Seq(Call) /\ calls # <<>>
      BY <1>1 DEF IInv, TypeOK, Idle
    <3> QED
      BY <3>1, TopType
  <2>2. LoopError # None /\ CheckpointError # None
    BY DEF LoopError, CheckpointError, Codes
  <2>3. ASSUME calls' = calls PROVE Heeded
    BY <2>1, <2>3 DEF Top
  <2>4. CASE Leaf
    <3>1. OneDone \in Call /\ (OneDone.busy => Top.busy)
      BY <2>1, <2>4, OneDoneType DEF Leaf, OneDone, Call
    <3>2. Len(calls') = Len(calls) /\ Last(calls') = OneDone
      BY <2>1, <2>4 DEF Leaf, WithTop, Last
    <3> QED
      BY <2>1, <3>1, <3>2
  <2>5. ASSUME NEW kind \in Kinds, Begin(kind) PROVE Heeded
    <3>1. CASE Refusal(kind) # None
      BY <2>3, <2>5, <3>1 DEF Begin, Raise
    <3>2. CASE Refusal(kind) = None
      <4>1. kind \notin {"level", "compiled"}
        BY <2>2, <3>2 DEF Refusal
      <4>2. OneDone \in Call /\ OneDone.kind = Top.kind
        BY <2>1, <2>5, OneDoneType DEF Begin
      <4>3. WithTop(OneDone) \in Seq(Call) /\ Len(WithTop(OneDone)) = Len(calls)
        BY <2>1, <4>2, WithTopType
      <4>4. PICK n \in 0 .. MaxLeft : calls' = Append(WithTop(OneDone), NewCall(kind, n))
        BY <2>5, <3>2 DEF Begin
      <4>5. Len(calls') = Len(calls) + 1 /\ Last(calls').kind = kind
        BY <2>1, <4>3, <4>4 DEF Last, NewCall
      <4> QED
        BY <2>1, <4>1, <4>5
    <3> QED
      BY <3>1, <3>2
  <2>6. CASE NextElement
    BY <2>2, <2>3, <2>6 DEF NextElement, ElementRefusal, Raise
  <2>7. CASE NextPass
    <3>1. Top.kind # "matcher"
      BY <2>1 DEF Call
    <3> QED
      BY <2>2, <2>3, <2>7, <3>1 DEF NextPass, PassRefusal, Raise
  <2>8. ASSUME NEW error, Leave(error) PROVE Heeded
    <3>1. Len(calls') = Len(calls) - 1
      BY <2>1, <2>8, LevelsFront DEF Leave
    <3> QED
      BY <2>1, <3>1
  <2>9. CASE Fail \/ Cancel \/ Tick
    BY <2>3, <2>9 DEF Fail, Cancel, Tick
  <2>10. ~ Evaluate /\ ~ RunVm
    BY DEF Evaluate, RunVm
  <2> QED
    BY <1>1, <2>4, <2>5, <2>6, <2>7, <2>8, <2>9, <2>10 DEF Next, Step, Return, Unwind
<1>2. IInv /\ [Next]_vars => [Heeded]_vars
  BY <1>1
<1> QED
  BY <1>2, Invariance, PTL DEF Spec, NothingBegunOnceCancelled

(***************************************************************************)
(* The steps that are left.                                                *)
(***************************************************************************)
\* One pair for each step that the calls `c` may still take.
Most == 2 * MaxLeft + 3
UnitsAhead(c) == {at \in (1 .. Len(c)) \X (1 .. Most) : at[2] <= Ahead(c[at[1]])}

LEMMA AheadType ==
  ASSUME NEW call \in Call
  PROVE  Ahead(call) \in 1 .. Most
BY DEF Ahead, Most, Call

\* A call more adds what lies ahead of it.
LEMMA AheadAppend ==
  ASSUME NEW c \in Seq(Call), NEW call \in Call
  PROVE  /\ IsFiniteSet(UnitsAhead(c)) /\ Cardinality(UnitsAhead(c)) \in Nat
         /\ Cardinality(UnitsAhead(Append(c, call))) = Cardinality(UnitsAhead(c)) + Ahead(call)
<1> DEFINE n == Len(c) + 1
           m == Ahead(call)
           new == {n} \X (1 .. m)
<1>1. /\ n \in Nat /\ Len(c) \in Nat /\ Len(Append(c, call)) = n /\ Append(c, call)[n] = call
      /\ \A i \in 1 .. Len(c) : Append(c, call)[i] = c[i]
      /\ Most \in Nat /\ m \in 1 .. Most
  BY AheadType DEF Most
<1>2. IsFiniteSet(UnitsAhead(c)) /\ Cardinality(UnitsAhead(c)) \in Nat
  <2>1. IsFiniteSet(1 .. Len(c)) /\ IsFiniteSet(1 .. Most)
    BY <1>1, FS_Interval
  <2>2. IsFiniteSet((1 .. Len(c)) \X (1 .. Most))
    BY <2>1, FS_Product
  <2>3. UnitsAhead(c) \subseteq (1 .. Len(c)) \X (1 .. Most)
    BY DEF UnitsAhead
  <2> QED
    BY <2>2, <2>3, FS_Subset, FS_CardinalityType
<1>3. IsFiniteSet(new) /\ Cardinality(new) = m
  <2> HIDE DEF n, m, new
  <2>0. m \in Int /\ 1 \in Int
    BY <1>1
  <2>1. IsFiniteSet(1 .. m) /\ Cardinality(1 .. m) = IF 1 > m THEN 0 ELSE m - 1 + 1
    BY <2>0, FS_Interval
  <2>2. IsFiniteSet({n}) /\ Cardinality({n}) = 1
    BY FS_Singleton
  <2>3. IsFiniteSet(new) /\ Cardinality(new) = Cardinality({n}) * Cardinality(1 .. m)
    BY <2>1, <2>2, FS_Product DEF new
  <2>4. Cardinality(1 .. m) = m
    BY <1>1, <2>1
  <2> QED
    BY <1>1, <2>2, <2>3, <2>4
<1>4. UnitsAhead(Append(c, call)) = UnitsAhead(c) \cup new
  <2> HIDE DEF n, m
  <2>1. 1 .. n = (1 .. Len(c)) \cup {n}
    BY <1>1 DEF n
  <2>2. ASSUME NEW at \in (1 .. Len(c)) \X (1 .. Most)
        PROVE  at \in UnitsAhead(Append(c, call)) <=> at \in UnitsAhead(c)
    BY <1>1, <2>1 DEF UnitsAhead
  <2>3. ASSUME NEW k \in 1 .. Most
        PROVE  <<n, k>> \in UnitsAhead(Append(c, call)) <=> k <= m
    BY <1>1, <2>1 DEF UnitsAhead, m
  <2>4. \A k \in 1 .. m : k \in 1 .. Most /\ k <= m
    BY <1>1
  <2>5. ASSUME NEW at \in UnitsAhead(Append(c, call)) PROVE at \in UnitsAhead(c) \cup new
    <3>1. at \in (1 .. n) \X (1 .. Most) /\ at = <<at[1], at[2]>>
      BY <1>1, <2>5 DEF UnitsAhead
    <3>2. CASE at[1] = n
      <4>1. at[2] <= m /\ at[2] \in 1 .. Most
        BY <2>3, <2>5, <3>1, <3>2
      <4>2. at[2] \in 1 .. m
        BY <1>1, <4>1
      <4> QED
        BY <3>1, <3>2, <4>2
    <3>3. CASE at[1] # n
      <4>1. at \in (1 .. Len(c)) \X (1 .. Most)
        BY <2>1, <3>1, <3>3
      <4> QED
        BY <2>2, <2>5, <4>1
    <3> QED
      BY <3>2, <3>3
  <2>6. ASSUME NEW at \in UnitsAhead(c) PROVE at \in UnitsAhead(Append(c, call))
    <3>1. at \in (1 .. Len(c)) \X (1 .. Most)
      BY DEF UnitsAhead
    <3> QED
      BY <2>2, <3>1
  <2>7. ASSUME NEW at \in new PROVE at \in UnitsAhead(Append(c, call))
    <3>1. at[2] \in 1 .. m /\ at = <<n, at[2]>>
      BY <2>7
    <3> QED
      BY <2>3, <2>4, <3>1
  <2> QED
    BY <2>5, <2>6, <2>7
<1>5. UnitsAhead(c) \cap new = {}
  <2> HIDE DEF n
  <2>1. \A at \in UnitsAhead(c) : at[1] \in 1 .. Len(c)
    BY DEF UnitsAhead
  <2>2. \A at \in new : at[1] = n
    OBVIOUS
  <2>3. n \notin 1 .. Len(c)
    BY <1>1 DEF n
  <2> QED
    BY <2>1, <2>2, <2>3
<1> HIDE DEF n, m, new
<1>6. Cardinality(UnitsAhead(c) \cup new) = Cardinality(UnitsAhead(c)) + Cardinality(new) - Cardinality(UnitsAhead(c) \cap new)
  BY <1>2, <1>3, FS_Union
<1>7. Cardinality(UnitsAhead(c) \cap new) = 0
  BY <1>5, FS_EmptySet
<1>8. Cardinality(UnitsAhead(Append(c, call))) = Cardinality(UnitsAhead(c)) + m
  BY <1>1, <1>2, <1>3, <1>4, <1>6, <1>7
<1> QED
  BY <1>2, <1>8 DEF m

\* Calls are the innermost one upon the others, and so they are with another in its
\* place.
LEMMA FrontAndTop ==
  ASSUME calls \in Seq(Call), calls # <<>>, NEW call \in Call
  PROVE  /\ Front(calls) \in Seq(Call) /\ Len(Front(calls)) = Len(calls) - 1
         /\ calls = Append(Front(calls), Top)
         /\ WithTop(call) = Append(Front(calls), call)
<1>1. Len(calls) \in Nat \ {0} /\ calls = [i \in 1 .. Len(calls) |-> calls[i]]
  OBVIOUS
<1> DEFINE n == Len(calls) - 1
<1>2. /\ SubSeq(calls, 1, n) \in Seq(Call)
      /\ Len(SubSeq(calls, 1, n)) = IF 1 <= n THEN n - 1 + 1 ELSE 0
      /\ \A i \in 1 .. n - 1 + 1 : SubSeq(calls, 1, n)[i] = calls[1 + i - 1]
  BY <1>1, SubSeqProperties
<1>3. n \in Nat /\ \A i \in 1 .. n : i \in 1 .. n - 1 + 1 /\ 1 + i - 1 = i
  BY <1>1
<1>4. /\ Front(calls) \in Seq(Call) /\ Len(Front(calls)) = n
      /\ \A i \in 1 .. n : Front(calls)[i] = calls[i]
  <2> HIDE DEF n
  <2>1. Front(calls) = SubSeq(calls, 1, n)
    BY DEF Front, n
  <2>2. Len(SubSeq(calls, 1, n)) = n
    BY <1>2, <1>3
  <2> QED
    BY <1>2, <1>3, <2>1, <2>2
<1>5. ASSUME NEW x \in Call
      PROVE  Append(Front(calls), x) = [i \in 1 .. Len(calls) |-> IF i = Len(calls) THEN x ELSE calls[i]]
  <2> DEFINE f == Front(calls)
  <2>1. f \in Seq(Call) /\ Len(f) = n /\ n + 1 = Len(calls)
    BY <1>1, <1>4
  <2>2. \A i \in 1 .. n : f[i] = calls[i]
    BY <1>4
  <2> HIDE DEF f, n
  <2>3. Append(f, x) = [i \in 1 .. Len(f) + 1 |-> IF i = Len(f) + 1 THEN x ELSE f[i]]
    <3> DEFINE g == Append(f, x)
    <3>1. g \in Seq(Call) /\ Len(g) = Len(f) + 1 /\ Len(f) \in Nat
      BY <2>1
    <3>2. \A i \in 1 .. Len(f) + 1 : g[i] = IF i = Len(f) + 1 THEN x ELSE f[i]
      BY <2>1
    <3> HIDE DEF g
    <3>3. g = [i \in 1 .. Len(g) |-> g[i]]
      BY <3>1
    <3> QED
      BY <3>1, <3>2, <3>3 DEF g
  <2>4. \A i \in 1 .. Len(calls) : i = Len(calls) \/ i \in 1 .. n
    BY <1>1, <2>1
  <2>5. Append(f, x) = [i \in 1 .. Len(calls) |-> IF i = Len(calls) THEN x ELSE f[i]]
    BY <2>1, <2>3
  <2> QED
    BY <2>2, <2>4, <2>5 DEF f
<1>6. Top \in Call /\ Top = calls[Len(calls)]
  BY <1>1 DEF Top, Last
<1>7. WithTop(call) = [i \in 1 .. Len(calls) |-> IF i = Len(calls) THEN call ELSE calls[i]]
  BY <1>1 DEF WithTop
<1> QED
  BY <1>1, <1>4, <1>5, <1>6, <1>7

\* A loop alone is in the middle of something.
BusyLoops == \A i \in 1 .. Len(calls) : calls[i].busy => calls[i].kind \in Loops \cup TailLoops

LEMMA BusyLoopsKept ==
  ASSUME IInv, BusyLoops, [Next]_vars
  PROVE  BusyLoops'
<1>1. calls \in Seq(Call) /\ Len(calls) \in Nat
  BY DEF IInv, TypeOK
<1>2. ASSUME calls' = calls PROVE BusyLoops'
  BY <1>2 DEF BusyLoops
<1>3. ASSUME calls # <<>>, NEW call \in Call, call.kind = Top.kind,
             call.busy => Top.busy \/ Top.kind \in Loops \cup TailLoops
      PROVE  /\ WithTop(call) \in Seq(Call) /\ Len(WithTop(call)) = Len(calls)
             /\ \A i \in 1 .. Len(calls) : WithTop(call)[i].busy => WithTop(call)[i].kind \in Loops \cup TailLoops
  <2>1. WithTop(call) \in Seq(Call) /\ Len(WithTop(call)) = Len(calls) /\ Len(calls) \in Nat \ {0}
    BY <1>1, <1>3, WithTopType, TopType
  <2>2. \A i \in 1 .. Len(calls) : WithTop(call)[i] = IF i = Len(calls) THEN call ELSE calls[i]
    BY <1>1, <2>1 DEF WithTop
  <2>3. Top = calls[Len(calls)] /\ Len(calls) \in 1 .. Len(calls)
    BY <2>1 DEF Top, Last
  <2> QED
    BY <1>3, <2>1, <2>2, <2>3 DEF BusyLoops
<1>4. ASSUME calls # <<>>, Working
      PROVE  /\ OneDone \in Call /\ OneDone.kind = Top.kind
             /\ OneDone.busy => Top.busy \/ Top.kind \in Loops \cup TailLoops
  <2>1. Top \in Call
    BY <1>1, <1>4, TopType
  <2>2. OneDone.busy => Top.busy
    BY <2>1 DEF OneDone, Call
  <2> QED
    BY <1>1, <1>4, <2>2, OneDoneType
<1>5. CASE Leaf
  <2>1. calls # <<>> /\ Working /\ calls' = WithTop(OneDone)
    BY <1>5 DEF Leaf, Working, Evaluating
  <2> QED
    BY <1>3, <1>4, <2>1 DEF BusyLoops
<1>6. ASSUME NEW kind \in Kinds, Begin(kind) PROVE BusyLoops'
  <2>1. CASE Refusal(kind) # None
    BY <1>2, <1>6, <2>1 DEF Begin, Raise
  <2>2. CASE Refusal(kind) = None
    <3>1. calls # <<>> /\ Working
      BY <1>6 DEF Begin, Working, Evaluating
    <3>2. PICK n \in 0 .. MaxLeft : calls' = Append(WithTop(OneDone), NewCall(kind, n))
      BY <1>6, <2>2 DEF Begin
    <3> DEFINE below == WithTop(OneDone)
    <3>3. /\ below \in Seq(Call) /\ Len(below) = Len(calls)
          /\ \A i \in 1 .. Len(calls) : below[i].busy => below[i].kind \in Loops \cup TailLoops
      BY <1>3, <1>4, <3>1
    <3>4. NewCall(kind, n) \in Call /\ ~ NewCall(kind, n).busy
      BY DEF NewCall, Call
    <3> HIDE DEF below
    <3>5. /\ Len(calls') = Len(calls) + 1 /\ calls'[Len(calls) + 1] = NewCall(kind, n)
          /\ \A i \in 1 .. Len(calls) : calls'[i] = below[i]
      BY <1>1, <3>2, <3>3, <3>4 DEF below
    <3>6. \A i \in 1 .. Len(calls) + 1 : i \in 1 .. Len(calls) \/ i = Len(calls) + 1
      BY <1>1
    <3> QED
      BY <3>3, <3>4, <3>5, <3>6 DEF BusyLoops
  <2> QED
    BY <2>1, <2>2
<1>7. ASSUME Evaluating, Top.kind \in Loops \cup TailLoops, NEW m \in 0 .. MaxLeft, calls' = WithTop(InMiddle(m))
      PROVE  BusyLoops'
  <2>1. calls # <<>>
    BY <1>7 DEF Evaluating
  <2>2. InMiddle(m) \in Call /\ InMiddle(m).kind = Top.kind
    <3>1. Top.kind \in Kinds
      BY <1>1, <2>1, TopType DEF Call
    <3> QED
      BY <3>1 DEF Call, InMiddle
  <2> QED
    BY <1>3, <1>7, <2>1, <2>2 DEF BusyLoops
<1>8. CASE NextElement
  <2>1. CASE ElementRefusal(Top.kind) # None
    BY <1>2, <1>8, <2>1 DEF NextElement, Raise
  <2>2. CASE ElementRefusal(Top.kind) = None
    <3>1. Evaluating /\ Top.kind \in Loops \cup TailLoops /\ Top.left > 0 /\ calls # <<>>
      BY <1>8 DEF NextElement, Evaluating
    <3>2. Top.left - 1 \in 0 .. MaxLeft
      BY <1>1, <3>1, TopType DEF Call
    <3> QED
      BY <1>7, <1>8, <2>2, <3>1, <3>2 DEF NextElement
  <2> QED
    BY <2>1, <2>2
<1>9. CASE NextPass
  <2>1. CASE PassRefusal(Top.kind) # None
    BY <1>2, <1>9, <2>1 DEF NextPass, Raise
  <2>2. CASE PassRefusal(Top.kind) = None
    <3>1. PICK more \in {0, 1} : calls' = WithTop(InMiddle(more))
      BY <1>9, <2>2 DEF NextPass
    <3>2. more \in 0 .. MaxLeft /\ Evaluating /\ Top.kind \in Loops \cup TailLoops
      BY <1>9 DEF NextPass
    <3> QED
      BY <1>7, <3>1, <3>2
  <2> QED
    BY <2>1, <2>2
<1>10. ASSUME calls # <<>>, NEW error, Leave(error) PROVE BusyLoops'
  <2>1. Top \in Call /\ calls' = Front(calls)
    BY <1>1, <1>10, TopType DEF Leave
  <2>2. Front(calls) \in Seq(Call) /\ Len(Front(calls)) = Len(calls) - 1 /\ calls = Append(Front(calls), Top)
    BY <1>1, <1>10, <2>1, FrontAndTop
  <2>3. \A i \in 1 .. Len(calls) - 1 : Front(calls)[i] = calls[i] /\ i \in 1 .. Len(calls)
    BY <1>1, <2>1, <2>2
  <2> QED
    BY <2>1, <2>2, <2>3 DEF BusyLoops
<1>11. CASE Return \/ Unwind
  BY <1>10, <1>11 DEF Return, Unwind, Evaluating
<1>12. CASE Fail \/ Cancel \/ Tick \/ UNCHANGED vars
  BY <1>2, <1>12 DEF Fail, Cancel, Tick, vars
<1>13. CASE Evaluate \/ RunVm
  <2>1. calls' = calls \/ \E kind \in {"entry", "vm"}, m \in 0 .. MaxLeft : calls' = <<NewCall(kind, m)>>
    BY <1>13 DEF Evaluate, RunVm
  <2>2. ASSUME NEW kind, NEW m, calls' = <<NewCall(kind, m)>> PROVE BusyLoops'
    BY <2>2 DEF BusyLoops, NewCall
  <2> QED
    BY <1>2, <2>1, <2>2
<1> QED
  BY <1>5, <1>6, <1>8, <1>9, <1>11, <1>12, <1>13 DEF Next, Step

\* The count of the steps left, and what the steps do to it.
LEMMA StepsLeftIs ==
  ASSUME calls \in Seq(Call), calls # <<>>, raised = None
  PROVE  /\ StepsLeft = 1 + Cardinality(UnitsAhead(calls)) /\ Cardinality(UnitsAhead(calls)) \in Nat
         /\ Cardinality(UnitsAhead(calls)) >= Len(calls)
<1>1. DOMAIN calls = 1 .. Len(calls) /\ Len(calls) \in Nat
  OBVIOUS
<1>2. StepsLeft = 1 + Cardinality(UnitsAhead(calls))
  BY <1>1, Zenon DEF StepsLeft, UnitsAhead, Most, Idle
<1>3. Top \in Call
  BY TopType
<1>4. IsFiniteSet(UnitsAhead(calls)) /\ Cardinality(UnitsAhead(calls)) \in Nat
  BY <1>3, AheadAppend
<1> DEFINE firsts == (1 .. Len(calls)) \X {1}
<1>5. firsts \subseteq UnitsAhead(calls)
  <2>1. \A i \in 1 .. Len(calls) : Ahead(calls[i]) \in 1 .. Most
    BY AheadType
  <2>2. 1 \in 1 .. Most
    BY DEF Most
  <2>3. ASSUME NEW at \in firsts PROVE at \in UnitsAhead(calls)
    <3>1. at[1] \in 1 .. Len(calls) /\ at[2] = 1 /\ at = <<at[1], at[2]>>
      OBVIOUS
    <3>2. 1 <= Ahead(calls[at[1]])
      BY <2>1, <3>1
    <3> QED
      BY <2>2, <3>1, <3>2 DEF UnitsAhead
  <2> QED
    BY <2>3
<1>6. IsFiniteSet(firsts) /\ Cardinality(firsts) = Len(calls)
  <2>1. Len(calls) \in Int /\ 1 \in Int
    BY <1>1
  <2>2. IsFiniteSet(1 .. Len(calls)) /\ Cardinality(1 .. Len(calls)) = IF 1 > Len(calls) THEN 0 ELSE Len(calls) - 1 + 1
    BY <2>1, FS_Interval
  <2>3. IsFiniteSet({1}) /\ Cardinality({1}) = 1
    BY FS_Singleton
  <2>4. IsFiniteSet(firsts) /\ Cardinality(firsts) = Cardinality(1 .. Len(calls)) * Cardinality({1})
    BY <2>2, <2>3, FS_Product
  <2> HIDE DEF firsts
  <2>5. Cardinality(1 .. Len(calls)) = Len(calls)
    BY <1>1, <2>2
  <2> QED
    BY <1>1, <2>3, <2>4, <2>5
<1> HIDE DEF firsts
<1>7. Cardinality(firsts) <= Cardinality(UnitsAhead(calls))
  BY <1>4, <1>5, FS_Subset
<1> QED
  BY <1>1, <1>2, <1>4, <1>6, <1>7

LEMMA StepsOnTop ==
  ASSUME calls \in Seq(Call), calls # <<>>, raised = None, raised' = None,
         NEW call \in Call, calls' = WithTop(call), Ahead(call) < Ahead(Top)
  PROVE  StepsLeft' < StepsLeft
<1>1. /\ Front(calls) \in Seq(Call) /\ calls = Append(Front(calls), Top)
      /\ calls' = Append(Front(calls), call) /\ Top \in Call
  BY FrontAndTop, TopType
<1>2. calls' \in Seq(Call) /\ calls' # <<>>
  BY <1>1
<1>3. /\ StepsLeft = 1 + Cardinality(UnitsAhead(calls)) /\ Cardinality(UnitsAhead(calls)) \in Nat
      /\ StepsLeft' = 1 + Cardinality(UnitsAhead(calls'))
  <2>1. (StepsLeft = 1 + Cardinality(UnitsAhead(calls)))'
    <3>1. (DOMAIN calls = 1 .. Len(calls))'
      BY <1>2
    <3> QED
      BY <1>2, <3>1, Zenon DEF StepsLeft, UnitsAhead, Most, Idle
  <2>2. UnitsAhead(calls)' = UnitsAhead(calls')
    BY DEF UnitsAhead
  <2> QED
    BY <2>1, <2>2, StepsLeftIs
<1>4. /\ Cardinality(UnitsAhead(calls)) = Cardinality(UnitsAhead(Front(calls))) + Ahead(Top)
      /\ Cardinality(UnitsAhead(calls')) = Cardinality(UnitsAhead(Front(calls))) + Ahead(call)
      /\ Cardinality(UnitsAhead(Front(calls))) \in Nat
  BY <1>1, AheadAppend
<1>5. Ahead(call) \in Nat /\ Ahead(Top) \in Nat
  BY <1>1, AheadType DEF Most
<1> QED
  BY <1>3, <1>4, <1>5

LEMMA StepsUnderNew ==
  ASSUME calls \in Seq(Call), calls # <<>>, raised = None, raised' = None,
         NEW call \in Call, NEW new \in Call, calls' = Append(WithTop(call), new),
         Ahead(call) + Ahead(new) < Ahead(Top)
  PROVE  StepsLeft' < StepsLeft
<1>1. /\ Front(calls) \in Seq(Call) /\ calls = Append(Front(calls), Top)
      /\ WithTop(call) = Append(Front(calls), call) /\ Top \in Call
  BY FrontAndTop, TopType
<1>2. calls' \in Seq(Call) /\ calls' # <<>> /\ WithTop(call) \in Seq(Call)
  BY <1>1
<1>3. /\ StepsLeft = 1 + Cardinality(UnitsAhead(calls)) /\ Cardinality(UnitsAhead(calls)) \in Nat
      /\ StepsLeft' = 1 + Cardinality(UnitsAhead(calls'))
  <2>1. (StepsLeft = 1 + Cardinality(UnitsAhead(calls)))'
    <3>1. (DOMAIN calls = 1 .. Len(calls))'
      BY <1>2
    <3> QED
      BY <1>2, <3>1, Zenon DEF StepsLeft, UnitsAhead, Most, Idle
  <2>2. UnitsAhead(calls)' = UnitsAhead(calls')
    BY DEF UnitsAhead
  <2> QED
    BY <2>1, <2>2, StepsLeftIs
<1>4. /\ Cardinality(UnitsAhead(calls)) = Cardinality(UnitsAhead(Front(calls))) + Ahead(Top)
      /\ Cardinality(UnitsAhead(WithTop(call))) = Cardinality(UnitsAhead(Front(calls))) + Ahead(call)
      /\ Cardinality(UnitsAhead(Front(calls))) \in Nat
  BY <1>1, AheadAppend
<1>5. Cardinality(UnitsAhead(calls')) = Cardinality(UnitsAhead(WithTop(call))) + Ahead(new)
  BY <1>2, AheadAppend
<1>6. Ahead(call) \in Nat /\ Ahead(Top) \in Nat /\ Ahead(new) \in Nat
  BY <1>1, AheadType DEF Most
<1> QED
  BY <1>3, <1>4, <1>5, <1>6

LEMMA StepsOfRaise ==
  ASSUME calls \in Seq(Call), calls # <<>>, raised = None, raised' # None, calls' = calls
  PROVE  StepsLeft' < StepsLeft
<1>1. StepsLeft' = Len(calls) /\ Len(calls) \in Nat
  <2>1. (StepsLeft = Len(calls))'
    BY DEF StepsLeft
  <2> QED
    BY <2>1
<1> QED
  BY <1>1, StepsLeftIs

LEMMA StepsOfLeave ==
  ASSUME calls \in Seq(Call), calls # <<>>, raised \in {None} \cup Codes, Leave(raised)
  PROVE  StepsLeft' < StepsLeft
<1>1. /\ calls' = Front(calls) /\ Front(calls) \in Seq(Call) /\ Len(Front(calls)) = Len(calls) - 1
      /\ calls = Append(Front(calls), Top) /\ Top \in Call /\ Len(calls) \in Nat \ {0}
  BY FrontAndTop, TopType DEF Leave
<1>2. CASE calls' = <<>>
  <2>1. StepsLeft' = 0
    <3>1. (StepsLeft = Len(calls))'
      BY <1>2 DEF StepsLeft, Idle
    <3> QED
      BY <1>2, <3>1
  <2>2. CASE raised # None
    <3>1. StepsLeft = Len(calls)
      BY <2>2 DEF StepsLeft
    <3> QED
      BY <1>1, <2>1, <3>1
  <2>3. CASE raised = None
    BY <2>1, <2>3, StepsLeftIs
  <2> QED
    BY <2>2, <2>3
<1>3. CASE calls' # <<>>
  <2>1. raised' = raised
    <3>1. Len(calls) # 1
      BY <1>1, <1>3
    <3> QED
      BY <3>1 DEF Leave
  <2>2. CASE raised # None
    <3>1. StepsLeft = Len(calls)
      BY <2>2 DEF StepsLeft
    <3>2. (StepsLeft = Len(calls))'
      BY <2>1, <2>2 DEF StepsLeft
    <3> QED
      BY <1>1, <3>1, <3>2
  <2>3. CASE raised = None
    <3>1. (StepsLeft = 1 + Cardinality(UnitsAhead(calls)))'
      <4>1. (DOMAIN calls = 1 .. Len(calls))'
        BY <1>1
      <4> QED
        BY <1>3, <2>1, <2>3, <4>1, Zenon DEF StepsLeft, UnitsAhead, Most, Idle
    <3>2. UnitsAhead(calls)' = UnitsAhead(calls')
      BY DEF UnitsAhead
    <3>3. StepsLeft = 1 + Cardinality(UnitsAhead(calls))
      BY <2>3, StepsLeftIs
    <3>4. /\ Cardinality(UnitsAhead(calls)) = Cardinality(UnitsAhead(Front(calls))) + Ahead(Top)
          /\ Cardinality(UnitsAhead(Front(calls))) \in Nat
      BY <1>1, AheadAppend
    <3>5. Ahead(Top) \in Nat \ {0}
      BY <1>1, AheadType DEF Most
    <3> QED
      BY <1>1, <3>1, <3>2, <3>3, <3>4, <3>5
  <2> QED
    BY <2>2, <2>3
<1> QED
  BY <1>2, <1>3

\* What is no loop begins only loops, levels and compiled bodies.
LEMMA InnerOfNoLoop ==
  ASSUME NEW kind, NEW outer \in Kinds, kind \in Inner(outer), kind \notin {"level", "compiled"},
         kind \notin Loops \cup TailLoops
  PROVE  outer \in Loops \cup TailLoops
BY KindsAssumption DEF Inner, Loops, TailLoops

\* An evaluation told to end stays so, and each of its steps is one less to do: every
\* loop and every node is preceded by a check that refuses it, but for the loop over a
\* custom matcher's matches, which must not be among the kinds (with_checkpoint,
\* check_loop_timeout and their callers).
THEOREM StepsAreFinite == "matcher" \notin Kinds => (Spec => StepsRunOut)
<1> SUFFICES ASSUME "matcher" \notin Kinds PROVE Spec => StepsRunOut
  OBVIOUS
<1> DEFINE Less == ToldToEnd =>
       /\ ToldToEnd' \/ Idle'
       /\ <<calls, raised>>' # <<calls, raised>> => StepsLeft' < StepsLeft
<1>1. ASSUME IInv, BusyLoops, Next PROVE Less
  <2> SUFFICES ASSUME ToldToEnd PROVE Less
    OBVIOUS
  <2>1. /\ calls \in Seq(Call) /\ calls # <<>> /\ Len(calls) \in Nat \ {0} /\ Top \in Call
        /\ raised \in {None} \cup Codes /\ None \notin Codes
    <3>1. calls \in Seq(Call) /\ calls # <<>>
      BY <1>1 DEF IInv, TypeOK, Idle, ToldToEnd
    <3> QED
      BY <1>1, <3>1, TopType DEF IInv, TypeOK
  <2>2. LoopError # None /\ CheckpointError # None
    <3>1. cancelled \/ Overdue(startTime)
      BY <1>1 DEF ToldToEnd, Overdue, IInv, TimedFromBegin
    <3> QED
      BY <3>1 DEF LoopError, CheckpointError, Codes
  <2>3. ToldToEnd' \/ Idle'
    <3>1. ~ Evaluate /\ ~ RunVm
      BY <2>1 DEF Evaluate, RunVm, Idle
    <3>2. CASE Tick
      <4>1. clock \in Nat /\ began.at \in Nat
        BY <1>1 DEF IInv, TypeOK
      <4>2. options.timeout \in Nat \cup {None}
        BY <1>1 DEF IInv, TypeOK
      <4>3. Overdue(began.at) => Overdue(began.at)'
        BY <3>2, <4>1, <4>2 DEF Overdue, Tick, outcome
      <4> QED
        BY <3>2, <4>3 DEF ToldToEnd, Tick, Idle
    <3>3. CASE Cancel
      BY <3>3 DEF ToldToEnd, Cancel, Idle
    <3>4. CASE Step
      <4>1. UNCHANGED <<given, began>>
        BY <3>4 DEF Step, Leaf, Begin, NextElement, NextPass, Return, Fail, Unwind, Leave, Raise, outcome
      <4> QED
        BY <4>1 DEF ToldToEnd, Overdue, given, Idle
    <3> QED
      BY <1>1, <3>1, <3>2, <3>3, <3>4 DEF Next
  <2>4. ASSUME UNCHANGED <<calls, raised>> PROVE Less
    BY <2>3, <2>4
  <2>5. Top.busy => Top.kind \in Loops \cup TailLoops
    <3>1. Top = calls[Len(calls)] /\ Len(calls) \in 1 .. Len(calls)
      BY <2>1 DEF Top, Last
    <3> QED
      BY <1>1, <3>1 DEF BusyLoops
  <2>6. ASSUME Working
        PROVE  /\ OneDone \in Call /\ raised = None
               /\ Top.kind \notin Loops \cup TailLoops => Ahead(OneDone) + 2 = Ahead(Top)
               /\ Top.kind \in Loops \cup TailLoops => Ahead(OneDone) = 1 /\ Ahead(Top) = Most
    <3>1. OneDone \in Call /\ OneDone.kind = Top.kind
      BY <2>1, <2>6, OneDoneType
    <3>2. CASE Top.kind \notin Loops \cup TailLoops
      <4>1. ~ Top.busy /\ OneDone.left = Top.left - 1 /\ Top.left \in Nat
        BY <2>1, <2>5, <3>2 DEF OneDone, Call
      <4> QED
        BY <2>6, <3>1, <3>2, <4>1 DEF Ahead, Working, Evaluating
    <3>3. CASE Top.kind \in Loops \cup TailLoops
      <4>1. Top.busy /\ ~ OneDone.busy
        BY <2>1, <2>6, <3>3 DEF OneDone, Call, Working
      <4> QED
        BY <2>6, <3>1, <3>3, <4>1 DEF Ahead, Most, Working, Evaluating
    <3> QED
      BY <3>2, <3>3
  <2>7. Ahead(Top) \in Nat /\ Most \in Nat /\ Most = 2 * MaxLeft + 3 /\ Most > 1
    BY <2>1, AheadType DEF Most
  <2>8. CASE Leaf
    <3>1. Working /\ calls' = WithTop(OneDone) /\ raised' = raised
      BY <2>8 DEF Leaf
    <3>2. Ahead(OneDone) < Ahead(Top)
      <4>1. Ahead(OneDone) \in Nat
        BY <2>6, <3>1, AheadType DEF Most
      <4> QED
        BY <2>6, <2>7, <3>1, <4>1
    <3> QED
      BY <2>1, <2>3, <2>6, <3>1, <3>2, StepsOnTop
  <2>9. ASSUME NEW kind \in Kinds, Begin(kind) PROVE Less
    <3>1. Working /\ kind \in Inner(Top.kind)
      BY <2>9 DEF Begin
    <3>2. CASE Refusal(kind) # None
      BY <2>1, <2>3, <2>6, <2>9, <3>1, <3>2, StepsOfRaise DEF Begin, Raise
    <3>3. CASE Refusal(kind) = None
      <4>1. kind \notin {"level", "compiled"}
        BY <2>2, <3>3 DEF Refusal
      <4>2. PICK n \in 0 .. MaxLeft : calls' = Append(WithTop(OneDone), NewCall(kind, n))
        BY <2>9, <3>3 DEF Begin
      <4>3. raised' = raised
        BY <2>9, <3>3 DEF Begin
      <4>4. NewCall(kind, n) \in Call /\ NewCall(kind, n).kind = kind /\ ~ NewCall(kind, n).busy /\ NewCall(kind, n).left = n
        BY DEF NewCall, Call
      <4>5. Ahead(OneDone) + Ahead(NewCall(kind, n)) < Ahead(Top)
        <5>1. CASE kind \in Loops \cup TailLoops
          <6>1. Ahead(NewCall(kind, n)) = 1
            BY <4>4, <5>1 DEF Ahead
          <6>2. Ahead(OneDone) \in Nat
            BY <2>6, <3>1, AheadType DEF Most
          <6>3. Most > 2
            BY <2>7
          <6> QED
            BY <2>6, <2>7, <3>1, <6>1, <6>2, <6>3
        <5>2. CASE kind \notin Loops \cup TailLoops
          <6>1. Top.kind \in Loops \cup TailLoops
            BY <2>1, <3>1, <4>1, <5>2, InnerOfNoLoop DEF Call
          <6>2. Ahead(NewCall(kind, n)) = 2 * n + 1
            BY <4>4, <5>2 DEF Ahead
          <6> QED
            BY <2>6, <2>7, <3>1, <6>1, <6>2
        <5> QED
          BY <5>1, <5>2
      <4> QED
        BY <2>1, <2>3, <2>6, <3>1, <4>2, <4>3, <4>4, <4>5, StepsUnderNew
    <3> QED
      BY <3>2, <3>3
  <2>10. CASE NextElement
    BY <2>1, <2>2, <2>3, <2>10, StepsOfRaise DEF NextElement, ElementRefusal, Raise, Evaluating
  <2>11. CASE NextPass
    <3>1. Top.kind # "matcher"
      BY <2>1 DEF Call
    <3> QED
      BY <2>1, <2>2, <2>3, <2>11, <3>1, StepsOfRaise DEF NextPass, PassRefusal, Raise, Evaluating
  <2>12. CASE Return \/ Unwind
    <3>1. Leave(raised)
      BY <2>12 DEF Return, Unwind, Evaluating
    <3> QED
      BY <2>1, <2>3, <3>1, StepsOfLeave
  <2>13. CASE Fail
    BY <2>1, <2>3, <2>13, StepsOfRaise DEF Fail, Evaluating, Codes
  <2>14. CASE Cancel \/ Tick
    BY <2>4, <2>14 DEF Cancel, Tick
  <2>15. ~ Evaluate /\ ~ RunVm
    BY <2>1 DEF Evaluate, RunVm, Idle
  <2> QED
    BY <1>1, <2>8, <2>9, <2>10, <2>11, <2>12, <2>13, <2>14, <2>15 DEF Next, Step
<1>2. Init => BusyLoops
  BY DEF Init, BusyLoops
<1>3. IInv /\ BusyLoops /\ [Next]_vars => BusyLoops'
  BY BusyLoopsKept
<1>4. IInv /\ BusyLoops /\ [Next]_vars => [Less]_vars
  BY <1>1
<1> QED
  BY <1>2, <1>3, <1>4, Invariance, PTL DEF Spec, StepsRunOut

\* What is cancelled begins nothing, and what is cancelled or overdue runs out of steps,
\* where no custom matcher's loop runs (with_checkpoint, check_loop_timeout).
THEOREM DoesAsTold == "matcher" \notin Kinds => (Spec => StopsWhenTold)
BY CancelHeeded, StepsAreFinite DEF StopsWhenTold
=============================================================================
