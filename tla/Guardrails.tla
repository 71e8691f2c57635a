------------------------------ MODULE Guardrails ------------------------------
(***************************************************************************)
(* What stops an evaluation: the depth limit, the timeout and the cancel   *)
(* token, and the places that look at them.  An evaluation is the Rust     *)
(* calls under way (`calls`, innermost last); what they compute is left    *)
(* out.  The host uses one evaluator again and again, another thread       *)
(* cancels at any moment, and time passes at any moment.                   *)
(***************************************************************************)
EXTENDS Integers, Sequences, SequencesExt, FiniteSets

CONSTANTS
  OptionSets,    \* the EvaluatorOptions that evaluators are made with
  MaxEvalDepth,  \* MAX_EVAL_DEPTH
  None,          \* an option left out, a start_time not set, no error
  Kinds,         \* the kinds of call that evaluations are made of
  MaxCalls,      \* bound: calls under way
  MaxLeft,       \* bound: operations of a node, elements, instructions
  MaxClock       \* bound: milliseconds

\* What an evaluation fails with: the guardrails' codes, and any other error.
Codes == {"U1003", "D1012", "D1011", "U1001", "error"}

ASSUME BoundsAssumption ==
  MaxEvalDepth \in Nat \ {0} /\ MaxCalls \in Nat \ {0} /\ MaxLeft \in Nat \ {0} /\ MaxClock \in Nat
ASSUME OptionsAssumption ==
  /\ OptionSets \subseteq [stack : Nat \cup {None}, timeout : Nat \cup {None}]
  /\ None \notin Nat /\ None \notin Codes
ASSUME KindsAssumption ==
  /\ "entry" \in Kinds
  /\ Kinds \subseteq {"entry", "level", "tail", "hof", "replacer", "matcher", "compiled", "vm", "filter", "sub"}

VARIABLES
  options,    \* self.options: max_stack_depth and timeout_ms
  cancelled,  \* CancelToken's flag
  clock,      \* Instant::now
  startTime,  \* start_time
  depth,      \* self.recursion_depth
  calls,      \* the Rust calls under way
  raised,     \* the error on its way up, or None
  result,     \* what the last evaluation gave: "value" or an error
  began       \* ghost: when the last evaluation began, and whether it was cancelled by then

vars == <<options, cancelled, clock, startTime, depth, calls, raised, result, began>>
given == <<options, cancelled, clock>>
outcome == <<startTime, result, began>>

(***************************************************************************)
(* A call: `left` is what it has still to do (operations of a node,        *)
(* elements of a loop, instructions of a program; 1 for a loop that goes   *)
(* on), `busy` is a loop in the middle of an element or a pass.            *)
(***************************************************************************)
Loops      == {"hof", "filter"}               \* over the elements of a value
TailLoops  == {"tail", "replacer", "matcher"} \* as long as functions make them go on
Call       == [kind : Kinds, left : 0..MaxLeft, busy : BOOLEAN]
Top        == Last(calls)
Evaluating == calls # <<>> /\ raised = None
Levels     == {i \in DOMAIN calls : calls[i].kind = "level"}

\* What a call of each kind calls in turn.
Inner(kind) ==
  CASE kind = "entry" -> {"level"}
    [] kind = "level" -> {"level", "tail", "hof", "replacer", "matcher", "compiled"}
    [] kind = "tail" -> {"level"}
    [] kind \in {"hof", "replacer", "matcher"} -> {"level", "tail", "compiled"}
    [] kind = "compiled" -> {"compiled"}
    [] kind \in {"vm", "sub"} -> {"compiled", "filter"}
    [] kind = "filter" -> {"sub"}

Init ==
  /\ options \in OptionSets /\ cancelled = FALSE /\ clock = 0 /\ startTime = None
  /\ depth = 0 /\ calls = <<>> /\ raised = None /\ result = "value"
  /\ began = [at |-> 0, cancelled |-> FALSE]

(***************************************************************************)
(* The checks.                                                             *)
(***************************************************************************)
Overdue(since) == options.timeout # None /\ since # None /\ clock - since > options.timeout

\* A fault: the check looks at the token only.
TokenOnly == IF cancelled THEN "U1003" ELSE None

\* check_loop_timeout
LoopError ==
  CASE cancelled -> "U1003"
    [] ~ cancelled /\ Overdue(startTime) -> "D1012"
    [] OTHER -> None

EffectiveLimit ==
  IF options.stack # None /\ options.stack < MaxEvalDepth THEN options.stack ELSE MaxEvalDepth

\* with_checkpoint's checks, in its order
CheckpointError ==
  CASE depth + 1 > EffectiveLimit -> IF EffectiveLimit < MaxEvalDepth THEN "D1011" ELSE "U1001"
    [] OTHER -> LoopError

\* A fault: a level that is refused stays counted.
RefusedCounted(kind) == IF kind = "level" THEN depth + 1 ELSE depth

\* recursion_depth once a call of kind `kind` is refused: counted up, and down again
DepthRefused(kind) == depth

\* A fault: an error leaves with_checkpoint before the level is taken back.
KeptOnError(kind) == IF kind = "level" /\ raised = None THEN depth - 1 ELSE depth

\* recursion_depth once a call of kind `kind` is over, with a value or an error
DepthAfter(kind) == IF kind = "level" THEN depth - 1 ELSE depth

\* What refuses a call of kind `kind`.
Refusal(kind) ==
  CASE kind = "level" -> CheckpointError
    [] kind = "compiled" -> LoopError
    [] OTHER -> None

\* A fault: the tail-call loop relies on the checks of the nodes it evaluates.
PassUnchecked(kind) == IF kind = "replacer" THEN LoopError ELSE None

\* What stops a loop before a pass or a match.  A custom matcher's does not look.
PassRefusal(kind) == IF kind = "matcher" THEN None ELSE LoopError

\* A fault: the builtin's loop leaves the checks to what its callback evaluates.
ElementUnchecked(kind) == IF kind = "filter" THEN LoopError ELSE None

ElementRefusal(kind) == LoopError

Raise(error, kind) ==
  /\ raised' = error /\ depth' = DepthRefused(kind)
  /\ UNCHANGED <<calls, given, outcome>>

NewCall(kind, n) == [kind |-> kind, left |-> n, busy |-> FALSE]
InMiddle(n)      == [kind |-> Top.kind, left |-> n, busy |-> TRUE]
WithTop(call)    == [calls EXCEPT ![Len(calls)] = call]

(***************************************************************************)
(* The host: Evaluator::evaluate, and Vm::run for an expression that has   *)
(* compiled.                                                               *)
(***************************************************************************)
Idle == calls = <<>>

\* A fault: an evaluator used again goes on timing from its first evaluation.
FirstStart == IF options.timeout # None /\ startTime = None THEN clock ELSE startTime

StartTime == IF options.timeout # None THEN clock ELSE startTime

Begins == began' = [at |-> clock, cancelled |-> cancelled]

Evaluate ==
  /\ Idle /\ Begins
  /\ calls' = <<NewCall("entry", 1)>> /\ startTime' = StartTime
  /\ UNCHANGED <<given, depth, raised, result>>

RunVm ==
  /\ Idle /\ Begins /\ "vm" \in Kinds
  /\ IF cancelled
     THEN result' = "U1003" /\ UNCHANGED <<calls, startTime>>
     ELSE /\ \E n \in 1..MaxLeft : calls' = <<NewCall("vm", n)>>
          /\ startTime' = StartTime /\ UNCHANGED result
  /\ UNCHANGED <<given, depth, raised>>

(***************************************************************************)
(* The evaluation.                                                         *)
(***************************************************************************)
\* What the innermost call has under way is done, or handed to another call.
Working  == Evaluating /\ IF Top.kind \in Loops \cup TailLoops THEN Top.busy ELSE Top.left > 0
OneDone  == IF Top.busy THEN [Top EXCEPT !.busy = FALSE] ELSE [Top EXCEPT !.left = @ - 1]

\* A node of evaluate_leaf, a callback that evaluates no node, a VM instruction.
Leaf ==
  /\ Working
  /\ calls' = WithTop(OneDone)
  /\ UNCHANGED <<given, outcome, depth, raised>>

Begin(kind) ==
  /\ Working /\ kind \in Inner(Top.kind) /\ Len(calls) < MaxCalls
  /\ IF Refusal(kind) # None
     THEN Raise(Refusal(kind), kind)
     ELSE /\ \E n \in IF kind \in TailLoops THEN {1} ELSE 0..MaxLeft :
               calls' = Append(WithTop(OneDone), NewCall(kind, n))
          /\ depth' = IF kind = "level" THEN depth + 1 ELSE depth
          /\ UNCHANGED <<given, outcome, raised>>

\* The next element of a higher-order builtin, or of FilterByBytecode.
NextElement ==
  /\ Evaluating /\ Top.kind \in Loops /\ ~ Top.busy /\ Top.left > 0
  /\ IF ElementRefusal(Top.kind) # None
     THEN Raise(ElementRefusal(Top.kind), Top.kind)
     ELSE /\ calls' = WithTop(InMiddle(Top.left - 1))
          /\ UNCHANGED <<given, outcome, depth, raised>>

\* A pass of run_tail_calls, after which the function tail calls another or not; a
\* match of $replace or of a custom matcher, whose `next` gives another or not.
NextPass ==
  /\ Evaluating /\ Top.kind \in TailLoops /\ ~ Top.busy /\ Top.left = 1
  /\ IF PassRefusal(Top.kind) # None
     THEN Raise(PassRefusal(Top.kind), Top.kind)
     ELSE /\ \E more \in {0, 1} : calls' = WithTop(InMiddle(more))
          /\ UNCHANGED <<given, outcome, depth, raised>>

\* The innermost call is over, with `error` on its way up (None: with a value).
Leave(error) ==
  /\ calls' = Front(calls) /\ depth' = DepthAfter(Top.kind)
  /\ IF Len(calls) = 1
     THEN result' = (IF error = None THEN "value" ELSE error) /\ raised' = None
     ELSE UNCHANGED <<result, raised>>
  /\ UNCHANGED <<given, startTime, began>>

Return ==
  /\ Evaluating /\ Top.left = 0 /\ ~ Top.busy
  /\ Leave(None)

\* Any other error of the program.
Fail ==
  /\ Evaluating
  /\ raised' = "error" /\ UNCHANGED <<calls, given, outcome, depth>>

Unwind ==
  /\ calls # <<>> /\ raised # None
  /\ Leave(raised)

(***************************************************************************)
(* CancelToken::cancel, in another thread or in a host function; time.     *)
(***************************************************************************)
Cancel ==
  /\ ~ cancelled /\ cancelled' = TRUE
  /\ UNCHANGED <<options, clock, outcome, depth, calls, raised>>

Tick ==
  /\ clock < MaxClock /\ clock' = clock + 1
  /\ UNCHANGED <<options, cancelled, outcome, depth, calls, raised>>

Step == Leaf \/ (\E kind \in Kinds : Begin(kind)) \/ NextElement \/ NextPass \/ Return \/ Fail \/ Unwind
Next == Evaluate \/ RunVm \/ Step \/ Cancel \/ Tick
Spec == Init /\ [][Next]_vars

\* The evaluating thread goes on; nobody has to cancel, and the host to evaluate.
FairSpec == Spec /\ WF_vars(Step)

-----------------------------------------------------------------------------
TypeOK ==
  /\ options \in OptionSets /\ cancelled \in BOOLEAN /\ clock \in 0..MaxClock
  /\ startTime \in {None} \cup 0..MaxClock
  /\ depth \in 0..MaxEvalDepth
  /\ calls \in Seq(Call) /\ Len(calls) <= MaxCalls
  /\ raised \in {None} \cup Codes /\ result \in {"value"} \cup Codes
  /\ began \in [at : 0..MaxClock, cancelled : BOOLEAN]

\* recursion_depth counts the levels under way, on every way out of with_checkpoint:
\* one too many, and an evaluator used again overflows early; one too few, late.
DepthExact == depth = Cardinality(Levels)

\* The level a refused node would have been is the first beyond the limit.
DepthWithinLimit == depth <= EffectiveLimit

\* start_time is that of the evaluation under way.
TimedFromBegin == (~ Idle /\ options.timeout # None) => startTime = began.at

\* Each of the codes is raised for its reason only: U1003 once somebody has
\* cancelled, D1012 once *this* evaluation has run too long (an evaluator is used
\* again), D1011 and U1001 with as many levels under way as the limit allows.
RaisedWithReason ==
  [][raised = None =>
       /\ raised' = "U1003" => cancelled
       /\ raised' = "D1012" => clock - began.at > options.timeout
       /\ raised' \in {"D1011", "U1001"} => Cardinality(Levels) = EffectiveLimit]_vars

\* Once cancelled, no node is begun, no element handed to a callback and no pass of
\* a tail-call loop made: "the evaluation raises U1003 at its next checkpoint: each
\* node it evaluates, each element ..., and each pass" (CancelToken's doc comment).
NothingBegunOnceCancelled ==
  [][cancelled /\ ~ Idle =>
       /\ Len(calls') > Len(calls) => Last(calls').kind \notin {"level", "compiled"}
       /\ Len(calls') = Len(calls) => ~ (~ Top.busy /\ Last(calls').busy)]_vars

\* What a call may still do in an evaluation that has to end: a loop gets no further
\* than the element or pass it is in the middle of, and that may begin one more call.
Ahead(call) ==
  IF call.kind \in Loops \cup TailLoops
  THEN IF call.busy THEN 2 * MaxLeft + 3 ELSE 1
  ELSE 2 * call.left + 1

\* So many steps at most are left of the evaluation; an error only unwinds.
StepsLeft ==
  IF raised # None \/ Idle THEN Len(calls)
  ELSE 1 + Cardinality({at \in (DOMAIN calls) \X (1 .. 2 * MaxLeft + 3) : at[2] <= Ahead(calls[at[1]])})

ToldToEnd == ~ Idle /\ (cancelled \/ Overdue(began.at))

\* An evaluation that is cancelled, or has run longer than its timeout, has a number of
\* steps left, whatever it is doing: each takes one away, and no step takes the order
\* back.  A loop that goes round without a check would break this (with_checkpoint,
\* check_loop_timeout and their callers).
StepsRunOut ==
  [][ToldToEnd =>
       /\ ToldToEnd' \/ Idle'
       /\ <<calls, raised>>' # <<calls, raised>> => StepsLeft' < StepsLeft]_vars

\* So an evaluation does as it is told: at once nothing new is begun, and then it runs out.
StopsWhenTold == NothingBegunOnceCancelled /\ StepsRunOut

\* An evaluation that is cancelled, or that has run longer than its timeout, ends.
CancelStops  == (cancelled /\ ~ Idle) ~> Idle
TimeoutStops == (Overdue(began.at) /\ ~ Idle) ~> Idle
EndsWhenTold == CancelStops /\ TimeoutStops
=============================================================================
