-------------------------------- MODULE Calls --------------------------------
(***************************************************************************)
(* Evaluations of arbitrary programs, as far as scopes go: blocks, closures*)
(* and bindings, calls, the tail-call trampoline, higher-order builtins,   *)
(* compositions, `$eval`, errors, and an evaluator used again.  Models the *)
(* calling code of src/src/evaluator.rs on the stack of ScopeStack.        *)
(*                                                                         *)
(* A program is nondeterminism: in the body it runs, every kind of         *)
(* expression of Forms may come next.  `ctl` holds the Rust functions that *)
(* are active, innermost last, with the locals they restore; `hand` is the *)
(* value of the expression just evaluated, that the next one may use.      *)
(***************************************************************************)
EXTENDS Closures

CONSTANTS
  Param,     \* the name of every function's parameter
  Forms,     \* the kinds of expression programs use, of AllForms
  MaxCalls   \* bound: how many activations nest

AllForms == {"tail", "plain", "capture", "block", "assign", "hof", "sort", "eval",
             "compose", "host", "foreign", "error"}

ASSUME CallsAssumption ==
  /\ Param \in Names
  /\ Forms \subseteq AllForms
  /\ MaxCalls \in Nat

VARIABLES
  stack,         \* Context::scope_stack
  nextId,        \* Context::next_scope_id
  tailBase,      \* Context::tail_base
  callbackBase,  \* Context::callback_base: <<base, at>>, <<0, 0>> for None
  heap, outer,   \* the closures and the tokens alive
  ctl,           \* active functions of the evaluator
  hand,          \* the value in hand
  mode           \* "idle", "run", or "err" while an error unwinds

vars == <<stack, nextId, tailBase, callbackBase, heap, outer, ctl, hand, mode>>
bases == <<tailBase, callbackBase>>

Kinds == {"evaluate", "block", "merge", "call", "tramp", "args", "hof", "eval", "first",
          "tail"}

\* `frames` are the frames it has pushed, `saved` what it restores; `height`,
\* which the code does not keep, is the stack's height when it started.
Activation == [kind: Kinds, fn: Value, arg: Value, stage: {"f", "g", "end"},
               frames: Nat, saved: Nat \X Nat, height: Nat]

Act(kind, pushes) ==
  [kind |-> kind, fn |-> Data, arg |-> Data, stage |-> "f",
   frames |-> pushes, saved |-> <<0, 0>>, height |-> Len(stack)]

TypeOK ==
  /\ stack \in Seq(Frame) /\ Len(stack) >= 1
  /\ nextId \in Nat /\ tailBase \in Nat /\ callbackBase \in Nat \X Nat
  /\ heap \in [Fns -> Closure] /\ outer \in [Ids -> Nat]
  /\ ctl \in Seq(Activation)
  /\ hand \in Value
  /\ mode \in {"idle", "run", "err"}
-----------------------------------------------------------------------------
Here  == ctl[Len(ctl)]
Below == SubSeq(ctl, 1, Len(ctl) - 1)
With(c, act) == Append(c, act)

Running(kinds) == mode = "run" /\ ctl # <<>> /\ Here.kind \in kinds

\* The activations whose body is the program's own code.
InBody == Running({"evaluate", "block", "merge", "call", "tramp", "eval"})

CanPush == nextId <= MaxId
CanCall == CanPush /\ Len(ctl) < MaxCalls

\* The values at hand for the next expression: the last one and the variables.
Avail == {hand, Data} \cup ({Lookup(stack, Top(stack), n) : n \in Names} \ {Unbound})

\* What the evaluator's locals refer to.  The closure a call runs is left out:
\* it is older than the frames of its call, so it sees none of them, and it is
\* gone again when a frame below is up for reuse.
Held(c, v) == Fns \cap ({v} \cup UNION {{c[i].fn, c[i].arg} : i \in 1 .. Len(c)})

\* The state after a step: what lost its last reference has been dropped.
Settle(s, h, o, c, v) ==
  LET live == Live(s, h, o, Held(c, v))
  IN  /\ stack' = s /\ ctl' = c /\ hand' = v
      /\ heap'  = [f \in Fns |-> IF f \in live THEN h[f] ELSE FreeSlot]
      /\ outer' = [t \in Ids |-> IF t \in live THEN o[t] ELSE 0]

SettleStack(s, c, v) == Settle(s, heap, outer, c, v)

\* Context::push_scope: a frame in the scope of the one on top.
BlockFrame == NewFrame(nextId, NoBarrier, Sees(stack, Top(stack)))

Pop(s) == IF Top(s) > Root THEN Cut(s, Top(s) - 1) ELSE s
-----------------------------------------------------------------------------
(***************************************************************************)
(* Evaluator::evaluate, and what the host does between evaluations.        *)
(***************************************************************************)
Init ==
  /\ \E foreign \in SUBSET Fns :
       /\ Cardinality(foreign) <= IF "foreign" \in Forms THEN 1 ELSE 0
       /\ heap = [f \in Fns |->
            IF f \in foreign
            THEN [FreeSlot EXCEPT !.kind = "lambda", !.thunk = TRUE,
                                  !.foreign = TRUE, !.chain = {<<2, 1>>}]
            ELSE FreeSlot]
       /\ hand \in IF foreign = {} THEN {Data} ELSE foreign
  /\ stack = <<NewFrame(0, NoBarrier, {})>>
  /\ nextId = 1 /\ tailBase = Root /\ callbackBase = <<0, 0>>
  /\ outer = [t \in Ids |-> 0]
  /\ ctl = <<>> /\ mode = "idle"

\* The host binds a function it got for the evaluations to come.
HostBind(n) ==
  /\ mode = "idle" /\ "host" \in Forms
  /\ hand \in Fns
  /\ SettleStack([stack EXCEPT ![Root].bind[n] = hand], ctl, Data)
  /\ UNCHANGED <<nextId, bases, mode>>

\* Each evaluation runs in a frame of its own, so nothing it binds outlives it.
OwnFrame(s) == Append(s, BlockFrame)

Evaluate ==
  /\ mode = "idle" /\ CanPush
  /\ mode' = "run" /\ nextId' = nextId + 1
  /\ SettleStack(OwnFrame(stack),
                 <<[Act("evaluate", 1) EXCEPT !.saved = <<Len(stack), 0>>]>>, Data)
  /\ UNCHANGED bases

\* Faults: only the evaluation's own frame is popped, and one too many is.
PopOwnFrame(s, act) == Pop(s)
OneTooMany(s, act)  == Cut(s, act.saved[1] - 1)

\* The frames left when the evaluation `act` returns.
AtEntry(s, act) == Cut(s, act.saved[1])

Finish(v) ==
  /\ mode \in {"run", "err"} /\ Len(ctl) = 1
  /\ mode = "err" => v = Data
  /\ mode' = "idle"
  /\ SettleStack(AtEntry(stack, Here), <<>>, v)
  /\ UNCHANGED <<nextId, bases>>
-----------------------------------------------------------------------------
(***************************************************************************)
(* Blocks, closures and bindings.                                          *)
(***************************************************************************)
EnterBlock ==
  /\ InBody /\ "block" \in Forms /\ CanCall
  /\ nextId' = nextId + 1
  /\ SettleStack(Append(stack, BlockFrame), With(ctl, Act("block", 1)), Data)
  /\ UNCHANGED <<bases, mode>>

ExitBlock(v) ==
  /\ Running({"block"})
  /\ SettleStack(Pop(stack), Below, v)
  /\ UNCHANGED <<nextId, bases, mode>>

(***************************************************************************)
(* `$sort` with a comparator written in place: each merge pushes one scope *)
(* and clears it for every comparison, whose body then runs in it.  The id *)
(* of the first comparison stands for the one push_scope gives too, Param  *)
(* for both parameters; `item` is an element that is sorted.               *)
(***************************************************************************)
\* A fault: a scope cleared keeps its id.
ClearedWithItsId(f, v) == [f EXCEPT !.bind = [NoBindings EXCEPT ![Param] = v]]

\* Context::clear_current_scope and the comparison's own bindings.
Cleared(f, v) == [f EXCEPT !.id = nextId, !.bind = [NoBindings EXCEPT ![Param] = v]]

StartMerge(item) ==
  /\ InBody /\ "sort" \in Forms /\ CanCall
  /\ nextId' = nextId + 1
  /\ SettleStack(Append(stack, Cleared(BlockFrame, item)),
                 With(ctl, [Act("merge", 1) EXCEPT !.arg = item]), Data)
  /\ UNCHANGED <<bases, mode>>

NextComparison(v) ==
  /\ Running({"merge"}) /\ CanPush
  /\ v \in {Here.arg, Data}
  /\ nextId' = nextId + 1
  /\ SettleStack([stack EXCEPT ![Top(stack)] = Cleared(@, v)], ctl, Data)
  /\ UNCHANGED <<bases, mode>>

\* A fault: the scope stays when the merge is over.
MergeScopeStays(v) ==
  /\ Running({"merge"})
  /\ SettleStack(stack, Below, v)
  /\ UNCHANGED <<nextId, bases, mode>>

EndMerge(v) ==
  /\ Running({"merge"})
  /\ SettleStack(Pop(stack), Below, v)
  /\ UNCHANGED <<nextId, bases, mode>>

FreeFns == {f \in Fns : heap[f].kind = "free"}
Pick(S) == CHOOSE f \in S : TRUE

\* Context::def_scope makes the tokens of the trampoline frames it sees.
Tokenised(s) ==
  [p \in 1 .. Len(s) |->
     IF p \in TokensMadeAt(s, Top(s)) THEN [s[p] EXCEPT !.token = TRUE] ELSE s[p]]

OuterTokens(s) ==
  LET made == TokensMadeAt(s, Top(s))
  IN  [t \in Ids |->
         IF \E p \in made : s[p].id = t
         THEN NextTcoId(s, CHOOSE p \in made : s[p].id = t)
         ELSE outer[t]]

MadeHere == [FreeSlot EXCEPT !.chain = Chain(stack), !.keep = KeptAt(stack, Top(stack))]

\* A fault: a function captures its own name too.
CaptureItself(f, self, free) ==
  [n \in Names |-> IF n \in self THEN f
                   ELSE IF n \in free THEN Lookup(stack, Top(stack), n) ELSE Unbound]

\* A function f captures the names in `free` by value, and not itself.
CaptureEnvironment(f, self, free) ==
  [n \in Names |-> IF n \in free THEN Lookup(stack, Top(stack), n) ELSE Unbound]

\* A function expression, bound to the name in `self` if there is one.
Define(self, thunk, free) ==
  LET f == Pick(FreeFns)
      c == [MadeHere EXCEPT !.kind = "lambda", !.thunk = thunk, !.self = self,
                            !.env = CaptureEnvironment(f, self, free)]
      s == Tokenised(stack)
  IN  /\ InBody /\ FreeFns # {}
      /\ IF thunk THEN "tail" \in Forms ELSE "plain" \in Forms
      /\ free = {} \/ "capture" \in Forms
      /\ Settle([s EXCEPT ![Top(s)].bind =
                   [n \in Names |-> IF n \in self THEN f ELSE @[n]]],
                [heap EXCEPT ![f] = c], OuterTokens(stack), ctl, f)
      /\ UNCHANGED <<nextId, bases, mode>>

Assign(n, v) ==
  /\ InBody /\ "assign" \in Forms
  /\ SettleStack([stack EXCEPT ![Top(stack)].bind[n] = v], ctl, Data)
  /\ UNCHANGED <<nextId, bases, mode>>
-----------------------------------------------------------------------------
(***************************************************************************)
(* Calls.  Apply(c, fn, arg) starts a call that is not a tail call, of the *)
(* activations c: invoke_lambda_with_env, or for a function with tail      *)
(* calls invoke_lambda_with_tco and the first pass of run_tail_calls.      *)
(***************************************************************************)
\* Faults: the height of the stack is taken for its top frame's index, and a
\* frame keeps the id of the one below.
BarrierAsHeight(c, barrier, home, bind) ==
  [NewFrame(nextId, barrier + 1, home)
     EXCEPT !.internal = Internal(c), !.opaque = Opaque(c), !.bind = bind]

FrameKeepsId(c, barrier, home, bind) ==
  [NewFrame(stack[Top(stack)].id, barrier, home)
     EXCEPT !.internal = Internal(c), !.opaque = Opaque(c), !.bind = bind]

CallFrame(c, barrier, home, bind) ==
  [NewFrame(nextId, barrier, home)
     EXCEPT !.internal = Internal(c), !.opaque = Opaque(c), !.bind = bind]

\* The frame of a call that a trampoline runs.
TailCallFrame(c, barrier, home, bind) ==
  [CallFrame(c, barrier, home, bind) EXCEPT !.tco = TRUE]

\* The captured names, then the function's own, then its parameter.
BodyBindings(fn, arg) ==
  IF heap[fn].kind # "lambda" THEN NoBindings
  ELSE [n \in Names |-> IF n = Param THEN arg
                        ELSE IF n \in heap[fn].self THEN fn
                        ELSE heap[fn].env[n]]

CallPlain(c, fn, arg) ==
  LET kind == IF heap[fn].kind = "first" THEN "first" ELSE "call"
  IN  /\ ~ heap[fn].thunk
      /\ SettleStack(
           Append(stack, CallFrame(heap[fn], BarrierFor(stack, heap[fn]),
                                   HomeOf(stack, heap[fn]), BodyBindings(fn, arg))),
           With(c, IF kind = "first"
                   THEN [Act("first", 1) EXCEPT !.fn = heap[fn].f, !.arg = arg]
                   ELSE Act("call", 1)),
           Data)
      /\ UNCHANGED bases

\* Faults: the base is taken after the frame is pushed, and a builtin's base
\* goes to every trampoline under it.
BaseAfterPush == IF callbackBase[2] = Len(stack) THEN callbackBase[1] ELSE Len(stack) + 1
BaseOfAnyCallback == IF callbackBase[2] # 0 THEN callbackBase[1] ELSE Len(stack)

\* The frame a trampoline entered now starts from.
EntryBase == IF callbackBase[2] = Len(stack) THEN callbackBase[1] ELSE Len(stack)

\* The body of a composition, or its call in tail position.
Composition(fn, arg) == [Act("tail", 0) EXCEPT !.fn = fn, !.arg = arg]

CallTrampoline(c, fn, arg) ==
  LET barrier == IF AtCaller(heap[fn]) THEN EntryBase ELSE BarrierFor(stack, heap[fn])
      tramp   == [Act("tramp", 1) EXCEPT !.saved = <<tailBase, 0>>]
      body    == IF AtCaller(heap[fn])
                 THEN <<tramp, [Composition(fn, arg) EXCEPT !.height = Len(stack) + 1]>>
                 ELSE <<tramp>>
      home    == IF AtCaller(heap[fn]) THEN Sees(stack, EntryBase) ELSE HomeOf(stack, heap[fn])
  IN  /\ heap[fn].thunk
      /\ tailBase' = EntryBase
      /\ SettleStack(
           Append(stack, TailCallFrame(heap[fn], barrier, home, BodyBindings(fn, arg))),
           c \o body, Data)
      /\ UNCHANGED callbackBase

Apply(c, fn, arg) ==
  /\ CanCall /\ nextId' = nextId + 1 /\ UNCHANGED mode
  /\ CallPlain(c, fn, arg) \/ CallTrampoline(c, fn, arg)

Call(fn, arg) ==
  /\ InBody
  /\ Apply(ctl, fn, arg)

\* The end of a function's body.
Return(v) ==
  /\ Running({"call"})
  /\ SettleStack(Pop(stack), Below, v)
  /\ UNCHANGED <<nextId, bases, mode>>

\* Context::tail_base once the activation `act` is over.
TailBaseAfter(act) == IF act.kind = "tramp" THEN act.saved[1] ELSE tailBase

\* The body of a tail-call loop gives a value: the trampoline pops its frames.
LeaveTrampoline(c, v) ==
  LET tramp == c[Len(c)]
  IN  /\ SettleStack(Cut(stack, Top(stack) - tramp.frames), SubSeq(c, 1, Len(c) - 1), v)
      /\ tailBase' = TailBaseAfter(tramp)
      /\ UNCHANGED <<nextId, callbackBase>>

ReturnFromTrampoline(v) ==
  /\ Running({"tramp"})
  /\ LeaveTrampoline(ctl, v)
  /\ UNCHANGED mode

\* The timeout, checked on every pass of the loop (D1012).
TailTimeout ==
  /\ Running({"tramp"})
  /\ LeaveTrampoline(ctl, Data)
  /\ mode' = "err"

(***************************************************************************)
(* A tail call of fn, with the trampoline last in c: enter_tail_call.  Its *)
(* loop looks at the trampoline's frames from the top.  It stops at the    *)
(* first that is the callee's defining scope or still seen, to put the     *)
(* callee's frame above it, or at the trampoline's first frame, which it   *)
(* clears for the callee; the frames it passes are popped.                 *)
(***************************************************************************)
MustStay(s, barrier, held) ==
  barrier >= Top(s) \/ StillSeen(s, heap, outer, held)

TailCall(c, fn, arg) ==
  LET tramp   == c[Len(c)]
      first   == Top(stack) - tramp.frames + 1
      held    == Held(SubSeq(c, 1, Len(c) - 1), fn) \cup ({arg} \cap Fns)
      barrier == BarrierFor(stack, heap[fn])
      stop    == Highest({p \in first .. Top(stack) :
                            p = first \/ MustStay(Cut(stack, p), barrier, held)})
      s       == Cut(stack, stop)
      stays   == MustStay(s, barrier, held)
      judged  == [s EXCEPT ![stop].seenAt =
                    IF barrier >= stop THEN @ ELSE TokenCount(s, heap, outer, held)]
      home    == HomeOf(IF stays THEN s ELSE Cut(s, stop - 1), heap[fn])
      frame   == TailCallFrame(heap[fn], barrier, home, BodyBindings(fn, arg))
  IN  /\ CanPush /\ heap[fn].thunk /\ ~ AtCaller(heap[fn])
      /\ SettleStack(IF stays THEN Append(judged, frame) ELSE [s EXCEPT ![stop] = frame],
                     [c EXCEPT ![Len(c)].frames =
                        stop - first + (IF stays THEN 2 ELSE 1)],
                     Data)
      /\ nextId' = nextId + 1
      /\ UNCHANGED <<bases, mode>>

CallInTailPosition(fn, arg) ==
  /\ Running({"tramp"})
  /\ TailCall(ctl, fn, arg)
-----------------------------------------------------------------------------
(***************************************************************************)
(* Higher-order builtins.  Their callback runs above an internal frame that*)
(* holds their value arguments (with_value_args).  As a tail call, such a  *)
(* builtin makes its callbacks' own chains begin at the trampoline's base. *)
(***************************************************************************)
\* The value of the trampoline's body is whatever comes next.
LastValue == With(ctl, [Act("tail", 0) EXCEPT !.stage = "end"])

WithInternal == Append(stack, [BlockFrame EXCEPT !.internal = TRUE])

CallHof(fn) ==
  /\ InBody /\ "hof" \in Forms /\ CanCall
  /\ nextId' = nextId + 1
  /\ SettleStack(WithInternal, With(ctl, [Act("args", 1) EXCEPT !.fn = fn]), Data)
  /\ UNCHANGED <<bases, mode>>

TailCallHof(fn) ==
  /\ Running({"tramp"}) /\ "hof" \in Forms /\ CanCall
  /\ fn \in Fns /\ heap[fn].thunk
  /\ nextId' = nextId + 1
  /\ callbackBase' = <<tailBase, Len(stack) + 1>>
  /\ SettleStack(WithInternal,
                 With(LastValue, [Act("hof", 1) EXCEPT !.fn = fn, !.saved = callbackBase]), Data)
  /\ UNCHANGED <<tailBase, mode>>

ApplyCallback(arg) ==
  /\ Running({"args", "hof"}) /\ Here.fn \in Fns
  /\ Apply(ctl, Here.fn, arg)

CallbackBaseAfter(act) == IF act.kind = "hof" THEN act.saved ELSE callbackBase

FinishHof(v) ==
  /\ Running({"args", "hof"})
  /\ SettleStack(Pop(stack), Below, v)
  /\ callbackBase' = CallbackBaseAfter(Here)
  /\ UNCHANGED <<nextId, tailBase, mode>>
-----------------------------------------------------------------------------
(***************************************************************************)
(* `$eval`: eval_from_values_at.  The program it evaluates is the body of  *)
(* an "eval" activation, run in the frame of its caller, or in one above   *)
(* the evaluator's own frames whose bindings go to the caller's after.     *)
(***************************************************************************)
StartEval(c, from) ==
  LET at == FrameBelowInternal(stack, from)
  IN  /\ CanCall /\ UNCHANGED <<bases, mode>>
      /\ IF at = Top(stack)
         THEN /\ SettleStack(stack, With(c, Act("eval", 0)), Data)
              /\ UNCHANGED nextId
         ELSE /\ SettleStack(Append(stack, NewFrame(nextId, at, Sees(stack, at))),
                   With(c, [Act("eval", 1) EXCEPT !.saved =
                      <<at, IF OpaqueOnTheWay(stack, from) THEN 1 ELSE 0>>]),
                   Data)
              /\ nextId' = nextId + 1

\* A fault: a frame whose bindings go nowhere is left on the stack.
OpaqueFrameLeft(s, act) ==
  IF act.frames = 0 \/ act.saved[2] = 1 THEN s ELSE PopInto(s, act.saved[1])

AfterEval(s, act) ==
  IF act.frames = 0 THEN s
  ELSE IF act.saved[2] = 1 THEN Pop(s)
  ELSE PopInto(s, act.saved[1])

CallEval ==
  /\ InBody /\ "eval" \in Forms
  /\ StartEval(ctl, Top(stack))

ApplyEval ==
  /\ Running({"args"}) /\ Here.fn = EvalFn
  /\ StartEval(ctl, Top(stack))

\* The trampoline applies it in the frame it was entered from.
TailCallEval ==
  /\ Running({"tramp"}) /\ "eval" \in Forms
  /\ StartEval(LastValue, tailBase)

FinishEval(v) ==
  /\ Running({"eval"})
  /\ SettleStack(AfterEval(stack, Here), Below, v)
  /\ UNCHANGED <<nextId, bases, mode>>

UseEval ==   \* `$eval` as a value
  /\ InBody /\ "eval" \in Forms /\ hand # EvalFn
  /\ SettleStack(stack, ctl, EvalFn)
  /\ UNCHANGED <<nextId, bases, mode>>
-----------------------------------------------------------------------------
(***************************************************************************)
(* Compositions: compose_functions makes `f ~> g`; a "tail" activation is  *)
(* its body g(f(x)), a tail call of g, and tail_call_composition.          *)
(***************************************************************************)
Compose(f, g) ==
  LET first == Pick(FreeFns)
      comp  == Pick(FreeFns \ {first})
      h     == [heap EXCEPT
                 ![first] = [MadeHere EXCEPT !.kind = "first", !.f = f],
                 ![comp]  = [FreeSlot EXCEPT !.kind = "comp", !.thunk = TRUE,
                                             !.f = first, !.g = g]]
  IN  /\ InBody /\ "compose" \in Forms
      /\ Cardinality(FreeFns) >= 2
      /\ Settle(Tokenised(stack), h, OuterTokens(stack), ctl, comp)
      /\ UNCHANGED <<nextId, bases, mode>>

TailCallComposition(fn, arg) ==
  /\ Running({"tramp"}) /\ Len(ctl) < MaxCalls
  /\ AtCaller(heap[fn])
  /\ SettleStack(stack, With(ctl, Composition(fn, arg)), Data)
  /\ UNCHANGED <<nextId, bases, mode>>

Stage(st) == [ctl EXCEPT ![Len(ctl)].stage = st, ![Len(ctl)].arg = Data]

ComposeFirst ==
  /\ Running({"tail"}) /\ Here.stage = "f"
  /\ Here.fn \in Fns /\ heap[Here.fn].f \in Fns
  /\ Apply(Stage("g"), heap[Here.fn].f, Here.arg)

\* The function `first` calls f on its argument.
FirstCalls ==
  /\ Running({"first"}) /\ Here.stage = "f"
  /\ \/ Here.fn \in Fns /\ Apply(Stage("end"), Here.fn, Here.arg)
     \/ Here.fn = EvalFn /\ StartEval(Stage("end"), Top(stack))

ReturnFromFirst ==
  /\ Running({"first"}) /\ Here.stage = "end"
  /\ SettleStack(Pop(stack), Below, hand)
  /\ UNCHANGED <<nextId, bases, mode>>

ComposeSecond ==
  LET g == heap[Here.fn].g
  IN  /\ Running({"tail"}) /\ Here.stage = "g" /\ Here.fn \in Fns
      /\ \/ /\ g \in Fns /\ AtCaller(heap[g])
            /\ SettleStack(stack, With(Below, Composition(g, hand)), Data)
            /\ UNCHANGED <<nextId, bases, mode>>
         \/ g \in Fns /\ TailCall(Below, g, hand)
         \/ g \in Fns /\ ~ heap[g].thunk /\ Apply(Stage("end"), g, hand)
         \/ g = EvalFn /\ StartEval(Stage("end"), tailBase)

ReturnLast ==
  /\ Running({"tail"}) /\ Here.stage = "end"
  /\ LeaveTrampoline(Below, hand)
  /\ UNCHANGED mode
-----------------------------------------------------------------------------
(***************************************************************************)
(* Errors.  Nothing catches one before `evaluate` returns it; each active  *)
(* function undoes what it undoes on its way out.  A trampoline restores   *)
(* tail_base, but leaves its frames to the truncation in `evaluate`.       *)
(***************************************************************************)
Fail ==
  /\ mode = "run" /\ mode' = "err" /\ "error" \in Forms
  /\ SettleStack(stack, ctl, Data)
  /\ UNCHANGED <<nextId, bases>>

Unwind ==
  /\ mode = "err" /\ Len(ctl) > 1
  /\ SettleStack(
       CASE Here.kind \in {"block", "call", "first", "args", "hof"} -> Pop(stack)
         [] Here.kind = "eval" -> AfterEval(stack, Here)
         [] OTHER -> stack,
       Below, Data)
  /\ tailBase' = TailBaseAfter(Here)
  /\ callbackBase' = CallbackBaseAfter(Here)
  /\ UNCHANGED <<nextId, mode>>
-----------------------------------------------------------------------------
Next ==
  \/ Evaluate \/ \E n \in Names : HostBind(n)
  \/ \E v \in Avail : Finish(v) \/ ExitBlock(v) \/ Return(v) \/ ReturnFromTrampoline(v)
  \/ EnterBlock
  \/ \E v \in Avail : StartMerge(v) \/ EndMerge(v)
  \/ \E v \in Value : NextComparison(v)
  \/ \E self \in {{}} \cup {{n} : n \in Names \ {Param}}, thunk \in BOOLEAN,
        free \in SUBSET (Names \ {Param}) : Define(self, thunk, free)
  \/ \E n \in Names, v \in Avail : Assign(n, v)
  \/ LET avail == Avail
     IN  \E fn \in avail \cap Fns, arg \in avail :
           Call(fn, arg) \/ CallInTailPosition(fn, arg) \/ TailCallComposition(fn, arg)
  \/ TailTimeout
  \/ \E fn \in Avail \ {Data} : CallHof(fn) \/ TailCallHof(fn)
  \/ \E v \in {hand, Data} : ApplyCallback(v) \/ FinishHof(v)
  \/ CallEval \/ ApplyEval \/ TailCallEval \/ UseEval
  \/ \E v \in Avail : FinishEval(v)
  \/ LET fns == Avail \ {Data} IN \E f, g \in fns : Compose(f, g)
  \/ ComposeFirst \/ FirstCalls \/ ReturnFromFirst
  \/ ComposeSecond \/ ReturnLast
  \/ Fail \/ Unwind

Spec == Init /\ [][Next]_vars
-----------------------------------------------------------------------------
(***************************************************************************)
(* What must hold.                                                         *)
(***************************************************************************)
\* Every barrier is below its own frame, and ids grow from the root up: a
\* lookup ends, and no two frames are taken for each other.
BarriersBelow ==
  /\ \A p \in 1 .. Len(stack) : stack[p].barrier < p
  /\ stack[Root].barrier = NoBarrier

IdsGrow ==
  /\ \A p, q \in 1 .. Len(stack) : p < q => stack[p].id < stack[q].id
  /\ stack[Len(stack)].id < nextId

FramesInOrder == BarriersBelow /\ IdsGrow

\* A frame's code looks names up in the frames it is written in, however many
\* callers' frames, frames kept and frames reused lie between.
LexicalScope ==
  \A p \in 1 .. Len(stack) : Sees(stack, p) = {stack[p].id} \cup stack[p].home

\* Between evaluations, after an error too, the host finds its own frame only,
\* and no tail call's base is left behind.
EntryRestored ==
  mode = "idle" => Len(stack) = 1 /\ tailBase = Root /\ callbackBase = <<0, 0>>

\* What an evaluation binds, it binds above the host's frame.
HostFrameUntouched ==
  [][mode # "idle" => stack'[Root].bind = stack[Root].bind]_vars

\* Each active function has pushed just the frames it counts: a successful
\* evaluation pops every scope it pushes.
StackBalanced ==
  LET above(i) == ctl[i].height + ctl[i].frames
  IN  /\ \A i \in 1 .. Len(ctl) - 1 : ctl[i + 1].height = above(i)
      /\ ctl # <<>> => Len(stack) >= above(Len(ctl))
      /\ ctl # <<>> /\ mode = "run" => Len(stack) = above(Len(ctl))

\* The tokens a closure holds keep every trampoline frame it can see.
KeepsWhatItSees ==
  \A f \in {g \in Fns : heap[g].kind \in {"lambda", "first"} /\ ~ heap[g].foreign} :
    \A p \in {q \in StillOnStack(stack, heap[f].chain) : stack[q].tco} :
      stack[p].id \in Reachable(heap, outer, {heap[f].keep} \ {0})

\* A step in which a trampoline makes a tail call.
TailStep ==
  LET n == Len(ctl')
  IN  /\ mode = "run" /\ mode' = "run"
      /\ n > 0 /\ Len(ctl) \in {n, n + 1} /\ ctl'[n].kind = "tramp"
      /\ ctl[n].kind = "tramp" /\ nextId' # nextId

\* A tail call never takes a frame from a closure that can see it.
NoFrameReusedWhileSeen ==
  [][TailStep =>
       \A p \in 1 .. Len(stack) :
         \/ p <= Len(stack') /\ stack'[p].id = stack[p].id
         \/ \A f \in Fns : heap'[f].foreign \/ <<p, stack[p].id>> \notin heap'[f].chain]_vars

\* It keeps the frame before it only for its callee or a closure that sees it,
\* so tail loops run in the frames their closures need.
TailLoopsStayFlat ==
  [][TailStep /\ ctl'[Len(ctl')].frames > 1 =>
       LET q == Len(stack') - 1
       IN  \/ stack'[q + 1].barrier = q
           \/ \E f \in Fns : <<q, stack'[q].id>> \in heap'[f].chain]_vars

\* So a trampoline's frame is used again where nothing can see it, and only there.
FrameReusedIffUnseen == NoFrameReusedWhileSeen /\ TailLoopsStayFlat

\* No closure holds on to itself, so dropping the last handle frees it.
NoCycles ==
  \A f \in Fns : f \notin Reachable(heap, outer, References(heap, outer, f))

\* Frames the evaluator names by their index alone are the ones it named.
IndexedFrames(i) ==
  IF ctl[i].kind = "eval" THEN {ctl[i].saved[1]} \ {0}
  ELSE IF ctl[i].kind = "tramp" THEN {ctl[i].saved[1]} \cup {tailBase}
  ELSE {}

IndicesStayTrue ==
  [][\A i \in {j \in DOMAIN ctl \cap DOMAIN ctl' : ctl'[j].kind = ctl[j].kind} :
       \A p \in IndexedFrames(i) : stack'[p].id = stack[p].id]_vars

\* `tail_base` is the frame the innermost trampoline was entered from, and for a
\* callback that a builtin in tail position applies, the one the trampoline of
\* the builtin was entered from.
Trampolines == {i \in DOMAIN ctl : ctl[i].kind = "tramp"}

TailBaseExact ==
  tailBase =
    IF Trampolines = {} THEN Root
    ELSE LET i == Highest(Trampolines)
         IN  IF ctl[i - 1].kind = "hof" THEN ctl[i].saved[1] ELSE ctl[i].height
-----------------------------------------------------------------------------
(***************************************************************************)
(* The scopes implement environments.                                      *)
(***************************************************************************)
ActiveEnvironments ==
  [p \in 1 .. Len(stack) |->
     [id |-> stack[p].id, home |-> stack[p].home, sees |-> Sees(stack, p)]]

ScopeOfFunction ==
  [f \in Fns |->
     IF heap[f].kind = "free" THEN {}
     ELSE IF heap[f].foreign THEN {0}
     ELSE {0} \cup {pair[2] : pair \in heap[f].chain}]

Env == INSTANCE Environments WITH
  Functions <- Fns, EnvIds <- Ids, TopEnv <- 0,
  active <- ActiveEnvironments, scope <- ScopeOfFunction, used <- 1 .. nextId - 1

ImplementsEnvironments == Env!Spec
=============================================================================
