# Verification of jsonata-core

Specifications in TLA+ of jsonata-core (the Rust JSONata engine in `src/`), the
configurations that check them with TLC, and theorems about them that TLAPS
proves. Line numbers are those of the source files under `src/src/`; every
definition that models code names its lines in `PROJECT.json` (`map`).

1. [The system](#1-the-system): components, their state, what makes them correct
2. [Modules](#2-modules): which models what, and how to read them against the code
3. [Runs](#3-runs): what is checked, with which bounds, and what it shows
4. [Proofs](#4-proofs): what holds for every instance, and along which argument
5. [Where code and documentation disagree](#5-where-code-and-documentation-disagree)
6. [Not modelled](#6-not-modelled)
7. [Plan](#7-plan)

To check it: `tlc -config TailLoops.cfg MCCalls` (and so on, see the table of runs)
and `tlapm CallsProofs.tla`.

## 1. The system

A JSONata expression is text. `parser.rs` makes a syntax tree of it,
`ast_transform.rs` resolves ancestry (`%`) and marks tail calls, and one of two
engines runs it over a JSON value:

* the **tree-walking evaluator** (`evaluator.rs`), which runs everything;
* the **virtual machine** (`compiler.rs`, `vm.rs`): the subset that
  `try_compile_expr` accepts becomes a `CompiledExpr`, that becomes bytecode, and
  a peephole pass shortens it. The evaluator uses the `CompiledExpr` too, directly
  (`eval_compiled`), for bodies of functions, predicates and path steps.

The front ends choose: `expression.rs` (Rust), `capi.rs` (C ABI), `lib.rs` with
`lazy.rs` and `pystack.rs` (Python), `bin/jsonata` (command line).

An evaluation is one thread's business (values are `Rc`). What makes the engine
hard is not concurrency but the order in which things nest: functions, builtins
with callbacks, compositions, `$eval`, host functions that call the library
again, errors that leave all of them at once, and an evaluator, a VM or a handle
used again after that. The one thing another thread may do is cancel
(`CancelToken`), and time passes.

| Component | State it keeps | Operations | Hard behaviours | Correct when |
|---|---|---|---|---|
| Scopes (`Context`, `Scope`, evaluator.rs 2907-3490) | stack of frames with ids, barriers, flags, tokens; `next_scope_id`; `tail_base`, `callback_base` | push, pop, lookup, bind, pop into, truncate | frames remembered by index; ids compared across evaluators | names mean what they mean where they are written; everything pushed is popped, after errors too |
| Closures (`StoredLambda`, `DefScope`, `FrameToken`, 2853-3240) | captured values, chain of defining frames, a counted token for each trampoline frame it sees | define, capture, drop, ownership walk | Rc counts decide at run time whether a frame may be reused | no frame is reused while a closure sees it, none kept for nobody, no cycles |
| Calls (9380-9890, 10760-10935) | the trampoline's frames, bases saved and restored | call, tail call, callbacks, compositions, `$eval` | tail calls across builtins, compositions and `$eval`; errors in each | tail loops run in constant stack; the bases name the right frame |
| Guardrails (3690-3790, 4329-4363, 5056-5266) | options, `recursion_depth`, `start_time`, the token | checkpoint, loop check | cancel and time-out between any two steps; an evaluator used again after an error | what is cancelled or overdue stops; limits apply to this evaluation exactly |
| Compiled expressions (211-1400) | none | compile, evaluate | must agree with the evaluator | same value or error as the evaluator's |
| Bytecode compiler, peephole | instructions, pools | emit, intern, patch, fold, remap | 16-bit operands; jumps over code that is folded or removed | every jump lands where it was meant to |
| VM | operand stacks, instruction pointer, shape cache | one per instruction | sub-programs on the caller's stack or their own; a cache that outlives an input | same result as the compiled expression; stack balanced; always ends |
| Paths and tuple streams (evaluator.rs 4050-4330, 6040-7750) | tuples with `@`, `#`, `%` bindings, `keep_tuple_stream`, `tuple_stream_created` | step, stage, bind, filter, number, construct | bindings put into the top frame and taken back; a shortcut for every common shape | bindings end with the step; a shortcut gives what the general rule gives; no tuple gets out |
| Sort, group-by, transform (4817-5038, 5394-5600, 9242-9380, 10995-11300) | comparator's scope, `$` saved and restored | compare, group, update | errors between bind and restore; two sorts for one order; matches known by equality | scopes and `$` are as before; the order is the merge sort's; what was matched is changed, and only that |
| Host functions, step cache (4493-4690, 10400-10507) | registered functions, compiled bodies by id | register, override, look up, compile | an override after a body was compiled; the cache emptied while full | a shadowed builtin never takes the fast path |
| Values (value.rs) | shared trees, sequence flags, depth hints | build, wrap, drop | deep values dropped without recursion, counts read while they change | nothing freed twice or too early, no overflow |
| Expression handle | bytecode made once | evaluate | VM only without bindings and host functions | both engines agree |
| C ABI | handle, the thread's error slot | compile, bind, register, evaluate, last error | a host function calls the library again | the slot speaks of the call just made |
| Python extension | converted fields, stack bounds | get field, materialise, call with stack | Python changes the dict during an evaluation; nested calls on several stacks | bounds given back; conversions consistent |
| Parser, ast_transform | depth, tokens, pending errors; labels and aliases | parse, resolve | two ways of growing deep; group-bys that move; labels replaced after use | deep input is refused, flat input is not; a `%` finds the step it is written for |
| Builtins, signatures, dates | none | pure | numeric edges, arguments left out | as jsonata-js |

How they interact: the evaluator calls builtins, which call functions back
through the evaluator (`call_function_with_values`); host functions may call the
library again; the VM is self-contained (it calls no functions of the program);
the C ABI and Python reach both engines through an evaluator or a VM made for the
call, and share nothing between calls but the handle's memo, the bindings and the
registrations.

The hazards, what could go wrong here that a test would hardly reach, are listed
one by one, each at its line, in `PROJECT.json` (`hazards`), with the properties
that would catch them.

## 2. Modules

```
ScopeStack <- Closures <- Calls <- MCCalls           Environments (abstract)
     ^                         ^  `-- Env == INSTANCE Environments WITH ...
     |                         |
     |-- ScopeStackProofs <- CallsProofs <- StepsProofs <- ClosuresProofs
     |        ^
     |        `- HostFunctionsProofs <------------------.
     `- HostFunctions (with StepBodies) <- MCEmbedding <- EmbeddingProofs
LazyDict, PyStack <- PythonExtension <--------'
DropDeep <- MCDropDeep <----------------------'
Handle <--------------------------------------'

Values <- JValues <- Compiled <- Bytecode (with Peephole) <- Vm <- MCVm
  ^          ^
  |          |- PathValues, Syntax, Ordering <- Paths, Parser, Ancestry, Trails
  |          |                          <- Expressions <- MCExpressions <- MCLanguage
  |          `- Ordering <- Rearrangements <- MCAlgorithms <- MCLanguage
  |                            |
  `- Signatures <- Algorithms <'        Algorithms, Peephole <- AlgorithmsProofs
                       `-- C == INSTANCE Calendar

Guardrails <- MCGuardrails, GuardrailsProofs
```

### Scopes, closures, calls

* **ScopeStack** has the data structure: frames, barriers, lookups, the chain of
  frames that a function's definition sees, the tokens. Index i of the code is
  position i+1, and barrier 0 stands for `None`. The loops of `lookup_from` and its
  like are given by what they visit: the least set of frames closed under
  `Continue`.
* **Closures** has the reference counts: which closures and tokens are alive, which
  of them the top frame owns (`OwnershipWalk`), and so `StillSeen`, with the cached
  verdict `seenAt`.
* **Calls** is the state machine. A program is nondeterminism: in a body, any kind
  of expression that the constant `Forms` allows may come next. `ctl` is the stack
  of active Rust functions with the locals they restore, `hand` is the value of the
  expression just evaluated. One action per operation; `Fail` and `Unwind` take an
  error from any point out through each function's own clean-up. The scope that a sort's
  comparator keeps for all comparisons of a merge is one activation (`StartMerge`,
  `NextComparison`, `EndMerge`); the values it compares are any. `Settle` ends every
  step: what lost its last reference is dropped.
* **Environments** is the abstract specification: environments as jsonata-js has
  them, no stack indices, no barriers, no tokens, no reuse. `ImplementsEnvironments`
  is the refinement.

Values other than functions are `Data`. Containers, partial applications and host
objects that refer to functions are left out: each would be one more way to hold a
reference that a closure's captured names already are. The handle of the closure a
call runs is not counted as held: it is older than the frames of its call, so it
sees none of them. A rejected signature is a call followed by `Fail`. The branch of
`enter_tail_call` for a composition cannot be reached (`tail_call_composition` takes
it before) and is no action. `home` and `height` are ghosts.

### Names of functions, and what is compiled

* **HostFunctions**: one evaluation over ScopeStack. A name in call position is a function the
  expression bound, a host function or a builtin, and there are many positions: a call, `~>`, a
  value, a callback, a partial application, a compiled body, a path's step, each with a lookup of
  its own in the code. `SameFunction` and `ArityOfCallee` say in what they should agree.
  Registering and binding happen at any point, before and after a body or step was compiled while
  the name was still the builtin's.
* **StepBodies**: the cache of compiled steps, the step looked up last beside a map
  that is emptied when full.

What a callee does is not told apart, only which one it is and with how many
arguments it is let through. A name bound to data and called without its `$` still
reaches a host function (8130-8145), and a partial application of a name bound to a
regex falls through to the host's function or the builtin (11476-11525): both are
modelled as the code has them.

### Compiled expressions, bytecode, VM

* **Values**: values as records, with sequence flags and lookup; **JValues** adds truth
  and equality, which are recursive, and so has nothing proved about it.
* **Compiled**: `CompiledExpr`, `Eval` for `eval_compiled` and the node count that
  guards the pools. This is what the VM is measured against.
* **Bytecode**: the compiler, an operator per kind of expression; `Patched` and the
  pool indices keep their width, `WordBits`.
* **Peephole**: folding and removal, the two passes and the remapping of targets.
  `Placed` says that a program's jumps fit their operands and land within it or at its
  end; what the compiler makes is so, as the vm run checks (in `OperandsKept`), and
  the pass keeps every path through such a program (`Following`, section 4).
* **Vm**: `run_inner`. `frames` holds its calls of itself (the program, an object
  constructor's body on the caller's operand stack, a predicate with its own stack
  item by item); `stacks` the operand stacks; `cache` the shape cache, which outlives
  an input. One action per instruction or family.

Numbers are integers, strings are atoms with an order. `&`, `/`, `%` and the `Not`
instruction (the parser makes no such node) are left out, and so are `GetVar` and
`GetVarField` (a program at the top level has no variables) and the inlined
callbacks of higher-order builtins, which the compiler never lowers but passes to
`EvalFallback`. Three builtins stand for the pure ones. A field of the input and a
chain of fields, two more kinds of node, are modelled as the paths they mean.

### Expressions, from tokens to values

* **Syntax**: the nodes of `ast.rs`; the parts of each, in the order the passes
  visit them.
* **Parser**: the Pratt parser over tokens. `p.depth` is its counter, counted up by
  recursion and by what the loop nests; an operator for each construct.
* **Ancestry**: the pass of `ast_transform.rs`. State `st` has the labels given out,
  the aliases and the error; what still seeks its step is handed up as a list of
  `Seeking(label, level)`.
* **PathValues**, **Paths**: evaluation, an operator from a node, a value and the
  evaluator's state (`frames`, `keep`, `made`, `root`) to a value or an error and the
  state that is left, error or not. Each shortcut of the code is a branch. With
  `plain` set none is taken: every tuple has a frame of its own and `$` is the value
  evaluated against. That is the reference `ShortcutsAgree` compares with.
* **Ordering**: both sorts, with their shortcuts and the in-place permutation.
* **Trails**: what `%`, `@` and `#` mean, by definition, without labels or tuples.
* **Expressions** is the machine: an expression is written a piece at a time,
  compiled, and evaluated again and again on one evaluator.

Function calls, lambdas and regexes inside steps are left out: Calls has what calls
do to scopes. `$$` belongs to an evaluation and is reset by the next. Trails leaves out
what is particular to jsonata-js in corners of its own: `(a.b)@$x` alone, which ignores
its `@`; predicates after a sort of a tuple stream, which see wrapper objects; `%.%` in
a predicate of a block step, which counts the block as a level; `@` or `#` on a
block that keeps its stream; a `.[..]` in a tuple stream, flattened. Of two `@` on one
step the last counts. Predicates in its expressions are truths, not positions.

### Functions of their arguments

* **Algorithms** asks one question of each and keeps the answer beside it. Ranges are
  in it: `start..end` with its two limits, integers at their width (`MaxInt`). So is the
  permutation that a specialised sort applies in place, its one multi-step question:
  an action per swap of a cycle (`SwapOn`), with the loops' `i` and `j` in `result`.
* **Rearrangements** adds the questions about the sorts of **Ordering** (for which the
  permutation is what Algorithms shows it to be) and about transforms: match, update
  and delete in a copy of the input. Matches inside a match are not looked into, as
  in the code. Its operators recurse into values, so it is a module apart.
* **Signatures**: matching of arguments against the one regex made of all
  parameters, coercion, context arguments, trimming for builtins.
* **Calendar**: weeks of years and months, the components of a moment and their
  reading back. With `{Y, d}`, any component of the time makes `D3136` of it; `d`
  beside `D` is ignored, and alone it leaves now's time. A year may be any integer,
  where chrono's end some 262,000 years from now.

### Embedding

* **DropDeep**: a heap of payloads with counted references. A drop is taken apart
  as the code does: `SMALL_PAYLOAD` items looked at first, then the stack's red zone,
  then the work list; steps of several drops never interleave (`Rc`), but lazy dicts
  and wrappers hold payloads too.
* **PyStack**: `StackEntry` and `with_python_stack`; segments of stack as numbers, `bounds`
  what CPython goes by, `pyCalls` who is under way. An error leaves through every
  one of them.
* **LazyDict**: wrappers over dicts that Python changes between any two reads; what is
  converted at once, what is kept, what is converted anew.
* **PythonExtension** lets the two go together: host functions mutate dicts and
  evaluate in turn.
* **Handle**: handles and the error slot of the C ABI. Callbacks make any call in
  turn, on the handle being evaluated too (which in the code changes an evaluation's
  registrations through `&mut *expr` under a `&*expr`; the model takes the copies
  made at its begin for what it uses).

MCEmbedding and MCLanguage explore their parts one at a time, the others at rest: the
parts share no state.

### Guardrails

**Guardrails** keeps the Rust calls under way and nothing of what they compute:
levels (`with_checkpoint`), tail-call loops, higher-order builtins, `$replace` with a
function, custom matchers, compiled nodes, the VM and its filters. Each has some
number of things `left` to do, and a tail-call loop or a matcher as many as the
program likes. What evaluates no checkpointed node (`evaluate_leaf`, an
instruction) is a `Leaf`. `Cancel` and `Tick` may happen between any two steps. The
VM's own `start_time` and the evaluator's are one variable: the two never run
inside one another. `max_sequence_length` limits data, not progress, and is left
out.

## 3. Runs

| Run | Properties | Bounds | Distinct states |
|---|---|---|---|
| tail_loops | KeepsWhatItSees, FrameReusedIffUnseen | 2 functions, 5 frames pushed, 4 nested activations | 218,819 |
| compositions | StackBalanced, HostFrameUntouched | 4 functions (a composition makes two), 5 frames, 5 activations | 174,707 |
| tail_builtins | TailBaseExact, IndicesStayTrue | 1 function, 5 frames, 6 activations | 141,024 |
| whole_language | TypeOK, FramesInOrder, LexicalScope, NoCycles, EntryRestored, StackBalanced, ImplementsEnvironments | 2 functions, 3 frames, 4 activations, all forms but assignments, which compositions has | 377,098 |
| vm | OperandsKept, SameAsTree, Terminates | about 2,000 expressions, runs of one or two inputs, 16-bit words | 96,052 |
| guardrails | TypeOK, DepthExact, RaisedWithReason, StopsWhenTold, EndsWhenTold | depth 2, 4 calls, 2 things to do, 2 ms, three sets of options | 81,968 |
| embedding | EmbeddingTypeOK, BoundsOfCalls, ReadsAgree, NothingFreedEarly, DropFitsUnlessShared, FastPathsAgree, SameInEveryPosition, SlotOfLastCall | 5 Python calls, 2 dicts, 3 wrappers; graphs of up to 9 payloads; 1 closure, 4 names, a step cache of 1, 3 frames; 2 handles, 4 nested calls, 3 settings | 713,439 |
| language | ShortcutsAgree, EvaluatorAsNew, NoTupleEscapes, AncestorsReached, ParsedAsMeant, TreeReady, SortsAgree, ListsExact, TransformsInPlace, ArgsAsDeclared, CalendarAgrees | expressions of 3 to 5 pieces of seven families, depth limit 12; 5-bit integers, ranges up to 8; permutations of 4 | 214,714 |
| position_filters, endless_matcher, drop_twice, transform_twins | each shows one finding, see section 5 | | |

**Why the bounds are enough.** The properties of scopes are about pairs and triples:
a function, the frame it is made in, and a frame in between. Five frames hold a
block or a builtin inside a trampoline that has kept a frame, with a callback above
it that makes a tail call; two functions call one another and hold one another.
Each property has mutants of the code that break it under these very bounds
(`PROJECT.json`, `mutants`), and where it matters for every size there is a proof.
In the VM's run every operator meets every pair of leaves, jumps lie in both
branches of jumps and over them, and predicates and constructors within one another
over arrays, arrays of arrays, and objects with their keys in another order. In the
guardrails' run two levels are enough to be refused, 2 ms to be overdue and be used
again.

In the embedding's run a host call lies on a segment within a host call on another;
a wrapper made by an inner evaluation outlives what made it; a payload is held twice,
once, from outside or by a lazy dict, in chains long enough for the red zone and for
the work list's next look at the stack; every name is overridden before and after
its body was compiled and shadowed in each frame around it. In the language's run
the pieces are chosen so that each kind of step is followed by each other one: a
family has its heads and what an expression may go on with (MCExpressions), the
`names` family rebinds names within what sees them, `deep` stands on either side of
the limits. Weeks are asked for all days at both ends of years of every kind, ranges
for all pairs of ends at a width where they saturate, signatures for all lists of up
to three arguments, sorts for all lists of four keys with ties and absent keys, and all
permutations of four are applied.

`MaxId`, `MaxCalls` (Calls), `MaxCalls`, `MaxLeft`, `MaxClock` (Guardrails),
`MaxPyCalls`, `MaxWrappers`, `MaxFrames`, `MaxFrameId`, `MaxBound`, `MaxNested` and
`MaxSettings` bound the exploration only, in the guards; the code has no such bounds
(ids are `u64`). `MaxStepBodies`, `SmallPayload`, `RedZone`, `MaxParseDepth`,
`MaxTransformDepth`, `MaxInt` and `MaxSize` are the code's own, made small.

**Fairness.** Calls has none: programs need not end. The VM's loop goes on by itself
while it has an instruction, hence `WF_vars(Next)`: `Terminates` says that it does
not go on for ever. In Guardrails the evaluating thread goes on (`WF_vars(Step)`),
and nobody is obliged to cancel, to let time pass or to evaluate; since a tail-call
loop may go on for ever, `EndsWhenTold` (`CancelStops` and `TimeoutStops`) holds because
of the checks and nothing else. Embedding and language state no liveness.

**Deadlock** is not checked where the system may stop: a host may stop evaluating, ids
run out at `MaxId`, after the last input there is nothing to do, and an exploration
of the embedding or the language ends at its bounds.

What the runs show:

* A trampoline reuses its frame only if no closure sees it, and keeps it only if its
  callee or a closure does, although the code decides by comparing counts of
  references, remembers its verdict, and tokens keep tokens further out.
* Every frame looks names up exactly where its code is written, also for functions
  called after their frames are gone, from tail loops, from compositions run at
  their caller, and for functions another evaluator made, whose frame ids mean
  nothing here. Each step of the scopes is one of the environments'.
* `evaluate` says "Bindings only ever go into the top scope, and every push is popped
  again" (5056). The second half is `StackBalanced`, and the truncation that
  follows an error is `EntryRestored`. The first half is not literally so (the
  bindings of a `$eval` above the evaluator's own frames are moved into the frame
  below them), but what it is there for is: the host's frame is never bound in
  (`HostFrameUntouched`).
* `tail_base` and `callback_base` are exact in every state, errors included, and each
  frame that is kept by its index is still that frame when it is used.
* For the modelled subset, except where section 5 says, the VM gives what
  `eval_compiled` gives, with and without what the cache remembers, and always ends.
* `recursion_depth` counts the levels under way; the guardrails' codes are raised for
  their reasons; what is cancelled begins nothing new, has a number of steps left that
  each step lowers, and ends.
* A path's shortcuts, which bind names into the scope at hand, put them back by
  looking them up, walk no value they need not, and skip what reads nothing, give
  what evaluation gives that does none of this. After an evaluation, failed or not,
  the evaluator is as a new one; a successful one has popped what it pushed, which
  is `evaluate`'s own debug assertion. No tuple gets into a result: for these
  expressions `unwrap_tuple_output` finds nothing to unwrap, although its comment
  expects it to (3590-3609).
* Labels, aliases and tuples make of a `%`, `@` or `#` what the text says: the items
  and ancestors of a path are those that Trails finds by definition.
* A text is parsed as its precedences say, a group-by moves out past what follows it,
  and whether a text is too deep depends on nothing parsed before it. What
  `resolve_ancestry` lets through has no operator, label or literal step left that
  the evaluator cannot read, and its second walk never fails after its first.
* Both sorts order as jsonata-js's merge sort, shortcuts included, for the terms and
  comparators that take them, but for the cases of section 5.
* A compiled body or step that runs a builtin outright does so only while the name
  is the builtin's where it stands, whatever was registered or bound since it was
  compiled and however often the cache was emptied in between; and a name means the
  same function, with the same arity, in every position it can be called from.
* Every Python callback sees the bounds of the stack it runs on, each gives back what
  it found, by errors too; a field read again is the one read before, or one that
  Python put there since.
* A drop frees what nobody else holds, once, and nothing else, and fits the stack it
  starts on, unless a payload holds another twice (section 5) or, where the stack's
  limit is not known, payloads are held more than once.
* The error slot speaks of the last call that ended, also when callbacks make calls of
  their own.
* A sort's comparator runs in one scope, cleared for each comparison. A function made in
  one comparison does not see the next, because the scope gets a new id; and an error
  that leaves the scope on the stack is put right by `evaluate`.

## 4. Proofs

TLAPS checks these for every value of the constants (any names, any set of
functions, any graphs of payloads, any bounds). They are safety properties, each
`Spec => []Inv` or `Spec => [][A]_vars`, but for the last two. The third column names
what the runs check of it; where it is empty, TLC checked the invariant in
runs of their own before it was proved.

| Theorem | States | Runs check |
|---|---|---|
| CallsProofs!Invariance | the scopes' invariant, `IInv` | |
| CallsProofs!TypesKept | types | `TypeOK` |
| CallsProofs!FramesOrdered | barriers lie below their frames, so a lookup ends, and ids grow, so an id names one frame | `FramesInOrder` |
| CallsProofs!ScopesPopped | what is pushed is popped | `StackBalanced` |
| CallsProofs!LexicalScoping | a frame sees what its code is written in | `LexicalScope` |
| CallsProofs!HostRestored | after an evaluation, failed or not, the stack is the host's frame | `EntryRestored` |
| CallsProofs!TailBaseCorrect | `tail_base` is that of the innermost trampoline | `TailBaseExact` |
| StepsProofs!ReferencesHeld | the calls' invariant, `IInv /\ CallInv` | |
| StepsProofs!HostFrameSafe | the host's frame is never bound in | `HostFrameUntouched` |
| StepsProofs!IndicesTrue | a frame held by index across a call is that frame after it | `IndicesStayTrue` |
| ClosuresProofs!ScopesAgree | the closures' invariant, `ScopesInv` | |
| ClosuresProofs!SeenFramesKept | no frame a closure sees is overwritten | `KeepsWhatItSees` |
| ClosuresProofs!ClosuresAcyclic | reference counts free every closure | `NoCycles` |
| ClosuresProofs!FramesReusedRight | a trampoline's frame is reused exactly when nothing sees it | `FrameReusedIffUnseen` |
| ClosuresProofs!ScopesAreEnvironments | the stack of scopes implements environments | `ImplementsEnvironments` |
| HostFunctionsProofs!NamesTyped | types | (in `EmbeddingTypeOK`) |
| HostFunctionsProofs!CompiledBodiesAgree | a compiled body runs only where its builtin would | `FastPathsAgree` |
| HostFunctionsProofs!NamesReachTheSame | a name means one function in every position | `SameInEveryPosition` |
| EmbeddingProofs!HandlesTyped, StacksTyped, DropsTyped, WrappersTyped | types of each part | (in `EmbeddingTypeOK`) |
| EmbeddingProofs!EmbeddingTyped | types of the parts beside each other | `EmbeddingTypeOK` |
| EmbeddingProofs!SlotTells | the error slot speaks of the last call | `SlotOfLastCall` |
| EmbeddingProofs!BoundsFollowCalls | CPython's bounds are those of the stack it runs on | `BoundsOfCalls` |
| EmbeddingProofs!DropsFreeNothingEarly | counts are true, what is held is whole | `NothingFreedEarly` |
| EmbeddingProofs!DropsFit | drops fit on the stack | `DropFitsUnlessShared` |
| EmbeddingProofs!WrappersReadAlike | a settled field reads the same again | `ReadsAgree` |
| GuardrailsProofs!Invariance | the guardrails' invariant | |
| GuardrailsProofs!TypesKept | the depth stays within `0..MaxEvalDepth` | `TypeOK` |
| GuardrailsProofs!LevelsCounted | `recursion_depth` counts the levels | `DepthExact` |
| GuardrailsProofs!ReasonsGiven | a code is raised for its reason | `RaisedWithReason` |
| GuardrailsProofs!CancelHeeded | what is cancelled begins nothing, where no custom matcher's loop runs | (in `StopsWhenTold`) |
| GuardrailsProofs!StepsAreFinite | what is cancelled or overdue has a number of steps left, which each step lowers, where no custom matcher's loop runs | (in `StopsWhenTold`) |
| GuardrailsProofs!DoesAsTold | both | `StopsWhenTold` |
| AlgorithmsProofs!RangesExact | a range is every number between its ends, or refused | (in `ListsExact`) |
| AlgorithmsProofs!CalendarsAgree | weeks are those of their Thursdays; what is read is what was written | `CalendarAgrees` |
| AlgorithmsProofs!OrdersApplied | a permutation applied in place puts every item where it says | (in `ListsExact`) |
| AlgorithmsProofs!ListsAreExact | both | `ListsExact` |
| AlgorithmsProofs!PathKept | a program's paths are those of the program it was made of | (its hypothesis, in `OperandsKept`) |
| AlgorithmsProofs!InstructionsKept | and its instructions: none is added, operands and the directions of jumps are kept | (the same) |

**Assumptions**: the named ones of the modules, which TLC evaluates in the runs; the
theorems have no others, but for the hypotheses that PathKept, InstructionsKept,
CancelHeeded, StepsAreFinite and DoesAsTold state.

* `ValuesDistinct`, `CallsAssumption`, `ClosuresAssumption`, `HostFunctionsAssumption`:
  the kinds of value are distinct, there are finitely many functions, functions are not
  ids, a parameter is a name, a function that an expression made is no reference to a
  named one, compiled builtins are of one kind each.
* `StepBodiesAssumption`, `HandleAssumption`, `PyStackAssumption`, `BoundsAssumption`,
  `OptionsAssumption`, `KindsAssumption`, `WordBitsAssumption`: bounds are naturals,
  what stands for nothing is nothing else, options are naturals or left out.
* `KindsAssumption` says too that there are no other kinds of call than those Guardrails
  has actions for.
* `AlgorithmsAssumption` says what is asked: ends that are integers where they are
  numbers at all, dates of the calendar, components that YMD or Yd and Hms or Phms
  have, and an order that takes each place from one of its own. `MaxInt` and `MaxSize` may
  be any naturals, and a year any integer.
* `LazyAssumption`: Python's values are of a known kind, and lists are of what is no list.
* `NodesAssumption`, `LimitsAssumption`, `HeapsAssumption`: payloads are finitely many; a
  wrapper read from another is numbered one further (`Numbered`, lazy.rs 115-118); and
  the red zone has room for two frames more than `LAZY_DROP_CHECK_EVERY`, which is
  what the comments at value.rs:503 and lazy.rs:44 say of the 32 KiB it has.

**The scopes' argument.** None of the properties is inductive alone. A barrier lies
below its frame because `BarrierFor` picks a frame that is on the stack, or
`tail_base`, which must be one: so the invariant needs to know what `tail_base`,
`callback_base` and each saved copy of them may be, of which activation, in error
states too. `IInv` (CallsProofs) is:

* `StackOK`: barriers below their frames, ids growing, every frame's `home` what it
  sees;
* `HeapOK`: those frames of a closure's chain that are still on the stack lie on one
  path (`OnePath`), and its ids have been given out (`ChainBefore`);
* `CtlOK`: the activations' heights and frames add up (`Stacked`, and `Exact` while
  no error unwinds), and each has pushed and saved what its kind does;
* `BasesOK`: `tail_base` lies at or below the height of the innermost trampoline, what
  each trampoline restores at or below that of the next one out, and the outermost
  restores the root; likewise for `callback_base` and the builtins.

`ScopeStackProofs` has the lemmas about the stack: what a lookup visits in a stack
cut, extended or with a frame replaced, and that ids tell whether a frame of a chain
is still there. `CallsProofs` has one lemma per action, and under it one step per
part the action touches. The heart is `LexicalScoping`: a frame's path from a
barrier is what the function's chain still finds, because a chain is closed under
paths and ids are never used twice.

**What is held** (StepsProofs). A step ends with `Settle`, which frees what is not
`Live`. `CallInv` says that all that frames, closures, activations and the hand refer to
is alive (`Accounted`, `HeapAccounted`), that the frames a trampoline has pushed are
frames of tail calls and that of a merge, which is cleared too, is none (`TcoFrames`), and that every token is of an id given out
(`TokensBefore`). It is kept because a step takes one of few shapes (`Narrowed`,
`Pushed`, `Made`, `Renewed`, `TailCalled`), which refer to no more than was referred to; the same
shapes give `HostFrameSafe` and `IndicesTrue`. What is reachable is a least fixed
point that the code computes by going on until nothing is added (`Iteration`); that
it ends, and ends there, is an argument about finite sets.

**Closures** (ClosuresProofs). `ScopesInv` adds `ClosInv`: chains and tokens have their
shapes and lead to frames (`HeapShaped`, `TokensLinked`, `TokensFound`); a trampoline
frame on a living closure's chain is one whose token the closure holds, and the other
way round (`SeenKept`, `KeptSeen`); what holds what has no cycle (`Acyclic`); and the
remembered verdict `seenAt` is none or that of a frame that was seen (`CountsOK`). So the
count that `StillSeen` compares is larger than what the top frame owns exactly when a
closure from elsewhere sees it. This is why `FramesReusedRight` needs all of it: "seen"
is about chains, and the code looks at counts of tokens.

**The refinement.** `EnvInv` is `ScopesInv` and `PlacesInv`: the id of a chain's frame
gives its position. Of each action the proof shows that it is an environment entered,
left, replaced, begun afresh or bound in, a closure made or forgotten, or a stutter; what an
environment sees is what `LexicalScoping` says of its frame.

**Names.** `NamesInv`: no host function has a compiled builtin's name; every body kept,
for a function or a step, is what compiling that function or step gives
(`BodiesAsCompiled`), whichever the cache has dropped; the cache has one entry for each id
and never more than its limit of others. The scopes may be any that pushing and binding
lead to.

**Embedding.** Each part is proved by itself, and `PartsAsAlone` shows that the system of
the parts beside each other does what each does alone.

* Handles: what stands on a handle is what an evaluation may copy, and the slot says what
  the call that returned last replied (`HandleInv`).
* Stacks: `protected` lists the segments of the calls under way that set bounds, in order,
  and `bounds` follows from it (`PyInv`). Errors leave through all of them.
* Drops, nothing early: counts are true, and a payload that has lost its items is held by
  nothing but the drop that took them (`DropInv`). The hard part is counting: moving a
  reference from one list to another keeps the sum.
* Drops, depth: beyond the edge of the red zone a drop is that of a wrapper between two
  checks (`Skips`), of a payload that looked at the stack and sorts its items or frees
  none that nests (`Sorts`), of one whose items free no payload with items (`Scatters`),
  or at its end (`Ends`), in this order from below. At most `CheckEvery - 1` of
  the first kind follow one another, since wrappers are numbered, and one of each other
  kind; so `CheckEvery + 2` is the most. An item that is not freed because somebody
  else holds it stays so until it is its turn, unless the payload itself held it twice:
  that is the finding `drop_twice`, and the theorem says there is no other way.
* Wrappers: what a wrapper keeps lies among those made before it or for it, an evaluation
  changes only wrappers made since its mark, and marks and wrappers are numbered as drops
  go by (`LazyInv`). A field settled is kept, or read from a dict that Python has not
  changed.

**The guardrails' argument.** `DepthExact` needs the type of `calls`; `RaisedWithReason`
needs also that the start time is the evaluation's own whenever a timeout is set
(`TimedFromBegin`) and that the depth is within its limit (`DepthWithinLimit`), so that
a refused level is the first beyond it. `IInv` is their conjunction.

**The guardrails' end.** `EndsWhenTold` is liveness, but what makes it true is not:
`StepsRunOut` says that once an evaluation is told to end, `StepsLeft` goes down with each
step that moves the calls or the error, and the order stands until the evaluation is
over. `StepsLeft` adds up what each call under way may still do (`Ahead`): a node's
operations, each of which may call something and come back; a loop only the element
or pass it is in the middle of, because the next one is refused. The proof needs of
the calls, beside the guardrails' invariant, that only a loop is ever in the middle of
something (`BusyLoops`). The theorem excludes custom
matchers, whose loop looks at nothing: that is the finding `endless_matcher`.

**Functions of their arguments.** `AnswersSpec` is any machine that answers the
questions of Algorithms as it does and other questions in any way; the machine that
the language run explores is one, with Rearrangements' actions for the others. Its
invariant is `Answered`: what was answered is what the operators give. The rest is about
the operators.

* Ranges: the ends saturate, so their difference is at most `2 * MaxInt + 1`, and the
  count wraps (`Wrap`) only for the two furthest ends. Otherwise it is the cardinality of
  the numbers between (`SizesTrue`), and both limits see it as it is (`RangeIs`).
* Weeks: the first week of a year or month is the one that holds its first Thursday
  (`FirstWeeks`), first weeks of months and of years that follow one another lie whole
  weeks apart, and so the week that `delta_weeks` counts to, in the period itself or the
  one before or after, is the one that counting Thursdays gives (`WeekOfPeriod`). That
  the days of the year's months and of the years follow one another is arithmetic on
  `DaysBeforeMonth` and `DaysBeforeYear` (`MonthAfter`, `YearAfter`).
* Moments: the components gone through are filled in one by one in the code; what
  it comes to is `FilledIn` and `HasGap`, by what is coarser. `ReadBack` goes through the
  places of `Coarsest`: what was given is as it was, what is coarser than all of it is
  now's, what is finer the least; a half of the day and its hour are the hour again
  (`HoursRead`), a day of the year is its date again unless this year lacks it.
* Orders: of the places that are done, `Partly` says that they hold what the order says
  and that the others hold what they held, but for the place of the cycle that
  carries the first one's item. This is inductive only with `CyclesKept`: what leads to a
  done place is done, but for the place that will close the cycle. So the next place
  of a cycle is never one that was done, and none is overwritten.

**The peephole pass** is a function, so `PathKept` and `InstructionsKept` are about all
programs that are `Placed`: kept instructions stay in order, each is followed, jumping or
not, by what followed it, a fused pair by what followed the pair, and a jump left out is
where its target is; each instruction of the new program is a kept one's, with its
operand, or a fused pair's with the field it reads; and a jump ahead stays one, so
shortening makes no loop. Both rest on counting: a kept instruction's place is one more
than the number of those kept before it. The hypothesis includes that jumps fit their
operands, which is so for programs up to 32767 instructions and is where `jump_width`
(section 5) begins. That what the compiler makes is `Placed` the vm run checks: the
compiler is recursive.

**Only model-checked**:

* liveness (`EndsWhenTold`, `Terminates`), which is out of the prover's reach; of the
  first, the part that is safety is proved (`StepsAreFinite`);
* what rests on recursive definitions: the VM against the compiled expressions
  (`OperandsKept`, `SameAsTree`), and what is checked of expressions in the language run
  (`ShortcutsAgree`, `EvaluatorAsNew`, `NoTupleEscapes`, `AncestorsReached`, `ParsedAsMeant`,
  `TreeReady`): syntax trees are recursive, and so are the parser, the passes and the
  evaluation over them. Likewise `SortsAgree`, which compares with a merge sort, and
  `TransformsInPlace`, which goes through values of any depth;
* `ArgsAsDeclared`: a signature's groups take as many arguments as they can, which
  Signatures chooses by comparing whole lists of counts, and that every argument is
  then taken once is an induction over those lists. It is asked for every shape the
  builtins have.

## 5. Where code and documentation disagree

Each of these has a run that finds it; `PROJECT.json` (`findings`) quotes the lines.

* **position_filters** (compiler.rs:168): a predicate that selects by position, in a
  path of one step over an array that is not the whole input, filters the values of
  all items together in the VM and each item's in the evaluator.
* **endless_matcher** (evaluator.rs:10217): the loop over a custom matcher's matches
  looks at neither the token nor the time; if `next` always gives another match and
  its body is one variable, nothing stops it.
* **drop_twice** (value.rs:539): a payload that one parent holds twice does not count
  as one the parent frees, though the second of the two references frees it: a
  chain of such payloads is dropped by recursion, a level each.
* **transform_twins** (evaluator.rs:9354): a transform knows its matches by equality,
  and changes whatever equals one, wherever it is.

Met while modelling, and shown by no run:

* **jump_width** (compiler.rs:100): a branch of 32768 instructions or more wraps a
  jump's `i16` offset, and the bound on an expression's size counts `u16`.
* **pool_width** (compiler.rs:339): the node count that bounds the pools does not count
  the keys of object constructors (evaluator.rs:584), which the compiler interns.
* **range_width** (evaluator.rs:11407-11411): of the least and the greatest integer the
  count wraps to 0 and passes the check for ten million. `RangeExact` is about ranges
  short of that.
* **cancelled_leaf** (evaluator.rs:5169): an evaluator built with a cancelled token gives
  the value of an expression that is one leaf node.
* **sort_shortcut** (evaluator.rs:4918-4938): a comparator like `$l.f >= $r.f`, or one
  with `-`, is taken for a sort by `f`; where keys tie or are absent it is not what
  the merge sort with that comparator gives.
* The comments on `??` at evaluator.rs:289 and 800 ("return lhs if it is defined and
  non-null", "return lhs if defined/non-null") disagree with the code, which keeps a left
  side that is null (1411-1420, 7763-7770), as jsonata-js does and as the comment there
  says.
* `D2015` (an array too long) is raised for the flattened length in the VM and for the
  unflattened one in the evaluator.
* A literal step that `parse` refuses with `S0213` can still come about when a `@` or
  `#` is set aside (`focus_bind_first`), and is refused at the end (parser.rs
  2590-2603).
* The comment on `ast_transform.rs`'s depth (70-88) speaks of about twice the parser's
  levels; those of `.( )` are three levels of the tree for one of the counter.
* A tuple-stage predicate that assigns leaves the name in the frame of the path.
* `parse_timezone_offset` (datetime.rs:1312) floors the hours of a negative offset and
  keeps the sign on the minutes: `-0530` is -6 h -30 min. Zones are not modelled.

## 6. Not modelled

`PROJECT.json` (`components`) gives each part its status. Of parts that are modelled,
these are left out:

* **Text.** The lexer, JSON in and out, the text of signatures, picture strings,
  numbers in words: sequential conversions, each reached by the JSONata test suite.
  The parser is modelled from tokens, signatures from their parameters, dates from
  their components. Zones and milliseconds are arithmetic on an offset beside them.
* **Numbers and strings as data.** Numbers are integers, with a width where it tells;
  floating point, and what strings are made of, are left out, and with them the
  builtins that compute with them. Three pure builtins stand for the rest.
* **Regexes**: the engine is a library. Custom matchers are in Guardrails for the loops
  they drive.
* **Partial applications**: a closure that refers to its target is one in Calls, and
  HostFunctions has which function the target is; how placeholders are filled is not
  modelled.
* **The compiled subset**: `&`, `/`, `%`, variables at the top level and the callbacks
  that `eval_compiled` runs inline for higher-order builtins. HostFunctions has when a
  compiled body may be used, Calls what a callback does to scopes.
* **max_sequence_length**: a bound on data, looked at where a sequence grows, with no
  state of its own.
* **Calls within path steps**: Paths has no function calls and Calls no paths. What each
  does to scopes it undoes before it ends, which `StackBalanced` says of the one and
  `EvaluatorAsNew` of the other.
* **The Python extension's conversion** of arguments and results in `lib.rs`, and the C
  ABI's of strings: each value is converted by its kind, in one place.

Not worth modelling are the command line (reads files, calls `Expression`, maps the
outcome to an exit code), the allocator (a feature flag), the Python package (wrappers
over the extension) and tests, benches and docs, which were read for what they promise
of the code.

Operators of the models that take operators as parameters (`Then`, `WithDollar` and
their like, in Paths) sequence the others and carry the state; they stand for Rust's `?`
and for the pairs of save and restore, and have no lines of their own.

## 7. Plan

The plan's modules are written, and every safety property that does not rest on a
recursive definition is proved, but for `ArgsAsDeclared`. What could still be said:

1. **Signatures**: `ArgsAsDeclared` for every signature, of which a first part would be
   that the counts of `Splits` add up to the arguments there are.
2. **Bytecode**: `Placed` of what `Emit` and `Patched` make, of the operators that the
   compiler is made of, so that only their composition is left to TLC.
3. **Paths**: calls within steps, which Calls and Paths have each without the other.
