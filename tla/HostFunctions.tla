----------------------------- MODULE HostFunctions -----------------------------
(***************************************************************************)
(* What a name means in call position: a function the expression bound, a  *)
(* function the host registered, or a builtin.  A host function may stand  *)
(* for a builtin, and any binding hides both, while compiled bodies call   *)
(* the builtin outright.  One evaluation, over the scope stack of          *)
(* ScopeStack, whose closures' bodies are each a call of one name.         *)
(***************************************************************************)
EXTENDS ScopeStack, StepBodies

CONSTANTS
  Pure,       \* builtins that compile (is_compilable_builtin)
  Inlined,    \* $map, $filter, $reduce: compiled with a function written in place
  Impure,     \* the other builtins
  Closures,   \* handles of the functions the expression makes
  Variables,  \* the names programs bind, and refer to
  Uses,       \* the names functions call
  MaxFrames,  \* bound: frames on the stack
  MaxFrameId, \* bound: frames pushed
  MaxBound    \* bound: names bound on the stack

Builtins == Pure \cup Inlined \cup Impure

\* A function named by reference is a value, `&` before its name in programs' stead.
Reference == [n \in Names |-> <<"reference", n>>]

ASSUME HostFunctionsAssumption ==
  /\ Builtins \cup Variables \cup Uses \subseteq Names /\ StepIds \subseteq Names
  /\ Pure \cap (Inlined \cup Impure) = {} /\ Inlined \cap Impure = {}
  /\ Fns = Closures \cup {Reference[n] : n \in Names}
  /\ Closures \cap {Reference[n] : n \in Names} = {}
  /\ MaxFrames \in Nat \ {0}

VARIABLES
  hosts,   \* the names of host_fns
  scopes,  \* the scope stack
  frameId, \* the id of the frame pushed last
  fns      \* the functions made

namesVars == <<hosts, scopes, frameId, fns, bodies>>

(***************************************************************************)
(* Registration.                                                           *)
(***************************************************************************)
\* A fault: a builtin may be replaced although compiled code calls it outright.
AnyBuiltin(override) == IF override THEN Names ELSE Names \ Builtins

\* register_fn takes names that are not builtins, register_fn_override names
\* that do not compile.
Registrable(override) == IF override THEN Names \ Pure ELSE Names \ Builtins

(***************************************************************************)
(* What runs, found in each of the ways a function is reached.             *)
(***************************************************************************)
Nothing == [k |-> "nothing"]
Runs(k, n) == [k |-> k, name |-> n]

IsFunctionName(n) == n \in Builtins \cup hosts

\* A fault: a builtin reached by its value is always the builtin.
BuiltinByValue(n) == IF n \in Builtins THEN Runs("builtin", n) ELSE Nothing

\* call_builtin_with_values: the host function first.
CallBuiltin(n) ==
  IF n \in hosts THEN Runs("host", n)
  ELSE IF n \in Builtins THEN Runs("builtin", n) ELSE Nothing

CallValue(v) == IF v \in Closures THEN Runs("closure", v) ELSE CallBuiltin(v[2])

\* `$n(...)` in frame p of stack s (evaluate_function_call).
CallIn(s, p, n) ==
  LET bound == Lookup(s, p, n)
  IN IF bound \in Fns THEN CallValue(bound)
     ELSE IF bound # Unbound THEN Nothing
     ELSE IF n \in hosts THEN Runs("host", n)
     ELSE IF n \in Builtins THEN Runs("builtin", n) ELSE Nothing

\* `$n` as a value, which another name or a parameter may then hold.
ValueIn(s, p, n) ==
  LET bound == Lookup(s, p, n)
  IN IF bound # Unbound THEN bound
     ELSE IF IsFunctionName(n) THEN Reference[n] ELSE Unbound

\* Passed to a higher-order function by its name (apply_function).
CallbackIn(s, p, n) ==
  LET bound == Lookup(s, p, n)
  IN IF bound \in Fns THEN CallValue(bound)
     ELSE IF bound = Unbound /\ IsFunctionName(n) THEN CallBuiltin(n) ELSE Nothing

\* The target of `$n(?)` (create_partial_application, invoke_partial).
PartialIn(s, p, n) ==
  LET bound == Lookup(s, p, n)
  IN IF bound \in Closures THEN Runs("closure", bound)
     ELSE IF bound \in Fns THEN CallBuiltin(bound[2])
     ELSE IF bound # Unbound THEN Nothing
     ELSE IF n \in hosts THEN Runs("host", n)
     ELSE IF n \in Builtins THEN CallBuiltin(n) ELSE Nothing

\* A fault: the arity is that of the builtin of the callback's own name.
OwnNamesArity(s, p, n) ==
  IF Lookup(s, p, n) \in Closures THEN Lookup(s, p, n)
  ELSE IF n \in Builtins THEN n ELSE "all"

\* Whose parameters a callback's arguments are cut to, if any
\* (get_callback_param_count): a host function gets them all.
ArityOf(s, p, n) ==
  LET bound == Lookup(s, p, n)
      named == IF bound \in Fns \ Closures THEN bound[2] ELSE n
  IN IF bound \in Closures THEN bound
     ELSE IF named \in Builtins \ hosts THEN named ELSE "all"

(***************************************************************************)
(* Compiled bodies.                                                        *)
(***************************************************************************)
\* A call of `use` compiles to a direct call of the builtin, unless a parameter
\* has its name (try_compile_expr, try_compile_hof_expr).
Compiles(use, params) == use \in (Pure \cup Inlined) \ params

\* compiled_builtin_names, of a body that is a call of `use`.
BuiltinsOf(use, params) == IF Compiles(use, params) THEN {use} ELSE {}

\* A fault: only a function that is bound hides a builtin.
HiddenByFunctions(n, bound) ==
  \/ bound \notin Fns /\ n \notin hosts
  \/ bound = Reference[n] /\ n \notin hosts

BuiltinUnshadowed(n, bound) == bound \in {Unbound, Reference[n]} /\ n \notin hosts

\* builtins_unshadowed_here
UnshadowedHere(names) ==
  \A n \in names : BuiltinUnshadowed(n, Lookup(scopes, Top(scopes), n))

\* A fault: names are looked up where the function is called.
LookedUpHere(c, n) == Lookup(scopes, Top(scopes), n)

\* What n is bound to where the function was made: captured, or found from there.
BoundFor(c, n) ==
  IF fns[c].env[n] # Unbound THEN fns[c].env[n]
  ELSE Lookup(scopes, InnermostLive(scopes, fns[c].chain), n)

\* usable_compiled_body
Usable(c) ==
  /\ BuiltinsOf(fns[c].use, fns[c].params) # {}
  /\ \A n \in BuiltinsOf(fns[c].use, fns[c].params) :
       n \notin fns[c].self /\ BuiltinUnshadowed(n, BoundFor(c, n))

\* The stack as the evaluator pushes it to run a function's body
\* (invoke_lambda_with_env): what it captured, its own name, its parameters.
Entered(c) ==
  Append(scopes,
    [NewFrame(frameId + 1, InnermostLive(scopes, fns[c].chain), {}) EXCEPT
       !.bind = [n \in Names |->
         IF n \in fns[c].params THEN Data
         ELSE IF n \in fns[c].self THEN c ELSE fns[c].env[n]]])

(***************************************************************************)
(* The evaluation.                                                         *)
(***************************************************************************)
NotMade == [made |-> FALSE]

NamesInit ==
  /\ \E own \in SUBSET Registrable(FALSE), over \in SUBSET Registrable(TRUE) : hosts = own \cup over
  /\ scopes = <<NewFrame(1, NoBarrier, {})>> /\ frameId = 1
  /\ fns = [c \in Closures |-> NotMade]
  /\ StepsInit

BoundHere(n) == Lookup(scopes, Top(scopes), n)

BoundOn(s) == Cardinality({at \in (1 .. Len(s)) \X Names : s[at[1]].bind[at[2]] # Unbound})

BindHere(n, v) ==
  scopes' = [scopes EXCEPT ![Top(scopes)].bind[n] = v]

\* `$n := 1`, and `$n := $m`.
Assign(n) ==
  /\ BoundOn(scopes) < MaxBound
  /\ \E v \in ({Data} \cup {ValueIn(scopes, Top(scopes), m) : m \in Variables}) \ {Unbound} : BindHere(n, v)
  /\ UNCHANGED <<hosts, frameId, fns, bodies>>

\* `$n := function($param){ $use(...) }`: the function captures what `use` is bound to.
Make(n, c, use, params) ==
  /\ ~ fns[c].made /\ BoundOn(scopes) < MaxBound
  /\ fns' = [fns EXCEPT ![c] =
       [made |-> TRUE, use |-> use, params |-> params, self |-> {n}, chain |-> Chain(scopes),
        env |-> [NoBindings EXCEPT ![use] = IF use \in params THEN Unbound ELSE BoundHere(use)]]]
  /\ BindHere(n, c)
  /\ UNCHANGED <<hosts, frameId, bodies>>

Push(s) ==
  /\ Len(scopes) < MaxFrames /\ frameId < MaxFrameId
  /\ scopes' = s /\ frameId' = frameId + 1
  /\ UNCHANGED <<hosts, fns, bodies>>

EnterBlock == Push(Append(scopes, NewFrame(frameId + 1, NoBarrier, {})))

\* A function is called that has no body to run without a frame.
EnterFunction(c) == fns[c].made /\ ~ Usable(c) /\ Push(Entered(c))

Leave ==
  /\ Len(scopes) > 1
  /\ scopes' = Cut(scopes, Top(scopes) - 1)
  /\ UNCHANGED <<hosts, frameId, fns, bodies>>

\* A fault: what may run here is found out once, when the step is compiled.
CheckedOnce(id) == {n \in BuiltinsOf(id, {}) : BuiltinUnshadowed(n, BoundHere(n))}

\* compile_step: the step named for the function its body calls.
CompileStep(id) == BuiltinsOf(id, {})

\* cached_step_body
RunStep(id) ==
  /\ GetOrCompile(id, CompileStep(id))
  /\ UNCHANGED <<hosts, scopes, frameId, fns>>

NamesNext ==
  \/ \E n \in Variables :
       \/ Assign(n)
       \/ \E c \in Closures, use \in Uses : \E params \in {{}, {use}} : Make(n, c, use, params)
  \/ EnterBlock \/ Leave
  \/ \E c \in Closures : EnterFunction(c)
  \/ \E id \in StepIds : RunStep(id)

NamesSpec == NamesInit /\ [][NamesNext]_namesVars

(***************************************************************************)
(* Properties.                                                             *)
(***************************************************************************)
\* Every part of the state has its type; the host replaces no builtin that compiled
\* code calls outright (register_fn_override).
NamesTypeOK ==
  /\ hosts \subseteq Names \ Pure /\ scopes \in Seq(Frame) /\ frameId \in Nat
  /\ \A c \in Closures : fns[c].made => fns[c].chain \subseteq Nat \X Nat

\* A body runs compiled only where the evaluator would run the builtin it calls
\* outright: a function's where its own body would look the name up, a step's
\* right here, whatever was bound since it was compiled or by which call
\* (usable_compiled_body, cached_step_body; #191).
BodiesRunBuiltins ==
  /\ \A c \in Closures : fns[c].made /\ Usable(c) =>
       CallIn(Entered(c), Len(scopes) + 1, fns[c].use) = Runs("builtin", fns[c].use)
  /\ \A e \in {bodies.last} \cup bodies.others : e.body # {} /\ UnshadowedHere(e.body) =>
       CallIn(scopes, Top(scopes), e.id) = Runs("builtin", e.id)

\* What is kept for a step is what compiling it gives, however often the cache
\* was emptied, and the step asked for last is there.
BodiesAsCompiled ==
  /\ OneEntryEach
  /\ \A e \in {bodies.last} \cup bodies.others : e # NoEntry => e.body = CompileStep(e.id)

\* So a compiled body gives what the evaluator would.
FastPathsAgree == BodiesRunBuiltins /\ BodiesAsCompiled

\* A name reaches the same function called, passed by name, bound to another name
\* first, or applied in part: a host function in place of a builtin, and a binding
\* in place of both (evaluate_function_call, apply_function,
\* call_builtin_with_values, create_partial_application).
SameFunction ==
  \A p \in 1 .. Top(scopes), n \in Names :
    LET runs == CallIn(scopes, p, n)
        v    == ValueIn(scopes, p, n)
    IN /\ CallbackIn(scopes, p, n) = runs
       /\ PartialIn(scopes, p, n) = runs
       /\ (IF v \in Fns THEN CallValue(v) ELSE Nothing) = runs

\* The arguments a callback gets are cut to the parameters of the function that
\* runs, and not cut for a host function (get_callback_param_count).
ArityOfCallee ==
  \A p \in 1 .. Top(scopes), n \in Names :
    LET runs == CallbackIn(scopes, p, n)
    IN runs # Nothing => ArityOf(scopes, p, n) = IF runs.k = "host" THEN "all" ELSE runs.name

\* So it makes no difference from where a name is called.
SameInEveryPosition == SameFunction /\ ArityOfCallee
=============================================================================
