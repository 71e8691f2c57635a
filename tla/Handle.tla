-------------------------------- MODULE Handle --------------------------------
(***************************************************************************)
(* Expression handles of the C ABI (capi.rs, expression.rs): a program     *)
(* compiles an expression, binds variables, registers functions and        *)
(* evaluates, on one thread, whose error slot every call writes.  The      *)
(* functions it registers are called by the evaluation and may make any    *)
(* of those calls in turn, on any handle.                                  *)
(***************************************************************************)
EXTENDS Integers, Sequences, SequencesExt

CONSTANTS
  Handles,      \* the expressions compiled
  Compilable,   \* those that have bytecode
  BindNames,    \* variables that are bound
  HostNames,    \* host functions' names
  CompiledFns,  \* of those, builtins that compile ...
  OtherFns,     \* ... and builtins that do not
  MaxNested,    \* bound: evaluations and callbacks under way
  MaxSettings   \* bound: calls that change a handle

ASSUME HandleAssumption ==
  /\ Compilable \subseteq Handles /\ CompiledFns \cup OtherFns \subseteq HostNames
  /\ CompiledFns \cap OtherFns = {} /\ MaxNested \in Nat /\ MaxSettings \in Nat

VARIABLES
  handles,   \* JsonataExpr: what was bound, registered and set, and the bytecode
  slot,      \* LAST_ERROR: empty, or the kind of error it speaks of
  calls,     \* evaluations and callbacks under way, innermost last
  settings,  \* how many calls have changed a handle
  replied    \* what the call that returned last gave: "ok", "undefined" or its error

handleVars == <<handles, slot, calls, settings, replied>>

NewHandle == [vars |-> [n \in BindNames |-> 0], fns |-> [n \in HostNames |-> "none"],
          limits |-> 0, bytecode |-> "unknown"]

\* An evaluation under way: `vars`, `fns` and `limits` are what it goes by.
Evaluation(h, how, s) ==
  [who |-> "eval", on |-> h, how |-> how, vars |-> s.vars, fns |-> s.fns, limits |-> s.limits]
Callback == [who |-> "callback"]

HandleInit ==
  /\ handles = [h \in Handles |-> NewHandle] /\ slot = "empty" /\ calls = <<>>
  /\ settings = 0 /\ replied = "ok"

\* The program's own code runs, at the top or in a callback.
ProgramRuns == IF calls = <<>> THEN TRUE ELSE Last(calls).who = "callback"

\* clear_error and set_error, as a call returns.
Succeeds    == slot' = "empty" /\ replied' = "ok"
Fails(error) == slot' = error /\ replied' = error

Changes(h, s) ==
  /\ settings < MaxSettings /\ settings' = settings + 1
  /\ handles' = [handles EXCEPT ![h] = s]
  /\ Succeeds /\ UNCHANGED calls

\* An argument is NULL, or not UTF-8, or not JSON: any of the calls.
Refused ==
  /\ ProgramRuns /\ Fails("argument")
  /\ UNCHANGED <<handles, calls, settings>>

\* jsonata_compile gives a handle nobody has used.
Parsed(h) ==
  /\ ProgramRuns /\ handles[h] = NewHandle /\ Succeeds
  /\ UNCHANGED <<handles, calls, settings>>

\* jsonata_bind_var: a name bound before takes the new value.
BindVar(h, n) ==
  /\ ProgramRuns
  /\ Changes(h, [handles[h] EXCEPT !.vars[n] = @ + 1])

\* jsonata_set_limits
SetLimits(h) ==
  /\ ProgramRuns
  /\ Changes(h, [handles[h] EXCEPT !.limits = @ + 1])

\* A fault: an override is not asked about.
AnyOverride(n, override) == override \/ n \notin CompiledFns \cup OtherFns

\* register_fn and register_fn_override on a throwaway evaluator.
Accepts(n, override) ==
  IF override THEN n \notin CompiledFns ELSE n \notin CompiledFns \cup OtherFns

\* register_host_fn: the last registration of a name stands.
Register(h, n, override) ==
  /\ ProgramRuns
  /\ IF Accepts(n, override)
     THEN Changes(h, [handles[h] EXCEPT !.fns[n] = IF override THEN "override" ELSE "own"])
     ELSE Fails("registration") /\ UNCHANGED <<handles, calls, settings>>

HasVars(s) == \E n \in BindNames : s.vars[n] # 0
HasFns(s)  == \E n \in HostNames : s.fns[n] # "none"

\* jsonata_evaluate: neither variables nor functions, which the VM does not see.
MayCompile(s) == ~ HasVars(s) /\ ~ HasFns(s)

\* run_compiled: bytecode is made once, if the expression has any.
Made(h) == IF handles[h].bytecode # "unknown" THEN handles[h].bytecode
           ELSE IF h \in Compilable THEN "made" ELSE "none"

Evaluate(h) ==
  /\ ProgramRuns /\ Len(calls) < MaxNested
  /\ IF MayCompile(handles[h])
     THEN /\ handles' = [handles EXCEPT ![h].bytecode = Made(h)]
          /\ calls' = Append(calls, Evaluation(h, IF Made(h) = "made" THEN "vm" ELSE "tree", handles[h]))
     ELSE /\ UNCHANGED handles
          /\ calls' = Append(calls, Evaluation(h, "tree", handles[h]))
  /\ UNCHANGED <<slot, settings, replied>>

\* The evaluator's own registry, copied as the evaluation began.
Registry(call) == call.fns

\* CHostFn::call
CallHost(n) ==
  /\ calls # <<>> /\ Last(calls).who = "eval" /\ Last(calls).how = "tree"
  /\ Len(calls) < MaxNested /\ Registry(Last(calls))[n] # "none"
  /\ calls' = Append(calls, Callback)
  /\ UNCHANGED <<handles, slot, settings, replied>>

\* With a value; or NULL, or no JSON, which fails the evaluation as it may fail by
\* itself.
CallbackReturns ==
  /\ calls # <<>> /\ Last(calls).who = "callback"
  /\ calls' = Front(calls)
  /\ UNCHANGED <<handles, slot, settings, replied>>

\* A fault: the slot is cleared as the evaluation begins, and not again.
ClearedBefore == slot

\* What the slot holds after a value.
AfterValue == "empty"

\* A value clears the slot, then may turn out to have no text; anything else sets it.
EvaluateReturns(result) ==
  /\ calls # <<>> /\ Last(calls).who = "eval"
  /\ calls' = Front(calls)
  /\ replied' = result
  /\ slot' = IF result \in {"ok", "undefined"} THEN AfterValue ELSE result
  /\ UNCHANGED <<handles, settings>>

Results == {"ok", "undefined", "no text", "evaluation", "panic"}

HandleNext ==
  \/ Refused
  \/ \E h \in Handles :
       \/ Parsed(h) \/ SetLimits(h) \/ Evaluate(h)
       \/ \E n \in BindNames : BindVar(h, n)
       \/ \E n \in HostNames, override \in BOOLEAN : Register(h, n, override)
  \/ \E n \in HostNames : CallHost(n)
  \/ CallbackReturns
  \/ \E result \in Results : EvaluateReturns(result)

HandleSpec == HandleInit /\ [][HandleNext]_handleVars

(***************************************************************************)
(* Properties.                                                             *)
(***************************************************************************)
\* Every part of the state has its type, and no registration stands that an
\* evaluation would have to refuse when it copies it.
HandleTypeOK ==
  /\ \A h \in Handles :
       /\ handles[h].bytecode \in {"unknown", "made", "none"}
       /\ \A n \in HostNames : handles[h].fns[n] # "none" => Accepts(n, handles[h].fns[n] = "override")
       /\ \A n \in CompiledFns : handles[h].fns[n] = "none"
  /\ slot \in {"empty", "argument", "registration"} \cup Results
  /\ settings \in 0 .. MaxSettings /\ Len(calls) <= MaxNested

\* The slot speaks of the call that returned last, whatever calls that call's
\* callbacks made: empty after a success, which is how NULL for undefined is told
\* from NULL for an error (jsonata_evaluate; jsonata.h).
SlotOfLastCall ==
  slot = IF replied \in {"ok", "undefined"} THEN "empty" ELSE replied
=============================================================================
