---------------------------- MODULE PythonExtension ----------------------------
(***************************************************************************)
(* Evaluations from Python (lib.rs): the input is wrapped, not converted;  *)
(* the evaluation reads it, and calls the Python functions registered with *)
(* the expression, which change the dicts they are given and evaluate in   *)
(* turn.  The native stack of PyStack and the dicts of LazyDict go along.  *)
(***************************************************************************)
EXTENDS PyStack, LazyDict

VARIABLE marks   \* how many wrappers there were as each evaluation began

pyVars == <<stackVars, lazyVars, marks>>

PyInit == StackInit /\ LazyInit /\ marks = <<>>

\* JsonataExpression::evaluate
EvalBegins(d) ==
  /\ StartEval /\ WrapInput(d)
  /\ marks' = Append(marks, Len(wrappers))

\* What the evaluation does with the wrappers it has made.
Reads ==
  /\ EvalRuns
  /\ \E w \in Last(marks) + 1 .. Len(wrappers) : ToObject(w) \/ \E f \in Keys : GetField(w, f)
  /\ UNCHANGED <<stackVars, marks>>

Deeper(near, segment) == Goes(near, segment) /\ UNCHANGED <<lazyVars, marks>>

\* PyHostFn::call; a wrapper is handed over as the dict it wraps.
HostCalled ==
  /\ CallDirect \/ CallProtected \/ \E how \in {"grown", "unprotected"} : CallGrown(how)
  /\ UNCHANGED <<lazyVars, marks>>

HostEnds == HostReturns /\ UNCHANGED <<lazyVars, marks>>

PythonChanges(d, f, v) ==
  /\ PythonRuns /\ PySet(d, f, v)
  /\ UNCHANGED <<stackVars, marks>>

\* With a result or an error; a wrapper in the result is given back as its dict.
EvalEnds ==
  /\ EvalReturns /\ DropWrappers(Last(marks))
  /\ marks' = Front(marks)

PyNext ==
  \/ \E d \in Dicts : EvalBegins(d)
  \/ Reads \/ HostCalled \/ HostEnds \/ EvalEnds
  \/ \E near \in BOOLEAN, segment \in 0 .. MaxPyCalls : Deeper(near, segment)
  \/ \E d \in Dicts, f \in Keys, v \in PyValues \cup {NotThere} : PythonChanges(d, f, v)

PySpec == PyInit /\ [][PyNext]_pyVars

\* Every part of the state has its type, and what a wrapper has kept refers to
\* wrappers that are there.
PyTypeOK == StackTypeOK /\ LazyTypeOK /\ marks \in Seq(0 .. MaxWrappers)
=============================================================================
