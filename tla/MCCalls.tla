-------------------------------- MODULE MCCalls --------------------------------
(***************************************************************************)
(* Calls on small instances: the kinds of expression each run's programs   *)
(* are made of.  The .cfg files give the rest: the function handles, which *)
(* are model values, and the bounds.                                       *)
(***************************************************************************)
EXTENDS Calls

MCNames   == {"f", "x"}
OnlyParam == {"x"}   \* functions that no name is bound to when they are made

\* Functions that call each other in tail position, and sorts whose comparators
\* make and call them.
TailForms == {"tail", "sort"}

\* Compositions and `$eval`, as values, as callbacks and in one another.
CompositionForms == {"compose", "eval", "hof", "host", "assign", "error"}

\* Builtins with callbacks, and `$eval`, in tail position of functions.
TailBuiltinForms == {"tail", "hof", "eval", "error"}

\* Every kind of expression that makes, enters or leaves a scope: all but
\* assignments, which CompositionForms has.
WholeLanguage ==
  {"tail", "plain", "capture", "block", "sort", "eval", "hof", "compose", "host",
   "foreign", "error"}
=============================================================================
