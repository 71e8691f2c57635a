----------------------------- MODULE MCGuardrails -----------------------------
(***************************************************************************)
(* Guardrails on small instances: evaluators with and without a depth      *)
(* limit and a timeout, and the calls their evaluations are made of.       *)
(***************************************************************************)
EXTENDS Guardrails

\* A limit below MAX_EVAL_DEPTH, one above it that changes nothing, and none.
MCOptions == {[stack |-> 1, timeout |-> 1], [stack |-> 9, timeout |-> None],
              [stack |-> None, timeout |-> 0]}

\* Every call there is but the loop over a custom matcher's matches, which does
\* not look at the token or the time (see EndlessMatcher.cfg).
CheckedKinds == {"entry", "level", "tail", "hof", "replacer", "compiled", "vm", "filter", "sub"}

MatcherKinds == {"entry", "level", "matcher"}
=============================================================================
