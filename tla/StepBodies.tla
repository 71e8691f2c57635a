------------------------------ MODULE StepBodies ------------------------------
(***************************************************************************)
(* The cache of compiled path steps (StepBodies, in src/src/evaluator.rs): *)
(* the step looked up last, and a map of the others that is emptied when   *)
(* it is full.                                                             *)
(***************************************************************************)
EXTENDS Integers, FiniteSets

CONSTANTS
  StepIds,         \* PathStep::id
  MaxStepBodies,   \* MAX_STEP_BODIES
  NoStep           \* no step was looked up yet

ASSUME StepBodiesAssumption ==
  /\ NoStep \notin StepIds /\ MaxStepBodies \in Nat \ {0} /\ IsFiniteSet(StepIds)

VARIABLE bodies   \* [last, others]: ids with the body kept for each

\* What is kept for a step: its id with what compiling its body gave.
Entry(id, compiled) == [id |-> id, body |-> compiled]
NoEntry == Entry(NoStep, {})

StepsInit == bodies = [last |-> NoEntry, others |-> {}]

Others(id) == {e \in bodies.others : e.id = id}

\* others.remove
Removed(id) == Others(id)

\* A fault: the limit is looked at before the last one joins the others.
OneOver(others) == Cardinality(others) > MaxStepBodies

IsFull(others) == Cardinality(others) >= MaxStepBodies

\* The last entry joins the others, all of which go when there are too many.
PutAway(others) == (IF IsFull(others) THEN {} ELSE others) \cup {bodies.last}

\* get_or_compile: `compile` is what compiling the step now gives.
Found(id, compile) ==
  IF bodies.last.id = id THEN bodies.last.body
  ELSE IF Others(id) # {} THEN (CHOOSE e \in Others(id) : TRUE).body
  ELSE compile

GetOrCompile(id, compile) ==
  IF bodies.last.id = id THEN UNCHANGED bodies
  ELSE LET others == bodies.others \ Removed(id)
       IN bodies' = [last   |-> Entry(id, Found(id, compile)),
                     others |-> IF bodies.last = NoEntry THEN others ELSE PutAway(others)]

\* Each step has one entry at most, the one asked for last among them, and there
\* are never more of them than the limit and one.
OneEntryEach ==
  /\ \A e, f \in bodies.others \cup {bodies.last} : e.id = f.id => e = f
  /\ bodies.last \notin bodies.others
  /\ Cardinality(bodies.others) <= MaxStepBodies
=============================================================================
