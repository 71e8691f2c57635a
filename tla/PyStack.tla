-------------------------------- MODULE PyStack --------------------------------
(***************************************************************************)
(* The native stack under Python callbacks (pystack.rs).  Deep evaluation  *)
(* runs on segments of stack taken from the heap, of which CPython knows   *)
(* nothing.  A host function called far from where its evaluation started  *)
(* runs on a large segment of its own, and CPython is told its bounds for  *)
(* the time of the call.  Host functions evaluate in turn.                 *)
(*                                                                         *)
(* A segment is a number, Main the thread's own stack; that a position is  *)
(* within HOST_DIRECT_BUDGET of where its evaluation started is a boolean. *)
(***************************************************************************)
EXTENDS Integers, Sequences, SequencesExt, FiniteSetsExt

CONSTANTS
  Main,          \* the thread's own stack
  Nowhere,       \* a StackEntry of None
  MaxPyCalls     \* bound: evaluations and callbacks under way

ASSUME PyStackAssumption == Main = 0 /\ Nowhere \notin Nat /\ MaxPyCalls \in Nat

VARIABLES
  api,        \* stack_protection_api finds CPython's functions (3.14)
  measured,   \* remaining_stack() knows the size of the thread's own stack
  pyCalls,    \* Python code and evaluations under way, innermost last
  bounds,     \* the segment whose bounds CPython goes by
  protected   \* PROTECTED

stackVars == <<api, measured, pyCalls, bounds, protected>>

\* Python code runs on `segment`, called `how`; an evaluation began at `entry`,
\* and is now on `segment`, near its start or not.
PyCall == [who : {"python", "eval"}, segment : Nat, entry : Nat \cup {Nowhere},
           near : BOOLEAN, how : {"host", "direct", "grown", "unprotected", "protected"}]

Python(segment, how) ==
  [who |-> "python", segment |-> segment, entry |-> Nowhere, near |-> TRUE, how |-> how]

Inner       == Last(pyCalls)
PythonRuns  == Inner.who = "python"
EvalRuns    == Inner.who = "eval"
\* grow and maybe_grow: a segment that no code is on.
FreshSegment       == 1 + Max({pyCalls[i].segment : i \in DOMAIN pyCalls})

StackInit ==
  /\ api \in BOOLEAN /\ measured \in BOOLEAN
  /\ pyCalls = <<Python(Main, "host")>> /\ bounds = Main /\ protected = <<>>

\* StackEntry::here
EntryHere == IF Inner.segment = Main /\ ~ measured THEN Nowhere ELSE Inner.segment

\* run_eval, with register_host_fns: the evaluation starts where Python called it.
StartEval ==
  /\ PythonRuns /\ Len(pyCalls) < MaxPyCalls
  /\ pyCalls' = Append(pyCalls, [who |-> "eval", segment |-> Inner.segment, entry |-> EntryHere,
                                 near |-> TRUE, how |-> "direct"])
  /\ UNCHANGED <<api, measured, bounds, protected>>

\* The evaluation goes deeper, on the same segment or another, or comes back.
Goes(near, segment) ==
  /\ EvalRuns
  /\ IF near THEN segment = pyCalls[Len(pyCalls) - 1].segment
             ELSE segment \in {Inner.segment, FreshSegment}
  /\ pyCalls' = ReplaceAt(pyCalls, Len(pyCalls), [Inner EXCEPT !.near = near, !.segment = segment])
  /\ UNCHANGED <<api, measured, bounds, protected>>

\* A fault: what is near is not looked at once the bounds have been moved.
DirectOnceMoved == Inner.entry = Nowhere \/ Inner.near \/ protected # <<>>

\* with_python_stack: near the start, or when the start is not known.
Direct == Inner.entry = Nowhere \/ Inner.near

CallDirect ==
  /\ EvalRuns /\ Len(pyCalls) < MaxPyCalls /\ Direct
  /\ pyCalls' = Append(pyCalls, Python(Inner.segment, "direct"))
  /\ UNCHANGED <<api, measured, bounds, protected>>

\* Count-based CPython; and bounds that cannot be set.
CallGrown(how) ==
  /\ EvalRuns /\ Len(pyCalls) < MaxPyCalls /\ ~ Direct
  /\ how = IF api THEN "unprotected" ELSE "grown"
  /\ pyCalls' = Append(pyCalls, Python(FreshSegment, how))
  /\ UNCHANGED <<api, measured, bounds, protected>>

CallProtected ==
  /\ EvalRuns /\ Len(pyCalls) < MaxPyCalls /\ ~ Direct /\ api
  /\ pyCalls' = Append(pyCalls, Python(FreshSegment, "protected"))
  /\ bounds' = FreshSegment /\ protected' = Append(protected, FreshSegment)
  /\ UNCHANGED <<api, measured>>

\* A fault: CPython gets the thread's own bounds back, whoever called.
ResetAlways(left) == Main

\* What CPython goes by once a protected call is over, with `left` on the list.
BoundsAfter(left) == IF left = <<>> THEN Main ELSE Last(left)

HostReturns ==
  /\ PythonRuns /\ Len(pyCalls) > 1
  /\ pyCalls' = Front(pyCalls)
  /\ IF Inner.how = "protected"
     THEN protected' = Front(protected) /\ bounds' = BoundsAfter(Front(protected))
     ELSE UNCHANGED <<protected, bounds>>
  /\ UNCHANGED <<api, measured>>

EvalReturns ==
  /\ EvalRuns
  /\ pyCalls' = Front(pyCalls)
  /\ UNCHANGED <<api, measured, bounds, protected>>

StackTypeOK ==
  /\ api \in BOOLEAN /\ measured \in BOOLEAN /\ pyCalls \in Seq(PyCall) /\ pyCalls # <<>>
  /\ bounds \in Nat /\ protected \in Seq(Nat)

\* CPython's bounds are those of the innermost protected call under way, or the
\* thread's own: each call gives back what it found, however calls nest
\* (with_python_stack's PROTECTED list).
BoundsGivenBack ==
  LET moved == {i \in DOMAIN pyCalls : pyCalls[i].how = "protected"}
  IN bounds = IF moved = {} THEN Main ELSE pyCalls[Max(moved)].segment

\* Python code runs with the bounds of the segment it is on, unless one of the
\* calls around it had no way to set them or did not know where it started.
PythonSeesItsStack ==
  /\ PythonRuns /\ api
  /\ \A i \in DOMAIN pyCalls :
       /\ pyCalls[i].how # "unprotected"
       /\ pyCalls[i].who = "eval" => pyCalls[i].entry # Nowhere
  => bounds = Inner.segment

\* So CPython's checks of its stack are of the stack it runs on.
BoundsOfCalls == BoundsGivenBack /\ PythonSeesItsStack
=============================================================================
