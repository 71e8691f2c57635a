---------------------------- MODULE Environments ----------------------------
(***************************************************************************)
(* What the scopes of a JSONata program promise, in terms of environments: *)
(* each block and each call runs in one of its own, which sees itself and  *)
(* what the place it is written in sees, never what its caller sees.       *)
(*                                                                         *)
(* This is jsonata-js's `environment` as far as this engine keeps it: an   *)
(* environment left is gone, and a function that outlived it goes on with  *)
(* those of its scope that are still active.  `home` is what the code of   *)
(* an environment sees where it is written, `sees` what it looks names up  *)
(* in.                                                                     *)
(***************************************************************************)
EXTENDS Naturals, Sequences

CONSTANTS
  Functions,   \* handles of function values
  EnvIds,      \* the identities environments take
  TopEnv       \* the environment of the caller's own bindings

VARIABLES
  active,   \* the active environments, innermost last: [id, home, sees]
  scope,    \* what each function sees where it is written, {} for one gone
  used      \* the identities taken so far

envVars == <<active, scope, used>>

ActiveIds(a) == {a[i].id : i \in DOMAIN a}

TypeOK ==
  /\ active \in Seq([id: EnvIds \cup {TopEnv}, home: SUBSET (EnvIds \cup {TopEnv}),
                     sees: SUBSET (EnvIds \cup {TopEnv})])
  /\ scope \in [Functions -> SUBSET (EnvIds \cup {TopEnv})]
  /\ used \subseteq EnvIds

Init ==
  /\ active = <<[id |-> TopEnv, home |-> {}, sees |-> {TopEnv}]>>
  /\ scope \in [Functions -> {{}, {TopEnv}}]
  /\ used = {}

\* Any step may drop the last reference to a function.
Dropping == \A f \in Functions : scope'[f] \in {scope[f], {}}

\* A new environment above those of `a`, inside a place that sees `seen`.
Inside(a, seen, id) ==
  LET home == seen \cap ActiveIds(a)
  IN  Append(a, [id |-> id, home |-> home, sees |-> {id} \cup home])

NewId(id) == id \in EnvIds \ used /\ used' = used \cup {id}

\* A block, or code the evaluator runs for an environment further out.
EnterWithin(i, id) ==
  /\ i \in DOMAIN active /\ NewId(id) /\ Dropping
  /\ active' = Inside(active, active[i].sees, id)

\* Code run over and over, each time in an environment of its own: no function
\* made before sees it.
Afresh(id) ==
  LET n == Len(active)
  IN  /\ n > 1 /\ NewId(id) /\ Dropping
      /\ active' = [active EXCEPT ![n] = [id |-> id, home |-> @.home,
                                         sees |-> {id} \cup @.home]]

EnterCall(f, id) ==
  /\ scope[f] # {} /\ NewId(id) /\ Dropping
  /\ active' = Inside(active, scope[f], id)

Leave(n) ==
  /\ n \in 1 .. Len(active) /\ Dropping
  /\ active' = SubSeq(active, 1, n)
  /\ UNCHANGED used

\* A tail call: environments of the loop may end with it, but none that a
\* function still held can see.
TailCall(f, n, id) ==
  /\ scope[f] # {} /\ NewId(id) /\ Dropping
  /\ n \in 1 .. Len(active)
  /\ LET kept == SubSeq(active, 1, n)
         ends == ActiveIds(active) \ ActiveIds(kept)
     IN  /\ active' = Inside(kept, scope[f], id)
         /\ \A g \in Functions : scope'[g] \cap ends = {}

Make(f) ==
  /\ scope[f] = {}
  /\ scope'[f] = active[Len(active)].sees
  /\ \A g \in Functions \ {f} : scope'[g] \in {scope[g], {}}
  /\ UNCHANGED <<active, used>>

\* A composition and the function it calls first are made at once; the
\* composition itself sees only its caller's scope.
MakeTwo(f, g) ==
  /\ f # g /\ scope[f] = {} /\ scope[g] = {}
  /\ scope'[f] = active[Len(active)].sees
  /\ scope'[g] = {TopEnv}
  /\ \A h \in Functions \ {f, g} : scope'[h] \in {scope[h], {}}
  /\ UNCHANGED <<active, used>>

Next ==
  \/ \E id \in EnvIds :
       \/ Afresh(id)
       \/ \E i \in 1 .. Len(active) : EnterWithin(i, id)
       \/ \E f \in Functions :
            EnterCall(f, id) \/ \E n \in 1 .. Len(active) : TailCall(f, n, id)
  \/ \E n \in 1 .. Len(active) : Leave(n)
  \/ \E f \in Functions : Make(f) \/ \E g \in Functions : MakeTwo(f, g)

Spec == Init /\ [][Next]_envVars
=============================================================================
