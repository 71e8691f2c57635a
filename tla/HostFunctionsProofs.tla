-------------------------- MODULE HostFunctionsProofs --------------------------
(***************************************************************************)
(* What a name means in call position: the same function from wherever it  *)
(* is called, and a compiled body only where the builtin it calls outright *)
(* is the function the evaluator would call.                               *)
(***************************************************************************)
EXTENDS HostFunctions, ScopeStackProofs, FiniteSetTheorems

(***************************************************************************)
(* The cache of compiled steps.                                            *)
(***************************************************************************)
StepEntry == [id : StepIds \cup {NoStep}, body : SUBSET Names]

BodiesTypeOK ==
  /\ bodies \in [last : StepEntry, others : SUBSET StepEntry]
  /\ IsFiniteSet(bodies.others)
  /\ \A e \in bodies.others : e.id # NoStep
  /\ bodies.last.id = NoStep => bodies.last = NoEntry

BodiesInv == BodiesTypeOK /\ BodiesAsCompiled

LEMMA CompiledIs ==
  ASSUME NEW id \in Names
  PROVE  CompileStep(id) = (IF id \in Pure \cup Inlined THEN {id} ELSE {})
BY DEF CompileStep, BuiltinsOf, Compiles

LEMMA CompiledStep ==
  ASSUME NEW id \in StepIds
  PROVE  CompileStep(id) \in SUBSET Names /\ Entry(id, CompileStep(id)) \in StepEntry
<1>1. id \in Names
  BY HostFunctionsAssumption
<1>2. CompileStep(id) \in SUBSET Names
  BY <1>1, CompiledIs
<1> QED
  BY <1>2 DEF Entry, StepEntry

LEMMA FoundCompiled ==
  ASSUME BodiesInv, NEW id \in StepIds
  PROVE  Found(id, CompileStep(id)) = CompileStep(id)
<1>1. id # NoStep
  BY StepBodiesAssumption
<1>2. ASSUME NEW e \in bodies.others \cup {bodies.last}, e.id = id
      PROVE  e.body = CompileStep(id)
  <2>1. e # NoEntry
    BY <1>1, <1>2 DEF NoEntry, Entry
  <2> QED
    BY <1>2, <2>1 DEF BodiesInv, BodiesAsCompiled
<1>3. CASE bodies.last.id = id
  BY <1>2, <1>3 DEF Found
<1>4. CASE bodies.last.id # id /\ Others(id) # {}
  <2> DEFINE e == CHOOSE x \in Others(id) : TRUE
  <2>1. e \in bodies.others /\ e.id = id
    BY <1>4 DEF Others
  <2> QED
    BY <1>2, <1>4, <2>1 DEF Found
<1> QED
  BY <1>3, <1>4 DEF Found

\* get_or_compile keeps what compiling gives, one entry a step, and no more than
\* the limit.
LEMMA StepRun ==
  ASSUME BodiesInv, NEW id \in StepIds, GetOrCompile(id, CompileStep(id))
  PROVE  BodiesInv'
<1> DEFINE others == bodies.others \ Removed(id)
           last == Entry(id, CompileStep(id))
           kept == IF bodies.last = NoEntry THEN others ELSE PutAway(others)
<1>1. CASE bodies.last.id = id
  <2>1. UNCHANGED bodies
    BY <1>1 DEF GetOrCompile
  <2> QED
    BY <2>1 DEF BodiesInv, BodiesTypeOK, BodiesAsCompiled, OneEntryEach
<1>2. CASE bodies.last.id # id
  <2>1. bodies' = [last |-> last, others |-> kept]
    BY <1>2, FoundCompiled DEF GetOrCompile
  <2>2. /\ last \in StepEntry /\ last.id = id /\ last.body = CompileStep(id) /\ id # NoStep
    BY CompiledStep, StepBodiesAssumption DEF Entry
  <2>3. /\ bodies.last \in StepEntry /\ bodies.others \in SUBSET StepEntry
        /\ IsFiniteSet(bodies.others) /\ \A e \in bodies.others : e.id # NoStep
        /\ bodies.last.id = NoStep => bodies.last = NoEntry
        /\ \A e, f \in bodies.others \cup {bodies.last} : e.id = f.id => e = f
        /\ Cardinality(bodies.others) <= MaxStepBodies
        /\ \A e \in {bodies.last} \cup bodies.others : e # NoEntry => e.body = CompileStep(e.id)
    BY DEF BodiesInv, BodiesTypeOK, BodiesAsCompiled, OneEntryEach
  <2>4. /\ others \subseteq bodies.others /\ \A e \in others : e.id # id
    BY DEF Removed, Others
  <2>5. IsFiniteSet(others) /\ Cardinality(others) \in Nat /\ Cardinality(others) <= MaxStepBodies
    <3>1. /\ IsFiniteSet(others) /\ Cardinality(others) <= Cardinality(bodies.others)
      BY <2>3, <2>4, FS_Subset
    <3>2. Cardinality(others) \in Nat /\ Cardinality(bodies.others) \in Nat
      BY <2>3, <3>1, FS_CardinalityType
    <3> QED
      BY <2>3, <3>1, <3>2, StepBodiesAssumption
  <2> HIDE DEF others, last
  <2>6. \A e \in kept : \/ e \in others
                        \/ e = bodies.last /\ bodies.last # NoEntry
    BY DEF PutAway
  <2>7. \A e \in kept : /\ e \in StepEntry /\ e.id # NoStep /\ e.id # id
                        /\ e \in bodies.others \cup {bodies.last}
                        /\ e.body = CompileStep(e.id)
    <3>1. \A e \in bodies.others : e # NoEntry
      BY <2>3 DEF NoEntry, Entry
    <3> QED
      BY <1>2, <2>3, <2>4, <2>6, <3>1
  <2>8. IsFiniteSet(kept) /\ Cardinality(kept) <= MaxStepBodies
    <3>1. CASE bodies.last = NoEntry
      BY <2>5, <3>1
    <3>2. CASE bodies.last # NoEntry /\ IsFull(others)
      <4>1. kept = {bodies.last}
        BY <3>2 DEF PutAway
      <4>2. IsFiniteSet({bodies.last}) /\ Cardinality({bodies.last}) = 1
        BY FS_Singleton, Zenon
      <4>3. 1 <= MaxStepBodies
        BY StepBodiesAssumption
      <4> QED
        BY <4>1, <4>2, <4>3
    <3>3. CASE bodies.last # NoEntry /\ ~ IsFull(others)
      <4>1. kept = others \cup {bodies.last}
        BY <3>3 DEF PutAway
      <4>2. Cardinality(others) < MaxStepBodies
        BY <2>5, <3>3, StepBodiesAssumption DEF IsFull
      <4>3. /\ IsFiniteSet(kept)
            /\ Cardinality(kept) = IF bodies.last \in others THEN Cardinality(others) ELSE Cardinality(others) + 1
        BY <2>5, <4>1, FS_AddElement
      <4> QED
        BY <2>5, <4>2, <4>3, StepBodiesAssumption
    <3> QED
      BY <3>1, <3>2, <3>3
  <2> HIDE DEF kept
  <2>9. bodies'.last = last /\ bodies'.others = kept
    BY <2>1
  <2>10. BodiesTypeOK'
    <3>1. bodies' \in [last : StepEntry, others : SUBSET StepEntry]
      BY <2>1, <2>2, <2>7
    <3> QED
      BY <2>2, <2>7, <2>8, <2>9, <3>1 DEF BodiesTypeOK
  <2>11. OneEntryEach'
    <3>1. \A e, f \in kept \cup {last} : e.id = f.id => e = f
      BY <2>2, <2>3, <2>7
    <3>2. last \notin kept
      BY <2>2, <2>7
    <3> QED
      BY <2>8, <2>9, <3>1, <3>2 DEF OneEntryEach
  <2>12. \A e \in {bodies'.last} \cup bodies'.others : e # NoEntry => e.body = CompileStep(e.id)
    BY <2>2, <2>7, <2>9
  <2> QED
    BY <2>10, <2>11, <2>12 DEF BodiesInv, BodiesAsCompiled
<1> QED
  BY <1>1, <1>2
-----------------------------------------------------------------------------
(***************************************************************************)
(* The values a name may have, and the frame a function's body runs in.    *)
(***************************************************************************)
LEMMA Referenced ==
  ASSUME NEW n \in Names
  PROVE  Reference[n] \in Fns /\ Reference[n] \notin Closures /\ Reference[n][2] = n
BY HostFunctionsAssumption DEF Reference

LEMMA ValueIs ==
  ASSUME NEW s \in Seq(Frame), NEW p \in 1 .. Len(s), NEW n \in Names
  PROVE  ValueIn(s, p, n) \in Value \cup {Unbound}
<1>1. Lookup(s, p, n) \in Value \cup {Unbound}
  BY LookupIn
<1>2. Reference[n] \in Value
  BY Referenced DEF Value
<1> QED
  BY <1>1, <1>2 DEF ValueIn

\* A frame pushed with a barrier sees what it binds, and else what is seen there.
LEMMA LookupPushed ==
  ASSUME NEW s \in Seq(Frame), Grounded(s), NEW f \in Frame, f.barrier \in 1 .. Len(s),
         NEW n \in Names
  PROVE  Lookup(Append(s, f), Len(s) + 1, n) =
           IF f.bind[n] # Unbound THEN f.bind[n] ELSE Lookup(s, f.barrier, n)
<1> DEFINE t == Append(s, f)
           top == Len(s) + 1
           at == f.barrier
           below == {q \in Path(s, at) : s[q].bind[n] # Unbound}
           bound == {q \in Path(t, top) : t[q].bind[n] # Unbound}
<1>1. /\ Len(s) \in Nat /\ Len(t) = top /\ t[top] = f
      /\ \A q \in 1 .. Len(s) : t[q] = s[q]
  OBVIOUS
<1>2. Grounded(t)
  BY <1>1 DEF Grounded
<1>3. Continue(t, top) = at
  BY <1>1 DEF Continue, NoBarrier
<1>4. top \in 1 .. Len(t) /\ at # 0
  BY <1>1
<1> HIDE DEF t, top, at
<1>5. Path(t, top) = {top} \cup Path(t, at)
  BY <1>2, <1>3, <1>4, PathUnfold
<1>6. Path(t, at) = Path(s, at)
  BY PushSees DEF t, at
<1>7. at \in 1 .. Len(s) /\ Path(s, at) \subseteq 1 .. at
  BY PathClosed DEF at
<1>8. \A q \in Path(s, at) : t[q] = s[q] /\ q < top
  BY <1>1, <1>7 DEF top
<1>9. bound = below \cup (IF f.bind[n] # Unbound THEN {top} ELSE {})
  BY <1>1, <1>5, <1>6, <1>8
<1>10. Lookup(t, top, n) = IF bound = {} THEN Unbound ELSE t[Highest(bound)].bind[n]
  BY Zenon DEF Lookup
<1>11. Lookup(s, at, n) = IF below = {} THEN Unbound ELSE s[Highest(below)].bind[n]
  BY Zenon DEF Lookup
<1>12. top \in Nat /\ bound \in SUBSET (1 .. top) /\ below \in SUBSET (1 .. top)
  BY <1>1, <1>5, <1>6, <1>7 DEF top
<1> HIDE DEF bound, below
<1>13. CASE f.bind[n] # Unbound
  <2>1. Highest(bound) \in bound /\ \A q \in bound : q <= Highest(bound)
    BY <1>9, <1>12, <1>13, HighestExists
  <2>2. Highest(bound) = top
    <3>1. top \in bound
      BY <1>9, <1>13
    <3>2. Highest(bound) \in 1 .. top /\ top <= Highest(bound)
      BY <1>12, <2>1, <3>1
    <3> QED
      BY <1>12, <3>2
  <2> QED
    BY <1>1, <1>9, <1>10, <1>13, <2>2 DEF t, top
<1>14. CASE f.bind[n] = Unbound
  <2>1. bound = below
    BY <1>9, <1>14
  <2>2. below # {} => Highest(below) \in below
    BY <1>12, HighestExists
  <2>3. below # {} => t[Highest(below)] = s[Highest(below)]
    BY <1>8, <2>2 DEF below
  <2> QED
    BY <1>10, <1>11, <1>14, <2>1, <2>3 DEF t, top, at
<1> QED
  BY <1>13, <1>14

-----------------------------------------------------------------------------
(***************************************************************************)
(* What every step keeps.                                                  *)
(***************************************************************************)
MadeBodies == [made : {TRUE}, use : Names, params : SUBSET Names, self : SUBSET Names,
               chain : SUBSET (Nat \X Nat), env : Bindings]

ScopesTypeOK == scopes \in Seq(Frame) /\ Grounded(scopes) /\ frameId \in Nat

NamesInv ==
  /\ hosts \subseteq Names \ Pure
  /\ ScopesTypeOK
  /\ fns \in [Closures -> MadeBodies \cup {NotMade}]
  /\ BodiesInv

LEMMA MadeIs ==
  ASSUME NamesInv, NEW c \in Closures, fns[c].made
  PROVE  fns[c] \in MadeBodies
BY DEF NamesInv, NotMade

LEMMA PushKeeps ==
  ASSUME ScopesTypeOK, NEW f \in Frame, f.barrier \in 0 .. Len(scopes),
         scopes' = Append(scopes, f), frameId' = frameId + 1
  PROVE  ScopesTypeOK'
<1>1. /\ scopes \in Seq(Frame) /\ Len(scopes) \in Nat \ {0} /\ frameId \in Nat
      /\ \A p \in 1 .. Len(scopes) : scopes[p].barrier \in 0 .. p - 1
  BY DEF ScopesTypeOK, Grounded
<1>2. /\ scopes' \in Seq(Frame) /\ Len(scopes') = Len(scopes) + 1
      /\ \A p \in 1 .. Len(scopes) : scopes'[p] = scopes[p]
      /\ scopes'[Len(scopes) + 1] = f
  BY <1>1
<1>3. \A p \in 1 .. Len(scopes') : scopes'[p].barrier \in 0 .. p - 1
  BY <1>1, <1>2
<1> QED
  BY <1>1, <1>2, <1>3 DEF ScopesTypeOK, Grounded

LEMMA BindKeeps ==
  ASSUME ScopesTypeOK, NEW n \in Names, NEW v \in Value, BindHere(n, v),
         UNCHANGED frameId
  PROVE  ScopesTypeOK'
<1> DEFINE top == Len(scopes)
<1>1. /\ scopes \in Seq(Frame) /\ top \in Nat \ {0} /\ frameId \in Nat
      /\ \A p \in 1 .. top : scopes[p].barrier \in 0 .. p - 1
  BY DEF ScopesTypeOK, Grounded
<1>2. scopes[top] \in Frame /\ scopes[top].bind \in Bindings
  BY <1>1, FrameAt
<1> DEFINE changed == [scopes[top] EXCEPT !.bind[n] = v]
<1>3. changed \in Frame /\ changed.barrier = scopes[top].barrier
  BY <1>2 DEF Frame, Bindings
<1>4. scopes' = [scopes EXCEPT ![top] = changed]
  BY DEF BindHere, Top
<1> HIDE DEF changed
<1>5. /\ scopes' \in Seq(Frame) /\ Len(scopes') = top
      /\ \A p \in 1 .. top : scopes'[p] = IF p = top THEN changed ELSE scopes[p]
  BY <1>1, <1>3, <1>4
<1> QED
  BY <1>1, <1>3, <1>5 DEF ScopesTypeOK, Grounded

LEMMA EnteredFrame ==
  ASSUME NamesInv, NEW c \in Closures, fns[c].made
  PROVE  \E f \in Frame :
           /\ Entered(c) = Append(scopes, f)
           /\ f.barrier = InnermostLive(scopes, fns[c].chain)
           /\ f.barrier \in 1 .. Len(scopes)
           /\ \A n \in Names : f.bind[n] =
                IF n \in fns[c].params THEN Data
                ELSE IF n \in fns[c].self THEN c ELSE fns[c].env[n]
<1> DEFINE at == InnermostLive(scopes, fns[c].chain)
           bind == [n \in Names |-> IF n \in fns[c].params THEN Data
                      ELSE IF n \in fns[c].self THEN c ELSE fns[c].env[n]]
           f == [NewFrame(frameId + 1, at, {}) EXCEPT !.bind = bind]
<1>1. fns[c] \in MadeBodies
  BY MadeIs
<1>2. Len(scopes) \in Nat \ {0} /\ frameId \in Nat
  BY DEF NamesInv, ScopesTypeOK, Grounded
<1>3. at \in 1 .. Len(scopes)
  BY <1>2, InnermostLiveIn
<1>4. fns[c].env \in Bindings
  BY <1>1 DEF MadeBodies
<1>5. c \in Value /\ Data \in Value
  BY HostFunctionsAssumption DEF Value
<1>6. bind \in Bindings
  BY <1>4, <1>5 DEF Bindings
<1>7. Entered(c) = Append(scopes, f)
  BY DEF Entered
<1> HIDE DEF at, bind
<1>8. f \in Frame /\ f.barrier = at /\ f.bind = bind
  <2> DEFINE base == NewFrame(frameId + 1, at, {})
  <2>1. at \in Nat /\ frameId + 1 \in Nat
    BY <1>2, <1>3
  <2>2. base \in Frame /\ base.barrier = at
    BY <2>1 DEF NewFrame, Frame, NoBindings, Bindings
  <2>3. f = [base EXCEPT !.bind = bind]
    OBVIOUS
  <2> HIDE DEF base, f
  <2> QED
    BY <1>6, <2>2, <2>3 DEF Frame
<1> HIDE DEF f
<1> QED
  BY <1>3, <1>7, <1>8 DEF at, bind

LEMMA NamesStart == NamesInit => NamesInv
<1> SUFFICES ASSUME NamesInit PROVE NamesInv
  OBVIOUS
<1>1. hosts \subseteq Names \ Pure
  BY HostFunctionsAssumption DEF NamesInit, Registrable, Builtins
<1>2. ScopesTypeOK
  <2>1. NewFrame(1, NoBarrier, {}) \in Frame /\ NewFrame(1, NoBarrier, {}).barrier = 0
    BY DEF NewFrame, Frame, NoBindings, Bindings, NoBarrier
  <2> QED
    BY <2>1 DEF NamesInit, ScopesTypeOK, Grounded
<1>3. fns \in [Closures -> MadeBodies \cup {NotMade}]
  BY DEF NamesInit
<1>4. BodiesInv
  <2>1. bodies = [last |-> NoEntry, others |-> {}]
    BY DEF NamesInit, StepsInit
  <2>2. NoEntry \in StepEntry
    BY DEF NoEntry, Entry, StepEntry
  <2>3. IsFiniteSet({}) /\ Cardinality({}) = 0
    BY FS_EmptySet
  <2>4. BodiesTypeOK
    BY <2>1, <2>2, <2>3 DEF BodiesTypeOK
  <2>5. BodiesAsCompiled
    BY <2>1, <2>3, StepBodiesAssumption DEF BodiesAsCompiled, OneEntryEach
  <2> QED
    BY <2>4, <2>5 DEF BodiesInv
<1> QED
  BY <1>1, <1>2, <1>3, <1>4 DEF NamesInv

LEMMA BodiesStay ==
  ASSUME BodiesInv, UNCHANGED bodies
  PROVE  BodiesInv'
BY DEF BodiesInv, BodiesTypeOK, BodiesAsCompiled, OneEntryEach

LEMMA NamesKept ==
  ASSUME NamesInv, [NamesNext]_namesVars
  PROVE  NamesInv'
<1>0. /\ hosts \subseteq Names \ Pure /\ ScopesTypeOK
      /\ fns \in [Closures -> MadeBodies \cup {NotMade}] /\ BodiesInv
      /\ scopes \in Seq(Frame) /\ Grounded(scopes) /\ frameId \in Nat
      /\ Len(scopes) \in Nat \ {0} /\ Top(scopes) = Len(scopes)
      /\ Top(scopes) \in 1 .. Len(scopes)
  BY DEF NamesInv, ScopesTypeOK, Grounded, Top
<1>1. CASE UNCHANGED namesVars
  <2>1. BodiesInv'
    BY <1>0, <1>1, BodiesStay DEF namesVars
  <2> QED
    BY <1>0, <1>1, <2>1 DEF namesVars, NamesInv, ScopesTypeOK, Grounded
<1>2. ASSUME NEW n \in Variables, Assign(n) PROVE NamesInv'
  <2>1. PICK v \in ({Data} \cup {ValueIn(scopes, Top(scopes), m) : m \in Variables}) \ {Unbound} :
          BindHere(n, v)
    BY <1>2 DEF Assign
  <2>2. \A m \in Variables : ValueIn(scopes, Top(scopes), m) \in Value \cup {Unbound}
    BY <1>0, ValueIs, HostFunctionsAssumption
  <2>3. v \in Value /\ n \in Names
    BY <2>1, <2>2, HostFunctionsAssumption DEF Value
  <2>4. ScopesTypeOK' /\ BodiesInv' /\ UNCHANGED <<hosts, fns>>
    BY <1>0, <1>2, <2>1, <2>3, BindKeeps, BodiesStay DEF Assign
  <2> QED
    BY <1>0, <2>4 DEF NamesInv
<1>3. ASSUME NEW n \in Variables, NEW c \in Closures, NEW use \in Uses,
             NEW params \in {{}, {use}}, Make(n, c, use, params)
      PROVE  NamesInv'
  <2> DEFINE env == [NoBindings EXCEPT ![use] = IF use \in params THEN Unbound ELSE BoundHere(use)]
             made == [made |-> TRUE, use |-> use, params |-> params, self |-> {n},
                      chain |-> Chain(scopes), env |-> env]
  <2>1. use \in Names /\ n \in Names
    BY HostFunctionsAssumption
  <2>2. BoundHere(use) \in Value \cup {Unbound}
    BY <1>0, <2>1, LookupIn DEF BoundHere
  <2>3. env \in Bindings
    BY <2>1, <2>2 DEF Bindings, NoBindings
  <2>4. Chain(scopes) \in SUBSET (Nat \X Nat)
    <3>1. Path(scopes, Top(scopes)) \subseteq 1 .. Len(scopes)
      BY <1>0, PathClosed
    <3>2. \A p \in 1 .. Len(scopes) : p \in Nat /\ scopes[p].id \in Nat
      BY <1>0, FrameAt
    <3> QED
      BY <3>1, <3>2 DEF Chain
  <2>5. made \in MadeBodies
    BY <2>1, <2>3, <2>4 DEF MadeBodies
  <2>6. fns' = [fns EXCEPT ![c] = made] /\ BindHere(n, c) /\ UNCHANGED <<hosts, frameId, bodies>>
    BY <1>3 DEF Make
  <2> HIDE DEF made
  <2>7. c \in Value
    BY HostFunctionsAssumption DEF Value
  <2>8. ScopesTypeOK' /\ BodiesInv'
    BY <1>0, <2>1, <2>6, <2>7, BindKeeps, BodiesStay
  <2>9. fns' \in [Closures -> MadeBodies \cup {NotMade}]
    BY <1>0, <2>5, <2>6
  <2> QED
    BY <1>0, <2>6, <2>8, <2>9 DEF NamesInv
<1>4. ASSUME NEW f \in Frame, f.barrier \in 0 .. Len(scopes), Push(Append(scopes, f))
      PROVE  NamesInv'
  <2>1. scopes' = Append(scopes, f) /\ frameId' = frameId + 1 /\ UNCHANGED <<hosts, fns, bodies>>
    BY <1>4 DEF Push
  <2>2. ScopesTypeOK' /\ BodiesInv'
    BY <1>0, <1>4, <2>1, PushKeeps, BodiesStay
  <2> QED
    BY <1>0, <2>1, <2>2 DEF NamesInv
<1>5. CASE EnterBlock
  <2>1. /\ NewFrame(frameId + 1, NoBarrier, {}) \in Frame
        /\ NewFrame(frameId + 1, NoBarrier, {}).barrier = 0
    BY <1>0 DEF NewFrame, Frame, NoBindings, Bindings, NoBarrier
  <2> QED
    BY <1>0, <1>4, <1>5, <2>1 DEF EnterBlock
<1>6. ASSUME NEW c \in Closures, EnterFunction(c) PROVE NamesInv'
  <2>1. fns[c].made /\ Push(Entered(c))
    BY <1>6 DEF EnterFunction
  <2>2. PICK f \in Frame : Entered(c) = Append(scopes, f) /\ f.barrier \in 1 .. Len(scopes)
    BY <2>1, EnteredFrame
  <2>3. f.barrier \in 0 .. Len(scopes)
    BY <1>0, <2>2
  <2> QED
    BY <1>4, <2>1, <2>2, <2>3
<1>7. CASE Leave
  <2>1. scopes' = Cut(scopes, Len(scopes) - 1) /\ Len(scopes) > 1 /\ UNCHANGED <<hosts, frameId, fns, bodies>>
    BY <1>7 DEF Leave, Top
  <2> DEFINE k == Len(scopes) - 1
  <2>2. k \in 0 .. Len(scopes) /\ k \in Nat \ {0}
    BY <1>0, <2>1
  <2>3. scopes' \in Seq(Frame) /\ Len(scopes') = k /\ \A p \in 1 .. k : scopes'[p] = scopes[p]
    BY <1>0, <2>1, <2>2, CutFrames
  <2>4. \A p \in 1 .. k : scopes'[p].barrier \in 0 .. p - 1
    <3> TAKE p \in 1 .. k
    <3>1. p \in 1 .. Len(scopes) /\ scopes'[p] = scopes[p]
      BY <1>0, <2>2, <2>3
    <3> HIDE DEF k
    <3> QED
      BY <1>0, <3>1 DEF Grounded
  <2>5. ScopesTypeOK'
    BY <1>0, <2>1, <2>2, <2>3, <2>4 DEF ScopesTypeOK, Grounded
  <2> QED
    BY <1>0, <2>1, <2>5, BodiesStay DEF NamesInv
<1>8. ASSUME NEW id \in StepIds, RunStep(id) PROVE NamesInv'
  <2>1. BodiesInv'
    BY <1>0, <1>8, StepRun DEF RunStep
  <2> QED
    BY <1>0, <1>8, <2>1 DEF RunStep, NamesInv, ScopesTypeOK, Grounded
<1> QED
  BY <1>1, <1>2, <1>3, <1>5, <1>6, <1>7, <1>8 DEF NamesNext

LEMMA NamesAlways == NamesSpec => []NamesInv
<1>1. NamesInv /\ [NamesNext]_namesVars => NamesInv'
  BY NamesKept
<1> QED
  BY <1>1, NamesStart, PTL DEF NamesSpec

-----------------------------------------------------------------------------
(***************************************************************************)
(* Compiled bodies.                                                        *)
(***************************************************************************)
\* Where a builtin is not hidden the evaluator calls it.
LEMMA UnshadowedCalls ==
  ASSUME NEW s, NEW p, NEW n \in Pure \cup Inlined, BuiltinUnshadowed(n, Lookup(s, p, n))
  PROVE  CallIn(s, p, n) = Runs("builtin", n)
<1> DEFINE bound == Lookup(s, p, n)
<1>1. n \in Builtins /\ n \in Names /\ n \notin hosts /\ bound \in {Unbound, Reference[n]}
  BY HostFunctionsAssumption DEF BuiltinUnshadowed, Builtins
<1>2. CallIn(s, p, n) =
        IF bound \in Fns THEN CallValue(bound)
        ELSE IF bound # Unbound THEN Nothing
        ELSE IF n \in hosts THEN Runs("host", n)
        ELSE IF n \in Builtins THEN Runs("builtin", n) ELSE Nothing
  BY Zenon DEF CallIn
<1> HIDE DEF bound
<1>3. CASE bound = Unbound
  BY <1>1, <1>2, <1>3, ValuesDistinct
<1>4. CASE bound = Reference[n]
  <2>1. CallValue(bound) = CallBuiltin(n)
    BY <1>1, <1>4, Referenced DEF CallValue
  <2>2. CallBuiltin(n) = Runs("builtin", n)
    BY <1>1 DEF CallBuiltin
  <2> QED
    BY <1>1, <1>2, <1>4, <2>1, <2>2, Referenced
<1> QED
  BY <1>1, <1>3, <1>4

LEMMA FunctionsRunBuiltins ==
  ASSUME NamesInv, NEW c \in Closures, fns[c].made, Usable(c)
  PROVE  CallIn(Entered(c), Len(scopes) + 1, fns[c].use) = Runs("builtin", fns[c].use)
<1> DEFINE use == fns[c].use
<1>1. PICK f \in Frame :
        /\ Entered(c) = Append(scopes, f)
        /\ f.barrier = InnermostLive(scopes, fns[c].chain)
        /\ f.barrier \in 1 .. Len(scopes)
        /\ \A n \in Names : f.bind[n] =
             IF n \in fns[c].params THEN Data
             ELSE IF n \in fns[c].self THEN c ELSE fns[c].env[n]
  BY EnteredFrame
<1>2. use \in (Pure \cup Inlined) \ fns[c].params /\ use \notin fns[c].self
      /\ BuiltinUnshadowed(use, BoundFor(c, use))
  BY DEF Usable, BuiltinsOf, Compiles
<1>3. use \in Names
  BY <1>2, HostFunctionsAssumption DEF Builtins
<1>4. f.bind[use] = fns[c].env[use]
  BY <1>1, <1>2, <1>3
<1>5. scopes \in Seq(Frame) /\ Grounded(scopes)
  BY DEF NamesInv, ScopesTypeOK
<1>6. Lookup(Entered(c), Len(scopes) + 1, use) =
        IF f.bind[use] # Unbound THEN f.bind[use] ELSE Lookup(scopes, f.barrier, use)
  BY <1>1, <1>3, <1>5, LookupPushed
<1>7. Lookup(Entered(c), Len(scopes) + 1, use) = BoundFor(c, use)
  BY <1>1, <1>4, <1>6 DEF BoundFor
<1> QED
  BY <1>2, <1>7, UnshadowedCalls

LEMMA StepsRunBuiltins ==
  ASSUME NamesInv, NEW e \in {bodies.last} \cup bodies.others, e.body # {}, UnshadowedHere(e.body)
  PROVE  CallIn(scopes, Top(scopes), e.id) = Runs("builtin", e.id)
<1>1. e # NoEntry
  BY DEF NoEntry, Entry
<1>2. e.body = CompileStep(e.id)
  BY <1>1 DEF NamesInv, BodiesInv, BodiesAsCompiled
<1>3. e.id \in Pure \cup Inlined /\ e.body = {e.id}
  BY <1>2 DEF CompileStep, BuiltinsOf, Compiles
<1>4. BuiltinUnshadowed(e.id, Lookup(scopes, Top(scopes), e.id))
  BY <1>3 DEF UnshadowedHere
<1> QED
  BY <1>3, <1>4, UnshadowedCalls

LEMMA FastPathsFollow == NamesInv => FastPathsAgree
<1> SUFFICES ASSUME NamesInv PROVE FastPathsAgree
  OBVIOUS
<1>1. BodiesRunBuiltins
  BY FunctionsRunBuiltins, StepsRunBuiltins DEF BodiesRunBuiltins
<1>2. BodiesAsCompiled
  BY DEF NamesInv, BodiesInv
<1> QED
  BY <1>1, <1>2 DEF FastPathsAgree

\* The state's parts keep their types, and the host never replaces a builtin that
\* compiled code calls outright (register_fn, register_fn_override).
THEOREM NamesTyped == NamesSpec => []NamesTypeOK
<1>1. NamesInv => NamesTypeOK
  <2> SUFFICES ASSUME NamesInv PROVE NamesTypeOK
    OBVIOUS
  <2>1. \A c \in Closures : fns[c].made => fns[c].chain \subseteq Nat \X Nat
    BY MadeIs DEF MadeBodies
  <2> QED
    BY <2>1 DEF NamesInv, ScopesTypeOK, NamesTypeOK
<1> QED
  BY <1>1, NamesAlways, PTL

\* A compiled body runs only where the builtin it calls outright is the function
\* the evaluator would call: a function's where its body would look the name up,
\* a path step's right here, whatever was bound or emptied from the cache since
\* (usable_compiled_body, cached_step_body, StepBodies::get_or_compile).
THEOREM CompiledBodiesAgree == NamesSpec => []FastPathsAgree
<1> QED
  BY FastPathsFollow, NamesAlways, PTL

-----------------------------------------------------------------------------
(***************************************************************************)
(* The function a name reaches.                                            *)
(***************************************************************************)
LEMMA SamePosition ==
  ASSUME NEW s \in Seq(Frame), NEW p \in 1 .. Len(s), NEW n \in Names
  PROVE  LET runs == CallIn(s, p, n)
             v    == ValueIn(s, p, n)
         IN /\ CallbackIn(s, p, n) = runs
            /\ PartialIn(s, p, n) = runs
            /\ (IF v \in Fns THEN CallValue(v) ELSE Nothing) = runs
            /\ runs # Nothing => ArityOf(s, p, n) = IF runs.k = "host" THEN "all" ELSE runs.name
<1> DEFINE bound == Lookup(s, p, n)
           runs == CallIn(s, p, n)
           v == ValueIn(s, p, n)
           Same == /\ CallbackIn(s, p, n) = runs
                   /\ PartialIn(s, p, n) = runs
                   /\ (IF v \in Fns THEN CallValue(v) ELSE Nothing) = runs
                   /\ runs # Nothing => ArityOf(s, p, n) = IF runs.k = "host" THEN "all" ELSE runs.name
<1>1. bound \in Value \cup {Unbound}
  BY LookupIn
<1>2. /\ runs = IF bound \in Fns THEN CallValue(bound)
                ELSE IF bound # Unbound THEN Nothing ELSE CallBuiltin(n)
      /\ v = IF bound # Unbound THEN bound
             ELSE IF IsFunctionName(n) THEN Reference[n] ELSE Unbound
      /\ CallbackIn(s, p, n) = IF bound \in Fns THEN CallValue(bound)
             ELSE IF bound = Unbound /\ IsFunctionName(n) THEN CallBuiltin(n) ELSE Nothing
      /\ PartialIn(s, p, n) = IF bound \in Closures THEN Runs("closure", bound)
             ELSE IF bound \in Fns THEN CallBuiltin(bound[2])
             ELSE IF bound # Unbound THEN Nothing ELSE CallBuiltin(n)
  BY DEF CallIn, ValueIn, CallbackIn, PartialIn, CallBuiltin
<1>3. ArityOf(s, p, n) =
        IF bound \in Closures THEN bound
        ELSE IF (IF bound \in Fns \ Closures THEN bound[2] ELSE n) \in Builtins \ hosts
        THEN (IF bound \in Fns \ Closures THEN bound[2] ELSE n) ELSE "all"
  BY Zenon DEF ArityOf
<1>4. \A m : CallBuiltin(m) # Nothing =>
        (IF m \in Builtins \ hosts THEN m ELSE "all") =
          IF CallBuiltin(m).k = "host" THEN "all" ELSE CallBuiltin(m).name
  BY DEF CallBuiltin, Runs
<1>5. \A m : ~ IsFunctionName(m) => CallBuiltin(m) = Nothing
  BY DEF IsFunctionName, CallBuiltin
<1> HIDE DEF bound, runs, v
<1>6. CASE bound \in Closures
  <2>1. bound \in Fns /\ bound # Unbound /\ CallValue(bound) = Runs("closure", bound)
    BY <1>6, HostFunctionsAssumption, ValuesDistinct DEF CallValue
  <2>2. Runs("closure", bound).k = "closure" /\ Runs("closure", bound).name = bound
    BY DEF Runs
  <2> QED
    BY <1>2, <1>3, <1>6, <2>1, <2>2 DEF runs, v
<1>7. CASE bound \in Fns \ Closures
  <2>1. bound # Unbound /\ CallValue(bound) = CallBuiltin(bound[2])
    BY <1>7, ValuesDistinct DEF CallValue
  <2>2. Same
    BY <1>2, <1>3, <1>4, <1>7, <2>1
  <2> QED
    BY <2>2 DEF runs, v
<1>8. CASE bound = Unbound
  <2>1. bound \notin Fns /\ bound \notin Closures
    BY <1>8, ValuesDistinct, HostFunctionsAssumption
  <2>2. runs = CallBuiltin(n) /\ PartialIn(s, p, n) = CallBuiltin(n) /\ CallbackIn(s, p, n) = CallBuiltin(n)
    BY <1>2, <1>5, <1>8, <2>1
  <2>3. (IF v \in Fns THEN CallValue(v) ELSE Nothing) = CallBuiltin(n)
    <3>1. Reference[n] \in Fns /\ CallValue(Reference[n]) = CallBuiltin(n)
      BY Referenced DEF CallValue
    <3> QED
      BY <1>2, <1>5, <1>8, <2>1, <3>1
  <2>4. Same
    BY <1>3, <1>4, <2>1, <2>2, <2>3
  <2> QED
    BY <2>4 DEF runs, v
<1>9. CASE bound \in {Data, EvalFn}
  <2>1. bound # Unbound /\ bound \notin Fns /\ bound \notin Closures
    BY <1>9, ValuesDistinct, HostFunctionsAssumption
  <2>2. Same
    BY <1>2, <2>1
  <2> QED
    BY <2>2 DEF runs, v
<1> QED
  BY <1>1, <1>6, <1>7, <1>8, <1>9 DEF Value

\* A name reaches the same function from wherever it is called: called outright,
\* passed by name, held by another name, or applied in part; and a callback's
\* arguments are cut to the parameters of the function that runs
\* (evaluate_function_call, apply_function, call_builtin_with_values,
\* create_partial_application, get_callback_param_count).
THEOREM NamesReachTheSame == NamesSpec => []SameInEveryPosition
<1>1. NamesInv => SameInEveryPosition
  <2> SUFFICES ASSUME NamesInv, NEW p \in 1 .. Top(scopes), NEW n \in Names
               PROVE  LET runs == CallIn(scopes, p, n)
                          v    == ValueIn(scopes, p, n)
                      IN /\ CallbackIn(scopes, p, n) = runs
                         /\ PartialIn(scopes, p, n) = runs
                         /\ (IF v \in Fns THEN CallValue(v) ELSE Nothing) = runs
                         /\ runs # Nothing =>
                              ArityOf(scopes, p, n) = IF runs.k = "host" THEN "all" ELSE runs.name
    BY Zenon DEF SameInEveryPosition, SameFunction, ArityOfCallee
  <2>1. scopes \in Seq(Frame) /\ p \in 1 .. Len(scopes)
    BY DEF NamesInv, ScopesTypeOK, Top
  <2> QED
    BY <2>1, SamePosition
<1> QED
  BY <1>1, NamesAlways, PTL
=============================================================================
