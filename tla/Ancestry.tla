------------------------------- MODULE Ancestry -------------------------------
(***************************************************************************)
(* The pass over a parsed expression (ast_transform.rs) that finds, for    *)
(* each `%`, the step whose input it stands for, and turns `@$v` and `#$i` *)
(* into names on the steps they bind.                                      *)
(*                                                                         *)
(* A `%` that still seeks its step is handed up, with the levels it has to *)
(* go, to what holds it.  A step is labelled once; a later `%` that finds  *)
(* it labelled has its own label recorded as an alias, and a second walk   *)
(* over the tree puts the step's label in its place.                       *)
(*                                                                         *)
(* `depth` counts the calls that are live at once, of the walk down and of *)
(* the walk back from a `%`, which share a stack.                          *)
(***************************************************************************)
EXTENDS Syntax

CONSTANT MaxTransformDepth    \* MAX_TRANSFORM_DEPTH and MAX_LABEL_SUBSTITUTION_DEPTH

\* As many as an expression may have `%`.
Labels == <<"!0", "!1", "!2", "!3", "!4", "!5", "!6", "!7", "!8", "!9", "!a", "!b">>

(***************************************************************************)
(* AncestryState, with the first error, and what a walk returns.           *)
(***************************************************************************)
Initial == [next |-> 0, aliases |-> [l \in {} |-> ""], error |-> ""]
Failing1(st, code) == [st EXCEPT !.error = code]
Going(st) == st.error = ""
TooDeep(depth) == depth > MaxTransformDepth

Seeking(label, level) == [label |-> label, level |-> level]
Transformed(node, pending, st) == [node |-> node, pending |-> pending, st |-> st]
\* Steps of a path, and what of them still seeks.
Spliced1(steps, pending, st) == [steps |-> steps, pending |-> pending, st |-> st]
\* What is left of a walk back, and the tree it has labelled.
Walked(at, level, st) == [at |-> at, level |-> level, st |-> st]

\* An error ends the pass: of what a walk returns only the state matters then.
Stopped(st) ==
  [node |-> Wildcard, at |-> Wildcard, steps |-> <<>>, pending |-> <<>>, level |-> 0, st |-> st,
   nodes |-> <<>>, terms |-> <<>>, stages |-> <<>>, own |-> <<>>, inStages |-> <<>>]
IfGoing(r, F(_)) == Given(r, LAMBDA x : IF Going(x.st) THEN F(x) ELSE Stopped(x.st))

(***************************************************************************)
(* The walk back from a `%`.                                               *)
(***************************************************************************)
\* A fault: the label of the step is replaced by the newcomer's.
LabelReplaced(step, label, level, st) ==
  IF level > 1 THEN Walked(step, level - 1, st)
  ELSE Walked([step EXCEPT !.label = label, !.tuple = TRUE], 0, st)

\* A fault: a step that is labelled has its label replaced, and aliased to the new one.
NewestKept(step, label, level, st) ==
  IF level > 1 THEN Walked(step, level - 1, st)
  ELSE Walked([step EXCEPT !.label = label, !.tuple = TRUE], 0,
              IF step.label = "" THEN st ELSE [st EXCEPT !.aliases = (step.label :> label) @@ @])

\* tag_ancestor_step
TagStep(step, label, level, st) ==
  IF level > 1 THEN Walked(step, level - 1, st)
  ELSE IF step.label = "" THEN Walked([step EXCEPT !.label = label, !.tuple = TRUE], 0, st)
  ELSE Walked([step EXCEPT !.tuple = TRUE], 0, [st EXCEPT !.aliases = (label :> step.label) @@ @])

RECURSIVE WalkBackward(_, _, _, _, _)
RECURSIVE SeekWrapped(_, _, _, _, _)

Inner(step) == [step EXCEPT !.tuple = TRUE, !.inner = TRUE]

\* Whether a group-by is on a bare `*`, a name, or `%`.
OnLeaf(input) ==
  IF IsPath(input) THEN Len(input.steps) = 1 /\ input.steps[1].node.op = "name"
  ELSE input.op \in {"wild", "name"}

\* seek_parent_step
SeekStep(step, label, level, st, depth) ==
  LET node == step.node
      wrapped(inner, Back(_)) ==
        IfGoing(SeekWrapped(inner, label, level, st, depth + 1), LAMBDA r :
          Walked([Inner(step) EXCEPT !.node = Back(r.at)], r.level, r.st))
  IN IF TooDeep(depth) THEN Walked(step, level, Failing1(st, "U1002"))
     ELSE CASE node.op \in {"name", "wild"} -> TagStep(step, label, level, st)
            [] node.op = "parent" -> Walked(step, level + 1, st)
            [] node.op = "apply"  -> wrapped(node.e, LAMBDA e : Apply(e))
            [] node.op = "block"  ->
                 IF node.exprs = <<>> THEN Walked(step, level, st)
                 ELSE wrapped(Last(node.exprs), LAMBDA e : BlockOf(Append(Front(node.exprs), e)))
            [] node.op = "group"  ->
                 IF OnLeaf(node.input) THEN TagStep(step, label, level, st)
                 ELSE IF node.input.op = "parent" THEN Walked(step, level + 1, st)
                 ELSE wrapped(node, LAMBDA e : e)
            [] OTHER -> Walked(step, level, Failing1(st, "S0217"))

\* seek_parent_wrapped
SeekWrapped(node, label, level, st, depth) ==
  IF TooDeep(depth) THEN Walked(node, level, Failing1(st, "U1002"))
  ELSE CASE IsPath(node) -> IfGoing(WalkBackward(node.steps, label, level, st, depth + 1), LAMBDA r :
                              Walked(PathOf(r.at), r.level, r.st))
         [] node.op = "block" ->
              IF node.exprs = <<>> THEN Walked(node, level, st)
              ELSE IfGoing(SeekWrapped(Last(node.exprs), label, level, st, depth + 1), LAMBDA r :
                     Walked(BlockOf(Append(Front(node.exprs), r.at)), r.level, r.st))
         [] node.op = "wild"   -> Walked(node, level - 1, st)
         [] node.op = "parent" -> Walked(node, level + 1, st)
         [] node.op = "group"  ->
              IfGoing(SeekWrapped(node.input, label, level, st, depth + 1), LAMBDA r :
                Walked([node EXCEPT !.input = r.at], r.level, r.st))
         [] OTHER -> Walked(node, level, Failing1(st, "S0217"))

\* A run of steps bound by `@` is one level: the first of them.
RunStart(steps, index) ==
  Min({i \in 1 .. index : \A j \in i .. index : i = index \/ steps[j].focus # ""})

RECURSIVE WalkFrom(_, _, _, _, _, _)
WalkFrom(steps, index, label, level, st, depth) ==
  IF level = 0 \/ index = 0 THEN Walked(steps, level, st)
  ELSE LET at == RunStart(steps, index)
       IN IfGoing(SeekStep(steps[at], label, level, st, depth), LAMBDA r :
            WalkFrom([steps EXCEPT ![at] = r.at], at - 1, label, r.level, r.st, depth))

\* walk_backward: the level that is left when the steps have run out.
WalkBackward(steps, label, level, st, depth) ==
  IF TooDeep(depth) THEN Walked(steps, level, Failing1(st, "U1002"))
  ELSE WalkFrom(steps, Len(steps), label, level, st, depth + 1)

\* resolve_predicate_slot: a predicate's `%` is its own step's input, `%.%` the one's before.
ResolvePredicate(steps, i, label, level, st, depth) ==
  LET own == IF level # 1 THEN Walked(steps[i], level - 1, st)
             ELSE SeekStep(steps[i], label, 1, st, depth + 1)
  IN IF level = 0 THEN Walked(steps, 0, st)
     ELSE IfGoing(own, LAMBDA r :
            IF r.level = 0 THEN Walked([steps EXCEPT ![i] = r.at], 0, r.st)
            ELSE IfGoing(WalkBackward(SubSeq(steps, 1, i - 1), label, r.level, r.st, depth + 1), LAMBDA w :
                   Walked(w.at \o <<r.at>> \o SubSeq(steps, i + 1, Len(steps)), w.level, w.st)))

\* Those of a step's own that seek, from the steps before it.
ResolveOwn(steps, i, label, level, st, depth) ==
  IfGoing(WalkBackward(SubSeq(steps, 1, i - 1), label, level, st, depth), LAMBDA r :
    Walked(r.at \o SubSeq(steps, i, Len(steps)), r.level, r.st))

(***************************************************************************)
(* Bindings.                                                               *)
(***************************************************************************)
\* check_focus_bind_target
RECURSIVE FocusError(_, _)
FocusError(stages, node) ==
  CASE \E i \in DOMAIN stages : stages[i].op # "keep" -> "S0215"
    [] node.op = "group" ->
         IF IsPath(node.input) THEN FocusError(Last(node.input.steps).stages, Last(node.input.steps).node)
         ELSE FocusError(<<>>, node.input)
    [] node.op = "sort" -> "S0216"
    [] OTHER -> ""

\* apply_marker_to_step: after its stages, `#` numbers what they left.
BindStep(step, sym, n) ==
  IF sym = "@" THEN [step EXCEPT !.focus = n, !.tuple = TRUE]
  ELSE IF step.stages # <<>> \/ step.index # ""
  THEN [step EXCEPT !.stages = Append(@, IndexAs(n)), !.tuple = TRUE]
  ELSE [step EXCEPT !.index = n, !.tuple = TRUE]

\* splice_marker_steps: the binding is the last step's.
Splice(t, sym, n) ==
  LET steps == IF IsPath(t.node) THEN t.node.steps ELSE <<Step(t.node, <<>>)>>
      error == IF sym = "@" THEN FocusError(Last(steps).stages, Last(steps).node) ELSE ""
  IN IF error # "" THEN Spliced1(<<>>, <<>>, Failing1(t.st, error))
     ELSE Spliced1([steps EXCEPT ![Len(steps)] = BindStep(@, sym, n)], t.pending, t.st)

\* is_js_path_node, is_js_path_step
RECURSIVE IsJsPath(_)
IsJsPath(node) ==
  CASE node.op \in {"name", "sort"} -> TRUE
    [] IsPath(node) -> \/ Len(node.steps) # 1 \/ node.steps[1].index # "" \/ HasStage(node.steps[1], "index")
                       \/ IsJsPath(node.steps[1].node)
    [] node.op = "group" -> IsJsPath(node.input)
    [] OTHER -> FALSE

\* Stages before the first `#`, without their `[]`.
DropKept(stages) ==
  LET first == Min({i \in DOMAIN stages : stages[i].op = "index"})
      kept  == SelectSeq([i \in DOMAIN stages |-> i], LAMBDA i : stages[i].op # "keep" \/ i > first)
  IN Each(LAMBDA i : stages[i], kept)

\* finish_value_path: one step that nothing makes a path.
RECURSIVE FinishValue(_)
FinishValue(steps) ==
  LET step == steps[1]
      node == step.node
      inner == IF node.op = "group" /\ Parts(node) # <<>>
               THEN IF IsPath(node.input) THEN [node EXCEPT !.input.steps = FinishValue(@)] ELSE node
               ELSE node
  IN IF Len(steps) # 1 THEN steps
     ELSE IF IsJsPath(node) THEN steps
     ELSE IF HasStage(step, "index") THEN <<[step EXCEPT !.node = inner, !.stages = DropKept(@)]>>
     ELSE IF step.index # "" THEN <<[step EXCEPT !.node = inner]>>
     ELSE <<[step EXCEPT !.node = inner, !.focus = "", !.tuple = step.label # "" \/ step.inner]>>

(***************************************************************************)
(* The walk down.                                                          *)
(***************************************************************************)
RECURSIVE TransformNode(_, _, _)
RECURSIVE TransformSteps(_, _, _, _)
RECURSIVE AsPath(_, _, _)

\* A list of nodes in turn, with what seeks in each.
TransformEach(nodes, st, depth) ==
  FoldLeft(LAMBDA acc, node :
      IF ~ Going(acc.st) THEN acc
      ELSE Given(TransformNode(node, acc.st, depth), LAMBDA r :
             [nodes |-> Append(acc.nodes, r.node), pending |-> Append(acc.pending, r.pending), st |-> r.st]),
    [nodes |-> <<>>, pending |-> <<>>, st |-> st], nodes)

\* What a node hands up of the `%` in its parts: a `~>`, a lambda and a group-by's
\* pairs none, and a call those of its arguments.
HandsUp(node, i) ==
  CASE node.op = "lambda" -> FALSE
    [] node.op = "binary" -> node.sym # "~>"
    [] node.op = "call"   -> i > 1
    [] node.op = "group"  -> i = 1
    [] OTHER -> TRUE

Rebuilt(node, r) ==
  Transformed(WithKids(node, r.nodes),
              FlattenSeq([i \in DOMAIN r.pending |-> IF HandsUp(node, i) THEN r.pending[i] ELSE <<>>]), r.st)

\* transform_group
TransformGroup(input, node, depth) ==
  IfGoing(input, LAMBDA t :
    IfGoing(TransformEach(KeysAndVals(node.pairs), t.st, depth), LAMBDA r :
      Transformed(GroupBy(t.node, PairsOf(r.nodes)), t.pending, r.st)))

\* One by one, those that seek from after all of `steps`.
SeekAll(pending, steps, left, st, depth) ==
  FoldLeft(LAMBDA acc, slot : IF ~ Going(acc.st) THEN acc ELSE
      IfGoing(WalkBackward(acc.steps, slot.label, slot.level, acc.st, depth), LAMBDA r :
        Spliced1(r.at, acc.pending \o (IF r.level > 0 THEN <<Seeking(slot.label, r.level)>> ELSE <<>>), r.st)),
    Spliced1(steps, left, st), pending)

\* transform_children, sort: a term's `%` is the input of the last step sorted.
TransformSort(node, st, depth) ==
  IfGoing(AsPath(node.input, st, depth), LAMBDA input :
    LET wasPath == IsPath(input.node)
        sorted  == [steps |-> IF wasPath THEN input.node.steps ELSE <<Step(input.node, <<>>)>>,
                    pending |-> input.pending, st |-> input.st, terms |-> <<>>]
        bare(steps) == ~ wasPath /\ ~ steps[1].tuple /\ steps[1].label = ""
    IN IfGoing(FoldLeft(LAMBDA acc, t :
           IF ~ Going(acc.st) THEN acc
           ELSE IfGoing(TransformNode(t.by, acc.st, depth), LAMBDA r :
                  IfGoing(SeekAll(r.pending, acc.steps, acc.pending, r.st, depth + 1), LAMBDA w :
                    [steps |-> w.steps, pending |-> w.pending, st |-> w.st,
                     terms |-> Append(acc.terms, Term(r.node, t.ascends))])), sorted, node.terms), LAMBDA r :
         Transformed(Sort(IF bare(r.steps) THEN r.steps[1].node ELSE PathOf(r.steps), r.terms), r.pending, r.st)))

\* transform_children
TransformChildren(node, st, depth) ==
  IF TooDeep(depth) THEN Transformed(node, <<>>, Failing1(st, "U1002"))
  ELSE CASE node.op = "sort"  -> TransformSort(node, st, depth + 1)
         [] node.op = "group" -> TransformGroup(TransformNode(node.input, st, depth + 1), node, depth + 1)
         [] OTHER -> IfGoing(TransformEach(Kids(node), st, depth + 1), LAMBDA r : Rebuilt(node, r))

\* transform_marker_lhs
BindOperand(node, st, depth) ==
  IF node.sym = "#" THEN AsPath(node.l, st, depth) ELSE TransformNode(node.l, st, depth)

\* transform_marker
TransformBind(node, asValue, st, depth) ==
  IfGoing(BindOperand(node, st, depth), LAMBDA t :
    IfGoing(Splice(t, node.sym, node.r.n), LAMBDA r :
      Transformed(PathOf(IF asValue THEN FinishValue(r.steps) ELSE r.steps), r.pending, r.st)))

\* transform_as_path
AsPath(node, st, depth) ==
  CASE IsPath(node) -> IfGoing(TransformSteps(node.steps, FALSE, st, depth), LAMBDA r :
                         Transformed(PathOf(r.steps), r.pending, r.st))
    [] IsBind(node) -> TransformBind(node, FALSE, st, depth)
    [] node.op = "group" -> TransformGroup(AsPath(node.input, st, depth), node, depth)
    [] OTHER -> TransformNode(node, st, depth)

\* A fault: a block costs nothing of the depth.
BlockFree(node, depth) == IF node.op = "block" THEN depth ELSE depth + 1

\* The depth of what is in a node: transform_node_impl's.
DepthWithin(node, depth) == depth + 1

\* transform_node
TransformNode(node, st, depth) ==
  LET within == DepthWithin(node, depth)
  IN IF TooDeep(depth) THEN Transformed(node, <<>>, Failing1(st, "U1002"))
     ELSE CASE IsPath(node) -> IfGoing(TransformSteps(node.steps, TRUE, st, within), LAMBDA r :
                                 Transformed(PathOf(r.steps), r.pending, r.st))
            [] node.op = "block" -> IfGoing(TransformEach(node.exprs, st, within), LAMBDA r :
                                      Transformed(BlockOf(r.nodes), FlattenSeq(r.pending), r.st))
            [] node.op = "parent" ->
                 LET label == Labels[st.next + 1]
                 IN Transformed(Parent(label), <<Seeking(label, 1)>>, [st EXCEPT !.next = @ + 1])
            [] IsBind(node) -> TransformBind(node, TRUE, st, within)
            [] OTHER -> TransformChildren(node, st, within)

\* migrate_binding_markers
Migrate(step, st, depth) ==
  LET node == step.node
  IN IF IsBind(node)
     THEN IfGoing(BindOperand(node, st, depth + 1), LAMBDA t :
            IfGoing(Splice(t, node.sym, node.r.n), LAMBDA r :
              Spliced1([r.steps EXCEPT ![Len(r.steps)].stages = @ \o step.stages], r.pending, r.st)))
     ELSE IfGoing(IF node.op = "group" THEN AsPath(node, st, depth + 1) ELSE TransformNode(node, st, depth + 1),
            LAMBDA t : Spliced1(<<[step EXCEPT !.node = t.node]>>, t.pending, t.st))

\* A fault: predicates are left as they are parsed.
StagesAsParsed(step, st, depth) == [stages |-> step.stages, pending |-> <<>>, st |-> st]

\* A step's predicates, and what seeks in them.
TransformStages(step, st, depth) ==
  FoldLeft(LAMBDA acc, stage :
      IF ~ Going(acc.st) THEN acc
      ELSE IF stage.op # "filter" THEN [acc EXCEPT !.stages = Append(@, stage)]
      ELSE IfGoing(TransformNode(stage.p, acc.st, depth), LAMBDA r :
             [stages |-> Append(acc.stages, Filter(r.node)), pending |-> acc.pending \o r.pending, st |-> r.st]),
    [stages |-> <<>>, pending |-> <<>>, st |-> st], step.stages)

WithStages(acc, step, depth) ==
  IF ~ Going(acc.st) THEN acc
  ELSE IfGoing(TransformStages(step, acc.st, depth), LAMBDA r :
         [acc EXCEPT !.steps = Append(@, [step EXCEPT !.stages = r.stages]),
                     !.inStages = Append(@, r.pending), !.own = Append(@, <<>>), !.st = r.st])

\* The first pass: each step with the steps a binding spliced in, and what seeks in
\* it, `own`, and in its predicates, `inStages`.
EachStep(steps, st, depth) ==
  FoldLeft(LAMBDA acc, step :
      IF ~ Going(acc.st) THEN acc
      ELSE IfGoing(Migrate(step, acc.st, depth), LAMBDA m :
             IfGoing(FoldLeft(LAMBDA a, s : WithStages(a, s, depth), [acc EXCEPT !.st = m.st], m.steps),
                     LAMBDA r : [r EXCEPT !.own[Len(r.own)] = m.pending])),
    [steps |-> <<>>, own |-> <<>>, inStages |-> <<>>, st |-> st], steps)

\* transform_path_steps: the second pass finds each its step, predicates first.
TransformSteps(steps, asValue, st, depth) ==
  LET notAPath(found) == asValue /\ Len(found) = 1 /\ ~ IsJsPath(PathOf(found))
      left(label, level, found) ==
        IF level > 0 \/ notAPath(found) THEN <<Seeking(label, level)>> ELSE <<>>
      seek(first, i, inPredicate, acc, slot) ==
        IF ~ Going(acc.st) THEN acc
        ELSE IfGoing(IF inPredicate
                     THEN ResolvePredicate(acc.steps, i, slot.label, slot.level, acc.st, depth + 2)
                     ELSE ResolveOwn(acc.steps, i, slot.label, slot.level, acc.st, depth + 2), LAMBDA r :
               Spliced1(r.at, acc.pending \o left(slot.label, r.level, first), r.st))
      both(r) == FoldLeftDomain(LAMBDA acc, i :
                   FoldLeft(LAMBDA a, slot : seek(r.steps, i, FALSE, a, slot),
                            FoldLeft(LAMBDA a, slot : seek(r.steps, i, TRUE, a, slot), acc, r.inStages[i]),
                            r.own[i]),
                   Spliced1(r.steps, <<>>, r.st), r.steps)
  IN IF TooDeep(depth) THEN Spliced1(<<>>, <<>>, Failing1(st, "U1002"))
     ELSE IfGoing(EachStep(steps, st, depth + 1), LAMBDA r :
            IfGoing(both(r), LAMBDA w :
              Spliced1(IF asValue THEN FinishValue(w.steps) ELSE w.steps, w.pending, w.st)))

(***************************************************************************)
(* substitute_labels, and the whole pass.                                  *)
(***************************************************************************)
RECURSIVE Canonical(_, _)
Canonical(label, aliases) == IF label \in DOMAIN aliases THEN Canonical(aliases[label], aliases) ELSE label

RECURSIVE Substitute(_, _)
Substitute(node, aliases) ==
  LET stage(st) == IF st.op = "filter" THEN Filter(Substitute(st.p, aliases)) ELSE st
      inStep(step) == [step EXCEPT !.node = Substitute(@, aliases), !.stages = Each(stage, @)]
  IN CASE node.op = "parent" -> Parent(Canonical(node.label, aliases))
       [] IsPath(node) -> PathOf(Each(inStep, node.steps))
       [] OTHER -> WithKids(node, Each(LAMBDA kid : Substitute(kid, aliases), Kids(node)))

\* Its own depth is that of the tree: a level for every level.
SubstituteTooDeep(node) == Depth(node) - 1 > MaxTransformDepth

\* resolve_ancestry
ResolveAncestry(node) ==
  IfGoing(TransformNode(node, Initial, 0), LAMBDA t :
    IF t.pending # <<>> \/ t.node.op = "parent" THEN Transformed(node, <<>>, Failing1(t.st, "S0217"))
    ELSE IF SubstituteTooDeep(t.node) THEN Transformed(node, <<>>, Failing1(t.st, "U1002, finalizing"))
    ELSE Transformed(Substitute(t.node, t.st.aliases), <<>>, t.st))
=============================================================================
