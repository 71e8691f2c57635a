---------------------------------- MODULE Vm -----------------------------------
(***************************************************************************)
(* The bytecode VM (vm.rs): one expression, compiled once, run over one    *)
(* input after another.                                                    *)
(*                                                                         *)
(* A frame of `frames` is one call of run_inner: the program it runs, as   *)
(* the path of sub-program indices that leads to it, its position, its     *)
(* data, and the loop of the FilterByBytecode that called it.  An object   *)
(* constructor's body works on its caller's operand stack and a predicate  *)
(* on one of its own, kept from item to item.  The shape cache belongs to  *)
(* the program and outlives a run.                                         *)
(*                                                                         *)
(* Left out: the limits on sequence length and time, and cancellation,     *)
(* whose checks are the same few lines on every path.                      *)
(***************************************************************************)
EXTENDS Bytecode

CONSTANT Cases   \* an expression and the inputs it is evaluated on, in order

VARIABLES
  expr, inputs,  \* chosen at the start
  prog,          \* what `expr` compiles to
  cache,         \* shape_cache: <<program path, position>> to a place in an object
  frames,        \* the calls of run_inner, innermost last
  stacks,        \* the operand stacks: the run's, and one for each filter under way
  results        \* the values and errors of the runs so far

vars == <<expr, inputs, prog, cache, frames, stacks, results>>

Init ==
  /\ \E case \in Cases : expr = case.expr /\ inputs = case.inputs
  /\ ~ TooLargeToPool(expr)
  /\ prog = Compile(expr)
  /\ cache = <<>>
  /\ frames = <<>> /\ stacks = <<>> /\ results = <<>>

Frame(kind, path, data, base) ==
  [kind |-> kind, path |-> path, ip |-> 1, data |-> data, base |-> base,
   items |-> <<>>, index |-> 0, kept |-> <<>>]

F       == Last(frames)
Program == FoldLeft(LAMBDA p, i : p.subs[i + 1], prog, F.path)
I       == Program.code[F.ip]
At(ops) == frames # <<>> /\ F.ip \in DOMAIN Program.code /\ I.op \in ops

S       == Last(stacks)
Top(n)  == IF Len(S) >= n THEN S[Len(S) - n + 1] ELSE Undefined   \* 1 is the top
Below(n) == SubSeq(S, 1, Len(S) - n)
TopValues(n) == [i \in 1..n |-> Top(n + 1 - i)]

\* What an instruction does to its own frame and stack.
Go(stack, ip) ==
  /\ frames' = [frames EXCEPT ![Len(frames)].ip = ip]
  /\ stacks' = [stacks EXCEPT ![Len(stacks)] = stack]
  /\ UNCHANGED <<expr, inputs, prog, results>>

\* An error leaves every call, and the run's stacks with them.
Stop(result) ==
  /\ results' = Append(results, result)
  /\ frames' = <<>> /\ stacks' = <<>>
  /\ UNCHANGED <<expr, inputs, prog, cache>>

Push(stack, value) ==
  \E v \in {value} :
    IF IsErr(v) THEN Stop(v) ELSE Go(Append(stack, v), F.ip + 1) /\ UNCHANGED cache

Run ==
  /\ frames = <<>> /\ Len(results) < Len(inputs)
  /\ frames' = <<Frame("main", <<>>, IntoOuterWrapper(inputs[Len(results) + 1]), 0)>>
  /\ stacks' = << <<>> >>
  /\ UNCHANGED <<expr, inputs, prog, cache, results>>

PushOperand ==
  /\ At({"PushConst", "PushUndefined", "PushData"})
  /\ Push(S, CASE I.op = "PushConst" -> Program.consts[I.arg + 1]
               [] I.op = "PushUndefined" -> Undefined
               [] I.op = "PushData" -> Bare(F.data))

(***************************************************************************)
(* Field access.  A cached place is used only where the key found there is *)
(* the one looked for, and is 0 when there is none.                        *)
(***************************************************************************)
\* A fault: the place is used whatever key is there.
TrustedPlace(obj, f, place) == place \in DOMAIN obj.keys

CachedPlace(obj, f, place) == place \in DOMAIN obj.keys /\ obj.keys[place] = f

RECURSIVE GetFieldCached(_, _, _, _)

\* The values of the items that have the field, and the place known at the end.
FieldOfEach(items, f, place) ==
  FoldLeft(LAMBDA sofar, item :
      Given(sofar, LAMBDA acc :
        Given(GetFieldCached(item, f, acc[2], FALSE), LAMBDA got :
          <<acc[1] \o Defined(<<got[1]>>), got[2]>>)),
    << <<>>, place >>, items)

GetFieldCached(v, f, place, perItem) ==
  CASE IsObj(v) ->
         CASE CachedPlace(v, f, place) -> <<v.vals[place], place>>
           [] HasKey(v, f) -> <<Get(v, f), KeyIndex(v, f)>>
           [] OTHER -> <<Undefined, place>>
    [] IsArr(v) ->
         Given(FieldOfEach(v.items, f, place), LAMBDA found :
           LET values == found[1]
           IN IF perItem /\ Len(values) = 1 /\ IsArr(values[1]) /\ ~ values[1].sequence
              THEN <<values[1], found[2]>>
              ELSE <<UnwrapSequence(Sequence(Flattened(values))), found[2]>>)
    [] OTHER -> <<Undefined, place>>

CacheSlot  == <<F.path, F.ip>>
CachedHere == IF CacheSlot \in DOMAIN cache THEN cache[CacheSlot] ELSE 0

GetField ==
  /\ At({"GetField", "GetDataField", "GetDataItemsField"})
  /\ LET ofStack == I.op = "GetField"
         source  == IF ofStack THEN Top(1) ELSE F.data
         perItem == I.op # "GetDataField" \/ ~ (IsArr(F.data) /\ F.data.outer)
     IN \E got \in {GetFieldCached(source, Program.strings[I.arg + 1], CachedHere, perItem)} :
          /\ Go(Append(IF ofStack THEN Below(1) ELSE S, got[1]), F.ip + 1)
          /\ cache' = IF got[2] = 0 THEN cache ELSE (CacheSlot :> got[2]) @@ cache

Operate ==
  \/ /\ At({"+", "-", "*"})
     /\ Push(Below(2), ArithmeticOn(I.op, Top(2), Top(1)))
  \/ /\ At({"=", "!=", "<", "<=", ">", ">="})
     /\ Push(Below(2), CompareOn(I.op, Top(2), Top(1)))
  \/ /\ At({"Negate"})
     /\ Push(Below(1), NegateOn(Top(1)))

(***************************************************************************)
(* Jumps.  JumpIfUndef leaves what it looks at on the stack.               *)
(***************************************************************************)
Jump ==
  /\ At({"Jump"})
  /\ Go(S, Target(Program.code, F.ip)) /\ UNCHANGED cache

JumpIf ==
  /\ At({"JumpIfFalsy", "JumpIfTruthy"})
  /\ Go(Below(1), IF Truthy(Top(1)) <=> I.op = "JumpIfTruthy"
                  THEN Target(Program.code, F.ip) ELSE F.ip + 1)
  /\ UNCHANGED cache

JumpIfUndef ==
  /\ At({"JumpIfUndef"})
  /\ Go(S, IF IsUndef(Top(1)) THEN Target(Program.code, F.ip) ELSE F.ip + 1)
  /\ UNCHANGED cache

PopTop == At({"Pop"}) /\ Go(Below(1), F.ip + 1) /\ UNCHANGED cache

Construct ==
  \/ /\ At({"MakeArray"})
     /\ Push(Below(I.arg), ArrayFrom(TopValues(I.arg), [i \in 1..I.arg |-> FALSE]))
  \/ /\ At({"MakeObject"})
     /\ LET pairs == TopValues(2 * I.arg)
        IN Push(Below(2 * I.arg),
                ObjectFrom([i \in 1..I.arg |-> pairs[2 * i - 1].s],
                           [i \in 1..I.arg |-> pairs[2 * i]]))

BlockEnd == At({"BlockEnd"}) /\ Push(Below(I.arg), Top(1))

CallBuiltin ==
  /\ At({"CallBuiltin"})
  /\ Push(Below(I.argc), UnwrapSequence(
            DispatchPure(Program.strings[I.arg + 1], TopValues(I.argc), F.data)))

EvalFallback == At({"EvalFallback"}) /\ Push(S, Eval(Program.falls[I.arg + 1], F.data))

(***************************************************************************)
(* Sub-programs.                                                           *)
(***************************************************************************)
ConstructObject ==
  /\ At({"ConstructObject"})
  /\ frames' = Append(frames, Frame("object", Append(F.path, I.arg),
                                    ObjectContext(F.data), Len(S)))
  /\ UNCHANGED <<expr, inputs, prog, cache, stacks, results>>

\* A value that is not an array is filtered as the one item of one.
FilterByBytecode ==
  /\ At({"FilterByBytecode"})
  /\ LET items == CASE IsArr(Top(1)) -> Top(1).items
                    [] IsUndef(Top(1)) -> <<>>
                    [] OTHER -> <<Top(1)>>
     IN IF items = <<>> THEN Push(Below(1), Undefined)
        ELSE /\ frames' = Append(frames,
                  [Frame("predicate", Append(F.path, I.arg), items[1], 0)
                     EXCEPT !.items = items, !.index = 1])
             /\ stacks' = Append([stacks EXCEPT ![Len(stacks)] = Below(1)], <<>>)
             /\ UNCHANGED <<expr, inputs, prog, cache, results>>

(***************************************************************************)
(* Return: the value goes to the run, or to the instruction that called.   *)
(***************************************************************************)
Value == UnwrapSequence(Top(1))

\* The caller goes on with v on top of its stack.
ToCaller(v, stacksLeft) ==
  /\ frames' = [Front(frames) EXCEPT ![Len(frames) - 1].ip = @ + 1]
  /\ stacks' = [stacksLeft EXCEPT ![Len(stacksLeft)] = Append(@, v)]
  /\ UNCHANGED <<expr, inputs, prog, cache, results>>

ReturnFromRun == At({"Return"}) /\ F.kind = "main" /\ Stop(Value)

\* A fault: an object constructor's body gives up a stack that is its caller's.
ReturnDroppingStack ==
  /\ At({"Return"}) /\ F.kind = "object"
  /\ ToCaller(Value, Front(stacks))

ReturnFromObject ==
  /\ At({"Return"}) /\ F.kind = "object"
  /\ ToCaller(Value, [stacks EXCEPT ![Len(stacks)] = Below(1)])

\* The predicate runs again, on the item at an index.
Again(index, kept) ==
  /\ frames' = [frames EXCEPT ![Len(frames)] =
       [@ EXCEPT !.ip = 1, !.index = index, !.data = F.items[index], !.kept = kept]]
  /\ stacks' = [stacks EXCEPT ![Len(stacks)] = Below(1)]
  /\ UNCHANGED <<expr, inputs, prog, cache, results>>

Repeats     == PredicateRepeats(Value, F.index - 1, Len(F.items))
KeptSoFar   == F.kept \o [n \in 1..Repeats |-> F.items[F.index]]

\* A fault: an item the predicate rejects is tried again.
ReturnStuckOnRejected ==
  /\ At({"Return"}) /\ F.kind = "predicate"
  /\ IF F.index < Len(F.items)
     THEN Again(F.index + (IF Repeats = 0 THEN 0 ELSE 1), KeptSoFar)
     ELSE ToCaller(UnwrapSequence(Sequence(KeptSoFar)), Front(stacks))

ReturnFromPredicate ==
  /\ At({"Return"}) /\ F.kind = "predicate"
  /\ IF F.index < Len(F.items)
     THEN Again(F.index + 1, KeptSoFar)
     ELSE ToCaller(UnwrapSequence(Sequence(KeptSoFar)), Front(stacks))

Next ==
  \/ Run \/ PushOperand \/ GetField \/ Operate \/ Jump \/ JumpIf \/ JumpIfUndef
  \/ PopTop \/ Construct \/ BlockEnd \/ CallBuiltin \/ EvalFallback
  \/ ConstructObject \/ FilterByBytecode
  \/ ReturnFromRun \/ ReturnFromObject \/ ReturnFromPredicate

Spec == Init /\ [][Next]_vars

\* The VM's loop goes on by itself while it has an instruction to run.
FairSpec == Spec /\ WF_vars(Next)

(***************************************************************************)
(* Properties.                                                             *)
(***************************************************************************)
\* The shape of the VM's state: an operand stack for the run and for each filter
\* under way, a place of the cache for instructions that look a field up, and no
\* more results than inputs.  What the compiler hands to the peephole pass has its
\* jumps where the pass counts on them.
TypeOK ==
  /\ Len(results) \in 0..Len(inputs)
  /\ Len(stacks) = Cardinality({i \in DOMAIN frames : frames[i].kind # "object"})
  /\ \A i \in DOMAIN frames : /\ frames[i].kind = "main" <=> i = 1
                              /\ frames[i].base >= 0 /\ ~ IsErr(frames[i].data)
  /\ \A i \in DOMAIN stacks : \A j \in DOMAIN stacks[i] : ~ IsErr(stacks[i][j])
  /\ \A slot \in DOMAIN cache : cache[slot] > 0
  /\ results = <<>> /\ frames = <<>> =>
       Placed(Emit(EmitExpr(EmptyProgram, expr), "Return", 0).code)

\* The VM gives the value, or the error, that the tree evaluation of the same
\* expression over the same input gives: on the first input and, with the shape
\* cache the earlier ones left, on those after it (run_inner against
\* eval_compiled_inner).
SameAsTree ==
  \A run \in DOMAIN results :
    results[run] = Eval(expr, IntoOuterWrapper(inputs[run]))

\* A call of run_inner never reaches below the operands it found, and returns
\* with exactly one value above them: what ConstructObject's comment promises of
\* a body on its caller's stack, and what lets a predicate's stack serve every item.
StackBalanced ==
  frames # <<>> => /\ Len(S) >= F.base
                   /\ At({"Return"}) => Len(S) = F.base + 1

\* So each sub-program finds the operands it left, and leaves the others alone.
OperandsKept == TypeOK /\ StackBalanced

\* Every evaluation comes to its Return or to an error: no jump goes back, and
\* none leaves the program.
Terminates == <>(Len(results) = Len(inputs))
=============================================================================
