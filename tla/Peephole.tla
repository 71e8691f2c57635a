-------------------------------- MODULE Peephole -------------------------------
(***************************************************************************)
(* Instructions, the width of their operands, and the pass that shortens a *)
(* program after it is emitted (compiler.rs, peephole).                    *)
(*                                                                         *)
(* Positions count from 1; a jump's operand counts from the instruction    *)
(* after the jump.  WordBits is 16 in the code; a smaller word shows on a  *)
(* small program what 16 bits do on a long one.  Two rules are left out:   *)
(* the instructions they look for, GetVar and Not, are in no program a     *)
(* whole expression compiles to.                                           *)
(***************************************************************************)
EXTENDS Integers, Sequences, FiniteSets

CONSTANT WordBits
ASSUME WordBitsAssumption == WordBits \in Nat \ {0}

Word(n)   == n % 2^WordBits                                        \* as u16
Signed(n) == ((n + 2^(WordBits - 1)) % 2^WordBits) - 2^(WordBits - 1)  \* as i16

Instr(op, arg) == [op |-> op, arg |-> arg]
JumpOps == {"Jump", "JumpIfFalsy", "JumpIfTruthy", "JumpIfUndef"}
Target(code, i) == i + 1 + code[i].arg

(***************************************************************************)
(* `PushData; GetField(x)` becomes GetDataField(x), and a jump to the next *)
(* instruction goes away.                                                  *)
(***************************************************************************)
Fuses(code, i) == /\ i \in DOMAIN code /\ i + 1 \in DOMAIN code
                  /\ code[i].op = "PushData" /\ code[i + 1].op = "GetField"

NoOpJump(code, i) == code[i].op \in JumpOps \ {"JumpIfUndef"} /\ code[i].arg = 0

\* The instructions that have one to show for them in the shorter program.
Kept(code) == {i \in DOMAIN code : ~ NoOpJump(code, i) /\ ~ Fuses(code, i - 1)}

\* remap: where an old position is in the shorter program.  Both halves of a
\* fused pair are where the pair is.
NewIp(code, i) ==
  Cardinality({j \in Kept(code) : j < i}) + (IF Fuses(code, i - 1) THEN 0 ELSE 1)

\* A target that is no position of the program is taken for its end.
RemappedTarget(code, i) ==
  NewIp(code, IF Target(code, i) \in DOMAIN code THEN Target(code, i) ELSE Len(code) + 1)

Shortened(code, i) ==
  CASE Fuses(code, i) -> Instr("GetDataField", code[i + 1].arg)
    [] code[i].op \in JumpOps ->
         Instr(code[i].op, Signed(RemappedTarget(code, i) - NewIp(code, i) - 1))
    [] OTHER -> code[i]

Optimised(code) ==
  [ip \in 1..Cardinality(Kept(code)) |->
     Shortened(code, CHOOSE i \in Kept(code) : NewIp(code, i) = ip)]

(***************************************************************************)
(* What the pass counts on.                                                *)
(***************************************************************************)
\* Every jump's target is a position of the program or its end, and none is the
\* second half of a pair that is fused; and a jump as far as the program is long fits
\* its operand.
Placed(code) ==
  /\ \A i \in DOMAIN code : code[i].op \in JumpOps =>
       /\ code[i].arg \in Int /\ Target(code, i) \in 1 .. Len(code) + 1
       /\ ~ Fuses(code, Target(code, i) - 1)
  /\ \A n \in - Len(code) .. Len(code) : Signed(n) = n

\* Where a program goes on after an instruction that, if it may, jumps or does not.
Following(code, i, jumps) ==
  IF code[i].op \in JumpOps /\ jumps THEN Target(code, i) ELSE i + 1
=============================================================================
