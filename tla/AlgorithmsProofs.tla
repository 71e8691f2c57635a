---------------------------- MODULE AlgorithmsProofs ---------------------------
(***************************************************************************)
(* What the functions of their arguments give, for any arguments: the pass *)
(* that shortens a program changes no path through it, a range has the     *)
(* numbers it spans, the weeks are those of the calendar, and a moment is  *)
(* read as what was written of it.                                         *)
(***************************************************************************)
EXTENDS Algorithms, Peephole, FiniteSetTheorems, TLAPS

(***************************************************************************)
(* The program that the peephole pass makes.                               *)
(***************************************************************************)
\* The instructions before i that are kept.
KeptBelow(code, i) == {j \in Kept(code) : j < i}

LEMMA KeptBelowFinite ==
  ASSUME NEW Instrs, NEW code \in Seq(Instrs), NEW i
  PROVE  /\ Kept(code) \subseteq 1 .. Len(code) /\ IsFiniteSet(Kept(code))
         /\ IsFiniteSet(KeptBelow(code, i))
         /\ Cardinality(Kept(code)) \in Nat /\ Cardinality(KeptBelow(code, i)) \in Nat
<1>1. Kept(code) \subseteq 1 .. Len(code) /\ Len(code) \in Nat
  BY DEF Kept
<1>2. IsFiniteSet(1 .. Len(code))
  BY <1>1, FS_Interval
<1>3. IsFiniteSet(Kept(code))
  BY <1>1, <1>2, FS_Subset
<1>4. IsFiniteSet(KeptBelow(code, i))
  BY <1>3, FS_Subset DEF KeptBelow
<1> QED
  BY <1>1, <1>3, <1>4, FS_CardinalityType

\* An instruction is where the kept ones before it leave it.
LEMMA KeptPlace ==
  ASSUME NEW Instrs, NEW code \in Seq(Instrs), NEW i \in Kept(code)
  PROVE  /\ NewIp(code, i) = Cardinality(KeptBelow(code, i)) + 1
         /\ IsFiniteSet(KeptBelow(code, i) \cup {i})
         /\ Cardinality(KeptBelow(code, i) \cup {i}) = NewIp(code, i)
         /\ NewIp(code, i) \in Nat \ {0}
<1>1. ~ Fuses(code, i - 1)
  BY DEF Kept
<1>2. NewIp(code, i) = Cardinality(KeptBelow(code, i)) + 1
  BY <1>1 DEF NewIp, KeptBelow
<1>3. i \notin KeptBelow(code, i)
  <2>1. i \in 1 .. Len(code)
    BY KeptBelowFinite
  <2> QED
    BY <2>1 DEF KeptBelow
<1>4. IsFiniteSet(KeptBelow(code, i)) /\ Cardinality(KeptBelow(code, i)) \in Nat
  BY KeptBelowFinite
<1> QED
  BY <1>2, <1>3, <1>4, FS_AddElement

\* Kept instructions stay in order.
LEMMA PlacesGrow ==
  ASSUME NEW Instrs, NEW code \in Seq(Instrs), NEW i \in Kept(code), NEW k \in Kept(code), i < k
  PROVE  NewIp(code, i) < NewIp(code, k)
<1>1. i \in 1 .. Len(code) /\ k \in 1 .. Len(code)
  BY KeptBelowFinite
<1>2. KeptBelow(code, i) \cup {i} \subseteq KeptBelow(code, k)
  <2>1. ASSUME NEW j \in Kept(code), j < i PROVE j < k
    <3>1. j \in 1 .. Len(code)
      BY KeptBelowFinite
    <3> QED
      BY <1>1, <2>1, <3>1
  <2> QED
    BY <2>1 DEF KeptBelow
<1> DEFINE below == KeptBelow(code, k)
           upto == KeptBelow(code, i) \cup {i}
<1>3. IsFiniteSet(below) /\ Cardinality(below) \in Nat
  BY KeptBelowFinite
<1>4. Cardinality(upto) <= Cardinality(below)
  <2> HIDE DEF below, upto
  <2> QED
    BY <1>2, <1>3, FS_Subset DEF below, upto
<1>5. /\ Cardinality(upto) = NewIp(code, i) /\ NewIp(code, k) = Cardinality(below) + 1
      /\ NewIp(code, i) \in Nat
  BY KeptPlace
<1> HIDE DEF below, upto
<1> QED
  BY <1>3, <1>4, <1>5

LEMMA PlaceWithin ==
  ASSUME NEW Instrs, NEW code \in Seq(Instrs), NEW i \in Kept(code)
  PROVE  NewIp(code, i) \in 1 .. Cardinality(Kept(code))
<1> DEFINE upto == KeptBelow(code, i) \cup {i}
<1>1. upto \subseteq Kept(code)
  BY DEF KeptBelow
<1>2. IsFiniteSet(Kept(code)) /\ Cardinality(Kept(code)) \in Nat
  BY KeptBelowFinite
<1>3. Cardinality(upto) = NewIp(code, i) /\ NewIp(code, i) \in Nat \ {0}
  BY KeptPlace
<1> HIDE DEF upto
<1>4. Cardinality(upto) <= Cardinality(Kept(code))
  BY <1>1, <1>2, FS_Subset
<1> QED
  BY <1>2, <1>3, <1>4

LEMMA AtPlace ==
  ASSUME NEW Instrs, NEW code \in Seq(Instrs), NEW i \in Kept(code)
  PROVE  Optimised(code)[NewIp(code, i)] = Shortened(code, i)
<1>1. NewIp(code, i) \in 1 .. Cardinality(Kept(code))
  BY PlaceWithin
<1>2. ASSUME NEW k \in Kept(code), NewIp(code, k) = NewIp(code, i) PROVE k = i
  <2>1. i \in 1 .. Len(code) /\ k \in 1 .. Len(code)
    BY KeptBelowFinite
  <2>2. NewIp(code, i) \in Nat /\ NewIp(code, k) \in Nat
    BY KeptPlace
  <2>3. ~ (i < k) /\ ~ (k < i)
    BY <1>2, <2>2, PlacesGrow
  <2> QED
    BY <2>1, <2>3
<1>3. (CHOOSE k \in Kept(code) : NewIp(code, k) = NewIp(code, i)) = i
  BY <1>2, Zenon
<1> QED
  BY <1>1, <1>3 DEF Optimised

\* Past an instruction that is kept there is one place more.
LEMMA NextPlace ==
  ASSUME NEW Instrs, NEW code \in Seq(Instrs), NEW i \in 1 .. Len(code)
  PROVE  /\ Cardinality(KeptBelow(code, i + 1)) =
              Cardinality(KeptBelow(code, i)) + (IF i \in Kept(code) THEN 1 ELSE 0)
         /\ NewIp(code, i) = Cardinality(KeptBelow(code, i)) + (IF Fuses(code, i - 1) THEN 0 ELSE 1)
         /\ NewIp(code, i + 1) = Cardinality(KeptBelow(code, i + 1)) + (IF Fuses(code, i) THEN 0 ELSE 1)
<1>1. Kept(code) \subseteq 1 .. Len(code) /\ Len(code) \in Nat
  BY KeptBelowFinite
<1>2. /\ NewIp(code, i) = Cardinality(KeptBelow(code, i)) + (IF Fuses(code, i - 1) THEN 0 ELSE 1)
      /\ NewIp(code, i + 1) = Cardinality(KeptBelow(code, i + 1)) + (IF Fuses(code, i) THEN 0 ELSE 1)
  <2>1. (i + 1) - 1 = i
    BY <1>1
  <2> QED
    BY <2>1, Zenon DEF NewIp, KeptBelow
<1>3. CASE i \in Kept(code)
  <2>1. KeptBelow(code, i + 1) = KeptBelow(code, i) \cup {i}
    <3>1. \A j \in Kept(code) : j < i + 1 <=> j < i \/ j = i
      BY <1>1
    <3> QED
      BY <1>3, <3>1 DEF KeptBelow
  <2>2. /\ NewIp(code, i) = Cardinality(KeptBelow(code, i)) + 1
        /\ Cardinality(KeptBelow(code, i + 1)) = NewIp(code, i)
    BY <1>3, <2>1, KeptPlace
  <2> QED
    BY <1>2, <1>3, <2>2
<1>4. CASE i \notin Kept(code)
  <2>1. KeptBelow(code, i + 1) = KeptBelow(code, i)
    <3>1. \A j \in Kept(code) : j < i + 1 <=> j < i
      BY <1>1, <1>4
    <3> QED
      BY <3>1 DEF KeptBelow
  <2>2. Cardinality(KeptBelow(code, i)) \in Nat
    BY KeptBelowFinite
  <2> QED
    BY <1>2, <1>4, <2>1, <2>2
<1> QED
  BY <1>3, <1>4

LEMMA UpTo ==
  ASSUME NEW n \in Nat
  PROVE  IsFiniteSet(1 .. n) /\ Cardinality(1 .. n) = n
<1>1. IsFiniteSet(1 .. n) /\ Cardinality(1 .. n) = IF 1 > n THEN 0 ELSE n - 1 + 1
  BY FS_Interval
<1> QED
  BY <1>1

LEMMA PlacesBounded ==
  ASSUME NEW Instrs, NEW code \in Seq(Instrs), NEW i \in 1 .. Len(code) + 1, ~ Fuses(code, i - 1)
  PROVE  NewIp(code, i) \in 1 .. Len(code) + 1
<1>1. /\ Kept(code) \subseteq 1 .. Len(code) /\ Len(code) \in Nat
      /\ Cardinality(KeptBelow(code, i)) \in Nat
  BY KeptBelowFinite
<1>2. IsFiniteSet(1 .. Len(code)) /\ Cardinality(1 .. Len(code)) = Len(code)
  BY <1>1, UpTo
<1>3. KeptBelow(code, i) \subseteq 1 .. Len(code)
  BY <1>1 DEF KeptBelow
<1>4. Cardinality(KeptBelow(code, i)) <= Len(code)
  BY <1>2, <1>3, FS_Subset
<1>5. NewIp(code, i) = Cardinality(KeptBelow(code, i)) + 1
  BY DEF NewIp, KeptBelow
<1> QED
  BY <1>1, <1>4, <1>5

\* Where a jump that is kept leads: to where its target is in the shorter program.
LEMMA JumpLands ==
  ASSUME NEW Instrs, NEW code \in Seq(Instrs), Placed(code),
         NEW i \in Kept(code), code[i].op \in JumpOps
  PROVE  /\ Optimised(code)[NewIp(code, i)].op = code[i].op
         /\ Target(Optimised(code), NewIp(code, i)) = NewIp(code, Target(code, i))
<1> DEFINE t == Target(code, i)
           at == NewIp(code, i)
           to == NewIp(code, t)
<1>1. i \in 1 .. Len(code) /\ Len(code) \in Nat /\ DOMAIN code = 1 .. Len(code)
  BY KeptBelowFinite
<1>2. t \in 1 .. Len(code) + 1 /\ ~ Fuses(code, t - 1)
  BY <1>1 DEF Placed
<1>3. RemappedTarget(code, i) = to
  <2>1. t \notin DOMAIN code => t = Len(code) + 1
    BY <1>1, <1>2
  <2> QED
    BY <2>1 DEF RemappedTarget
<1>4. to \in 1 .. Len(code) + 1
  <2> HIDE DEF t
  <2> QED
    BY <1>2, PlacesBounded
<1>5. at \in 1 .. Len(code)
  <2>1. at \in 1 .. Cardinality(Kept(code)) /\ Cardinality(Kept(code)) \in Nat
    BY PlaceWithin, KeptBelowFinite
  <2>2. Cardinality(Kept(code)) <= Len(code)
    <3>1. IsFiniteSet(1 .. Len(code)) /\ Cardinality(1 .. Len(code)) = Len(code)
      BY <1>1, UpTo
    <3> QED
      BY <3>1, KeptBelowFinite, FS_Subset
  <2> HIDE DEF at
  <2> QED
    BY <1>1, <2>1, <2>2
<1>6. ~ Fuses(code, i)
  BY DEF Fuses, JumpOps
<1>7. Shortened(code, i) = Instr(code[i].op, Signed(to - at - 1))
  BY <1>3, <1>6 DEF Shortened
<1>8. Signed(to - at - 1) = to - at - 1
  <2> HIDE DEF to, at
  <2>1. to - at - 1 \in - Len(code) .. Len(code)
    BY <1>1, <1>4, <1>5
  <2> QED
    BY <2>1 DEF Placed
<1>9. Optimised(code)[at] = Instr(code[i].op, to - at - 1)
  BY <1>7, <1>8, AtPlace
<1> HIDE DEF to, at
<1>10. Optimised(code)[at].op = code[i].op /\ Optimised(code)[at].arg = to - at - 1
  BY <1>9 DEF Instr
<1>11. Target(Optimised(code), at) = to
  BY <1>4, <1>5, <1>10 DEF Target
<1> QED
  BY <1>10, <1>11 DEF to, at, t

\* The shorter program goes the way the program it was made of goes (peephole in
\* compiler.rs): an instruction that is kept is followed, jumping or not, by the one
\* that follows it there; a fused pair is one instruction, past which comes what comes
\* past the pair; and a jump to the next instruction, which is left out, is where that
\* one is.  Kept instructions stay in order, and the program's end its end.
THEOREM PathKept ==
  ASSUME NEW Instrs, NEW code \in Seq(Instrs), Placed(code)
  PROVE  LET new == Optimised(code)
         IN  /\ \A i, k \in Kept(code) : i < k => NewIp(code, i) < NewIp(code, k)
             /\ \A i \in Kept(code) : NewIp(code, i) \in 1 .. Cardinality(Kept(code))
             /\ NewIp(code, Len(code) + 1) = Cardinality(Kept(code)) + 1
             /\ \A i \in Kept(code), jumps \in BOOLEAN : ~ Fuses(code, i) =>
                  Following(new, NewIp(code, i), jumps) = NewIp(code, Following(code, i, jumps))
             /\ \A i \in DOMAIN code : Fuses(code, i) =>
                  /\ i \in Kept(code)
                  /\ \A jumps \in BOOLEAN : Following(new, NewIp(code, i), jumps) = NewIp(code, i + 2)
             /\ \A i \in DOMAIN code : NoOpJump(code, i) =>
                  \A jumps \in BOOLEAN : NewIp(code, Following(code, i, jumps)) = NewIp(code, i)
<1> DEFINE new == Optimised(code)
<1>1. /\ Kept(code) \subseteq 1 .. Len(code) /\ Len(code) \in Nat /\ DOMAIN code = 1 .. Len(code)
      /\ Cardinality(Kept(code)) \in Nat
  BY KeptBelowFinite
<1>2. NewIp(code, Len(code) + 1) = Cardinality(Kept(code)) + 1
  <2>1. ~ Fuses(code, (Len(code) + 1) - 1)
    BY <1>1 DEF Fuses
  <2>2. {j \in Kept(code) : j < Len(code) + 1} = Kept(code)
    BY <1>1
  <2> QED
    BY <2>1, <2>2 DEF NewIp
<1>3. ASSUME NEW i \in Kept(code), NEW jumps \in BOOLEAN, ~ Fuses(code, i)
      PROVE  Following(new, NewIp(code, i), jumps) = NewIp(code, Following(code, i, jumps))
  <2>1. i \in 1 .. Len(code) /\ ~ Fuses(code, i - 1)
    BY <1>1 DEF Kept
  <2>2. NewIp(code, i + 1) = NewIp(code, i) + 1
    <3>1. Cardinality(KeptBelow(code, i)) \in Nat
      BY KeptBelowFinite
    <3> QED
      BY <1>3, <2>1, <3>1, NextPlace
  <2>3. new[NewIp(code, i)].op = code[i].op
    <3>1. CASE code[i].op \in JumpOps
      BY <3>1, JumpLands
    <3>2. CASE code[i].op \notin JumpOps
      BY <1>3, <3>2, AtPlace DEF Shortened
    <3> QED
      BY <3>1, <3>2
  <2>4. code[i].op \in JumpOps => Target(new, NewIp(code, i)) = NewIp(code, Target(code, i))
    BY JumpLands
  <2> HIDE DEF new
  <2> QED
    BY <2>2, <2>3, <2>4 DEF Following
<1>4. ASSUME NEW i \in DOMAIN code, Fuses(code, i), NEW jumps \in BOOLEAN
      PROVE  i \in Kept(code) /\ Following(new, NewIp(code, i), jumps) = NewIp(code, i + 2)
  <2>1. /\ i \in 1 .. Len(code) /\ i + 1 \in 1 .. Len(code)
        /\ code[i].op = "PushData" /\ code[i + 1].op = "GetField"
    BY <1>1, <1>4 DEF Fuses
  <2>2. ~ Fuses(code, i - 1) /\ ~ Fuses(code, i + 1)
    <3>1. (i - 1) + 1 = i /\ (i + 1) + 1 = i + 2
      BY <1>1
    <3> QED
      BY <2>1, <3>1 DEF Fuses
  <2>3. i \in Kept(code)
    BY <2>1, <2>2 DEF Kept, NoOpJump, JumpOps
  <2>4. i + 1 \notin Kept(code)
    <3>1. (i + 1) - 1 = i
      BY <1>1
    <3> QED
      BY <1>4, <3>1 DEF Kept
  <2>5. NewIp(code, i + 2) = NewIp(code, i) + 1
    <3> DEFINE m == i + 1
    <3>1. m \in 1 .. Len(code) /\ m + 1 = i + 2 /\ m - 1 = i
      BY <1>1, <2>1
    <3>2. Cardinality(KeptBelow(code, i)) \in Nat
      BY KeptBelowFinite
    <3>3. /\ Cardinality(KeptBelow(code, m)) = Cardinality(KeptBelow(code, i)) + 1
          /\ NewIp(code, i) = Cardinality(KeptBelow(code, i)) + 1
      BY <2>1, <2>2, <2>3, NextPlace
    <3>4. m \notin Kept(code) /\ ~ Fuses(code, m)
      BY <2>2, <2>4
    <3> HIDE DEF m
    <3>5. /\ Cardinality(KeptBelow(code, m + 1)) = Cardinality(KeptBelow(code, m)) + 0
          /\ NewIp(code, m + 1) = Cardinality(KeptBelow(code, m + 1)) + 1
      BY <3>1, <3>4, NextPlace
    <3> QED
      BY <3>1, <3>2, <3>3, <3>5
  <2>6. new[NewIp(code, i)].op = "GetDataField"
    <3>1. new[NewIp(code, i)] = Shortened(code, i)
      BY <2>3, AtPlace
    <3>2. Shortened(code, i) = Instr("GetDataField", code[i + 1].arg)
      BY <1>4, <2>1 DEF Shortened, JumpOps
    <3> QED
      BY <3>1, <3>2 DEF Instr
  <2> HIDE DEF new
  <2> QED
    BY <2>3, <2>5, <2>6 DEF Following, JumpOps
<1>5. ASSUME NEW i \in DOMAIN code, NoOpJump(code, i), NEW jumps \in BOOLEAN
      PROVE  NewIp(code, Following(code, i, jumps)) = NewIp(code, i)
  <2>1. i \in 1 .. Len(code) /\ i \notin Kept(code) /\ code[i].op \in JumpOps /\ code[i].arg = 0
    BY <1>1, <1>5 DEF NoOpJump, Kept
  <2>2. Following(code, i, jumps) = i + 1
    BY <2>1 DEF Following, Target
  <2>3. ~ Fuses(code, i) /\ ~ Fuses(code, i - 1)
    <3>1. (i - 1) + 1 = i
      BY <1>1
    <3> QED
      BY <2>1, <3>1 DEF Fuses, JumpOps
  <2>4. Cardinality(KeptBelow(code, i)) \in Nat
    BY KeptBelowFinite
  <2> QED
    BY <2>1, <2>2, <2>3, <2>4, NextPlace
<1>6. \A i, k \in Kept(code) : i < k => NewIp(code, i) < NewIp(code, k)
  BY PlacesGrow
<1>7. \A i \in Kept(code) : NewIp(code, i) \in 1 .. Cardinality(Kept(code))
  BY PlaceWithin
<1> QED
  BY <1>2, <1>3, <1>4, <1>5, <1>6, <1>7

LEMMA AnInstruction ==
  ASSUME NEW Instrs, NEW code \in Seq(Instrs), NEW ip \in 1 .. Cardinality(Kept(code))
  PROVE  \E i \in Kept(code) : NewIp(code, i) = ip
<1> DEFINE places == 1 .. Cardinality(Kept(code))
           at == [i \in Kept(code) |-> NewIp(code, i)]
<1>1. /\ IsFiniteSet(Kept(code)) /\ Cardinality(Kept(code)) \in Nat
      /\ Kept(code) \subseteq 1 .. Len(code)
  BY KeptBelowFinite
<1>2. IsFiniteSet(places) /\ Cardinality(places) = Cardinality(Kept(code))
  BY <1>1, UpTo
<1>3. at \in [Kept(code) -> places]
  BY PlaceWithin
<1>4. ASSUME NEW i \in Kept(code), NEW k \in Kept(code), NewIp(code, i) = NewIp(code, k) PROVE i = k
  <2>1. i \in 1 .. Len(code) /\ k \in 1 .. Len(code)
    BY <1>1
  <2>2. NewIp(code, i) \in Nat /\ NewIp(code, k) \in Nat
    BY KeptPlace
  <2>3. ~ (i < k) /\ ~ (k < i)
    BY <1>4, <2>2, PlacesGrow
  <2> QED
    BY <2>1, <2>3
<1>5. at \in Injection(Kept(code), places)
  BY <1>3, <1>4 DEF Injection, IsInjective
<1>6. at \in Surjection(Kept(code), places)
  <2> HIDE DEF at, places
  <2> QED
    BY <1>2, <1>5, FS_Injection
<1> QED
  BY <1>6 DEF Surjection

\* A target ahead of a kept instruction stays ahead of it, and one behind it behind.
LEMMA AheadStaysAhead ==
  ASSUME NEW Instrs, NEW code \in Seq(Instrs), NEW i \in Kept(code),
         NEW t \in 1 .. Len(code) + 1, ~ Fuses(code, t - 1)
  PROVE  NewIp(code, t) > NewIp(code, i) <=> t > i
<1> DEFINE below == KeptBelow(code, t)
           own   == KeptBelow(code, i)
           upto  == own \cup {i}
<1>1. i \in 1 .. Len(code) /\ Len(code) \in Nat
  BY KeptBelowFinite
<1>2. /\ NewIp(code, t) = Cardinality(below) + 1
      /\ IsFiniteSet(below) /\ Cardinality(below) \in Nat
      /\ IsFiniteSet(own) /\ Cardinality(own) \in Nat
  BY KeptBelowFinite DEF NewIp, KeptBelow
<1>3. /\ NewIp(code, i) = Cardinality(own) + 1
      /\ Cardinality(upto) = NewIp(code, i) /\ IsFiniteSet(upto)
  BY KeptPlace
<1>4. \A j \in Kept(code) : j \in 1 .. Len(code)
  BY KeptBelowFinite
<1>5. CASE t > i
  <2>1. upto \subseteq below
    <3>1. \A j \in Kept(code) : j < i \/ j = i => j < t
      BY <1>1, <1>4, <1>5
    <3> QED
      BY <3>1 DEF KeptBelow
  <2> HIDE DEF below, own, upto
  <2>2. Cardinality(upto) <= Cardinality(below)
    BY <1>2, <2>1, FS_Subset
  <2> QED
    BY <1>2, <1>3, <1>5, <2>2
<1>6. CASE t <= i
  <2>1. below \subseteq own
    <3>1. \A j \in Kept(code) : j < t => j < i
      BY <1>1, <1>4, <1>6
    <3> QED
      BY <3>1 DEF KeptBelow
  <2> HIDE DEF below, own, upto
  <2>2. Cardinality(below) <= Cardinality(own)
    BY <1>2, <2>1, FS_Subset
  <2> QED
    BY <1>1, <1>2, <1>3, <1>6, <2>2
<1> QED
  BY <1>1, <1>5, <1>6

\* The shorter program does what the program it was made of does (peephole in
\* compiler.rs): each of its instructions stands for a kept one and is that one; a fused
\* pair reads the field that the pair reads; and a jump jumps on the same condition, to
\* the place of its target, ahead if that was ahead, so no loop comes of shortening.
THEOREM InstructionsKept ==
  ASSUME NEW Instrs, NEW code \in Seq(Instrs), Placed(code)
  PROVE  LET new == Optimised(code)
         IN  /\ DOMAIN new = 1 .. Cardinality(Kept(code))
             /\ \A ip \in DOMAIN new : \E i \in Kept(code) : NewIp(code, i) = ip
             /\ \A i \in Kept(code) :
                  LET ip == NewIp(code, i)
                  IN  IF Fuses(code, i) THEN new[ip] = Instr("GetDataField", code[i + 1].arg)
                      ELSE IF code[i].op \in JumpOps
                      THEN /\ new[ip].op = code[i].op
                           /\ Target(new, ip) = NewIp(code, Target(code, i))
                           /\ Target(new, ip) > ip <=> Target(code, i) > i
                      ELSE new[ip] = code[i]
<1> DEFINE new == Optimised(code)
<1>1. DOMAIN new = 1 .. Cardinality(Kept(code))
  BY DEF Optimised
<1>2. \A ip \in DOMAIN new : \E i \in Kept(code) : NewIp(code, i) = ip
  BY <1>1, AnInstruction
<1>3. ASSUME NEW i \in Kept(code)
      PROVE  new[NewIp(code, i)] = Shortened(code, i)
  BY AtPlace
<1>4. ASSUME NEW i \in Kept(code), ~ Fuses(code, i), code[i].op \in JumpOps
      PROVE  /\ new[NewIp(code, i)].op = code[i].op
             /\ Target(new, NewIp(code, i)) = NewIp(code, Target(code, i))
             /\ Target(new, NewIp(code, i)) > NewIp(code, i) <=> Target(code, i) > i
  <2> DEFINE t == Target(code, i)
  <2>1. t \in 1 .. Len(code) + 1 /\ ~ Fuses(code, t - 1)
    BY <1>4, KeptBelowFinite DEF Placed
  <2>2. NewIp(code, t) > NewIp(code, i) <=> t > i
    <3> HIDE DEF t
    <3> QED
      BY <2>1, AheadStaysAhead
  <2>3. new[NewIp(code, i)].op = code[i].op /\ Target(new, NewIp(code, i)) = NewIp(code, t)
    BY <1>4, JumpLands
  <2> QED
    BY <2>2, <2>3
<1>5. ASSUME NEW i \in Kept(code), Fuses(code, i)
      PROVE  new[NewIp(code, i)] = Instr("GetDataField", code[i + 1].arg)
  <2>1. code[i].op = "PushData"
    BY <1>5 DEF Fuses
  <2>2. Shortened(code, i) = Instr("GetDataField", code[i + 1].arg)
    BY <1>5, <2>1 DEF Shortened, JumpOps
  <2> QED
    BY <1>3, <2>2
<1>6. ASSUME NEW i \in Kept(code), ~ Fuses(code, i), code[i].op \notin JumpOps
      PROVE  new[NewIp(code, i)] = code[i]
  BY <1>3, <1>6 DEF Shortened
<1> HIDE DEF new
<1> QED
  BY <1>1, <1>2, <1>4, <1>5, <1>6 DEF new

(***************************************************************************)
(* Ranges.                                                                 *)
(***************************************************************************)
LEMMA ModSame ==
  ASSUME NEW n \in Nat, NEW k \in Nat, n < k
  PROVE  n % k = n
  OBVIOUS

LEMMA CountFromTo ==
  ASSUME NEW a \in Int, NEW b \in Int
  PROVE  /\ IsFiniteSet(a .. b)
         /\ Cardinality(a .. b) = IF a > b THEN 0 ELSE b - a + 1
  BY FS_Interval

LEMMA Saturations ==
  ASSUME NEW n \in Int
  PROVE  /\ Saturated(n) \in MinInt .. MaxInt
         /\ Saturated(n) = MinInt => n <= MinInt
         /\ Saturated(n) = MaxInt => n >= MaxInt
<1>1. MaxInt \in Nat /\ MinInt \in Int /\ MinInt < MaxInt
  BY AlgorithmsAssumption DEF MinInt
<1> QED
  BY <1>1 DEF Saturated

LEMMA LeastOfTwo ==
  ASSUME NEW a \in Nat, NEW b \in Nat
  PROVE  Min({a, b}) = IF a <= b THEN a ELSE b
<1>1. Min({a, b}) = CHOOSE x \in {a, b} : \A y \in {a, b} : x <= y
  BY DEF Min
<1>2. CASE a <= b
  BY <1>1, <1>2
<1>3. CASE ~ (a <= b)
  BY <1>1, <1>3
<1> QED
  BY <1>2, <1>3

\* A count that does not wrap is that of the numbers there are.
LEMMA SizesTrue ==
  ASSUME NEW start \in MinInt .. MaxInt, NEW end \in MinInt .. MaxInt,
         start # MinInt \/ end # MaxInt
  PROVE  LET ns == {n \in MinInt .. MaxInt : start <= n /\ n <= end}
         IN  /\ Cardinality(ns) = RangeSize(start, end) /\ Cardinality(ns) \in Nat
             /\ start <= end => Cardinality(ns) = end - start + 1
             /\ ~ (start <= end) => Cardinality(ns) = 0
<1> DEFINE ns == {n \in MinInt .. MaxInt : start <= n /\ n <= end}
<1>1. /\ MaxInt \in Nat /\ MinInt \in Int /\ MinInt = - MaxInt - 1 /\ Wrap = 2 * (MaxInt + 1)
      /\ start \in Int /\ end \in Int
  BY AlgorithmsAssumption DEF MinInt, Wrap
<1>2. ns = start .. end
  BY <1>1
<1>3. Cardinality(ns) = IF start > end THEN 0 ELSE end - start + 1
  <2>1. Cardinality(start .. end) = IF start > end THEN 0 ELSE end - start + 1
    BY <1>1, CountFromTo
  <2> QED
    BY <1>2, <2>1
<1> HIDE DEF ns
<1>4. CASE start <= end
  <2>1. end - start + 1 \in Nat /\ Wrap \in Nat /\ end - start + 1 < Wrap
    BY <1>1, <1>4
  <2>2. (end - start + 1) % Wrap = end - start + 1
    BY <2>1, ModSame
  <2> QED
    BY <1>1, <1>3, <1>4, <2>1, <2>2 DEF RangeSize, ns
<1>5. CASE ~ (start <= end)
  BY <1>1, <1>3, <1>5 DEF RangeSize, ns
<1> QED
  BY <1>4, <1>5

LEMMA RangeIs ==
  ASSUME NEW l, NEW r, NEW limit \in Nat \cup {NoLimit}, IsNum(l), IsNum(r), l.n \in Int, r.n \in Int,
         ~ Spans(l, r)
  PROVE  LET ns == {n \in MinInt .. MaxInt : Saturated(l.n) <= n /\ n <= Saturated(r.n)}
             most == IF limit = NoLimit THEN MaxSize ELSE Min({MaxSize, limit})
         IN IF Cardinality(ns) > most THEN IsErr(RangeOf(l, r, limit))
            ELSE RangeOf(l, r, limit) = Sequence([i \in 1 .. Cardinality(ns) |-> Num(Saturated(l.n) + i - 1)])
<1> DEFINE start == Saturated(l.n)
           end   == Saturated(r.n)
           ns == {n \in MinInt .. MaxInt : start <= n /\ n <= end}
           size == Cardinality(ns)
           most == IF limit = NoLimit THEN MaxSize ELSE Min({MaxSize, limit})
           range == RangeOf(l, r, limit)
<1>1. start \in MinInt .. MaxInt /\ end \in MinInt .. MaxInt /\ (start # MinInt \/ end # MaxInt)
  BY Saturations DEF Spans
<1>2. range = Spanned(start, end, limit)
  BY DEF RangeOf, IsOperand, IsMissing, IsUndef, IsNum
<1>3. MaxSize \in Nat /\ MaxInt \in Nat /\ NoLimit = -1 /\ MinInt \in Int
  BY AlgorithmsAssumption DEF NoLimit, MinInt
<1> HIDE DEF start, end, range
<1>4. /\ size = RangeSize(start, end) /\ size \in Nat
      /\ start <= end => size = end - start + 1
      /\ ~ (start <= end) => size = 0
  BY <1>1, SizesTrue
<1> HIDE DEF ns
<1>5. most = IF limit = NoLimit THEN MaxSize ELSE IF MaxSize <= limit THEN MaxSize ELSE limit
  BY <1>3, LeastOfTwo
<1>6. range = IF size > MaxSize THEN Err("D2014")
              ELSE IF limit # NoLimit /\ size > limit THEN Err("D2015")
              ELSE Sequence([i \in 1 .. end - start + 1 |-> Num(start + i - 1)])
  BY <1>2, <1>4 DEF Spanned
<1> HIDE DEF most, size
<1>7. CASE size > most
  <2>1. size > MaxSize \/ (limit # NoLimit /\ size > limit)
    BY <1>3, <1>4, <1>5, <1>7
  <2>2. range \in {Err("D2014"), Err("D2015")}
    BY <1>6, <2>1
  <2>3. IsErr(range)
    BY <2>2 DEF IsErr, Err
  <2> QED
    BY <1>7, <2>3 DEF range, most, size, ns, start, end
<1>8. CASE ~ (size > most)
  <2>1. ~ (size > MaxSize) /\ ~ (limit # NoLimit /\ size > limit)
    BY <1>3, <1>4, <1>5, <1>8
  <2>2. 1 .. end - start + 1 = 1 .. size
    <3>1. CASE start <= end
      BY <1>4, <3>1
    <3>2. CASE ~ (start <= end)
      <4>1. start \in Int /\ end \in Int /\ end - start + 1 < 1
        BY <1>1, <1>3, <3>2
      <4>2. 1 .. end - start + 1 = {} /\ 1 .. size = {}
        BY <1>4, <3>2, <4>1
      <4> QED
        BY <4>2
    <3> QED
      BY <3>1, <3>2
  <2>3. range = Sequence([i \in 1 .. size |-> Num(start + i - 1)])
    BY <1>6, <2>1, <2>2
  <2> QED
    BY <1>8, <2>3 DEF range, most, size, ns, start, end
<1> QED
  BY <1>7, <1>8

(***************************************************************************)
(* Years, months and days.                                                 *)
(***************************************************************************)
LEMMA DivStep ==
  ASSUME NEW n \in Int
  PROVE  /\ n \div 4 = (n - 1) \div 4 + (IF n % 4 = 0 THEN 1 ELSE 0)
         /\ n \div 100 = (n - 1) \div 100 + (IF n % 100 = 0 THEN 1 ELSE 0)
         /\ n \div 400 = (n - 1) \div 400 + (IF n % 400 = 0 THEN 1 ELSE 0)
         /\ n % 100 = 0 => n % 4 = 0
         /\ n % 400 = 0 => n % 100 = 0
<1>1. n \div 4 = (n - 1) \div 4 + (IF n % 4 = 0 THEN 1 ELSE 0)
  OBVIOUS
<1>2. n \div 100 = (n - 1) \div 100 + (IF n % 100 = 0 THEN 1 ELSE 0)
  OBVIOUS
<1>3. n \div 400 = (n - 1) \div 400 + (IF n % 400 = 0 THEN 1 ELSE 0)
  OBVIOUS
<1>4. n % 100 = 0 => n % 4 = 0
  OBVIOUS
<1>5. n % 400 = 0 => n % 100 = 0
  OBVIOUS
<1> QED
  BY <1>1, <1>2, <1>3, <1>4, <1>5

LEMMA YearAfter ==
  ASSUME NEW y \in Int
  PROVE  /\ C!DaysBeforeYear(y) \in Int
         /\ C!DaysBeforeYear(y + 1) = C!DaysBeforeYear(y) + (IF C!IsLeap(y) THEN 366 ELSE 365)
  BY DivStep DEF C!DaysBeforeYear, C!IsLeap

LEMMA MonthLengths ==
  ASSUME NEW y \in Int, NEW m \in 1 .. 12
  PROVE  C!MonthLength(y, m) \in Int /\ C!MonthLength(y, m) >= 28 /\ C!MonthLength(y, m) <= 31
  BY DEF C!MonthLength

LEMMA MonthStarts ==
  ASSUME NEW y \in Int, NEW m \in 1 .. 12
  PROVE  C!DaysBeforeMonth(y, m) \in Int
  BY DEF C!DaysBeforeMonth

LEMMA MonthAfter ==
  ASSUME NEW y \in Int, NEW m \in 1 .. 11
  PROVE  C!DaysBeforeMonth(y, m + 1) = C!DaysBeforeMonth(y, m) + C!MonthLength(y, m)
  BY DEF C!DaysBeforeMonth, C!MonthLength

LEMMA YearEnds ==
  ASSUME NEW y \in Int
  PROVE  /\ C!DaysBeforeMonth(y, 1) = 0
         /\ C!DaysBeforeMonth(y, 12) + 31 = (IF C!IsLeap(y) THEN 366 ELSE 365)
         /\ C!MonthLength(y, 12) = 31
  BY DEF C!DaysBeforeMonth, C!MonthLength

LEMMA Weekdays ==
  ASSUME NEW day \in Int
  PROVE  /\ C!Weekday(day) \in 1 .. 7
         /\ (day - 1) \div 7 \in Int
         /\ day = 7 * ((day - 1) \div 7) + C!Weekday(day)
  BY DEF C!Weekday

First(y, m) == C!DayOf(C!Date(y, m, 1))

IsDateOf(date) == date.y \in Int /\ C!IsDate(date.y, date.m, date.d)

LEMMA Firsts ==
  ASSUME NEW y \in Int, NEW m \in 1 .. 12
  PROVE  /\ First(y, m) \in Int
         /\ First(y, m) = C!DaysBeforeYear(y) + C!DaysBeforeMonth(y, m) + 1
<1>1. C!DaysBeforeYear(y) \in Int
  BY YearAfter
<1>2. C!DaysBeforeMonth(y, m) \in Int
  BY MonthStarts
<1> QED
  BY <1>1, <1>2 DEF First, C!DayOf, C!DayOfYear, C!Date

LEMMA FirstAfter ==
  ASSUME NEW y \in Int, NEW m \in 1 .. 11
  PROVE  First(y, m + 1) = First(y, m) + C!MonthLength(y, m)
<1>1. m \in 1 .. 12 /\ m + 1 \in 1 .. 12
  OBVIOUS
<1>2. C!DaysBeforeYear(y) \in Int
  BY YearAfter
<1>3. C!DaysBeforeMonth(y, m) \in Int
  BY <1>1, MonthStarts
<1>4. C!DaysBeforeMonth(y, m + 1) = C!DaysBeforeMonth(y, m) + C!MonthLength(y, m)
  BY MonthAfter
<1>5. C!MonthLength(y, m) \in Int
  BY <1>1, MonthLengths
<1>6. First(y, m + 1) = C!DaysBeforeYear(y) + C!DaysBeforeMonth(y, m + 1) + 1
  BY <1>1, Firsts
<1>7. First(y, m) = C!DaysBeforeYear(y) + C!DaysBeforeMonth(y, m) + 1
  BY <1>1, Firsts
<1> QED
  BY <1>2, <1>3, <1>4, <1>5, <1>6, <1>7

LEMMA FirstOfYear ==
  ASSUME NEW y \in Int
  PROVE  /\ First(y, 1) = C!DaysBeforeYear(y) + 1
         /\ First(y + 1, 1) = First(y, 12) + C!MonthLength(y, 12)
         /\ First(y + 1, 1) = First(y, 1) + (IF C!IsLeap(y) THEN 366 ELSE 365)
<1>1. /\ C!DaysBeforeYear(y) \in Int
      /\ C!DaysBeforeYear(y + 1) = C!DaysBeforeYear(y) + (IF C!IsLeap(y) THEN 366 ELSE 365)
  BY YearAfter
<1>2. \A z \in Int : First(z, 1) = C!DaysBeforeYear(z) + 1
  <2> TAKE z \in Int
  <2>1. C!DaysBeforeYear(z) \in Int
    BY YearAfter
  <2>2. C!DaysBeforeMonth(z, 1) = 0
    BY YearEnds
  <2>3. First(z, 1) = C!DaysBeforeYear(z) + C!DaysBeforeMonth(z, 1) + 1
    BY Firsts
  <2> QED
    BY <2>1, <2>2, <2>3
<1>3. /\ C!DaysBeforeMonth(y, 12) + 31 = (IF C!IsLeap(y) THEN 366 ELSE 365)
      /\ C!MonthLength(y, 12) = 31
  BY YearEnds
<1>4. C!DaysBeforeMonth(y, 12) \in Int
  BY MonthStarts
<1>5. First(y, 12) = C!DaysBeforeYear(y) + C!DaysBeforeMonth(y, 12) + 1
  BY Firsts
<1> QED
  BY <1>1, <1>2, <1>3, <1>4, <1>5

LEMMA DatesPlace ==
  ASSUME NEW date, IsDateOf(date)
  PROVE  /\ date.y \in Int /\ date.m \in 1 .. 12 /\ date.d \in 1 .. C!MonthLength(date.y, date.m)
         /\ C!DayOf(date) \in Int
         /\ C!DayOf(date) = First(date.y, date.m) + date.d - 1
         /\ C!DayOf(date) = C!DaysBeforeYear(date.y) + C!DayOfYear(date)
         /\ C!DayOfYear(date) \in 1 .. (IF C!IsLeap(date.y) THEN 366 ELSE 365)
<1>1. date.y \in Int /\ date.m \in 1 .. 12 /\ date.d \in 1 .. C!MonthLength(date.y, date.m)
  BY DEF IsDateOf, C!IsDate
<1> DEFINE y == date.y  m == date.m  d == date.d
<1>2. /\ C!DayOf(date) = C!DaysBeforeYear(y) + C!DayOfYear(date)
      /\ C!DayOfYear(date) = C!DaysBeforeMonth(y, m) + d
  BY DEF C!DayOf, C!DayOfYear
<1> HIDE DEF y, m, d
<1>3. y \in Int /\ m \in 1 .. 12 /\ d \in 1 .. C!MonthLength(y, m)
  BY <1>1 DEF y, m, d
<1>4. First(y, m) = C!DaysBeforeYear(y) + C!DaysBeforeMonth(y, m) + 1
  BY <1>3, Firsts
<1>5. C!DaysBeforeYear(y) \in Int
  BY <1>3, YearAfter
<1>6. C!DaysBeforeMonth(y, m) \in Int
  BY <1>3, MonthStarts
<1>7. C!MonthLength(y, m) \in Int
  BY <1>3, MonthLengths
<1>8. C!DayOfYear(date) \in 1 .. (IF C!IsLeap(y) THEN 366 ELSE 365)
  <2>1. C!DaysBeforeMonth(y, m) + d \in 1 .. (IF C!IsLeap(y) THEN 366 ELSE 365)
    BY <1>3 DEF C!DaysBeforeMonth, C!MonthLength
  <2> QED
    BY <1>2, <2>1
<1>9. d \in Int
  BY <1>3, <1>7
<1>10. C!DayOf(date) \in Int /\ C!DayOf(date) = First(y, m) + d - 1
  BY <1>2, <1>4, <1>5, <1>6, <1>9
<1> QED
  BY <1>1, <1>2, <1>8, <1>10 DEF y, m, d

(***************************************************************************)
(* Weeks.  A week is its Thursday: both are counted from the first Thursday of *)
(* a year or a month.                                                      *)
(***************************************************************************)
LEMMA Sevens ==
  ASSUME NEW k \in Int, NEW r \in 0 .. 6
  PROVE  (7 * k + r) \div 7 = k
  OBVIOUS

\* Where the first week of a month begins: on the Monday nearest to its first.
LEMMA FirstWeeks ==
  ASSUME NEW y \in Int, NEW m \in 1 .. 12
  PROVE  \E k \in Int : /\ C!StartOfFirstWeek(y, m) = 7 * k + 1
                        /\ 7 * k + 1 \in First(y, m) - 3 .. First(y, m) + 3
<1> DEFINE f == First(y, m)
           w == C!Weekday(f)
           q == (f - 1) \div 7
<1>1. f \in Int
  BY Firsts
<1>2. w \in 1 .. 7 /\ q \in Int /\ f = 7 * q + w
  <2> HIDE DEF f
  <2> QED
    BY <1>1, Weekdays
<1>3. C!StartOfFirstWeek(y, m) = IF w > 4 THEN f + 8 - w ELSE f - (w - 1)
  BY DEF C!StartOfFirstWeek, First
<1> HIDE DEF f, w, q
<1>4. CASE w > 4
  <2>1. C!StartOfFirstWeek(y, m) = 7 * (q + 1) + 1 /\ 7 * (q + 1) + 1 \in f - 3 .. f + 3
    BY <1>1, <1>2, <1>3, <1>4
  <2> QED
    BY <1>2, <2>1 DEF f
<1>5. CASE ~ (w > 4)
  <2>1. C!StartOfFirstWeek(y, m) = 7 * q + 1 /\ 7 * q + 1 \in f - 3 .. f + 3
    BY <1>1, <1>2, <1>3, <1>5
  <2> QED
    BY <1>2, <2>1 DEF f
<1> QED
  BY <1>4, <1>5

\* The number of the Thursday of a day's week.
Thursday(day) == 7 * ((day - 1) \div 7) + 4

\* The weeks counted from the first week of a month that begins on day f are those of
\* the Thursdays counted from f.
LEMMA WeeksAreThursdays ==
  ASSUME NEW y \in Int, NEW m \in 1 .. 12, NEW day \in Int
  PROVE  LET f == First(y, m)
             s == C!StartOfFirstWeek(y, m)
         IN /\ s \in Int /\ s >= f - 3 /\ s <= f + 3
            /\ day >= s <=> Thursday(day) >= f
            /\ Thursday(day) >= f => C!DeltaWeeks(s, day) \div 7 = (Thursday(day) - f) \div 7 + 1
<1> DEFINE f == First(y, m)
           s == C!StartOfFirstWeek(y, m)
           q == (day - 1) \div 7
           w == C!Weekday(day)
<1>1. f \in Int
  BY Firsts
<1>2. w \in 1 .. 7 /\ q \in Int /\ day = 7 * q + w
  BY Weekdays
<1>3. PICK k \in Int : s = 7 * k + 1 /\ 7 * k + 1 \in f - 3 .. f + 3
  BY FirstWeeks
<1>4. Thursday(day) = 7 * q + 4
  BY DEF Thursday
<1> HIDE DEF f, s, q, w
<1>5. day >= s <=> q >= k
  BY <1>2, <1>3
<1>6. Thursday(day) >= f <=> q >= k
  BY <1>1, <1>2, <1>3, <1>4
<1>7. C!DeltaWeeks(s, day) = 7 * (q - k + 1) + (w - 1)
  BY <1>2, <1>3 DEF C!DeltaWeeks
<1>8. (7 * (q - k + 1) + (w - 1)) \div 7 = q - k + 1
  <2>1. q - k + 1 \in Int /\ w - 1 \in 0 .. 6
    BY <1>2, <1>3
  <2> QED
    BY <2>1, Sevens
<1>9. (Thursday(day) - f) \div 7 = q - k
  <2>1. Thursday(day) - f = 7 * (q - k) + (s + 3 - f) /\ s + 3 - f \in 0 .. 6 /\ q - k \in Int
    BY <1>1, <1>2, <1>3, <1>4
  <2> QED
    BY <2>1, Sevens
<1>10. C!DeltaWeeks(s, day) \div 7 = (Thursday(day) - f) \div 7 + 1
  BY <1>2, <1>3, <1>7, <1>8, <1>9
<1> QED
  BY <1>1, <1>3, <1>5, <1>6, <1>10 DEF f, s

LEMMA ThursdayNear ==
  ASSUME NEW day \in Int
  PROVE  /\ Thursday(day) \in Int
         /\ Thursday(day) = day + 4 - C!Weekday(day)
         /\ Thursday(day) <= day + 3 /\ Thursday(day) >= day - 3
<1>1. /\ C!Weekday(day) \in 1 .. 7 /\ (day - 1) \div 7 \in Int
      /\ day = 7 * ((day - 1) \div 7) + C!Weekday(day)
  BY Weekdays
<1> QED
  BY <1>1 DEF Thursday

LEMMA MonthNext ==
  ASSUME NEW y \in Int, NEW m \in 1 .. 12
  PROVE  LET next == C!NextMonth(y, m)
         IN  /\ next[1] \in Int /\ next[2] \in 1 .. 12
             /\ First(next[1], next[2]) = First(y, m) + C!MonthLength(y, m)
<1>1. CASE m = 12
  <2>1. C!NextMonth(y, m)[1] = y + 1 /\ C!NextMonth(y, m)[2] = 1
    BY <1>1 DEF C!NextMonth
  <2>2. First(y + 1, 1) = First(y, 12) + C!MonthLength(y, 12)
    BY FirstOfYear
  <2> QED
    BY <1>1, <2>1, <2>2
<1>2. CASE m # 12
  <2>1. C!NextMonth(y, m)[1] = y /\ C!NextMonth(y, m)[2] = m + 1
    BY <1>2 DEF C!NextMonth
  <2>2. m \in 1 .. 11
    BY <1>2
  <2>3. First(y, m + 1) = First(y, m) + C!MonthLength(y, m)
    BY <2>2, FirstAfter
  <2> QED
    BY <2>1, <2>2, <2>3
<1> QED
  BY <1>1, <1>2

LEMMA MonthPrev ==
  ASSUME NEW y \in Int, NEW m \in 1 .. 12
  PROVE  LET prev == C!PrevMonth(y, m)
         IN  /\ prev[1] \in Int /\ prev[2] \in 1 .. 12
             /\ First(y, m) = First(prev[1], prev[2]) + C!MonthLength(prev[1], prev[2])
<1>1. CASE m = 1
  <2>1. C!PrevMonth(y, m)[1] = y - 1 /\ C!PrevMonth(y, m)[2] = 12
    BY <1>1 DEF C!PrevMonth
  <2> DEFINE z == y - 1
  <2>2. z \in Int /\ z + 1 = y
    OBVIOUS
  <2> HIDE DEF z
  <2>3. First(z + 1, 1) = First(z, 12) + C!MonthLength(z, 12)
    BY <2>2, FirstOfYear
  <2> QED
    BY <1>1, <2>1, <2>2, <2>3 DEF z
<1>2. CASE m # 1
  <2>1. C!PrevMonth(y, m)[1] = y /\ C!PrevMonth(y, m)[2] = m - 1
    BY <1>2 DEF C!PrevMonth
  <2> DEFINE n == m - 1
  <2>2. n \in 1 .. 11 /\ n + 1 = m
    BY <1>2
  <2> HIDE DEF n
  <2>3. First(y, n + 1) = First(y, n) + C!MonthLength(y, n)
    BY <2>2, FirstAfter
  <2> QED
    BY <2>1, <2>2, <2>3 DEF n
<1> QED
  BY <1>1, <1>2

\* A day of a month is a date.
LEMMA DayInMonth ==
  ASSUME NEW y \in Int, NEW m \in 1 .. 12, NEW d \in 1 .. C!MonthLength(y, m)
  PROVE  /\ IsDateOf(C!Date(y, m, d))
         /\ C!DayOf(C!Date(y, m, d)) = First(y, m) + d - 1
         /\ C!Date(y, m, d).y = y /\ C!Date(y, m, d).m = m /\ C!Date(y, m, d).d = d
<1>1. C!Date(y, m, d).y = y /\ C!Date(y, m, d).m = m /\ C!Date(y, m, d).d = d
  BY DEF C!Date
<1>2. IsDateOf(C!Date(y, m, d))
  BY <1>1 DEF IsDateOf, C!IsDate
<1>3. C!DayOf(C!Date(y, m, d)) = First(C!Date(y, m, d).y, C!Date(y, m, d).m) + C!Date(y, m, d).d - 1
  BY <1>2, DatesPlace
<1> QED
  BY <1>1, <1>2, <1>3

\* The Thursday of a date's week is in its month, or in the one before or after.
LEMMA ThursdayIs ==
  ASSUME NEW date, IsDateOf(date)
  PROVE  LET t  == ThursdayOf(date)
             th == Thursday(C!DayOf(date))
             next == C!NextMonth(date.y, date.m)
             prev == C!PrevMonth(date.y, date.m)
         IN  /\ IsDateOf(t) /\ C!DayOf(t) = th
             /\ IF th < First(date.y, date.m) THEN t.y = prev[1] /\ t.m = prev[2]
                ELSE IF th >= First(next[1], next[2]) THEN t.y = next[1] /\ t.m = next[2]
                ELSE t.y = date.y /\ t.m = date.m
<1> DEFINE y == date.y  m == date.m
           day == C!DayOf(date)
           th == Thursday(day)
           d == date.d + 4 - C!Weekday(day)
           next == C!NextMonth(y, m)
           prev == C!PrevMonth(y, m)
           f == First(y, m)
           n == C!MonthLength(y, m)
           p == C!MonthLength(prev[1], prev[2])
           t == ThursdayOf(date)
<1>1. /\ y \in Int /\ m \in 1 .. 12 /\ date.d \in 1 .. n
      /\ day \in Int /\ day = f + date.d - 1
  BY DatesPlace
<1>2. t = IF d < 1 THEN C!Date(prev[1], prev[2], d + p)
          ELSE IF d > n THEN C!Date(next[1], next[2], d - n)
          ELSE C!Date(y, m, d)
  BY DEF ThursdayOf
<1> HIDE DEF t, n, p, f, next, prev, d, th, day, y, m
<1>3. C!Weekday(day) \in 1 .. 7
  BY <1>1, Weekdays
<1>4. th \in Int /\ th = day + 4 - C!Weekday(day)
  BY <1>1, ThursdayNear DEF th
<1>5. n \in Int /\ n >= 28 /\ n <= 31
  BY <1>1, MonthLengths DEF n
<1>6. f \in Int
  BY <1>1, Firsts DEF f
<1>7. d \in Int /\ d >= date.d - 3 /\ d <= date.d + 3 /\ th = f + d - 1 /\ date.d \in Int
  BY <1>1, <1>3, <1>4, <1>5, <1>6 DEF d
<1>8. /\ next[1] \in Int /\ next[2] \in 1 .. 12
      /\ First(next[1], next[2]) = f + n
  BY <1>1, MonthNext DEF next, f, n
<1>9. /\ prev[1] \in Int /\ prev[2] \in 1 .. 12
      /\ f = First(prev[1], prev[2]) + p
  BY <1>1, MonthPrev DEF prev, f, p
<1>10. p \in Int /\ p >= 28
  BY <1>9, MonthLengths DEF p
<1>11. CASE d < 1
  <2>1. d + p \in 1 .. C!MonthLength(prev[1], prev[2])
    BY <1>1, <1>5, <1>7, <1>10, <1>11 DEF p
  <2>2. /\ IsDateOf(t) /\ C!DayOf(t) = First(prev[1], prev[2]) + (d + p) - 1
        /\ t.y = prev[1] /\ t.m = prev[2]
    BY <1>2, <1>9, <1>11, <2>1, DayInMonth
  <2>3. First(prev[1], prev[2]) \in Int
    BY <1>9, Firsts
  <2>4. th < f /\ C!DayOf(t) = th
    BY <1>6, <1>7, <1>9, <1>10, <1>11, <2>2, <2>3
  <2> QED
    BY <2>2, <2>4 DEF t, th, day, prev, y, m, f
<1>12. CASE d > n
  <2>1. d - n \in 1 .. C!MonthLength(next[1], next[2])
    <3>1. C!MonthLength(next[1], next[2]) \in Int /\ C!MonthLength(next[1], next[2]) >= 28
      BY <1>8, MonthLengths
    <3> QED
      BY <1>1, <1>5, <1>7, <1>12, <3>1
  <2>2. ~ (d < 1)
    BY <1>5, <1>7, <1>12
  <2>3. /\ IsDateOf(t) /\ C!DayOf(t) = First(next[1], next[2]) + (d - n) - 1
        /\ t.y = next[1] /\ t.m = next[2]
    BY <1>2, <1>8, <1>12, <2>1, <2>2, DayInMonth
  <2>4. th >= First(next[1], next[2]) /\ ~ (th < f) /\ C!DayOf(t) = th
    BY <1>5, <1>6, <1>7, <1>8, <1>12, <2>3
  <2> QED
    BY <2>3, <2>4 DEF t, th, day, next, y, m, f
<1>13. CASE d >= 1 /\ d <= n
  <2>1. d \in 1 .. C!MonthLength(y, m)
    BY <1>5, <1>7, <1>13 DEF n
  <2>2. ~ (d < 1) /\ ~ (d > n)
    BY <1>5, <1>7, <1>13
  <2>3. /\ IsDateOf(t) /\ C!DayOf(t) = First(y, m) + d - 1 /\ t.y = y /\ t.m = m
    BY <1>1, <1>2, <2>1, <2>2, DayInMonth
  <2>4. ~ (th < f) /\ ~ (th >= First(next[1], next[2])) /\ C!DayOf(t) = th
    BY <1>5, <1>6, <1>7, <1>8, <1>13, <2>3 DEF f
  <2> QED
    BY <2>3, <2>4 DEF t, th, day, next, prev, y, m, f
<1> QED
  BY <1>5, <1>7, <1>11, <1>12, <1>13

\* The week of a day in a period, a year or a month, between two others: the three
\* begin on the days f, f0 and f1, and `most` is what the code takes for its last week.
Between(py, pm, y, m, ny, nm, most, day) ==
  /\ First(py, pm) + 28 <= First(y, m)
  /\ First(y, m) + most <= First(ny, nm) /\ First(y, m) + 28 <= First(ny, nm)
  /\ First(y, m) <= day /\ day < First(ny, nm)

CountedByThursdays(py, pm, y, m, ny, nm, most, day) ==
  LET f0 == First(py, pm)  f == First(y, m)  f1 == First(ny, nm)
      s0 == C!StartOfFirstWeek(py, pm)
      s  == C!StartOfFirstWeek(y, m)
      s1 == C!StartOfFirstWeek(ny, nm)
      week == C!DeltaWeeks(s, day)
      th == Thursday(day)
  IN  /\ s \in Int /\ s1 \in Int
      /\ day < s <=> th < f
      /\ day >= s1 <=> th >= f1
      /\ (IF week > most /\ day >= s1 THEN 7
          ELSE IF week < 7 THEN C!DeltaWeeks(s0, day) ELSE week) \div 7
           = (th - (IF th < f THEN f0 ELSE IF th >= f1 THEN f1 ELSE f)) \div 7 + 1

LEMMA WeekOfPeriod ==
  ASSUME NEW y \in Int, NEW m \in 1 .. 12, NEW py \in Int, NEW pm \in 1 .. 12,
         NEW ny \in Int, NEW nm \in 1 .. 12, NEW most \in Nat, NEW day \in Int,
         Between(py, pm, y, m, ny, nm, most, day)
  PROVE  CountedByThursdays(py, pm, y, m, ny, nm, most, day)
<1> DEFINE f0 == First(py, pm)  f == First(y, m)  f1 == First(ny, nm)
           s0 == C!StartOfFirstWeek(py, pm)
           s  == C!StartOfFirstWeek(y, m)
           s1 == C!StartOfFirstWeek(ny, nm)
           week == C!DeltaWeeks(s, day)
           th == Thursday(day)
           Counted == (IF week > most /\ day >= s1 THEN 7
                       ELSE IF week < 7 THEN C!DeltaWeeks(s0, day) ELSE week) \div 7
                        = (th - (IF th < f THEN f0 ELSE IF th >= f1 THEN f1 ELSE f)) \div 7 + 1
<1>1. f0 \in Int /\ f \in Int /\ f1 \in Int
  BY Firsts
<1>2. th \in Int /\ th <= day + 3 /\ th >= day - 3
  BY ThursdayNear
<1>3. /\ s \in Int /\ s >= f - 3 /\ s <= f + 3
      /\ day >= s <=> th >= f
      /\ th >= f => C!DeltaWeeks(s, day) \div 7 = (th - f) \div 7 + 1
  BY <1>1, WeeksAreThursdays
<1>4. /\ s1 \in Int /\ s1 >= f1 - 3 /\ s1 <= f1 + 3
      /\ day >= s1 <=> th >= f1
      /\ th >= f1 => C!DeltaWeeks(s1, day) \div 7 = (th - f1) \div 7 + 1
  BY <1>1, WeeksAreThursdays
<1>5. th >= f0 => C!DeltaWeeks(s0, day) \div 7 = (th - f0) \div 7 + 1
  BY <1>1, WeeksAreThursdays
<1>6. f0 + 28 <= f /\ f + most <= f1 /\ f + 28 <= f1 /\ f <= day /\ day < f1
  BY DEF Between
<1>7. week = day - s + 7
  BY DEF C!DeltaWeeks
<1>8. C!DeltaWeeks(s1, day) = day - s1 + 7
  BY DEF C!DeltaWeeks
<1> HIDE DEF f0, f, f1, s0, s, s1, th
<1>9. ASSUME th < f PROVE Counted
  <2>1. week < 7 /\ ~ (day >= s1) /\ ~ (th >= f1)
    BY <1>1, <1>2, <1>3, <1>4, <1>6, <1>7, <1>9
  <2>2. th >= f0
    BY <1>1, <1>2, <1>6
  <2> QED
    BY <1>1, <1>2, <1>3, <1>4, <1>5, <1>9, <2>1, <2>2
<1>10. ASSUME th >= f1 PROVE Counted
  <2>1. ~ (th < f) /\ day >= s1
    BY <1>1, <1>2, <1>4, <1>6, <1>10
  <2>2. week > most
    BY <1>1, <1>3, <1>4, <1>6, <1>7, <2>1
  <2>3. C!DeltaWeeks(s1, day) \in 7 .. 13
    BY <1>1, <1>4, <1>6, <1>8, <2>1
  <2>4. 7 \div 7 = (th - f1) \div 7 + 1
    <3>1. \A n \in 7 .. 13 : n \div 7 = 1
      OBVIOUS
    <3> QED
      BY <1>4, <1>10, <2>3, <3>1
  <2> QED
    BY <1>1, <1>2, <1>3, <1>4, <1>10, <2>1, <2>2, <2>4
<1>11. ASSUME th >= f, th < f1 PROVE Counted
  <2>1. ~ (week < 7) /\ ~ (day >= s1) /\ ~ (th < f) /\ ~ (th >= f1)
    BY <1>1, <1>2, <1>3, <1>4, <1>7, <1>11
  <2> QED
    BY <1>1, <1>2, <1>3, <1>4, <1>11, <2>1
<1>12. Counted
  BY <1>1, <1>2, <1>9, <1>10, <1>11
<1>13. day < s <=> th < f
  BY <1>1, <1>2, <1>3
<1> QED
  BY <1>3, <1>4, <1>12, <1>13 DEF f0, f, f1, s0, s, s1, th, CountedByThursdays

LEMMA InYear ==
  ASSUME NEW date, IsDateOf(date)
  PROVE  /\ First(date.y, 1) \in Int /\ First(date.y + 1, 1) \in Int
         /\ C!DayOf(date) >= First(date.y, 1) /\ C!DayOf(date) < First(date.y + 1, 1)
         /\ C!DayOfYear(date) = C!DayOf(date) - First(date.y, 1) + 1
         /\ First(date.y, 1) + 365 <= First(date.y + 1, 1)
<1> DEFINE y == date.y
           n == IF C!IsLeap(y) THEN 366 ELSE 365
<1>1. /\ y \in Int /\ C!DayOf(date) = C!DaysBeforeYear(y) + C!DayOfYear(date)
      /\ C!DayOfYear(date) \in 1 .. n
  BY DatesPlace
<1>2. n \in {365, 366}
  OBVIOUS
<1> HIDE DEF y, n
<1>3. First(y, 1) = C!DaysBeforeYear(y) + 1 /\ First(y + 1, 1) = First(y, 1) + n
  BY <1>1, FirstOfYear DEF n
<1>4. C!DaysBeforeYear(y) \in Int
  BY <1>1, YearAfter
<1> QED
  BY <1>1, <1>2, <1>3, <1>4 DEF y

LEMMA ThursdayYear ==
  ASSUME NEW date, IsDateOf(date)
  PROVE  LET th == Thursday(C!DayOf(date))
         IN ThursdayOf(date).y = (IF th < First(date.y, 1) THEN date.y - 1
                                  ELSE IF th >= First(date.y + 1, 1) THEN date.y + 1 ELSE date.y)
<1> DEFINE y == date.y  t == ThursdayOf(date)  th == Thursday(C!DayOf(date))
<1>1. y \in Int /\ date.m \in 1 .. 12
  BY DatesPlace
<1>2. IsDateOf(t) /\ C!DayOf(t) = th
  BY ThursdayIs
<1>3. t.y \in {y - 1, y, y + 1}
  <2>1. C!NextMonth(y, date.m)[1] \in {y, y + 1} /\ C!PrevMonth(y, date.m)[1] \in {y, y - 1}
    BY DEF C!NextMonth, C!PrevMonth
  <2>2. t.y \in {C!NextMonth(y, date.m)[1], C!PrevMonth(y, date.m)[1], y}
    BY ThursdayIs
  <2> QED
    BY <2>1, <2>2
<1>4. /\ First(y, 1) \in Int /\ First(y + 1, 1) \in Int /\ First(y, 1) + 365 <= First(y + 1, 1)
  BY InYear
<1> HIDE DEF t, th, y
<1>5. /\ First(t.y, 1) \in Int /\ First(t.y + 1, 1) \in Int
      /\ th >= First(t.y, 1) /\ th < First(t.y + 1, 1)
  BY <1>2, InYear
<1>6. th \in Int
  BY <1>2, DatesPlace
<1>7. CASE t.y = y - 1
  <2>1. t.y + 1 = y
    BY <1>1, <1>7
  <2>2. th < First(y, 1)
    BY <1>5, <2>1
  <2> QED
    BY <1>7, <2>2 DEF t, th, y
<1>8. CASE t.y = y
  <2>1. ~ (th < First(y, 1)) /\ ~ (th >= First(y + 1, 1))
    BY <1>4, <1>5, <1>6, <1>8
  <2> QED
    BY <1>8, <2>1 DEF t, th, y
<1>9. CASE t.y = y + 1
  <2>1. th >= First(y + 1, 1) /\ ~ (th < First(y, 1))
    BY <1>4, <1>5, <1>6, <1>9
  <2> QED
    BY <1>9, <2>1 DEF t, th, y
<1> QED
  BY <1>3, <1>7, <1>8, <1>9

LEMMA WeekOfYear ==
  ASSUME NEW date, IsDateOf(date)
  PROVE  /\ C!WeekInYear(date) = (C!DayOfYear(ThursdayOf(date)) - 1) \div 7 + 1
         /\ C!IsoWeekYear(date) = ThursdayOf(date).y
<1> DEFINE y == date.y  t == ThursdayOf(date)  day == C!DayOf(date)  th == Thursday(day)
           py == y - 1  ny == y + 1
           f0 == First(py, 1)  f == First(y, 1)  f1 == First(ny, 1)
           s0 == C!StartOfFirstWeek(py, 1)
           s  == C!StartOfFirstWeek(y, 1)
           s1 == C!StartOfFirstWeek(ny, 1)
           week == C!DeltaWeeks(s, day)
<1>1. y \in Int /\ day \in Int /\ py \in Int /\ ny \in Int /\ 1 \in 1 .. 12 /\ 364 \in Nat
  BY DatesPlace
<1>2. f0 \in Int /\ f \in Int /\ f1 \in Int
  BY <1>1, Firsts
<1>3. f <= day /\ day < f1 /\ f + 365 <= f1
  BY InYear
<1>4. f0 + 365 <= f
  <2>1. py + 1 = y
    BY <1>1
  <2> HIDE DEF py, y
  <2>2. First(py + 1, 1) = First(py, 1) + (IF C!IsLeap(py) THEN 366 ELSE 365)
    BY <1>1, FirstOfYear
  <2> QED
    BY <1>2, <2>1, <2>2
<1>5. f0 + 28 <= f /\ f + 364 <= f1 /\ f + 28 <= f1
  <2> HIDE DEF f0, f, f1
  <2> QED
    BY <1>2, <1>3, <1>4
<1>6. /\ s \in Int /\ s1 \in Int
      /\ day < s <=> th < f
      /\ day >= s1 <=> th >= f1
      /\ (IF week > 364 /\ day >= s1 THEN 7
          ELSE IF week < 7 THEN C!DeltaWeeks(s0, day) ELSE week) \div 7
           = (th - (IF th < f THEN f0 ELSE IF th >= f1 THEN f1 ELSE f)) \div 7 + 1
  <2>1. Between(py, 1, y, 1, ny, 1, 364, day)
    BY <1>3, <1>5 DEF Between
  <2>2. CountedByThursdays(py, 1, y, 1, ny, 1, 364, day)
    <3> HIDE DEF y, py, ny, day
    <3> QED
      BY <1>1, <2>1, WeekOfPeriod
  <2> QED
    BY <2>2 DEF CountedByThursdays
<1>7. t.y = IF th < f THEN py ELSE IF th >= f1 THEN ny ELSE y
  BY ThursdayYear
<1>8. C!WeekInYear(date) = (IF week > 364 /\ day >= s1 THEN 7
          ELSE IF week < 7 THEN C!DeltaWeeks(s0, day) ELSE week) \div 7
  BY DEF C!WeekInYear
<1>9. C!IsoWeekYear(date) = IF day < s THEN py ELSE IF day >= s1 THEN ny ELSE y
  BY DEF C!IsoWeekYear
<1>10. IsDateOf(t) /\ C!DayOf(t) = th
  BY ThursdayIs
<1> HIDE DEF t, th
<1>11. C!DayOfYear(t) = th - First(t.y, 1) + 1
  BY <1>10, InYear
<1>12. th \in Int
  BY <1>10, DatesPlace
<1> HIDE DEF day, py, ny, f0, f, f1, s0, s, s1, week, y
<1>13. First(t.y, 1) = IF th < f THEN f0 ELSE IF th >= f1 THEN f1 ELSE f
  BY <1>7 DEF f0, f, f1
<1>14. First(t.y, 1) \in Int
  BY <1>2, <1>13
<1>15. C!DayOfYear(t) - 1 = th - First(t.y, 1)
  BY <1>11, <1>12, <1>14
<1>16. C!WeekInYear(date) = (C!DayOfYear(t) - 1) \div 7 + 1
  BY <1>6, <1>8, <1>13, <1>15
<1>17. C!IsoWeekYear(date) = t.y
  BY <1>6, <1>7, <1>9
<1> QED
  BY <1>16, <1>17 DEF t

LEMMA WeekOfMonth ==
  ASSUME NEW date, IsDateOf(date)
  PROVE  /\ C!WeekInMonth(date) = (ThursdayOf(date).d - 1) \div 7 + 1
         /\ C!IsoWeekMonth(date) = ThursdayOf(date).m
<1> DEFINE y == date.y  m == date.m  t == ThursdayOf(date)  day == C!DayOf(date)  th == Thursday(day)
           prev == C!PrevMonth(y, m)
           next == C!NextMonth(y, m)
           f0 == First(prev[1], prev[2])  f == First(y, m)  f1 == First(next[1], next[2])
           s0 == C!StartOfFirstWeek(prev[1], prev[2])
           s  == C!StartOfFirstWeek(y, m)
           s1 == C!StartOfFirstWeek(next[1], next[2])
           week == C!DeltaWeeks(s, day)
<1>1. /\ y \in Int /\ m \in 1 .. 12 /\ date.d \in 1 .. C!MonthLength(y, m)
      /\ day \in Int /\ day = f + date.d - 1
  BY DatesPlace
<1>2. IsDateOf(t) /\ C!DayOf(t) = th
  BY ThursdayIs
<1>3. IF th < f THEN t.y = prev[1] /\ t.m = prev[2]
      ELSE IF th >= f1 THEN t.y = next[1] /\ t.m = next[2]
      ELSE t.y = y /\ t.m = m
  BY ThursdayIs
<1>4. C!WeekInMonth(date) = (IF week > 28 /\ day >= s1 THEN 7
          ELSE IF week < 7 THEN C!DeltaWeeks(s0, day) ELSE week) \div 7
  BY DEF C!WeekInMonth
<1>5. C!IsoWeekMonth(date) = IF day < s THEN prev[2] ELSE IF day >= s1 THEN next[2] ELSE m
  BY DEF C!IsoWeekMonth
<1> HIDE DEF y, m, day, t, prev, next
<1>6. /\ next[1] \in Int /\ next[2] \in 1 .. 12 /\ f1 = f + C!MonthLength(y, m)
  BY <1>1, MonthNext DEF next
<1>7. /\ prev[1] \in Int /\ prev[2] \in 1 .. 12 /\ f = f0 + C!MonthLength(prev[1], prev[2])
  BY <1>1, MonthPrev DEF prev
<1>8. C!MonthLength(y, m) \in Int /\ C!MonthLength(y, m) >= 28
  BY <1>1, MonthLengths
<1>9. C!MonthLength(prev[1], prev[2]) \in Int /\ C!MonthLength(prev[1], prev[2]) >= 28
  BY <1>7, MonthLengths
<1>10. f0 \in Int /\ f \in Int /\ f1 \in Int
  BY <1>1, <1>6, <1>7, Firsts
<1>11. f0 + 28 <= f /\ f + 28 <= f1 /\ f <= day /\ day < f1
  <2> HIDE DEF f0, f, f1
  <2> QED
    BY <1>1, <1>6, <1>7, <1>8, <1>9, <1>10
<1>12. /\ s \in Int /\ s1 \in Int
       /\ day < s <=> th < f
       /\ day >= s1 <=> th >= f1
       /\ (IF week > 28 /\ day >= s1 THEN 7
           ELSE IF week < 7 THEN C!DeltaWeeks(s0, day) ELSE week) \div 7
            = (th - (IF th < f THEN f0 ELSE IF th >= f1 THEN f1 ELSE f)) \div 7 + 1
  <2>1. Between(prev[1], prev[2], y, m, next[1], next[2], 28, day)
    BY <1>11 DEF Between
  <2>2. CountedByThursdays(prev[1], prev[2], y, m, next[1], next[2], 28, day)
    BY <1>1, <1>6, <1>7, <2>1, WeekOfPeriod
  <2> QED
    BY <2>2 DEF CountedByThursdays
<1> HIDE DEF th
<1>13. th \in Int /\ th = First(t.y, t.m) + t.d - 1 /\ t.d \in 1 .. C!MonthLength(t.y, t.m) /\ t.y \in Int /\ t.m \in 1 .. 12
  BY <1>2, DatesPlace
<1>14. First(t.y, t.m) = IF th < f THEN f0 ELSE IF th >= f1 THEN f1 ELSE f
  BY <1>3
<1> HIDE DEF f0, f, f1, s0, s, s1, week
<1>15. First(t.y, t.m) \in Int /\ C!MonthLength(t.y, t.m) \in Int
  <2>1. First(t.y, t.m) \in Int
    BY <1>13, Firsts
  <2>2. C!MonthLength(t.y, t.m) \in Int
    BY <1>13, MonthLengths
  <2> QED
    BY <2>1, <2>2
<1>16. t.d - 1 = th - First(t.y, t.m)
  BY <1>13, <1>15
<1>17. C!WeekInMonth(date) = (t.d - 1) \div 7 + 1
  BY <1>4, <1>12, <1>14, <1>16
<1>18. C!IsoWeekMonth(date) = t.m
  BY <1>3, <1>5, <1>12
<1> QED
  BY <1>17, <1>18 DEF t

(***************************************************************************)
(* Moments.                                                                *)
(***************************************************************************)
LEMMA Fragments ==
  ASSUME NEW t
  PROVE  /\ C!Fragment(t, "Y") = t.date.y /\ C!Fragment(t, "M") = t.date.m /\ C!Fragment(t, "D") = t.date.d
         /\ C!Fragment(t, "d") = C!DayOfYear(t.date)
         /\ C!Fragment(t, "H") = t.H /\ C!Fragment(t, "h") = C!HalfDayHour(t.H)
         /\ C!Fragment(t, "P") = (IF t.H >= 12 THEN 1 ELSE 0)
         /\ C!Fragment(t, "m") = t.mi /\ C!Fragment(t, "s") = t.s
<1>1. C!Fragment(t, "Y") = t.date.y /\ C!Fragment(t, "M") = t.date.m /\ C!Fragment(t, "D") = t.date.d
  BY DEF C!Fragment
<1>2. C!Fragment(t, "d") = C!DayOfYear(t.date)
  BY DEF C!Fragment
<1>3. C!Fragment(t, "H") = t.H /\ C!Fragment(t, "h") = C!HalfDayHour(t.H)
  BY DEF C!Fragment
<1>4. C!Fragment(t, "P") = (IF t.H >= 12 THEN 1 ELSE 0)
  BY DEF C!Fragment
<1>5. C!Fragment(t, "m") = t.mi /\ C!Fragment(t, "s") = t.s
  BY DEF C!Fragment
<1> QED
  BY <1>1, <1>2, <1>3, <1>4, <1>5

LEMMA Coarsers ==
  /\ C!Coarser("Y") = {} /\ C!Coarser("M") = {"Y"} /\ C!Coarser("D") = {"Y", "M"}
  /\ C!Coarser("P") = {"Y", "M", "D"} /\ C!Coarser("H") = {"Y", "M", "D"}
  /\ C!Coarser("h") = {"Y", "M", "D", "P"}
  /\ C!Coarser("m") = {"Y", "M", "D", "P", "h", "H"}
  /\ C!Coarser("s") = {"Y", "M", "D", "P", "h", "H", "m"}
  BY DEF C!Coarser

LEMMA Halves ==
  ASSUME NEW h \in 0 .. 12, NEW half \in {0, 1}
  PROVE  /\ h # 0 => C!HalfDayHour(C!HourOf(h, half)) = h
         /\ C!HourOf(h, half) >= 12 <=> half = 1
  BY DEF C!HalfDayHour, C!HourOf

LEMMA HalfDayType ==
  ASSUME NEW H \in 0 .. 23
  PROVE  C!HalfDayHour(H) \in 1 .. 12
  BY DEF C!HalfDayHour

\* A day of the year is read as the date that is that day.
LEMMA DayOfYearRead ==
  ASSUME NEW date, IsDateOf(date)
  PROVE  LET r == C!DateOfYearDay(date.y, C!DayOfYear(date))
         IN  r.y = date.y /\ C!DayOfYear(r) = C!DayOfYear(date)
<1> DEFINE y == date.y  m == date.m  n == C!DayOfYear(date)
           day == C!DaysBeforeYear(y) + n
           Fits(k) == day - C!DaysBeforeYear(y) - C!DaysBeforeMonth(y, k) \in 1 .. C!MonthLength(y, k)
           month == CHOOSE k \in 1 .. 12 : Fits(k)
           r == C!DateOfYearDay(y, n)
           long == IF C!IsLeap(y) THEN 366 ELSE 365
<1>1. /\ y \in Int /\ m \in 1 .. 12 /\ date.d \in 1 .. C!MonthLength(y, m)
      /\ n \in 1 .. long /\ n = C!DaysBeforeMonth(y, m) + date.d
  BY DatesPlace DEF C!DayOfYear
<1>2. /\ C!DaysBeforeYear(y) \in Int /\ C!DaysBeforeYear(y + 1) = C!DaysBeforeYear(y) + long
  BY <1>1, YearAfter
<1>3. long \in {365, 366}
  OBVIOUS
<1>4. C!DaysBeforeMonth(y, m) \in Int
  BY <1>1, MonthStarts
<1>5. C!MonthLength(y, m) \in Int
  BY <1>1, MonthLengths
<1>6. r = LET year == IF n > C!DaysBeforeYear(y + 1) - C!DaysBeforeYear(y) THEN y + 1 ELSE y
              k == CHOOSE i \in 1 .. 12 :
                 day - C!DaysBeforeYear(year) - C!DaysBeforeMonth(year, i) \in 1 .. C!MonthLength(year, i)
          IN C!Date(year, k, day - C!DaysBeforeYear(year) - C!DaysBeforeMonth(year, k))
  BY DEF C!DateOfYearDay
<1>7. ~ (n > C!DaysBeforeYear(y + 1) - C!DaysBeforeYear(y))
  <2> HIDE DEF n, long, y
  <2> QED
    BY <1>1, <1>2, <1>3
<1>8. r = C!Date(y, month, day - C!DaysBeforeYear(y) - C!DaysBeforeMonth(y, month))
  BY <1>6, <1>7
<1>9. Fits(m)
  <2> HIDE DEF n, long, y, m
  <2> QED
    BY <1>1, <1>2, <1>3, <1>4, <1>5
<1>10. month \in 1 .. 12
  <2> HIDE DEF Fits
  <2> QED
    BY <1>1, <1>9
<1>11. C!DaysBeforeMonth(y, month) \in Int
  <2> HIDE DEF month
  <2> QED
    BY <1>1, <1>10, MonthStarts
<1> HIDE DEF month, r
<1>12. r.y = y /\ C!DayOfYear(r) = C!DaysBeforeMonth(y, month) + (day - C!DaysBeforeYear(y) - C!DaysBeforeMonth(y, month))
  BY <1>8 DEF C!DayOfYear, C!Date
<1>13. n \in Int
  <2> HIDE DEF n, long
  <2> QED
    BY <1>1, <1>3
<1> HIDE DEF y, n
<1>14. C!DayOfYear(r) = n
  BY <1>2, <1>11, <1>12, <1>13
<1> QED
  BY <1>12, <1>14 DEF r, y, n

IsPicture(cs) ==
  /\ cs # {}
  /\ \E d \in (SUBSET {"Y", "M", "D"}) \cup {{"Y", "d"}},
        t \in (SUBSET {"P", "h", "m", "s"}) \cup (SUBSET {"H", "m", "s"}) : cs = d \cup t

LEMMA PicturesAre ==
  ASSUME NEW cs, IsPicture(cs)
  PROVE  /\ cs \subseteq {"Y", "M", "D", "d", "P", "h", "H", "m", "s"}
         /\ "d" \in cs => "Y" \in cs /\ "M" \notin cs /\ "D" \notin cs
         /\ "P" \in cs \/ "h" \in cs => "H" \notin cs
<1>1. PICK d \in (SUBSET {"Y", "M", "D"}) \cup {{"Y", "d"}},
           t \in (SUBSET {"P", "h", "m", "s"}) \cup (SUBSET {"H", "m", "s"}) : cs = d \cup t
  BY DEF IsPicture
<1>2. \/ d \subseteq {"Y", "M", "D"}
      \/ d = {"Y", "d"}
  BY <1>1
<1>3. \/ t \subseteq {"P", "h", "m", "s"}
      \/ t \subseteq {"H", "m", "s"}
  BY <1>1
<1>4. cs \subseteq {"Y", "M", "D", "d", "P", "h", "H", "m", "s"}
  BY <1>1, <1>2, <1>3
<1>5. "d" \in cs => "Y" \in cs /\ "M" \notin cs /\ "D" \notin cs
  BY <1>1, <1>2, <1>3
<1>6. "P" \in cs \/ "h" \in cs => "H" \notin cs
  BY <1>1, <1>2, <1>3
<1> QED
  BY <1>4, <1>5, <1>6

LEMMA DateKind ==
  ASSUME NEW cs, IsPicture(cs)
  PROVE  LET dates == cs \cap {"Y", "X", "M", "x", "W", "w", "d", "D"}
         IN  /\ (~ C!IsType({"Y", "M", "D"}, dates) /\ C!IsType({"Y", "d"}, dates)) <=> "d" \in cs
             /\ ~ C!IsType({"X", "x", "w"}, dates) /\ ~ C!IsType({"X", "W"}, dates)
<1> DEFINE dates == cs \cap {"Y", "X", "M", "x", "W", "w", "d", "D"}
<1>1. /\ cs \subseteq {"Y", "M", "D", "d", "P", "h", "H", "m", "s"}
      /\ "d" \in cs => "Y" \in cs /\ "M" \notin cs /\ "D" \notin cs
  BY PicturesAre
<1>2. "d" \in cs => dates = {"Y", "d"}
  BY <1>1
<1>3. "d" \notin cs => dates \subseteq {"Y", "M", "D"}
  BY <1>1
<1>4. dates \cap {"X", "x", "w", "W"} = {}
  BY <1>1
<1> HIDE DEF dates
<1>5. "d" \in cs => ~ C!IsType({"Y", "M", "D"}, dates) /\ C!IsType({"Y", "d"}, dates)
  BY <1>2 DEF C!IsType
<1>6. "d" \notin cs => C!IsType({"Y", "M", "D"}, dates) \/ dates = {}
  BY <1>3 DEF C!IsType
<1>7. C!IsType({"Y", "d"}, dates) => dates # {}
  BY DEF C!IsType
<1>8. ~ C!IsType({"X", "x", "w"}, dates) /\ ~ C!IsType({"X", "W"}, dates)
  BY <1>4 DEF C!IsType
<1> QED
  BY <1>5, <1>6, <1>7, <1>8 DEF dates

LEMMA TimeKind ==
  ASSUME NEW cs, IsPicture(cs)
  PROVE  LET times == cs \cap {"P", "H", "h", "m", "s"}
         IN  (~ C!IsType({"H", "m", "s"}, times) /\ C!IsType({"P", "h", "m", "s"}, times))
               <=> "P" \in cs \/ "h" \in cs
<1> DEFINE times == cs \cap {"P", "H", "h", "m", "s"}
<1>1. /\ cs \subseteq {"Y", "M", "D", "d", "P", "h", "H", "m", "s"}
      /\ "P" \in cs \/ "h" \in cs => "H" \notin cs
  BY PicturesAre
<1>2. ASSUME "P" \in cs \/ "h" \in cs
      PROVE  ~ C!IsType({"H", "m", "s"}, times) /\ C!IsType({"P", "h", "m", "s"}, times)
  <2>1. times \subseteq {"P", "h", "m", "s"} /\ ("P" \in times \/ "h" \in times)
    BY <1>1, <1>2
  <2> HIDE DEF times
  <2>2. times # {} /\ ~ (times \subseteq {"H", "m", "s"})
    BY <2>1
  <2> QED
    BY <2>1, <2>2 DEF C!IsType
<1>3. ASSUME ~ ("P" \in cs \/ "h" \in cs)
      PROVE  C!IsType({"H", "m", "s"}, times) \/ ~ C!IsType({"P", "h", "m", "s"}, times)
  <2>1. times \subseteq {"H", "m", "s"}
    BY <1>1, <1>3
  <2> QED
    BY <2>1 DEF C!IsType
<1> QED
  BY <1>2, <1>3

LEMMA Walks ==
  ASSUME NEW g, NEW cs, cs = DOMAIN g, IsPicture(cs), NEW now
  PROVE  \E walked, yearDay, halfDay :
           /\ C!ParseDateTime(g, now) = C!MomentOf(g, walked, now, yearDay, halfDay)
           /\ yearDay <=> "d" \in cs
           /\ halfDay <=> "P" \in cs \/ "h" \in cs
           /\ yearDay \in BOOLEAN /\ halfDay \in BOOLEAN
           /\ cs \ {"d"} \subseteq walked
<1> DEFINE dates == cs \cap {"Y", "X", "M", "x", "W", "w", "d", "D"}
           times == cs \cap {"P", "H", "h", "m", "s"}
           dateB == ~ C!IsType({"Y", "M", "D"}, dates) /\ C!IsType({"Y", "d"}, dates)
           timeB == ~ C!IsType({"H", "m", "s"}, times) /\ C!IsType({"P", "h", "m", "s"}, times)
           weeks == C!IsType({"X", "x", "w"}, dates) \/ C!IsType({"X", "W"}, dates)
           walked == (IF dateB THEN {"Y", "D"} ELSE {"Y", "M", "D"})
                       \cup (IF timeB THEN {"P", "h", "m", "s"} ELSE {"H", "m", "s"})
<1>1. dateB <=> "d" \in cs
  BY DateKind
<1>2. timeB <=> "P" \in cs \/ "h" \in cs
  BY TimeKind
<1>3. ~ weeks
  BY DateKind
<1>4. dateB \in BOOLEAN /\ timeB \in BOOLEAN
  OBVIOUS
<1>5. C!ParseDateTime(g, now) = IF weeks THEN C!Inconsistent ELSE C!MomentOf(g, walked, now, dateB, timeB)
  BY DEF C!ParseDateTime
<1> HIDE DEF dateB, timeB, weeks
<1>6. cs \ {"d"} \subseteq walked
  <2>1. /\ cs \subseteq {"Y", "M", "D", "d", "P", "h", "H", "m", "s"}
        /\ "d" \in cs => "M" \notin cs
        /\ "P" \in cs \/ "h" \in cs => "H" \notin cs
    BY PicturesAre
  <2> QED
    BY <1>1, <1>2, <2>1
<1> HIDE DEF walked
<1> QED
  BY <1>1, <1>2, <1>3, <1>4, <1>5, <1>6

LEMMA PlacesAre ==
  ASSUME NEW cs
  PROVE  LET ps == PlacesOf(cs)
         IN  /\ ("Y" \in cs => 1 \in ps) /\ ("M" \in cs => 2 \in ps) /\ ("D" \in cs => 3 \in ps)
             /\ ("d" \in cs => 2 \in ps /\ 3 \in ps)
             /\ ("P" \in cs \/ "h" \in cs \/ "H" \in cs => 4 \in ps)
             /\ ("m" \in cs => 5 \in ps)
             /\ ("s" \in cs => 6 \in ps)
<1> DEFINE Of(c) == CASE c = "d" -> {2, 3} [] c \in {"P", "h"} -> {4}
                      [] OTHER -> {i \in DOMAIN Coarsest : Coarsest[i] = c}
<1>1. PlacesOf(cs) = UNION {Of(c) : c \in cs}
  BY DEF PlacesOf
<1>2. DOMAIN Coarsest = 1 .. 6 /\ Coarsest[1] = "Y" /\ Coarsest[2] = "M" /\ Coarsest[3] = "D"
      /\ Coarsest[4] = "H" /\ Coarsest[5] = "m" /\ Coarsest[6] = "s"
  BY DEF Coarsest
<1>3. 2 \in Of("d") /\ 3 \in Of("d") /\ 4 \in Of("P") /\ 4 \in Of("h")
  OBVIOUS
<1>4. 1 \in Of("Y") /\ 2 \in Of("M") /\ 3 \in Of("D") /\ 4 \in Of("H") /\ 5 \in Of("m") /\ 6 \in Of("s")
  BY <1>2
<1> HIDE DEF Of
<1> QED
  BY <1>1, <1>3, <1>4

\* Which is the component's value in the moment read: as given, or filled in.
LEMMA Filled ==
  ASSUME NEW cs, NEW w, NEW walked, NEW c
  PROVE  LET g == [e \in cs |-> C!Fragment(w, e)]
         IN C!FilledIn(g, walked, Now, c) =
              IF c \in cs THEN C!Fragment(w, c)
              ELSE IF \E e \in walked \cap cs : e \in C!Coarser(c) THEN C!LeastOfComponent(c)
              ELSE C!Fragment(Now, c)
  BY DEF C!FilledIn

LEMMA MomentRead ==
  ASSUME NEW cs, IsPicture(cs), NEW w, C!IsMoment(w),
         NEW r, r = C!ParseDateTime([c \in cs |-> C!Fragment(w, c)], Now), r # C!Inconsistent
  PROVE  \E walked :
           LET F(c) == C!FilledIn([e \in cs |-> C!Fragment(w, e)], walked, Now, c)
           IN  /\ cs \ {"d"} \subseteq walked
               /\ r.date.y = F("Y")
               /\ "d" \notin cs => r.date.m = F("M") /\ r.date.d = F("D")
               /\ "d" \in cs => C!DayOfYear(r.date) = C!DayOfYear(w.date)
               /\ r.H = IF "P" \in cs \/ "h" \in cs THEN C!HourOf(F("h"), F("P")) ELSE F("H")
               /\ r.mi = F("m") /\ r.s = F("s")
<1> DEFINE g == [c \in cs |-> C!Fragment(w, c)]
<1>1. DOMAIN g = cs
  OBVIOUS
<1>2. PICK walked, yearDay, halfDay :
           /\ C!ParseDateTime(g, Now) = C!MomentOf(g, walked, Now, yearDay, halfDay)
           /\ yearDay <=> "d" \in cs
           /\ halfDay <=> "P" \in cs \/ "h" \in cs
           /\ yearDay \in BOOLEAN /\ halfDay \in BOOLEAN
           /\ cs \ {"d"} \subseteq walked
  <2> HIDE DEF g
  <2> QED
    BY <1>1, Walks
<1> DEFINE F(c) == C!FilledIn(g, walked, Now, c)
           hour == IF halfDay THEN C!HourOf(F("h"), F("P")) ELSE F("H")
           date == IF yearDay THEN C!DateOfYearDay(F("Y"), g["d"]) ELSE C!Date(F("Y"), F("M"), F("D"))
<1>3. C!MomentOf(g, walked, Now, yearDay, halfDay) =
        IF \/ C!HasGap(DOMAIN g, walked)
           \/ ~ yearDay /\ ~ C!IsDate(F("Y"), F("M"), F("D"))
           \/ hour \notin 0 .. 23
        THEN C!Inconsistent
        ELSE [date |-> date, H |-> hour, mi |-> F("m"), s |-> F("s")]
  BY DEF C!MomentOf
<1>4. g = [c \in cs |-> C!Fragment(w, c)]
  OBVIOUS
<1>5. "d" \in cs => g["d"] = C!DayOfYear(w.date) /\ F("Y") = w.date.y
  <2>1. "d" \in cs => "Y" \in cs
    BY PicturesAre
  <2>2. "d" \in cs => g["d"] = C!Fragment(w, "d")
    OBVIOUS
  <2>3. "Y" \in cs => F("Y") = C!Fragment(w, "Y")
    BY Filled
  <2> QED
    BY <2>1, <2>2, <2>3, Fragments
<1> HIDE DEF g, F, hour, date
<1>6. r = [date |-> date, H |-> hour, mi |-> F("m"), s |-> F("s")]
  BY <1>2, <1>3, <1>4
<1>7. r.date = date /\ r.H = hour /\ r.mi = F("m") /\ r.s = F("s")
  BY <1>6
<1>8. CASE "d" \in cs
  <2>1. IsDateOf(w.date)
    BY DEF C!IsMoment, IsDateOf
  <2>2. date = C!DateOfYearDay(w.date.y, C!DayOfYear(w.date))
    BY <1>2, <1>5, <1>8 DEF date
  <2>3. date.y = F("Y") /\ C!DayOfYear(date) = C!DayOfYear(w.date)
    BY <1>5, <1>8, <2>1, <2>2, DayOfYearRead
  <2> QED
    BY <1>2, <1>7, <1>8, <2>3 DEF hour, F, g
<1>9. CASE "d" \notin cs
  <2>1. date = C!Date(F("Y"), F("M"), F("D"))
    BY <1>2, <1>9 DEF date
  <2>2. date.y = F("Y") /\ date.m = F("M") /\ date.d = F("D")
    BY <2>1 DEF C!Date
  <2> QED
    BY <1>2, <1>7, <1>9, <2>2 DEF hour, F, g
<1> QED
  BY <1>8, <1>9

\* The half of the day and the hour in it that are read give the hour they were
\* written of.
LEMMA HoursRead ==
  ASSUME NEW cs, NEW w, C!IsMoment(w), NEW walked, "P" \in cs \/ "h" \in cs
  PROVE  LET F(c) == C!FilledIn([e \in cs |-> C!Fragment(w, e)], walked, Now, c)
             hour == C!HourOf(F("h"), F("P"))
         IN  /\ "h" \in cs => C!HalfDayHour(hour) = C!Fragment(w, "h")
             /\ "P" \in cs => (IF hour >= 12 THEN 1 ELSE 0) = C!Fragment(w, "P")
<1> DEFINE g == [e \in cs |-> C!Fragment(w, e)]
           F(c) == C!FilledIn(g, walked, Now, c)
<1>1. /\ "h" \in cs => F("h") = C!Fragment(w, "h")
      /\ F("h") \in {C!Fragment(w, "h"), C!LeastOfComponent("h"), C!Fragment(Now, "h")}
  BY Filled
<1>2. /\ "P" \in cs => F("P") = C!Fragment(w, "P")
      /\ F("P") \in {C!Fragment(w, "P"), C!LeastOfComponent("P"), C!Fragment(Now, "P")}
  BY Filled
<1> HIDE DEF F
<1>3. C!Fragment(w, "h") \in 1 .. 12 /\ C!Fragment(Now, "h") \in 1 .. 12
  <2>1. w.H \in 0 .. 23 /\ Now.H \in 0 .. 23
    BY AlgorithmsAssumption DEF C!IsMoment
  <2> QED
    BY <2>1, Fragments, HalfDayType
<1>4. C!Fragment(w, "P") \in {0, 1} /\ C!Fragment(Now, "P") \in {0, 1}
  BY Fragments
<1>5. C!LeastOfComponent("h") = 0 /\ C!LeastOfComponent("P") = 0
  BY DEF C!LeastOfComponent
<1>6. F("h") \in 0 .. 12 /\ F("P") \in {0, 1}
  BY <1>1, <1>2, <1>3, <1>4, <1>5
<1>7. /\ F("h") # 0 => C!HalfDayHour(C!HourOf(F("h"), F("P"))) = F("h")
      /\ C!HourOf(F("h"), F("P")) >= 12 <=> F("P") = 1
  BY <1>6, Halves
<1>8. "h" \in cs => C!HalfDayHour(C!HourOf(F("h"), F("P"))) = C!Fragment(w, "h")
  BY <1>1, <1>3, <1>7
<1>9. "P" \in cs => (IF C!HourOf(F("h"), F("P")) >= 12 THEN 1 ELSE 0) = C!Fragment(w, "P")
  BY <1>2, <1>4, <1>7
<1> QED
  BY <1>8, <1>9 DEF F

\* What is read is what was written, where it was; now's before it, the least after it.
LEMMA ReadBack ==
  ASSUME NEW cs, IsPicture(cs), NEW w, C!IsMoment(w),
         NEW r, r = C!ParseDateTime([c \in cs |-> C!Fragment(w, c)], Now), r # C!Inconsistent
  PROVE  LET places == PlacesOf(cs)
             Field(moment, i) == C!Fragment(moment, Coarsest[i])
         IN  /\ \A c \in cs : C!Fragment(r, c) = C!Fragment(w, c)
             /\ \A i \in DOMAIN Coarsest :
                  /\ (\A p \in places : i < p) => Field(r, i) = Field(Now, i)
                  /\ (\A p \in places : i > p) => Field(r, i) = C!LeastOfComponent(Coarsest[i])
<1> DEFINE g == [e \in cs |-> C!Fragment(w, e)]
<1>1. PICK walked :
           LET F(c) == C!FilledIn(g, walked, Now, c)
           IN  /\ cs \ {"d"} \subseteq walked
               /\ r.date.y = F("Y")
               /\ "d" \notin cs => r.date.m = F("M") /\ r.date.d = F("D")
               /\ "d" \in cs => C!DayOfYear(r.date) = C!DayOfYear(w.date)
               /\ r.H = IF "P" \in cs \/ "h" \in cs THEN C!HourOf(F("h"), F("P")) ELSE F("H")
               /\ r.mi = F("m") /\ r.s = F("s")
  BY MomentRead
<1> DEFINE F(c) == C!FilledIn(g, walked, Now, c)
           half == "P" \in cs \/ "h" \in cs
<1>2. /\ cs \ {"d"} \subseteq walked
      /\ r.date.y = F("Y")
      /\ "d" \notin cs => r.date.m = F("M") /\ r.date.d = F("D")
      /\ "d" \in cs => C!DayOfYear(r.date) = C!DayOfYear(w.date)
      /\ r.H = IF half THEN C!HourOf(F("h"), F("P")) ELSE F("H")
      /\ r.mi = F("m") /\ r.s = F("s")
  BY <1>1
<1>3. \A c : F(c) = IF c \in cs THEN C!Fragment(w, c)
                    ELSE IF \E e \in walked \cap cs : e \in C!Coarser(c) THEN C!LeastOfComponent(c)
                    ELSE C!Fragment(Now, c)
  BY Filled
<1>4. half => /\ "h" \in cs => C!HalfDayHour(C!HourOf(F("h"), F("P"))) = C!Fragment(w, "h")
              /\ "P" \in cs => (IF C!HourOf(F("h"), F("P")) >= 12 THEN 1 ELSE 0) = C!Fragment(w, "P")
  BY HoursRead
<1> HIDE DEF F
<1>5. /\ cs # {} /\ cs \subseteq {"Y", "M", "D", "d", "P", "h", "H", "m", "s"}
      /\ "d" \in cs => "Y" \in cs /\ "M" \notin cs /\ "D" \notin cs
      /\ half => "H" \notin cs
  BY PicturesAre DEF IsPicture
<1>6. /\ C!Fragment(r, "Y") = r.date.y /\ C!Fragment(r, "M") = r.date.m /\ C!Fragment(r, "D") = r.date.d
      /\ C!Fragment(r, "d") = C!DayOfYear(r.date) /\ C!Fragment(w, "d") = C!DayOfYear(w.date)
      /\ C!Fragment(r, "H") = r.H /\ C!Fragment(r, "h") = C!HalfDayHour(r.H)
      /\ C!Fragment(r, "P") = (IF r.H >= 12 THEN 1 ELSE 0)
      /\ C!Fragment(r, "m") = r.mi /\ C!Fragment(r, "s") = r.s
  BY Fragments
<1>7. ASSUME NEW c \in cs PROVE C!Fragment(r, c) = C!Fragment(w, c)
  <2>1. F(c) = C!Fragment(w, c)
    BY <1>3
  <2>2. CASE c \in {"Y", "m", "s"}
    BY <1>2, <1>6, <2>1, <2>2
  <2>3. CASE c \in {"M", "D"}
    BY <1>2, <1>5, <1>6, <2>1, <2>3
  <2>4. CASE c = "d"
    BY <1>2, <1>6, <2>4
  <2>5. CASE c = "H"
    BY <1>2, <1>5, <1>6, <2>1, <2>5
  <2>6. CASE c = "h"
    <3>1. half /\ r.H = C!HourOf(F("h"), F("P"))
      BY <1>2, <2>6
    <3> QED
      BY <1>4, <1>6, <2>6, <3>1
  <2>7. CASE c = "P"
    <3>1. half /\ r.H = C!HourOf(F("h"), F("P"))
      BY <1>2, <2>7
    <3> QED
      BY <1>4, <1>6, <2>7, <3>1
  <2> QED
    BY <1>5, <2>2, <2>3, <2>4, <2>5, <2>6, <2>7
<1> DEFINE ps == PlacesOf(cs)
<1>8. /\ ("Y" \in cs => 1 \in ps) /\ ("M" \in cs => 2 \in ps) /\ ("D" \in cs => 3 \in ps)
      /\ ("d" \in cs => 2 \in ps /\ 3 \in ps)
      /\ ("P" \in cs \/ "h" \in cs \/ "H" \in cs => 4 \in ps)
      /\ ("m" \in cs => 5 \in ps)
      /\ ("s" \in cs => 6 \in ps)
  BY PlacesAre
<1>9. DOMAIN Coarsest = 1 .. 6 /\ Coarsest[1] = "Y" /\ Coarsest[2] = "M" /\ Coarsest[3] = "D"
      /\ Coarsest[4] = "H" /\ Coarsest[5] = "m" /\ Coarsest[6] = "s"
  BY DEF Coarsest
<1> HIDE DEF ps
\* What there is before and after a place.
<1>10. ASSUME NEW i \in 1 .. 6, \A p \in ps : i < p
       PROVE  /\ "Y" \notin cs /\ "d" \notin cs
              /\ i >= 2 => "M" \notin cs
              /\ i >= 3 => "D" \notin cs
              /\ i >= 4 => "P" \notin cs /\ "h" \notin cs /\ "H" \notin cs
              /\ i >= 5 => "m" \notin cs
              /\ i >= 6 => "s" \notin cs
  <2>1. "Y" \notin cs
    BY <1>8, <1>10
  <2>2. "d" \notin cs
    BY <1>5, <2>1
  <2> QED
    BY <1>8, <1>10, <2>1, <2>2
<1>11. ASSUME NEW i \in 1 .. 6, \A p \in ps : i > p
       PROVE  /\ i <= 1 => "Y" \notin cs
              /\ i <= 2 => "M" \notin cs
              /\ i <= 3 => "D" \notin cs /\ "d" \notin cs
              /\ i <= 4 => "P" \notin cs /\ "h" \notin cs /\ "H" \notin cs
              /\ i <= 5 => "m" \notin cs
              /\ "s" \notin cs
  BY <1>8, <1>11
<1>12. /\ C!Coarser("Y") = {} /\ C!Coarser("M") = {"Y"} /\ C!Coarser("D") = {"Y", "M"}
       /\ C!Coarser("H") = {"Y", "M", "D"}
       /\ C!Coarser("m") = {"Y", "M", "D", "P", "h", "H"}
       /\ C!Coarser("s") = {"Y", "M", "D", "P", "h", "H", "m"}
  BY Coarsers
<1>13. ASSUME NEW i \in 1 .. 6, \A p \in ps : i < p
       PROVE  C!Fragment(r, Coarsest[i]) = C!Fragment(Now, Coarsest[i])
  <2>1. CASE i = 1
    <3>1. F("Y") = C!Fragment(Now, "Y")
      BY <1>3, <1>10, <1>12, <1>13
    <3> QED
      BY <1>2, <1>6, <1>9, <2>1, <3>1
  <2>2. CASE i = 2
    <3>1. F("M") = C!Fragment(Now, "M") /\ "d" \notin cs
      BY <1>3, <1>10, <1>12, <1>13, <2>2
    <3> QED
      BY <1>2, <1>6, <1>9, <2>2, <3>1
  <2>3. CASE i = 3
    <3>1. F("D") = C!Fragment(Now, "D") /\ "d" \notin cs
      BY <1>3, <1>10, <1>12, <1>13, <2>3
    <3> QED
      BY <1>2, <1>6, <1>9, <2>3, <3>1
  <2>4. CASE i = 4
    <3>1. F("H") = C!Fragment(Now, "H") /\ ~ half
      BY <1>3, <1>10, <1>12, <1>13, <2>4
    <3> QED
      BY <1>2, <1>6, <1>9, <2>4, <3>1
  <2>5. CASE i = 5
    <3>1. F("m") = C!Fragment(Now, "m")
      BY <1>3, <1>10, <1>12, <1>13, <2>5
    <3> QED
      BY <1>2, <1>6, <1>9, <2>5, <3>1
  <2>6. CASE i = 6
    <3>1. F("s") = C!Fragment(Now, "s")
      BY <1>3, <1>10, <1>12, <1>13, <2>6
    <3> QED
      BY <1>2, <1>6, <1>9, <2>6, <3>1
  <2> QED
    BY <1>13, <2>1, <2>2, <2>3, <2>4, <2>5, <2>6
<1>14. ASSUME NEW i \in 1 .. 6, \A p \in ps : i > p
       PROVE  C!Fragment(r, Coarsest[i]) = C!LeastOfComponent(Coarsest[i])
  <2>1. PICK e \in cs : TRUE
    BY <1>5
  <2>2. CASE i = 1
    BY <1>5, <1>11, <1>14, <2>1, <2>2
  <2>3. CASE i = 2
    <3>1. "Y" \in walked \cap cs /\ "M" \notin cs /\ "d" \notin cs
      BY <1>2, <1>5, <1>11, <1>14, <2>1, <2>3
    <3>2. F("M") = C!LeastOfComponent("M")
      BY <1>3, <1>12, <3>1
    <3> QED
      BY <1>2, <1>6, <1>9, <2>3, <3>1, <3>2
  <2>4. CASE i = 3
    <3>1. "D" \notin cs /\ "d" \notin cs /\ e \in {"Y", "M"} /\ e \in walked \cap cs
      BY <1>2, <1>5, <1>11, <1>14, <2>1, <2>4
    <3>2. F("D") = C!LeastOfComponent("D")
      BY <1>3, <1>12, <3>1
    <3> QED
      BY <1>2, <1>6, <1>9, <2>4, <3>1, <3>2
  <2>5. CASE i = 4
    <3>1. /\ "H" \notin cs /\ ~ half
          /\ \E c \in {"Y", "M", "D"} : c \in walked \cap cs
      BY <1>2, <1>5, <1>11, <1>14, <2>1, <2>5
    <3>2. F("H") = C!LeastOfComponent("H")
      BY <1>3, <1>12, <3>1
    <3> QED
      BY <1>2, <1>6, <1>9, <2>5, <3>1, <3>2
  <2>6. CASE i = 5
    <3>1. /\ "m" \notin cs
          /\ \E c \in {"Y", "M", "D", "P", "h", "H"} : c \in walked \cap cs
      BY <1>2, <1>5, <1>11, <1>14, <2>1, <2>6
    <3>2. F("m") = C!LeastOfComponent("m")
      BY <1>3, <1>12, <3>1
    <3> QED
      BY <1>2, <1>6, <1>9, <2>6, <3>2
  <2>7. CASE i = 6
    <3>1. /\ "s" \notin cs
          /\ \E c \in {"Y", "M", "D", "P", "h", "H", "m"} : c \in walked \cap cs
      BY <1>2, <1>5, <1>11, <1>14, <2>1, <2>7
    <3>2. F("s") = C!LeastOfComponent("s")
      BY <1>3, <1>12, <3>1
    <3> QED
      BY <1>2, <1>6, <1>9, <2>7, <3>2
  <2> QED
    BY <1>14, <2>2, <2>3, <2>4, <2>5, <2>6, <2>7
<1> QED
  BY <1>7, <1>9, <1>13, <1>14 DEF ps

LEMMA WeekFragments ==
  ASSUME NEW t
  PROVE  /\ C!Fragment(t, "W") = C!WeekInYear(t.date) /\ C!Fragment(t, "w") = C!WeekInMonth(t.date)
         /\ C!Fragment(t, "X") = C!IsoWeekYear(t.date) /\ C!Fragment(t, "x") = C!IsoWeekMonth(t.date)
  BY DEF C!Fragment

(***************************************************************************)
(* A permutation applied in place.                                         *)
(***************************************************************************)
\* An order takes each place from one of its own, and there is an item at each.
IsOrder(q) ==
  LET places == 1 .. Len(q.order)
  IN  /\ Len(q.order) \in Nat /\ q.order \in [places -> places]
      /\ \A p, r \in places : q.order[p] = q.order[r] => p = r
      /\ DOMAIN q.items = places /\ q.items = [p \in places |-> q.items[p]]

\* How far it is: what is placed, what is still where it was, and the item that the
\* cycle under way carries on.
Partly(q, r) ==
  LET places == 1 .. Len(q.order)
  IN  /\ r \in [items : [places -> {q.items[p] : p \in places}], placed : SUBSET places,
                at : 1 .. Len(q.order) + 1, cycle : {0} \cup places]
      /\ \A p \in places : p < r.at => p \in r.placed \/ q.order[p] = p
      /\ \A p \in r.placed : r.items[p] = q.items[q.order[p]]
      /\ \A p \in places \ r.placed : p # r.cycle => r.items[p] = q.items[p]

\* The places that are done are those of whole cycles, and of the cycle under way those
\* from its least one to where it is.
CyclesKept(q, r) ==
  LET places == 1 .. Len(q.order)
  IN  /\ \A p \in places : q.order[p] \in r.placed => p \in r.placed \/ (r.cycle # 0 /\ q.order[p] = r.at)
      /\ r.cycle # 0 =>
           /\ r.at \in places /\ r.cycle \notin r.placed /\ r.items[r.cycle] = q.items[r.at]
           /\ r.cycle = r.at \/ r.at \in r.placed
           /\ r.cycle # r.at => \A p \in places : q.order[p] = r.cycle => p \in r.placed

PlacingInv == Placing => Partly(question, result) /\ CyclesKept(question, result)

LEMMA PlacingBegins ==
  ASSUME NEW q, IsOrder(q)
  PROVE  LET r == [items |-> q.items, placed |-> {}, at |-> 1, cycle |-> 0]
         IN  Partly(q, r) /\ CyclesKept(q, r)
<1> DEFINE places == 1 .. Len(q.order)
<1>1. Len(q.order) \in Nat /\ q.items = [p \in places |-> q.items[p]]
  BY DEF IsOrder
<1>2. q.items \in [places -> {q.items[p] : p \in places}]
  <2> HIDE DEF places
  <2> QED
    BY <1>1
<1> QED
  BY <1>1, <1>2 DEF Partly, CyclesKept

LEMMA PlacePassed ==
  ASSUME NEW q, IsOrder(q), NEW r, Partly(q, r), CyclesKept(q, r),
         r.cycle = 0, r.at <= Len(q.order), r.at \in r.placed \/ q.order[r.at] = r.at
  PROVE  LET new == [r EXCEPT !.at = @ + 1]
         IN  Partly(q, new) /\ CyclesKept(q, new)
<1> DEFINE places == 1 .. Len(q.order)
           new == [r EXCEPT !.at = @ + 1]
<1>1. Len(q.order) \in Nat /\ r.at \in places /\ r.at + 1 \in 1 .. Len(q.order) + 1
  BY DEF IsOrder, Partly
<1>2. /\ new.items = r.items /\ new.placed = r.placed /\ new.at = r.at + 1 /\ new.cycle = r.cycle
      /\ new \in [items : [places -> {q.items[p] : p \in places}], placed : SUBSET places,
                  at : 1 .. Len(q.order) + 1, cycle : {0} \cup places]
  <2> HIDE DEF places
  <2> QED
    BY <1>1 DEF Partly, places
<1>3. \A p \in places : p < new.at => p \in r.placed \/ q.order[p] = p
  <2>1. \A p \in places : p < r.at + 1 => p < r.at \/ p = r.at
    BY <1>1
  <2> QED
    BY <1>2, <2>1 DEF Partly
<1> HIDE DEF new
<1>4. Partly(q, new)
  BY <1>2, <1>3 DEF Partly
<1>5. CyclesKept(q, new)
  BY <1>2 DEF CyclesKept
<1> QED
  BY <1>4, <1>5 DEF new

LEMMA CycleBegun ==
  ASSUME NEW q, IsOrder(q), NEW r, Partly(q, r), CyclesKept(q, r),
         r.cycle = 0, r.at <= Len(q.order), r.at \notin r.placed
  PROVE  LET new == [r EXCEPT !.cycle = r.at]
         IN  Partly(q, new) /\ CyclesKept(q, new)
<1> DEFINE places == 1 .. Len(q.order)
           new == [r EXCEPT !.cycle = r.at]
<1>1. Len(q.order) \in Nat /\ r.at \in places /\ r.at # 0
  BY DEF IsOrder, Partly
<1>2. /\ new.items = r.items /\ new.placed = r.placed /\ new.at = r.at /\ new.cycle = r.at
      /\ new \in [items : [places -> {q.items[p] : p \in places}], placed : SUBSET places,
                  at : 1 .. Len(q.order) + 1, cycle : {0} \cup places]
  BY <1>1 DEF Partly
<1>3. \A p \in places \ r.placed : r.items[p] = q.items[p]
  BY <1>1 DEF Partly
<1> HIDE DEF new
<1>4. Partly(q, new)
  BY <1>2, <1>3 DEF Partly
<1>5. CyclesKept(q, new)
  BY <1>1, <1>2, <1>3 DEF CyclesKept
<1> QED
  BY <1>4, <1>5 DEF new

\* The next place of the cycle is a place that nothing was put to.
LEMMA SwappedOn ==
  ASSUME NEW q, IsOrder(q), NEW r, Partly(q, r), CyclesKept(q, r),
         r.cycle # 0, q.order[r.cycle] # r.at
  PROVE  LET j == r.cycle  target == q.order[j]
             new == [r EXCEPT !.items = Swapped(@, j, target), !.placed = @ \cup {j}, !.cycle = target]
         IN  Partly(q, new) /\ CyclesKept(q, new)
<1> DEFINE places == 1 .. Len(q.order)
           j == r.cycle
           target == q.order[j]
           new == [r EXCEPT !.items = Swapped(@, j, target), !.placed = @ \cup {j}, !.cycle = target]
<1>1. /\ Len(q.order) \in Nat /\ q.order \in [places -> places]
      /\ \A p, o \in places : q.order[p] = q.order[o] => p = o
  BY DEF IsOrder
<1>2. /\ r \in [items : [places -> {q.items[p] : p \in places}], placed : SUBSET places,
                at : 1 .. Len(q.order) + 1, cycle : {0} \cup places]
      /\ \A p \in places : p < r.at => p \in r.placed \/ q.order[p] = p
      /\ \A p \in r.placed : r.items[p] = q.items[q.order[p]]
      /\ \A p \in places \ r.placed : p # j => r.items[p] = q.items[p]
  BY DEF Partly
<1>3. /\ \A p \in places : q.order[p] \in r.placed => p \in r.placed \/ q.order[p] = r.at
      /\ r.at \in places /\ j \notin r.placed /\ r.items[j] = q.items[r.at]
      /\ j = r.at \/ r.at \in r.placed
      /\ j # r.at => \A p \in places : q.order[p] = j => p \in r.placed
  BY DEF CyclesKept
<1>4. j \in places /\ target \in places
  BY <1>1, <1>2
<1>5. target \notin r.placed /\ target # j
  BY <1>3, <1>4
<1> DEFINE items == Swapped(r.items, j, target)
<1>6. /\ items \in [places -> {q.items[p] : p \in places}]
      /\ items[j] = r.items[target] /\ items[target] = r.items[j]
      /\ \A p \in places : p # j /\ p # target => items[p] = r.items[p]
  BY <1>2, <1>4, <1>5 DEF Swapped
<1> HIDE DEF items
<1>7. /\ new.items = items /\ new.placed = r.placed \cup {j} /\ new.at = r.at /\ new.cycle = target
      /\ new \in [items : [places -> {q.items[p] : p \in places}], placed : SUBSET places,
                  at : 1 .. Len(q.order) + 1, cycle : {0} \cup places]
  BY <1>2, <1>4, <1>6 DEF items
<1> HIDE DEF new, target, j
<1>8. Partly(q, new)
  <2>1. \A p \in places : p < new.at => p \in new.placed \/ q.order[p] = p
    BY <1>2, <1>7
  <2>2. \A p \in new.placed : new.items[p] = q.items[q.order[p]]
    <3>1. items[j] = q.items[q.order[j]]
      BY <1>2, <1>4, <1>5, <1>6 DEF target
    <3>2. \A p \in r.placed : p \in places /\ p # j /\ p # target
      BY <1>2, <1>3, <1>5
    <3> QED
      BY <1>2, <1>6, <1>7, <3>1, <3>2
  <2>3. \A p \in places \ new.placed : p # new.cycle => new.items[p] = q.items[p]
    BY <1>2, <1>6, <1>7
  <2> QED
    BY <1>7, <2>1, <2>2, <2>3 DEF Partly
<1>9. CyclesKept(q, new)
  <2>1. target # 0
    BY <1>1, <1>4
  <2>2. \A p \in places : q.order[p] \in new.placed => p \in new.placed \/ q.order[p] = new.at
    <3>1. \A p \in places : q.order[p] = j => p \in r.placed \/ j = r.at
      BY <1>3
    <3> QED
      BY <1>3, <1>7, <3>1
  <2>3. new.items[new.cycle] = q.items[new.at]
    BY <1>3, <1>6, <1>7
  <2>4. new.at \in places /\ new.cycle \notin new.placed /\ new.at \in new.placed
    BY <1>3, <1>5, <1>7
  <2>5. \A p \in places : q.order[p] = new.cycle => p \in new.placed
    BY <1>1, <1>4, <1>7 DEF target
  <2> QED
    BY <1>7, <2>1, <2>2, <2>3, <2>4, <2>5 DEF CyclesKept
<1> QED
  BY <1>8, <1>9 DEF new, target, j

LEMMA CycleClosed ==
  ASSUME NEW q, IsOrder(q), NEW r, Partly(q, r), CyclesKept(q, r),
         r.cycle # 0, q.order[r.cycle] = r.at
  PROVE  LET new == [r EXCEPT !.placed = @ \cup {r.cycle}, !.at = @ + 1, !.cycle = 0]
         IN  Partly(q, new) /\ CyclesKept(q, new)
<1> DEFINE places == 1 .. Len(q.order)
           j == r.cycle
           new == [r EXCEPT !.placed = @ \cup {j}, !.at = @ + 1, !.cycle = 0]
<1>1. /\ Len(q.order) \in Nat /\ q.order \in [places -> places]
      /\ \A p, o \in places : q.order[p] = q.order[o] => p = o
  BY DEF IsOrder
<1>2. /\ r \in [items : [places -> {q.items[p] : p \in places}], placed : SUBSET places,
                at : 1 .. Len(q.order) + 1, cycle : {0} \cup places]
      /\ \A p \in places : p < r.at => p \in r.placed \/ q.order[p] = p
      /\ \A p \in r.placed : r.items[p] = q.items[q.order[p]]
      /\ \A p \in places \ r.placed : p # j => r.items[p] = q.items[p]
  BY DEF Partly
<1>3. /\ \A p \in places : q.order[p] \in r.placed => p \in r.placed \/ q.order[p] = r.at
      /\ r.at \in places /\ j \notin r.placed /\ r.items[j] = q.items[r.at]
      /\ j = r.at \/ r.at \in r.placed
      /\ j # r.at => \A p \in places : q.order[p] = j => p \in r.placed
  BY DEF CyclesKept
<1>4. j \in places
  BY <1>1, <1>2
<1>5. /\ new.items = r.items /\ new.placed = r.placed \cup {j} /\ new.at = r.at + 1 /\ new.cycle = 0
      /\ new \in [items : [places -> {q.items[p] : p \in places}], placed : SUBSET places,
                  at : 1 .. Len(q.order) + 1, cycle : {0} \cup places]
  <2>1. r.at + 1 \in 1 .. Len(q.order) + 1
    BY <1>1, <1>3
  <2> HIDE DEF places, j
  <2> QED
    BY <1>2, <1>4, <2>1
<1>6. q.order[j] = r.at
  OBVIOUS
<1> HIDE DEF new, j
<1>7. Partly(q, new)
  <2>1. \A p \in places : p < new.at => p \in new.placed \/ q.order[p] = p
    <3>1. \A p \in places : p < r.at + 1 => p < r.at \/ p = r.at
      BY <1>1, <1>3
    <3> QED
      BY <1>2, <1>3, <1>5, <3>1
  <2>2. \A p \in new.placed : new.items[p] = q.items[q.order[p]]
    BY <1>2, <1>3, <1>5, <1>6
  <2>3. \A p \in places \ new.placed : new.items[p] = q.items[p]
    BY <1>2, <1>5
  <2> QED
    BY <1>5, <2>1, <2>2, <2>3 DEF Partly
<1>8. \A p \in places : q.order[p] \in new.placed => p \in new.placed
  <2>1. \A p \in places : q.order[p] = r.at => p = j
    BY <1>1, <1>4, <1>6
  <2>2. \A p \in places : q.order[p] = j => p \in new.placed
    BY <1>3, <1>5, <2>1
  <2> QED
    BY <1>3, <1>5, <2>1, <2>2
<1>9. CyclesKept(q, new)
  BY <1>5, <1>8 DEF CyclesKept
<1> QED
  BY <1>7, <1>9 DEF new, j

LEMMA AllPlaced ==
  ASSUME NEW q, IsOrder(q), NEW r, Partly(q, r), r.cycle = 0, r.at > Len(q.order)
  PROVE  r.items = [p \in DOMAIN q.items |-> q.items[q.order[p]]]
<1> DEFINE places == 1 .. Len(q.order)
<1>1. /\ Len(q.order) \in Nat /\ DOMAIN q.items = places
      /\ r.items \in [places -> {q.items[p] : p \in places}] /\ r.at \in 1 .. Len(q.order) + 1
  BY DEF IsOrder, Partly
<1>2. ASSUME NEW p \in places PROVE r.items[p] = q.items[q.order[p]]
  <2>1. p \in r.placed \/ q.order[p] = p
    BY <1>1 DEF Partly
  <2>2. CASE p \in r.placed
    BY <2>2 DEF Partly
  <2>3. CASE p \notin r.placed
    BY <1>1, <2>1, <2>3 DEF Partly
  <2> QED
    BY <2>2, <2>3
<1> QED
  BY <1>1, <1>2

(***************************************************************************)
(* The questions.                                                          *)
(***************************************************************************)
\* A machine that answers the questions of Algorithms, and others in any way; the
\* questions of Rearrangements among them.
AnswerOther ==
  /\ question.asks \notin {"range", "args", "week", "moment", "place"}
  /\ \E value : Answers(question.asks, value)

AnswersSpec == QuestionInit /\ [][ComputeNext \/ AnswerOther]_questionVars

\* What was asked is a question, and what was answered is what the code gives.
Answered ==
  /\ \E i \in DOMAIN Questions : question \in Questions[i]
  /\ asked \in BOOLEAN
  /\ Told("range") => result = RangeOf(question.left, question.right, question.limit)
  /\ Told("week") => result = [component \in {"W", "w", "X", "x"} |->
                                 C!Fragment([date |-> question.date, H |-> 0, mi |-> 0, s |-> 0], component)]
  /\ Told("moment") =>
       result = C!ParseDateTime([c \in question.components |-> C!Fragment(question.written, c)], Now)
  /\ PlacingInv /\ PlacedAsSorted

LEMMA OrderGiven ==
  ASSUME NEW i \in DOMAIN Questions, NEW q \in Questions[i], q.asks = "place"
  PROVE  IsOrder(q)
BY AlgorithmsAssumption DEF IsOrder

\* What is answered outright says nothing of an order being applied.
LEMMA NotPlacing ==
  ASSUME question.asks # "place", UNCHANGED question
  PROVE  PlacingInv' /\ PlacedAsSorted'
BY DEF PlacingInv, Placing, PlacedAsSorted, Told

LEMMA PlacingStep ==
  ASSUME Answered, PlaceItems
  PROVE  PlacingInv' /\ PlacedAsSorted' /\ asked' \in BOOLEAN /\ question' = question
<1>1. Placing /\ question.asks = "place" /\ asked
  BY DEF PlaceItems, PassPlaced, BeginCycle, SwapOn, CloseCycle, EndPlacing, BetweenCycles, InCycle, Placing
<1>2. IsOrder(question)
  BY <1>1, OrderGiven DEF Answered
<1>3. Partly(question, result) /\ CyclesKept(question, result)
  BY <1>1 DEF Answered, PlacingInv
<1> DEFINE OnIt == /\ question' = question /\ asked' = asked
                   /\ Partly(question, result') /\ CyclesKept(question, result')
<1>4. CASE PassPlaced
  <2>1. OnIt
    BY <1>2, <1>3, <1>4, PlacePassed DEF PassPlaced, BetweenCycles, InPlaceAlready
  <2> QED
    BY <1>1, <2>1 DEF PlacingInv, PlacedAsSorted, Told
<1>5. CASE BeginCycle
  <2>1. OnIt
    BY <1>2, <1>3, <1>5, CycleBegun DEF BeginCycle, BetweenCycles, InPlaceAlready
  <2> QED
    BY <1>1, <2>1 DEF PlacingInv, PlacedAsSorted, Told
<1>6. CASE SwapOn
  <2>1. OnIt
    BY <1>2, <1>3, <1>6, SwappedOn DEF SwapOn, InCycle
  <2> QED
    BY <1>1, <2>1 DEF PlacingInv, PlacedAsSorted, Told
<1>7. CASE CloseCycle
  <2>1. OnIt
    BY <1>2, <1>3, <1>7, CycleClosed DEF CloseCycle, InCycle
  <2> QED
    BY <1>1, <2>1 DEF PlacingInv, PlacedAsSorted, Told
<1>8. CASE EndPlacing
  <2>1. result' = result.items /\ asked' = FALSE /\ question' = question
    BY <1>8 DEF EndPlacing, Answers
  <2>2. result.items = [p \in DOMAIN question.items |-> question.items[question.order[p]]]
    BY <1>2, <1>3, <1>8, AllPlaced DEF EndPlacing, BetweenCycles
  <2> QED
    BY <2>1, <2>2 DEF PlacingInv, Placing, PlacedAsSorted, Told
<1> QED
  BY <1>4, <1>5, <1>6, <1>7, <1>8 DEF PlaceItems

LEMMA AlwaysAnswered == AnswersSpec => []Answered
<1>1. ASSUME QuestionInit PROVE Answered
  <2>1. PICK i \in DOMAIN Questions : question \in Questions[i]
    BY <1>1 DEF QuestionInit
  <2>2. asked = TRUE /\ (question.asks = "place" => result = BeforePlacing)
    BY <1>1 DEF QuestionInit
  <2>3. question.asks = "place" => Partly(question, result) /\ CyclesKept(question, result)
    BY <2>1, <2>2, OrderGiven, PlacingBegins DEF BeforePlacing
  <2> QED
    BY <2>1, <2>2, <2>3 DEF Answered, Told, PlacingInv, Placing, PlacedAsSorted
<1>2. ASSUME Answered, [ComputeNext \/ AnswerOther]_questionVars
      PROVE  Answered'
  <2>1. CASE MakeRange
    BY <1>2, <2>1, NotPlacing DEF MakeRange, Answers, Answered, Told
  <2>2. CASE ValidateArgs
    BY <1>2, <2>2, NotPlacing DEF ValidateArgs, Answers, Answered, Told
  <2>3. CASE FindWeek
    BY <1>2, <2>3, NotPlacing DEF FindWeek, Answers, Answered, Told
  <2>4. CASE ReadMoment
    BY <1>2, <2>4, NotPlacing DEF ReadMoment, Answers, Answered, Told
  <2>5. CASE AnswerOther
    BY <1>2, <2>5, NotPlacing DEF AnswerOther, Answers, Answered, Told
  <2>6. CASE PlaceItems
    <3>1. question.asks = "place"
      BY <2>6 DEF PlaceItems, PassPlaced, BeginCycle, SwapOn, CloseCycle, EndPlacing, BetweenCycles, InCycle, Placing
    <3> QED
      BY <1>2, <2>6, <3>1, PlacingStep DEF Answered, Told
  <2>7. CASE UNCHANGED questionVars
    BY <1>2, <2>7 DEF questionVars, Answered, Told, PlacingInv, Placing, PlacedAsSorted
  <2> QED
    BY <1>2, <2>1, <2>2, <2>3, <2>4, <2>5, <2>6, <2>7 DEF ComputeNext
<1> QED
  BY <1>1, <1>2, PTL DEF AnswersSpec

\* The permutation that a sort has found, applied in place by following its cycles, ends
\* with every item where the order says, for any number of items and any permutation
\* (merge_sort_specialized in evaluator.rs).
THEOREM OrdersApplied == AnswersSpec => []PlacedAsSorted
<1>1. Answered => PlacedAsSorted
  BY DEF Answered
<1> QED
  BY <1>1, AlwaysAnswered, PTL

\* A range of two integers has every number from the one to the other, in order, or is
\* refused if they are more than the limits allow, whatever the width of an i64 and
\* however far outside it the ends are (range in evaluator.rs).
THEOREM RangesExact == AnswersSpec => []RangeExact
<1>1. ASSUME Answered PROVE RangeExact
  <2> SUFFICES ASSUME Told("range"), IsNum(question.left), IsNum(question.right),
                      ~ Spans(question.left, question.right)
               PROVE  RangeExact
    BY DEF RangeExact
  <2>1. /\ question.left.n \in Int /\ question.right.n \in Int
        /\ question.limit \in Nat \cup {NoLimit}
    BY <1>1, AlgorithmsAssumption DEF Answered, Told
  <2>2. result = RangeOf(question.left, question.right, question.limit)
    BY <1>1 DEF Answered
  <2> QED
    BY <2>1, <2>2, RangeIs DEF RangeExact
<1> QED
  BY <1>1, AlwaysAnswered, PTL

\* Both lists that are made place by place, a range's and a sort's, are exactly what they
\* should be (range and merge_sort_specialized in evaluator.rs).
THEOREM ListsAreExact == AnswersSpec => []ListsExact
BY RangesExact, OrdersApplied, PTL DEF ListsExact

LEMMA AlwaysByThursday == Answered => WeeksByThursday
<1> SUFFICES ASSUME Answered, Told("week") PROVE WeeksByThursday
  BY DEF WeeksByThursday
<1> DEFINE t == [date |-> question.date, H |-> 0, mi |-> 0, s |-> 0]
<1>1. IsDateOf(question.date)
  BY AlgorithmsAssumption DEF Answered, Told, IsDateOf
<1>2. result = [component \in {"W", "w", "X", "x"} |-> C!Fragment(t, component)]
  BY DEF Answered
<1>3. t.date = question.date
  OBVIOUS
<1> HIDE DEF t
<1>4. /\ result["W"] = C!WeekInYear(question.date) /\ result["w"] = C!WeekInMonth(question.date)
      /\ result["X"] = C!IsoWeekYear(question.date) /\ result["x"] = C!IsoWeekMonth(question.date)
  BY <1>2, <1>3, WeekFragments
<1> QED
  BY <1>1, <1>4, WeekOfYear, WeekOfMonth DEF WeeksByThursday

LEMMA AlwaysReadBack == Answered => ReadsWhatItWrote
<1> SUFFICES ASSUME Answered, Read PROVE ReadsWhatItWrote
  BY DEF ReadsWhatItWrote
<1>1. C!IsMoment(question.written) /\ IsPicture(question.components)
  BY AlgorithmsAssumption DEF Answered, Read, Told, IsPicture
<1>2. /\ result = C!ParseDateTime([c \in question.components |-> C!Fragment(question.written, c)], Now)
      /\ result # C!Inconsistent
  BY DEF Answered, Read
<1> QED
  BY <1>1, <1>2, ReadBack DEF ReadsWhatItWrote

\* The week a date is in, of its year and of its month, and the year and month that
\* week counts for, are its Thursday's, for every date there is; and a text read again
\* gives the components it was written of, with what is coarser now's and what is finer
\* the least (week_in_year, week_in_month, iso_week_year, iso_week_month and
\* parse_date_time in datetime.rs).
THEOREM CalendarsAgree == AnswersSpec => []CalendarAgrees
<1>1. Answered => CalendarAgrees
  BY AlwaysByThursday, AlwaysReadBack DEF CalendarAgrees
<1> QED
  BY <1>1, AlwaysAnswered, PTL
================================================================================
