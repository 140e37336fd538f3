-------------------------- MODULE ToolchainProofs --------------------------
(***************************************************************************)
(* For every program, whatever its functions, blocks and instructions:     *)
(* what link() lets through never calls a function that is not there, in   *)
(* the interpreter every load gives what the stores before it left, and    *)
(* native code leaves the stack and the registers of the host as they were.*)
(***************************************************************************)
EXTENDS Toolchain, BasicLemmas

-----------------------------------------------------------------------------
(* Vectors.                                                                *)

(* What a vector of the parser is as a sequence.                           *)
LEMMA VectorIsSeq ==
  ASSUME NEW s, IsVector(s)
  PROVE  /\ Len(s) \in Nat /\ DOMAIN s = 1 .. Len(s) /\ s \in Seq({s[k] : k \in DOMAIN s})
<1>1. Len(s) \in Nat /\ s = [k \in 1 .. Len(s) |-> s[k]]
  BY DEF IsVector
<1>0. PICK S : S = {s[k] : k \in DOMAIN s}
  BY Zenon
<1>2. PICK n \in Nat : n = Len(s) /\ S = {s[k] : k \in DOMAIN s}
  BY <1>0, <1>1
<1>3. DOMAIN s = 1 .. n /\ \A k \in 1 .. n : s[k] \in S
  BY <1>1, <1>2
<1>4. s \in [1 .. n -> S]
  BY <1>1, <1>2, <1>3
<1>5. s \in Seq(S)
  BY <1>4
<1> QED BY <1>2, <1>3, <1>5

(* A sequence is a vector.                                                 *)
LEMMA SeqIsVector ==
  ASSUME NEW S, NEW s \in Seq(S)
  PROVE  IsVector(s) /\ \A k \in 1 .. Len(s) : s[k] \in S
BY DEF IsVector

(* A sequence of some elements is one of more.                             *)
LEMMA VectorGrows ==
  ASSUME NEW S, NEW T, S \subseteq T, NEW s \in Seq(S)
  PROVE  s \in Seq(T)
OBVIOUS

(* Two vectors, one after the other.                                       *)
LEMMA ConcatVectors ==
  ASSUME NEW s, NEW t, IsVector(s), IsVector(t)
  PROVE  /\ IsVector(s \o t) /\ Len(s) \in Nat /\ Len(t) \in Nat
         /\ Len(s \o t) = Len(s) + Len(t)
         /\ \A k \in 1 .. Len(s) : (s \o t)[k] = s[k]
         /\ \A k \in 1 .. Len(t) : (s \o t)[Len(s) + k] = t[k]
<1>1. PICK S, T : S = {s[k] : k \in DOMAIN s} /\ T = {t[k] : k \in DOMAIN t}
  BY Zenon
<1>2. PICK U : U = S \cup T
  BY Zenon
<1>3. s \in Seq(U) /\ t \in Seq(U) /\ Len(s) \in Nat /\ Len(t) \in Nat
  <2>1. s \in Seq(S) /\ t \in Seq(T) /\ Len(s) \in Nat /\ Len(t) \in Nat
    BY <1>1, VectorIsSeq
  <2>2. S \subseteq U /\ T \subseteq U
    BY <1>2
  <2> QED BY <2>1, <2>2, VectorGrows
<1>4. /\ s \o t \in Seq(U) /\ Len(s \o t) = Len(s) + Len(t)
      /\ \A k \in 1 .. Len(s) + Len(t) :
           (s \o t)[k] = IF k <= Len(s) THEN s[k] ELSE t[k - Len(s)]
  BY <1>3, ConcatProperties
<1>5. PICK m \in Nat, n \in Nat : m = Len(s) /\ n = Len(t)
  BY <1>3
<1>6. \A k \in 1 .. m : k \in 1 .. m + n /\ k <= m
  OBVIOUS
<1>7. \A k \in 1 .. n : m + k \in 1 .. m + n /\ ~ (m + k <= m) /\ (m + k) - m = k
  OBVIOUS
<1>8. IsVector(s \o t)
  BY <1>4, SeqIsVector, Zenon
<1> QED BY <1>3, <1>4, <1>5, <1>6, <1>7, <1>8

(* What two vectors make has the elements of both and no other.            *)
LEMMA ConcatElements ==
  ASSUME NEW s, NEW t, IsVector(s), IsVector(t)
  PROVE  IsVector(s \o t) /\ ToSet(s \o t) = ToSet(s) \cup ToSet(t)
<1>0. PICK u : u = s \o t
  BY Zenon
<1>1. PICK m \in Nat, n \in Nat : m = Len(s) /\ n = Len(t) /\ u = s \o t
  BY <1>0, ConcatVectors
<1>2. /\ IsVector(u) /\ Len(u) = m + n
      /\ \A k \in 1 .. m : u[k] = s[k]
      /\ \A k \in 1 .. n : u[m + k] = t[k]
  BY <1>1, ConcatVectors
<1>3. DOMAIN s = 1 .. m /\ DOMAIN t = 1 .. n /\ DOMAIN u = 1 .. m + n
  BY <1>1, <1>2, VectorIsSeq
<1>4. ASSUME NEW k \in 1 .. m + n PROVE u[k] \in ToSet(s) \cup ToSet(t)
  <2>1. CASE k <= m
    BY <1>2, <1>3, <2>1 DEF ToSet
  <2>2. CASE k > m
    <3>1. PICK j \in 1 .. n : k = m + j
      <4>1. k - m \in 1 .. n /\ k = m + (k - m)
        BY <2>2
      <4> QED BY <4>1
    <3> QED BY <1>2, <1>3, <3>1, Zenon DEF ToSet
  <2> QED BY <2>1, <2>2
<1>5. ASSUME NEW k \in 1 .. m PROVE s[k] \in ToSet(u)
  <2>1. k \in 1 .. m + n
    OBVIOUS
  <2> QED BY <1>2, <1>3, <2>1 DEF ToSet
<1>6. ASSUME NEW k \in 1 .. n PROVE t[k] \in ToSet(u)
  <2>1. m + k \in 1 .. m + n
    OBVIOUS
  <2> QED BY <1>2, <1>3, <2>1 DEF ToSet
<1>7. ToSet(u) = ToSet(s) \cup ToSet(t)
  BY <1>3, <1>4, <1>5, <1>6 DEF ToSet
<1> QED BY <1>1, <1>2, <1>7

AreVectors(ss) == IsVector(ss) /\ \A i \in DOMAIN ss : IsVector(ss[i])

(* A flattened vector has the elements of the vectors, and no other.       *)
LEMMA FlattenElements ==
  ASSUME NEW ss, AreVectors(ss)
  PROVE  IsVector(FlattenSeq(ss)) /\ ToSet(FlattenSeq(ss)) = UNION {ToSet(ss[i]) : i \in DOMAIN ss}
<1>1. PICK n \in Nat : n = Len(ss) /\ DOMAIN ss = 1 .. n
  BY VectorIsSeq DEF AreVectors
<1>2. CASE n = 0
  <2>1. ss = <<>> /\ DOMAIN ss = {}
    BY <1>1, <1>2 DEF AreVectors, IsVector
  <2>2. FlattenSeq(ss) = <<>>
    BY <2>1 DEF FlattenSeq
  <2>3. IsVector(<<>>) /\ DOMAIN <<>> = {}
    BY DEF IsVector
  <2> QED BY <2>1, <2>2, <2>3 DEF ToSet
<1>3. CASE n # 0
  <2>1. PICK f : IsFlattening(ss, n, f) /\ FlattenSeq(ss) = f[n]
    BY <1>1, <1>3, FlattenSeqIsFlattening DEF AreVectors
  <2>2. \A i \in 1 .. n : f[i] = IF i = 1 THEN ss[i] ELSE f[i - 1] \o ss[i]
    BY <2>1, Zenon DEF IsFlattening
  <2> DEFINE Right == {i \in 1 .. n : IsVector(f[i]) /\ ToSet(f[i]) = UNION {ToSet(ss[j]) : j \in 1 .. i}}
  <2>3. 1 \in Right
    <3>1. 1 \in 1 .. n /\ 1 .. 1 = {1}
      BY <1>3
    <3>2. f[1] = ss[1] /\ IsVector(ss[1])
      BY <1>1, <2>2, <3>1 DEF AreVectors
    <3>3. UNION {ToSet(ss[j]) : j \in 1 .. 1} = ToSet(ss[1])
      BY <3>1
    <3> QED BY <3>1, <3>2, <3>3
  <2>4. ASSUME NEW i \in 1 .. n - 1, i \in Right PROVE i + 1 \in Right
    <3>1. i + 1 \in 1 .. n /\ i + 1 # 1 /\ (i + 1) - 1 = i /\ 1 .. i + 1 = (1 .. i) \cup {i + 1}
      OBVIOUS
    <3>2. f[i + 1] = f[i] \o ss[i + 1]
      BY <2>2, <3>1, Zenon
    <3>3. IsVector(f[i]) /\ IsVector(ss[i + 1]) /\ ToSet(f[i]) = UNION {ToSet(ss[j]) : j \in 1 .. i}
      BY <1>1, <2>4, <3>1 DEF AreVectors
    <3>4. IsVector(f[i + 1]) /\ ToSet(f[i + 1]) = ToSet(f[i]) \cup ToSet(ss[i + 1])
      BY <3>2, <3>3, ConcatElements
    <3>5. UNION {ToSet(ss[j]) : j \in 1 .. i + 1} = (UNION {ToSet(ss[j]) : j \in 1 .. i}) \cup ToSet(ss[i + 1])
      BY <3>1
    <3> QED BY <3>1, <3>3, <3>4, <3>5
  <2> HIDE DEF Right
  <2>5. n \in Right
    <3>1. 1 .. n \subseteq Right
      BY <2>3, <2>4, IntervalInduction
    <3>2. n \in 1 .. n
      BY <1>3
    <3> QED BY <3>1, <3>2
  <2> QED BY <1>1, <2>1, <2>5 DEF Right
<1> QED BY <1>2, <1>3

(* Vectors, one element longer or cut short.                               *)
LEMMA GrownVector ==
  ASSUME NEW s, NEW e, IsVector(s)
  PROVE  /\ IsVector(Append(s, e)) /\ Last(Append(s, e)) = e
         /\ DOMAIN Append(s, e) = 1 .. Len(s) + 1 /\ Append(s, e)[Len(s) + 1] = e
         /\ \A k \in 1 .. Len(s) : Append(s, e)[k] = s[k]
<1>0. PICK S : S = {s[k] : k \in DOMAIN s} \cup {e}
  BY Zenon
<1>1. PICK n \in Nat : n = Len(s) /\ S = {s[k] : k \in DOMAIN s} \cup {e}
  BY <1>0 DEF IsVector
<1>2. s \in Seq({s[k] : k \in DOMAIN s}) /\ DOMAIN s = 1 .. n
  BY <1>1, VectorIsSeq
<1>3. s \in Seq(S) /\ e \in S
  BY <1>1, <1>2, VectorGrows
<1>4. PICK new : new = Append(s, e)
  BY Zenon
<1>5. /\ new \in Seq(S) /\ Len(new) = n + 1 /\ new[n + 1] = e
      /\ \A k \in 1 .. n : new[k] = s[k]
  BY <1>1, <1>3, <1>4
<1>6. IsVector(new) /\ DOMAIN new = 1 .. n + 1
  BY <1>5, SeqIsVector, VectorIsSeq
<1> QED BY <1>1, <1>4, <1>5, <1>6 DEF Last

(* What is left of a vector has only elements of it.                       *)
LEMMA CutVector ==
  ASSUME NEW s, IsVector(s), NEW m \in Nat, m <= Len(s)
  PROVE  IsVector(SubSeq(s, 1, m)) /\ \A k \in DOMAIN SubSeq(s, 1, m) : k \in DOMAIN s /\ SubSeq(s, 1, m)[k] = s[k]
<1>0. PICK S : S = {s[k] : k \in DOMAIN s}
  BY Zenon
<1>1. PICK n \in Nat : n = Len(s) /\ S = {s[k] : k \in DOMAIN s}
  BY <1>0 DEF IsVector
<1>2. s \in Seq(S) /\ DOMAIN s = 1 .. n
  BY <1>1, VectorIsSeq
<1>3. PICK few : few = SubSeq(s, 1, m)
  BY Zenon
<1>4. few \in Seq(S) /\ Len(few) = m /\ \A k \in 1 .. m : few[k] = s[k]
  BY <1>1, <1>2, <1>3
<1>5. IsVector(few) /\ DOMAIN few = 1 .. m
  BY <1>4, SeqIsVector, VectorIsSeq
<1> QED BY <1>1, <1>2, <1>3, <1>4, <1>5

(* The linker and the encoder flatten as this module does.                 *)
LEMMA SameHelpers ==
  /\ \A s : Objects!FlattenSeq(s) = FlattenSeq(s) /\ Objects!ToSet(s) = ToSet(s)
  /\ \A s : Backend!FlattenSeq(s) = FlattenSeq(s) /\ Backend!ToSet(s) = ToSet(s)
<1>1. \A s : Objects!ToSet(s) = ToSet(s) /\ Backend!ToSet(s) = ToSet(s)
  BY DEF Objects!ToSet, Backend!ToSet, ToSet
<1>2. \A s : Objects!FlattenSeq(s) = FlattenSeq(s)
  BY DEF Objects!FlattenSeq, FlattenSeq
<1>3. \A s : Backend!FlattenSeq(s) = FlattenSeq(s)
  BY DEF Backend!FlattenSeq, FlattenSeq
<1> QED BY <1>1, <1>2, <1>3
-----------------------------------------------------------------------------
(* Programs: their instructions, and where their calls lead.               *)

Code(f) == UNION {ToSet(f.blocks[b].instructions) : b \in DOMAIN f.blocks}

(* The linker and the encoder look at all instructions of a function.      *)
LEMMA InstructionsAreCode ==
  ASSUME NEW f, HasCode(f)
  PROVE  /\ ToSet(Objects!Instructions(f)) = Code(f)
         /\ ToSet(Backend!Instructions(f)) = Code(f)
<1>1. PICK ss : ss = [b \in DOMAIN f.blocks |-> f.blocks[b].instructions]
  BY Zenon
<1>2. PICK n \in Nat : n = Len(f.blocks) /\ DOMAIN f.blocks = 1 .. n
  BY VectorIsSeq DEF HasCode
<1>3. IsVector(ss) /\ DOMAIN ss = DOMAIN f.blocks
  BY <1>1, <1>2 DEF IsVector
<1>4. AreVectors(ss)
  BY <1>1, <1>3 DEF AreVectors, HasCode
<1>5. ToSet(FlattenSeq(ss)) = Code(f)
  <2>1. ToSet(FlattenSeq(ss)) = UNION {ToSet(ss[b]) : b \in DOMAIN ss}
    BY <1>4, FlattenElements
  <2>2. \A b \in DOMAIN ss : ss[b] = f.blocks[b].instructions
    BY <1>1, <1>3
  <2> QED BY <1>3, <2>1, <2>2 DEF Code
<1>6. Objects!Instructions(f) = FlattenSeq(ss) /\ Backend!Instructions(f) = FlattenSeq(ss)
  BY <1>1, SameHelpers DEF Objects!Instructions, Backend!Instructions
<1> QED BY <1>5, <1>6

(* A program whose calls all name a function of its own.                   *)
CallsAreNamed(p) ==
  /\ IsVector(p.functions)
  /\ \A f \in DOMAIN p.functions :
       /\ HasCode(p.functions[f])
       /\ \A i \in Code(p.functions[f]) : i.op = "call" => Functions(p, i.operands[1].is) # {}

(* What link() makes of the objects it does not refuse.                    *)
LEMMA LinkedCallsAreNamed ==
  ASSUME NEW i \in Inputs, Objects!link(i.objects).ok
  PROVE  /\ CallsAreNamed(Objects!link(i.objects).program)
         /\ LET p == Objects!link(i.objects).program IN p.entryIndex \in DOMAIN p.functions
<1>1. PICK objects, fns : objects = i.objects /\ fns = Objects!Merged(objects)
  OBVIOUS
<1>2. PICK p : p = Objects!link(objects).program
  OBVIOUS
<1>3. /\ ~ Objects!Unresolved(fns)
      /\ Objects!Defining(fns, "main") # {}
      /\ p = [functions |-> fns, entryIndex |-> CHOOSE k \in DOMAIN fns : fns[k].name = "main"]
  <2>1. Objects!link(objects).ok
    BY <1>1
  <2>2. \A why : ~ Objects!Refused(why).ok
    BY DEF Objects!Refused
  <2> QED BY <1>1, <1>2, <2>1, <2>2 DEF Objects!link
<1>4. /\ IsVector(fns)
      /\ \A k \in DOMAIN fns : HasCode(fns[k])
  <2>1. AreVectors(objects)
    BY <1>1, InputsAssumption DEF AreVectors
  <2>2. fns = FlattenSeq(objects)
    BY <1>1, SameHelpers DEF Objects!Merged
  <2>3. IsVector(fns) /\ ToSet(fns) = UNION {ToSet(objects[o]) : o \in DOMAIN objects}
    BY <2>1, <2>2, FlattenElements
  <2>4. ASSUME NEW k \in DOMAIN fns PROVE HasCode(fns[k])
    <3>1. fns[k] \in UNION {ToSet(objects[o]) : o \in DOMAIN objects}
      BY <2>3 DEF ToSet
    <3>2. PICK o \in DOMAIN objects : \E f \in DOMAIN objects[o] : fns[k] = objects[o][f]
      BY <3>1 DEF ToSet
    <3> QED BY <1>1, <3>2, InputsAssumption
  <2> QED BY <2>3, <2>4
<1>5. ASSUME NEW k \in DOMAIN fns, NEW c \in Code(fns[k]), c.op = "call"
      PROVE  \E f \in DOMAIN fns : fns[f].name = c.operands[1].is
  <2>1. c \in ToSet(Objects!Instructions(fns[k]))
    BY <1>4, InstructionsAreCode
  <2>2. c \in Objects!CallsOf(fns[k])
    BY <1>5, <2>1, SameHelpers DEF Objects!CallsOf
  <2>3. Objects!Defining(fns, c.operands[1].is) # {}
    BY <1>3, <2>2 DEF Objects!Unresolved
  <2> QED BY <2>3 DEF Objects!Defining
<1>6. p.functions = fns /\ p.entryIndex = CHOOSE k \in DOMAIN fns : fns[k].name = "main"
  BY <1>3
<1>7. p.entryIndex \in DOMAIN fns
  BY <1>3, <1>6 DEF Objects!Defining
<1>8. CallsAreNamed(p)
  BY <1>4, <1>5, <1>6 DEF CallsAreNamed, Functions
<1> QED BY <1>1, <1>2, <1>6, <1>7, <1>8

-----------------------------------------------------------------------------
(* The encoder compiles a program whose calls are named.                   *)

Branchless(s) == IsVector(s) /\ \A w \in ToSet(s) : w.op # "bl"

(* Words without a bl stay without one when they are put together, ...     *)
LEMMA BranchlessConcat ==
  ASSUME NEW s, NEW t, Branchless(s), Branchless(t)
  PROVE  Branchless(s \o t)
<1>1. IsVector(s \o t) /\ ToSet(s \o t) = ToSet(s) \cup ToSet(t)
  BY ConcatElements DEF Branchless
<1> QED BY <1>1 DEF Branchless

(* ... two of them or many.                                                *)
LEMMA BranchlessFlatten ==
  ASSUME NEW ss, IsVector(ss), \A i \in DOMAIN ss : Branchless(ss[i])
  PROVE  Branchless(FlattenSeq(ss)) /\ Branchless(Backend!FlattenSeq(ss))
<1>1. AreVectors(ss)
  BY DEF AreVectors, Branchless
<1>2. IsVector(FlattenSeq(ss)) /\ ToSet(FlattenSeq(ss)) = UNION {ToSet(ss[i]) : i \in DOMAIN ss}
  BY <1>1, FlattenElements
<1>3. Branchless(FlattenSeq(ss))
  BY <1>2 DEF Branchless
<1> QED BY <1>3, SameHelpers

(* Vectors that are written out, and those that are counted.               *)
LEMMA BranchlessSmall ==
  /\ Branchless(<<>>)
  /\ \A w : w.op # "bl" => Branchless(<<w>>)
<1>1. IsVector(<<>>) /\ ToSet(<<>>) = {}
  BY DEF IsVector, ToSet
<1>2. ASSUME NEW w PROVE IsVector(<<w>>) /\ ToSet(<<w>>) = {w}
  BY DEF IsVector, ToSet
<1> QED BY <1>1, <1>2 DEF Branchless

Counted(F, m) == F = [a \in 1 .. m |-> F[a]]

(* A function on 1 .. m is a vector, an empty one if m is negative.        *)
LEMMA CountedVector ==
  ASSUME NEW m \in Int, NEW F, Counted(F, m)
  PROVE  IsVector(F) /\ DOMAIN F = 1 .. m
<1>0. F = [a \in 1 .. m |-> F[a]]
  BY DEF Counted
<1>1. DOMAIN F = 1 .. m
  BY <1>0
<1>2. CASE m \in Nat
  BY <1>0, <1>1, <1>2 DEF IsVector
<1>3. CASE m < 0
  <2>1. 1 .. m = {}
    BY <1>3
  <2>2. F = <<>>
    BY <1>0, <2>1
  <2>3. IsVector(<<>>)
    BY DEF IsVector
  <2> QED BY <1>1, <2>2, <2>3
<1> QED BY <1>1, <1>2, <1>3

(* The smaller of two numbers is a number.                                 *)
LEMMA SmallerOfTwo ==
  ASSUME NEW a \in Int, NEW b \in Int
  PROVE  Backend!Min({a, b}) \in Int
<1>1. \E l \in {a, b} : \A y \in {a, b} : l <= y
  OBVIOUS
<1>2. Backend!Min({a, b}) \in {a, b}
  BY <1>1 DEF Backend!Min
<1> QED BY <1>2

(* Whatever the size of the frame is.                                      *)
LEMMA MoveSpIsBranchless ==
  ASSUME NEW op \in {"addsp", "subsp"}, NEW f
  PROVE  Branchless(Backend!MoveSp(op, f))
<1>1. PICK s : s = Backend!MoveSp(op, f)
  OBVIOUS
<1>2. s = <<>> \/ \E w : s = <<w>> /\ w.op # "bl"
  BY <1>1 DEF Backend!MoveSp
<1> QED BY <1>1, <1>2, BranchlessSmall

(* What the encoder emits besides calls.                                   *)
LEMMA BranchlessPieces ==
  /\ \A r, slot : Branchless(Backend!Str(r, slot))
  /\ \A r, o : Branchless(Backend!LoadOperand(r, o))
  /\ \A fn_ : Branchless(Backend!Epilogue(fn_))
<1>1. \A r, slot : Branchless(Backend!Str(r, slot)) /\ Branchless(Backend!Ldr(r, slot))
  <2>1. ASSUME NEW r, NEW slot, NEW op, op # "bl" PROVE Branchless(Backend!SlotAccess(op, r, slot))
    <3>1. PICK w : Backend!SlotAccess(op, r, slot) = <<w>> /\ w.op # "bl"
      <4>1. PICK o : o = CASE slot < FieldRange -> op
                           [] FieldRange <= slot /\ slot < 2 * FieldRange -> "ldr"
                           [] OTHER -> "other"
        OBVIOUS
      <4>2. o # "bl"
        BY <2>1, <4>1
      <4>3. PICK w : w = [op |-> o, rt |-> r, slot |-> slot % FieldRange]
        BY Zenon
      <4>4. w.op # "bl"
        BY <4>2, <4>3
      <4>5. Backend!SlotAccess(op, r, slot) = <<w>>
        BY <4>1, <4>3, Zenon DEF Backend!SlotAccess
      <4> QED BY <4>4, <4>5
    <3> QED BY <3>1, BranchlessSmall
  <2> QED BY <2>1 DEF Backend!Str, Backend!Ldr
<1>2. \A r, n : Branchless(Backend!LoadImm64(r, n))
  <2> SUFFICES ASSUME NEW r, NEW n PROVE Branchless(Backend!LoadImm64(r, n))
    OBVIOUS
  <2>1. PICK s : s = Backend!LoadImm64(r, n)
    OBVIOUS
  <2>2. /\ DOMAIN s = 1 .. 4 /\ s = [k \in 1 .. 4 |-> s[k]]
        /\ \A k \in 1 .. 4 : s[k].op # "bl"
    BY <2>1 DEF Backend!LoadImm64
  <2>3. IsVector(s)
    <3>1. Counted(s, 4) /\ 4 \in Int
      BY <2>2 DEF Counted
    <3> QED BY <3>1, CountedVector
  <2> QED BY <2>1, <2>2, <2>3 DEF Branchless, ToSet
<1>3. \A r, o : Branchless(Backend!LoadOperand(r, o))
  BY <1>1, <1>2 DEF Backend!LoadOperand
<1>4. \A fn_ : Branchless(Backend!MoveSp("addsp", fn_)) /\ Branchless(Backend!MoveSp("subsp", fn_))
  BY MoveSpIsBranchless
<1>5. Branchless(<<[op |-> "ldp"], [op |-> "ret"]>>)
  <2>1. PICK s : s = <<[op |-> "ldp"], [op |-> "ret"]>>
    BY Zenon
  <2>2. IsVector(s) /\ \A w \in ToSet(s) : w.op # "bl"
    BY <2>1 DEF IsVector, ToSet
  <2> QED BY <2>1, <2>2 DEF Branchless
<1>6. \A fn_ : Branchless(Backend!Epilogue(fn_))
  BY <1>4, <1>5, BranchlessConcat DEF Backend!Epilogue
<1> QED BY <1>1, <1>3, <1>6
(* A call is compiled to words with one bl, to the function it names; no   *)
(* other instruction to one with a bl.                                     *)
Emission(words, i) ==
  /\ IsVector(words)
  /\ \A w \in ToSet(words) : w.op = "bl" => i.op = "call" /\ w.callee = i.operands[1].is

(* Words without a bl are what any instruction may be compiled to.         *)
LEMMA BranchlessEmission ==
  ASSUME NEW words, NEW i, Branchless(words)
  PROVE  Emission(words, i)
BY DEF Emission, Branchless

(* Two parts of what an instruction is compiled to make one.               *)
LEMMA EmissionConcat ==
  ASSUME NEW s, NEW t, NEW i, Emission(s, i), Emission(t, i)
  PROVE  Emission(s \o t, i)
<1>1. IsVector(s \o t) /\ ToSet(s \o t) = ToSet(s) \cup ToSet(t)
  BY ConcatElements DEF Emission
<1> QED BY <1>1 DEF Emission

(* A call is compiled to a bl to what it names, ...                        *)
LEMMA CallEmission ==
  ASSUME NEW f, NEW i, i.op = "call", IsVector(i.operands)
  PROVE  Emission(Backend!Emitted(f, i), i)
<1>1. PICK m \in Int : m = Backend!Min({Len(i.operands) - 1, ArgRegs})
  BY SmallerOfTwo, ToolchainAssumption DEF IsVector
<1>2. PICK ss : ss = [a \in 1 .. m |-> Backend!LoadOperand(a - 1, i.operands[a + 1])]
  BY Zenon
<1>3. Branchless(Backend!FlattenSeq(ss))
  <2>1. Counted(ss, m)
    BY <1>2 DEF Counted
  <2>2. IsVector(ss) /\ DOMAIN ss = 1 .. m
    BY <2>1, CountedVector
  <2>3. \A a \in DOMAIN ss : Branchless(ss[a])
    BY <1>2, <2>2, BranchlessPieces
  <2> QED BY <2>2, <2>3, BranchlessFlatten
<1>4. PICK bl : bl = <<[op |-> "bl", callee |-> i.operands[1].is]>>
  BY Zenon
<1>5. Emission(bl, i)
  <2>1. IsVector(bl) /\ ToSet(bl) = {[op |-> "bl", callee |-> i.operands[1].is]}
    BY <1>4 DEF IsVector, ToSet
  <2> QED BY <2>1 DEF Emission
<1>6. PICK str : str = IF i.dest = NoDest THEN <<>> ELSE Backend!Str(0, i.dest)
  OBVIOUS
<1>7. Branchless(str)
  BY <1>6, BranchlessPieces, BranchlessSmall
<1>8. Backend!Emitted(f, i) = (Backend!FlattenSeq(ss) \o bl) \o str
  BY <1>1, <1>2, <1>4, <1>6, Zenon DEF Backend!Emitted, Backend!AluOp, Backend!condCode, Backend!NoDest, NoDest
<1>9. Emission(Backend!FlattenSeq(ss) \o bl, i) /\ Emission(str, i)
  BY <1>3, <1>5, <1>7, BranchlessEmission, EmissionConcat
<1> QED BY <1>8, <1>9, EmissionConcat

(* ... any other instruction to none.                                      *)
LEMMA OtherEmission ==
  ASSUME NEW f, NEW i, i.op \in Backend!NativeOps, i.op # "call"
  PROVE  Branchless(Backend!Emitted(f, i))
<1>1. CASE i.op = "mov"
  <2>1. Backend!Emitted(f, i) = Backend!LoadOperand(9, i.operands[1]) \o Backend!Str(9, i.dest)
    BY <1>1 DEF Backend!Emitted, Backend!Scratch0, Backend!AluOp, Backend!condCode
  <2> QED BY <2>1, BranchlessPieces, BranchlessConcat
<1>2. CASE i.op \in DOMAIN Backend!AluOp
  <2>0. i.op \in {"add", "sub", "mul", "div"} /\ Backend!AluOp[i.op] \in {"add", "sub", "mul", "sdiv"}
    BY <1>2 DEF Backend!AluOp
  <2>1. PICK w : w = [op |-> Backend!AluOp[i.op], rd |-> 11, rn |-> 9, rm |-> 10]
    BY Zenon
  <2>2. Branchless(<<w>>)
    <3>1. w.op = Backend!AluOp[i.op]
      BY <2>1
    <3> QED BY <2>0, <3>1, BranchlessSmall
  <2>3. i.op # "mov"
    BY <1>2 DEF Backend!AluOp
  <2>4. Backend!Emitted(f, i) =
          ((Backend!LoadOperand(9, i.operands[1]) \o Backend!LoadOperand(10, i.operands[2])) \o <<w>>)
             \o Backend!Str(11, i.dest)
    BY <1>2, <2>0, <2>1, <2>3, Zenon DEF Backend!Emitted, Backend!Scratch0, Backend!Scratch1, Backend!Scratch2,
             Backend!condCode
  <2> QED BY <2>2, <2>4, BranchlessPieces, BranchlessConcat
<1>3. CASE i.op = "cmp"
  <2>1. PICK w : w = [op |-> "cmp", rn |-> 9, rm |-> 10]
    BY Zenon
  <2>2. Branchless(<<w>>)
    BY <2>1, BranchlessSmall
  <2>3. Backend!Emitted(f, i) =
          (Backend!LoadOperand(9, i.operands[1]) \o Backend!LoadOperand(10, i.operands[2])) \o <<w>>
    BY <1>3, <2>1 DEF Backend!Emitted, Backend!Scratch0, Backend!Scratch1, Backend!AluOp,
             Backend!condCode
  <2> QED BY <2>2, <2>3, BranchlessPieces, BranchlessConcat
<1>4. CASE i.op = "jmp"
  <2>1. PICK w : w = [op |-> "b", label |-> i.operands[1].is]
    BY Zenon
  <2>2. Backend!Emitted(f, i) = <<w>>
    BY <1>4, <2>1 DEF Backend!Emitted, Backend!AluOp, Backend!condCode
  <2> QED BY <2>1, <2>2, BranchlessSmall
<1>5. CASE i.op \in DOMAIN Backend!condCode
  <2>1. PICK w : w = [op |-> "b.cond", cond |-> Backend!condCode[i.op], label |-> i.operands[1].is]
    BY Zenon
  <2>2. Backend!Emitted(f, i) = <<w>>
    BY <1>5, <2>1, Zenon DEF Backend!Emitted, Backend!AluOp, Backend!condCode
  <2> QED BY <2>1, <2>2, BranchlessSmall
<1>6. CASE i.op = "ret"
  <2>1. Backend!Emitted(f, i) = Backend!LoadOperand(0, i.operands[1]) \o Backend!Epilogue(f)
    BY <1>6 DEF Backend!Emitted, Backend!AluOp, Backend!condCode
  <2> QED BY <2>1, BranchlessPieces, BranchlessConcat
<1>7. CASE i.op = "retvoid"
  <2>1. Backend!Emitted(f, i) = Backend!Epilogue(f)
    BY <1>7 DEF Backend!Emitted, Backend!AluOp, Backend!condCode
  <2> QED BY <2>1, BranchlessPieces
<1> QED BY <1>1, <1>2, <1>3, <1>4, <1>5, <1>6, <1>7 DEF Backend!NativeOps

(* The prologue of a function calls nothing.                               *)
LEMMA PrologueIsBranchless ==
  ASSUME NEW f, HasCode(f)
  PROVE  Branchless(Backend!Prologue(f))
<1>1. PICK m \in Int : m = Backend!Min({Len(f.params), ArgRegs})
  <2>1. PICK l \in Int : l = Len(f.params)
    BY DEF HasCode, IsVector
  <2>2. Backend!Min({l, ArgRegs}) \in Int
    BY SmallerOfTwo, ToolchainAssumption
  <2> QED BY <2>1, <2>2
<1>2. PICK ss : ss = [p \in 1 .. m |-> Backend!Str(p - 1, p - 1)]
  BY Zenon
<1>3. Branchless(Backend!FlattenSeq(ss))
  <2>1. Counted(ss, m)
    BY <1>2 DEF Counted
  <2>2. IsVector(ss) /\ DOMAIN ss = 1 .. m
    BY <2>1, CountedVector
  <2>3. \A a \in DOMAIN ss : Branchless(ss[a])
    BY <1>2, <2>2, BranchlessPieces
  <2> QED BY <2>2, <2>3, BranchlessFlatten
<1>4. Branchless(<<[op |-> "stp"]>>)
  BY BranchlessSmall
<1>5. Branchless(Backend!MoveSp("subsp", f))
  BY MoveSpIsBranchless
<1>6. Backend!Prologue(f) = (<<[op |-> "stp"]>> \o Backend!MoveSp("subsp", f)) \o Backend!FlattenSeq(ss)
  BY <1>1, <1>2 DEF Backend!Prologue
<1> QED BY <1>3, <1>4, <1>5, <1>6, BranchlessConcat

(* Every bl of a compiled function is to what a call of it names.          *)
LEMMA CalleesAreCalled ==
  ASSUME NEW f, HasCode(f), Backend!Supported(f), NEW c,
         c \in DOMAIN Backend!arm64CompileFunction(f).calls
  PROVE  \E i \in Code(f) : /\ i.op = "call"
                            /\ Backend!arm64CompileFunction(f).calls[c].callee = i.operands[1].is
<1>1. PICK parts, words : parts = Backend!Parts(f) /\ words = Backend!FlattenSeq(parts)
  OBVIOUS
<1>2. PICK n \in Nat : n = Len(f.blocks) /\ DOMAIN f.blocks = 1 .. n
  BY VectorIsSeq DEF HasCode
<1>3. PICK bodies : bodies = [b \in DOMAIN f.blocks |->
                                Backend!FlattenSeq([k \in DOMAIN f.blocks[b].instructions |->
                                                      Backend!Emitted(f, f.blocks[b].instructions[k])])]
  BY Zenon
<1>4. parts = <<Backend!Prologue(f)>> \o bodies
  BY <1>1, <1>3 DEF Backend!Parts
<1>5. IsVector(bodies) /\ DOMAIN bodies = 1 .. n
  <2>1. Counted(bodies, n) /\ n \in Int
    BY <1>2, <1>3 DEF Counted
  <2> QED BY <2>1, CountedVector
<1>6. ASSUME NEW i \in Code(f) PROVE Emission(Backend!Emitted(f, i), i)
  <2>1. IsVector(i.operands)
    BY DEF Code, HasCode
  <2>2. i \in ToSet(Backend!Instructions(f))
    BY InstructionsAreCode
  <2>3. i.op \in Backend!NativeOps
    BY <2>2, SameHelpers DEF Backend!Supported
  <2> QED BY <2>1, <2>3, CallEmission, OtherEmission, BranchlessEmission
<1>7. ASSUME NEW b \in 1 .. n
      PROVE  /\ IsVector(bodies[b])
             /\ \A w \in ToSet(bodies[b]) : w.op = "bl" =>
                  \E i \in Code(f) : i.op = "call" /\ w.callee = i.operands[1].is
  <2>1. PICK cs, ss : /\ cs = f.blocks[b].instructions
                      /\ ss = [k \in DOMAIN cs |-> Backend!Emitted(f, cs[k])]
    BY Zenon
  <2>2. IsVector(cs) /\ \A k \in DOMAIN cs : cs[k] \in Code(f)
    BY <1>2, <2>1 DEF HasCode, Code, ToSet
  <2>3. PICK m \in Nat : DOMAIN cs = 1 .. m
    BY <2>2, VectorIsSeq, Zenon
  <2>4. IsVector(ss) /\ DOMAIN ss = 1 .. m
    <3>1. Counted(ss, m) /\ m \in Int
      BY <2>1, <2>3 DEF Counted
    <3> QED BY <3>1, CountedVector
  <2>5. \A k \in 1 .. m : Emission(ss[k], cs[k]) /\ cs[k] \in Code(f)
    BY <1>6, <2>1, <2>2, <2>3
  <2>6. AreVectors(ss)
    BY <2>4, <2>5 DEF AreVectors, Emission
  <2>7. bodies[b] = FlattenSeq(ss)
    BY <1>2, <1>3, <2>1, SameHelpers
  <2>8. IsVector(bodies[b]) /\ ToSet(bodies[b]) = UNION {ToSet(ss[k]) : k \in DOMAIN ss}
    BY <2>6, <2>7, FlattenElements
  <2> QED BY <2>4, <2>5, <2>8 DEF Emission
<1>8. PICK first : first = <<Backend!Prologue(f)>>
  BY Zenon
<1>9. IsVector(first) /\ ToSet(first) = {Backend!Prologue(f)} /\ Branchless(Backend!Prologue(f))
  BY <1>8, PrologueIsBranchless DEF IsVector, ToSet
<1>10. IsVector(parts) /\ ToSet(parts) = {Backend!Prologue(f)} \cup {bodies[b] : b \in 1 .. n}
  <2>1. IsVector(first \o bodies) /\ ToSet(first \o bodies) = ToSet(first) \cup ToSet(bodies)
    BY <1>5, <1>9, ConcatElements
  <2>2. ToSet(bodies) = {bodies[b] : b \in 1 .. n}
    BY <1>5 DEF ToSet
  <2> QED BY <1>4, <1>8, <1>9, <2>1, <2>2
<1>11. \A s \in ToSet(parts) :
         /\ IsVector(s)
         /\ \A w \in ToSet(s) : w.op = "bl" => \E i \in Code(f) : i.op = "call" /\ w.callee = i.operands[1].is
  BY <1>7, <1>9, <1>10 DEF Branchless
<1>12. AreVectors(parts)
  BY <1>10, <1>11 DEF AreVectors, ToSet
<1>13. ToSet(words) = UNION {ToSet(parts[k]) : k \in DOMAIN parts}
  BY <1>1, <1>12, FlattenElements, SameHelpers
<1>14. \A w \in ToSet(words) : w.op = "bl" => \E i \in Code(f) : i.op = "call" /\ w.callee = i.operands[1].is
  BY <1>11, <1>13 DEF ToSet
<1>15. /\ c \in DOMAIN words /\ words[c].op = "bl"
       /\ Backend!arm64CompileFunction(f).calls[c].callee = words[c].callee
  BY <1>1 DEF Backend!arm64CompileFunction
<1>16. words[c] \in ToSet(words)
  BY <1>15 DEF ToSet
<1> QED BY <1>14, <1>15, <1>16

(* A program that is compiled at all has its calls resolved.               *)
LEMMA NamedCallsResolve ==
  ASSUME NEW p, CallsAreNamed(p)
  PROVE  ~ Backend!compileProgram(p).ok => Backend!compileProgram(p).error = "not supported"
<1>1. PICK compiled : compiled = [f \in DOMAIN p.functions |-> Backend!arm64CompileFunction(p.functions[f])]
  BY Zenon
<1>2. CASE \E f \in DOMAIN p.functions : ~ Backend!Compilable(p.functions[f])
  BY <1>2, Zenon DEF Backend!compileProgram, Backend!Failed
<1>3. CASE \A f \in DOMAIN p.functions : Backend!Compilable(p.functions[f])
  <2>1. ASSUME NEW f \in DOMAIN compiled, NEW c \in DOMAIN compiled[f].calls
        PROVE  Backend!Named(compiled, compiled[f].calls[c].callee) # {}
    <3>1. PICK fn_ : fn_ = p.functions[f]
      OBVIOUS
    <3>2. /\ f \in DOMAIN p.functions /\ HasCode(fn_) /\ Backend!Supported(fn_)
          /\ compiled[f] = Backend!arm64CompileFunction(fn_)
      BY <1>1, <1>3, <3>1 DEF CallsAreNamed, Backend!Compilable
    <3>3. PICK i \in Code(fn_) : i.op = "call" /\ compiled[f].calls[c].callee = i.operands[1].is
      BY <3>2, CalleesAreCalled
    <3>4. PICK g \in DOMAIN p.functions : p.functions[g].name = i.operands[1].is
      BY <3>1, <3>2, <3>3 DEF CallsAreNamed, Functions
    <3>5. g \in DOMAIN compiled /\ compiled[g].name = p.functions[g].name
      BY <1>1, <3>4 DEF Backend!arm64CompileFunction
    <3> QED BY <3>3, <3>4, <3>5 DEF Backend!Named
  <2>2. Backend!Resolved(compiled)
    BY <2>1 DEF Backend!Resolved
  <2>3. Backend!compileProgram(p).ok
    BY <1>1, <1>3, <2>2 DEF Backend!compileProgram
  <2> QED BY <2>3
<1> QED BY <1>2, <1>3
-----------------------------------------------------------------------------
(* The interpreter: every frame is at an instruction of the program, or    *)
(* past the last of a block.                                               *)

FrameFits(p, f) ==
  /\ {"fn", "block", "at"} \subseteq DOMAIN f
  /\ f.fn \in DOMAIN p.functions
  /\ f.block \in DOMAIN p.functions[f.fn].blocks
  /\ f.at \in Nat \ {0}

FramesFit(p, fs) == IsVector(fs) /\ \A d \in DOMAIN fs : FrameFits(p, fs[d])

(* The greatest of some positions is one of them.                          *)
LEMMA MaxOfPositions ==
  ASSUME NEW n \in Nat, NEW S, S \subseteq 1 .. n, S # {}
  PROVE  Max(S) \in S
<1>1. PICK T : T = {n - j : j \in S}
  BY Zenon
<1>2. T \in SUBSET Nat /\ T # {}
  <2>1. ASSUME NEW j \in 1 .. n PROVE n - j \in Nat
    OBVIOUS
  <2> QED BY <1>1, <2>1, Zenon
<1>3. PICK m \in T : \A k \in T : m <= k
  BY <1>2, LeastElement
<1>4. PICK j \in S : m = n - j
  BY <1>1, <1>3
<1>5. ASSUME NEW y \in S PROVE j >= y
  <2>1. n - j <= n - y
    BY <1>1, <1>3, <1>4
  <2>2. j \in 1 .. n /\ y \in 1 .. n
    OBVIOUS
  <2>3. j \in Int /\ y \in Int
    BY <2>2
  <2> QED BY <2>1, <2>3
<1>6. \E z \in S : \A y \in S : z >= y
  BY <1>4, <1>5
<1> QED BY <1>6, Zenon DEF Max

(* Frames that fit, with one more that does, ...                           *)
LEMMA OneMoreFrame ==
  ASSUME NEW p, NEW fs, NEW g, FramesFit(p, fs), FrameFits(p, g)
  PROVE  FramesFit(p, Append(fs, g)) /\ Last(Append(fs, g)) = g
<1>1. PICK n \in Nat : n = Len(fs) /\ DOMAIN fs = 1 .. n
  BY VectorIsSeq DEF FramesFit
<1>2. PICK new : new = Append(fs, g)
  BY Zenon
<1>3. /\ IsVector(new) /\ Last(new) = g /\ DOMAIN new = 1 .. n + 1 /\ new[n + 1] = g
      /\ \A k \in 1 .. n : new[k] = fs[k]
  BY <1>1, <1>2, GrownVector DEF FramesFit
<1>4. ASSUME NEW d \in 1 .. n + 1 PROVE FrameFits(p, new[d])
  <2>1. CASE d \in 1 .. n
    BY <1>1, <1>3, <2>1 DEF FramesFit
  <2>2. d = n + 1 \/ d \in 1 .. n
    OBVIOUS
  <2> QED BY <1>3, <2>1, <2>2
<1> QED BY <1>2, <1>3, <1>4 DEF FramesFit

(* ... without the last of them, ...                                       *)
LEMMA FewerFrames ==
  ASSUME NEW p, NEW fs, FramesFit(p, fs), NEW m \in Nat, m <= Len(fs)
  PROVE  FramesFit(p, SubSeq(fs, 1, m))
BY CutVector DEF FramesFit

(* ... and the last alone.                                                 *)
LEMMA TopFits ==
  ASSUME NEW p, NEW fs, FramesFit(p, fs), fs # <<>>
  PROVE  FrameFits(p, Last(fs)) /\ FramesFit(p, Front(fs))
<1>1. PICK n \in Nat : n = Len(fs) /\ DOMAIN fs = 1 .. n
  BY VectorIsSeq DEF FramesFit
<1>2. n # 0
  BY <1>1 DEF FramesFit, IsVector
<1>3. n - 1 \in Nat /\ n - 1 <= Len(fs) /\ n \in 1 .. n
  BY <1>1, <1>2
<1>4. FramesFit(p, Front(fs))
  BY <1>1, <1>3, FewerFrames DEF Front
<1> QED BY <1>1, <1>3, <1>4 DEF Last, FramesFit

Unknown == [kind |-> "threw", what |-> "call to unknown function"]

(* The inductive invariant.  Before a program is linked there is none, and *)
(* nothing runs; from then on its calls are named and its frames fit it.   *)
LInv ==
  /\ input \in Inputs
  /\ CallsAreNamed(program)
  /\ FramesFit(program, frames)
  /\ stage = "compile" => frames = <<>> /\ result = Pending
  /\ stage = "load" => program.entryIndex \in DOMAIN program.functions
  /\ result = Unknown => instr.op = "tailcall"
  /\ stage # "unresolved function"

(* What an instruction leaves.                                             *)
StepFits ==
  /\ program' = program
  /\ FramesFit(program, frames')
  /\ result' = Unknown => instr'.op = "tailcall"

(* What throws leaves the frames as they are.                              *)
LEMMA ThrowFits ==
  ASSUME NEW what, Throw(what), FramesFit(program, frames),
         what = "call to unknown function" => instr.op = "tailcall"
  PROVE  StepFits
<1>1. program' = program /\ frames' = frames /\ result' = [kind |-> "threw", what |-> what]
  BY DEF Throw
<1>2. instr' = instr
  BY <1>1 DEF instr, block, fn, frame
<1>3. result' = Unknown => what = "call to unknown function"
  BY <1>1 DEF Unknown
<1> QED BY <1>1, <1>2, <1>3 DEF StepFits

(* The running frame may be replaced by one that fits.                     *)
LEMMA ReplaceFits ==
  ASSUME NEW f, Replace(f), LInv, Executing, FrameFits(program, f)
  PROVE  StepFits
<1>1. program' = program /\ result' = Pending /\ frames' = Append(Front(frames), f)
  BY DEF Replace, Executing
<1>2. FramesFit(program, frames')
  BY <1>1, TopFits, OneMoreFrame DEF LInv, Executing
<1> QED BY <1>1, <1>2 DEF StepFits, Unknown, Pending

(* A frame that goes on: where it is has not changed.                      *)
Alike(f) ==
  {"fn", "block", "at"} \subseteq DOMAIN f /\ f.fn = frame.fn /\ f.block = frame.block /\ f.at = frame.at

(* The running frame fits the program.                                     *)
LEMMA FrameIsAlike ==
  ASSUME LInv, Executing
  PROVE  Alike(frame) /\ FrameFits(program, frame)
<1>1. FrameFits(program, frame)
  BY TopFits DEF LInv, Executing, frame
<1> QED BY <1>1 DEF Alike, FrameFits

(* The next instruction of the same block.                                 *)
LEMMA ContinueFits ==
  ASSUME NEW f, Continue(f), LInv, Executing, Alike(f)
  PROVE  StepFits
<1>1. PICK g : g = [f EXCEPT !.at = @ + 1]
  BY Zenon
<1>2. FrameFits(program, g)
  BY <1>1, FrameIsAlike DEF Alike, FrameFits
<1>3. Replace(g)
  BY <1>1 DEF Continue, Become
<1> QED BY <1>2, <1>3, ReplaceFits

(* A register that is written does not move the frame.                     *)
LEMMA WritesFits ==
  ASSUME NEW v, Writes(v), LInv, Executing
  PROVE  StepFits
<1>1. PICK g : g = [frame EXCEPT !.regs[instr.dest] = v]
  BY Zenon
<1>2. Alike(g)
  BY <1>1, FrameIsAlike DEF Alike
<1> QED BY <1>1, <1>2, ContinueFits DEF Writes

(* A jump is to a block the function has.                                  *)
LEMMA JumpFits ==
  ASSUME NEW label, JumpTo(label), LInv, Executing
  PROVE  StepFits
<1>1. CASE Labelled(label) = {}
  <2>1. Throw("branch to unknown block")
    BY <1>1 DEF JumpTo
  <2> QED BY <2>1, ThrowFits DEF LInv
<1>2. CASE Labelled(label) # {}
  <2>1. PICK b, g : b = Max(Labelled(label)) /\ g = [frame EXCEPT !.block = b, !.at = 1]
    OBVIOUS
  <2>2. PICK n \in Nat : DOMAIN fn.blocks = 1 .. n
    <3>1. HasCode(fn)
      BY FrameIsAlike DEF LInv, FrameFits, CallsAreNamed, fn
    <3> QED BY <3>1, VectorIsSeq DEF HasCode
  <2>3. b \in DOMAIN fn.blocks
    <3>1. Labelled(label) \subseteq 1 .. n
      BY <2>2 DEF Labelled
    <3> QED BY <1>2, <2>1, <2>2, <3>1, MaxOfPositions
  <2>4. FrameFits(program, g)
    BY <2>1, <2>3, FrameIsAlike DEF FrameFits, fn
  <2>5. Replace(g)
    BY <1>2, <2>1 DEF JumpTo, Become
  <2> QED BY <2>4, <2>5, ReplaceFits
<1> QED BY <1>1, <1>2
(* Calls: the frame that is new is at the first instruction of a function. *)
LEMMA CallFits ==
  ASSUME CallsAreNamed(program), FramesFit(program, frames), result = Pending,
         NEW f \in DOMAIN program.functions, NEW args,
         NEW below, FramesFit(program, below), call(program, f, args, below)
  PROVE  StepFits
<1>1. CASE Throw("wrong number of arguments") \/ Throw("function has no blocks")
  BY <1>1, ThrowFits
<1>2. CASE /\ program.functions[f].blocks # <<>>
           /\ frames' = Append(below, NewFrame(f, args))
           /\ UNCHANGED <<program, memory, result>>
  <2>1. 1 \in DOMAIN program.functions[f].blocks
    <3>1. IsVector(program.functions[f].blocks)
      BY DEF CallsAreNamed, HasCode
    <3>2. PICK bs : bs = program.functions[f].blocks
      OBVIOUS
    <3>3. PICK n \in Nat : n = Len(bs) /\ DOMAIN bs = 1 .. n
      BY <3>1, <3>2, VectorIsSeq
    <3>4. n # 0
      BY <1>2, <3>1, <3>2, <3>3 DEF IsVector
    <3> QED BY <3>2, <3>3, <3>4
  <2>2. FrameFits(program, NewFrame(f, args))
    BY <2>1 DEF FrameFits, NewFrame
  <2>3. FramesFit(program, frames')
    BY <1>2, <2>2, OneMoreFrame
  <2> QED BY <1>2, <2>3 DEF StepFits, Unknown, Pending
<1> QED BY <1>1, <1>2 DEF call

(* A call by name is to a function the program has, or throws.             *)
LEMMA CallNamedFits ==
  ASSUME LInv, Executing, NEW below, FramesFit(program, below), CallNamed(below),
         \/ instr.op = "tailcall"
         \/ Functions(program, instr.operands[1].is) # {}
  PROVE  StepFits
<1>1. PICK fs : fs = Functions(program, instr.operands[1].is)
  OBVIOUS
<1>2. CASE fs = {} /\ Throw("call to unknown function")
  BY <1>1, <1>2, ThrowFits DEF LInv
<1>3. CASE Throw("symbol used as a value")
  BY <1>3, ThrowFits DEF LInv
<1>4. CASE fs # {} /\ call(program, Max(fs), callArgs, below)
  <2>1. PICK n \in Nat : DOMAIN program.functions = 1 .. n
    BY VectorIsSeq DEF LInv, CallsAreNamed
  <2>2. fs \subseteq 1 .. n
    BY <1>1, <2>1 DEF Functions
  <2>3. Max(fs) \in DOMAIN program.functions
    BY <1>4, <2>1, <2>2, MaxOfPositions, Zenon
  <2> QED BY <1>4, <2>3, CallFits DEF LInv, Executing
<1> QED BY <1>1, <1>2, <1>3, <1>4 DEF CallNamed

(* The instruction a frame is at is one of the program.                    *)
LEMMA InstrIsCode ==
  ASSUME LInv, Executing, frame.at <= Len(block.instructions)
  PROVE  instr \in Code(fn) /\ frame.fn \in DOMAIN program.functions
<1>1. FrameFits(program, frame)
  BY FrameIsAlike
<1>2. frame.fn \in DOMAIN program.functions /\ frame.block \in DOMAIN fn.blocks /\ HasCode(fn)
  BY <1>1 DEF FrameFits, LInv, CallsAreNamed, fn
<1>3. PICK n \in Nat : n = Len(block.instructions) /\ DOMAIN block.instructions = 1 .. n
  BY <1>2, VectorIsSeq DEF HasCode, block
<1>4. frame.at \in DOMAIN block.instructions
  BY <1>1, <1>3 DEF FrameFits
<1>5. instr \in ToSet(block.instructions)
  BY <1>4 DEF ToSet, instr
<1> QED BY <1>2, <1>5 DEF Code, block

(* A return leaves the frames below, the last past its call.               *)
LEMMA ReturnFits ==
  ASSUME LInv, Executing, NEW v, Return(v)
  PROVE  StepFits
<1>1. CASE frames' = <<>> /\ program' = program /\ result' = [kind |-> "value", value |-> v]
  <2>1. FramesFit(program, frames')
    BY <1>1 DEF FramesFit, IsVector
  <2> QED BY <1>1, <2>1 DEF StepFits, Unknown
<1>2. CASE /\ Callers # {}
           /\ frames' = Append(SubSeq(frames, 1, Max(Callers) - 1), Received(frames[Max(Callers)], v))
           /\ UNCHANGED <<program, memory, result>>
  <2>1. PICK n \in Nat : n = Len(frames) /\ DOMAIN frames = 1 .. n
    BY VectorIsSeq DEF LInv, FramesFit
  <2>2. PICK m : m = Max(Callers)
    OBVIOUS
  <2>3. m \in 1 .. n
    <3>1. Callers \subseteq 1 .. n
      BY <2>1 DEF Callers
    <3> QED BY <1>2, <2>2, <3>1, MaxOfPositions, Zenon
  <2>4. FramesFit(program, SubSeq(frames, 1, m - 1))
    <3>1. m - 1 \in Nat /\ m - 1 <= Len(frames)
      BY <2>1, <2>3
    <3> QED BY <3>1, FewerFrames DEF LInv
  <2>5. FrameFits(program, Received(frames[m], v))
    <3>1. FrameFits(program, frames[m])
      BY <2>1, <2>3 DEF LInv, FramesFit
    <3> QED BY <3>1 DEF FrameFits, Received
  <2>6. FramesFit(program, frames')
    BY <1>2, <2>2, <2>4, <2>5, OneMoreFrame
  <2> QED BY <1>2, <2>6 DEF StepFits, Unknown, Pending, Executing
<1> QED BY <1>1, <1>2, Zenon DEF Return
-----------------------------------------------------------------------------
(* Each instruction.                                                       *)

(* Calls and returns.                                                      *)
LEMMA CallsFit ==
  ASSUME LInv, Call \/ Tailcall \/ Callindirect \/ Ret \/ RetVoid
  PROVE  StepFits
<1>1. CASE Call
  <2>1. Executing /\ frame.at <= Len(block.instructions) /\ instr.op = "call" /\ CallNamed(frames)
    BY <1>1 DEF Call, At
  <2>2. Functions(program, instr.operands[1].is) # {}
    BY <2>1, InstrIsCode DEF LInv, CallsAreNamed, fn
  <2> QED BY <2>1, <2>2, CallNamedFits DEF LInv
<1>2. CASE Tailcall
  <2>1. PICK f, below : f = [frame EXCEPT !.waits = TRUE] /\ below = Append(Front(frames), f)
    BY Zenon
  <2>2. Executing /\ instr.op = "tailcall" /\ CallNamed(below)
    BY <1>2, <2>1 DEF Tailcall, At
  <2>3. FrameFits(program, f)
    BY <2>1, <2>2, FrameIsAlike DEF FrameFits
  <2>4. FramesFit(program, below)
    BY <2>1, <2>2, <2>3, TopFits, OneMoreFrame DEF LInv, Executing
  <2> QED BY <2>2, <2>4, CallNamedFits
<1>3. CASE Callindirect
  <2>1. PICK index : index = readOperand(1, "i64").num
    OBVIOUS
  <2>2. Executing
    BY <1>3 DEF Callindirect, At
  <2>3. CASE Throw("callindirect out of range")
    BY <2>3, ThrowFits DEF LInv
  <2>4. CASE /\ ~ BadIndex(index, Len(program.functions))
             /\ call(program, SizeT(index) + 1, callArgs, frames)
    <3>1. PICK n \in Nat : n = Len(program.functions) /\ DOMAIN program.functions = 1 .. n
      BY VectorIsSeq DEF LInv, CallsAreNamed
    <3>2. PICK at : at = SizeT(index)
      OBVIOUS
    <3>3. at + 1 \in DOMAIN program.functions
      <4>1. at \in 0 .. n - 1
        BY <2>4, <3>1, <3>2 DEF BadIndex
      <4> QED BY <3>1, <4>1
    <3> QED BY <2>2, <2>4, <3>2, <3>3, CallFits DEF LInv, Executing
  <2> QED BY <1>3, <2>1, <2>3, <2>4 DEF Callindirect
<1>4. CASE Ret \/ RetVoid
  <2>1. Executing /\ \E v : Return(v)
    BY <1>4 DEF Ret, RetVoid, At
  <2> QED BY <2>1, ReturnFits
<1> QED BY <1>1, <1>2, <1>3, <1>4

(* Jumps and branches.                                                     *)
LEMMA JumpsFit ==
  ASSUME LInv, Jmp \/ Branch \/ BranchOnCarry \/ BranchOnOperands \/ Switch
  PROVE  StepFits
<1>1. ASSUME NEW taken, BranchIf(taken), Executing PROVE StepFits
  <2>1. CASE \E label : JumpTo(label)
    BY <1>1, <2>1, JumpFits
  <2>2. CASE Continue(frame)
    BY <1>1, <2>2, ContinueFits, FrameIsAlike
  <2> QED BY <1>1, <2>1, <2>2 DEF BranchIf
<1>2. CASE Jmp \/ Switch
  <2>1. Executing /\ \E label : JumpTo(label)
    BY <1>2 DEF Jmp, Switch, At
  <2> QED BY <2>1, JumpFits
<1>3. CASE Branch \/ BranchOnCarry \/ BranchOnOperands
  <2>1. Executing /\ \E taken : BranchIf(taken)
    BY <1>3 DEF Branch, BranchOnCarry, BranchOnOperands, At
  <2> QED BY <1>1, <2>1
<1> QED BY <1>2, <1>3

(* The instructions that only compute.                                     *)
LEMMA ComputingFits ==
  ASSUME LInv,
         \/ Mov \/ Poison \/ Arith \/ Nop \/ AssertNonzero \/ Cmp \/ Carrying \/ Overflowing
         \/ Clro \/ SetFromFlag \/ SetFromOperands \/ Select \/ Convert \/ Pointer
         \/ PointerNumber \/ ComparePointers
  PROVE  StepFits
<1>1. CASE Mov \/ Poison \/ SetFromFlag \/ SetFromOperands \/ Select \/ Convert \/ PointerNumber \/ ComparePointers
  <2>1. Executing /\ \E v : Writes(v)
    BY <1>1 DEF Mov, Poison, SetFromFlag, SetFromOperands, Select, Convert, PointerNumber,
                ComparePointers, At
  <2> QED BY <2>1, WritesFits
<1>2. CASE Arith \/ Pointer
  <2>1. Executing /\ (Throw("arithmetic") \/ Throw("alignment") \/ \E v : Writes(v))
    BY <1>2 DEF Arith, Pointer, At
  <2> QED BY <2>1, ThrowFits, WritesFits DEF LInv
<1>3. CASE Nop \/ AssertNonzero
  <2>1. Executing /\ (Throw("assertion failed") \/ Continue(frame))
    BY <1>3 DEF Nop, AssertNonzero, At
  <2> QED BY <2>1, ThrowFits, ContinueFits, FrameIsAlike DEF LInv
<1>4. CASE Cmp
  <2>1. PICK g : g = [frame EXCEPT !.cmpFlag = compare(operand(1), operand(2))]
    BY Zenon
  <2>2. Executing /\ Continue(g)
    BY <1>4, <2>1 DEF Cmp, At
  <2>3. Alike(g)
    BY <2>1, <2>2, FrameIsAlike DEF Alike
  <2> QED BY <2>2, <2>3, ContinueFits
<1>5. CASE Carrying
  <2>1. PICK c, v : Continue([frame EXCEPT !.carryFlag = c, !.regs[instr.dest] = v])
    BY <1>5 DEF Carrying
  <2>2. Executing
    BY <1>5 DEF Carrying, At
  <2>3. PICK g : g = [frame EXCEPT !.carryFlag = c, !.regs[instr.dest] = v]
    OBVIOUS
  <2>4. Alike(g)
    BY <2>2, <2>3, FrameIsAlike DEF Alike
  <2> QED BY <2>1, <2>2, <2>3, <2>4, ContinueFits
<1>6. CASE Overflowing
  <2>1. \/ Throw("checked arithmetic")
        \/ \E c, v : Continue([frame EXCEPT !.overflowFlag = c, !.regs[instr.dest] = v])
    BY <1>6 DEF Overflowing
  <2>2. Executing
    BY <1>6 DEF Overflowing, At
  <2>3. ASSUME NEW c, NEW v, Continue([frame EXCEPT !.overflowFlag = c, !.regs[instr.dest] = v])
        PROVE  StepFits
    <3>1. PICK g : g = [frame EXCEPT !.overflowFlag = c, !.regs[instr.dest] = v]
      OBVIOUS
    <3>2. Alike(g)
      BY <2>2, <3>1, FrameIsAlike DEF Alike
    <3> QED BY <2>2, <2>3, <3>1, <3>2, ContinueFits
  <2> QED BY <2>1, <2>3, ThrowFits DEF LInv
<1>7. CASE Clro
  <2>1. PICK g : g = [frame EXCEPT !.overflowFlag = FALSE, !.carryFlag = FALSE]
    OBVIOUS
  <2>2. Executing /\ Continue(g)
    BY <1>7, <2>1 DEF Clro, At
  <2>3. Alike(g)
    BY <2>1, <2>2, FrameIsAlike DEF Alike
  <2> QED BY <2>2, <2>3, ContinueFits
<1> QED BY <1>1, <1>2, <1>3, <1>4, <1>5, <1>6, <1>7

(* Loads, stores, and the steps that only throw.                           *)
LEMMA OthersFit ==
  ASSUME LInv, LoadValue \/ StoreValue \/ Trap \/ FellOff \/ SymbolRead
  PROVE  StepFits
<1>1. ASSUME NEW size, Refused(size) PROVE StepFits
  <2>1. CASE Throw("out of bounds")
    BY <2>1, ThrowFits DEF LInv
  <2>2. CASE result' = [kind |-> "undefined"] /\ UNCHANGED <<program, frames, memory>>
    BY <2>2 DEF StepFits, Unknown, LInv
  <2> QED BY <1>1, <2>1, <2>2 DEF Refused
<1>2. CASE LoadValue
  <2>1. Executing /\ ((\E size : Refused(size)) \/ (\E v : Writes(v)))
    BY <1>2 DEF LoadValue, At
  <2> QED BY <1>1, <2>1, WritesFits
<1>3. CASE StoreValue
  <2>1. PICK g : g = [frame EXCEPT !.at = @ + 1]
    BY Zenon
  <2>2. Executing /\ ((\E size : Refused(size)) \/ Replace(g))
    BY <1>3, <2>1 DEF StoreValue, At
  <2>3. FrameFits(program, g)
    BY <2>1, <2>2, FrameIsAlike DEF FrameFits
  <2> QED BY <1>1, <2>2, <2>3, ReplaceFits
<1>4. CASE Trap
  <2>1. Executing /\ instr.op \in {"trap", "unreachable", "abort"} /\ Throw(instr.op)
    BY <1>4 DEF Trap, At
  <2> QED BY <2>1, ThrowFits DEF LInv
<1>5. CASE FellOff \/ SymbolRead
  <2>1. Throw("fell off the end of a block") \/ Throw("symbol used as a value")
    BY <1>5 DEF FellOff, SymbolRead
  <2> QED BY <2>1, ThrowFits DEF LInv
<1> QED BY <1>2, <1>3, <1>4, <1>5

(* All of them.                                                            *)
LEMMA AnyStepFits ==
  ASSUME LInv, Step
  PROVE  StepFits
BY CallsFit, JumpsFit, ComputingFits, OthersFit DEF Step
-----------------------------------------------------------------------------
(* The toolchain.                                                          *)

(* uasm compile makes a program whose calls are named.                     *)
LEMMA CompileKeeps ==
  ASSUME LInv, Compile
  PROVE  LInv'
<1>1. PICK linked : linked = Objects!link(input.objects)
  OBVIOUS
<1>2. /\ UNCHANGED <<input, frames, result>> /\ frames = <<>> /\ result = Pending
  BY DEF Compile, LInv
<1>3. CASE linked.ok /\ program' = linked.program /\ stage' = "load"
  <2>1. CallsAreNamed(program') /\ program'.entryIndex \in DOMAIN program'.functions
    BY <1>1, <1>3, LinkedCallsAreNamed DEF LInv
  <2>2. FramesFit(program', frames')
    BY <1>2 DEF FramesFit, IsVector
  <2> QED BY <1>2, <1>3, <2>1, <2>2 DEF LInv, Unknown, Pending
<1>4. CASE ~ linked.ok /\ stage' = linked.error /\ program' = program
  <2>1. linked.error \in {"duplicate function definition", "unresolved call", "no main", "main is not exported"}
    BY <1>1, <1>4 DEF Objects!link, Objects!Refused
  <2>2. stage' \notin {"compile", "load", "unresolved function"}
    BY <1>4, <2>1
  <2> QED BY <1>2, <1>4, <2>2 DEF LInv, Unknown, Pending
<1> QED BY <1>1, <1>3, <1>4 DEF Compile

(* uasm run begins with one frame, at the entry.                           *)
LEMMA LoadKeeps ==
  ASSUME LInv, Load
  PROVE  LInv'
<1>1. /\ result = Pending /\ frames = <<>> /\ input' = input /\ stage' = "run"
      /\ call(program, program.entryIndex, input.args, <<>>)
      /\ program.entryIndex \in DOMAIN program.functions
  BY DEF Load, Run, LInv
<1>2. StepFits
  BY <1>1, CallFits DEF LInv
<1> QED BY <1>1, <1>2 DEF LInv, StepFits

(* The interpreter keeps to the program.                                   *)
LEMMA InterpretKeeps ==
  ASSUME LInv, Interpret
  PROVE  LInv'
<1>1. StepFits /\ stage = "run" /\ UNCHANGED <<input, stage>>
  BY AnyStepFits DEF Interpret
<1> QED BY <1>1 DEF LInv, StepFits

(* The steps that leave the interpreter alone.                             *)
LEMMA NativeKeeps ==
  ASSUME LInv, UNCHANGED <<vars, input>>, stage' \notin {"compile", "load", "unresolved function"}
  PROVE  LInv'
<1>1. UNCHANGED <<program, frames, result, input>>
  BY DEF vars
<1>2. instr' = instr
  BY <1>1 DEF instr, block, fn, frame
<1> QED BY <1>1, <1>2 DEF LInv

(* The invariant is kept by every step ...                                 *)
LEMMA NextKeeps ==
  ASSUME LInv, [Next]_all
  PROVE  LInv'
<1>1. CASE Jit
  <2>1. PICK compiled : compiled = Backend!compileProgram(program)
    OBVIOUS
  <2>2. ~ compiled.ok => compiled.error = "not supported"
    BY <2>1, NamedCallsResolve DEF LInv
  <2>3. stage' = "native" \/ (~ compiled.ok /\ stage' = compiled.error)
    BY <1>1, <2>1 DEF Jit
  <2>4. UNCHANGED <<vars, input>>
    BY <1>1 DEF Jit
  <2> QED BY <2>2, <2>3, <2>4, NativeKeeps
<1>2. CASE Execute
  BY <1>2, NativeKeeps DEF Execute
<1>3. CASE UNCHANGED all
  <2>1. UNCHANGED <<vars, input, stage>>
    BY <1>3 DEF all
  <2>2. UNCHANGED <<program, frames, result>>
    BY <2>1 DEF vars
  <2>3. instr' = instr
    BY <2>2 DEF instr, block, fn, frame
  <2> QED BY <2>1, <2>2, <2>3 DEF LInv
<1> QED BY <1>1, <1>2, <1>3, CompileKeeps, LoadKeeps, InterpretKeeps DEF Next

(* ... and holds at first.                                                 *)
LEMMA InitHolds == Init => LInv
<1> SUFFICES ASSUME Init PROVE LInv
  OBVIOUS
<1>1. /\ input \in Inputs /\ stage = "compile" /\ frames = <<>> /\ result = Pending
      /\ program = [functions |-> <<>>, entryIndex |-> 0]
  BY DEF Init
<1>2. CallsAreNamed(program) /\ FramesFit(program, frames)
  BY <1>1 DEF CallsAreNamed, FramesFit, IsVector
<1> QED BY <1>1, <1>2 DEF LInv, Unknown, Pending

(* Whatever link() lets through calls functions that are there: neither    *)
(* run() throws "call to unknown function", but for a tailcall, which      *)
(* link() does not look at, nor does compileProgram "unresolved function". *)
THEOREM LinkingResolves == Spec => []LinkedCallsResolve
<1>1. Init => LInv
  BY InitHolds
<1>2. LInv /\ [Next]_all => LInv'
  BY NextKeeps
<1>3. LInv => LinkedCallsResolve
  BY DEF LInv, LinkedCallsResolve, Unknown
<1> QED BY <1>1, <1>2, <1>3, PTL DEF Spec
-----------------------------------------------------------------------------
(* Values: what an instruction makes of numbers is a number.               *)

(* The number a word is read as, or cut to.                                *)
LEMMA CutToWord ==
  ASSUME NEW n \in Int, NEW w \in Nat
  PROVE  AsUnsigned(n, w) \in Nat /\ AsUnsigned(n, w) \in 0 .. 2^w - 1 /\ SameModulo(AsUnsigned(n, w), n, 2^w)
<1>1. 2^w \in Nat \ {0}
  BY PowerPositive
<1>2. n % 2^w \in 0 .. 2^w - 1 /\ SameModulo(n % 2^w, n, 2^w)
  BY <1>1, DivMod, ModIsSame, Zenon
<1> QED BY <1>1, <1>2 DEF AsUnsigned

(* The same for the signed reading.                                        *)
LEMMA SignedInWord ==
  ASSUME NEW n \in Int, NEW w \in Nat \ {0}
  PROVE  AsSigned(n, w) \in Int /\ SameModulo(AsSigned(n, w), n, 2^w)
<1>1. PICK h \in Nat, s \in Nat \ {0} : h = 2^(w - 1) /\ s = 2^w
  BY PowerType, PowerPositive
<1>2. PICK m \in Int : m = (n + h) % s /\ SameModulo(m, n + h, s)
  <2>1. n + h \in Int
    OBVIOUS
  <2>2. (n + h) % s \in Int /\ SameModulo((n + h) % s, n + h, s)
    BY <2>1, DivMod, ModIsSame
  <2> QED BY <2>2
<1>3. AsSigned(n, w) = m - h
  BY <1>1, <1>2 DEF AsSigned
<1>4. PICK k \in Int : m = (n + h) + s * k
  BY <1>2 DEF SameModulo
<1>5. m - h = n + s * k
  BY <1>4
<1> QED BY <1>1, <1>3, <1>5 DEF SameModulo

(* The widths and the sizes of the types there are.                        *)
LEMMA WordOfType ==
  ASSUME NEW type \in DOMAIN Width
  PROVE  Width[type] \in Nat \ {0} /\ BitsOfType(type) \in Nat /\ sizeOfType(type) \in Nat
<1>1. Width[type] \in Nat \ {0}
  BY WidthAssumption
<1>2. BitsOfType(type) \in Nat
  BY <1>1 DEF BitsOfType
<1>3. ByteBits \in Nat \ {0}
  BY WordsAssumption
<1>4. PICK w \in Nat, b \in Nat \ {0} : w = BitsOfType(type) /\ b = ByteBits
  BY <1>2, <1>3
<1>5. w \div b \in Nat
  OBVIOUS
<1> QED BY <1>1, <1>2, <1>4, <1>5 DEF sizeOfType

(* fromInt128: a value of its type, and the same number up to its width.   *)
LEMMA NumberOfType ==
  ASSUME NEW type \in DOMAIN Width, NEW n \in Int
  PROVE  /\ fromInt128(type, n) \in Value /\ fromInt128(type, n).type = type
         /\ fromInt128(type, n).num \in Int
         /\ SameModulo(fromInt128(type, n).num, n, 2^Width[type])
<1>1. PICK w \in Nat \ {0} : w = Width[type]
  BY WordOfType
<1>2. AsUnsigned(n, w) \in Int /\ SameModulo(AsUnsigned(n, w), n, 2^w)
  BY CutToWord
<1>3. AsSigned(n, w) \in Int /\ SameModulo(AsSigned(n, w), n, 2^w)
  BY SignedInWord
<1> QED BY <1>1, <1>2, <1>3 DEF fromInt128, Value

(* The types the interpreter itself uses.                                  *)
LEMMA TypesThere ==
  /\ "i32" \in DOMAIN Width /\ "i64" \in DOMAIN Width /\ "ptr" \in DOMAIN Width
  /\ Width["ptr"] \in Nat \ {0} /\ Wide \in Nat \ {0} /\ ByteBits \in Nat \ {0} /\ MemorySize \in Nat
BY InterpreterAssumption, WordOfType, WordsAssumption

(* The values that instructions make of nothing.                           *)
LEMMA NamedValues ==
  /\ \A b : makeBool(b) \in Value
  /\ VoidValue \in Value /\ NewValue \in Value
<1>1. 0 \in Int /\ 1 \in Int
  OBVIOUS
<1>2. fromInt128("i32", 0) \in Value /\ fromInt128("i32", 1) \in Value
  BY <1>1, TypesThere, NumberOfType
<1>3. ASSUME NEW b PROVE makeBool(b) \in Value
  <2>1. CASE b
    BY <1>2, <2>1 DEF makeBool
  <2>2. CASE ~ b
    BY <1>2, <2>2 DEF makeBool
  <2> QED BY <2>1, <2>2
<1>4. VoidValue \in Value /\ NewValue \in Value
  BY <1>1, TypesThere DEF VoidValue, NewValue, Value
<1> QED BY <1>3, <1>4

(* The bits of a value, and its bytes.                                     *)
LEMMA BitsOfValue ==
  ASSUME NEW v \in Value
  PROVE  /\ v.num \in Int /\ BitsOfType(v.type) \in Nat /\ bits(v) \in Nat
         /\ \A i \in Nat : Byte(bits(v), i, ByteBits) \in 0 .. 2^ByteBits - 1
<1>1. v.num \in Int /\ v.type \in DOMAIN Width \cup {"void"}
  BY DEF Value
<1>2. BitsOfType(v.type) \in Nat
  BY <1>1, WordOfType DEF BitsOfType
<1>3. bits(v) \in Nat
  BY <1>1, <1>2, CutToWord, Zenon DEF bits
<1>4. ASSUME NEW i \in Nat PROVE Byte(bits(v), i, ByteBits) \in 0 .. 2^ByteBits - 1
  <2>1. i * ByteBits \in Nat /\ ByteBits \in Nat
    BY TypesThere
  <2>2. PICK p \in Nat \ {0}, q \in Nat \ {0}, n \in Nat : p = 2^(i * ByteBits) /\ q = 2^ByteBits /\ n = bits(v)
    BY <1>3, <2>1, PowerPositive
  <2>3. PICK m \in Int : m = n \div p
    BY DivMod
  <2>4. m % q \in 0 .. q - 1
    BY DivMod
  <2> QED BY <2>2, <2>3, <2>4 DEF Byte
<1> QED BY <1>1, <1>2, <1>3, <1>4

(* The number that two numbers share the bits of.                          *)
LEMMA AndIsNumber ==
  ASSUME NEW m \in Int, NEW n \in Int
  PROVE  And(m, n) \in Int
<1> DEFINE S == 0 .. Wide - 1
           g == [i \in S |-> 2^i * Bit(m, i) * Bit(n, i)]
           Summed(it) == it = [s \in SUBSET S |->
                                 IF s = {} THEN 0
                                 ELSE LET i == CHOOSE i \in s : TRUE
                                      IN  2^i * Bit(m, i) * Bit(n, i) + it[s \ {i}]]
           sum == CHOOSE it : Summed(it)
<1>1. Wide \in Nat \ {0}
  BY TypesThere
<1>2. IsFiniteSet(S) /\ S \subseteq Nat
  BY <1>1, FS_Interval
<1>3. ASSUME NEW i \in S PROVE 2^i * Bit(m, i) * Bit(n, i) \in Nat
  <2>1. PICK p \in Nat \ {0} : p = 2^i
    BY <1>2, PowerPositive
  <2>2. ASSUME NEW v \in Int PROVE Bit(v, i) \in Nat
    <3>1. PICK d \in Int : d = v \div p
      BY DivMod, Zenon
    <3>2. d % 2 \in Nat
      OBVIOUS
    <3> QED BY <2>1, <3>1, <3>2 DEF Bit
  <2>3. PICK a \in Nat, b \in Nat : a = Bit(m, i) /\ b = Bit(n, i)
    BY <2>2
  <2>4. p * a * b \in Nat
    OBVIOUS
  <2> QED BY <2>1, <2>3, <2>4
<1>4. g \in [S -> Nat]
  BY <1>3
<1>5. ASSUME NEW it PROVE IsSetSum(it, g, S) <=> Summed(it)
  <2> HIDE DEF S
  <2>0. ASSUME NEW s \in SUBSET S, s # {} PROVE FirstTaken(s) \in S
    BY <2>0 DEF FirstTaken
  <2>1. ASSUME NEW s \in SUBSET S, s # {}
        PROVE  g[FirstTaken(s)] = 2^(CHOOSE i \in s : TRUE) * Bit(m, CHOOSE i \in s : TRUE) * Bit(n, CHOOSE i \in s : TRUE)
    BY <2>0, <2>1 DEF FirstTaken
  <2> QED BY <2>1, Zenon DEF IsSetSum, FirstTaken
<1>6. \E it : Summed(it)
  <2> HIDE DEF g, Summed, S
  <2>1. PICK it : IsSetSum(it, g, S)
    BY <1>2, SetSumExists
  <2> QED BY <2>1, <1>5
<1>7. Summed(sum)
  BY <1>6, Zenon
<1>8. And(m, n) = Int128(sum[S])
  BY DEF And, MapThenSumSet, MapThenFoldSet
<1> HIDE DEF sum, g, Summed
<1>9. sum[S] \in Nat
  BY <1>2, <1>4, <1>5, <1>7, SetSumIsNatural, Zenon
<1>10. sum[S] \in Int
  BY <1>9
<1>11. AsSigned(sum[S], Wide) \in Int
  BY <1>1, <1>10, SignedInWord, Zenon
<1> QED BY <1>8, <1>11 DEF Int128

(* Arithmetic that is not refused.                                         *)
LEMMA QuotientIsNumber ==
  ASSUME NEW m \in Int, NEW n \in Int, n # 0
  PROVE  Quotient(m, n) \in Int /\ Remainder(m, n) \in Int
<1>1. Magnitude(m) \in Nat /\ Magnitude(n) \in Nat \ {0}
  BY DEF Magnitude
<1>2. PICK a \in Nat, b \in Nat \ {0} : a = Magnitude(m) /\ b = Magnitude(n)
  BY <1>1
<1>3. a \div b \in Int
  BY DivMod
<1>4. PICK q \in Int : q = a \div b
  BY <1>3
<1>5. Quotient(m, n) = q \/ Quotient(m, n) = -q
  BY <1>2, <1>4 DEF Quotient
<1>6. Quotient(m, n) \in Int
  BY <1>5
<1>7. n * Quotient(m, n) \in Int
  BY <1>6
<1> QED BY <1>6, <1>7 DEF Remainder

(* Shifts by an amount that is no negative number.                         *)
LEMMA ShiftsAreNumbers ==
  ASSUME NEW m \in Int, NEW n \in Nat
  PROVE  m * 2^n \in Int /\ m \div 2^n \in Int
<1>1. PICK p \in Nat \ {0} : p = 2^n
  BY PowerPositive
<1>2. m * p \in Int /\ m \div p \in Int
  BY DivMod
<1> QED BY <1>1, <1>2

BasicUnary == {"not", "neg", "abs"}

(* The basic operations.                                                   *)
LEMMA BasicIsNumber ==
  ASSUME NEW op \in BasicOps, NEW type \in DOMAIN Width, NEW m \in Int, NEW n,
         op \in BasicUnary \/ n \in Int, ~ basicRefused(op, type, m, n)
  PROVE  basic(op, type, m, n) \in Int
<1>1. CASE op = "not"
  <2>1. basic(op, type, m, n) = -m - 1
    BY <1>1 DEF basic, Not
  <2> QED BY <2>1
<1>2. CASE op = "neg"
  <2>1. basic(op, type, m, n) = -m
    BY <1>2 DEF basic
  <2> QED BY <2>1
<1>3. CASE op = "abs"
  <2>1. basic(op, type, m, n) = Magnitude(m)
    BY <1>3 DEF basic
  <2> QED BY <2>1 DEF Magnitude
<1>4. CASE op \notin BasicUnary
  <2>1. n \in Int
    BY <1>4
  <2>2. CASE op = "add"
    <3>1. basic(op, type, m, n) = m + n
      BY <2>2 DEF basic
    <3> QED BY <2>1, <3>1
  <2>3. CASE op = "sub"
    <3>1. basic(op, type, m, n) = m - n
      BY <2>3 DEF basic
    <3> QED BY <2>1, <3>1
  <2>4. CASE op = "mul"
    <3>1. basic(op, type, m, n) = m * n
      BY <2>4 DEF basic
    <3> QED BY <2>1, <3>1
  <2>5. CASE op \in {"div", "mod"}
    <3>1. n # 0
      BY <2>5 DEF basicRefused
    <3>2. basic(op, type, m, n) = Quotient(m, n) \/ basic(op, type, m, n) = Remainder(m, n)
      BY <2>5 DEF basic
    <3> QED BY <2>1, <3>1, <3>2, QuotientIsNumber
  <2>6. CASE op \in {"and", "or", "xor"}
    <3>1. PICK a \in Int : a = And(m, n)
      BY <2>1, AndIsNumber
    <3>2. \/ basic(op, type, m, n) = a \/ basic(op, type, m, n) = m + n - a
          \/ basic(op, type, m, n) = m + n - 2 * a
      BY <2>6, <3>1 DEF basic, Or, Xor
    <3>3. m + n - a \in Int /\ m + n - 2 * a \in Int
      BY <2>1
    <3> QED BY <3>2, <3>3
  <2>7. CASE op \in {"shl", "shr"}
    <3>1. n \in Nat
      BY <2>1, <2>7 DEF basicRefused
    <3>2. basic(op, type, m, n) = m * 2^n \/ basic(op, type, m, n) = m \div 2^n
      BY <2>7 DEF basic
    <3> QED BY <2>1, <3>1, <3>2, ShiftsAreNumbers
  <2>8. CASE op \in {"min", "max"}
    <3>1. basic(op, type, m, n) = m \/ basic(op, type, m, n) = n
      BY <2>8 DEF basic
    <3> QED BY <2>1, <3>1
  <2>9. op \in {"add", "sub", "mul", "div", "mod", "and", "or", "xor", "shl", "shr", "min", "max"}
    BY <1>4 DEF BasicOps, BasicUnary
  <2> QED BY <2>2, <2>3, <2>4, <2>5, <2>6, <2>7, <2>8, <2>9
<1> QED BY <1>1, <1>2, <1>3, <1>4 DEF BasicUnary

(* addc and subb.                                                          *)
LEMMA CarryingIsNumber ==
  ASSUME NEW type \in DOMAIN Width, NEW m \in Int, NEW n \in Int, NEW c \in {0, 1}
  PROVE  addc(type, m, n, c).num \in Int /\ subb(type, m, n, c).num \in Int
<1>1. m + n + c \in Int /\ m - n - c \in Int
  OBVIOUS
<1>2. AsUnsigned(m + n + c, Wide) \in Int
  BY <1>1, TypesThere, CutToWord
<1> QED BY <1>1, <1>2 DEF addc, subb, UInt128

(* The operations that say whether they overflow.                          *)
LEMMA OverflowingIsNumber ==
  ASSUME NEW op \in OverflowOps, NEW type \in DOMAIN Width, NEW m \in Int, NEW n,
         op = "nego" \/ n \in Int, ~ overflowRefused(op, type, m, n)
  PROVE  computeWithOverflow(op, type, m, n).num \in Int
<1>1. ASSUME NEW v \in Int PROVE Int128(v) \in Int /\ UInt128(v) \in Int
  <2>1. PICK w \in Nat \ {0} : w = Wide
    BY TypesThere
  <2>2. AsSigned(v, w) \in Int
    BY SignedInWord
  <2>3. AsUnsigned(v, w) \in Int
    BY CutToWord
  <2> QED BY <2>1, <2>2, <2>3 DEF Int128, UInt128
<1>2. CASE op = "nego"
  <2>1. computeWithOverflow(op, type, m, n).num = -m
    BY <1>2 DEF computeWithOverflow
  <2> QED BY <2>1
<1>3. CASE op # "nego"
  <2>1. n \in Int /\ Width[type] \in Nat
    BY <1>3, WordOfType
  <2>2. PICK a \in Int, b \in Int : a = unsignedOf(m, type) /\ b = unsignedOf(n, type)
    <3>1. AsUnsigned(m, Width[type]) \in Int /\ AsUnsigned(n, Width[type]) \in Int
      BY <2>1, CutToWord
    <3> QED BY <3>1 DEF unsignedOf, bitWidth
  <2>3. /\ m + n \in Int /\ m - n \in Int /\ m * n \in Int /\ a + b \in Int /\ a - b \in Int /\ a * b \in Int
    BY <2>1
  <2>4. CASE op = "shlo"
    <3>1. PICK k : k = SizeT(n)
      OBVIOUS
    <3>2. m * 2^k \in Int
      <4>1. k \in Nat
        BY <2>1, <3>1, TypesThere, CutToWord DEF SizeT
      <4> QED BY <2>1, <4>1, ShiftsAreNumbers
    <3>3. computeWithOverflow(op, type, m, n).num = Int128(m * 2^k)
      BY <2>4, <3>1 DEF computeWithOverflow
    <3> QED BY <1>1, <3>2, <3>3
  <2>5. CASE op \in {"addo", "subo", "mulo"}
    <3>1. \/ computeWithOverflow(op, type, m, n).num = Int128(m + n)
          \/ computeWithOverflow(op, type, m, n).num = Int128(m - n)
          \/ computeWithOverflow(op, type, m, n).num = Int128(m * n)
      BY <2>5 DEF computeWithOverflow
    <3> QED BY <1>1, <2>3, <3>1
  <2>6. CASE op \in {"uaddo", "usubo", "umulo"}
    <3>1. \/ computeWithOverflow(op, type, m, n).num = UInt128(a + b)
          \/ computeWithOverflow(op, type, m, n).num = a - b
          \/ computeWithOverflow(op, type, m, n).num = UInt128(a * b)
      BY <2>2, <2>6 DEF computeWithOverflow
    <3> QED BY <1>1, <2>3, <3>1
  <2> QED BY <1>3, <2>4, <2>5, <2>6 DEF OverflowOps
<1> QED BY <1>2, <1>3

(* cast and bitconv.                                                       *)
LEMMA BitcastIsValue ==
  ASSUME NEW type \in DOMAIN Width, NEW from, BitsOfType(from) \in Nat, NEW n \in Nat
  PROVE  bitcast(type, from, n) \in Value
<1>1. Width[type] \in Nat
  BY WordOfType
<1>2. PICK w \in Nat : w = IF BitsOfType(from) < Width[type] THEN BitsOfType(from) ELSE Width[type]
  BY <1>1
<1>3. AsUnsigned(n, w) \in Int
  BY CutToWord
<1> QED BY <1>2, <1>3, NumberOfType DEF bitcast

(* The conversions of a value.                                             *)
LEMMA ConvertedIsNumber ==
  ASSUME NEW type \in DOMAIN Width, NEW v \in Value
  PROVE  /\ bitcast(type, v.type, bits(v)) \in Value
         /\ widening("sext", type, v.num, 0) \in Int /\ widening("zext", type, v.num, 0) \in Int
<1>1. bitcast(type, v.type, bits(v)) \in Value
  BY BitsOfValue, BitcastIsValue
<1>2. PICK s \in Nat \ {0}, m \in Int : s = Width[type] /\ m = v.num
  BY WordOfType, BitsOfValue
<1>3. AsSigned(m, s) \in Int
  BY SignedInWord
<1>4. AsUnsigned(m, s) \in Int
  BY CutToWord
<1>5. widening("sext", type, v.num, 0) = AsSigned(m, s)
  BY <1>2 DEF widening, bitWidth
<1>6. widening("zext", type, v.num, 0) = AsUnsigned(m, s)
  BY <1>2 DEF widening, bitWidth, unsignedOf
<1> QED BY <1>1, <1>3, <1>4, <1>5, <1>6

(* The pointer operations.                                                 *)
LEMMA PointerIsNumber ==
  ASSUME NEW op \in PointerOps, NEW n \in [1 .. 4 -> Int], ~ pointerRefused(op, n)
  PROVE  pointerOp(op, n) \in Int
<1>1. n[1] \in Int /\ n[2] \in Int /\ n[3] \in Int /\ n[4] \in Int
  OBVIOUS
<1>2. ASSUME NEW v \in Int PROVE SizeT(v) \in Nat
  BY TypesThere, CutToWord DEF SizeT
<1>3. PICK a \in Nat, b \in Nat : a = SizeT(n[1]) /\ b = SizeT(n[2])
  BY <1>1, <1>2
<1>4. PICK i \in Int, j \in Int, k \in Int : i = n[2] /\ j = n[3] /\ k = n[4]
  BY <1>1
<1>5. CASE op = "getelementptr"
  <2>1. pointerOp(op, n) = a + i * j + k
    BY <1>3, <1>4, <1>5 DEF pointerOp
  <2> QED BY <2>1
<1>6. CASE op \in {"ptradd", "ptrsub", "ptrdiff"}
  <2>1. pointerOp(op, n) = a + i \/ pointerOp(op, n) = a - i \/ pointerOp(op, n) = a - b
    BY <1>3, <1>4, <1>6 DEF pointerOp
  <2> QED BY <2>1
<1>7. CASE op = "ptralign"
  <2>1. PICK c \in Nat : c = SizeT(a + b - 1)
    <3>1. a + b - 1 \in Int
      OBVIOUS
    <3> QED BY <3>1, <1>2
  <2>2. pointerOp(op, n) = IF b = 0 THEN 0 ELSE (c \div b) * b
    BY <1>3, <1>7, <2>1 DEF pointerOp
  <2>3. CASE b # 0
    <3>1. b \in Nat \ {0}
      BY <2>3
    <3>2. c \div b \in Int
      BY <3>1, DivMod
    <3>3. PICK q \in Int : q = c \div b
      BY <3>2
    <3> QED BY <2>2, <2>3, <3>3
  <2> QED BY <2>2, <2>3
<1> QED BY <1>5, <1>6, <1>7 DEF PointerOps

-----------------------------------------------------------------------------
(* Frames whose registers are values, and the bytes the stores left.       *)

FrameHolds(f) == "regs" \in DOMAIN f /\ f.regs \in [Regs -> Value]

FramesHold(fs) == IsVector(fs) /\ \A d \in DOMAIN fs : FrameHolds(fs[d])

(* Frames of values, with one more, ...                                    *)
LEMMA OneMoreHolds ==
  ASSUME NEW fs, NEW f, FramesHold(fs), FrameHolds(f)
  PROVE  FramesHold(Append(fs, f)) /\ Last(Append(fs, f)) = f
<1>1. PICK n \in Nat : n = Len(fs) /\ DOMAIN fs = 1 .. n
  BY VectorIsSeq DEF FramesHold
<1>2. PICK new : new = Append(fs, f)
  BY Zenon
<1>3. /\ IsVector(new) /\ Last(new) = f /\ DOMAIN new = 1 .. n + 1 /\ new[n + 1] = f
      /\ \A k \in 1 .. n : new[k] = fs[k]
  BY <1>1, <1>2, GrownVector DEF FramesHold
<1>4. ASSUME NEW d \in 1 .. n + 1 PROVE FrameHolds(new[d])
  <2>1. CASE d \in 1 .. n
    BY <1>1, <1>3, <2>1 DEF FramesHold
  <2>2. d = n + 1 \/ d \in 1 .. n
    OBVIOUS
  <2> QED BY <1>3, <2>1, <2>2
<1> QED BY <1>2, <1>3, <1>4 DEF FramesHold

(* ... fewer, ...                                                          *)
LEMMA FewerHold ==
  ASSUME NEW fs, FramesHold(fs), NEW m \in Nat, m <= Len(fs)
  PROVE  FramesHold(SubSeq(fs, 1, m))
BY CutVector DEF FramesHold

(* ... and the last of them.                                               *)
LEMMA TopHolds ==
  ASSUME NEW fs, FramesHold(fs), fs # <<>>
  PROVE  FrameHolds(Last(fs)) /\ FramesHold(Front(fs))
<1>1. PICK n \in Nat : n = Len(fs) /\ DOMAIN fs = 1 .. n
  BY VectorIsSeq, Zenon DEF FramesHold
<1>2. n # 0
  BY <1>1 DEF FramesHold, IsVector
<1>3. n - 1 \in Nat /\ n - 1 <= Len(fs) /\ n \in 1 .. n
  BY <1>1, <1>2
<1>4. FramesHold(Front(fs))
  BY <1>1, <1>3, FewerHold DEF Front
<1> QED BY <1>1, <1>3, <1>4 DEF Last, FramesHold

(* The byte the last of some stores left at an address.                    *)
Covers(s, a) == a - s.at \in 0 .. sizeOfType(s.value.type) - 1
Covering(ss, a) == {k \in DOMAIN ss : Covers(ss[k], a)}
ByteOf(s, a) == Byte(bits(s.value), a - s.at, ByteBits)
LeftAt(ss, a) == IF Covering(ss, a) = {} THEN 0 ELSE ByteOf(ss[Max(Covering(ss, a))], a)

(* StoredAt speaks of the stores of the history.                           *)
LEMMA StoredIsLeft == \A a : StoredAt(a) = LeftAt(stores, a)
BY DEF StoredAt, LeftAt, Covering, Covers, ByteOf

(* The greatest of a set that has one.                                     *)
LEMMA GreatestOf ==
  ASSUME NEW S, S \subseteq Int, NEW m \in S, \A k \in S : k <= m
  PROVE  Max(S) = m
<1>1. Max(S) \in S /\ \A k \in S : Max(S) >= k
  <2>1. \E z \in S : \A k \in S : z >= k
    OBVIOUS
  <2> QED BY <2>1, Zenon DEF Max
<1>2. PICK y \in S : y = Max(S)
  BY <1>1, Zenon
<1>3. y \in Int /\ m \in Int /\ y <= m /\ y >= m
  BY <1>1, <1>2
<1> QED BY <1>2, <1>3

(* One store more hides the others where it stores.                        *)
LEMMA LeftByOneMore ==
  ASSUME NEW ss, IsVector(ss), NEW s, NEW a
  PROVE  LeftAt(Append(ss, s), a) = IF Covers(s, a) THEN ByteOf(s, a) ELSE LeftAt(ss, a)
<1>1. PICK n \in Nat : n = Len(ss) /\ DOMAIN ss = 1 .. n
  BY VectorIsSeq, Zenon
<1>2. PICK new : new = Append(ss, s)
  OBVIOUS
<1>3. /\ DOMAIN new = 1 .. n + 1 /\ new[n + 1] = s
      /\ \A k \in 1 .. n : new[k] = ss[k]
  BY <1>1, <1>2, GrownVector
<1>4. ASSUME NEW k \in 1 .. n + 1 PROVE k \in 1 .. n \/ k = n + 1
  OBVIOUS
<1>5. n + 1 \in 1 .. n + 1 /\ n + 1 \notin 1 .. n /\ 1 .. n \subseteq 1 .. n + 1
  OBVIOUS
<1>6. CASE Covers(s, a)
  <2>1. Covering(new, a) \subseteq 1 .. n + 1 /\ n + 1 \in Covering(new, a)
    BY <1>3, <1>5, <1>6 DEF Covering
  <2>2. PICK S : S = Covering(new, a)
    OBVIOUS
  <2>3. Max(S) = n + 1
    <3>1. S \subseteq Int /\ n + 1 \in S /\ \A k \in S : k <= n + 1
      BY <2>1, <2>2
    <3> QED BY <3>1, GreatestOf, Zenon
  <2> QED BY <1>2, <1>3, <1>6, <2>1, <2>2, <2>3 DEF LeftAt
<1>7. CASE ~ Covers(s, a)
  <2>1. Covering(new, a) = Covering(ss, a)
    BY <1>1, <1>3, <1>4, <1>5, <1>7 DEF Covering
  <2>2. PICK S : S = Covering(ss, a)
    OBVIOUS
  <2>3. S # {} => new[Max(S)] = ss[Max(S)]
    <3>1. S \subseteq 1 .. n
      BY <1>1, <2>2 DEF Covering
    <3> QED BY <1>3, <3>1, MaxOfPositions, Zenon
  <2> QED BY <1>2, <1>7, <2>1, <2>2, <2>3, Zenon DEF LeftAt
<1> QED BY <1>6, <1>7
-----------------------------------------------------------------------------
(* Loads and stores.                                                       *)

MemoryTyped == memory \in [0 .. MemorySize - 1 -> 0 .. 2^ByteBits - 1]

BytesAt(addr, n) == [b \in 0 .. n - 1 |-> memory[addr + b]]

(* Bytes of the memory, as the number they make.                           *)
LEMMA MemoryMakesNumber ==
  ASSUME NEW type, NEW addr \in Nat, NEW n \in Nat, n = sizeOfType(type), addr + n <= MemorySize,
         MemoryTyped, NEW d, d = BytesAt(addr, n)
  PROVE  \E it : IsByteSum(it, d, n, ByteBits) /\ loadValue(addr, type) = fromInt128(type, it[0 .. n - 1])
<1> DEFINE S == 0 .. n - 1
           g == [b \in S |-> memory[addr + b] * 2^(b * ByteBits)]
           Summed(it) == it = [s \in SUBSET S |->
                                 IF s = {} THEN 0
                                 ELSE LET b == CHOOSE b \in s : TRUE
                                      IN  memory[addr + b] * 2^(b * ByteBits) + it[s \ {b}]]
           sum == CHOOSE it : Summed(it)
<1>1. IsFiniteSet(S)
  BY FS_Interval
<1>2. d \in [S -> 0 .. 2^ByteBits - 1] /\ g = Weighed(d, n, ByteBits)
  <2>1. ASSUME NEW b \in S PROVE memory[addr + b] \in 0 .. 2^ByteBits - 1
    <3>1. addr + b \in 0 .. MemorySize - 1
      BY TypesThere
    <3>2. PICK c : c = addr + b
      OBVIOUS
    <3> QED BY <3>1, <3>2 DEF MemoryTyped
  <2> QED BY <2>1 DEF Weighed, BytesAt
<1>3. ASSUME NEW it PROVE IsSetSum(it, g, S) <=> Summed(it)
  <2> HIDE DEF S
  <2>0. ASSUME NEW s \in SUBSET S, s # {} PROVE FirstTaken(s) \in S
    BY <2>0 DEF FirstTaken
  <2>1. ASSUME NEW s \in SUBSET S, s # {}
        PROVE  g[FirstTaken(s)] = memory[addr + (CHOOSE b \in s : TRUE)] * 2^((CHOOSE b \in s : TRUE) * ByteBits)
    BY <2>0, <2>1 DEF FirstTaken
  <2> QED BY <2>1, Zenon DEF IsSetSum, FirstTaken
<1>4. \E it : Summed(it)
  <2> HIDE DEF g, Summed, S
  <2>1. PICK it : IsSetSum(it, g, S)
    BY <1>1, SetSumExists, Zenon
  <2> QED BY <2>1, <1>3
<1>5. Summed(sum)
  BY <1>4, Zenon
<1>6. loadValue(addr, type) = fromInt128(type, sum[S])
  BY DEF loadValue, MapThenSumSet, MapThenFoldSet
<1>7. IsByteSum(sum, d, n, ByteBits)
  <2> HIDE DEF sum, Summed
  <2>1. IsSetSum(sum, g, S)
    BY <1>3, <1>5
  <2> QED BY <1>2, <2>1 DEF IsByteSum
<1> QED BY <1>6, <1>7, Zenon

(* What a load makes of them: a value, and each byte of it is theirs.      *)
LEMMA LoadedBytes ==
  ASSUME NEW type \in DOMAIN Width, NEW addr \in Nat, addr + sizeOfType(type) <= MemorySize,
         MemoryTyped
  PROVE  /\ loadValue(addr, type) \in Value /\ loadValue(addr, type).type = type
         /\ \A b \in 0 .. sizeOfType(type) - 1 :
              /\ Byte(loadValue(addr, type).num, b, ByteBits) = memory[addr + b]
              /\ addr + b \in 0 .. MemorySize - 1
<1>1. PICK n \in Nat : n = sizeOfType(type)
  BY WordOfType
<1>0. PICK d : d = BytesAt(addr, n)
  OBVIOUS
<1>2. PICK it : IsByteSum(it, d, n, ByteBits) /\ loadValue(addr, type) = fromInt128(type, it[0 .. n - 1])
  BY <1>0, <1>1, MemoryMakesNumber
<1>3. it[0 .. n - 1] \in Int
  <2>1. n \in 0 .. n /\ n * ByteBits \in Nat
    BY TypesThere
  <2>2. it[0 .. n - 1] \in 0 .. 2^(n * ByteBits) - 1
    BY <1>2, <2>1, TypesThere, BytesBelow
  <2> QED BY <2>1, <2>2, PowerType
<1>4. PICK total \in Int : total = it[0 .. n - 1]
  BY <1>3
<1>5. loadValue(addr, type) = fromInt128(type, total)
  BY <1>2, <1>4
<1>6. PICK v \in Int : v = fromInt128(type, total).num /\ SameModulo(v, total, 2^Width[type])
  BY NumberOfType
<1>7. ASSUME NEW b \in 0 .. n - 1
      PROVE  Byte(v, b, ByteBits) = memory[addr + b] /\ addr + b \in 0 .. MemorySize - 1
  <2>1. PICK size \in Nat \ {0}, w \in Nat \ {0} : size = ByteBits /\ w = Width[type]
    BY TypesThere, WordOfType
  <2>2. n = w \div size
    <3>1. n # 0
      OBVIOUS
    <3>2. 0 \div size = 0
      BY <2>1
    <3>3. BitsOfType(type) = w
      BY <1>1, <2>1, <3>1, <3>2 DEF sizeOfType, BitsOfType
    <3> QED BY <1>1, <2>1, <3>3 DEF sizeOfType
  <2>3. (b + 1) * size <= w
    <3>1. w = size * n + (w % size) /\ w % size \in Nat
      BY <2>2, DivMod
    <3>2. b + 1 <= n
      OBVIOUS
    <3>3. (b + 1) * size <= n * size
      BY <3>2
    <3>4. PICK r \in Nat : r = w % size
      BY <3>1
    <3> QED BY <3>1, <3>3, <3>4
  <2>4. PICK low : low = it[0 .. b - 1] /\ low \in 0 .. 2^(b * size) - 1
    <3>1. b \in 0 .. n
      OBVIOUS
    <3> QED BY <1>2, <2>1, <3>1, BytesBelow
  <2>5. HasByte(total, b, size, d[b], low)
    <3>1. IsByteSum(it, d, n, size) /\ size \in Nat
      BY <1>2, <2>1
    <3>2. HasByte(it[0 .. n - 1], b, size, d[b], it[0 .. b - 1])
      BY <3>1, BytesAbove
    <3> QED BY <1>4, <2>4, <3>2
  <2>6. d[b] \in 0 .. 2^size - 1 /\ d[b] = memory[addr + b]
    BY <1>0, <1>2, <2>1 DEF IsByteSum, BytesAt
  <2>7. (v \div 2^(b * size)) % 2^size = d[b]
    <3>1. PICK c \in 0 .. 2^size - 1 : c = d[b]
      BY <2>6
    <3>2. HasByte(total, b, size, c, low) /\ SameModulo(v, total, 2^w) /\ b \in Nat
      BY <1>6, <2>1, <2>5, <3>1
    <3> QED BY <2>3, <2>4, <3>1, <3>2, BytesWithin, Zenon
  <2>8. addr + b \in 0 .. MemorySize - 1
    BY <1>1, TypesThere
  <2> QED BY <2>1, <2>6, <2>7, <2>8 DEF Byte
<1> QED BY <1>1, <1>5, <1>6, <1>7, NumberOfType

-----------------------------------------------------------------------------
(* The inductive invariant of loads and stores: the registers of a frame   *)
(* hold values, and each byte of the memory is the last that was stored.   *)

CodeFits(p) == \A f \in DOMAIN p.functions : \A i \in Code(p.functions[f]) : InstructionFits(i)

MemoryHolds ==
  /\ MemoryTyped
  /\ IsVector(stores)
  /\ \A a \in 0 .. MemorySize - 1 : memory[a] = StoredAt(a)

VInv == LInv /\ CodeFits(program) /\ FramesHold(frames) /\ MemoryHolds

AtInstruction == Executing /\ frame.at <= Len(block.instructions)

(* What the running frame and its instruction are like.                    *)
LEMMA FrameAndInstruction ==
  ASSUME VInv, AtInstruction
  PROVE  /\ InstructionFits(instr) /\ instr.type \in DOMAIN Width
         /\ FrameHolds(frame) /\ FrameHolds(frames[Len(frames)])
         /\ DOMAIN instr.operands = 1 .. Len(instr.operands) /\ Len(instr.operands) \in Nat
<1>1. instr \in Code(fn) /\ frame.fn \in DOMAIN program.functions
  BY InstrIsCode DEF VInv, AtInstruction
<1>2. InstructionFits(instr)
  BY <1>1 DEF VInv, CodeFits, fn
<1>3. FrameHolds(frame)
  BY TopHolds DEF VInv, AtInstruction, Executing, frame
<1>4. HasCode(fn)
  BY <1>1 DEF VInv, LInv, CallsAreNamed, fn
<1>5. IsVector(instr.operands)
  BY <1>1, <1>4 DEF HasCode, Code
<1> QED BY <1>2, <1>3, <1>5, VectorIsSeq DEF InstructionFits, frame, Last

(* An operand that is no name is read as a value.                          *)
LEMMA ReadIsValue ==
  ASSUME VInv, AtInstruction, NEW k \in DOMAIN instr.operands, instr.operands[k].kind # "sym",
         NEW type \in DOMAIN Width
  PROVE  readOperand(k, type) \in Value
<1>1. FrameHolds(frame) /\ InstructionFits(instr)
  BY FrameAndInstruction
<1>2. PICK o : o = instr.operands[k]
  OBVIOUS
<1>3. \/ o.kind = "reg" /\ o.is \in Regs
      \/ o.kind = "imm" /\ o.is \in Int
  BY <1>1, <1>2 DEF InstructionFits
<1>4. CASE o.kind = "reg" /\ o.is \in Regs
  <2>1. frame.regs[o.is] \in Value
    BY <1>1, <1>4 DEF FrameHolds
  <2> QED BY <1>2, <1>4, <2>1 DEF readOperand
<1>5. CASE o.kind = "imm" /\ o.is \in Int
  <2>1. fromInt128(type, o.is) \in Value
    BY <1>5, NumberOfType
  <2> QED BY <1>2, <1>5, <2>1 DEF readOperand
<1> QED BY <1>3, <1>4, <1>5

(* The instructions that make a value of what they read.                   *)
Unary == {"mov", "expect", "freeze", "convert", "cast", "bitconv", "sext", "zext", "itrunc", "ptrtoint",
          "inttoptr", "ret"}
Binary == {"addc", "subb"}
Makers == BasicOps \cup OverflowOps \cup PointerOps \cup Loads \cup Stores \cup Unary \cup Binary
            \cup {"select", "callindirect"}

(* They read all their operands.                                           *)
LEMMA MakersReadAll ==
  ASSUME VInv, AtInstruction, ~ ReadsSymbol, instr.op \in Makers
  PROVE  \A k \in 1 .. Len(instr.operands) : \A type \in DOMAIN Width : readOperand(k, type) \in Value
<1>1. ReadOperands = DOMAIN instr.operands
  <2>1. /\ instr.op \notin {"call", "tailcall"} /\ instr.op \notin {"switch", "brz", "brnz"}
        /\ instr.op \notin CompareBranches \cup UnsignedBranches /\ instr.op \notin ReadsNone
    BY DEF Makers, BasicOps, OverflowOps, PointerOps, Loads, FieldLoads, Stores, FieldStores, Unary, Binary,
           CompareBranches, UnsignedBranches, ReadsNone, NoOps, SetOps, FlagBranches, CarryBranches
  <2> QED BY <2>1 DEF ReadOperands
<1>2. ASSUME NEW k \in DOMAIN instr.operands PROVE instr.operands[k].kind # "sym"
  BY <1>1 DEF ReadsSymbol
<1> QED BY <1>2, ReadIsValue, FrameAndInstruction, Zenon

(* They have a first operand, ...                                          *)
LEMMA FirstIsThere ==
  ASSUME VInv, AtInstruction, instr.op \in Makers \ {"callindirect"}
  PROVE  1 \in 1 .. Len(instr.operands)
<1>1. OperandsRead(instr.op) \in {1, 2, 3}
  BY DEF OperandsRead, Makers, BasicOps, OverflowOps, PointerOps, Loads, FieldLoads, Stores, FieldStores, Unary,
         Binary
<1>2. Len(instr.operands) >= OperandsRead(instr.op) /\ Len(instr.operands) \in Nat
  BY FrameAndInstruction DEF InstructionFits
<1> QED BY <1>1, <1>2

(* ... a second, those that read two, ...                                  *)
LEMMA SecondIsThere ==
  ASSUME VInv, AtInstruction,
         instr.op \in (BasicOps \ BasicUnary) \cup (OverflowOps \ {"nego"}) \cup PointerOps \cup Stores \cup Binary
                        \cup {"arrayload", "select"}
  PROVE  1 \in 1 .. Len(instr.operands) /\ 2 \in 1 .. Len(instr.operands)
<1>1. OperandsRead(instr.op) \in {2, 3}
  BY DEF OperandsRead, BasicOps, BasicUnary, OverflowOps, PointerOps, FieldLoads, Stores, FieldStores, Binary
<1>2. Len(instr.operands) >= OperandsRead(instr.op) /\ Len(instr.operands) \in Nat
  BY FrameAndInstruction DEF InstructionFits
<1> QED BY <1>1, <1>2

(* ... and a third, those that read three.                                 *)
LEMMA ThirdIsThere ==
  ASSUME VInv, AtInstruction, instr.op \in {"select", "getelementptr", "arraystore"}
  PROVE  3 \in 1 .. Len(instr.operands)
<1>1. OperandsRead(instr.op) = 3
  BY DEF OperandsRead, BasicOps, OverflowOps, PointerOps, FieldLoads, FieldStores
<1>2. Len(instr.operands) >= OperandsRead(instr.op) /\ Len(instr.operands) \in Nat
  BY FrameAndInstruction DEF InstructionFits
<1> QED BY <1>1, <1>2

(* The pointers and offsets that are read.                                 *)
LEMMA PointersAreNumbers ==
  ASSUME NEW k, readOperand(k, "ptr") \in Value
  PROVE  pointer(k) \in Nat
<1>1. bits(readOperand(k, "ptr")) \in Int
  BY BitsOfValue
<1> QED BY <1>1, TypesThere, CutToWord DEF pointer

(* The address of a load or a store.                                       *)
LEMMA AddressIsNumber ==
  ASSUME VInv, AtInstruction, ~ ReadsSymbol, instr.op \in Loads \cup Stores
  PROVE  Address \in Nat
<1>1. /\ \A k \in 1 .. Len(instr.operands) : \A type \in DOMAIN Width : readOperand(k, type) \in Value
      /\ 1 \in 1 .. Len(instr.operands) /\ Len(instr.operands) \in Nat
  <2>1. instr.op \in Makers \ {"callindirect"}
    BY DEF Makers, Loads, FieldLoads, Stores, FieldStores
  <2> QED BY <2>1, MakersReadAll, FirstIsThere, FrameAndInstruction
<1>2. pointer(1) \in Nat
  BY <1>1, TypesThere, PointersAreNumbers
<1>3. CASE 2 \in 1 .. Len(instr.operands)
  <2>1. readOperand(2, "i64").num \in Int /\ sizeOfType(instr.type) \in Int
    <3>1. readOperand(2, "i64") \in Value
      BY <1>1, <1>3, TypesThere
    <3> QED BY <3>1, BitsOfValue, WordOfType, FrameAndInstruction
  <2>2. PICK m \in Int, n \in Int : m = readOperand(2, "i64").num /\ n = sizeOfType(instr.type)
    BY <2>1
  <2>3. Offset = m * n \/ Offset = m \/ Offset = 0
    BY <2>2 DEF Offset
  <2>4. m * n \in Int
    OBVIOUS
  <2>5. Offset \in Int
    BY <2>3, <2>4
  <2>6. pointer(1) + Offset \in Int
    BY <1>2, <2>5
  <2> QED BY <2>6, TypesThere, CutToWord DEF Address
<1>4. CASE 2 \notin 1 .. Len(instr.operands)
  <2>1. ~ (Len(instr.operands) > 1) /\ ~ (Len(instr.operands) > 2)
    BY <1>1, <1>4
  <2>2. instr.op \notin {"arrayload", "arraystore"}
    BY <1>4, SecondIsThere DEF Stores
  <2>3. Offset = 0
    BY <2>1, <2>2 DEF Offset
  <2>4. pointer(1) + Offset \in Int
    BY <1>2, <2>3
  <2> QED BY <2>4, TypesThere, CutToWord DEF Address
<1> QED BY <1>3, <1>4
-----------------------------------------------------------------------------
(* What an instruction leaves, when it does not store.                     *)

StepHolds == FramesHold(frames') /\ memory' = memory

(* What throws changes nothing, and the run is over.                       *)
LEMMA ThrowHolds ==
  ASSUME VInv, NEW what, Throw(what)
  PROVE  StepHolds /\ result' # Pending
<1>1. frames' = frames /\ memory' = memory /\ result' = [kind |-> "threw", what |-> what]
  BY DEF Throw
<1>2. result'.kind = "threw" /\ Pending.kind = "pending"
  BY <1>1 DEF Pending
<1> QED BY <1>1, <1>2 DEF StepHolds, VInv

(* Nor does an access that is out of bounds.                               *)
LEMMA RefusedHolds ==
  ASSUME VInv, NEW size, Refused(size)
  PROVE  StepHolds /\ result' # Pending
<1>1. CASE Throw("out of bounds")
  BY <1>1, ThrowHolds
<1>2. CASE result' = [kind |-> "undefined"] /\ UNCHANGED <<program, frames, memory>>
  <2>1. result'.kind = "undefined" /\ Pending.kind = "pending"
    BY <1>2 DEF Pending
  <2> QED BY <1>2, <2>1 DEF StepHolds, VInv
<1> QED BY <1>1, <1>2 DEF Refused

(* The running frame is replaced, ...                                      *)
LEMMA ReplaceHolds ==
  ASSUME VInv, Executing, NEW f, Replace(f), FrameHolds(f)
  PROVE  FramesHold(frames') /\ frame' = f
<1>1. frames' = Append(Front(frames), f)
  BY DEF Replace
<1>2. FramesHold(Front(frames))
  BY TopHolds DEF VInv, Executing
<1> QED BY <1>1, <1>2, OneMoreHolds DEF frame

(* ... and the memory is as it was, ...                                    *)
LEMMA BecomeHolds ==
  ASSUME VInv, Executing, NEW f, Become(f), FrameHolds(f)
  PROVE  StepHolds /\ frame' = f
BY ReplaceHolds DEF Become, StepHolds

(* ... at the next instruction, ...                                        *)
LEMMA ContinueHolds ==
  ASSUME VInv, Executing, NEW f, Continue(f), FrameHolds(f)
  PROVE  StepHolds /\ frame'.regs = f.regs
<1>1. PICK g : g = [f EXCEPT !.at = @ + 1]
  BY Zenon
<1>2. FrameHolds(g) /\ g.regs = f.regs
  BY <1>1 DEF FrameHolds
<1>3. Become(g)
  BY <1>1 DEF Continue
<1> QED BY <1>2, <1>3, BecomeHolds

(* ... with a value in the register the instruction names.                 *)
LEMMA WritesHolds ==
  ASSUME VInv, AtInstruction, NEW v \in Value, Writes(v)
  PROVE  StepHolds /\ (instr.dest \in Regs => frame'.regs[instr.dest] = v)
<1>1. PICK f : f = [frame EXCEPT !.regs[instr.dest] = v]
  BY Zenon
<1>2. FrameHolds(frame)
  BY FrameAndInstruction
<1>3. FrameHolds(f) /\ (instr.dest \in Regs => f.regs[instr.dest] = v)
  BY <1>1, <1>2, Zenon DEF FrameHolds
<1> QED BY <1>1, <1>3, ContinueHolds, Zenon DEF Writes, AtInstruction

(* Jumps leave the registers.                                              *)
LEMMA JumpHolds ==
  ASSUME VInv, AtInstruction, NEW label, JumpTo(label)
  PROVE  StepHolds
<1>1. CASE Throw("branch to unknown block")
  BY <1>1, ThrowHolds
<1>2. ASSUME NEW b, Become([frame EXCEPT !.block = b, !.at = 1]) PROVE StepHolds
  <2>1. PICK f : f = [frame EXCEPT !.block = b, !.at = 1]
    OBVIOUS
  <2>2. FrameHolds(f)
    BY <2>1, FrameAndInstruction DEF FrameHolds
  <2> QED BY <1>2, <2>1, <2>2, BecomeHolds DEF AtInstruction
<1> QED BY <1>1, <1>2 DEF JumpTo

AreValues(s) == IsVector(s) /\ \A k \in DOMAIN s : s[k] \in Value

(* The registers of a new frame are its arguments, or NewValue.            *)
LEMMA NewFrameHolds ==
  ASSUME NEW f, NEW args, AreValues(args)
  PROVE  FrameHolds(NewFrame(f, args))
<1>1. PICK n \in Nat : n = Len(args) /\ DOMAIN args = 1 .. n
  BY VectorIsSeq DEF AreValues
<1>2. ASSUME NEW r \in Regs PROVE (IF r < Len(args) THEN args[r + 1] ELSE NewValue) \in Value
  <2>1. r \in Nat
    BY InterpreterAssumption
  <2>2. CASE r < n
    <3>1. r + 1 \in DOMAIN args
      BY <1>1, <2>1, <2>2
    <3> QED BY <1>1, <2>2, <3>1 DEF AreValues
  <2> QED BY <1>1, <2>2, NamedValues
<1>3. PICK regs : regs = [r \in Regs |-> IF r < Len(args) THEN args[r + 1] ELSE NewValue]
  BY Zenon
<1>4. regs \in [Regs -> Value]
  BY <1>2, <1>3
<1> QED BY <1>3, <1>4 DEF FrameHolds, NewFrame

(* A call of values.                                                       *)
LEMMA CallHolds ==
  ASSUME VInv, NEW p, NEW f, NEW args, AreValues(args), NEW below, FramesHold(below), call(p, f, args, below)
  PROVE  StepHolds
<1>1. CASE Throw("wrong number of arguments") \/ Throw("function has no blocks")
  BY <1>1, ThrowHolds
<1>2. CASE frames' = Append(below, NewFrame(f, args)) /\ UNCHANGED <<program, memory, result>>
  BY <1>2, NewFrameHolds, OneMoreHolds DEF StepHolds
<1> QED BY <1>1, <1>2 DEF call

(* The values a call passes.                                               *)
LEMMA ArgumentsAreValues ==
  ASSUME VInv, AtInstruction, ~ ReadsSymbol, instr.op \in {"call", "tailcall", "callindirect"}
  PROVE  AreValues(callArgs)
<1>0. DOMAIN instr.operands = 1 .. Len(instr.operands) /\ Len(instr.operands) \in Nat
  BY FrameAndInstruction
<1>1. PICK m \in Int : m = Len(instr.operands) - 1
  <2>1. PICK n \in Nat : n = Len(instr.operands)
    BY <1>0
  <2>2. n - 1 \in Int
    OBVIOUS
  <2> QED BY <2>1, <2>2, Zenon
<1>2. Counted(callArgs, m)
  BY <1>1 DEF callArgs, Counted
<1>3. IsVector(callArgs) /\ DOMAIN callArgs = 1 .. m
  BY <1>2, CountedVector
<1>4. ASSUME NEW k \in 1 .. m PROVE callArgs[k] \in Value
  <2>1. k + 1 \in 2 .. Len(instr.operands) /\ k + 1 \in DOMAIN instr.operands
    BY <1>0, <1>1
  <2>2. k + 1 \in ReadOperands
    <3>1. CASE instr.op \in {"call", "tailcall"}
      BY <2>1, <3>1 DEF ReadOperands, CompareBranches, UnsignedBranches, ReadsNone, NoOps, SetOps, FlagBranches,
                        CarryBranches
    <3>2. CASE instr.op = "callindirect"
      BY <2>1, <3>2 DEF ReadOperands, CompareBranches, UnsignedBranches, ReadsNone, NoOps, SetOps, FlagBranches,
                        CarryBranches
    <3> QED BY <3>1, <3>2
  <2>3. instr.operands[k + 1].kind # "sym"
    BY <2>2 DEF ReadsSymbol
  <2>4. readOperand(k + 1, "i64") \in Value
    BY <2>1, <2>3, TypesThere, ReadIsValue
  <2>5. callArgs[k] = readOperand(k + 1, "i64")
    BY <1>1 DEF callArgs
  <2> QED BY <2>4, <2>5
<1> QED BY <1>3, <1>4 DEF AreValues

(* A call by name.                                                         *)
LEMMA CallNamedHolds ==
  ASSUME VInv, AtInstruction, instr.op \in {"call", "tailcall"}, NEW below, FramesHold(below), CallNamed(below)
  PROVE  StepHolds
<1>1. CASE Throw("call to unknown function") \/ Throw("symbol used as a value")
  BY <1>1, ThrowHolds
<1>2. ASSUME NEW f, ~ ReadsSymbol, call(program, f, callArgs, below) PROVE StepHolds
  BY <1>2, ArgumentsAreValues, CallHolds
<1> QED BY <1>1, <1>2 DEF CallNamed

(* A return puts a value into a register of the frame below.               *)
LEMMA ReturnHolds ==
  ASSUME VInv, Executing, NEW v \in Value, Return(v)
  PROVE  StepHolds
<1>1. CASE frames' = <<>> /\ UNCHANGED <<program, memory>>
  BY <1>1 DEF StepHolds, FramesHold, IsVector
<1>2. CASE /\ Callers # {}
           /\ frames' = Append(SubSeq(frames, 1, Max(Callers) - 1), Received(frames[Max(Callers)], v))
           /\ UNCHANGED <<program, memory, result>>
  <2>1. PICK n \in Nat : n = Len(frames) /\ DOMAIN frames = 1 .. n
    BY VectorIsSeq DEF VInv, FramesHold
  <2>2. PICK m : m = Max(Callers)
    OBVIOUS
  <2>3. m \in 1 .. n
    <3>1. Callers \subseteq 1 .. n
      BY <2>1 DEF Callers
    <3> QED BY <1>2, <2>2, <3>1, MaxOfPositions, Zenon
  <2>4. FramesHold(SubSeq(frames, 1, m - 1))
    <3>1. m - 1 \in Nat /\ m - 1 <= Len(frames)
      BY <2>1, <2>3
    <3> QED BY <3>1, FewerHold DEF VInv
  <2>5. FrameHolds(Received(frames[m], v))
    <3>1. FrameHolds(frames[m])
      BY <2>1, <2>3 DEF VInv, FramesHold
    <3>2. PICK f, d : f = frames[m] /\ d = CallOf(f).dest
      OBVIOUS
    <3>3. FrameHolds([f EXCEPT !.at = @ + 1, !.regs = IF d = NoDest THEN @ ELSE [@ EXCEPT ![d] = v]])
      BY <3>1, <3>2, Zenon DEF FrameHolds
    <3> QED BY <3>2, <3>3 DEF Received
  <2>6. FramesHold(frames')
    BY <1>2, <2>2, <2>4, <2>5, OneMoreHolds
  <2> QED BY <1>2, <2>6 DEF StepHolds
<1> QED BY <1>1, <1>2, Zenon DEF Return

-----------------------------------------------------------------------------
(* Each instruction.                                                       *)

(* What an instruction that makes a value reads.                           *)
LEMMA FirstIsValue ==
  ASSUME VInv, AtInstruction, ~ ReadsSymbol, instr.op \in Makers \ {"callindirect"}
  PROVE  /\ \A type \in DOMAIN Width : readOperand(1, type) \in Value
         /\ operand(1) \in Int /\ instr.type \in DOMAIN Width
<1>1. \A type \in DOMAIN Width : readOperand(1, type) \in Value
  BY MakersReadAll, FirstIsThere
<1>2. instr.type \in DOMAIN Width
  BY FrameAndInstruction
<1>3. readOperand(1, instr.type) \in Value
  BY <1>1, <1>2
<1> QED BY <1>1, <1>2, <1>3, BitsOfValue DEF operand

(* A second operand, where there are two.                                  *)
LEMMA SecondIsValue ==
  ASSUME VInv, AtInstruction, ~ ReadsSymbol,
         instr.op \in (BasicOps \ BasicUnary) \cup (OverflowOps \ {"nego"}) \cup Binary
  PROVE  operand(2) \in Int
<1>1. instr.op \in Makers /\ 2 \in 1 .. Len(instr.operands)
  BY SecondIsThere DEF Makers
<1>2. instr.type \in DOMAIN Width
  BY FrameAndInstruction
<1>3. readOperand(2, instr.type) \in Value
  BY <1>1, <1>2, MakersReadAll
<1> QED BY <1>3, BitsOfValue DEF operand

(* mov, poison and select.                                                 *)
LEMMA CopiesHold ==
  ASSUME VInv, Mov \/ Poison \/ Select
  PROVE  StepHolds
<1>1. CASE Mov
  <2>1. AtInstruction /\ ~ ReadsSymbol /\ instr.op \in {"mov", "expect", "freeze"} /\ Writes(readOperand(1, instr.type))
    BY <1>1 DEF Mov, At, AtInstruction
  <2>2. instr.op \in Makers \ {"callindirect"}
    BY <2>1 DEF Makers, Unary
  <2>3. readOperand(1, instr.type) \in Value
    BY <2>1, <2>2, FirstIsValue
  <2> QED BY <2>1, <2>3, WritesHolds
<1>2. CASE Poison
  <2>1. AtInstruction /\ Writes(fromInt128(instr.type, 0))
    BY <1>2 DEF Poison, At, AtInstruction
  <2>2. fromInt128(instr.type, 0) \in Value
    BY <2>1, FrameAndInstruction, NumberOfType
  <2> QED BY <2>1, <2>2, WritesHolds
<1>3. CASE Select
  <2>1. /\ AtInstruction /\ ~ ReadsSymbol /\ instr.op = "select"
        /\ \E k \in {2, 3} : Writes(readOperand(k, instr.type))
    BY <1>3 DEF Select, At, AtInstruction
  <2>2. \A k \in {2, 3} : k \in 1 .. Len(instr.operands)
    BY <2>1, SecondIsThere, ThirdIsThere
  <2>3. \A k \in {2, 3} : readOperand(k, instr.type) \in Value
    <3>1. instr.op \in Makers
      BY <2>1 DEF Makers
    <3> QED BY <2>1, <2>2, <3>1, MakersReadAll, FrameAndInstruction
  <2> QED BY <2>1, <2>3, WritesHolds
<1> QED BY <1>1, <1>2, <1>3

(* The basic operations.                                                   *)
LEMMA ArithHolds ==
  ASSUME VInv, Arith
  PROVE  StepHolds
<1>1. AtInstruction /\ ~ ReadsSymbol /\ instr.op \in BasicOps
  BY DEF Arith, At, AtInstruction
<1>2. CASE Throw("arithmetic")
  BY <1>2, ThrowHolds
<1>3. CASE /\ ~ basicRefused(instr.op, instr.type, operand(1), operand(2))
           /\ Writes(fromInt128(instr.type, basic(instr.op, instr.type, operand(1), operand(2))))
  <2>1. operand(1) \in Int /\ instr.type \in DOMAIN Width
    BY <1>1, FirstIsValue DEF Makers, BasicOps
  <2>2. instr.op \in BasicUnary \/ operand(2) \in Int
    BY <1>1, SecondIsValue
  <2>3. PICK n : n = basic(instr.op, instr.type, operand(1), operand(2))
    OBVIOUS
  <2>4. n \in Int
    BY <1>1, <1>3, <2>1, <2>2, <2>3, BasicIsNumber
  <2>5. fromInt128(instr.type, n) \in Value
    BY <2>1, <2>4, NumberOfType
  <2> QED BY <1>1, <1>3, <2>3, <2>5, WritesHolds
<1> QED BY <1>2, <1>3 DEF Arith

(* A frame with other flags and, it may be, one other register.            *)
LEMMA FlagsHold ==
  ASSUME NEW f, FrameHolds(f)
  PROVE  /\ \A c : FrameHolds([f EXCEPT !.cmpFlag = c])
         /\ FrameHolds([f EXCEPT !.overflowFlag = FALSE, !.carryFlag = FALSE])
         /\ FrameHolds([f EXCEPT !.waits = TRUE])
         /\ \A c, d : \A v \in Value : /\ FrameHolds([f EXCEPT !.carryFlag = c, !.regs[d] = v])
                                      /\ FrameHolds([f EXCEPT !.overflowFlag = c, !.regs[d] = v])
BY Zenon DEF FrameHolds

(* The instructions that leave flags, or nothing.                          *)
LEMMA FlagsAreLeft ==
  ASSUME VInv, Nop \/ AssertNonzero \/ Cmp \/ Clro \/ Carrying \/ Overflowing
  PROVE  StepHolds
<1>1. AtInstruction
  BY DEF Nop, AssertNonzero, Cmp, Clro, Carrying, Overflowing, At, AtInstruction
<1>2. FrameHolds(frame) /\ Executing
  BY <1>1, FrameAndInstruction DEF AtInstruction
<1>3. CASE Nop \/ AssertNonzero
  <2>1. Throw("assertion failed") \/ Continue(frame)
    BY <1>3 DEF Nop, AssertNonzero
  <2> QED BY <1>2, <2>1, ThrowHolds, ContinueHolds
<1>4. CASE Cmp
  BY <1>2, <1>4, FlagsHold, ContinueHolds DEF Cmp
<1>5. CASE Clro
  BY <1>2, <1>5, FlagsHold, ContinueHolds DEF Clro
<1>6. CASE Carrying
  <2>1. ~ ReadsSymbol /\ instr.op \in Binary
    BY <1>6 DEF Carrying, At, Binary
  <2>2. operand(1) \in Int /\ operand(2) \in Int /\ instr.type \in DOMAIN Width
    BY <1>1, <2>1, FirstIsValue, SecondIsValue DEF Makers, Binary, BasicOps, OverflowOps, PointerOps, Loads, FieldLoads,
                                                  Stores, FieldStores, Unary
  <2>3. PICK ux \in Int, uy \in Int : ux = unsignedOf(operand(1), instr.type) /\ uy = unsignedOf(operand(2), instr.type)
    <3>1. PICK m \in Int, n \in Int, w \in Nat : m = operand(1) /\ n = operand(2) /\ w = Width[instr.type]
      BY <2>2, WordOfType
    <3>2. AsUnsigned(m, w) \in Int /\ AsUnsigned(n, w) \in Int
      BY CutToWord
    <3> QED BY <3>1, <3>2 DEF unsignedOf, bitWidth
  <2>4. PICK c \in {0, 1} : c = IF frame.carryFlag THEN 1 ELSE 0
    OBVIOUS
  <2>5. PICK r : /\ r = IF instr.op = "addc" THEN addc(instr.type, ux, uy, c) ELSE subb(instr.type, ux, uy, c)
                 /\ Continue([frame EXCEPT !.carryFlag = r.carry, !.regs[instr.dest] = fromInt128(instr.type, r.num)])
    BY <1>6, <2>3, <2>4 DEF Carrying
  <2>6. r.num \in Int
    BY <2>2, <2>5, CarryingIsNumber
  <2>7. fromInt128(instr.type, r.num) \in Value
    BY <2>2, <2>6, NumberOfType
  <2>8. PICK f : f = [frame EXCEPT !.carryFlag = r.carry, !.regs[instr.dest] = fromInt128(instr.type, r.num)]
    OBVIOUS
  <2>9. FrameHolds(f)
    BY <1>2, <2>7, <2>8, FlagsHold
  <2> QED BY <1>2, <2>5, <2>8, <2>9, ContinueHolds
<1>7. CASE Overflowing
  <2>1. ~ ReadsSymbol /\ instr.op \in OverflowOps
    BY <1>7 DEF Overflowing, At
  <2>2. operand(1) \in Int /\ instr.type \in DOMAIN Width
    BY <1>1, <2>1, FirstIsValue DEF Makers, OverflowOps
  <2>3. instr.op = "nego" \/ operand(2) \in Int
    BY <1>1, <2>1, SecondIsValue
  <2>4. CASE Throw("checked arithmetic")
    BY <2>4, ThrowHolds
  <2>5. ASSUME NEW r, r = computeWithOverflow(instr.op, instr.type, operand(1), operand(2)),
               ~ overflowRefused(instr.op, instr.type, operand(1), operand(2)),
               Continue([frame EXCEPT !.overflowFlag = r.over, !.regs[instr.dest] = fromInt128(instr.type, r.num)])
        PROVE  StepHolds
    <3>1. r.num \in Int
      BY <2>1, <2>2, <2>3, <2>5, OverflowingIsNumber
    <3>2. fromInt128(instr.type, r.num) \in Value
      BY <2>2, <3>1, NumberOfType
    <3>3. PICK f : f = [frame EXCEPT !.overflowFlag = r.over, !.regs[instr.dest] = fromInt128(instr.type, r.num)]
      OBVIOUS
    <3>4. FrameHolds(f)
      BY <1>2, <3>2, <3>3, FlagsHold
    <3> QED BY <1>2, <2>5, <3>3, <3>4, ContinueHolds
  <2> QED BY <1>7, <2>4, <2>5 DEF Overflowing
<1> QED BY <1>3, <1>4, <1>5, <1>6, <1>7

(* The instructions that make a boolean.                                   *)
LEMMA ConditionsHold ==
  ASSUME VInv, SetFromFlag \/ SetFromOperands \/ ComparePointers
  PROVE  StepHolds
<1>1. AtInstruction
  BY DEF SetFromFlag, SetFromOperands, ComparePointers, At, AtInstruction
<1>2. (\E b : Writes(makeBool(b))) \/ (\E n \in {0, 1} : Writes(fromInt128(instr.type, n)))
  BY DEF SetFromFlag, SetFromOperands, ComparePointers
<1>3. \A n \in {0, 1} : fromInt128(instr.type, n) \in Value
  BY <1>1, FrameAndInstruction, NumberOfType
<1> QED BY <1>1, <1>2, <1>3, NamedValues, WritesHolds

(* The linker leaves the instructions of the objects as they are.          *)
LEMMA LinkedCodeFits ==
  ASSUME InputsFit, NEW i \in Inputs, Objects!link(i.objects).ok
  PROVE  CodeFits(Objects!link(i.objects).program)
<1>1. PICK objects, fns : objects = i.objects /\ fns = Objects!Merged(objects)
  OBVIOUS
<1>2. Objects!link(objects).program.functions = fns
  <2>1. Objects!link(objects).ok
    BY <1>1
  <2>2. \A why : ~ Objects!Refused(why).ok
    BY DEF Objects!Refused
  <2> QED BY <1>1, <2>1, <2>2 DEF Objects!link
<1>3. AreVectors(objects)
  BY <1>1, InputsAssumption DEF AreVectors
<1>4. fns = FlattenSeq(objects)
  BY <1>1, SameHelpers DEF Objects!Merged
<1>5. ToSet(fns) = UNION {ToSet(objects[o]) : o \in DOMAIN objects}
  BY <1>3, <1>4, FlattenElements
<1>6. ASSUME NEW k \in DOMAIN fns, NEW c \in Code(fns[k]) PROVE InstructionFits(c)
  <2>1. fns[k] \in UNION {ToSet(objects[o]) : o \in DOMAIN objects}
    BY <1>5 DEF ToSet
  <2>2. PICK o \in DOMAIN objects : \E f \in DOMAIN objects[o] : fns[k] = objects[o][f]
    BY <2>1 DEF ToSet
  <2> QED BY <1>1, <2>2 DEF InputsFit, Code
<1> QED BY <1>1, <1>2, <1>6 DEF CodeFits

(* The conversions.                                                        *)
LEMMA ConvertHolds ==
  ASSUME VInv, Convert
  PROVE  StepHolds
<1>1. /\ AtInstruction /\ ~ ReadsSymbol
      /\ instr.op \in {"convert", "cast", "bitconv", "sext", "zext", "itrunc"}
  BY DEF Convert, At, AtInstruction
<1>2. PICK type \in DOMAIN Width, v \in Value : type = instr.type /\ v = readOperand(1, type)
  <2>1. instr.op \in Makers \ {"callindirect"}
    BY <1>1 DEF Makers, Unary
  <2> QED BY <1>1, <2>1, FirstIsValue
<1>3. v.num \in Int
  BY BitsOfValue
<1>4. CASE instr.op \in {"convert", "cast"}
  <2>1. Writes(fromInt128(type, v.num)) \/ Writes(bitcast(type, v.type, bits(v)))
    BY <1>2, <1>4 DEF Convert
  <2>2. fromInt128(type, v.num) \in Value /\ bitcast(type, v.type, bits(v)) \in Value
    BY <1>2, <1>3, NumberOfType, ConvertedIsNumber
  <2> QED BY <1>1, <2>1, <2>2, WritesHolds
<1>5. CASE instr.op \in {"bitconv", "sext", "zext", "itrunc"}
  <2>1. PICK to \in DOMAIN Width : to = instr.type2
    BY <1>1, <1>5, FrameAndInstruction DEF InstructionFits
  <2>2. \/ Writes(bitcast(to, type, bits(v)))
        \/ Writes(fromInt128(to, widening("sext", type, v.num, 0)))
        \/ Writes(fromInt128(to, widening("zext", type, v.num, 0)))
    BY <1>2, <1>5, <2>1 DEF Convert
  <2>3. bitcast(to, type, bits(v)) \in Value
    <3>1. BitsOfType(type) \in Nat /\ bits(v) \in Nat
      BY <1>2, WordOfType, BitsOfValue
    <3> QED BY <3>1, BitcastIsValue
  <2>4. widening("sext", type, v.num, 0) \in Int /\ widening("zext", type, v.num, 0) \in Int
    BY <1>2, ConvertedIsNumber
  <2>5. /\ fromInt128(to, widening("sext", type, v.num, 0)) \in Value
        /\ fromInt128(to, widening("zext", type, v.num, 0)) \in Value
    BY <2>4, NumberOfType
  <2> QED BY <1>1, <2>2, <2>3, <2>5, WritesHolds
<1> QED BY <1>1, <1>4, <1>5

(* The pointer operations.                                                 *)
LEMMA PointersHold ==
  ASSUME VInv, Pointer \/ PointerNumber
  PROVE  StepHolds
<1>1. AtInstruction /\ ~ ReadsSymbol /\ instr.op \in PointerOps \cup {"ptrtoint", "inttoptr"}
  BY DEF Pointer, PointerNumber, At, AtInstruction
<1>2. instr.op \in Makers \ {"callindirect"}
  BY <1>1 DEF Makers, Unary, PointerOps
<1>3. operand(1) \in Int /\ instr.type \in DOMAIN Width
  BY <1>1, <1>2, FirstIsValue
<1>4. \A k \in 1 .. Len(instr.operands) : pointer(k) \in Int /\ readOperand(k, "i64").num \in Int
  <2>1. ASSUME NEW k \in 1 .. Len(instr.operands) PROVE pointer(k) \in Int /\ readOperand(k, "i64").num \in Int
    <3>1. readOperand(k, "ptr") \in Value /\ readOperand(k, "i64") \in Value
      BY <1>1, <1>2, TypesThere, MakersReadAll
    <3>2. pointer(k) \in Nat
      BY <3>1, PointersAreNumbers
    <3> QED BY <3>1, <3>2, BitsOfValue
  <2> QED BY <2>1
<1>5. CASE PointerNumber
  <2>1. Writes(fromInt128(instr.type, pointer(1))) \/ Writes(fromInt128("ptr", operand(1)))
    BY <1>5 DEF PointerNumber
  <2>2. pointer(1) \in Int
    BY <1>1, <1>2, <1>4, FirstIsThere
  <2>3. fromInt128(instr.type, pointer(1)) \in Value /\ fromInt128("ptr", operand(1)) \in Value
    BY <1>3, <2>2, TypesThere, NumberOfType
  <2> QED BY <1>1, <2>1, <2>3, WritesHolds
<1>6. CASE Pointer
  <2>1. PICK n : n = [k \in 1 .. 4 |->
                        IF k \notin DOMAIN instr.operands THEN 0
                        ELSE IF k = 1 \/ instr.op = "ptrdiff" THEN pointer(k) ELSE readOperand(k, "i64").num]
    BY Zenon
  <2>2. CASE Throw("alignment")
    BY <2>2, ThrowHolds
  <2>3. CASE /\ ~ pointerRefused(instr.op, n)
             /\ Writes(fromInt128(IF instr.op = "ptrdiff" THEN instr.type ELSE "ptr", pointerOp(instr.op, n)))
    <3>1. instr.op \in PointerOps
      BY <1>6 DEF Pointer, At
    <3>2. n \in [1 .. 4 -> Int]
      <4>1. DOMAIN instr.operands = 1 .. Len(instr.operands)
        BY <1>1, FrameAndInstruction
      <4> QED BY <1>4, <2>1, <4>1
    <3>3. pointerOp(instr.op, n) \in Int
      BY <2>3, <3>1, <3>2, PointerIsNumber
    <3>4. PICK type \in DOMAIN Width : type = IF instr.op = "ptrdiff" THEN instr.type ELSE "ptr"
      BY <1>3, TypesThere
    <3>5. fromInt128(type, pointerOp(instr.op, n)) \in Value
      BY <3>3, NumberOfType
    <3> QED BY <1>1, <2>3, <3>4, <3>5, WritesHolds
  <2> QED BY <1>6, <2>1, <2>2, <2>3 DEF Pointer
<1> QED BY <1>5, <1>6

(* Jumps and branches.                                                     *)
LEMMA JumpsHold ==
  ASSUME VInv, Jmp \/ Branch \/ BranchOnCarry \/ BranchOnOperands \/ Switch
  PROVE  StepHolds
<1>1. AtInstruction
  BY DEF Jmp, Branch, BranchOnCarry, BranchOnOperands, Switch, At, AtInstruction
<1>2. CASE Jmp \/ Switch
  <2>1. \E label : JumpTo(label)
    BY <1>2 DEF Jmp, Switch
  <2> QED BY <1>1, <2>1, JumpHolds
<1>3. CASE Branch \/ BranchOnCarry \/ BranchOnOperands
  <2>1. \E taken : BranchIf(taken)
    BY <1>3 DEF Branch, BranchOnCarry, BranchOnOperands
  <2>2. (\E label : JumpTo(label)) \/ Continue(frame)
    BY <2>1 DEF BranchIf
  <2>3. FrameHolds(frame) /\ Executing
    BY <1>1, FrameAndInstruction DEF AtInstruction
  <2> QED BY <1>1, <2>2, <2>3, JumpHolds, ContinueHolds
<1> QED BY <1>2, <1>3

(* Calls and returns.                                                      *)
LEMMA CallsHold ==
  ASSUME VInv, Call \/ Tailcall \/ Callindirect \/ Ret \/ RetVoid
  PROVE  StepHolds
<1>1. AtInstruction /\ Executing
  BY DEF Call, Tailcall, Callindirect, Ret, RetVoid, At, AtInstruction
<1>2. CASE Call
  <2>1. instr.op = "call" /\ CallNamed(frames)
    BY <1>2 DEF Call, At
  <2> QED BY <1>1, <2>1, CallNamedHolds DEF VInv
<1>3. CASE Tailcall
  <2>1. PICK f, below : f = [frame EXCEPT !.waits = TRUE] /\ below = Append(Front(frames), f)
    OBVIOUS
  <2>2. instr.op = "tailcall" /\ CallNamed(below)
    BY <1>3, <2>1 DEF Tailcall, At
  <2>3. FrameHolds(f)
    BY <1>1, <2>1, FrameAndInstruction, FlagsHold
  <2>4. FramesHold(below)
    BY <1>1, <2>1, <2>3, TopHolds, OneMoreHolds DEF VInv, Executing
  <2> QED BY <1>1, <2>2, <2>4, CallNamedHolds
<1>4. CASE Callindirect
  <2>1. ~ ReadsSymbol /\ instr.op = "callindirect"
    BY <1>4 DEF Callindirect, At
  <2>2. AreValues(callArgs)
    BY <1>1, <2>1, ArgumentsAreValues
  <2>3. Throw("callindirect out of range") \/ \E f : call(program, f, callArgs, frames)
    BY <1>4 DEF Callindirect
  <2> QED BY <2>2, <2>3, ThrowHolds, CallHolds DEF VInv
<1>5. CASE Ret
  <2>1. ~ ReadsSymbol /\ instr.op = "ret" /\ Return(readOperand(1, instr.type))
    BY <1>5 DEF Ret, At
  <2>2. readOperand(1, instr.type) \in Value
    BY <1>1, <2>1, FirstIsValue DEF Makers, Unary
  <2> QED BY <1>1, <2>1, <2>2, ReturnHolds
<1>6. CASE RetVoid
  <2>1. Return(VoidValue)
    BY <1>6 DEF RetVoid
  <2> QED BY <1>1, <2>1, NamedValues, ReturnHolds
<1> QED BY <1>2, <1>3, <1>4, <1>5, <1>6

(* Loads and stores, one by one.                                           *)
LEMMA LoadHolds ==
  ASSUME VInv, LoadValue
  PROVE  /\ StepHolds
         /\ result' = Pending =>
              \A b \in 0 .. sizeOfType(instr.type) - 1 :
                /\ frame'.regs[instr.dest].type = instr.type
                /\ Byte(frame'.regs[instr.dest].num, b, ByteBits) = StoredAt(Address + b)
<1>1. AtInstruction /\ ~ ReadsSymbol /\ instr.op \in Loads
  BY DEF LoadValue, At, AtInstruction
<1>2. CASE Refused(sizeOfType(instr.type))
  BY <1>2, RefusedHolds
<1>3. CASE Inside(sizeOfType(instr.type)) /\ Writes(loadValue(Address, instr.type))
  <2>1. Address \in Nat /\ instr.type \in DOMAIN Width /\ instr.dest \in Regs
    BY <1>1, AddressIsNumber, FrameAndInstruction DEF InstructionFits
  <2>2. PICK v : v = loadValue(Address, instr.type)
    OBVIOUS
  <2>3. /\ v \in Value /\ v.type = instr.type
        /\ \A b \in 0 .. sizeOfType(instr.type) - 1 :
             Byte(v.num, b, ByteBits) = memory[Address + b] /\ Address + b \in 0 .. MemorySize - 1
    BY <1>3, <2>1, <2>2, LoadedBytes DEF Inside, VInv, MemoryHolds
  <2>4. StepHolds /\ frame'.regs[instr.dest] = v
    BY <1>1, <1>3, <2>1, <2>2, <2>3, WritesHolds
  <2>5. ASSUME NEW b \in 0 .. sizeOfType(instr.type) - 1 PROVE memory[Address + b] = StoredAt(Address + b)
    BY <2>3 DEF VInv, MemoryHolds
  <2> QED BY <2>3, <2>4, <2>5
<1> QED BY <1>2, <1>3 DEF LoadValue

(* What a store stores.                                                    *)
LEMMA StoredValueIsValue ==
  ASSUME VInv, AtInstruction, ~ ReadsSymbol, instr.op \in Stores
  PROVE  StoredValue \in Value
<1>1. instr.op \in Makers \ {"callindirect"}
  BY DEF Makers, Stores, FieldStores
<1>2. 1 \in 1 .. Len(instr.operands) /\ Len(instr.operands) \in Nat /\ instr.type \in DOMAIN Width
  BY <1>1, FirstIsThere, FrameAndInstruction
<1>3. Len(instr.operands) \in 1 .. Len(instr.operands)
  BY <1>2
<1> QED BY <1>1, <1>2, <1>3, MakersReadAll DEF StoredValue

(* A store that is not refused: its bytes are the last over its addresses. *)
LEMMA StoreHolds ==
  ASSUME VInv, AtInstruction, ~ ReadsSymbol, instr.op \in Stores,
         memory' = storeValue(Address, StoredValue), Replace([frame EXCEPT !.at = @ + 1]),
         stores' = Append(stores, [at |-> Address, value |-> StoredValue])
  PROVE  FramesHold(frames') /\ MemoryHolds'
<1>1. FramesHold(frames')
  <2>1. PICK f : f = [frame EXCEPT !.at = @ + 1]
    OBVIOUS
  <2>2. FrameHolds(f)
    BY <2>1, FrameAndInstruction DEF FrameHolds
  <2> QED BY <2>1, <2>2, ReplaceHolds DEF AtInstruction
<1>2. PICK s : s = [at |-> Address, value |-> StoredValue]
  OBVIOUS
<1>3. s.at \in Nat /\ s.value \in Value
  BY <1>2, AddressIsNumber, StoredValueIsValue
<1>4. ASSUME NEW a \in 0 .. MemorySize - 1
      PROVE  /\ memory'[a] = IF Covers(s, a) THEN ByteOf(s, a) ELSE memory[a]
             /\ memory[a] \in 0 .. 2^ByteBits - 1
             /\ Covers(s, a) => ByteOf(s, a) \in 0 .. 2^ByteBits - 1
  <2>1. a \in DOMAIN memory /\ memory[a] \in 0 .. 2^ByteBits - 1
    BY DEF VInv, MemoryHolds, MemoryTyped
  <2>2. memory'[a] = IF Covers(s, a) THEN ByteOf(s, a) ELSE memory[a]
    BY <1>2, <2>1 DEF storeValue, Covers, ByteOf
  <2>3. ASSUME Covers(s, a) PROVE ByteOf(s, a) \in 0 .. 2^ByteBits - 1
    <3>1. a - s.at \in Nat
      BY <1>3, <2>3 DEF Covers
    <3> QED BY <1>3, <3>1, BitsOfValue DEF ByteOf
  <2> QED BY <2>1, <2>2, <2>3
<1>5. DOMAIN memory' = 0 .. MemorySize - 1 /\ memory' = [a \in 0 .. MemorySize - 1 |-> memory'[a]]
  BY DEF storeValue, VInv, MemoryHolds, MemoryTyped
<1>6. MemoryTyped'
  <2>1. \A a \in 0 .. MemorySize - 1 : memory'[a] \in 0 .. 2^ByteBits - 1
    BY <1>4
  <2> QED BY <1>5, <2>1 DEF MemoryTyped
<1>7. IsVector(stores) /\ IsVector(stores')
  BY <1>2, GrownVector DEF VInv, MemoryHolds
<1>8. ASSUME NEW a \in 0 .. MemorySize - 1 PROVE memory'[a] = StoredAt(a)'
  <2>1. StoredAt(a)' = LeftAt(stores', a) /\ StoredAt(a) = LeftAt(stores, a)
    BY DEF StoredAt, LeftAt, Covering, Covers, ByteOf
  <2>2. LeftAt(stores', a) = IF Covers(s, a) THEN ByteOf(s, a) ELSE LeftAt(stores, a)
    BY <1>2, <1>7, LeftByOneMore
  <2>3. memory[a] = StoredAt(a)
    BY DEF VInv, MemoryHolds
  <2> QED BY <1>4, <2>1, <2>2, <2>3
<1> QED BY <1>1, <1>6, <1>7, <1>8 DEF MemoryHolds

(* The steps that only throw.                                              *)
LEMMA ThrowsHold ==
  ASSUME VInv, Trap \/ FellOff \/ SymbolRead
  PROVE  StepHolds /\ result' # Pending
BY ThrowHolds DEF Trap, FellOff, SymbolRead
-----------------------------------------------------------------------------
(* A step of the interpreter, and of the toolchain.                        *)

(* What falls off a block is not at an instruction of it.                  *)
LEMMA FellOffIsPast ==
  ASSUME VInv, FellOff
  PROVE  ~ (frame.at <= Len(block.instructions))
<1>1. Executing /\ frame.at = Len(block.instructions) + 1
  BY DEF FellOff
<1>2. FrameFits(program, frame)
  BY <1>1, FrameIsAlike DEF VInv
<1>3. HasCode(fn) /\ frame.block \in DOMAIN fn.blocks
  BY <1>2 DEF FrameFits, VInv, LInv, CallsAreNamed, fn
<1>4. IsVector(block.instructions)
  BY <1>3 DEF HasCode, block
<1>5. PICK n \in Nat : n = Len(block.instructions)
  BY <1>4 DEF IsVector
<1> QED BY <1>1, <1>5

(* Only a load loads, and only a store stores.                             *)
LEMMA OneOfEach ==
  ASSUME VInv, Step, At(Loads) \/ At(Stores)
  PROVE  SymbolRead \/ (At(Loads) /\ LoadValue) \/ (At(Stores) /\ StoreValue)
<1>1. instr.op \in Loads \cup Stores /\ ~ FellOff
  BY FellOffIsPast DEF At
<1>2. /\ instr.op \in {"load", "arrayload", "fieldload", "loadv", "loadu", "store", "arraystore", "fieldstore",
                       "storev", "storeu"}
      /\ ~ (At(Loads) /\ StoreValue) /\ ~ (At(Stores) /\ LoadValue)
  BY <1>1 DEF Loads, FieldLoads, Stores, FieldStores, LoadValue, StoreValue, At
<1>3. ~ (Mov \/ Poison \/ Arith \/ Nop \/ AssertNonzero \/ Cmp \/ Carrying \/ Overflowing \/ Clro)
  BY <1>2 DEF Mov, Poison, Arith, Nop, AssertNonzero, Cmp, Carrying, Overflowing, Clro, At, BasicOps, OverflowOps, NoOps
<1>4. ~ (SetFromFlag \/ SetFromOperands \/ Select \/ Convert \/ Pointer \/ PointerNumber \/ ComparePointers)
  BY <1>2 DEF SetFromFlag, SetFromOperands, Select, Convert, Pointer, PointerNumber, ComparePointers, At, SetOps,
              CompareOps, UnsignedCompares, PointerOps
<1>5. ~ (Jmp \/ Branch \/ BranchOnCarry \/ BranchOnOperands \/ Switch \/ Trap)
  BY <1>2 DEF Jmp, Branch, BranchOnCarry, BranchOnOperands, Switch, Trap, At, FlagBranches, CarryBranches,
              CompareBranches, UnsignedBranches
<1>6. ~ (Call \/ Tailcall \/ Callindirect \/ Ret \/ RetVoid)
  BY <1>2 DEF Call, Tailcall, Callindirect, Ret, RetVoid, At
<1> QED BY <1>1, <1>2, <1>3, <1>4, <1>5, <1>6 DEF Step

(* A step of the interpreter.                                              *)
LEMMA InterpretHolds ==
  ASSUME VInv, Interpret
  PROVE  FramesHold(frames') /\ MemoryHolds'
<1>1. ASSUME StepHolds, stores' = stores PROVE FramesHold(frames') /\ MemoryHolds'
  <2>1. memory' = memory /\ stores' = stores
    BY <1>1 DEF StepHolds
  <2>2. \A a : StoredAt(a)' = StoredAt(a)
    BY <2>1 DEF StoredAt
  <2>3. MemoryTyped'
    BY <2>1 DEF VInv, MemoryHolds, MemoryTyped
  <2> QED BY <1>1, <2>1, <2>2, <2>3 DEF VInv, MemoryHolds, StepHolds
<1>2. /\ Step
      /\ stores' = IF At(Stores) /\ result' = Pending
                   THEN Append(stores, [at |-> Address, value |-> StoredValue]) ELSE stores
  BY DEF Interpret
<1>3. CASE At(Stores)
  <2>1. CASE SymbolRead
    BY <1>1, <1>2, <2>1, ThrowsHold
  <2>2. CASE StoreValue
    <3>1. AtInstruction /\ ~ ReadsSymbol /\ instr.op \in Stores
      BY <2>2 DEF StoreValue, At, AtInstruction
    <3>2. CASE \E size : Refused(size)
      BY <1>1, <1>2, <3>2, RefusedHolds
    <3>3. CASE memory' = storeValue(Address, StoredValue) /\ Replace([frame EXCEPT !.at = @ + 1])
      <4>1. result' = Pending
        BY <3>1, <3>3 DEF Replace, AtInstruction, Executing
      <4> QED BY <1>2, <1>3, <3>1, <3>3, <4>1, StoreHolds
    <3> QED BY <2>2, <3>2, <3>3 DEF StoreValue
  <2>3. ~ At(Loads)
    BY <1>3 DEF At, Loads, FieldLoads, Stores, FieldStores
  <2> QED BY <1>2, <1>3, <2>1, <2>2, <2>3, OneOfEach
<1>4. CASE ~ At(Stores)
  <2>1. StepHolds
    <3>1. ~ StoreValue
      BY <1>4 DEF StoreValue
    <3> QED BY <1>2, <3>1, CopiesHold, ArithHolds, FlagsAreLeft, ConditionsHold, ConvertHolds, PointersHold, JumpsHold,
               CallsHold, LoadHolds, ThrowsHold DEF Step
  <2> QED BY <1>1, <1>2, <1>4, <2>1
<1> QED BY <1>3, <1>4

(* The invariant is kept by every step ...                                 *)
LEMMA NextHolds ==
  ASSUME InputsFit, VInv, [Next]_all
  PROVE  VInv'
<1>1. LInv'
  BY NextKeeps DEF VInv
<1>2. ASSUME UNCHANGED <<memory, stores>> PROVE MemoryHolds'
  <2>1. \A a : StoredAt(a)' = StoredAt(a)
    BY <1>2 DEF StoredAt
  <2>2. MemoryTyped'
    BY <1>2 DEF VInv, MemoryHolds, MemoryTyped
  <2> QED BY <1>2, <2>1, <2>2 DEF VInv, MemoryHolds
<1>3. CASE Compile
  <2>1. UNCHANGED <<memory, stores, frames>>
    BY <1>3 DEF Compile, history
  <2>2. CodeFits(program')
    <3>1. PICK linked : linked = Objects!link(input.objects)
      OBVIOUS
    <3>2. CASE linked.ok /\ program' = linked.program
      BY <3>1, <3>2, LinkedCodeFits DEF VInv, LInv
    <3> QED BY <1>3, <3>1, <3>2 DEF Compile, VInv
  <2> QED BY <1>1, <1>2, <2>1, <2>2 DEF VInv
<1>4. CASE Load
  <2>1. UNCHANGED <<stores>> /\ call(program, program.entryIndex, input.args, <<>>)
    BY <1>4 DEF Load, Run
  <2>2. AreValues(input.args)
    BY DEF InputsFit, VInv, LInv, AreValues
  <2>3. FramesHold(<<>>)
    BY DEF FramesHold, IsVector
  <2>4. StepHolds
    BY <2>1, <2>2, <2>3, CallHolds
  <2>5. program' = program
    BY <2>1 DEF call, Throw
  <2> QED BY <1>1, <1>2, <2>1, <2>4, <2>5 DEF VInv, StepHolds
<1>5. CASE Interpret
  <2>1. program' = program
    BY <1>5, AnyStepFits DEF Interpret, StepFits, VInv
  <2> QED BY <1>1, <1>5, <2>1, InterpretHolds DEF VInv
<1>6. CASE Jit \/ Execute \/ UNCHANGED all
  <2>1. UNCHANGED <<memory, stores, frames, program>>
    BY <1>6 DEF Jit, Execute, all, history, vars
  <2> QED BY <1>1, <1>2, <2>1 DEF VInv
<1> QED BY <1>3, <1>4, <1>5, <1>6 DEF Next

(* What a load finds, while the invariant holds.                           *)
LEMMA LoadsFindStores ==
  ASSUME VInv, [Next]_all, At(Loads), stage = "run", result' = Pending, all' # all,
         NEW b \in 0 .. sizeOfType(instr.type) - 1
  PROVE  /\ frame'.regs[instr.dest].type = instr.type
         /\ Byte(frame'.regs[instr.dest].num, b, ByteBits) = StoredAt(Address + b)
<1>1. Interpret
  BY DEF Next, Compile, Load, Jit, Execute, At, Executing
<1>2. Step
  BY <1>1 DEF Interpret
<1>3. ~ SymbolRead
  BY ThrowsHold
<1>4. ~ At(Stores)
  BY DEF At, Loads, FieldLoads, Stores, FieldStores
<1>5. LoadValue
  BY <1>2, <1>3, <1>4, OneOfEach
<1> QED BY <1>5, LoadHolds

(* ... and holds at first.                                                 *)
LEMMA InitFits == Init => VInv
<1> SUFFICES ASSUME Init PROVE VInv
  OBVIOUS
<1>1. /\ frames = <<>> /\ program.functions = <<>>
      /\ memory = [a \in 0 .. MemorySize - 1 |-> 0] /\ stores = <<>>
  BY DEF Init
<1>2. LInv
  BY InitHolds
<1>3. CodeFits(program) /\ FramesHold(frames) /\ IsVector(stores)
  BY <1>1 DEF CodeFits, FramesHold, IsVector
<1>4. MemoryTyped
  <2>1. 0 \in 0 .. 2^ByteBits - 1
    <3>1. PICK p \in Nat \ {0} : p = 2^ByteBits
      BY TypesThere, PowerPositive
    <3> QED BY <3>1
  <2> QED BY <1>1, <2>1 DEF MemoryTyped
<1>5. ASSUME NEW a \in 0 .. MemorySize - 1 PROVE memory[a] = StoredAt(a)
  <2>1. Covering(stores, a) = {}
    BY <1>1 DEF Covering
  <2> QED BY <1>1, <2>1, StoredIsLeft DEF LeftAt
<1> QED BY <1>2, <1>3, <1>4, <1>5 DEF VInv, MemoryHolds

(* A load gives the number whose bytes the last stores over its addresses  *)
(* left there, whatever their types, the forms of their addresses and the  *)
(* functions they are in, and of memory nothing stored to it gives zeros.  *)
THEOREM LoadsGiveStores ==
  ASSUME InputsFit
  PROVE  Spec => LoadsReadStores
<1>1. Init => VInv
  BY InitFits
<1>2. VInv /\ [Next]_all => VInv'
  BY NextHolds
<1>3. VInv /\ [Next]_all =>
        [At(Loads) /\ stage = "run" /\ result' = Pending =>
           \A b \in 0 .. sizeOfType(instr.type) - 1 :
             /\ frame'.regs[instr.dest].type = instr.type
             /\ Byte(frame'.regs[instr.dest].num, b, ByteBits) = StoredAt(Address + b)]_all
  BY LoadsFindStores
<1> QED BY <1>1, <1>2, <1>3, PTL DEF Spec, LoadsReadStores
-----------------------------------------------------------------------------
(* Native code and the stack.  How much of the stack a function has taken  *)
(* is a matter of the word it is at: nothing before its stp, two words     *)
(* before its subsp and its ldp, its frame besides in between.  Code in    *)
(* which every word leads to words that agree on that, at every call       *)
(* depth, cannot but come back to the host with the stack it was given.    *)

(* How many words a function that is at a word, or has executed it, has    *)
(* taken of the stack, when its frame has so many.                         *)
DepthAt(w, words) ==
  CASE w.op \in {"stp", "ret"} -> 0
    [] w.op \in {"subsp", "ldp"} -> 2
    [] OTHER -> 2 + words

DepthAfter(w, words) ==
  CASE w.op = "ldp" -> 0
    [] w.op \in {"stp", "addsp"} -> 2
    [] OTHER -> 2 + words

(* A word that does not go on to the next.                                 *)
Leaves(w) == w.op \in {"b", "ret"}

(* A word that moves the stack pointer by the frame, stores into it, and   *)
(* leaves the frame pointer and the link register alone.                   *)
Kept == {Processor!Fp, Processor!Lr}

WordFits(w, words) ==
  /\ w.op \in {"subsp", "addsp"} => w.words = words
  /\ w.op = "str" => w.slot \in 0 .. words - 1
  /\ w.op = "ldr" => w.rt \notin Kept
  /\ w.op \in {"movz", "movk", "add", "sub", "mul", "sdiv"} => w.rd \notin Kept

(* Where the branch at an address goes.                                    *)
Aims(c, a, range) == a + Processor!Offset(c[a].imm, range)

(* Code whose words each follow from the one before: words[a] is the size  *)
(* of the frame of the function that address a is in.                      *)
AddressFlows(c, words, a) ==
  /\ words[a] \in Nat /\ words[a] % 2 = 0
  /\ WordFits(c[a], words[a])
  /\ ~ Leaves(c[a]) =>
       /\ a + 1 \in DOMAIN c /\ words[a + 1] = words[a]
       /\ DepthAt(c[a + 1], words[a]) = DepthAfter(c[a], words[a])
  /\ \A op \in {"b", "b.cond"} : c[a].op = op =>
       LET to == Aims(c, a, IF op = "b" THEN ImmRange ELSE CondRange)
       IN  to \in DOMAIN c /\ words[to] = words[a] /\ DepthAt(c[to], words[a]) = 2 + words[a]
  /\ c[a].op = "bl" =>
       LET to == Aims(c, a, ImmRange) IN to \in DOMAIN c /\ DepthAt(c[to], words[to]) = 0

(* All of it does.                                                         *)
CodeFlows(c, words) == DOMAIN c \subseteq Nat /\ \A a \in DOMAIN c : AddressFlows(c, words, a)

(* The calls under way, the host's own the first: where the stack pointer  *)
(* was when each began, and where it goes back to.                         *)
Stacked(calls) ==
  /\ IsVector(calls) /\ calls # <<>>
  /\ calls[1] = [entry |-> StackWords, back |-> Processor!HostPc]
  /\ \A j \in DOMAIN calls : calls[j].entry \in Int /\ calls[j].entry % 2 = 0
  /\ \A j, k \in DOMAIN calls : j < k => calls[k].entry <= calls[j].entry - 2

(* Each goes back into the body of the one below, which has the stack as   *)
(* it was.                                                                 *)
Suspended(c, words, calls) ==
  \A j \in DOMAIN calls : j # 1 =>
    LET to == calls[j].back
    IN  /\ to \in DOMAIN c
        /\ DepthAt(c[to], words[to]) = 2 + words[to]
        /\ calls[j].entry = calls[j - 1].entry - (2 + words[to])

(* What a call has saved.                                                  *)
Saved(m, begun) ==
  /\ {begun.entry - 2, begun.entry - 1} \subseteq DOMAIN m
  /\ m[begun.entry - 1] = begun.back
  /\ m[begun.entry - 2] = Processor!HostFp

(* All but the last have saved it; the last may not have, yet.             *)
Below(m, calls) == \A j \in DOMAIN calls : j # Len(calls) => Saved(m, calls[j])

Top(calls) == calls[Len(calls)]

Depth(words) == DepthAt(code[pc], words[pc])

(* A run under way: the stack is as deep as the word that is next says, and*)
(* the way back is in the link register or on the stack.                   *)
Active(words, calls) ==
  /\ Stacked(calls) /\ Suspended(code, words, calls) /\ Below(mem, calls)
  /\ pc \in DOMAIN code
  /\ sp = Top(calls).entry - Depth(words)
  /\ Depth(words) = 0 => x[Processor!Lr] = Top(calls).back
  /\ Depth(words) # 0 => Saved(mem, Top(calls))

(* It is back in the host.                                                 *)
Back == pc = Processor!HostPc /\ sp = StackWords

(* Every register has a value, and the frame pointer is the host's.        *)
Registers == x = [r \in Processor!XRegs |-> x[r]] /\ x[Processor!Fp] = Processor!HostFp

(* What the processor's step leaves of a run.                              *)
Goes(words) ==
  /\ code' = code /\ Registers'
  /\ \/ cpu' = "running" /\ (Back' \/ \E calls : Active(words, calls)')
     \/ cpu' = "fault" /\ sp' % 2 = 0
     \/ cpu' = "returned" /\ sp' = StackWords

(* The top call is the last of them.                                       *)
LEMMA TopIsThere ==
  ASSUME NEW calls, Stacked(calls)
  PROVE  /\ Len(calls) \in Nat \ {0} /\ DOMAIN calls = 1 .. Len(calls) /\ Len(calls) \in DOMAIN calls
         /\ Top(calls).entry \in Int /\ Top(calls).entry % 2 = 0
<1>1. Len(calls) \in Nat /\ DOMAIN calls = 1 .. Len(calls)
  BY VectorIsSeq DEF Stacked
<1>2. Len(calls) # 0
  BY <1>1 DEF Stacked, IsVector
<1> QED BY <1>1, <1>2 DEF Stacked, Top

(* The depth at an address.                                                *)
LEMMA DepthsAre ==
  ASSUME NEW w, NEW n \in Nat, n % 2 = 0
  PROVE  /\ DepthAt(w, n) \in {0, 2, 2 + n} /\ DepthAt(w, n) \in Nat /\ DepthAt(w, n) % 2 = 0
BY DEF DepthAt

(* The stack pointer is even.                                              *)
LEMMA ActiveIsEven ==
  ASSUME NEW words, NEW calls, CodeFlows(code, words), Active(words, calls)
  PROVE  sp % 2 = 0 /\ sp \in Int
<1>1. words[pc] \in Nat /\ words[pc] % 2 = 0
  BY DEF CodeFlows, AddressFlows, Active
<1>2. PICK d \in Nat : d = Depth(words) /\ d % 2 = 0
  BY <1>1, DepthsAre DEF Depth
<1>3. PICK e \in Int : e = Top(calls).entry /\ e % 2 = 0
  BY TopIsThere DEF Active
<1>4. sp = e - d
  BY <1>2, <1>3 DEF Active
<1> QED BY <1>2, <1>3, <1>4

(* A step to another word of the body, which stores nothing but into the   *)
(* frame.                                                                  *)
LEMMA BodyGoes ==
  ASSUME NEW words, NEW calls, CodeFlows(code, words), Active(words, calls),
         Depth(words) = 2 + words[pc],
         pc' \in DOMAIN code, words[pc'] = words[pc], DepthAt(code[pc'], words[pc]) = 2 + words[pc],
         UNCHANGED <<code, sp>>, DOMAIN mem' = DOMAIN mem,
         \A a \in DOMAIN mem : a \notin sp .. sp + words[pc] - 1 => mem'[a] = mem[a]
  PROVE  Active(words, calls)'
<1>1. words[pc] \in Nat /\ Depth(words)' = 2 + words[pc]
  BY DEF CodeFlows, AddressFlows, Active, Depth
<1>2. PICK e \in Int, n \in Nat : e = Top(calls).entry /\ n = words[pc]
  BY <1>1, TopIsThere DEF Active
<1>3. sp = e - (2 + n)
  BY <1>2 DEF Active
<1>4. ASSUME NEW j \in DOMAIN calls, Saved(mem, calls[j]) PROVE Saved(mem', calls[j])
  <2>1. PICK f \in Int : f = calls[j].entry
    BY DEF Active, Stacked
  <2>2. f = e \/ f >= e + 2
    <3>1. CASE j = Len(calls)
      BY <1>2, <2>1, <3>1 DEF Top
    <3>2. CASE j # Len(calls)
      <4>1. j < Len(calls) /\ Len(calls) \in DOMAIN calls
        BY <3>2, TopIsThere DEF Active
      <4> QED BY <1>2, <2>1, <4>1 DEF Active, Stacked, Top
    <3> QED BY <3>1, <3>2
  <2>3. f - 1 \notin sp .. sp + words[pc] - 1 /\ f - 2 \notin sp .. sp + words[pc] - 1
    BY <1>2, <1>3, <2>1, <2>2
  <2> QED BY <1>4, <2>1, <2>3 DEF Saved
<1>5. Below(mem', calls)
  BY <1>4 DEF Active, Below
<1>6. Saved(mem', Top(calls))
  <2>1. Depth(words) # 0
    BY <1>1, <1>2, <1>3
  <2>2. Saved(mem, Top(calls)) /\ Len(calls) \in DOMAIN calls
    BY <2>1, TopIsThere DEF Active
  <2> QED BY <1>4, <2>2 DEF Top
<1>7. Depth(words)' # 0 /\ Depth(words)' = Depth(words)
  BY <1>1, <1>2
<1> QED BY <1>5, <1>6, <1>7 DEF Active

(* What is below the top call is above its stack.                          *)
LEMMA BelowIsAbove ==
  ASSUME NEW calls, Stacked(calls), NEW m, Below(m, calls), NEW m2, DOMAIN m2 = DOMAIN m,
         \A a \in DOMAIN m : a \notin {Top(calls).entry - 2, Top(calls).entry - 1} => m2[a] = m[a]
  PROVE  Below(m2, calls)
<1>1. PICK e \in Int : e = Top(calls).entry
  BY TopIsThere
<1>2. ASSUME NEW j \in DOMAIN calls, j # Len(calls) PROVE Saved(m2, calls[j])
  <2>1. PICK f \in Int : f = calls[j].entry
    BY DEF Stacked
  <2>2. f >= e + 2
    <3>1. j < Len(calls) /\ Len(calls) \in DOMAIN calls
      BY <1>2, TopIsThere
    <3> QED BY <1>1, <2>1, <3>1 DEF Stacked, Top
  <2>3. {f - 1, f - 2} \cap {e - 2, e - 1} = {}
    BY <2>2
  <2>4. Saved(m, calls[j])
    BY <1>2 DEF Below
  <2> QED BY <1>1, <2>1, <2>3, <2>4, Zenon DEF Saved
<1> QED BY <1>2 DEF Below

(* The prologue saves the frame pointer and the link register.             *)
LEMMA StpGoes ==
  ASSUME NEW words, NEW calls, CodeFlows(code, words), Active(words, calls), Registers, cpu = "running",
         Processor!Stp
  PROVE  Goes(words)
<1>1. /\ code[pc].op = "stp" /\ {sp - 2, sp - 1} \subseteq DOMAIN mem
      /\ mem' = [mem EXCEPT ![sp - 2] = x[Processor!Fp], ![sp - 1] = x[Processor!Lr]]
      /\ sp' = sp - 2 /\ pc' = pc + 1 /\ UNCHANGED <<code, x, nzv, cpu>>
  BY DEF Processor!Stp, Processor!At, Processor!Touched, Processor!word
<1>2. Depth(words) = 0 /\ DepthAfter(code[pc], words[pc]) = 2
  BY <1>1 DEF Depth, DepthAt, DepthAfter
<1>3. PICK e \in Int : e = Top(calls).entry /\ sp = e
  BY <1>2, TopIsThere DEF Active
<1>4. pc' \in DOMAIN code' /\ Depth(words)' = 2
  BY <1>1, <1>2 DEF CodeFlows, AddressFlows, Active, Leaves, Depth
<1>5. DOMAIN mem' = DOMAIN mem /\ \A a \in DOMAIN mem : a \notin {e - 2, e - 1} => mem'[a] = mem[a]
  BY <1>1, <1>3
<1>6. Below(mem', calls)
  BY <1>3, <1>5, BelowIsAbove DEF Active
<1>7. Saved(mem', Top(calls))
  <2>1. x[Processor!Lr] = Top(calls).back /\ x[Processor!Fp] = Processor!HostFp
    BY <1>2 DEF Active, Registers
  <2>2. mem'[e - 2] = x[Processor!Fp] /\ mem'[e - 1] = x[Processor!Lr]
    BY <1>1, <1>3
  <2> QED BY <1>1, <1>3, <1>5, <2>1, <2>2 DEF Saved
<1>8. Active(words, calls)'
  BY <1>1, <1>3, <1>4, <1>6, <1>7 DEF Active
<1> QED BY <1>1, <1>8 DEF Goes, Registers

(* The epilogue takes them back.                                           *)
LEMMA LdpGoes ==
  ASSUME NEW words, NEW calls, CodeFlows(code, words), Active(words, calls), Registers, cpu = "running",
         Processor!Ldp
  PROVE  Goes(words)
<1>1. /\ code[pc].op = "ldp"
      /\ x' = [x EXCEPT ![Processor!Fp] = mem[sp], ![Processor!Lr] = mem[sp + 1]]
      /\ sp' = sp + 2 /\ pc' = pc + 1 /\ UNCHANGED <<code, nzv, mem, cpu>>
  BY DEF Processor!Ldp, Processor!At, Processor!Touched, Processor!word
<1>2. Depth(words) = 2 /\ DepthAfter(code[pc], words[pc]) = 0
  BY <1>1 DEF Depth, DepthAt, DepthAfter
<1>3. PICK e \in Int : e = Top(calls).entry /\ sp = e - 2
  BY <1>2, TopIsThere DEF Active
<1>4. pc' \in DOMAIN code' /\ Depth(words)' = 0
  BY <1>1, <1>2 DEF CodeFlows, AddressFlows, Active, Leaves, Depth
<1>5. Saved(mem, Top(calls))
  BY <1>2 DEF Active
<1>6. /\ x' = [r \in Processor!XRegs |-> x'[r]]
      /\ x'[Processor!Fp] = Processor!HostFp /\ x'[Processor!Lr] = Top(calls).back
  <2>1. mem[sp] = Processor!HostFp /\ mem[sp + 1] = Top(calls).back
    BY <1>3, <1>5 DEF Saved
  <2>2. {Processor!Fp, Processor!Lr} \subseteq Processor!XRegs /\ Processor!Fp # Processor!Lr
    BY DEF Processor!XRegs, Processor!Fp, Processor!Lr
  <2> QED BY <1>1, <2>1, <2>2, Zenon DEF Registers
<1>7. Active(words, calls)'
  BY <1>1, <1>3, <1>4, <1>6 DEF Active
<1> QED BY <1>1, <1>6, <1>7 DEF Goes, Registers

(* The frame is taken and given up.                                        *)
LEMMA MoveGoes ==
  ASSUME NEW words, NEW calls, CodeFlows(code, words), Active(words, calls), Registers, cpu = "running",
         Processor!MoveSp
  PROVE  Goes(words)
<1>1. /\ code[pc].op \in {"subsp", "addsp"}
      /\ sp' = sp + (IF code[pc].op = "addsp" THEN code[pc].words ELSE - code[pc].words)
      /\ pc' = pc + 1 /\ UNCHANGED <<code, x, nzv, mem, cpu>>
  BY DEF Processor!MoveSp, Processor!At, Processor!word
<1>2. PICK n \in Nat : n = words[pc] /\ n = code[pc].words
  BY <1>1 DEF CodeFlows, AddressFlows, Active, WordFits
<1>3. PICK e \in Int : e = Top(calls).entry /\ sp = e - Depth(words)
  BY TopIsThere DEF Active
<1>4. pc' \in DOMAIN code' /\ words[pc'] = words[pc] /\ Depth(words)' = DepthAfter(code[pc], words[pc])
  BY <1>1 DEF CodeFlows, AddressFlows, Active, Leaves, Depth
<1>5. sp' = e - Depth(words)' /\ Depth(words) # 0 /\ Depth(words)' # 0
  <2>1. CASE code[pc].op = "subsp"
    <3>1. Depth(words) = 2 /\ Depth(words)' = 2 + n /\ sp' = sp - n
      BY <1>1, <1>2, <1>4, <2>1, Zenon DEF Depth, DepthAt, DepthAfter
    <3> QED BY <1>3, <3>1
  <2>2. CASE code[pc].op = "addsp"
    <3>1. Depth(words) = 2 + n /\ Depth(words)' = 2 /\ sp' = sp + n
      BY <1>1, <1>2, <1>4, <2>2 DEF Depth, DepthAt, DepthAfter
    <3> QED BY <1>3, <3>1
  <2> QED BY <1>1, <2>1, <2>2
<1>6. Active(words, calls)'
  BY <1>1, <1>3, <1>4, <1>5 DEF Active
<1> QED BY <1>1, <1>6 DEF Goes, Registers

(* A call begins.                                                          *)
LEMMA BlGoes ==
  ASSUME NEW words, NEW calls, CodeFlows(code, words), Active(words, calls), Registers, cpu = "running",
         Processor!At({"bl"}), Processor!Goto(pc + Processor!Offset(code[pc].imm, ImmRange)),
         x' = [x EXCEPT ![Processor!Lr] = pc + 1]
  PROVE  Goes(words)
<1>1. /\ code[pc].op = "bl" /\ pc' = Aims(code, pc, ImmRange)
      /\ UNCHANGED <<code, sp, nzv, mem, cpu>>
  BY DEF Processor!At, Processor!word, Processor!Goto, Aims
<1>2. /\ pc' \in DOMAIN code' /\ Depth(words)' = 0
      /\ pc + 1 \in DOMAIN code /\ words[pc + 1] = words[pc] /\ words[pc] \in Nat /\ words[pc] % 2 = 0
      /\ DepthAt(code[pc + 1], words[pc + 1]) = 2 + words[pc + 1]
      /\ Depth(words) = 2 + words[pc]
  BY <1>1 DEF CodeFlows, AddressFlows, Active, Leaves, Depth, DepthAfter, DepthAt
<1>3. PICK e \in Int, n \in Nat : e = Top(calls).entry /\ e % 2 = 0 /\ n = words[pc] /\ n % 2 = 0 /\ sp = e - (2 + n)
  BY <1>2, TopIsThere DEF Active
<1>4. PICK m \in Nat \ {0} : m = Len(calls) /\ DOMAIN calls = 1 .. m
  BY TopIsThere DEF Active
<1>5. PICK new, next : new = [entry |-> sp, back |-> pc + 1] /\ next = Append(calls, new)
  BY Zenon
<1>6. /\ IsVector(next) /\ DOMAIN next = 1 .. m + 1 /\ next[m + 1] = new /\ Len(next) = m + 1
      /\ \A k \in 1 .. m : next[k] = calls[k]
  <2>1. IsVector(calls)
    BY DEF Active, Stacked
  <2>2. IsVector(next) /\ DOMAIN next = 1 .. m + 1 /\ next[m + 1] = new /\ \A k \in 1 .. m : next[k] = calls[k]
    BY <1>4, <1>5, <2>1, GrownVector
  <2>3. Len(next) \in Nat /\ DOMAIN next = 1 .. Len(next)
    BY <2>2, VectorIsSeq
  <2>4. Len(next) = m + 1
    BY <2>2, <2>3
  <2> QED BY <2>2, <2>4
<1>7. \A k \in 1 .. m + 1 : k \in 1 .. m \/ k = m + 1
  OBVIOUS
<1>8. m + 1 \in 1 .. m + 1 /\ m \in 1 .. m /\ 1 \in 1 .. m /\ \A k \in 1 .. m : k # m + 1 /\ k < m + 1
  OBVIOUS
<1>9. Stacked(next)
  <2>1. next # <<>> /\ next[1] = [entry |-> StackWords, back |-> Processor!HostPc]
    BY <1>4, <1>6, <1>8 DEF Active, Stacked
  <2>2. sp \in Int /\ sp % 2 = 0
    BY <1>3
  <2>3. ASSUME NEW j \in DOMAIN next PROVE next[j].entry \in Int /\ next[j].entry % 2 = 0
    BY <1>4, <1>5, <1>6, <1>7, <2>2, <2>3 DEF Active, Stacked
  <2>4. ASSUME NEW j \in DOMAIN next, NEW k \in DOMAIN next, j < k PROVE next[k].entry <= next[j].entry - 2
    <3>1. CASE k \in 1 .. m
      <4>1. j \in 1 .. m
        BY <1>6, <2>4, <3>1
      <4> QED BY <1>4, <1>6, <2>4, <3>1, <4>1 DEF Active, Stacked
    <3>2. CASE k = m + 1
      <4>1. j \in 1 .. m
        BY <1>6, <2>4, <3>2
      <4>2. PICK f \in Int : f = calls[j].entry
        BY <1>4, <4>1 DEF Active, Stacked
      <4>3. e <= f
        <5>1. CASE j = m
          BY <1>3, <1>4, <4>2, <5>1 DEF Top
        <5>2. CASE j < m
          <6>1. e = calls[m].entry /\ m \in DOMAIN calls /\ j \in DOMAIN calls
            BY <1>3, <1>4, <1>8, <4>1 DEF Top
          <6>2. e <= f - 2
            BY <4>2, <5>2, <6>1 DEF Active, Stacked
          <6> QED BY <6>2
        <5> QED BY <4>1, <5>1, <5>2
      <4>4. sp <= f - 2
        BY <1>3, <4>3
      <4> QED BY <1>5, <1>6, <3>2, <4>1, <4>2, <4>4
    <3> QED BY <1>6, <1>7, <3>1, <3>2
  <2> QED BY <1>6, <2>1, <2>3, <2>4 DEF Stacked
<1>10. Suspended(code, words, next)
  <2>1. ASSUME NEW j \in DOMAIN next, j # 1
        PROVE  LET to == next[j].back
               IN  /\ to \in DOMAIN code
                   /\ DepthAt(code[to], words[to]) = 2 + words[to]
                   /\ next[j].entry = next[j - 1].entry - (2 + words[to])
    <3>1. CASE j \in 1 .. m
      <4>1. j - 1 \in 1 .. m
        BY <2>1, <3>1
      <4> QED BY <1>4, <1>6, <2>1, <3>1, <4>1 DEF Active, Suspended
    <3>2. CASE j = m + 1
      <4>1. next[j] = new /\ next[j - 1] = calls[m]
        <5>1. j - 1 = m
          BY <3>2
        <5> QED BY <1>6, <1>8, <3>2, <5>1
      <4>2. new.back = pc + 1 /\ new.entry = sp /\ calls[m].entry = e
        BY <1>3, <1>4, <1>5 DEF Top
      <4> QED BY <1>2, <1>3, <4>1, <4>2
    <3> QED BY <1>6, <1>7, <2>1, <3>1, <3>2
  <2> QED BY <2>1 DEF Suspended
<1>11. Below(mem, next)
  <2>1. ASSUME NEW j \in 1 .. m PROVE Saved(mem, calls[j])
    <3>1. Depth(words) # 0
      BY <1>2, <1>3
    <3> QED BY <1>4, <3>1 DEF Active, Below, Top
  <2> QED BY <1>6, <1>7, <2>1 DEF Below
<1>12. Top(next) = new /\ new.entry = sp /\ new.back = pc + 1
  BY <1>5, <1>6 DEF Top
<1>13. x'[Processor!Lr] = pc + 1 /\ Registers'
  <2>1. {Processor!Fp, Processor!Lr} \subseteq Processor!XRegs /\ Processor!Fp # Processor!Lr
    BY DEF Processor!XRegs, Processor!Fp, Processor!Lr
  <2> QED BY <2>1 DEF Registers
<1>14. Active(words, next)'
  <2>1. sp' = sp - 0
    BY <1>1, <1>3
  <2> QED BY <1>1, <1>2, <1>9, <1>10, <1>11, <1>12, <1>13, <2>1 DEF Active
<1> QED BY <1>1, <1>13, <1>14 DEF Goes

(* ... and returns.                                                        *)
LEMMA RetGoes ==
  ASSUME NEW words, NEW calls, CodeFlows(code, words), Active(words, calls), Registers, cpu = "running",
         Processor!At({"ret"}), Processor!Goto(x[Processor!Lr]), UNCHANGED x
  PROVE  Goes(words)
<1>1. /\ code[pc].op = "ret" /\ UNCHANGED <<code, sp, nzv, mem, cpu, x>>
  BY DEF Processor!At, Processor!word, Processor!Goto
<1>2. Depth(words) = 0
  BY <1>1 DEF Depth, DepthAt
<1>3. PICK m \in Nat \ {0} : m = Len(calls) /\ DOMAIN calls = 1 .. m
  BY TopIsThere DEF Active
<1>4. PICK e \in Int : e = calls[m].entry /\ sp = e
  BY <1>2, <1>3, TopIsThere DEF Active, Top
<1>5. pc' = calls[m].back
  BY <1>2, <1>3 DEF Active, Top, Processor!Goto
<1>6. CASE m = 1
  <2>1. Back'
    BY <1>1, <1>3, <1>4, <1>5, <1>6 DEF Active, Stacked, Back
  <2> QED BY <1>1, <2>1 DEF Goes, Registers
<1>7. CASE m # 1
  <2>1. PICK l \in Nat \ {0} : l = m - 1
    BY <1>7
  <2>2. l \in 1 .. m /\ m \in 1 .. m /\ l # m /\ l <= m /\ 1 \in 1 .. l /\ \A k \in 1 .. l : k \in 1 .. m
    BY <2>1
  <2>3. PICK fewer : fewer = SubSeq(calls, 1, l)
    BY Zenon
  <2>4. IsVector(fewer) /\ Len(fewer) = l /\ DOMAIN fewer = 1 .. l /\ \A k \in 1 .. l : fewer[k] = calls[k]
    <3>1. IsVector(calls) /\ l <= Len(calls) /\ l \in Nat
      BY <1>3, <2>2 DEF Active, Stacked
    <3>2. IsVector(fewer) /\ \A k \in DOMAIN fewer : k \in DOMAIN calls /\ fewer[k] = calls[k]
      BY <2>3, <3>1, CutVector
    <3>3. Len(fewer) = l
      <4>1. calls \in Seq({calls[k] : k \in DOMAIN calls})
        BY <3>1, VectorIsSeq
      <4>2. PICK S : S = {calls[k] : k \in DOMAIN calls}
        BY Zenon
      <4> QED BY <2>3, <3>1, <4>1, <4>2
    <3>4. DOMAIN fewer = 1 .. l
      BY <3>2, <3>3, VectorIsSeq
    <3> QED BY <3>2, <3>3, <3>4
  <2>5. Stacked(fewer)
    <3>1. fewer # <<>> /\ fewer[1] = [entry |-> StackWords, back |-> Processor!HostPc]
      BY <1>3, <2>2, <2>4 DEF Active, Stacked
    <3>2. \A j \in DOMAIN fewer : fewer[j].entry \in Int /\ fewer[j].entry % 2 = 0
      BY <1>3, <2>2, <2>4 DEF Active, Stacked
    <3>3. \A j, k \in DOMAIN fewer : j < k => fewer[k].entry <= fewer[j].entry - 2
      BY <1>3, <2>2, <2>4 DEF Active, Stacked
    <3> QED BY <2>4, <3>1, <3>2, <3>3 DEF Stacked
  <2>6. Suspended(code, words, fewer)
    <3>1. ASSUME NEW j \in 1 .. l, j # 1 PROVE fewer[j] = calls[j] /\ fewer[j - 1] = calls[j - 1] /\ j \in 1 .. m
      <4>1. j - 1 \in 1 .. l
        BY <3>1
      <4> QED BY <2>2, <2>4, <4>1
    <3> QED BY <1>3, <2>4, <3>1 DEF Active, Suspended
  <2>7. /\ calls[m].back \in DOMAIN code
        /\ DepthAt(code[calls[m].back], words[calls[m].back]) = 2 + words[calls[m].back]
        /\ calls[m].entry = calls[l].entry - (2 + words[calls[m].back])
    BY <1>3, <1>7, <2>1, <2>2, Zenon DEF Active, Suspended
  <2>8. Top(fewer) = calls[l]
    BY <2>2, <2>4, <2>1 DEF Top
  <2>9. \A j \in 1 .. l : Saved(mem, calls[j])
    <3>1. \A j \in 1 .. l : j # m
      BY <2>1
    <3> QED BY <1>3, <2>2, <3>1 DEF Active, Below
  <2>10. Below(mem, fewer) /\ Saved(mem, Top(fewer))
    <3>1. l \in 1 .. l
      BY <2>1
    <3> QED BY <2>4, <2>8, <2>9, <3>1 DEF Below
  <2>11. Depth(words)' = 2 + words[calls[m].back] /\ Depth(words)' # 0
    <3>1. words[calls[m].back] \in Nat
      BY <2>7 DEF CodeFlows, AddressFlows
    <3>2. Depth(words)' = 2 + words[calls[m].back]
      BY <1>1, <1>5, <2>7 DEF Depth
    <3> QED BY <3>1, <3>2
  <2>12. Active(words, fewer)'
    BY <1>1, <1>4, <1>5, <2>5, <2>6, <2>7, <2>8, <2>10, <2>11 DEF Active
  <2> QED BY <1>1, <2>12 DEF Goes, Registers
<1> QED BY <1>6, <1>7

(* The instructions that write a register write another than those two.    *)
LEMMA SetGoes ==
  ASSUME NEW words, NEW calls, CodeFlows(code, words), Active(words, calls), Registers, cpu = "running",
         code[pc].op \in {"movz", "movk", "add", "sub", "mul", "sdiv", "ldr"},
         NEW r, r = (IF code[pc].op = "ldr" THEN code[pc].rt ELSE code[pc].rd), NEW v, Processor!Set(r, v)
  PROVE  Goes(words)
<1>1. /\ x' = [x EXCEPT ![r] = v] /\ pc' = pc + 1 /\ UNCHANGED <<code, sp, nzv, mem, cpu>>
  BY DEF Processor!Set
<1>2. r # Processor!Fp
  BY DEF CodeFlows, AddressFlows, Active, WordFits, Kept
<1>3. Depth(words) = 2 + words[pc] /\ DepthAfter(code[pc], words[pc]) = 2 + words[pc]
  BY DEF Depth, DepthAt, DepthAfter
<1>4. pc' \in DOMAIN code /\ words[pc'] = words[pc] /\ DepthAt(code[pc'], words[pc]) = 2 + words[pc]
  BY <1>1, <1>3 DEF CodeFlows, AddressFlows, Active, Leaves
<1>5. Active(words, calls)'
  BY <1>1, <1>3, <1>4, BodyGoes
<1>6. Registers'
  BY <1>1, <1>2 DEF Registers
<1> QED BY <1>1, <1>5, <1>6 DEF Goes

(* A comparison writes the flags, a store a slot of the frame.             *)
LEMMA CmpOrStrGoes ==
  ASSUME NEW words, NEW calls, CodeFlows(code, words), Active(words, calls), Registers, cpu = "running",
         Processor!Cmp \/ Processor!Str
  PROVE  Goes(words)
<1>1. code[pc].op \in {"cmp", "str"} /\ pc' = pc + 1 /\ UNCHANGED <<code, x, sp, cpu>>
  BY DEF Processor!Cmp, Processor!Str, Processor!At, Processor!word
<1>2. DOMAIN mem' = DOMAIN mem /\ \A a \in DOMAIN mem : a \notin sp .. sp + words[pc] - 1 => mem'[a] = mem[a]
  <2>1. CASE Processor!Cmp
    BY <2>1 DEF Processor!Cmp
  <2>2. CASE Processor!Str
    <3>1. code[pc].op = "str" /\ mem' = [mem EXCEPT ![sp + code[pc].slot] = x[code[pc].rt]]
      BY <2>2 DEF Processor!Str, Processor!At, Processor!word
    <3>2. words[pc] \in Nat /\ code[pc].slot \in 0 .. words[pc] - 1 /\ sp \in Int
      BY <3>1, ActiveIsEven DEF CodeFlows, AddressFlows, Active, WordFits
    <3>3. sp + code[pc].slot \in sp .. sp + words[pc] - 1
      BY <3>2
    <3> QED BY <3>1, <3>3
  <2> QED BY <2>1, <2>2
<1>3. Depth(words) = 2 + words[pc] /\ DepthAfter(code[pc], words[pc]) = 2 + words[pc]
  BY <1>1 DEF Depth, DepthAt, DepthAfter
<1>4. pc' \in DOMAIN code /\ words[pc'] = words[pc] /\ DepthAt(code[pc'], words[pc]) = 2 + words[pc]
  BY <1>1, <1>3 DEF CodeFlows, AddressFlows, Active, Leaves
<1>5. Active(words, calls)'
  BY <1>1, <1>2, <1>3, <1>4, BodyGoes
<1> QED BY <1>1, <1>5 DEF Goes, Registers

(* A branch leads into the body of its function.                           *)
LEMMA BranchGoes ==
  ASSUME NEW words, NEW calls, CodeFlows(code, words), Active(words, calls), Registers, cpu = "running",
         Processor!Branch
  PROVE  Goes(words)
<1>1. CASE Processor!At({"b", "b.cond"})
  <2>1. code[pc].op \in {"b", "b.cond"} /\ UNCHANGED <<code, sp, nzv, mem, cpu, x>>
    BY <1>1 DEF Processor!Branch, Processor!At, Processor!word, Processor!Goto
  <2>2. \/ pc' = Aims(code, pc, IF code[pc].op = "b" THEN ImmRange ELSE CondRange)
        \/ pc' = pc + 1 /\ code[pc].op = "b.cond"
    BY <1>1 DEF Processor!Branch, Processor!At, Processor!word, Processor!Goto, Aims
  <2>3. Depth(words) = 2 + words[pc] /\ DepthAfter(code[pc], words[pc]) = 2 + words[pc]
    BY <2>1 DEF Depth, DepthAt, DepthAfter
  <2>4. pc \in DOMAIN code /\ AddressFlows(code, words, pc)
    BY DEF CodeFlows, Active
  <2>5. pc' \in DOMAIN code /\ words[pc'] = words[pc] /\ DepthAt(code[pc'], words[pc]) = 2 + words[pc]
    <3>1. CASE pc' = pc + 1 /\ code[pc].op = "b.cond"
      BY <2>3, <2>4, <3>1 DEF AddressFlows, Leaves
    <3>2. CASE pc' = Aims(code, pc, IF code[pc].op = "b" THEN ImmRange ELSE CondRange)
      BY <2>1, <2>4, <3>2 DEF AddressFlows
    <3> QED BY <2>2, <3>1, <3>2
  <2>6. Active(words, calls)'
    BY <2>1, <2>3, <2>5, BodyGoes
  <2> QED BY <2>1, <2>6 DEF Goes, Registers
<1>2. CASE Processor!At({"bl"})
  <2>1. /\ Processor!Goto(pc + Processor!Offset(code[pc].imm, ImmRange))
        /\ x' = [x EXCEPT ![Processor!Lr] = pc + 1]
    BY <1>2 DEF Processor!Branch, Processor!At, Processor!word
  <2> QED BY <1>2, <2>1, BlGoes
<1>3. CASE Processor!At({"ret"})
  <2>1. Processor!Goto(x[Processor!Lr]) /\ UNCHANGED x
    BY <1>3 DEF Processor!Branch, Processor!At, Processor!word
  <2> QED BY <1>3, <2>1, RetGoes
<1> QED BY <1>1, <1>2, <1>3 DEF Processor!Branch, Processor!At

(* Every step of a run that is under way ...                               *)
LEMMA ActiveGoes ==
  ASSUME NEW words, NEW calls, CodeFlows(code, words), Active(words, calls), Registers, cpu = "running",
         Processor!Step
  PROVE  Goes(words)
<1>1. CASE Processor!Movz \/ Processor!Movk \/ Processor!Alu \/ Processor!Ldr
  <2>1. \E v : Processor!Set(IF code[pc].op = "ldr" THEN code[pc].rt ELSE code[pc].rd, v)
    BY <1>1 DEF Processor!Movz, Processor!Movk, Processor!Alu, Processor!Ldr, Processor!At, Processor!word
  <2>2. code[pc].op \in {"movz", "movk", "add", "sub", "mul", "sdiv", "ldr"}
    BY <1>1 DEF Processor!Movz, Processor!Movk, Processor!Alu, Processor!Ldr, Processor!At, Processor!word
  <2> QED BY <2>1, <2>2, SetGoes
<1>2. CASE Processor!Returned
  <2>1. pc \in Nat /\ pc = -1
    BY <1>2 DEF CodeFlows, Active, Processor!Returned, Processor!HostPc
  <2> QED BY <2>1
<1>3. CASE Processor!Fault
  <2>1. cpu' = "fault" /\ UNCHANGED <<code, x, sp>>
    BY <1>3 DEF Processor!Fault, Processor!Stop
  <2> QED BY <2>1, ActiveIsEven DEF Goes, Registers
<1> QED BY <1>1, <1>2, <1>3, StpGoes, LdpGoes, MoveGoes, BranchGoes, CmpOrStrGoes DEF Processor!Step

(* ... and the last, which gives the host its result.                      *)
LEMMA BackGoes ==
  ASSUME NEW words, CodeFlows(code, words), Back, Registers, cpu = "running", Processor!Step
  PROVE  Goes(words)
<1>1. pc \notin DOMAIN code
  <2>1. -1 \notin Nat
    OBVIOUS
  <2> QED BY <2>1 DEF Back, CodeFlows, Processor!HostPc
<1>2. Processor!Returned \/ Processor!Fault
  BY <1>1 DEF Processor!Step, Processor!Movz, Processor!Movk, Processor!Alu, Processor!Ldr, Processor!Stp, Processor!Ldp,
              Processor!MoveSp, Processor!Branch, Processor!Cmp, Processor!Str, Processor!At, Processor!Decoded
<1>3. ~ Processor!Fault
  BY <1>1 DEF Processor!Fault, Processor!Decoded, Back
<1>4. cpu' = "returned" /\ UNCHANGED <<code, x, sp>>
  BY <1>2, <1>3 DEF Processor!Returned, Processor!Stop
<1> QED BY <1>4 DEF Goes, Registers, Back
-----------------------------------------------------------------------------
(* Where the elements of a flattened vector are.                           *)

(* Where each vector begins when they are flattened.                       *)
AreOffsets(off, ss) == off[1] = 0 /\ \A i \in DOMAIN ss : off[i + 1] = off[i] + Len(ss[i])

(* Position p is that of element k of vector i.                            *)
IsPlace(off, ss, p, i, k) == i \in DOMAIN ss /\ k \in DOMAIN ss[i] /\ p = off[i] + k

(* flat has the elements of the first n vectors at their places, and       *)
(* nothing else.                                                           *)
IsPlaced(flat, ss, n, off) ==
  /\ IsVector(flat) /\ Len(flat) = off[n + 1]
  /\ \A i \in 1 .. n : \A k \in DOMAIN ss[i] :
       off[i] \in Nat /\ off[i] + k \in DOMAIN flat /\ flat[off[i] + k] = ss[i][k]
  /\ \A p \in DOMAIN flat : \E i \in 1 .. n : \E k \in DOMAIN ss[i] : IsPlace(off, ss, p, i, k)

(* One vector more is placed after the others.                             *)
LEMMA OneMorePlaced ==
  ASSUME NEW ss, AreVectors(ss), NEW off, AreOffsets(off, ss), NEW n \in Nat, n + 1 \in DOMAIN ss,
         NEW flat, IsPlaced(flat, ss, n, off)
  PROVE  IsPlaced(flat \o ss[n + 1], ss, n + 1, off)
<1>1. PICK longer : longer = flat \o ss[n + 1]
  BY Zenon
<1>2. PICK l \in Nat, m \in Nat : l = Len(flat) /\ DOMAIN flat = 1 .. l /\ m = Len(ss[n + 1]) /\ DOMAIN ss[n + 1] = 1 .. m
  BY VectorIsSeq, Zenon DEF IsPlaced, AreVectors
<1>3. /\ IsVector(longer) /\ Len(longer) = l + m /\ DOMAIN longer = 1 .. l + m
      /\ \A k \in 1 .. l : longer[k] = flat[k]
      /\ \A k \in 1 .. m : longer[l + k] = ss[n + 1][k]
  <2>1. IsVector(flat) /\ IsVector(ss[n + 1])
    BY DEF IsPlaced, AreVectors
  <2>2. /\ IsVector(longer) /\ Len(longer) = l + m
        /\ \A k \in 1 .. l : longer[k] = flat[k]
        /\ \A k \in 1 .. m : longer[l + k] = ss[n + 1][k]
    BY <1>1, <1>2, <2>1, ConcatVectors
  <2>3. DOMAIN longer = 1 .. Len(longer)
    BY <2>2, VectorIsSeq
  <2> QED BY <2>2, <2>3
<1>4. off[n + 1] = l /\ off[(n + 1) + 1] = l + m
  BY <1>2 DEF IsPlaced, AreOffsets
<1>5. \A k \in 1 .. m : l + k \in 1 .. l + m
  OBVIOUS
<1>6. \A k \in 1 .. l : k \in 1 .. l + m
  OBVIOUS
<1>7. \A i \in 1 .. n + 1 : i \in 1 .. n \/ i = n + 1
  OBVIOUS
<1>8. ASSUME NEW i \in 1 .. n + 1, NEW k \in DOMAIN ss[i]
      PROVE  off[i] \in Nat /\ off[i] + k \in DOMAIN longer /\ longer[off[i] + k] = ss[i][k]
  <2>1. CASE i \in 1 .. n
    BY <1>2, <1>3, <1>6, <2>1 DEF IsPlaced
  <2>2. CASE i = n + 1
    BY <1>2, <1>3, <1>4, <1>5, <2>2
  <2> QED BY <1>7, <2>1, <2>2
<1>9. ASSUME NEW p \in 1 .. l + m
      PROVE  \E i \in 1 .. n + 1 : \E k \in DOMAIN ss[i] : IsPlace(off, ss, p, i, k)
  <2>1. CASE p \in 1 .. l
    <3>1. PICK i \in 1 .. n : \E k \in DOMAIN ss[i] : IsPlace(off, ss, p, i, k)
      BY <1>2, <2>1 DEF IsPlaced
    <3>2. i \in 1 .. n + 1
      OBVIOUS
    <3> QED BY <3>1, <3>2
  <2>2. CASE p \notin 1 .. l
    <3>1. PICK k \in 1 .. m : p = l + k
      <4>1. p - l \in 1 .. m /\ p = l + (p - l)
        BY <2>2
      <4> QED BY <4>1
    <3>2. n + 1 \in 1 .. n + 1
      OBVIOUS
    <3> QED BY <1>2, <1>4, <3>1, <3>2, Zenon DEF IsPlace
  <2> QED BY <2>1, <2>2
<1> QED BY <1>1, <1>3, <1>4, <1>8, <1>9 DEF IsPlaced

(* All of them are.                                                        *)
LEMMA FlatteningPlaces ==
  ASSUME NEW ss, AreVectors(ss), NEW off, AreOffsets(off, ss)
  PROVE  IsPlaced(FlattenSeq(ss), ss, Len(ss), off)
<1>1. PICK n \in Nat : n = Len(ss) /\ DOMAIN ss = 1 .. n
  BY VectorIsSeq DEF AreVectors
<1>2. CASE n = 0
  <2>1. ss = <<>> /\ DOMAIN ss = {}
    BY <1>1, <1>2 DEF AreVectors, IsVector
  <2>2. FlattenSeq(ss) = <<>>
    BY <2>1 DEF FlattenSeq
  <2>3. IsVector(<<>>) /\ DOMAIN <<>> = {} /\ Len(<<>>) = 0
    BY DEF IsVector
  <2> QED BY <1>1, <1>2, <2>1, <2>2, <2>3 DEF IsPlaced, AreOffsets
<1>3. CASE n # 0
  <2>1. PICK f : IsFlattening(ss, n, f) /\ FlattenSeq(ss) = f[n]
    BY <1>1, <1>3, FlattenSeqIsFlattening DEF AreVectors
  <2>2. \A i \in 1 .. n : f[i] = IF i = 1 THEN ss[i] ELSE f[i - 1] \o ss[i]
    BY <2>1, Zenon DEF IsFlattening
  <2> DEFINE Right == {i \in 1 .. n : IsPlaced(f[i], ss, i, off)}
  <2>3. 1 \in Right
    <3>1. 1 \in 1 .. n /\ 1 .. 1 = {1}
      BY <1>3
    <3>2. f[1] = ss[1] /\ IsVector(ss[1])
      BY <1>1, <2>2, <3>1 DEF AreVectors
    <3>3. PICK m \in Nat : m = Len(ss[1]) /\ DOMAIN ss[1] = 1 .. m
      BY <3>2, VectorIsSeq
    <3>4. off[1] = 0 /\ off[1 + 1] = m
      BY <1>1, <3>1, <3>3 DEF AreOffsets
    <3>5. ASSUME NEW k \in 1 .. m
          PROVE  off[1] \in Nat /\ off[1] + k = k /\ IsPlace(off, ss, k, 1, k)
      <4>1. k \in Int /\ 0 + k = k
        OBVIOUS
      <4> QED BY <1>1, <3>1, <3>3, <3>4, <4>1 DEF IsPlace
    <3>6. IsPlaced(ss[1], ss, 1, off)
      <4>1. \A i \in 1 .. 1 : i = 1
        OBVIOUS
      <4> QED BY <3>1, <3>2, <3>3, <3>4, <3>5, <4>1 DEF IsPlaced
    <3> QED BY <3>1, <3>2, <3>6
  <2>4. ASSUME NEW i \in 1 .. n - 1, i \in Right PROVE i + 1 \in Right
    <3>1. i + 1 \in 1 .. n /\ i + 1 # 1 /\ (i + 1) - 1 = i /\ i \in Nat
      OBVIOUS
    <3>2. f[i + 1] = f[i] \o ss[i + 1]
      BY <2>2, <3>1, Zenon
    <3>3. IsPlaced(f[i + 1], ss, i + 1, off)
      BY <1>1, <2>4, <3>1, <3>2, OneMorePlaced
    <3> QED BY <3>1, <3>3
  <2> HIDE DEF Right
  <2>5. n \in Right
    <3>1. 1 .. n \subseteq Right
      BY <2>3, <2>4, IntervalInduction
    <3>2. n \in 1 .. n
      BY <1>3
    <3> QED BY <3>1, <3>2
  <2> QED BY <1>1, <2>1, <2>5 DEF Right
<1> QED BY <1>2, <1>3

(* There are such offsets.                                                 *)
LEMMA OffsetsExist ==
  ASSUME NEW ss, AreVectors(ss)
  PROVE  \E off : AreOffsets(off, ss)
<1>1. PICK n \in Nat : n = Len(ss) /\ DOMAIN ss = 1 .. n
  BY VectorIsSeq DEF AreVectors
<1>2. PICK laid : laid = [i \in 1 .. n |-> [size |-> Len(ss[i])]]
  BY Zenon
<1>3. Sized(laid)
  <2>1. Len(laid) = n
    BY <1>2
  <2>2. \A i \in 1 .. n : Len(ss[i]) \in Nat
    BY <1>1 DEF AreVectors, IsVector
  <2> QED BY <1>2, <2>1, <2>2 DEF Sized
<1>4. StartOf(laid, 1) = 0 /\ \A i \in 1 .. n : StartOf(laid, i + 1) = StartOf(laid, i) + Len(ss[i])
  <2>1. DOMAIN laid = 1 .. n /\ \A i \in 1 .. n : laid[i].size = Len(ss[i])
    BY <1>2
  <2>2. StartOf(laid, 1) = 0 /\ \A i \in DOMAIN laid : StartOf(laid, i + 1) = StartOf(laid, i) + laid[i].size
    BY <1>3, Layout
  <2> QED BY <2>1, <2>2
<1>5. PICK off : off = [i \in 1 .. n + 1 |-> StartOf(laid, i)]
  BY Zenon
<1>6. 1 \in 1 .. n + 1 /\ \A i \in 1 .. n : i \in 1 .. n + 1 /\ i + 1 \in 1 .. n + 1
  OBVIOUS
<1>7. AreOffsets(off, ss)
  BY <1>1, <1>4, <1>5, <1>6 DEF AreOffsets
<1> QED BY <1>7
-----------------------------------------------------------------------------
(* Words that follow one another.                                          *)

(* A word before branches are patched: it names a label.                   *)
WordOk(w, n, labels) == WordFits(w, n) /\ (w.op \in {"b", "b.cond"} => w.label \in labels)

(* One word follows another.                                               *)
Joins(v, w, n) == Leaves(v) \/ DepthAfter(v, n) = DepthAt(w, n)

(* Words that lead from one depth to another, or leave the function.       *)
Flows(s, d, e, n, labels) ==
  /\ IsVector(s)
  /\ \A k \in DOMAIN s : WordOk(s[k], n, labels)
  /\ Len(s) = 0 => d = e
  /\ Len(s) # 0 => DepthAt(s[1], n) = d /\ (Leaves(s[Len(s)]) \/ DepthAfter(s[Len(s)], n) = e)
  /\ \A k \in DOMAIN s : k # Len(s) => Joins(s[k], s[k + 1], n)

(* It leaves the function at its end.                                      *)
Closes(s) == Len(s) # 0 /\ Leaves(s[Len(s)])

(* Two such parts make one.                                                *)
LEMMA FlowsConcat ==
  ASSUME NEW s, NEW t, NEW d, NEW e, NEW g, NEW n, NEW labels,
         Flows(s, d, e, n, labels), Flows(t, e, g, n, labels)
  PROVE  /\ Flows(s \o t, d, g, n, labels) /\ Len(s \o t) = Len(s) + Len(t)
         /\ Closes(t) => Closes(s \o t)
         /\ Len(s) # 0 => (s \o t)[1] = s[1]
<1>1. PICK u : u = s \o t
  BY Zenon
<1>2. PICK l \in Nat, m \in Nat : l = Len(s) /\ DOMAIN s = 1 .. l /\ m = Len(t) /\ DOMAIN t = 1 .. m
  BY VectorIsSeq DEF Flows
<1>3. /\ IsVector(u) /\ Len(u) = l + m /\ DOMAIN u = 1 .. l + m
      /\ \A k \in 1 .. l : u[k] = s[k]
      /\ \A k \in 1 .. m : u[l + k] = t[k]
  <2>1. IsVector(s) /\ IsVector(t)
    BY DEF Flows
  <2>2. /\ IsVector(u) /\ Len(u) = l + m
        /\ \A k \in 1 .. l : u[k] = s[k]
        /\ \A k \in 1 .. m : u[l + k] = t[k]
    BY <1>1, <1>2, <2>1, ConcatVectors
  <2>3. DOMAIN u = 1 .. Len(u)
    BY <2>2, VectorIsSeq
  <2> QED BY <2>2, <2>3
<1>4. ASSUME NEW k \in 1 .. l + m, k \notin 1 .. l PROVE \E j \in 1 .. m : k = l + j /\ u[k] = t[j]
  <2>1. k - l \in 1 .. m /\ k = l + (k - l)
    BY <1>4
  <2> QED BY <1>3, <2>1
<1>5. \A k \in 1 .. l + m : WordOk(u[k], n, labels)
  BY <1>2, <1>3, <1>4, Zenon DEF Flows
<1>6. m # 0 => u[l + m] = t[m]
  <2>1. m # 0 => m \in 1 .. m
    OBVIOUS
  <2> QED BY <1>3, <2>1
<1>7. m = 0 => u[l + m] = u[l] /\ e = g /\ (l # 0 => u[l] = s[l])
  <2>1. l # 0 => l \in 1 .. l
    OBVIOUS
  <2> QED BY <1>2, <1>3, <2>1 DEF Flows
<1>8. l # 0 => u[1] = s[1] /\ DepthAt(u[1], n) = d
  <2>1. l # 0 => 1 \in 1 .. l
    OBVIOUS
  <2> QED BY <1>2, <1>3, <2>1 DEF Flows
<1>9. l = 0 => d = e /\ (m # 0 => u[1] = t[1])
  <2>1. m # 0 => 1 \in 1 .. m /\ 0 + 1 = 1
    OBVIOUS
  <2> QED BY <1>2, <1>3, <2>1 DEF Flows
<1>10. ASSUME l + m # 0
       PROVE  DepthAt(u[1], n) = d /\ (Leaves(u[l + m]) \/ DepthAfter(u[l + m], n) = g)
  <2>1. DepthAt(u[1], n) = d
    <3>1. l # 0 \/ m # 0
      BY <1>10
    <3> QED BY <1>2, <1>8, <1>9, <3>1 DEF Flows
  <2>2. CASE m # 0
    BY <1>2, <1>6, <2>1, <2>2 DEF Flows
  <2>3. CASE m = 0
    <3>1. l # 0 /\ u[l + m] = s[l]
      BY <1>7, <1>10, <2>3
    <3> QED BY <1>2, <1>7, <2>1, <2>3, <3>1 DEF Flows
  <2> QED BY <2>2, <2>3
<1>11. ASSUME NEW k \in 1 .. l + m, k # l + m PROVE Joins(u[k], u[k + 1], n)
  <2>1. CASE k \in 1 .. l /\ k # l
    <3>1. k + 1 \in 1 .. l
      BY <2>1
    <3> QED BY <1>2, <1>3, <2>1, <3>1 DEF Flows
  <2>2. CASE k = l
    <3>1. l # 0 /\ m # 0 /\ l \in 1 .. l /\ 1 \in 1 .. m
      BY <1>11, <2>2
    <3>2. u[k] = s[l] /\ u[k + 1] = t[1]
      BY <1>3, <2>2, <3>1
    <3> QED BY <1>2, <3>1, <3>2 DEF Flows, Joins
  <2>3. CASE k \notin 1 .. l
    <3>1. PICK j \in 1 .. m : k = l + j /\ u[k] = t[j]
      BY <1>4, <2>3
    <3>2. j + 1 \in 1 .. m /\ k + 1 = l + (j + 1) /\ j # m
      BY <1>11, <3>1
    <3>3. u[k + 1] = t[j + 1]
      BY <1>3, <3>2
    <3> QED BY <1>2, <3>1, <3>2, <3>3 DEF Flows
  <2> QED BY <2>1, <2>2, <2>3
<1>12. Flows(u, d, g, n, labels)
  <2>1. l + m = 0 => d = g
    <3>1. l + m = 0 => l = 0 /\ m = 0
      OBVIOUS
    <3> QED BY <1>7, <1>9, <3>1
  <2> QED BY <1>3, <1>5, <1>10, <1>11, <2>1 DEF Flows
<1>13. Closes(t) => Closes(u)
  BY <1>2, <1>3, <1>6 DEF Closes
<1> QED BY <1>1, <1>2, <1>3, <1>8, <1>12, <1>13

(* ... and many, each from the depth the one before leads to.              *)
AllFlow(ss, D, n, labels) ==
  IsVector(ss) /\ \A i \in DOMAIN ss : Flows(ss[i], D[i], D[i + 1], n, labels)

(* Flattened, they lead from the first depth to the last.                  *)
LEMMA FlowsFlatten ==
  ASSUME NEW ss, NEW D, NEW n, NEW labels, AllFlow(ss, D, n, labels)
  PROVE  /\ Flows(FlattenSeq(ss), D[1], D[Len(ss) + 1], n, labels)
         /\ Len(ss) # 0 /\ Closes(ss[Len(ss)]) => Closes(FlattenSeq(ss))
         /\ Len(ss) # 0 /\ Len(ss[1]) # 0 => Len(FlattenSeq(ss)) # 0 /\ FlattenSeq(ss)[1] = ss[1][1]
<1>1. PICK l \in Nat : l = Len(ss) /\ DOMAIN ss = 1 .. l
  BY VectorIsSeq, Zenon DEF AllFlow
<1>2. CASE l = 0
  <2>1. ss = <<>>
    BY <1>1, <1>2 DEF AllFlow, IsVector
  <2>2. FlattenSeq(ss) = <<>>
    BY <2>1 DEF FlattenSeq
  <2>3. IsVector(<<>>) /\ DOMAIN <<>> = {} /\ Len(<<>>) = 0
    BY DEF IsVector
  <2> QED BY <1>1, <1>2, <2>2, <2>3 DEF Flows
<1>3. CASE l # 0
  <2>1. PICK f : IsFlattening(ss, l, f) /\ FlattenSeq(ss) = f[l]
    BY <1>1, <1>3, FlattenSeqIsFlattening
  <2>2. \A i \in 1 .. l : f[i] = IF i = 1 THEN ss[i] ELSE f[i - 1] \o ss[i]
    BY <2>1, Zenon DEF IsFlattening
  <2> DEFINE Right == {i \in 1 .. l : /\ Flows(f[i], D[1], D[i + 1], n, labels)
                                      /\ Closes(ss[i]) => Closes(f[i])
                                      /\ Len(ss[1]) # 0 => Len(f[i]) # 0 /\ f[i][1] = ss[1][1]}
  <2>3. 1 \in Right
    <3>1. 1 \in 1 .. l /\ f[1] = ss[1]
      BY <1>3, <2>2
    <3> QED BY <1>1, <3>1 DEF AllFlow
  <2>4. ASSUME NEW i \in 1 .. l - 1, i \in Right PROVE i + 1 \in Right
    <3>1. i + 1 \in 1 .. l /\ i + 1 # 1 /\ (i + 1) - 1 = i
      OBVIOUS
    <3>2. f[i + 1] = f[i] \o ss[i + 1]
      BY <2>2, <3>1, Zenon
    <3>3. Flows(f[i], D[1], D[i + 1], n, labels) /\ Flows(ss[i + 1], D[i + 1], D[(i + 1) + 1], n, labels)
      BY <1>1, <2>4, <3>1 DEF AllFlow
    <3>4. /\ Flows(f[i + 1], D[1], D[(i + 1) + 1], n, labels) /\ Len(f[i + 1]) = Len(f[i]) + Len(ss[i + 1])
          /\ Closes(ss[i + 1]) => Closes(f[i + 1])
          /\ Len(f[i]) # 0 => f[i + 1][1] = f[i][1]
      <4>1. PICK a, b, c : a = f[i] /\ b = ss[i + 1] /\ c = f[i + 1]
        OBVIOUS
      <4>2. PICK d, e, g : d = D[1] /\ e = D[i + 1] /\ g = D[(i + 1) + 1]
        OBVIOUS
      <4>3. c = a \o b /\ Flows(a, d, e, n, labels) /\ Flows(b, e, g, n, labels)
        BY <3>2, <3>3, <4>1, <4>2
      <4>4. /\ Flows(c, d, g, n, labels) /\ Len(c) = Len(a) + Len(b)
            /\ Closes(b) => Closes(c)
            /\ Len(a) # 0 => c[1] = a[1]
        BY <4>3, FlowsConcat
      <4> QED BY <4>1, <4>2, <4>4
    <3>5. Len(ss[1]) # 0 => Len(f[i]) # 0 /\ f[i][1] = ss[1][1]
      BY <2>4
    <3>6. Len(f[i]) \in Nat /\ Len(ss[i + 1]) \in Nat
      BY <3>3, VectorIsSeq DEF Flows
    <3>7. Len(f[i]) # 0 => Len(f[i + 1]) # 0
      <4>1. PICK a \in Nat, b \in Nat : a = Len(f[i]) /\ b = Len(ss[i + 1])
        BY <3>6
      <4>2. Len(f[i + 1]) = a + b
        BY <3>4, <4>1
      <4>3. a # 0 => a + b # 0
        OBVIOUS
      <4> QED BY <4>1, <4>2, <4>3, Zenon
    <3> QED BY <3>1, <3>4, <3>5, <3>7, Zenon
  <2> HIDE DEF Right
  <2>5. l \in Right
    <3>1. 1 .. l \subseteq Right
      BY <2>3, <2>4, IntervalInduction
    <3>2. l \in 1 .. l
      BY <1>3
    <3> QED BY <3>1, <3>2
  <2> QED BY <1>1, <2>1, <2>5 DEF Right
<1> QED BY <1>2, <1>3

(* One word.                                                               *)
LEMMA FlowsOne ==
  ASSUME NEW w, NEW n, NEW labels, WordOk(w, n, labels)
  PROVE  /\ Flows(<<w>>, DepthAt(w, n), DepthAfter(w, n), n, labels) /\ Len(<<w>>) = 1 /\ <<w>>[1] = w
         /\ Leaves(w) => Closes(<<w>>) /\ \A e : Flows(<<w>>, DepthAt(w, n), e, n, labels)
<1>1. PICK s : s = <<w>>
  BY Zenon
<1>2. IsVector(s) /\ DOMAIN s = {1} /\ Len(s) = 1 /\ s[1] = w
  BY <1>1 DEF IsVector
<1> QED BY <1>1, <1>2 DEF Flows, Closes

(* None.                                                                   *)
LEMMA FlowsNone ==
  ASSUME NEW d, NEW n, NEW labels
  PROVE  Flows(<<>>, d, d, n, labels) /\ Len(<<>>) = 0
BY DEF Flows, IsVector
-----------------------------------------------------------------------------
(* The frame: what it has room for.                                        *)

(* A set of numbers with a greatest.                                       *)
Bounded(S) == S \subseteq Nat /\ \E m \in Nat : \A k \in S : k <= m

(* Sets of numbers that have a bound have one together, two of them ...    *)
LEMMA TwoAreBounded ==
  ASSUME NEW S, NEW T, Bounded(S), Bounded(T)
  PROVE  Bounded(S \cup T)
<1>1. PICK m \in Nat, n \in Nat : (\A k \in S : k <= m) /\ \A k \in T : k <= n
  BY Zenon DEF Bounded
<1>2. \A k \in S \cup T : k \in Nat /\ k <= m + n
  BY <1>1 DEF Bounded
<1>3. m + n \in Nat
  OBVIOUS
<1> QED BY <1>2, <1>3 DEF Bounded

(* ... or a vector.                                                        *)
LEMMA ManyAreBounded ==
  ASSUME NEW F, NEW n \in Nat, \A k \in 1 .. n : Bounded(F[k])
  PROVE  Bounded(UNION {F[k] : k \in 1 .. n})
<1> DEFINE Upto(k) == UNION {F[j] : j \in 1 .. k}
           Right == {k \in Nat : k <= n => Bounded(Upto(k))}
<1>1. 0 \in Right
  <2>1. 1 .. 0 = {}
    OBVIOUS
  <2>2. Upto(0) = {}
    BY <2>1
  <2>3. Bounded({})
    <3>1. 0 \in Nat
      OBVIOUS
    <3> QED BY <3>1 DEF Bounded
  <2> QED BY <2>2, <2>3
<1>2. ASSUME NEW k \in Nat, k \in Right PROVE k + 1 \in Right
  <2>1. SUFFICES ASSUME k + 1 <= n PROVE Bounded(Upto(k + 1))
    OBVIOUS
  <2>2. 1 .. k + 1 = (1 .. k) \cup {k + 1} /\ k + 1 \in 1 .. n /\ k <= n
    BY <2>1
  <2>3. Upto(k + 1) = Upto(k) \cup F[k + 1]
    BY <2>2
  <2> HIDE DEF Upto
  <2> QED BY <1>2, <2>2, <2>3, TwoAreBounded
<1> HIDE DEF Right
<1>3. n \in Right
  BY <1>1, <1>2, SetInduction
<1> QED BY <1>3 DEF Right

(* The greatest of a set that has a bound.                                 *)
LEMMA GreatestOfBounded ==
  ASSUME NEW S, Bounded(S), S # {}
  PROVE  Backend!Max(S) \in S /\ Backend!Max(S) \in Nat /\ \A k \in S : k <= Backend!Max(S)
<1>1. PICK m \in Nat : \A k \in S : k \in Nat /\ k <= m
  BY DEF Bounded
<1>2. PICK T : T = {m - j : j \in S}
  BY Zenon
<1>3. T \in SUBSET Nat /\ T # {}
  <2>1. ASSUME NEW j \in S PROVE m - j \in Nat
    BY <1>1
  <2> QED BY <1>2, <2>1
<1>4. PICK d \in T : \A k \in T : d <= k
  BY <1>3, LeastElement
<1>5. PICK j \in S : d = m - j
  BY <1>2, <1>4
<1>6. ASSUME NEW k \in S PROVE j >= k
  <2>1. m - j <= m - k
    BY <1>2, <1>4, <1>5, Zenon
  <2> QED BY <1>1, <2>1
<1>7. Backend!Max(S) \in S /\ \A k \in S : Backend!Max(S) >= k
  BY <1>6 DEF Backend!Max
<1> QED BY <1>1, <1>7

(* The registers an instruction names.                                     *)
Named(i) == {i.dest + 1} \cup {i.operands[k].is + 1 : k \in {o \in DOMAIN i.operands : i.operands[o].kind = "reg"}}

(* They are finitely many, so that there is a highest.                     *)
LEMMA NamedIsBounded ==
  ASSUME NEW i, InstructionFits(i), IsVector(i.operands)
  PROVE  Bounded(Named(i))
<1>0. Regs \subseteq Nat
  BY InterpreterAssumption
<1>1. PICK n \in Nat : DOMAIN i.operands = 1 .. n
  BY VectorIsSeq
<1>2. PICK F : F = [k \in 1 .. n |-> IF i.operands[k].kind = "reg" THEN {i.operands[k].is + 1} ELSE {}]
  BY Zenon
<1>3. ASSUME NEW k \in 1 .. n PROVE Bounded(F[k])
  <2>1. CASE i.operands[k].kind = "reg"
    <3>1. i.operands[k].is \in Nat
      <4>1. \/ i.operands[k].kind = "reg" /\ i.operands[k].is \in Regs
            \/ i.operands[k].kind = "imm" /\ i.operands[k].is \in Int
            \/ i.operands[k].kind = "sym"
        BY <1>1 DEF InstructionFits
      <4> QED BY <1>0, <2>1, <4>1, Zenon
    <3>2. PICK r \in Nat : r = i.operands[k].is + 1
      BY <3>1
    <3>3. F[k] = {r}
      BY <1>2, <2>1, <3>2
    <3> QED BY <3>3 DEF Bounded
  <2>2. CASE i.operands[k].kind # "reg"
    <3>1. F[k] = {} /\ 0 \in Nat
      BY <1>2, <2>2
    <3> QED BY <3>1 DEF Bounded
  <2> QED BY <2>1, <2>2
<1>4. Bounded(UNION {F[k] : k \in 1 .. n})
  BY <1>3, ManyAreBounded
<1>5. UNION {F[k] : k \in 1 .. n} = {i.operands[k].is + 1 : k \in {o \in DOMAIN i.operands : i.operands[o].kind = "reg"}}
  BY <1>1, <1>2
<1>6. Bounded({i.dest + 1})
  <2>1. i.dest \in Nat \cup {-1}
    BY <1>0, Zenon DEF InstructionFits, NoDest
  <2>2. PICK r \in Nat : r = i.dest + 1
    BY <2>1
  <2>3. {i.dest + 1} = {r}
    BY <2>2
  <2> QED BY <2>3 DEF Bounded
<1> QED BY <1>4, <1>5, <1>6, TwoAreBounded DEF Named

(* A function with instructions that fit, and with a frame that does.      *)
Fits(f) ==
  /\ HasCode(f) /\ \A i \in Code(f) : InstructionFits(i)
  /\ Backend!FrameSize(f) < FieldRange

(* The frame has a slot for every parameter and for every destination.     *)
LEMMA FrameHasRoom ==
  ASSUME NEW f, Fits(f)
  PROVE  /\ Backend!FrameWords(f) \in Nat /\ Backend!FrameWords(f) % 2 = 0
         /\ 8 * Backend!FrameWords(f) < FieldRange
         /\ Len(f.params) \in Nat /\ Len(f.params) <= Backend!FrameWords(f)
         /\ \A i \in Code(f) : i.dest \in Regs => i.dest \in 0 .. Backend!FrameWords(f) - 1
<1>1. PICK ss : ss = [b \in DOMAIN f.blocks |-> f.blocks[b].instructions]
  OBVIOUS
<1>2. PICK v : v = Backend!Instructions(f)
  OBVIOUS
<1>3. IsVector(v)
  <2>1. PICK n \in Nat : n = Len(f.blocks) /\ DOMAIN f.blocks = 1 .. n
    BY VectorIsSeq DEF Fits, HasCode
  <2>2. AreVectors(ss)
    <3>1. Counted(ss, n) /\ n \in Int
      BY <1>1, <2>1 DEF Counted
    <3>2. IsVector(ss) /\ DOMAIN ss = DOMAIN f.blocks
      BY <2>1, <3>1, CountedVector
    <3> QED BY <1>1, <3>2 DEF AreVectors, Fits, HasCode
  <2>3. v = FlattenSeq(ss)
    BY <1>1, <1>2, SameHelpers DEF Backend!Instructions
  <2> QED BY <2>2, <2>3, FlattenElements
<1>4. PICK n \in Nat : DOMAIN v = 1 .. n
  BY <1>3, VectorIsSeq
<1>5. Code(f) = {v[k] : k \in 1 .. n}
  BY <1>2, <1>4, InstructionsAreCode DEF ToSet, Fits
<1>6. PICK F : F = [k \in 1 .. n |-> Named(v[k])]
  BY Zenon
<1>7. \A k \in 1 .. n : Bounded(F[k])
  <2>1. ASSUME NEW k \in 1 .. n PROVE Bounded(F[k])
    <3>1. v[k] \in Code(f)
      BY <1>5
    <3>2. InstructionFits(v[k]) /\ IsVector(v[k].operands)
      BY <3>1 DEF Fits, HasCode, Code
    <3> QED BY <1>6, <3>2, NamedIsBounded
  <2> QED BY <2>1
<1>8. PICK l \in Nat : l = Len(f.params)
  BY DEF Fits, HasCode, IsVector
<1>9. PICK S : S = {l} \cup UNION {Named(i) : i \in Code(f)}
  BY Zenon
<1>10. Bounded(S)
  <2>1. Bounded(UNION {F[k] : k \in 1 .. n})
    BY <1>7, ManyAreBounded
  <2>2. Bounded({l})
    BY DEF Bounded
  <2>3. UNION {F[k] : k \in 1 .. n} = UNION {Named(i) : i \in Code(f)}
    BY <1>5, <1>6
  <2> QED BY <1>9, <2>1, <2>2, <2>3, TwoAreBounded
<1>11. Backend!MaxReg(f) = Backend!Max(S)
  <2>1. Code(f) = Backend!ToSet(Backend!Instructions(f))
    BY InstructionsAreCode, SameHelpers DEF Fits
  <2> QED BY <1>8, <1>9, <2>1 DEF Backend!MaxReg, Named
<1>12. PICK m \in Nat : m = Backend!MaxReg(f) /\ \A k \in S : k <= m
  BY <1>9, <1>10, <1>11, GreatestOfBounded, Zenon
<1>13. PICK h \in Nat : h = (m + 1) \div 2
  OBVIOUS
<1>14. Backend!FrameWords(f) = 2 * h
  BY <1>12, <1>13 DEF Backend!FrameWords
<1>15. 2 * h \in Nat /\ (2 * h) % 2 = 0 /\ m <= 2 * h
  BY <1>13
<1>16. l <= 2 * h
  <2>1. l \in S
    BY <1>9
  <2> QED BY <1>12, <1>15, <2>1
<1>17. ASSUME NEW i \in Code(f), i.dest \in Regs PROVE i.dest \in 0 .. 2 * h - 1
  <2>1. i.dest + 1 \in S
    BY <1>9 DEF Named
  <2>2. i.dest \in Nat
    BY <1>17, InterpreterAssumption, Zenon
  <2> QED BY <1>12, <1>15, <2>1, <2>2
<1>18. 8 * Backend!FrameWords(f) < FieldRange
  BY Zenon DEF Fits, Backend!FrameSize
<1> QED BY <1>8, <1>14, <1>15, <1>16, <1>17, <1>18
-----------------------------------------------------------------------------
(* What the encoder emits, word by word.                                   *)

(* A register the encoder loads operands into.                             *)
IsArgument(r) == r \in 0 .. ArgRegs - 1 \cup {9, 10, 11}

(* The registers of the arguments and the three the encoder works in are   *)
(* neither the frame pointer nor the link register.                        *)
LEMMA ArgumentsAreNotKept ==
  ASSUME NEW r, IsArgument(r)
  PROVE  r \notin Kept
BY ToolchainAssumption DEF IsArgument, Kept, Processor!Fp, Processor!Lr

(* An operand is loaded into a register that is not kept.                  *)
LEMMA OperandFlows ==
  ASSUME NEW r, IsArgument(r), NEW o, NEW n \in Nat, NEW labels
  PROVE  Flows(Backend!LoadOperand(r, o), 2 + n, 2 + n, n, labels) /\ Len(Backend!LoadOperand(r, o)) # 0
<1>0. r \notin Kept
  BY ArgumentsAreNotKept
<1>1. CASE o.kind = "reg"
  <2>1. PICK w : Backend!LoadOperand(r, o) = <<w>> /\ w.op \in {"ldr", "other"} /\ w.rt = r
    <3>1. Backend!LoadOperand(r, o) = Backend!SlotAccess("ldr", r, o.is)
      BY <1>1, Zenon DEF Backend!LoadOperand, Backend!Ldr
    <3> QED BY <3>1 DEF Backend!SlotAccess
  <2>2. Backend!LoadOperand(r, o) = <<w>>
    BY <2>1
  <2>3. WordOk(w, n, labels) /\ DepthAt(w, n) = 2 + n /\ DepthAfter(w, n) = 2 + n
    BY <1>0, <2>1 DEF WordOk, WordFits, DepthAt, DepthAfter
  <2>4. Flows(<<w>>, 2 + n, 2 + n, n, labels) /\ Len(<<w>>) = 1
    BY <2>3, FlowsOne
  <2> QED BY <2>2, <2>4
<1>2. CASE o.kind # "reg"
  <2>1. PICK s : s = Backend!LoadImm64(r, o.is)
    OBVIOUS
  <2>2. Backend!LoadOperand(r, o) = s
    BY <1>2, <2>1 DEF Backend!LoadOperand
  <2>3. /\ DOMAIN s = 1 .. 4 /\ s = [k \in 1 .. 4 |-> s[k]]
        /\ \A k \in 1 .. 4 : s[k].op \in {"movz", "movk"} /\ s[k].rd = r
    BY <2>1 DEF Backend!LoadImm64
  <2>4. IsVector(s) /\ Len(s) = 4
    <3>1. Counted(s, 4) /\ 4 \in Int
      BY <2>3 DEF Counted
    <3>2. IsVector(s) /\ DOMAIN s = 1 .. Len(s) /\ Len(s) \in Nat
      BY <3>1, CountedVector, VectorIsSeq
    <3> QED BY <2>3, <3>2
  <2>5. \A k \in 1 .. 4 : /\ WordOk(s[k], n, labels) /\ DepthAt(s[k], n) = 2 + n /\ DepthAfter(s[k], n) = 2 + n
    BY <1>0, <2>3 DEF WordOk, WordFits, DepthAt, DepthAfter
  <2>6. \A k \in 1 .. 4 : k # 4 => k + 1 \in 1 .. 4
    OBVIOUS
  <2>7. Flows(s, 2 + n, 2 + n, n, labels)
    BY <2>3, <2>4, <2>5, <2>6 DEF Flows, Joins
  <2> QED BY <2>2, <2>4, <2>7
<1> QED BY <1>1, <1>2

(* A register is stored into a slot of the frame.                          *)
LEMMA StrFlows ==
  ASSUME NEW r, NEW n \in Nat, 8 * n < FieldRange, NEW slot \in 0 .. n - 1, NEW labels
  PROVE  Flows(Backend!Str(r, slot), 2 + n, 2 + n, n, labels) /\ Len(Backend!Str(r, slot)) = 1
<1>1. PICK w : w = [op |-> "str", rt |-> r, slot |-> slot]
  BY Zenon
<1>2. Backend!Str(r, slot) = <<w>>
  <2>1. FieldRange \in Nat \ {0}
    BY ToolchainAssumption
  <2>2. slot < FieldRange
    BY <2>1
  <2>3. slot % FieldRange = slot
    BY <2>1, <2>2
  <2>4. PICK o : o = CASE slot < FieldRange -> "str"
                       [] FieldRange <= slot /\ slot < 2 * FieldRange -> "ldr"
                       [] OTHER -> "other"
    OBVIOUS
  <2>5. o = "str"
    <3>1. ~ (FieldRange <= slot)
      BY <2>1, <2>2
    <3> QED BY <2>2, <2>4, <3>1, Zenon
  <2>6. Backend!Str(r, slot) = <<[op |-> o, rt |-> r, slot |-> slot % FieldRange]>>
    BY <2>4, Zenon DEF Backend!Str, Backend!SlotAccess
  <2> QED BY <1>1, <2>3, <2>5, <2>6
<1>3. WordOk(w, n, labels) /\ DepthAt(w, n) = 2 + n /\ DepthAfter(w, n) = 2 + n
  BY <1>1 DEF WordOk, WordFits, DepthAt, DepthAfter
<1>4. Flows(<<w>>, 2 + n, 2 + n, n, labels) /\ Len(<<w>>) = 1
  BY <1>3, FlowsOne
<1> QED BY <1>2, <1>4

(* What moves sp by a frame that fits.                                     *)
LEMMA SmallFrames ==
  ASSUME NEW f, Fits(f), NEW op
  PROVE  LET n == Backend!FrameWords(f)
         IN  Backend!MoveSp(op, f) = IF n = 0 THEN <<>> ELSE <<[op |-> op, words |-> n]>>
<1>1. PICK n \in Nat : n = Backend!FrameWords(f) /\ 8 * n < FieldRange
  BY FrameHasRoom
<1>2. Backend!FrameSize(f) = 8 * n
  BY <1>1 DEF Backend!FrameSize
<1>3. PICK s : s = 8 * n
  OBVIOUS
<1>4. PICK fits : fits = <<[op |-> op, words |-> n]>>
  OBVIOUS
<1>5. PICK shifted : shifted = <<[op |-> op, words |-> ((s - FieldRange) * FieldRange) \div 8]>>
  OBVIOUS
<1>6. PICK other : other = <<[op |-> "other"]>>
  OBVIOUS
<1>7. Backend!MoveSp(op, f) = CASE s = 0 -> <<>>
                                [] 0 < s /\ s < FieldRange -> fits
                                [] FieldRange <= s /\ s < 2 * FieldRange -> shifted
                                [] OTHER -> other
  BY <1>1, <1>2, <1>3, <1>4, <1>5, <1>6, Zenon DEF Backend!MoveSp
<1>8. CASE n = 0
  <2>1. s = 0 /\ ~ (0 < s /\ s < FieldRange) /\ ~ (FieldRange <= s /\ s < 2 * FieldRange)
    BY <1>1, <1>3, <1>8, ToolchainAssumption
  <2>2. Backend!MoveSp(op, f) = <<>>
    BY <1>7, <2>1, Zenon
  <2> QED BY <1>1, <1>8, <2>2
<1>9. CASE n # 0
  <2>1. s # 0 /\ 0 < s /\ s < FieldRange /\ ~ (FieldRange <= s)
    BY <1>1, <1>3, <1>9, ToolchainAssumption
  <2>2. Backend!MoveSp(op, f) = fits
    BY <1>7, <2>1, Zenon
  <2> QED BY <1>1, <1>4, <1>9, <2>2
<1> QED BY <1>8, <1>9

(* The frame is taken, ...                                                 *)
LEMMA TakeFlows ==
  ASSUME NEW f, Fits(f), NEW labels
  PROVE  LET n == Backend!FrameWords(f) IN Flows(Backend!MoveSp("subsp", f), 2, 2 + n, n, labels)
<1>1. PICK n \in Nat : n = Backend!FrameWords(f)
  BY FrameHasRoom
<1>2. CASE n = 0
  <2>1. Backend!MoveSp("subsp", f) = <<>>
    BY <1>1, <1>2, SmallFrames
  <2>2. Flows(<<>>, 2, 2, n, labels)
    BY FlowsNone
  <2> QED BY <1>1, <1>2, <2>1, <2>2
<1>3. CASE n # 0
  <2>1. PICK w : w = [op |-> "subsp", words |-> n]
    BY Zenon
  <2>2. Backend!MoveSp("subsp", f) = <<w>>
    BY <1>1, <1>3, <2>1, SmallFrames
  <2>3. WordOk(w, n, labels) /\ DepthAt(w, n) = 2 /\ DepthAfter(w, n) = 2 + n
    BY <2>1 DEF WordOk, WordFits, DepthAt, DepthAfter
  <2>4. Flows(<<w>>, 2, 2 + n, n, labels)
    BY <2>3, FlowsOne
  <2> QED BY <1>1, <2>2, <2>4
<1> QED BY <1>2, <1>3

(* ... and given up before the function returns.                           *)
LEMMA EpilogueFlows ==
  ASSUME NEW f, Fits(f), NEW labels
  PROVE  LET n == Backend!FrameWords(f) IN
         /\ Closes(Backend!Epilogue(f)) /\ Flows(Backend!Epilogue(f), 2 + n, 2 + n, n, labels)
         /\ Len(Backend!Epilogue(f)) # 0
<1>1. PICK n \in Nat : n = Backend!FrameWords(f)
  BY FrameHasRoom
<1>2. PICK give, end : give = Backend!MoveSp("addsp", f) /\ end = <<[op |-> "ldp"], [op |-> "ret"]>>
  BY Zenon
<1>3. Flows(give, 2 + n, 2, n, labels)
  <2>2. CASE n = 0
    <3>1. give = <<>>
      BY <1>1, <1>2, <2>2, SmallFrames
    <3>2. Flows(<<>>, 2, 2, n, labels)
      BY FlowsNone
    <3> QED BY <1>1, <2>2, <3>1, <3>2
  <2>3. CASE n # 0
    <3>1. PICK w : w = [op |-> "addsp", words |-> n]
      BY Zenon
    <3>2. give = <<w>>
      BY <1>1, <1>2, <2>3, <3>1, SmallFrames
    <3>3. WordOk(w, n, labels) /\ DepthAt(w, n) = 2 + n /\ DepthAfter(w, n) = 2
      BY <3>1 DEF WordOk, WordFits, DepthAt, DepthAfter
    <3>4. Flows(<<w>>, 2 + n, 2, n, labels)
      BY <3>3, FlowsOne
    <3> QED BY <3>2, <3>4
  <2> QED BY <2>2, <2>3
<1>4. /\ IsVector(end) /\ Len(end) = 2 /\ DOMAIN end = {1, 2} /\ end[1] = [op |-> "ldp"] /\ end[2] = [op |-> "ret"]
  BY <1>2 DEF IsVector
<1>5. Flows(end, 2, 2 + n, n, labels) /\ Closes(end)
  <2>1. \A k \in {1, 2} : WordOk(end[k], n, labels)
    BY <1>4 DEF WordOk, WordFits
  <2>2. DepthAt(end[1], n) = 2 /\ DepthAfter(end[1], n) = 0 /\ DepthAt(end[2], n) = 0 /\ Leaves(end[2])
    BY <1>4 DEF DepthAt, DepthAfter, Leaves
  <2>3. \A k \in {1, 2} : k # 2 => k = 1
    OBVIOUS
  <2>4. 1 + 1 = 2
    OBVIOUS
  <2> QED BY <1>4, <2>1, <2>2, <2>3, <2>4 DEF Flows, Joins, Closes
<1>6. Backend!Epilogue(f) = give \o end
  BY <1>2 DEF Backend!Epilogue
<1>7. Flows(give \o end, 2 + n, 2 + n, n, labels) /\ Closes(give \o end)
  BY <1>3, <1>5, FlowsConcat
<1> QED BY <1>1, <1>6, <1>7 DEF Closes

(* The smaller of two numbers.                                             *)
LEMMA SmallestOfTwo ==
  ASSUME NEW a \in Int, NEW b \in Int
  PROVE  /\ Backend!Min({a, b}) \in Int /\ Backend!Min({a, b}) <= a /\ Backend!Min({a, b}) <= b
         /\ Backend!Min({a, b}) \in {a, b}
<1>1. \E l \in {a, b} : \A y \in {a, b} : l <= y
  OBVIOUS
<1>2. Backend!Min({a, b}) \in {a, b} /\ \A y \in {a, b} : Backend!Min({a, b}) <= y
  BY <1>1 DEF Backend!Min
<1> QED BY <1>2

(* The same depth everywhere.                                              *)
Level(d) == [i \in Nat |-> d]

(* Parts that each stay at the same depth.                                 *)
LEMMA LevelFlows ==
  ASSUME NEW ss, IsVector(ss), NEW n \in Nat, NEW labels, \A i \in DOMAIN ss : Flows(ss[i], 2 + n, 2 + n, n, labels)
  PROVE  /\ Flows(Backend!FlattenSeq(ss), 2 + n, 2 + n, n, labels)
         /\ Len(ss) # 0 /\ Closes(ss[Len(ss)]) => Closes(Backend!FlattenSeq(ss))
         /\ Len(ss) # 0 /\ Len(ss[1]) # 0 =>
              Len(Backend!FlattenSeq(ss)) # 0 /\ Backend!FlattenSeq(ss)[1] = ss[1][1]
<1>1. PICK l \in Nat : l = Len(ss) /\ DOMAIN ss = 1 .. l
  BY VectorIsSeq
<1>2. PICK D : D = Level(2 + n)
  OBVIOUS
<1>3. D[1] = 2 + n /\ D[l + 1] = 2 + n /\ \A i \in 1 .. l : D[i] = 2 + n /\ D[i + 1] = 2 + n
  <2>1. 1 \in Nat /\ l + 1 \in Nat /\ \A i \in 1 .. l : i \in Nat /\ i + 1 \in Nat
    OBVIOUS
  <2> QED BY <1>2, <2>1 DEF Level
<1>4. AllFlow(ss, D, n, labels)
  BY <1>1, <1>3 DEF AllFlow
<1>5. PICK g : g = FlattenSeq(ss) /\ g = Backend!FlattenSeq(ss)
  BY SameHelpers
<1>6. /\ Flows(g, D[1], D[l + 1], n, labels)
      /\ Len(ss) # 0 /\ Closes(ss[Len(ss)]) => Closes(g)
      /\ Len(ss) # 0 /\ Len(ss[1]) # 0 => Len(g) # 0 /\ g[1] = ss[1][1]
  <2>1. /\ Flows(FlattenSeq(ss), D[1], D[Len(ss) + 1], n, labels)
        /\ Len(ss) # 0 /\ Closes(ss[Len(ss)]) => Closes(FlattenSeq(ss))
        /\ Len(ss) # 0 /\ Len(ss[1]) # 0 => Len(FlattenSeq(ss)) # 0 /\ FlattenSeq(ss)[1] = ss[1][1]
    BY <1>4, FlowsFlatten
  <2> QED BY <1>1, <1>5, <2>1
<1> QED BY <1>3, <1>5, <1>6
-----------------------------------------------------------------------------
(* What an instruction is compiled to.                                     *)

(* The instructions that end a block.                                      *)
Terminates(i) == i.op \in {"jmp", "ret", "retvoid"}

(* It does its work inside the frame; a jump or a return leaves.           *)
Emits(f, i) ==
  LET n == Backend!FrameWords(f)
      s == Backend!Emitted(f, i)
  IN  /\ Flows(s, 2 + n, 2 + n, n, Backend!Labels(f)) /\ Len(s) # 0
      /\ Terminates(i) => Closes(s)

(* Two parts of it make one.                                               *)
LEMMA BodyConcat ==
  ASSUME NEW s, NEW t, NEW d, NEW n, NEW labels, Flows(s, d, d, n, labels), Flows(t, d, d, n, labels)
  PROVE  /\ Flows(s \o t, d, d, n, labels)
         /\ Len(s) # 0 \/ Len(t) # 0 => Len(s \o t) # 0
         /\ Closes(t) => Closes(s \o t)
<1>1. PICK l \in Nat, m \in Nat : l = Len(s) /\ m = Len(t)
  BY VectorIsSeq DEF Flows
<1>2. /\ Flows(s \o t, d, d, n, labels) /\ Len(s \o t) = l + m
      /\ Closes(t) => Closes(s \o t)
  BY <1>1, FlowsConcat
<1>3. l # 0 \/ m # 0 => l + m # 0
  OBVIOUS
<1> QED BY <1>1, <1>2, <1>3

(* A word of the body.                                                     *)
LEMMA BodyWord ==
  ASSUME NEW w, NEW n \in Nat, NEW labels, WordOk(w, n, labels),
         w.op \notin {"stp", "ret", "subsp", "ldp", "addsp"}
  PROVE  /\ Flows(<<w>>, 2 + n, 2 + n, n, labels) /\ Len(<<w>>) = 1
         /\ Leaves(w) => Closes(<<w>>)
<1>1. DepthAt(w, n) = 2 + n /\ DepthAfter(w, n) = 2 + n
  BY DEF DepthAt, DepthAfter
<1> QED BY <1>1, FlowsOne

(* mov, ...                                                                *)
LEMMA MovEmits ==
  ASSUME NEW f, Fits(f), NEW i \in Code(f), i.op = "mov"
  PROVE  Emits(f, i)
<1>1. PICK n \in Nat : n = Backend!FrameWords(f) /\ i.dest \in 0 .. n - 1 /\ 8 * n < FieldRange
  <2>1. i.dest \in Regs
    BY DEF Fits, InstructionFits
  <2> QED BY <2>1, FrameHasRoom
<1>2. PICK labels : labels = Backend!Labels(f)
  OBVIOUS
<1>3. PICK s, t : s = Backend!LoadOperand(9, i.operands[1]) /\ t = Backend!Str(9, i.dest)
  OBVIOUS
<1>4. Backend!Emitted(f, i) = s \o t
  BY <1>3 DEF Backend!Emitted, Backend!Scratch0, Backend!AluOp, Backend!condCode
<1>5. Flows(s, 2 + n, 2 + n, n, labels) /\ Len(s) # 0 /\ Flows(t, 2 + n, 2 + n, n, labels)
  <2>1. IsArgument(9)
    BY DEF IsArgument
  <2> QED BY <1>1, <1>3, <2>1, OperandFlows, StrFlows
<1>6. Flows(s \o t, 2 + n, 2 + n, n, labels) /\ Len(s \o t) # 0
  BY <1>5, BodyConcat
<1> QED BY <1>1, <1>2, <1>4, <1>6 DEF Emits, Terminates

(* ... the arithmetic, ...                                                 *)
LEMMA AluEmits ==
  ASSUME NEW f, Fits(f), NEW i \in Code(f), i.op \in DOMAIN Backend!AluOp
  PROVE  Emits(f, i)
<1>0. i.op \in {"add", "sub", "mul", "div"} /\ Backend!AluOp[i.op] \in {"add", "sub", "mul", "sdiv"}
  BY DEF Backend!AluOp
<1>1. PICK n \in Nat : n = Backend!FrameWords(f) /\ i.dest \in 0 .. n - 1 /\ 8 * n < FieldRange
  <2>1. i.dest \in Regs
    BY <1>0 DEF Fits, InstructionFits
  <2> QED BY <2>1, FrameHasRoom
<1>2. PICK labels : labels = Backend!Labels(f)
  OBVIOUS
<1>3. PICK s, t, u : /\ s = Backend!LoadOperand(9, i.operands[1]) /\ t = Backend!LoadOperand(10, i.operands[2])
                     /\ u = Backend!Str(11, i.dest)
  OBVIOUS
<1>4. PICK w : w = [op |-> Backend!AluOp[i.op], rd |-> 11, rn |-> 9, rm |-> 10]
  BY Zenon
<1>5. Backend!Emitted(f, i) = ((s \o t) \o <<w>>) \o u
  <2>1. i.op # "mov"
    BY <1>0
  <2> QED BY <1>0, <1>3, <1>4, <2>1, Zenon DEF Backend!Emitted, Backend!Scratch0, Backend!Scratch1, Backend!Scratch2,
             Backend!condCode
<1>6. /\ Flows(s, 2 + n, 2 + n, n, labels) /\ Len(s) # 0 /\ Flows(t, 2 + n, 2 + n, n, labels)
      /\ Flows(u, 2 + n, 2 + n, n, labels)
  <2>1. IsArgument(9) /\ IsArgument(10)
    BY DEF IsArgument
  <2> QED BY <1>1, <1>3, <2>1, OperandFlows, StrFlows
<1>7. Flows(<<w>>, 2 + n, 2 + n, n, labels)
  <2>1. w.op \in {"add", "sub", "mul", "sdiv"} /\ w.rd = 11 /\ 11 \notin Kept
    BY <1>0, <1>4 DEF Kept, Processor!Fp, Processor!Lr
  <2>2. WordOk(w, n, labels)
    BY <2>1 DEF WordOk, WordFits
  <2> QED BY <2>1, <2>2, BodyWord
<1>8. Flows(((s \o t) \o <<w>>) \o u, 2 + n, 2 + n, n, labels) /\ Len(((s \o t) \o <<w>>) \o u) # 0
  <2>1. Flows(s \o t, 2 + n, 2 + n, n, labels) /\ Len(s \o t) # 0
    BY <1>6, BodyConcat
  <2>2. Flows((s \o t) \o <<w>>, 2 + n, 2 + n, n, labels) /\ Len((s \o t) \o <<w>>) # 0
    BY <1>7, <2>1, BodyConcat
  <2> QED BY <1>6, <2>2, BodyConcat
<1> QED BY <1>0, <1>1, <1>2, <1>5, <1>8 DEF Emits, Terminates

(* ... cmp, ...                                                            *)
LEMMA CmpEmits ==
  ASSUME NEW f, Fits(f), NEW i \in Code(f), i.op = "cmp"
  PROVE  Emits(f, i)
<1>1. PICK n \in Nat : n = Backend!FrameWords(f)
  BY FrameHasRoom
<1>2. PICK labels : labels = Backend!Labels(f)
  OBVIOUS
<1>3. PICK s, t : s = Backend!LoadOperand(9, i.operands[1]) /\ t = Backend!LoadOperand(10, i.operands[2])
  OBVIOUS
<1>4. PICK w : w = [op |-> "cmp", rn |-> 9, rm |-> 10]
  BY Zenon
<1>5. Backend!Emitted(f, i) = (s \o t) \o <<w>>
  BY <1>3, <1>4 DEF Backend!Emitted, Backend!Scratch0, Backend!Scratch1, Backend!AluOp, Backend!condCode
<1>6. Flows(s, 2 + n, 2 + n, n, labels) /\ Len(s) # 0 /\ Flows(t, 2 + n, 2 + n, n, labels)
  <2>1. IsArgument(9) /\ IsArgument(10)
    BY DEF IsArgument
  <2> QED BY <1>3, <2>1, OperandFlows
<1>7. Flows(<<w>>, 2 + n, 2 + n, n, labels)
  <2>1. w.op = "cmp"
    BY <1>4
  <2>2. WordOk(w, n, labels)
    BY <2>1 DEF WordOk, WordFits
  <2> QED BY <2>1, <2>2, BodyWord
<1>8. Flows((s \o t) \o <<w>>, 2 + n, 2 + n, n, labels) /\ Len((s \o t) \o <<w>>) # 0
  <2>1. Flows(s \o t, 2 + n, 2 + n, n, labels) /\ Len(s \o t) # 0
    BY <1>6, BodyConcat
  <2> QED BY <1>7, <2>1, BodyConcat
<1> QED BY <1>1, <1>2, <1>5, <1>8 DEF Emits, Terminates

(* ... a branch to a label of the function, ...                            *)
LEMMA BranchEmits ==
  ASSUME NEW f, Fits(f), NEW i \in Code(f), i.op \in {"jmp"} \cup DOMAIN Backend!condCode,
         i.operands[1].is \in Backend!Labels(f)
  PROVE  Emits(f, i)
<1>1. PICK n \in Nat : n = Backend!FrameWords(f)
  BY FrameHasRoom
<1>2. PICK labels : labels = Backend!Labels(f)
  OBVIOUS
<1>3. PICK w : /\ Backend!Emitted(f, i) = <<w>> /\ w.label = i.operands[1].is
               /\ w.op \in {"b", "b.cond"} /\ (i.op = "jmp" => w.op = "b")
  <2>1. CASE i.op = "jmp"
    <3>1. PICK w : w = [op |-> "b", label |-> i.operands[1].is]
      BY Zenon
    <3>2. Backend!Emitted(f, i) = <<w>>
      BY <2>1, <3>1 DEF Backend!Emitted, Backend!AluOp, Backend!condCode
    <3> QED BY <3>1, <3>2
  <2>2. CASE i.op \in DOMAIN Backend!condCode
    <3>1. PICK w : w = [op |-> "b.cond", cond |-> Backend!condCode[i.op], label |-> i.operands[1].is]
      BY Zenon
    <3>2. Backend!Emitted(f, i) = <<w>> /\ i.op # "jmp"
      BY <2>2, <3>1, Zenon DEF Backend!Emitted, Backend!AluOp, Backend!condCode
    <3> QED BY <3>1, <3>2
  <2> QED BY <2>1, <2>2
<1>4. WordOk(w, n, labels)
  BY <1>2, <1>3 DEF WordOk, WordFits
<1>5. Flows(<<w>>, 2 + n, 2 + n, n, labels) /\ Len(<<w>>) = 1 /\ (Leaves(w) => Closes(<<w>>))
  BY <1>3, <1>4, BodyWord
<1>6. Terminates(i) => Leaves(w)
  BY <1>3 DEF Terminates, Leaves, Backend!condCode
<1> QED BY <1>1, <1>2, <1>3, <1>5, <1>6 DEF Emits

(* ... a call ...                                                          *)
LEMMA CallEmits ==
  ASSUME NEW f, Fits(f), NEW i \in Code(f), i.op = "call"
  PROVE  Emits(f, i)
<1>1. PICK n \in Nat : /\ n = Backend!FrameWords(f) /\ (i.dest \in Regs => i.dest \in 0 .. n - 1)
                       /\ 8 * n < FieldRange
  BY FrameHasRoom
<1>2. PICK labels : labels = Backend!Labels(f)
  OBVIOUS
<1>3. PICK m \in Int : m = Backend!Min({Len(i.operands) - 1, ArgRegs}) /\ m <= ArgRegs
  <2>1. PICK l \in Int : l = Len(i.operands) - 1
    <3>1. PICK k \in Nat : k = Len(i.operands)
      BY Zenon DEF Fits, HasCode, Code, IsVector
    <3>2. k - 1 \in Int
      OBVIOUS
    <3> QED BY <3>1, <3>2
  <2>2. ArgRegs \in Int
    BY ToolchainAssumption
  <2>3. Backend!Min({l, ArgRegs}) \in Int /\ Backend!Min({l, ArgRegs}) <= ArgRegs
    BY <2>2, SmallestOfTwo
  <2> QED BY <2>1, <2>3
<1>4. PICK ss : ss = [a \in 1 .. m |-> Backend!LoadOperand(a - 1, i.operands[a + 1])]
  BY Zenon
<1>5. PICK s : s = Backend!FlattenSeq(ss)
  OBVIOUS
<1>6. Flows(s, 2 + n, 2 + n, n, labels)
  <2>1. Counted(ss, m)
    BY <1>4 DEF Counted
  <2>2. IsVector(ss) /\ DOMAIN ss = 1 .. m
    BY <2>1, CountedVector
  <2>3. ASSUME NEW a \in 1 .. m PROVE Flows(ss[a], 2 + n, 2 + n, n, labels)
    <3>1. IsArgument(a - 1)
      <4>1. a - 1 \in 0 .. ArgRegs - 1
        BY <1>3, ToolchainAssumption
      <4> QED BY <4>1 DEF IsArgument
    <3>2. ss[a] = Backend!LoadOperand(a - 1, i.operands[a + 1])
      BY <1>4
    <3> QED BY <3>1, <3>2, OperandFlows
  <2> QED BY <1>5, <2>2, <2>3, LevelFlows
<1>7. PICK w : w = [op |-> "bl", callee |-> i.operands[1].is]
  BY Zenon
<1>8. Flows(<<w>>, 2 + n, 2 + n, n, labels) /\ Len(<<w>>) # 0
  <2>1. w.op = "bl"
    BY <1>7
  <2>2. WordOk(w, n, labels)
    BY <2>1 DEF WordOk, WordFits
  <2> QED BY <2>1, <2>2, BodyWord
<1>9. PICK t : t = IF i.dest = NoDest THEN <<>> ELSE Backend!Str(0, i.dest)
  OBVIOUS
<1>10. Flows(t, 2 + n, 2 + n, n, labels)
  <2>1. CASE i.dest = NoDest
    <3>1. t = <<>>
      BY <1>9, <2>1
    <3> QED BY <3>1, FlowsNone
  <2>2. CASE i.dest # NoDest
    <3>1. i.dest \in 0 .. n - 1
      BY <1>1, <2>2 DEF Fits, InstructionFits
    <3> QED BY <1>1, <1>9, <2>2, <3>1, StrFlows
  <2> QED BY <2>1, <2>2
<1>11. Backend!Emitted(f, i) = (s \o <<w>>) \o t
  BY <1>3, <1>4, <1>5, <1>7, <1>9, Zenon DEF Backend!Emitted, Backend!AluOp, Backend!condCode, Backend!NoDest, NoDest
<1>12. Flows((s \o <<w>>) \o t, 2 + n, 2 + n, n, labels) /\ Len((s \o <<w>>) \o t) # 0
  <2>1. Flows(s \o <<w>>, 2 + n, 2 + n, n, labels) /\ Len(s \o <<w>>) # 0
    BY <1>6, <1>8, BodyConcat
  <2> QED BY <1>10, <2>1, BodyConcat
<1> QED BY <1>1, <1>2, <1>11, <1>12 DEF Emits, Terminates

(* ... and a return.                                                       *)
LEMMA RetEmits ==
  ASSUME NEW f, Fits(f), NEW i \in Code(f), i.op \in {"ret", "retvoid"}
  PROVE  Emits(f, i)
<1>1. PICK n \in Nat : n = Backend!FrameWords(f)
  BY FrameHasRoom
<1>2. PICK labels : labels = Backend!Labels(f)
  OBVIOUS
<1>3. PICK t : t = Backend!Epilogue(f)
  OBVIOUS
<1>4. Flows(t, 2 + n, 2 + n, n, labels) /\ Closes(t) /\ Len(t) # 0
  BY <1>1, <1>3, EpilogueFlows
<1>5. CASE i.op = "retvoid"
  <2>1. Backend!Emitted(f, i) = t
    BY <1>3, <1>5 DEF Backend!Emitted, Backend!AluOp, Backend!condCode
  <2> QED BY <1>1, <1>2, <1>4, <2>1 DEF Emits
<1>6. CASE i.op = "ret"
  <2>1. PICK s : s = Backend!LoadOperand(0, i.operands[1])
    OBVIOUS
  <2>2. Backend!Emitted(f, i) = s \o t
    BY <1>3, <1>6, <2>1 DEF Backend!Emitted, Backend!AluOp, Backend!condCode
  <2>3. Flows(s, 2 + n, 2 + n, n, labels)
    <3>1. IsArgument(0)
      BY ToolchainAssumption DEF IsArgument
    <3> QED BY <2>1, <3>1, OperandFlows
  <2>4. Flows(s \o t, 2 + n, 2 + n, n, labels) /\ Len(s \o t) # 0 /\ Closes(s \o t)
    BY <1>4, <2>3, BodyConcat
  <2> QED BY <1>1, <1>2, <2>2, <2>4 DEF Emits
<1> QED BY <1>5, <1>6

(* All of them.                                                            *)
LEMMA InstructionEmits ==
  ASSUME NEW f, Fits(f), Backend!Compilable(f), NEW i \in Code(f)
  PROVE  Emits(f, i)
<1>1. i \in Backend!ToSet(Backend!Instructions(f))
  BY InstructionsAreCode, SameHelpers DEF Fits
<1>2. i.op \in Backend!NativeOps
  BY <1>1 DEF Backend!Compilable, Backend!Supported
<1>3. i.op \in {"jmp"} \cup DOMAIN Backend!condCode => i.operands[1].is \in Backend!Labels(f)
  BY <1>1 DEF Backend!Compilable
<1> QED BY <1>2, <1>3, MovEmits, AluEmits, CmpEmits, BranchEmits, CallEmits, RetEmits DEF Backend!NativeOps
-----------------------------------------------------------------------------
(* A function.                                                             *)

(* Its prologue begins with the stack as the caller left it.               *)
LEMMA PrologueFlows ==
  ASSUME NEW f, Fits(f), NEW labels
  PROVE  LET n == Backend!FrameWords(f)
             s == Backend!Prologue(f)
         IN  Flows(s, 0, 2 + n, n, labels) /\ Len(s) # 0 /\ s[1].op = "stp"
<1>1. PICK n \in Nat : n = Backend!FrameWords(f) /\ 8 * n < FieldRange
  BY FrameHasRoom
<1>2. PICK l \in Nat : l = Len(f.params) /\ l <= n
  BY <1>1, FrameHasRoom
<1>3. PICK m \in Int : m = Backend!Min({l, ArgRegs}) /\ m <= l
  <2>1. PICK a \in Int : a = ArgRegs
    BY ToolchainAssumption
  <2>2. l \in Int
    OBVIOUS
  <2>3. Backend!Min({l, a}) \in Int /\ Backend!Min({l, a}) <= l
    BY <2>2, SmallestOfTwo
  <2> QED BY <2>1, <2>3
<1>4. PICK ss : ss = [p \in 1 .. m |-> Backend!Str(p - 1, p - 1)]
  BY Zenon
<1>5. PICK t : t = Backend!FlattenSeq(ss)
  OBVIOUS
<1>6. Flows(t, 2 + n, 2 + n, n, labels)
  <2>1. Counted(ss, m)
    BY <1>4 DEF Counted
  <2>2. IsVector(ss) /\ DOMAIN ss = 1 .. m
    BY <2>1, CountedVector
  <2>3. ASSUME NEW p \in 1 .. m PROVE Flows(ss[p], 2 + n, 2 + n, n, labels)
    <3>1. p - 1 \in 0 .. n - 1
      BY <1>2, <1>3
    <3>2. ss[p] = Backend!Str(p - 1, p - 1)
      BY <1>4
    <3> QED BY <1>1, <3>1, <3>2, StrFlows
  <2> QED BY <1>5, <2>2, <2>3, LevelFlows
<1>7. PICK w : w = [op |-> "stp"]
  BY Zenon
<1>8. Flows(<<w>>, 0, 2, n, labels) /\ Len(<<w>>) = 1 /\ <<w>>[1] = w
  <2>1. WordOk(w, n, labels) /\ DepthAt(w, n) = 0 /\ DepthAfter(w, n) = 2
    BY <1>7 DEF WordOk, WordFits, DepthAt, DepthAfter
  <2> QED BY <2>1, FlowsOne
<1>9. PICK s : s = Backend!MoveSp("subsp", f)
  OBVIOUS
<1>10. Flows(s, 2, 2 + n, n, labels)
  BY <1>1, <1>9, TakeFlows
<1>11. Backend!Prologue(f) = (<<w>> \o s) \o t
  BY <1>2, <1>3, <1>4, <1>5, <1>7, <1>9 DEF Backend!Prologue
<1>12. Flows(<<w>> \o s, 0, 2 + n, n, labels) /\ Len(<<w>> \o s) # 0 /\ (<<w>> \o s)[1] = w
  <2>1. PICK k \in Nat : k = Len(s)
    BY <1>10, VectorIsSeq DEF Flows
  <2>2. Flows(<<w>> \o s, 0, 2 + n, n, labels) /\ Len(<<w>> \o s) = 1 + k /\ (<<w>> \o s)[1] = w
    BY <1>8, <1>10, <2>1, FlowsConcat
  <2> QED BY <2>1, <2>2
<1>13. PICK u : u = <<w>> \o s
  BY Zenon
<1>14. Flows(u \o t, 0, 2 + n, n, labels) /\ Len(u \o t) # 0 /\ (u \o t)[1] = w
  <2>1. PICK k \in Nat, j \in Nat : k = Len(u) /\ j = Len(t) /\ k # 0
    BY <1>6, <1>12, <1>13, VectorIsSeq DEF Flows
  <2>2. Flows(u \o t, 0, 2 + n, n, labels) /\ Len(u \o t) = k + j /\ (u \o t)[1] = w
    BY <1>6, <1>12, <1>13, <2>1, FlowsConcat
  <2>3. k + j # 0
    BY <2>1
  <2> QED BY <2>2, <2>3
<1> QED BY <1>1, <1>7, <1>11, <1>13, <1>14

(* Its blocks end with a jump or a return.                                 *)
Terminated(f) ==
  f.blocks # <<>> /\ \A b \in DOMAIN f.blocks :
    /\ f.blocks[b].instructions # <<>>
    /\ Last(f.blocks[b].instructions).op \in {"jmp", "ret", "retvoid"}

(* The words of a block.                                                   *)
Body(f, b) ==
  Backend!FlattenSeq([k \in DOMAIN f.blocks[b].instructions |-> Backend!Emitted(f, f.blocks[b].instructions[k])])

(* A block is words that stay in the frame until they leave.               *)
LEMMA BlockFlows ==
  ASSUME NEW f, Fits(f), Backend!Compilable(f), Terminated(f), NEW b \in DOMAIN f.blocks
  PROVE  LET n == Backend!FrameWords(f)
         IN  /\ Flows(Body(f, b), 2 + n, 2 + n, n, Backend!Labels(f))
             /\ Len(Body(f, b)) # 0 /\ Closes(Body(f, b))
             /\ DepthAt(Body(f, b)[1], n) = 2 + n
<1>1. PICK n \in Nat : n = Backend!FrameWords(f)
  BY FrameHasRoom
<1>2. PICK labels : labels = Backend!Labels(f)
  OBVIOUS
<1>3. PICK cs, ss : /\ cs = f.blocks[b].instructions
                    /\ ss = [k \in DOMAIN cs |-> Backend!Emitted(f, cs[k])]
  BY Zenon
<1>4. IsVector(cs) /\ \A k \in DOMAIN cs : cs[k] \in Code(f)
  BY <1>3 DEF Fits, HasCode, Code, ToSet
<1>5. PICK m \in Nat : DOMAIN cs = 1 .. m /\ m = Len(cs)
  BY <1>4, VectorIsSeq, Zenon
<1>6. m # 0 /\ cs[m].op \in {"jmp", "ret", "retvoid"}
  <2>1. cs # <<>> /\ cs[Len(cs)].op \in {"jmp", "ret", "retvoid"}
    BY <1>3 DEF Terminated, Last
  <2>2. m = 0 => cs = <<>>
    BY <1>4, <1>5 DEF IsVector
  <2> QED BY <1>5, <2>1, <2>2
<1>7. IsVector(ss) /\ DOMAIN ss = 1 .. m /\ Len(ss) = m
  <2>1. Counted(ss, m) /\ m \in Int
    BY <1>3, <1>5 DEF Counted
  <2>2. IsVector(ss) /\ DOMAIN ss = 1 .. m
    BY <2>1, CountedVector
  <2>3. DOMAIN ss = 1 .. Len(ss) /\ Len(ss) \in Nat
    BY <2>2, VectorIsSeq
  <2>4. PICK l \in Nat : l = Len(ss)
    BY <2>3
  <2>5. 1 .. l = 1 .. m => l = m
    OBVIOUS
  <2> QED BY <2>2, <2>3, <2>4, <2>5
<1>8. ASSUME NEW k \in 1 .. m
      PROVE  /\ Flows(ss[k], 2 + n, 2 + n, n, labels) /\ Len(ss[k]) # 0
             /\ Terminates(cs[k]) => Closes(ss[k])
  <2>1. Emits(f, cs[k])
    BY <1>4, <1>5, InstructionEmits
  <2>2. ss[k] = Backend!Emitted(f, cs[k])
    BY <1>3, <1>5
  <2> QED BY <1>1, <1>2, <2>1, <2>2 DEF Emits
<1>9. 1 \in 1 .. m /\ m \in 1 .. m
  BY <1>6
<1>10. PICK s : s = Backend!FlattenSeq(ss)
  OBVIOUS
<1>11. Flows(s, 2 + n, 2 + n, n, labels) /\ Closes(s) /\ Len(s) # 0
  <2>1. Closes(ss[m]) /\ Len(ss[1]) # 0
    BY <1>6, <1>8, <1>9 DEF Terminates
  <2> QED BY <1>6, <1>7, <1>8, <1>10, <2>1, LevelFlows
<1>12. Body(f, b) = s
  BY <1>3, <1>10 DEF Body
<1>13. DepthAt(s[1], n) = 2 + n
  BY <1>11 DEF Flows
<1> QED BY <1>1, <1>2, <1>11, <1>12, <1>13

(* The depth at which each part of a function begins.                      *)
Depths(n) == [i \in Nat |-> IF i = 1 THEN 0 ELSE 2 + n]

(* What the prologue and the blocks are, one by one.                       *)
PartsAre(f, parts, n, m) ==
  /\ IsVector(parts) /\ DOMAIN parts = 1 .. m + 1 /\ Len(parts) = m + 1
  /\ DOMAIN f.blocks = 1 .. m /\ m # 0
  /\ parts[1] = Backend!Prologue(f)
  /\ \A b \in 1 .. m : parts[b + 1] = Body(f, b)
  /\ AllFlow(parts, Depths(n), n, Backend!Labels(f))
  /\ \A k \in 1 .. m + 1 : Len(parts[k]) # 0
  /\ parts[1][1].op = "stp" /\ Closes(parts[m + 1])
  /\ \A b \in 1 .. m : DepthAt(parts[b + 1][1], n) = 2 + n

(* The parts of a function that can be compiled, and whose blocks all end  *)
(* with a jump or a return, are such parts.                                *)
LEMMA PartsFlow ==
  ASSUME NEW f, Fits(f), Backend!Compilable(f), Terminated(f)
  PROVE  \E n \in Nat, m \in Nat : n = Backend!FrameWords(f) /\ PartsAre(f, Backend!Parts(f), n, m)
<1>1. PICK n \in Nat : n = Backend!FrameWords(f)
  BY FrameHasRoom
<1>2. PICK m \in Nat : m = Len(f.blocks) /\ DOMAIN f.blocks = 1 .. m
  BY VectorIsSeq DEF Fits, HasCode
<1>3. m # 0
  <2>1. m = 0 => f.blocks = <<>>
    BY <1>2 DEF Fits, HasCode, IsVector
  <2> QED BY <2>1 DEF Terminated
<1>4. PICK first, bodies : first = <<Backend!Prologue(f)>> /\ bodies = [b \in DOMAIN f.blocks |-> Body(f, b)]
  BY Zenon
<1>5. PICK parts : parts = first \o bodies /\ parts = Backend!Parts(f)
  BY <1>4, Zenon DEF Backend!Parts, Body
<1>6. IsVector(bodies) /\ DOMAIN bodies = 1 .. m /\ Len(bodies) = m
  <2>1. Counted(bodies, m) /\ m \in Int
    BY <1>2, <1>4 DEF Counted
  <2>2. IsVector(bodies) /\ DOMAIN bodies = 1 .. m
    BY <2>1, CountedVector
  <2>4. PICK l \in Nat : l = Len(bodies) /\ DOMAIN bodies = 1 .. l
    BY <2>2, VectorIsSeq
  <2>5. 1 .. l = 1 .. m => l = m
    OBVIOUS
  <2> QED BY <2>2, <2>4, <2>5
<1>7. IsVector(first) /\ Len(first) = 1 /\ first[1] = Backend!Prologue(f)
  BY <1>4 DEF IsVector
<1>8. /\ IsVector(parts) /\ Len(parts) = m + 1 /\ DOMAIN parts = 1 .. m + 1
      /\ parts[1] = Backend!Prologue(f)
      /\ \A b \in 1 .. m : parts[b + 1] = Body(f, b)
  <2>1. /\ IsVector(parts) /\ Len(parts) = 1 + m
        /\ \A k \in 1 .. 1 : parts[k] = first[k]
        /\ \A k \in 1 .. m : parts[1 + k] = bodies[k]
    <3>1. /\ IsVector(first \o bodies) /\ Len(first \o bodies) = Len(first) + Len(bodies)
          /\ \A k \in 1 .. Len(first) : (first \o bodies)[k] = first[k]
          /\ \A k \in 1 .. Len(bodies) : (first \o bodies)[Len(first) + k] = bodies[k]
      <4>1. IsVector(first) /\ IsVector(bodies)
        BY <1>6, <1>7
      <4> QED BY <4>1, ConcatVectors
    <3> QED BY <1>5, <1>6, <1>7, <3>1
  <2>2. DOMAIN parts = 1 .. Len(parts)
    BY <2>1, VectorIsSeq
  <2>3. 1 \in 1 .. 1 /\ 1 + m = m + 1 /\ \A k \in 1 .. m : 1 + k = k + 1
    OBVIOUS
  <2>4. \A k \in 1 .. m : bodies[k] = Body(f, k)
    BY <1>2, <1>4
  <2> QED BY <1>7, <2>1, <2>2, <2>3, <2>4
<1>9. PICK labels : labels = Backend!Labels(f)
  OBVIOUS
<1>10. Flows(parts[1], 0, 2 + n, n, labels) /\ Len(parts[1]) # 0 /\ parts[1][1].op = "stp"
  BY <1>1, <1>8, PrologueFlows
<1>11. \A b \in 1 .. m : /\ Flows(parts[b + 1], 2 + n, 2 + n, n, labels)
                         /\ Len(parts[b + 1]) # 0 /\ Closes(parts[b + 1])
                         /\ DepthAt(parts[b + 1][1], n) = 2 + n
  BY <1>1, <1>2, <1>8, <1>9, BlockFlows
<1>12. ASSUME NEW k \in 1 .. m + 1
       PROVE  Flows(parts[k], Depths(n)[k], Depths(n)[k + 1], n, labels) /\ Len(parts[k]) # 0
  <2>1. k \in Nat /\ k + 1 \in Nat /\ k + 1 # 1
    OBVIOUS
  <2>2. CASE k = 1
    <3>1. Depths(n)[k] = 0 /\ Depths(n)[k + 1] = 2 + n
      BY <2>1, <2>2 DEF Depths
    <3> QED BY <1>10, <2>2, <3>1
  <2>3. CASE k # 1
    <3>1. PICK b \in 1 .. m : k = b + 1
      <4>1. k - 1 \in 1 .. m /\ k = (k - 1) + 1
        BY <2>3
      <4> QED BY <4>1
    <3>2. Depths(n)[k] = 2 + n /\ Depths(n)[k + 1] = 2 + n
      BY <2>1, <2>3 DEF Depths
    <3> QED BY <1>11, <3>1, <3>2
  <2> QED BY <2>2, <2>3
<1>13. m \in 1 .. m
  BY <1>3
<1>14. PartsAre(f, parts, n, m)
  BY <1>2, <1>3, <1>8, <1>9, <1>10, <1>11, <1>12, <1>13 DEF PartsAre, AllFlow
<1> QED BY <1>1, <1>5, <1>14
-----------------------------------------------------------------------------
(* The words of a function, once its branches are patched.                 *)

(* Where the block of a label begins.                                      *)
LEMMA BlockStarts ==
  ASSUME NEW f, NEW parts, NEW n \in Nat, NEW m \in Nat, PartsAre(f, parts, n, m),
         NEW label \in Backend!Labels(f)
  PROVE  LET to == Backend!BlockOffset(f, parts, label)
             words == FlattenSeq(parts)
         IN  to \in Nat /\ to + 1 \in DOMAIN words /\ DepthAt(words[to + 1], n) = 2 + n
<1>1. PICK S : S = {c \in DOMAIN f.blocks : f.blocks[c].label = label}
  BY Zenon
<1>2. S \subseteq 1 .. m /\ S # {}
  BY <1>1 DEF PartsAre, Backend!Labels
<1>3. PICK b \in 1 .. m : b = Backend!Max(S)
  <2>1. Max(S) \in S
    BY <1>2, MaxOfPositions, Zenon
  <2>2. Max(S) = Backend!Max(S)
    BY DEF Max, Backend!Max
  <2> QED BY <1>2, <2>1, <2>2, Zenon
<1>4. AreVectors(parts) /\ DOMAIN parts = 1 .. m + 1 /\ Len(parts) = m + 1
  BY DEF PartsAre, AllFlow, Flows, AreVectors
<1>5. PICK off : AreOffsets(off, parts)
  BY <1>4, OffsetsExist
<1>6. IsPlaced(FlattenSeq(parts), parts, m + 1, off)
  BY <1>4, <1>5, FlatteningPlaces
<1>7. PICK few : few = SubSeq(parts, 1, b)
  BY Zenon
<1>8. AreVectors(few) /\ Len(few) = b /\ AreOffsets(off, few)
  <2>1. b \in Nat /\ b <= m + 1
    OBVIOUS
  <2>2. IsVector(few) /\ \A k \in DOMAIN few : k \in DOMAIN parts /\ few[k] = parts[k]
    BY <1>4, <1>7, <2>1, CutVector DEF AreVectors
  <2>3. Len(few) = b
    <3>1. PICK T : parts \in Seq(T)
      BY <1>4, VectorIsSeq, Zenon DEF AreVectors
    <3> QED BY <1>4, <1>7, <2>1, <3>1
  <2>4. DOMAIN few = 1 .. b
    BY <2>2, <2>3, VectorIsSeq
  <2> QED BY <1>4, <1>5, <2>2, <2>3, <2>4 DEF AreVectors, AreOffsets
<1>9. Len(FlattenSeq(few)) = off[b + 1]
  <2>1. IsPlaced(FlattenSeq(few), few, b, off)
    BY <1>8, FlatteningPlaces
  <2> QED BY <2>1 DEF IsPlaced
<1>10. Backend!BlockOffset(f, parts, label) = off[b + 1]
  BY <1>1, <1>3, <1>7, <1>9, SameHelpers DEF Backend!BlockOffset
<1>11. PICK first : first = parts[b + 1]
  OBVIOUS
<1>12. b + 1 \in 1 .. m + 1 /\ 1 \in DOMAIN first
  <2>1. b + 1 \in 1 .. m + 1
    OBVIOUS
  <2>2. Len(first) # 0 /\ IsVector(first)
    BY <1>4, <1>11, <2>1 DEF PartsAre, AreVectors
  <2>3. Len(first) \in Nat /\ DOMAIN first = 1 .. Len(first)
    BY <2>2, VectorIsSeq
  <2> QED BY <2>1, <2>2, <2>3
<1>13. /\ off[b + 1] \in Nat /\ off[b + 1] + 1 \in DOMAIN FlattenSeq(parts)
       /\ FlattenSeq(parts)[off[b + 1] + 1] = first[1]
  BY <1>6, <1>11, <1>12 DEF IsPlaced
<1>14. DepthAt(first[1], n) = 2 + n
  BY <1>11 DEF PartsAre
<1> QED BY <1>10, <1>13, <1>14

(* The values of the offset field of a branch.                             *)
OffsetRange(w) == IF w.op = "b" THEN ImmRange ELSE CondRange

(* The words of a compiled function.                                       *)
WordFlows(w, n, size, k) ==
  /\ WordFits(w[k], n)
  /\ ~ Leaves(w[k]) => k + 1 \in 1 .. size /\ DepthAt(w[k + 1], n) = DepthAfter(w[k], n)
  /\ w[k].op \in {"b", "b.cond"} =>
       \E t \in 1 .. size : DepthAt(w[t], n) = 2 + n /\ w[k].imm = (t - k) % OffsetRange(w[k])

(* All of its words do; calls lists the bl among them.                     *)
FunctionFlows(c, n) ==
  /\ n \in Nat /\ n % 2 = 0
  /\ IsVector(c.words) /\ Len(c.words) = c.size /\ c.size \in Nat \ {0}
  /\ c.words[1].op = "stp"
  /\ \A k \in 1 .. c.size : WordFlows(c.words, n, c.size, k)
  /\ DOMAIN c.calls = {k \in 1 .. c.size : c.words[k].op = "bl"}
  /\ \A k \in DOMAIN c.calls : c.calls[k].at = k - 1

(* Patching leaves everything but the operand of a branch.                 *)
LEMMA PatchedFlows ==
  ASSUME NEW w, NEW to, NEW at, NEW n, w.op \in {"b", "b.cond"}
  PROVE  LET p == Backend!Patched(w, to, at)
         IN  /\ p.op = w.op /\ p.imm = (to - at) % OffsetRange(w)
             /\ WordFits(p, n) /\ DepthAt(p, n) = DepthAt(w, n) /\ DepthAfter(p, n) = DepthAfter(w, n)
<1>1. PICK p : p = Backend!Patched(w, to, at)
  OBVIOUS
<1>2. p.op = w.op /\ p.imm = (to - at) % OffsetRange(w)
  <2>1. CASE w.op = "b"
    BY <1>1, <2>1 DEF Backend!Patched, OffsetRange
  <2>2. CASE w.op = "b.cond"
    BY <1>1, <2>2 DEF Backend!Patched, OffsetRange
  <2> QED BY <2>1, <2>2
<1>3. WordFits(p, n)
  BY <1>2 DEF WordFits
<1> QED BY <1>1, <1>2, <1>3 DEF DepthAt, DepthAfter

(* arm64CompileFunction makes words that each follow from the one before,  *)
(* and branches that stay in the function.                                 *)
LEMMA CompiledFlows ==
  ASSUME NEW f, Fits(f), Backend!Compilable(f), Terminated(f)
  PROVE  FunctionFlows(Backend!arm64CompileFunction(f), Backend!FrameWords(f))
<1>0. PICK parts : parts = Backend!Parts(f)
  OBVIOUS
<1>1. PICK n \in Nat, m \in Nat : n = Backend!FrameWords(f) /\ parts = Backend!Parts(f) /\ PartsAre(f, parts, n, m)
  BY <1>0, PartsFlow
<1>2. n % 2 = 0
  BY <1>1, FrameHasRoom
<1>3. PICK words, labels : words = FlattenSeq(parts) /\ labels = Backend!Labels(f)
  OBVIOUS
<1>4. /\ Flows(words, Depths(n)[1], Depths(n)[m + 2], n, labels)
      /\ Closes(words) /\ Len(words) # 0 /\ words[1] = parts[1][1]
  <2>1. AllFlow(parts, Depths(n), n, labels) /\ Len(parts) = m + 1
    BY <1>1, <1>3 DEF PartsAre
  <2>2. Len(parts) # 0 /\ Len(parts) + 1 = m + 2 /\ 1 \in 1 .. m + 1
    BY <2>1
  <2>3. Closes(parts[Len(parts)]) /\ Len(parts[1]) # 0
    BY <1>1, <2>1, <2>2 DEF PartsAre
  <2> QED BY <1>3, <2>1, <2>2, <2>3, FlowsFlatten
<1>5. PICK size \in Nat \ {0} : size = Len(words) /\ DOMAIN words = 1 .. size
  BY <1>4, VectorIsSeq DEF Flows
<1>6. PICK c, w : c = Backend!arm64CompileFunction(f) /\ w = c.words
  OBVIOUS
<1>7. /\ c.size = size
      /\ w = [k \in 1 .. size |->
                IF words[k].op \in {"b", "b.cond"}
                THEN Backend!Patched(words[k], Backend!BlockOffset(f, parts, words[k].label), k - 1)
                ELSE words[k]]
  BY <1>1, <1>3, <1>5, <1>6, SameHelpers DEF Backend!arm64CompileFunction
<1>8. IsVector(w) /\ Len(w) = size
  <2>1. Counted(w, size) /\ size \in Int
    BY <1>7 DEF Counted
  <2>2. IsVector(w) /\ DOMAIN w = 1 .. size
    BY <2>1, CountedVector
  <2>4. PICK l \in Nat : l = Len(w) /\ DOMAIN w = 1 .. l
    BY <2>2, VectorIsSeq
  <2>5. 1 .. l = 1 .. size => l = size
    OBVIOUS
  <2> QED BY <2>2, <2>4, <2>5
<1>9. ASSUME NEW k \in 1 .. size
      PROVE  /\ w[k].op = words[k].op /\ WordFits(w[k], n)
             /\ DepthAt(w[k], n) = DepthAt(words[k], n) /\ DepthAfter(w[k], n) = DepthAfter(words[k], n)
             /\ words[k].op \in {"b", "b.cond"} =>
                  w[k].imm = (Backend!BlockOffset(f, parts, words[k].label) - (k - 1)) % OffsetRange(w[k])
  <2>1. CASE words[k].op \in {"b", "b.cond"}
    <3>1. PICK to : to = Backend!BlockOffset(f, parts, words[k].label)
      OBVIOUS
    <3>2. w[k] = Backend!Patched(words[k], to, k - 1)
      BY <1>7, <2>1, <3>1
    <3>3. /\ w[k].op = words[k].op /\ w[k].imm = (to - (k - 1)) % OffsetRange(words[k])
          /\ WordFits(w[k], n) /\ DepthAt(w[k], n) = DepthAt(words[k], n) /\ DepthAfter(w[k], n) = DepthAfter(words[k], n)
      BY <2>1, <3>2, PatchedFlows
    <3> QED BY <3>1, <3>3 DEF OffsetRange
  <2>2. CASE words[k].op \notin {"b", "b.cond"}
    <3>1. w[k] = words[k]
      BY <1>7, <2>2
    <3>2. WordFits(words[k], n)
      BY <1>4, <1>5 DEF Flows, WordOk
    <3> QED BY <2>2, <3>1, <3>2
  <2> QED BY <2>1, <2>2
<1>10. ASSUME NEW k \in 1 .. size PROVE WordFlows(w, n, size, k)
  <2>1. ASSUME ~ Leaves(w[k]) PROVE k + 1 \in 1 .. size /\ DepthAt(w[k + 1], n) = DepthAfter(w[k], n)
    <3>1. ~ Leaves(words[k])
      BY <1>9, <2>1 DEF Leaves
    <3>2. k # size
      BY <1>4, <1>5, <3>1 DEF Closes
    <3>3. k + 1 \in 1 .. size
      BY <3>2
    <3>4. DepthAfter(words[k], n) = DepthAt(words[k + 1], n)
      BY <1>4, <1>5, <3>1, <3>2 DEF Flows, Joins
    <3> QED BY <1>9, <3>3, <3>4
  <2>2. ASSUME w[k].op \in {"b", "b.cond"}
        PROVE  \E t \in 1 .. size : DepthAt(w[t], n) = 2 + n /\ w[k].imm = (t - k) % OffsetRange(w[k])
    <3>1. words[k].op \in {"b", "b.cond"}
      BY <1>9, <2>2
    <3>2. words[k].label \in labels
      BY <1>4, <1>5, <3>1 DEF Flows, WordOk
    <3>3. PICK to \in Nat : /\ to = Backend!BlockOffset(f, parts, words[k].label)
                            /\ to + 1 \in 1 .. size /\ DepthAt(words[to + 1], n) = 2 + n
      BY <1>1, <1>3, <1>5, <3>2, BlockStarts
    <3>4. PICK t \in 1 .. size : t = to + 1
      BY <3>3
    <3>5. DepthAt(w[t], n) = 2 + n
      BY <1>9, <3>3, <3>4
    <3>6. w[k].imm = (to - (k - 1)) % OffsetRange(w[k])
      BY <1>9, <3>1, <3>3
    <3>7. to - (k - 1) = t - k
      BY <3>4
    <3> QED BY <3>5, <3>6, <3>7
  <2> QED BY <1>9, <2>1, <2>2 DEF WordFlows
<1>11. w[1].op = "stp"
  <2>1. 1 \in 1 .. size
    OBVIOUS
  <2>2. words[1].op = "stp"
    BY <1>1, <1>4 DEF PartsAre
  <2> QED BY <1>9, <2>1, <2>2
<1>12. /\ DOMAIN c.calls = {k \in 1 .. size : w[k].op = "bl"}
       /\ \A k \in DOMAIN c.calls : c.calls[k].at = k - 1
  <2>1. c.calls = [bl \in {k \in 1 .. size : words[k].op = "bl"} |-> [at |-> bl - 1, callee |-> words[bl].callee]]
    BY <1>0, <1>3, <1>5, <1>6, SameHelpers DEF Backend!arm64CompileFunction
  <2>2. \A k \in 1 .. size : w[k].op = "bl" <=> words[k].op = "bl"
    BY <1>9
  <2> QED BY <2>1, <2>2
<1> QED BY <1>1, <1>2, <1>6, <1>7, <1>8, <1>10, <1>11, <1>12 DEF FunctionFlows
-----------------------------------------------------------------------------
(* A program.                                                              *)

(* No two functions have one name.                                         *)
Distinct(p) == \A i, j \in DOMAIN p.functions : p.functions[i].name = p.functions[j].name => i = j

(* Its compiled functions.                                                 *)
Units(p) == [f \in DOMAIN p.functions |-> Backend!arm64CompileFunction(p.functions[f])]

(* What BranchesReach and FramesReach say of it.                           *)
Reaches(p) ==
  (\A f \in DOMAIN p.functions : Backend!Compilable(p.functions[f])) =>
    /\ 2 * Backend!Start(Units(p), Len(Units(p)) + 1) < ImmRange
    /\ \A f \in DOMAIN p.functions :
         2 * Units(p)[f].size < CondRange /\ Backend!FrameSize(p.functions[f]) < FieldRange

(* What link() has let through.                                            *)
IsLinked(p) ==
  CallsAreNamed(p) /\ CodeFits(p) /\ p.entryIndex \in DOMAIN p.functions /\ Distinct(p) /\ Reaches(p)

(* The functions of a program that link() makes have names of their own.   *)
LEMMA LinkedIsLinked ==
  ASSUME InputsFit, BranchesReach, FramesReach, NEW i \in Inputs, Objects!link(i.objects).ok
  PROVE  IsLinked(Objects!link(i.objects).program)
<1>1. PICK p, fns : p = Objects!link(i.objects).program /\ fns = Objects!Merged(i.objects)
  OBVIOUS
<1>2. ~ Objects!Duplicated(fns) /\ p.functions = fns
  <2>1. \A why : ~ Objects!Refused(why).ok
    BY DEF Objects!Refused
  <2> QED BY <1>1, <2>1 DEF Objects!link
<1>3. CallsAreNamed(p) /\ p.entryIndex \in DOMAIN p.functions /\ CodeFits(p)
  BY <1>1, LinkedCallsAreNamed, LinkedCodeFits
<1>4. PICK n \in Nat : DOMAIN fns = 1 .. n
  BY <1>2, <1>3, VectorIsSeq, Zenon DEF CallsAreNamed
<1>5. ASSUME NEW a \in 1 .. n, NEW b \in 1 .. n, fns[a].name = fns[b].name, a # b PROVE FALSE
  <2>1. PICK D : D = Objects!Defining(fns, fns[a].name)
    OBVIOUS
  <2>2. D \in SUBSET (1 .. n) /\ a \in D /\ b \in D
    BY <1>4, <1>5, <2>1 DEF Objects!Defining
  <2>3. IsFiniteSet(1 .. n)
    BY FS_Interval
  <2>4. IsFiniteSet(D)
    BY <2>2, <2>3, FS_Subset, Zenon
  <2>5. Cardinality({a, b}) = 2
    <3>1. IsFiniteSet({a}) /\ Cardinality({a}) = 1
      BY FS_Singleton, Zenon
    <3>2. Cardinality({a} \cup {b}) = 2
      <4>1. b \notin {a} /\ 1 + 1 = 2
        BY <1>5
      <4> QED BY <3>1, <4>1, FS_AddElement
    <3>3. {a} \cup {b} = {a, b}
      OBVIOUS
    <3> QED BY <3>2, <3>3
  <2>6. {a, b} \in SUBSET D
    BY <2>2
  <2>7. 2 <= Cardinality(D) /\ Cardinality(D) \in Nat
    BY <2>4, <2>5, <2>6, FS_Subset, FS_CardinalityType
  <2>8. Objects!Cardinality(D) = Cardinality(D)
    BY DEF Objects!Cardinality, Cardinality
  <2>9. Objects!Cardinality(D) > 1
    BY <2>7, <2>8
  <2> QED BY <1>2, <1>4, <2>1, <2>9 DEF Objects!Duplicated
<1>6. Distinct(p)
  BY <1>2, <1>4, <1>5 DEF Distinct
<1>7. Reaches(p)
  BY <1>1, Zenon DEF BranchesReach, FramesReach, Reaches, Units
<1> QED BY <1>1, <1>3, <1>6, <1>7 DEF IsLinked

(* What an offset field holds of a distance.                               *)
LEMMA OffsetIsDistance ==
  ASSUME NEW d \in Int, NEW range \in Nat \ {0}, 2 * d < range, - range < 2 * d
  PROVE  Processor!Offset(d % range, range) = d
<1>1. CASE d >= 0
  <2>1. d % range = d
    BY <1>1
  <2> QED BY <2>1 DEF Processor!Offset
<1>2. CASE d < 0
  <2>1. d % range = d + range
    BY <1>2
  <2> QED BY <1>2, <2>1 DEF Processor!Offset
<1> QED BY <1>1, <1>2

(* Vectors that are flattened do not overlap.                              *)
LEMMA PlacesAreOne ==
  ASSUME NEW ss, AreVectors(ss), NEW off, AreOffsets(off, ss), \A i \in DOMAIN ss : off[i] \in Nat,
         NEW p, NEW i, NEW j, NEW k, NEW l, IsPlace(off, ss, p, i, k), IsPlace(off, ss, p, j, l)
  PROVE  i = j
<1>1. PICK n \in Nat : DOMAIN ss = 1 .. n
  BY VectorIsSeq DEF AreVectors
<1>2. i \in 1 .. n /\ j \in 1 .. n
  BY <1>1 DEF IsPlace
<1>3. ASSUME NEW a \in 1 .. n, NEW b \in 1 .. n, a < b, NEW c, NEW d,
             IsPlace(off, ss, p, a, c), IsPlace(off, ss, p, b, d)
      PROVE  FALSE
  <2>1. PICK m \in Nat : m = Len(ss[a]) /\ DOMAIN ss[a] = 1 .. m
    BY <1>1, VectorIsSeq, Zenon DEF AreVectors
  <2>2. PICK o \in Nat : o = off[a]
    BY <1>1
  <2> DEFINE After == {y \in a + 1 .. b : off[y] \in Nat /\ o + m <= off[y]}
  <2>3. a + 1 \in After
    <3>1. off[a + 1] = o + m
      BY <1>1, <2>1, <2>2 DEF AreOffsets
    <3>2. a + 1 \in a + 1 .. b
      BY <1>3
    <3> QED BY <3>1, <3>2
  <2>4. ASSUME NEW y \in a + 1 .. b - 1, y \in After PROVE y + 1 \in After
    <3>1. y \in 1 .. n /\ y + 1 \in a + 1 .. b
      OBVIOUS
    <3>2. PICK q \in Nat, r \in Nat : q = off[y] /\ r = Len(ss[y])
      BY <1>1, <3>1, VectorIsSeq, Zenon DEF AreVectors
    <3>3. off[y + 1] = q + r
      BY <1>1, <3>1, <3>2 DEF AreOffsets
    <3>4. o + m <= q
      BY <2>4, <3>2
    <3> QED BY <3>1, <3>3, <3>4
  <2> HIDE DEF After
  <2>5. b \in After
    <3>1. a + 1 .. b \subseteq After
      BY <2>3, <2>4, IntervalInduction
    <3>2. b \in a + 1 .. b
      BY <1>3
    <3> QED BY <3>1, <3>2
  <2>6. PICK q \in Nat : q = off[b] /\ o + m <= q
    BY <2>5 DEF After
  <2>7. PICK e \in Nat : DOMAIN ss[b] = 1 .. e
    BY <1>1, VectorIsSeq, Zenon DEF AreVectors
  <2>8. c \in 1 .. m /\ d \in 1 .. e /\ p = o + c /\ p = q + d
    BY <1>3, <2>1, <2>2, <2>6, <2>7 DEF IsPlace
  <2> QED BY <2>6, <2>8
<1> QED BY <1>2, <1>3
-----------------------------------------------------------------------------
(* The image: the functions one after the other.                           *)

(* ss has the words of each of the m functions cs, flat all of them, off   *)
(* where each begins, and n the size of its frame.                         *)
IsImage(cs, ss, off, m, flat, n) ==
  /\ DOMAIN cs = 1 .. m /\ \A i \in 1 .. m : FunctionFlows(cs[i], n[i]) /\ 2 * cs[i].size < CondRange
  /\ AreVectors(ss) /\ DOMAIN ss = 1 .. m /\ \A i \in 1 .. m : ss[i] = cs[i].words
  /\ AreOffsets(off, ss) /\ \A i \in 1 .. m : off[i] \in Nat /\ off[i] = Backend!Start(cs, i)
  /\ IsPlaced(flat, ss, m, off)
  /\ Len(flat) \in Nat /\ DOMAIN flat = 1 .. Len(flat) /\ 2 * Len(flat) < ImmRange
  /\ \A i \in 1 .. m : off[i] + cs[i].size <= Len(flat)

(* The frame of the function an address is in.                             *)
FrameAt(ss, off, n, a) == n[CHOOSE i \in DOMAIN ss : \E k \in DOMAIN ss[i] : IsPlace(off, ss, a + 1, i, k)]

(* The address of word k of function i.                                    *)
AddressOf(off, i, k) == off[i] + k - 1

(* Word k of function i, at address a of the image.                        *)
IsWord(cs, ss, off, flat, n, i, k, a) ==
  /\ a \in 0 .. Len(flat) - 1 /\ flat[a + 1] = cs[i].words[k]
  /\ FrameAt(ss, off, n, a) = n[i]

(* Every word of every function has its address in the image.              *)
LEMMA PlaceIs ==
  ASSUME NEW cs, NEW ss, NEW off, NEW m \in Nat, NEW flat, NEW n, IsImage(cs, ss, off, m, flat, n),
         NEW i \in 1 .. m, NEW k \in 1 .. cs[i].size, NEW a \in Int, a = AddressOf(off, i, k)
  PROVE  IsWord(cs, ss, off, flat, n, i, k, a)
<1>1. PICK o \in Nat, e \in Nat : o = off[i] /\ e = Len(flat)
  BY DEF IsImage
<1>2. a = o + k - 1 /\ a + 1 = o + k
  <2>1. k \in Int
    OBVIOUS
  <2>2. (o + k - 1) + 1 = o + k
    BY <2>1
  <2> QED BY <1>1, <2>2 DEF AddressOf
<1>3. k \in DOMAIN ss[i] /\ ss[i][k] = cs[i].words[k]
  <2>1. ss[i] = cs[i].words /\ IsVector(ss[i]) /\ Len(ss[i]) = cs[i].size
    BY DEF IsImage, AreVectors, FunctionFlows
  <2>2. DOMAIN ss[i] = 1 .. cs[i].size
    BY <2>1, VectorIsSeq
  <2> QED BY <2>1, <2>2
<1>4. o + k \in 1 .. e /\ flat[o + k] = cs[i].words[k]
  <2>1. o + k \in DOMAIN flat /\ flat[o + k] = ss[i][k]
    BY <1>1, <1>3 DEF IsImage, IsPlaced
  <2> QED BY <1>1, <1>3, <2>1 DEF IsImage
<1>5. IsPlace(off, ss, a + 1, i, k) /\ i \in DOMAIN ss
  BY <1>1, <1>2, <1>3 DEF IsPlace, IsImage
<1>6. FrameAt(ss, off, n, a) = n[i]
  <2>1. PICK j : j = CHOOSE h \in DOMAIN ss : \E l \in DOMAIN ss[h] : IsPlace(off, ss, a + 1, h, l)
    OBVIOUS
  <2>2. \E h \in DOMAIN ss : \E l \in DOMAIN ss[h] : IsPlace(off, ss, a + 1, h, l)
    BY <1>3, <1>5
  <2>3. PICK l \in DOMAIN ss[j] : IsPlace(off, ss, a + 1, j, l)
    BY <2>1, <2>2, Zenon
  <2>4. AreVectors(ss) /\ AreOffsets(off, ss) /\ \A h \in DOMAIN ss : off[h] \in Nat
    BY DEF IsImage
  <2>5. i = j
    BY <1>5, <2>3, <2>4, PlacesAreOne
  <2> QED BY <2>1, <2>5, Zenon DEF FrameAt
<1>7. a \in 0 .. e - 1
  BY <1>2, <1>4
<1> QED BY <1>1, <1>2, <1>4, <1>6, <1>7 DEF IsWord

(* The code has the words of the image, and a distance for every bl.       *)
IsCode(c, flat) ==
  /\ DOMAIN c = 0 .. Len(flat) - 1
  /\ \A a \in DOMAIN c : c[a].op = flat[a + 1].op /\ (c[a].op # "bl" => c[a] = flat[a + 1])

(* It reaches the first word of a function.                                *)
Calls(c, cs, m) ==
  \A a \in DOMAIN c : c[a].op = "bl" =>
    \E j \in 1 .. m : c[a].imm = (Backend!Start(cs, j) - a) % ImmRange

(* The depth at a word depends on what it does alone, not on its operands. *)
LEMMA SameDepths ==
  ASSUME NEW v, NEW w, v.op = w.op, NEW n
  PROVE  DepthAt(v, n) = DepthAt(w, n) /\ DepthAfter(v, n) = DepthAfter(w, n) /\ Leaves(v) = Leaves(w)
BY DEF DepthAt, DepthAfter, Leaves

(* Such code goes nowhere else.                                            *)
LEMMA ImageFlows ==
  ASSUME NEW cs, NEW ss, NEW off, NEW m \in Nat, NEW flat, NEW n, IsImage(cs, ss, off, m, flat, n),
         NEW c, IsCode(c, flat), Calls(c, cs, m)
  PROVE  /\ CodeFlows(c, [a \in DOMAIN c |-> FrameAt(ss, off, n, a)])
         /\ \A j \in 1 .. m : Backend!Start(cs, j) \in DOMAIN c /\ c[Backend!Start(cs, j)].op = "stp"
<1>1. PICK e \in Nat : e = Len(flat) /\ DOMAIN flat = 1 .. e /\ DOMAIN c = 0 .. e - 1 /\ 2 * e < ImmRange
  BY Zenon DEF IsImage, IsCode
<1>2. PICK words : words = [a \in DOMAIN c |-> FrameAt(ss, off, n, a)]
  BY Zenon
<1>3. ASSUME NEW i \in 1 .. m, NEW k \in 1 .. cs[i].size, NEW a \in Int, a = AddressOf(off, i, k)
      PROVE  /\ a \in DOMAIN c /\ words[a] = n[i]
             /\ c[a].op = cs[i].words[k].op /\ (c[a].op # "bl" => c[a] = cs[i].words[k])
             /\ DepthAt(c[a], n[i]) = DepthAt(cs[i].words[k], n[i])
             /\ DepthAfter(c[a], n[i]) = DepthAfter(cs[i].words[k], n[i])
             /\ Leaves(c[a]) = Leaves(cs[i].words[k])
  <2>1. a \in 0 .. e - 1 /\ flat[a + 1] = cs[i].words[k] /\ FrameAt(ss, off, n, a) = n[i]
    <3>1. IsWord(cs, ss, off, flat, n, i, k, a)
      BY <1>3, PlaceIs, Zenon
    <3> QED BY <1>1, <3>1 DEF IsWord
  <2>2. a \in DOMAIN c /\ words[a] = n[i]
    BY <1>1, <1>2, <2>1
  <2>3. c[a].op = cs[i].words[k].op /\ (c[a].op # "bl" => c[a] = cs[i].words[k])
    BY <2>1, <2>2 DEF IsCode
  <2> QED BY <2>2, <2>3, SameDepths
<1>4. ASSUME NEW j \in 1 .. m
      PROVE  \E o \in Nat : o = Backend!Start(cs, j) /\ o \in 0 .. e - 1 /\ c[o].op = "stp"
  <2>1. PICK o \in Nat : o = off[j] /\ o = Backend!Start(cs, j)
    BY DEF IsImage
  <2>2. FunctionFlows(cs[j], n[j])
    BY DEF IsImage
  <2>3. 1 \in 1 .. cs[j].size
    BY <2>2 DEF FunctionFlows
  <2>4. o \in Int /\ o = AddressOf(off, j, 1)
    BY <2>1 DEF AddressOf
  <2>5. o \in DOMAIN c /\ c[o].op = cs[j].words[1].op
    BY <1>3, <2>3, <2>4
  <2>6. c[o].op = "stp"
    BY <2>2, <2>5 DEF FunctionFlows
  <2> QED BY <1>1, <2>1, <2>5, <2>6
<1>5. ASSUME NEW a \in DOMAIN c PROVE AddressFlows(c, words, a)
  <2>1. a + 1 \in 1 .. e /\ a \in Int
    BY <1>1
  <2>2. PICK i \in 1 .. m : \E k \in DOMAIN ss[i] : IsPlace(off, ss, a + 1, i, k)
    BY <1>1, <2>1 DEF IsImage, IsPlaced
  <2>3. PICK size \in Nat \ {0}, o \in Nat, d \in Nat :
          size = cs[i].size /\ o = off[i] /\ d = n[i]
    BY DEF IsImage, FunctionFlows
  <2>4. /\ FunctionFlows(cs[i], d) /\ 2 * size < CondRange /\ o + size <= e /\ d % 2 = 0
    BY <1>1, <2>3 DEF IsImage, FunctionFlows
  <2>5. DOMAIN ss[i] = 1 .. size
    <3>1. IsVector(ss[i]) /\ Len(ss[i]) = size
      BY <2>3, Zenon DEF IsImage, FunctionFlows
    <3> QED BY <3>1, VectorIsSeq
  <2>6. PICK k \in 1 .. size : a + 1 = o + k
    BY <2>2, <2>3, <2>5 DEF IsPlace
  <2>7. k \in Int /\ a = o + k - 1 /\ a = AddressOf(off, i, k)
    BY <2>1, <2>3, <2>6 DEF AddressOf
  <2>8. PICK w : w = cs[i].words[k]
    OBVIOUS
  <2>9. /\ words[a] = d /\ c[a].op = w.op /\ (c[a].op # "bl" => c[a] = w)
        /\ DepthAfter(c[a], d) = DepthAfter(w, d) /\ Leaves(c[a]) = Leaves(w)
    BY <1>3, <2>1, <2>3, <2>6, <2>7, <2>8
  <2>10. WordFlows(cs[i].words, d, size, k)
    BY <2>3, <2>4 DEF FunctionFlows
  <2>11. WordFits(c[a], d)
    <3>1. CASE c[a].op = "bl"
      BY <3>1 DEF WordFits
    <3>2. CASE c[a].op # "bl"
      BY <2>8, <2>9, <2>10, <3>2 DEF WordFlows
    <3> QED BY <3>1, <3>2
  <2>12. ASSUME ~ Leaves(c[a])
         PROVE  /\ a + 1 \in DOMAIN c /\ words[a + 1] = words[a]
                /\ DepthAt(c[a + 1], words[a]) = DepthAfter(c[a], words[a])
    <3>1. k + 1 \in 1 .. size /\ DepthAt(cs[i].words[k + 1], d) = DepthAfter(w, d)
      BY <2>8, <2>9, <2>10, <2>12 DEF WordFlows
    <3>2. a + 1 \in Int /\ a + 1 = AddressOf(off, i, k + 1)
      BY <2>3, <2>7 DEF AddressOf
    <3>3. a + 1 \in DOMAIN c /\ words[a + 1] = d /\ DepthAt(c[a + 1], d) = DepthAt(cs[i].words[k + 1], d)
      BY <1>3, <2>3, <3>1, <3>2
    <3> QED BY <2>9, <3>1, <3>3
  <2>13. ASSUME NEW op \in {"b", "b.cond"}, c[a].op = op, NEW range, range = IF op = "b" THEN ImmRange ELSE CondRange,
                NEW to, to = Aims(c, a, range)
         PROVE  to \in DOMAIN c /\ words[to] = words[a] /\ DepthAt(c[to], words[a]) = 2 + words[a]
    <3>1. w.op = op /\ c[a] = w /\ range = OffsetRange(w)
      BY <2>9, <2>13 DEF OffsetRange
    <3>2. PICK t \in 1 .. size : DepthAt(cs[i].words[t], d) = 2 + d /\ w.imm = (t - k) % range
      BY <2>8, <2>10, <3>1 DEF WordFlows
    <3>3. range \in Nat \ {0} /\ 2 * size < range
      BY <1>1, <2>4, <2>13, ToolchainAssumption
    <3>4. t - k \in Int /\ 2 * (t - k) < range /\ - range < 2 * (t - k)
      BY <3>3
    <3>5. Processor!Offset((t - k) % range, range) = t - k
      BY <3>3, <3>4, OffsetIsDistance
    <3>6. to = a + (t - k)
      BY <2>13, <3>1, <3>2, <3>5 DEF Aims
    <3>7. to \in Int /\ to = AddressOf(off, i, t)
      BY <2>1, <2>3, <2>7, <3>6 DEF AddressOf
    <3>8. to \in DOMAIN c /\ words[to] = d /\ DepthAt(c[to], d) = DepthAt(cs[i].words[t], d)
      BY <1>3, <2>3, <3>7
    <3> QED BY <2>9, <3>2, <3>8
  <2>14. ASSUME c[a].op = "bl", NEW to, to = Aims(c, a, ImmRange)
         PROVE  to \in DOMAIN c /\ DepthAt(c[to], words[to]) = 0
    <3>1. PICK j \in 1 .. m : c[a].imm = (Backend!Start(cs, j) - a) % ImmRange
      BY <2>14 DEF Calls
    <3>2. PICK s \in Nat : s = Backend!Start(cs, j) /\ s \in 0 .. e - 1 /\ c[s].op = "stp"
      BY <1>4
    <3>3. s - a \in Int /\ 2 * (s - a) < ImmRange /\ - ImmRange < 2 * (s - a) /\ ImmRange \in Nat \ {0}
      <4>1. PICK range \in Nat \ {0} : range = ImmRange /\ 2 * e < range
        BY <1>1, ToolchainAssumption
      <4>2. a \in 0 .. e - 1
        BY <2>1
      <4> QED BY <3>2, <4>1, <4>2
    <3>4. Processor!Offset((s - a) % ImmRange, ImmRange) = s - a
      BY <3>3, OffsetIsDistance
    <3>5. to = s
      <4>1. to = a + (s - a)
        BY <2>14, <3>1, <3>2, <3>4 DEF Aims
      <4> QED BY <2>1, <3>2, <4>1
    <3> QED BY <1>1, <3>2, <3>5 DEF DepthAt
  <2> QED BY <2>3, <2>4, <2>9, <2>11, <2>12, <2>13, <2>14 DEF AddressFlows
<1>6. DOMAIN c \subseteq Nat
  BY <1>1
<1>7. \A j \in 1 .. m : Backend!Start(cs, j) \in DOMAIN c /\ c[Backend!Start(cs, j)].op = "stp"
  BY <1>1, <1>4
<1> QED BY <1>2, <1>5, <1>6, <1>7 DEF CodeFlows
-----------------------------------------------------------------------------
(* compileProgram lays the functions of a program out and links them.      *)

(* It can be compiled, and no block of it falls through.                   *)
IsCompiled(p) ==
  IsLinked(p) /\ \A f \in DOMAIN p.functions : Backend!Compilable(p.functions[f]) /\ Terminated(p.functions[f])

(* The words of its functions, where each begins, and their frames.        *)
WordsOf(cs) == [f \in DOMAIN cs |-> cs[f].words]

Offsets(cs, m) == [i \in 1 .. m + 1 |-> Backend!Start(cs, i)]

FramesOf(p) == [f \in DOMAIN p.functions |-> Backend!FrameWords(p.functions[f])]

(* All of these are of the same program.                                   *)
IsProgram(p, m, cs, ss, flat, off, n) ==
  /\ DOMAIN p.functions = 1 .. m
  /\ cs = Units(p) /\ ss = WordsOf(cs) /\ flat = FlattenSeq(ss) /\ off = Offsets(cs, m) /\ n = FramesOf(p)

(* Every function is compiled, under its own name, to words that flow.     *)
LEMMA UnitsFlow ==
  ASSUME NEW p, IsCompiled(p), NEW m \in Nat, NEW cs, NEW ss, NEW flat, NEW off, NEW n,
         IsProgram(p, m, cs, ss, flat, off, n)
  PROVE  /\ DOMAIN cs = 1 .. m /\ Len(cs) = m
         /\ \A i \in 1 .. m : FunctionFlows(cs[i], n[i]) /\ cs[i].name = p.functions[i].name /\ 2 * cs[i].size < CondRange
<1>1. DOMAIN cs = 1 .. m /\ cs = [i \in 1 .. m |-> Backend!arm64CompileFunction(p.functions[i])]
  BY DEF IsProgram, Units
<1>2. Len(cs) = m
  BY <1>1
<1>3. ASSUME NEW i \in 1 .. m
      PROVE  FunctionFlows(cs[i], n[i]) /\ cs[i].name = p.functions[i].name
  <2>1. PICK f : f = p.functions[i]
    OBVIOUS
  <2>2. Fits(f) /\ Backend!Compilable(f) /\ Terminated(f)
    <3>1. Backend!FrameSize(f) < FieldRange
      BY <2>1 DEF IsCompiled, IsLinked, Reaches, IsProgram
    <3> QED BY <2>1, <3>1 DEF IsCompiled, IsLinked, CallsAreNamed, CodeFits, IsProgram, Fits
  <2>3. n[i] = Backend!FrameWords(f) /\ cs[i] = Backend!arm64CompileFunction(f)
    BY <1>1, <2>1 DEF IsProgram, FramesOf
  <2>4. FunctionFlows(cs[i], n[i])
    BY <2>2, <2>3, CompiledFlows
  <2>5. cs[i].name = f.name
    BY <2>3 DEF Backend!arm64CompileFunction
  <2> QED BY <2>1, <2>4, <2>5
<1>4. \A i \in 1 .. m : 2 * cs[i].size < CondRange
  BY DEF IsCompiled, IsLinked, Reaches, IsProgram
<1> QED BY <1>1, <1>2, <1>3, <1>4

(* Laid out one after the other, they make an image.                       *)
LEMMA ProgramIsImage ==
  ASSUME NEW p, IsCompiled(p), NEW m \in Nat, NEW cs, NEW ss, NEW flat, NEW off, NEW n,
         IsProgram(p, m, cs, ss, flat, off, n)
  PROVE  IsImage(cs, ss, off, m, flat, n)
<1>1. /\ DOMAIN cs = 1 .. m /\ Len(cs) = m
      /\ \A i \in 1 .. m : FunctionFlows(cs[i], n[i]) /\ 2 * cs[i].size < CondRange
  BY UnitsFlow
<1>2. Sized(cs)
  <2>1. \A i \in 1 .. m : cs[i].size \in Nat
    BY <1>1 DEF FunctionFlows
  <2> QED BY <1>1, <2>1 DEF Sized
<1>3. \A i : Backend!Start(cs, i) = StartOf(cs, i)
  BY DEF Backend!Start, StartOf, Backend!FoldLeft, FoldLeft, Backend!MapThenFoldSet, MapThenFoldSet, Backend!Max, Max
<1>4. /\ Backend!Start(cs, 1) = 0
      /\ \A i \in 1 .. m : Backend!Start(cs, i + 1) = Backend!Start(cs, i) + cs[i].size
  BY <1>1, <1>2, <1>3, Layout
<1>5. PICK end \in Nat : /\ end = Backend!Start(cs, m + 1)
                         /\ \A i \in 1 .. m : Backend!Start(cs, i) \in Nat /\ Backend!Start(cs, i) + cs[i].size <= end
  BY <1>1, <1>2, <1>3, StartsAreInside, Zenon
<1>6. ss = [i \in 1 .. m |-> cs[i].words]
  BY <1>1 DEF IsProgram, WordsOf
<1>7. DOMAIN ss = 1 .. m /\ \A i \in 1 .. m : ss[i] = cs[i].words /\ IsVector(ss[i]) /\ Len(ss[i]) = cs[i].size
  BY <1>1, <1>6 DEF FunctionFlows
<1>8. AreVectors(ss) /\ Len(ss) = m
  <2>1. Len(ss) = m
    BY <1>6
  <2>2. IsVector(ss)
    BY <1>6, <2>1 DEF IsVector
  <2> QED BY <1>7, <2>1, <2>2 DEF AreVectors
<1>9. off = [i \in 1 .. m + 1 |-> Backend!Start(cs, i)]
  BY DEF IsProgram, Offsets
<1>10. off[m + 1] = end /\ \A i \in 1 .. m : off[i] = Backend!Start(cs, i) /\ off[i + 1] = Backend!Start(cs, i + 1)
  <2>1. m + 1 \in 1 .. m + 1 /\ \A i \in 1 .. m : i \in 1 .. m + 1 /\ i + 1 \in 1 .. m + 1
    OBVIOUS
  <2> QED BY <1>5, <1>9, <2>1
<1>11. AreOffsets(off, ss)
  <2>1. off[1] = 0
    <3>1. 1 \in 1 .. m + 1
      OBVIOUS
    <3> QED BY <1>4, <1>9, <3>1
  <2> QED BY <1>4, <1>7, <1>10, <2>1 DEF AreOffsets
<1>12. IsPlaced(flat, ss, m, off)
  BY <1>8, <1>11, FlatteningPlaces DEF IsProgram
<1>13. Len(flat) = end /\ DOMAIN flat = 1 .. end
  <2>1. Len(flat) = end /\ IsVector(flat)
    BY <1>10, <1>12 DEF IsPlaced
  <2> QED BY <2>1, VectorIsSeq
<1>14. 2 * end < ImmRange
  BY <1>1, <1>5 DEF IsCompiled, IsLinked, Reaches, IsProgram
<1> QED BY <1>1, <1>5, <1>7, <1>8, <1>10, <1>11, <1>12, <1>13, <1>14 DEF IsImage
-----------------------------------------------------------------------------
(* The image of a program, with its calls linked.                          *)
LEMMA ProgramIsCode ==
  ASSUME NEW p, IsCompiled(p), NEW m \in Nat, NEW cs, NEW ss, NEW flat, NEW off, NEW n,
         IsProgram(p, m, cs, ss, flat, off, n), Backend!compileProgram(p).ok
  PROVE  LET image == Backend!compileProgram(p)
         IN  /\ IsCode(image.code, flat) /\ Calls(image.code, cs, m)
             /\ image.entry = Backend!Start(cs, p.entryIndex)
<1>1. PICK image, branches :
        /\ image = Backend!compileProgram(p)
        /\ branches = Backend!LinkedCode(cs, p.functions[p.entryIndex].name).branches
  OBVIOUS
<1>2. /\ Backend!Resolved(cs)
      /\ image.entry = Backend!functionStart(cs, p.functions[p.entryIndex].name)
      /\ image.code = [a \in 0 .. Len(flat) - 1 |->
                         IF flat[a + 1].op # "bl" THEN flat[a + 1]
                         ELSE [op |-> "bl", imm |-> (CHOOSE b \in branches : b.at = a).imm26]]
  <2>1. \A f \in DOMAIN p.functions : Backend!Compilable(p.functions[f])
    BY DEF IsCompiled
  <2>2. /\ cs = [f \in DOMAIN p.functions |-> Backend!arm64CompileFunction(p.functions[f])]
        /\ flat = Backend!FlattenSeq([f \in DOMAIN cs |-> cs[f].words])
    BY SameHelpers DEF IsProgram, Units, WordsOf
  <2>3. Backend!Resolved(cs)
    BY <2>1, <2>2 DEF Backend!compileProgram, Backend!Failed
  <2>4. PICK linked : linked = Backend!LinkedCode(cs, p.functions[p.entryIndex].name)
    OBVIOUS
  <2>5. image = [ok    |-> TRUE,
                 entry |-> linked.entryOffset,
                 code  |-> [a \in 0 .. Len(flat) - 1 |->
                              IF flat[a + 1].op # "bl" THEN flat[a + 1]
                              ELSE [op |-> "bl", imm |-> (CHOOSE b \in linked.branches : b.at = a).imm26]]]
    <3>1. ~ \E f \in DOMAIN p.functions : ~ Backend!Compilable(p.functions[f])
      BY <2>1
    <3> QED BY <1>1, <2>2, <2>3, <2>4, <3>1, Zenon DEF Backend!compileProgram
  <2>6. branches = linked.branches
    BY <1>1, <2>4
  <2>7. linked.entryOffset = Backend!functionStart(cs, p.functions[p.entryIndex].name)
    BY <2>4 DEF Backend!LinkedCode
  <2> QED BY <2>3, <2>5, <2>6, <2>7
<1>3. IsImage(cs, ss, off, m, flat, n)
  BY ProgramIsImage
<1>4. /\ DOMAIN cs = 1 .. m
      /\ \A i \in 1 .. m : FunctionFlows(cs[i], n[i]) /\ cs[i].name = p.functions[i].name
  BY UnitsFlow
<1>5. PICK e \in Nat : e = Len(flat) /\ DOMAIN flat = 1 .. e
  BY <1>3 DEF IsImage
<1>6. ASSUME NEW j \in 1 .. m
      PROVE  Backend!functionStart(cs, cs[j].name) = Backend!Start(cs, j)
  <2>1. \A i \in 1 .. m : cs[i].name = cs[j].name => i = j
    <3>1. Distinct(p) /\ DOMAIN p.functions = 1 .. m
      BY DEF IsCompiled, IsLinked, IsProgram
    <3> QED BY <1>4, <3>1 DEF Distinct
  <2>2. Backend!Named(cs, cs[j].name) = {j}
    BY <1>4, <2>1 DEF Backend!Named
  <2>3. Backend!Max({j}) = j
    BY DEF Backend!Max
  <2> QED BY <2>2, <2>3 DEF Backend!functionStart
<1>7. IsCode(image.code, flat)
  <2>1. DOMAIN image.code = 0 .. e - 1
    BY <1>2, <1>5
  <2>2. ASSUME NEW a \in 0 .. e - 1
        PROVE  image.code[a].op = flat[a + 1].op /\ (image.code[a].op # "bl" => image.code[a] = flat[a + 1])
    BY <1>2, <1>5
  <2> QED BY <1>5, <2>1, <2>2 DEF IsCode
<1>8. ASSUME NEW a \in 0 .. e - 1, flat[a + 1].op = "bl"
      PROVE  \E j \in 1 .. m : image.code[a].imm = (Backend!Start(cs, j) - a) % ImmRange
  <2>1. \E b \in branches : b.at = a
    <3>1. a + 1 \in DOMAIN flat
      BY <1>5
    <3>2. PICK i \in 1 .. m : \E l \in DOMAIN ss[i] : IsPlace(off, ss, a + 1, i, l)
      BY <1>3, <3>1 DEF IsImage, IsPlaced
    <3>3. PICK size \in Nat, o \in Nat : size = cs[i].size /\ o = off[i] /\ o = Backend!Start(cs, i)
      BY <1>3, <1>4, Zenon DEF IsImage, FunctionFlows
    <3>4. ss[i] = cs[i].words /\ DOMAIN ss[i] = 1 .. size
      <4>1. ss[i] = cs[i].words /\ IsVector(ss[i]) /\ Len(ss[i]) = size
        BY <1>3, <1>4, <3>3 DEF IsImage, FunctionFlows
      <4> QED BY <4>1, VectorIsSeq
    <3>5. PICK k \in 1 .. size : a + 1 = o + k /\ k \in Int /\ k \in DOMAIN ss[i]
      BY <3>2, <3>3, <3>4 DEF IsPlace
    <3>6. flat[a + 1] = cs[i].words[k]
      <4>1. flat[off[i] + k] = ss[i][k]
        BY <1>3, <3>5 DEF IsImage, IsPlaced
      <4> QED BY <3>3, <3>4, <3>5, <4>1
    <3>7. k \in DOMAIN cs[i].calls /\ cs[i].calls[k].at = k - 1
      <4>1. FunctionFlows(cs[i], n[i]) /\ cs[i].words[k].op = "bl"
        BY <1>4, <1>8, <3>6
      <4>2. k \in 1 .. cs[i].size
        BY <3>3, <3>5
      <4> QED BY <4>1, <4>2 DEF FunctionFlows
    <3>8. PICK b : b = Backend!Branch(cs, i, cs[i].calls[k])
      OBVIOUS
    <3>9. b.at = o + (k - 1)
      BY <1>6, <3>3, <3>7, <3>8 DEF Backend!Branch
    <3>10. b.at = a
      BY <3>5, <3>9
    <3>11. b \in branches
      BY <1>1, <1>4, <3>7, <3>8 DEF Backend!LinkedCode
    <3> QED BY <3>10, <3>11
  <2>2. PICK b \in branches : b.at = a /\ b = CHOOSE c \in branches : c.at = a
    BY <2>1
  <2>3. PICK i \in DOMAIN cs : \E k \in DOMAIN cs[i].calls : b = Backend!Branch(cs, i, cs[i].calls[k])
    BY <1>1 DEF Backend!LinkedCode
  <2>4. PICK k \in DOMAIN cs[i].calls : b = Backend!Branch(cs, i, cs[i].calls[k])
    BY <2>3
  <2>5. PICK j \in 1 .. m : cs[j].name = cs[i].calls[k].callee
    BY <1>2, <1>4, <2>3, <2>4 DEF Backend!Resolved, Backend!Named
  <2>6. b.imm26 = (Backend!Start(cs, j) - a) % ImmRange
    <3>1. b.imm26 = (Backend!functionStart(cs, cs[i].calls[k].callee) - b.at) % ImmRange
      BY <2>4 DEF Backend!Branch
    <3> QED BY <1>6, <2>2, <2>5, <3>1
  <2>7. image.code[a].imm = b.imm26
    BY <1>2, <1>5, <1>8, <2>2
  <2> QED BY <2>6, <2>7
<1>9. Calls(image.code, cs, m)
  BY <1>5, <1>7, <1>8 DEF Calls, IsCode
<1>10. image.entry = Backend!Start(cs, p.entryIndex)
  <2>1. p.entryIndex \in 1 .. m
    BY DEF IsCompiled, IsLinked, IsProgram
  <2> QED BY <1>2, <1>4, <1>6, <2>1
<1> QED BY <1>1, <1>7, <1>9, <1>10

(* Native code flows, from the first word of the entry on.                 *)
LEMMA NativeCodeFlows ==
  ASSUME NEW p, IsCompiled(p), Backend!compileProgram(p).ok
  PROVE  LET image == Backend!compileProgram(p)
         IN  \E words : /\ CodeFlows(image.code, words)
                        /\ image.entry \in DOMAIN image.code
                        /\ DepthAt(image.code[image.entry], words[image.entry]) = 0
<1>1. PICK m \in Nat : DOMAIN p.functions = 1 .. m
  BY VectorIsSeq, Zenon DEF IsCompiled, IsLinked, CallsAreNamed
<1>2. PICK cs, ss, flat, off, n : IsProgram(p, m, cs, ss, flat, off, n)
  BY <1>1 DEF IsProgram
<1>3. PICK image : image = Backend!compileProgram(p)
  OBVIOUS
<1>4. IsImage(cs, ss, off, m, flat, n)
  BY <1>2, ProgramIsImage
<1>5. IsCode(image.code, flat) /\ Calls(image.code, cs, m) /\ image.entry = Backend!Start(cs, p.entryIndex)
  BY <1>2, <1>3, ProgramIsCode
<1>6. PICK c : c = image.code
  OBVIOUS
<1>7. IsCode(c, flat) /\ Calls(c, cs, m)
  BY <1>5, <1>6
<1>8. /\ CodeFlows(c, [a \in DOMAIN c |-> FrameAt(ss, off, n, a)])
      /\ \A j \in 1 .. m : Backend!Start(cs, j) \in DOMAIN c /\ c[Backend!Start(cs, j)].op = "stp"
  BY <1>4, <1>7, ImageFlows
<1>9. p.entryIndex \in 1 .. m
  BY <1>1 DEF IsCompiled, IsLinked
<1>10. image.entry \in DOMAIN c /\ c[image.entry].op = "stp"
  BY <1>5, <1>8, <1>9
<1>11. \A words : DepthAt(c[image.entry], words) = 0
  BY <1>10 DEF DepthAt
<1> QED BY <1>3, <1>6, <1>8, <1>10, <1>11
-----------------------------------------------------------------------------
(* The toolchain: native code runs as it flows.                            *)

(* The host has called native code.                                        *)
Running == stage = "native"

(* A run of native code: under way, stopped by a fault, or over.           *)
NativeRuns ==
  Registers /\ \E words :
    /\ CodeFlows(code, words)
    /\ \/ cpu = "running" /\ (Back \/ \E calls : Active(words, calls))
       \/ cpu = "fault" /\ sp % 2 = 0
       \/ cpu = "returned" /\ sp = StackWords

(* The inductive invariant.  What is loaded was linked, the host's stack   *)
(* pointer is its own until it calls native code, and from then on the     *)
(* code runs as it flows.                                                  *)
NInv ==
  /\ LInv
  /\ stage \in {"load", "run", "native"} => IsLinked(program)
  /\ ~ Running => cpu = "idle" /\ sp = StackWords
  /\ Running /\ NoFallThrough => NativeRuns

(* The host calls the first word of the entry.                             *)
LEMMA EnterRuns ==
  ASSUME NEW image, NEW words, CodeFlows(image, words), NEW at \in DOMAIN image,
         DepthAt(image[at], words[at]) = 0, NEW arguments, sp = StackWords, Processor!Enter(image, at, arguments)
  PROVE  NativeRuns'
<1>1. code' = image /\ pc' = at /\ cpu' = "running" /\ sp' = StackWords /\ mem' = mem
  BY DEF Processor!Enter
<1>2. Registers' /\ x'[Processor!Lr] = Processor!HostPc
  <2>1. x' = [r \in Processor!XRegs |-> CASE r = Processor!Fp -> Processor!HostFp
                                          [] r = Processor!Lr -> Processor!HostPc
                                          [] r \in 0 .. ArgRegs - 1 -> arguments[r + 1]
                                          [] OTHER -> x[r]]
    BY DEF Processor!Enter
  <2>2. /\ Processor!Fp \in Processor!XRegs /\ Processor!Lr \in Processor!XRegs /\ Processor!Fp # Processor!Lr
        /\ Processor!Fp \notin 0 .. ArgRegs - 1 /\ Processor!Lr \notin 0 .. ArgRegs - 1
    BY ToolchainAssumption DEF Processor!XRegs, Processor!Fp, Processor!Lr
  <2>3. x'[Processor!Fp] = Processor!HostFp /\ x'[Processor!Lr] = Processor!HostPc
    BY <2>1, <2>2
  <2>4. x' = [r \in Processor!XRegs |-> x'[r]]
    BY <2>1
  <2> QED BY <2>3, <2>4 DEF Registers
<1>3. PICK calls : calls = <<[entry |-> StackWords, back |-> Processor!HostPc]>>
  BY Zenon
<1>4. /\ DOMAIN calls = {1} /\ Len(calls) = 1 /\ IsVector(calls) /\ calls # <<>>
      /\ calls[1] = [entry |-> StackWords, back |-> Processor!HostPc]
  <2>1. Len(calls) = 1 /\ DOMAIN calls = {1} /\ calls[1] = [entry |-> StackWords, back |-> Processor!HostPc]
    BY <1>3
  <2>2. calls = [k \in 1 .. 1 |-> calls[k]]
    BY <1>3
  <2>3. calls # <<>>
    BY <1>3
  <2> QED BY <2>1, <2>2, <2>3 DEF IsVector
<1>5. StackWords \in Nat /\ StackWords % 2 = 0
  BY ToolchainAssumption
<1>6. Stacked(calls)
  BY <1>4, <1>5 DEF Stacked
<1>7. Suspended(code, words, calls)' /\ Below(mem, calls)'
  BY <1>4 DEF Suspended, Below
<1>8. Depth(words)' = 0 /\ Top(calls) = calls[1]
  BY <1>1, <1>4 DEF Depth, Top
<1>9. Active(words, calls)'
  <2>1. sp' = Top(calls).entry - 0
    BY <1>1, <1>4, <1>5, <1>8
  <2>2. pc' \in DOMAIN code'
    BY <1>1
  <2>3. x'[Processor!Lr] = Top(calls).back
    BY <1>2, <1>4, <1>8
  <2> QED BY <1>6, <1>7, <1>8, <2>1, <2>2, <2>3 DEF Active
<1>10. CodeFlows(code, words)'
  BY <1>1 DEF CodeFlows, AddressFlows, Aims
<1> QED BY <1>1, <1>2, <1>9, <1>10 DEF NativeRuns

(* uasm run --jit enters code that flows.                                  *)
LEMMA JitRuns ==
  ASSUME NInv, Jit, NoFallThrough
  PROVE  Running' => NativeRuns'
<1>1. PICK image : image = Backend!compileProgram(program)
  OBVIOUS
<1>2. image.ok \/ image.error \in {"not supported", "unresolved function"}
  BY <1>1 DEF Backend!compileProgram, Backend!Failed
<1>3. CASE image.ok /\ Processor!Enter(image.code, image.entry, argv)
  <2>1. \A f \in DOMAIN program.functions : Backend!Compilable(program.functions[f])
    BY <1>1, <1>3, Zenon DEF Backend!compileProgram, Backend!Failed
  <2>2. \A f \in DOMAIN program.functions : Terminated(program.functions[f])
    BY DEF NoFallThrough, Terminated
  <2>3. IsCompiled(program) /\ sp = StackWords
    BY <2>1, <2>2 DEF IsCompiled, NInv, Jit, Running
  <2>4. PICK words : /\ CodeFlows(image.code, words) /\ image.entry \in DOMAIN image.code
                     /\ DepthAt(image.code[image.entry], words[image.entry]) = 0
    BY <1>1, <1>3, <2>3, NativeCodeFlows
  <2> QED BY <1>3, <2>3, <2>4, EnterRuns
<1>4. CASE ~ image.ok /\ stage' = image.error
  BY <1>2, <1>4 DEF Running
<1> QED BY <1>1, <1>3, <1>4 DEF Jit

(* The processor keeps to it.                                              *)
LEMMA ExecuteRuns ==
  ASSUME NativeRuns, Processor!Step
  PROVE  NativeRuns'
<1>1. PICK words : /\ CodeFlows(code, words)
                   /\ \/ cpu = "running" /\ (Back \/ \E calls : Active(words, calls))
                      \/ cpu = "fault" /\ sp % 2 = 0
                      \/ cpu = "returned" /\ sp = StackWords
  BY DEF NativeRuns
<1>2. cpu = "running"
  BY DEF Processor!Step, Processor!Movz, Processor!Movk, Processor!Alu, Processor!Ldr, Processor!Stp, Processor!Ldp,
         Processor!MoveSp, Processor!Branch, Processor!Cmp, Processor!Str, Processor!At, Processor!Decoded,
         Processor!Returned, Processor!Fault
<1>3. Registers
  BY DEF NativeRuns
<1>4. Goes(words)
  BY <1>1, <1>2, <1>3, ActiveGoes, BackGoes
<1>5. CodeFlows(code, words)'
  BY <1>1, <1>4 DEF Goes, CodeFlows, AddressFlows, Aims
<1> QED BY <1>4, <1>5 DEF Goes, NativeRuns

(* The invariant is kept by every step ...                                 *)
LEMMA NextRuns ==
  ASSUME InputsFit, BranchesReach, FramesReach, NInv, [Next]_all
  PROVE  NInv'
<1>1. LInv'
  BY NextKeeps DEF NInv
<1>2. CASE Compile
  <2>1. PICK linked : linked = Objects!link(input.objects)
    OBVIOUS
  <2>2. stage = "compile" /\ UNCHANGED machine /\ input \in Inputs
    BY <1>2 DEF Compile, NInv, LInv
  <2>3. CASE linked.ok /\ program' = linked.program /\ stage' = "load"
    <3>1. IsLinked(program')
      BY <2>1, <2>2, <2>3, LinkedIsLinked
    <3> QED BY <1>1, <2>2, <2>3, <3>1 DEF NInv, Running, machine
  <2>4. CASE ~ linked.ok /\ stage' = linked.error
    <3>1. linked.error \in {"duplicate function definition", "unresolved call", "no main", "main is not exported"}
      BY <2>1, <2>4 DEF Objects!link, Objects!Refused
    <3>2. stage' \notin {"load", "run", "native"}
      BY <2>4, <3>1
    <3> QED BY <1>1, <2>2, <3>2 DEF NInv, Running, machine
  <2> QED BY <1>2, <2>1, <2>3, <2>4 DEF Compile
<1>3. CASE Load \/ Interpret
  <2>1. program' = program
    <3>1. CASE Load
      BY <3>1 DEF Load, Run, call, Throw
    <3>2. CASE Interpret
      BY <3>2, AnyStepFits DEF Interpret, StepFits, NInv
    <3> QED BY <1>3, <3>1, <3>2
  <2>2. UNCHANGED machine /\ stage \in {"load", "run"} /\ stage' = "run"
    BY <1>3 DEF Load, Interpret
  <2> QED BY <1>1, <2>1, <2>2 DEF NInv, Running, machine
<1>4. CASE Jit
  <2>1. stage = "run" /\ program' = program
    BY <1>4 DEF Jit, vars
  <2>2. NoFallThrough' => NoFallThrough
    BY <2>1 DEF NoFallThrough
  <2>3. ~ Running' => UNCHANGED machine
    BY <1>4 DEF Jit, Running
  <2> QED BY <1>1, <1>4, <2>1, <2>2, <2>3, JitRuns DEF NInv, Running, machine
<1>5. CASE Execute
  <2>1. stage = "native" /\ stage' = stage /\ program' = program /\ Processor!Step
    BY <1>5 DEF Execute, vars
  <2>2. NoFallThrough' => NoFallThrough
    BY <2>1 DEF NoFallThrough
  <2> QED BY <1>1, <2>1, <2>2, ExecuteRuns DEF NInv, Running
<1>6. CASE UNCHANGED all
  <2>1. UNCHANGED <<stage, program>> /\ UNCHANGED machine
    BY <1>6 DEF all, vars
  <2>2. UNCHANGED <<code, x, sp, pc, nzv, mem, cpu>>
    BY <2>1 DEF machine
  <2>3. NoFallThrough' = NoFallThrough
    BY <2>1 DEF NoFallThrough
  <2>4. NativeRuns' = NativeRuns
    BY <2>2 DEF NativeRuns, Registers, CodeFlows, AddressFlows, Aims, Back, Active, Suspended, Below, Depth
  <2> QED BY <1>1, <2>1, <2>2, <2>3, <2>4 DEF NInv, Running
<1> QED BY <1>2, <1>3, <1>4, <1>5, <1>6 DEF Next

(* ... and holds at first.                                                 *)
LEMMA InitRuns == Init => NInv
<1> SUFFICES ASSUME Init PROVE NInv
  OBVIOUS
<1>1. LInv
  BY InitHolds
<1>2. stage = "compile" /\ sp = StackWords /\ cpu = "idle"
  BY DEF Init, Processor!Idle
<1> QED BY <1>1, <1>2 DEF NInv, Running

(* Code that runs like this leaves the host as it was.                     *)
LEMMA RunsLeaveHost == NInv => HostLeftIntact
<1> SUFFICES ASSUME NInv, NoFallThrough
             PROVE  /\ sp % 2 = 0
                    /\ cpu = "returned" => sp = StackWords /\ x[Processor!Fp] = Processor!HostFp
                    /\ cpu = "running" => pc \in DOMAIN code \cup {Processor!HostPc}
  BY DEF HostLeftIntact
<1>1. StackWords % 2 = 0
  BY ToolchainAssumption
<1>2. CASE ~ Running
  BY <1>1, <1>2 DEF NInv
<1>3. CASE Running
  <2>1. Registers
    BY <1>3 DEF NInv, NativeRuns
  <2>2. PICK words : /\ CodeFlows(code, words)
                     /\ \/ cpu = "running" /\ (Back \/ \E calls : Active(words, calls))
                        \/ cpu = "fault" /\ sp % 2 = 0
                        \/ cpu = "returned" /\ sp = StackWords
    BY <1>3 DEF NInv, NativeRuns
  <2>3. CASE cpu = "running" /\ Back
    BY <1>1, <2>3 DEF Back
  <2>4. ASSUME NEW calls, cpu = "running", Active(words, calls)
        PROVE  sp % 2 = 0 /\ pc \in DOMAIN code
    BY <2>2, <2>4, ActiveIsEven DEF Active
  <2> QED BY <1>1, <2>1, <2>2, <2>3, <2>4 DEF Registers
<1> QED BY <1>2, <1>3

(* Whatever a linked program computes, native code leaves the host as it   *)
(* was: the stack pointer is even at every instruction, the stack and frame*)
(* pointers of the host are back when it returns, and nothing but its own  *)
(* instructions is executed.  This is of every program whose branches and  *)
(* frames fit the fields of their instructions and whose blocks all end    *)
(* with a jump or a return, on a stack of any size and with any arguments. *)
THEOREM HostStaysIntact ==
  ASSUME InputsFit, BranchesReach, FramesReach
  PROVE  Spec => []HostLeftIntact
<1>1. Init => NInv
  BY InitRuns
<1>2. NInv /\ [Next]_all => NInv'
  BY NextRuns
<1>3. NInv => HostLeftIntact
  BY RunsLeaveHost
<1> QED BY <1>1, <1>2, <1>3, PTL DEF Spec
=============================================================================
