---------------------------- MODULE IntegerProofs ----------------------------
(***************************************************************************)
(* For every width of the types, every operand and every length of a chain *)
(* of limbs: the integer instructions compute what they should on integers *)
(* without bounds; and for every vector, mask and address: an instruction  *)
(* on vectors does on each lane what the scalar instruction does, touches  *)
(* the lanes of its mask alone, and masks are the sets of lanes they name. *)
(***************************************************************************)
EXTENDS IntegerUnit, VectorUnit, BasicLemmas

(* Words.                                                                  *)

(* A number is the same in any word modulo its size, and itself if it fits.*)
LEMMA UnsignedWord ==
  ASSUME NEW n \in Int, NEW w \in Nat
  PROVE  /\ AsUnsigned(n, w) \in Nat /\ AsUnsigned(n, w) \in 0 .. 2^w - 1
         /\ SameModulo(AsUnsigned(n, w), n, 2^w)
         /\ n \in 0 .. 2^w - 1 => AsUnsigned(n, w) = n
<1>1. PICK p \in Nat \ {0} : p = 2^w
  BY PowerPositive
<1>2. n % p \in 0 .. p - 1 /\ SameModulo(n % p, n, p)
  BY DivMod, ModIsSame
<1>3. n \in 0 .. p - 1 => n % p = n
  OBVIOUS
<1> QED BY <1>1, <1>2, <1>3 DEF AsUnsigned

(* A size_t holds the numbers that have as many bits as a pointer.         *)
LEMMA SizeOf ==
  ASSUME NEW n \in Int
  PROVE  SizeT(n) \in Nat /\ (n \in 0 .. 2^Width["ptr"] - 1 => SizeT(n) = n)
<1>1. Width["ptr"] \in Nat
  BY WordsAssumption, WidthAssumption
<1>2. PICK w \in Nat : w = Width["ptr"]
  BY <1>1
<1> QED BY <1>2, UnsignedWord DEF SizeT

LEMMA SignedWord ==
  ASSUME NEW n \in Int, NEW w \in Nat \ {0}
  PROVE  /\ AsSigned(n, w) \in Int /\ AsSigned(n, w) \in -(2^(w - 1)) .. 2^(w - 1) - 1
         /\ SameModulo(AsSigned(n, w), n, 2^w)
         /\ n \in -(2^(w - 1)) .. 2^(w - 1) - 1 => AsSigned(n, w) = n
<1>1. w - 1 \in Nat /\ (w - 1) + 1 = w
  OBVIOUS
<1>2. PICK h \in Nat \ {0}, p \in Nat \ {0} : h = 2^(w - 1) /\ p = 2^w /\ p = 2 * h
  BY <1>1, PowerPositive, PowerDoubles
<1>3. (n + h) % p \in 0 .. p - 1 /\ SameModulo((n + h) % p, n + h, p)
  <2>1. n + h \in Int
    OBVIOUS
  <2> QED BY <2>1, DivMod, ModIsSame
<1>4. PICK s \in Int : s = ((n + h) % p) - h
  <2>1. ((n + h) % p) - h \in Int
    BY <1>3
  <2> QED BY <2>1
<1>5. s \in -h .. h - 1
  BY <1>2, <1>3, <1>4
<1>6. SameModulo(s, n, p)
  <2>1. PICK k \in Int : (n + h) % p = (n + h) + p * k
    BY <1>3 DEF SameModulo
  <2>2. s = n + p * k
    BY <1>4, <2>1
  <2> QED BY <2>2 DEF SameModulo
<1>7. n \in -h .. h - 1 => s = n
  <2>1. ASSUME n \in -h .. h - 1 PROVE (n + h) % p = n + h
    <3>1. n + h \in 0 .. p - 1
      BY <1>2, <2>1
    <3> QED BY <3>1
  <2> QED BY <1>4, <2>1
<1>8. AsSigned(n, w) = s
  BY <1>2, <1>4 DEF AsSigned
<1> QED BY <1>2, <1>5, <1>6, <1>7, <1>8

(* Numbers that are the same modulo a longer word's size are the same in   *)
(* a shorter word.                                                         *)
LEMMA SameInShorter ==
  ASSUME NEW m \in Int, NEW n \in Int, NEW w \in Nat, NEW l \in Nat, w <= l, SameModulo(m, n, 2^l)
  PROVE  SameModulo(m, n, 2^w)
<1>1. l - w \in Nat /\ w + (l - w) = l
  OBVIOUS
<1>2. 2^l = 2^w * 2^(l - w)
  BY <1>1, PowerSum
<1>3. PICK p \in Nat \ {0}, d \in Nat \ {0} : p = 2^w /\ d = 2^(l - w)
  BY <1>1, PowerPositive
<1>4. PICK k \in Int : m = n + (p * d) * k
  BY <1>2, <1>3 DEF SameModulo
<1>5. (p * d) * k = p * (d * k) /\ d * k \in Int
  OBVIOUS
<1>6. m = n + p * (d * k)
  BY <1>4, <1>5
<1> QED BY <1>3, <1>5, <1>6 DEF SameModulo

(* Two numbers that are the same modulo the size of a word read the same.  *)
LEMMA SameWords ==
  ASSUME NEW m \in Int, NEW n \in Int, NEW w \in Nat \ {0}, SameModulo(m, n, 2^w)
  PROVE  AsUnsigned(m, w) = AsUnsigned(n, w) /\ AsSigned(m, w) = AsSigned(n, w)
<1>1. w - 1 \in Nat
  OBVIOUS
<1>2. PICK h \in Nat \ {0}, p \in Nat \ {0} : h = 2^(w - 1) /\ p = 2^w
  BY <1>1, PowerPositive
<1>3. m % p = n % p
  BY <1>2, ModSame
<1>4. SameModulo(m + h, n + h, p) /\ m + h \in Int /\ n + h \in Int
  <2>1. PICK k \in Int : m = n + p * k
    BY <1>2 DEF SameModulo
  <2>2. m + h = (n + h) + p * k
    BY <2>1
  <2> QED BY <2>2 DEF SameModulo
<1>5. (m + h) % p = (n + h) % p
  BY <1>4, ModSame
<1> QED BY <1>2, <1>3, <1>5 DEF AsUnsigned, AsSigned

(* What a register of a t holds reads back, at any width up to its own, *)
(* as the number that was written.                                         *)
LEMMA WrittenWord ==
  ASSUME NEW t \in DOMAIN Width, NEW n \in Int
  PROVE  /\ fromInt128(t, n).num \in Int /\ fromInt128(t, n).type = t
         /\ SameModulo(fromInt128(t, n).num, n, 2^Width[t])
<1>1. PICK w \in Nat \ {0} : w = Width[t]
  BY WidthAssumption
<1>2. \/ fromInt128(t, n).num = AsUnsigned(n, w)
      \/ fromInt128(t, n).num = AsSigned(n, w)
  BY <1>1 DEF fromInt128
<1>3. AsUnsigned(n, w) \in Int /\ SameModulo(AsUnsigned(n, w), n, 2^w)
  BY UnsignedWord
<1>4. AsSigned(n, w) \in Int /\ SameModulo(AsSigned(n, w), n, 2^w)
  BY SignedWord
<1>5. fromInt128(t, n).type = t
  BY DEF fromInt128
<1> QED BY <1>1, <1>2, <1>3, <1>4, <1>5

LEMMA ReadBack ==
  ASSUME NEW t \in DOMAIN Width, NEW n \in Int, NEW w \in Nat \ {0}, w <= Width[t]
  PROVE  /\ AsUnsigned(fromInt128(t, n).num, w) = AsUnsigned(n, w)
         /\ AsSigned(fromInt128(t, n).num, w) = AsSigned(n, w)
<1>1. PICK val \in Int : val = fromInt128(t, n).num /\ SameModulo(val, n, 2^Width[t])
  BY WrittenWord
<1>2. Width[t] \in Nat
  BY WidthAssumption
<1>3. SameModulo(val, n, 2^w)
  BY <1>1, <1>2, SameInShorter
<1> QED BY <1>1, <1>3, SameWords
-----------------------------------------------------------------------------
(* Steps.                                                                  *)

JobInv ==
  /\ op \in Opcodes /\ type \in DOMAIN Width /\ job.type2 \in DOMAIN Width /\ job.carry \in BOOLEAN
  /\ job.operands \in Seq(Seq(Int)) /\ \A i \in DOMAIN job.operands : Len(job.operands[i]) >= 3

ResultsInv ==
  /\ results \in Seq(Range(results)) /\ Len(results) <= Len(job.operands)
  /\ carryFlag \in BOOLEAN

TypeInv == JobInv /\ ResultsInv

LEMMA InitType == Init => TypeInv
<1> SUFFICES ASSUME Init PROVE TypeInv
  OBVIOUS
<1>1. PICK o \in Opcodes, t \in DOMAIN Width :
        \E t2 \in Types2(o, t), cc \in Carries(o), n \in Operands(o, t) :
          job = [op |-> o, type |-> t, type2 |-> t2, carry |-> cc, operands |-> n]
  BY DEF Init
<1>2. PICK t2 \in Types2(o, t), cc \in Carries(o), n \in Operands(o, t) :
        job = [op |-> o, type |-> t, type2 |-> t2, carry |-> cc, operands |-> n]
  BY <1>1
<1>3. op = o /\ type = t /\ job.type2 = t2 /\ job.carry = cc /\ job.operands = n
  BY <1>2 DEF op, type
<1>4. t2 \in DOMAIN Width /\ cc \in BOOLEAN
  BY DEF Types2, Carries
<1>5. n \in Seq(Seq(Int)) /\ \A i \in DOMAIN n : Len(n[i]) >= 3
  BY OperandsAssumption
<1>6. JobInv
  BY <1>3, <1>4, <1>5 DEF JobInv
<1>7. results = <<>> /\ carryFlag = cc
  BY <1>3 DEF Init
<1>8. ResultsInv
  <2>1. results \in Seq(Range(results)) /\ Len(results) = 0
    BY <1>7
  <2>2. Len(job.operands) \in Nat
    BY <1>6 DEF JobInv
  <2> QED BY <1>4, <1>7, <2>1, <2>2 DEF ResultsInv
<1> QED BY <1>6, <1>8 DEF TypeInv

(* A step leaves the job alone and adds one result; addc and subb alone    *)
(* change the carry flag.                                                  *)
Adds ==
  /\ job' = job /\ (\E val : results' = Append(results, val))
  /\ Len(results) < Len(job.operands)

CarryStep == carryFlag' = carryFlag \/ (op \in {"addc", "subb"} /\ carryFlag' \in BOOLEAN)

LEMMA WriteAdds ==
  ASSUME NEW t, NEW n, Write(t, n)
  PROVE  job' = job /\ \E val : results' = Append(results, val)
BY DEF Write

LEMMA ThrowAdds ==
  ASSUME Throw
  PROVE  job' = job /\ (\E val : results' = Append(results, val)) /\ carryFlag' = carryFlag
BY DEF Throw

LEMMA CarriesAreFlags ==
  ASSUME NEW t, NEW ux, NEW uy, NEW cc
  PROVE  addc(t, ux, uy, cc).carry \in BOOLEAN /\ subb(t, ux, uy, cc).carry \in BOOLEAN
BY DEF addc, subb

LEMMA StepAdds == Next => Adds /\ CarryStep
<1> SUFFICES ASSUME Next PROVE Adds /\ CarryStep
  OBVIOUS
<1>1. CASE Basic
  BY <1>1, WriteAdds, ThrowAdds DEF Basic, Executing, Compute, Adds, CarryStep
<1>2. CASE BitUnary
  BY <1>2, WriteAdds, ThrowAdds DEF BitUnary, Executing, Compute, Adds, CarryStep
<1>3. CASE BitBinary
  BY <1>3, WriteAdds, ThrowAdds DEF BitBinary, Executing, Compute, Adds, CarryStep
<1>4. CASE IntUnary
  BY <1>4, WriteAdds, ThrowAdds DEF IntUnary, Executing, Compute, Adds, CarryStep
<1>5. CASE IntBinary
  BY <1>5, WriteAdds, ThrowAdds DEF IntBinary, Executing, Compute, Adds, CarryStep
<1>6. CASE Saturating
  BY <1>6, WriteAdds, ThrowAdds DEF Saturating, Executing, Compute, Adds, CarryStep
<1>7. CASE Widening
  BY <1>7, WriteAdds, ThrowAdds DEF Widening, Executing, Compute, Adds, CarryStep
<1>8. CASE Ternary
  BY <1>8, WriteAdds, ThrowAdds DEF Ternary, Executing, Compute, Adds, CarryStep
<1>9. CASE Field
  BY <1>9, WriteAdds, ThrowAdds DEF Field, Executing, Compute, Adds, CarryStep
<1>10. CASE Pointer
  BY <1>10, WriteAdds, ThrowAdds DEF Pointer, Executing, Compute, Adds, CarryStep
<1>11. CASE Overflowing
  BY <1>11, WriteAdds, ThrowAdds DEF Overflowing, Executing, Adds, CarryStep
<1>12. CASE Checked
  BY <1>12, WriteAdds, ThrowAdds DEF Checked, Executing, Compute, Adds, CarryStep
<1>13. CASE Divchk
  BY <1>13, WriteAdds, ThrowAdds DEF Divchk, Executing, Compute, Adds, CarryStep
<1>14. CASE Carrying
  <2>1. op \in {"addc", "subb"} /\ Len(results) < Len(job.operands)
    BY <1>14 DEF Carrying, Executing
  <2>2. PICK r : Write(type, r.num) /\ carryFlag' = r.carry /\ r.carry \in BOOLEAN
    BY <1>14, CarriesAreFlags DEF Carrying
  <2> QED BY <2>1, <2>2, WriteAdds DEF Adds, CarryStep
<1> QED BY <1>1, <1>2, <1>3, <1>4, <1>5, <1>6, <1>7, <1>8, <1>9, <1>10, <1>11, <1>12, <1>13, <1>14
        DEF Next

LEMMA NextType == TypeInv /\ [Next]_vars => TypeInv'
<1> SUFFICES ASSUME TypeInv, [Next]_vars PROVE TypeInv'
  OBVIOUS
<1>1. CASE Next
  <2>1. Adds /\ CarryStep
    BY <1>1, StepAdds
  <2>2. JobInv'
    BY <2>1 DEF Adds, TypeInv, JobInv, op, type
  <2>3. carryFlag' \in BOOLEAN
    BY <2>1 DEF CarryStep, TypeInv, ResultsInv
  <2>4. PICK val : results' = Append(results, val)
    BY <2>1 DEF Adds
  <2>5. PICK R : R = Range(results) \cup {val}
    OBVIOUS
  <2>6. results \in Seq(R) /\ val \in R
    BY <2>5 DEF TypeInv, ResultsInv
  <2>7. results' \in Seq(R) /\ Len(results') = Len(results) + 1
    BY <2>4, <2>6
  <2>8. results' \in Seq(Range(results'))
    BY <2>7 DEF Range
  <2>9. Len(results') <= Len(job'.operands)
    <3>1. Len(job.operands) \in Nat /\ Len(results) \in Nat
      BY <2>6 DEF TypeInv, JobInv
    <3> QED BY <2>1, <2>7, <3>1 DEF Adds
  <2> QED BY <2>2, <2>3, <2>8, <2>9 DEF TypeInv, ResultsInv
<1>2. CASE UNCHANGED vars
  BY <1>2 DEF vars, TypeInv, JobInv, ResultsInv, op, type
<1> QED BY <1>1, <1>2
-----------------------------------------------------------------------------
(* Longer numbers: what limbs of w bits, lowest first, are worth.          *)

IsValue(low, n, limb, w) ==
  low = [k \in 0 .. n |-> IF k = 0 THEN 0 ELSE low[k - 1] + limb[k] * 2^(w * (k - 1))]

Value(limb, w) == (CHOOSE low : IsValue(low, Len(limb), limb, w))[Len(limb)]

LEMMA ValueSteps ==
  ASSUME NEW n \in Nat, NEW limb, NEW w, NEW low, IsValue(low, n, limb, w)
  PROVE  low[0] = 0 /\ \A k \in 1 .. n : low[k] = low[k - 1] + limb[k] * 2^(w * (k - 1))
<1>1. \A k \in 0 .. n : low[k] = IF k = 0 THEN 0 ELSE low[k - 1] + limb[k] * 2^(w * (k - 1))
  BY DEF IsValue
<1>2. 0 \in 0 .. n /\ \A k \in 1 .. n : k \in 0 .. n /\ k # 0
  OBVIOUS
<1> QED BY <1>1, <1>2

LEMMA ValueExists ==
  ASSUME NEW n \in Nat, NEW limb, NEW w
  PROVE  \E low : IsValue(low, n, limb, w)
<1> DEFINE Has == {m \in Nat : \E low : IsValue(low, m, limb, w)}
<1>1. 0 \in Has
  <2> DEFINE zero == [k \in 0 .. 0 |-> 0]
  <2>1. zero = [k \in 0 .. 0 |-> IF k = 0 THEN 0 ELSE zero[k - 1] + limb[k] * 2^(w * (k - 1))]
    OBVIOUS
  <2>2. IsValue(zero, 0, limb, w)
    BY <2>1 DEF IsValue
  <2> QED BY <2>2
<1>2. ASSUME NEW m \in Nat, m \in Has PROVE m + 1 \in Has
  <2>1. PICK low : IsValue(low, m, limb, w)
    BY <1>2
  <2> DEFINE more == [k \in 0 .. m + 1 |->
                       IF k = 0 THEN 0 ELSE low[k - 1] + limb[k] * 2^(w * (k - 1))]
  <2>2. ASSUME NEW k \in 0 .. m PROVE more[k] = low[k]
    BY <2>1, ValueSteps
  <2>3. \A k \in 1 .. m + 1 : k - 1 \in 0 .. m
    OBVIOUS
  <2>4. more = [k \in 0 .. m + 1 |-> IF k = 0 THEN 0 ELSE more[k - 1] + limb[k] * 2^(w * (k - 1))]
    <3>1. \A k \in 0 .. m + 1 : k # 0 => k \in 1 .. m + 1
      OBVIOUS
    <3>2. \A k \in 1 .. m + 1 : more[k - 1] = low[k - 1]
      BY <2>2, <2>3
    <3> QED BY <3>1, <3>2
  <2>5. IsValue(more, m + 1, limb, w)
    BY <2>4 DEF IsValue
  <2> QED BY <2>5
<1> HIDE DEF Has
<1>3. n \in Has
  BY <1>1, <1>2, SetInduction
<1> QED BY <1>3 DEF Has

(* The first limbs alone say what they are worth.                          *)
LEMMA ValuesAgree ==
  ASSUME NEW m \in Nat, NEW n \in Nat, NEW k \in Nat, k <= m, k <= n, NEW w,
         NEW limb, NEW low, IsValue(low, m, limb, w),
         NEW other, NEW rest, IsValue(rest, n, other, w), \A i \in 1 .. k : limb[i] = other[i]
  PROVE  low[k] = rest[k]
<1> DEFINE Same == {i \in 0 .. k : low[i] = rest[i]}
<1>1. 0 \in Same
  BY ValueSteps
<1>2. ASSUME NEW i \in 0 .. k - 1, i \in Same PROVE i + 1 \in Same
  <2>1. i + 1 \in 1 .. m /\ i + 1 \in 1 .. n /\ i + 1 \in 1 .. k /\ (i + 1) - 1 = i
    OBVIOUS
  <2>2. low[i + 1] = low[i] + limb[i + 1] * 2^(w * i)
    BY <2>1, ValueSteps
  <2>3. rest[i + 1] = rest[i] + other[i + 1] * 2^(w * i)
    BY <2>1, ValueSteps
  <2> QED BY <1>2, <2>1, <2>2, <2>3
<1> HIDE DEF Same
<1>3. k \in Same
  <2>1. 0 .. k \subseteq Same
    BY <1>1, <1>2, IntervalInduction
  <2> QED BY <2>1
<1> QED BY <1>3 DEF Same

LEMMA ValueOfNone ==
  ASSUME NEW limb, Len(limb) = 0, NEW w
  PROVE  Value(limb, w) = 0
<1>1. PICK low : low = (CHOOSE f : IsValue(f, Len(limb), limb, w))
  OBVIOUS
<1>2. IsValue(low, Len(limb), limb, w)
  BY <1>1, ValueExists
<1>3. low[0] = 0
  BY <1>2, ValueSteps
<1> QED BY <1>1, <1>3 DEF Value

(* One more limb counts as many times as its place says.                   *)
LEMMA ValueOfMore ==
  ASSUME NEW n \in Nat, NEW limb, Len(limb) = n, NEW more, Len(more) = n + 1, NEW w,
         \A i \in 1 .. n : more[i] = limb[i]
  PROVE  Value(more, w) = Value(limb, w) + more[n + 1] * 2^(w * n)
<1>1. PICK low, high : /\ low = (CHOOSE f : IsValue(f, Len(limb), limb, w))
                       /\ high = (CHOOSE f : IsValue(f, Len(more), more, w))
  OBVIOUS
<1>2. IsValue(low, n, limb, w)
  BY <1>1, ValueExists
<1>3. n + 1 \in Nat /\ n + 1 \in 1 .. n + 1 /\ (n + 1) - 1 = n /\ n <= n /\ n <= n + 1
  OBVIOUS
<1>4. IsValue(high, n + 1, more, w)
  BY <1>1, <1>3, ValueExists
<1>5. high[n] = low[n]
  BY <1>2, <1>3, <1>4, ValuesAgree
<1>6. high[n + 1] = high[n] + more[n + 1] * 2^(w * n)
  BY <1>3, <1>4, ValueSteps
<1> QED BY <1>1, <1>5, <1>6 DEF Value

(* It is a number if its limbs are.                                        *)
LEMMA ValueIsNumber ==
  ASSUME NEW n \in Nat, NEW limb, Len(limb) = n, NEW w \in Nat, \A i \in 1 .. n : limb[i] \in Int
  PROVE  Value(limb, w) \in Int
<1>1. PICK low : low = (CHOOSE f : IsValue(f, Len(limb), limb, w))
  OBVIOUS
<1>2. IsValue(low, n, limb, w)
  BY <1>1, ValueExists
<1>3. low[0] = 0 /\ \A k \in 1 .. n : low[k] = low[k - 1] + limb[k] * 2^(w * (k - 1))
  BY ONLY <1>2, n \in Nat, ValueSteps
<1> DEFINE Known == {k \in 0 .. n : low[k] \in Int}
<1>4. 0 \in Known
  BY <1>3
<1>5. ASSUME NEW k \in 0 .. n - 1, k \in Known PROVE k + 1 \in Known
  <2>1. k + 1 \in 1 .. n /\ (k + 1) - 1 = k /\ k \in Nat
    OBVIOUS
  <2>2. low[k + 1] = low[k] + limb[k + 1] * 2^(w * k)
    BY <2>1, <1>3
  <2>3. w * k \in Nat
    BY <2>1
  <2>4. 2^(w * k) \in Nat
    BY <2>3, PowerType
  <2>5. PICK e \in Int, l \in Int : e = 2^(w * k) /\ l = limb[k + 1]
    BY <2>1, <2>4
  <2>6. l * e \in Int
    OBVIOUS
  <2> QED BY <1>5, <2>1, <2>2, <2>5, <2>6
<1> HIDE DEF Known
<1>6. n \in Known
  <2>1. \A k \in 0 .. n - 1 : k \in Known => k + 1 \in Known
    BY <1>5
  <2>2. 0 \in Int /\ n \in Int
    OBVIOUS
  <2>3. 0 .. n \subseteq Known
    BY ONLY <1>4, <2>1, <2>2, IntervalInduction
  <2> QED BY <2>3
<1> QED BY <1>1, <1>6 DEF Known, Value
-----------------------------------------------------------------------------
(* addc and subb of one limb.                                              *)

(* The size of a type's numbers, of half of them and of those of Int128.   *)
LEMMA Sizes ==
  ASSUME NEW t \in DOMAIN Width
  PROVE  \E h \in Nat \ {0}, s \in Nat \ {0}, big \in Nat \ {0} :
           /\ h = 2^(Width[t] - 1) /\ s = 2^Width[t] /\ s = 2 * h /\ big = 2^Wide
           /\ Width[t] < Wide => 2 * s <= big
<1>1. PICK w \in Nat \ {0} : w = Width[t]
  BY WidthAssumption
<1>2. Wide \in Nat \ {0}
  BY WordsAssumption
<1>3. w - 1 \in Nat /\ (w - 1) + 1 = w /\ w + 1 \in Nat
  OBVIOUS
<1>4. PICK h \in Nat \ {0}, s \in Nat \ {0}, big \in Nat \ {0} :
        h = 2^(w - 1) /\ s = 2^w /\ big = 2^Wide
  BY <1>2, <1>3, PowerPositive
<1>5. s = 2 * h
  BY <1>3, <1>4, PowerDoubles
<1>6. ASSUME w < Wide PROVE 2 * s <= big
  <2>1. w + 1 <= Wide
    BY <1>2, <1>6
  <2>2. 2^(w + 1) <= 2^Wide
    BY <1>2, <1>3, <2>1, PowersGrow
  <2> QED BY <1>4, <2>2, PowerDoubles
<1> QED BY <1>1, <1>4, <1>5, <1>6

(* A number that misses a word by one of its sizes.                        *)
LEMMA WrappedOnce ==
  ASSUME NEW w \in Nat \ {0}, NEW s, s = 2^w, NEW n \in Int
  PROVE  /\ n \in s .. 2 * s - 1 => AsUnsigned(n, w) = n - s
         /\ n \in -s .. -1 => AsUnsigned(n, w) = n + s
<1>1. s \in Nat \ {0}
  BY PowerPositive
<1>2. ASSUME NEW m \in 0 .. s - 1, NEW k \in Int, n = m + s * k
      PROVE  AsUnsigned(n, w) = m
  <2>1. m \in Int /\ AsUnsigned(m, w) = m
    BY UnsignedWord
  <2>2. SameModulo(n, m, 2^w)
    BY <1>2 DEF SameModulo
  <2> QED BY <2>1, <2>2, SameWords
<1>3. n \in s .. 2 * s - 1 => AsUnsigned(n, w) = n - s
  <2> SUFFICES ASSUME n \in s .. 2 * s - 1 PROVE AsUnsigned(n, w) = n - s
    OBVIOUS
  <2>1. n - s \in 0 .. s - 1 /\ n = (n - s) + s * 1 /\ 1 \in Int
    BY <1>1
  <2> QED BY <1>2, <2>1
<1>4. n \in -s .. -1 => AsUnsigned(n, w) = n + s
  <2> SUFFICES ASSUME n \in -s .. -1 PROVE AsUnsigned(n, w) = n + s
    OBVIOUS
  <2>1. n + s \in 0 .. s - 1 /\ n = (n + s) + s * (-1) /\ -1 \in Int
    BY <1>1
  <2> QED BY <1>2, <2>1
<1> QED BY <1>3, <1>4

LEMMA UnsignedOfWritten ==
  ASSUME NEW t \in DOMAIN Width, NEW n \in Int
  PROVE  /\ fromInt128(t, n).num \in Int
         /\ unsignedOf(fromInt128(t, n).num, t) = AsUnsigned(n, Width[t])
<1>1. Width[t] \in Nat \ {0} /\ Width[t] <= Width[t]
  BY WidthAssumption
<1> QED BY <1>1, WrittenWord, ReadBack DEF unsignedOf, bitWidth

Flag(f) == IF f THEN 1 ELSE 0

(* The limb that is written and the carry together are the sum ...         *)
LEMMA AddcLimb ==
  ASSUME NEW t \in DOMAIN Width, Width[t] < Wide,
         NEW ux \in 0 .. 2^Width[t] - 1, NEW uy \in 0 .. 2^Width[t] - 1, NEW i \in {0, 1}
  PROVE  AsUnsigned(addc(t, ux, uy, i).num, Width[t]) + 2^Width[t] * Flag(addc(t, ux, uy, i).carry)
           = ux + uy + i
<1>1. PICK w \in Nat \ {0}, s \in Nat \ {0}, big \in Nat \ {0} :
        w = Width[t] /\ s = 2^w /\ big = 2^Wide /\ 2 * s <= big
  BY Sizes, WidthAssumption
<1>2. PICK n \in Nat : n = ux + uy + i /\ n <= 2 * s - 1 /\ n >= ux
  BY <1>1
<1>3. UInt128(n) = n
  <2>1. n \in 0 .. big - 1 /\ Wide \in Nat
    BY <1>1, <1>2, WordsAssumption
  <2> QED BY <1>1, <2>1, UnsignedWord DEF UInt128
<1>4. /\ addc(t, ux, uy, i).num = n
      /\ addc(t, ux, uy, i).carry <=> n > s - 1 \/ n < ux
  BY <1>1, <1>2, <1>3 DEF addc, unsignedMaxOfWidth, bitWidth
<1>5. CASE n > s - 1
  <2>1. AsUnsigned(n, w) = n - s
    BY <1>1, <1>2, <1>5, WrappedOnce
  <2>2. Flag(addc(t, ux, uy, i).carry) = 1
    BY <1>4, <1>5 DEF Flag
  <2> QED BY <1>1, <1>2, <1>4, <2>1, <2>2
<1>6. CASE n <= s - 1
  <2>1. AsUnsigned(n, w) = n
    BY <1>1, <1>2, <1>6, UnsignedWord
  <2>2. Flag(addc(t, ux, uy, i).carry) = 0
    <3>1. ~ (n > s - 1) /\ ~ (n < ux)
      BY <1>1, <1>2, <1>6
    <3> QED BY <1>4, <3>1 DEF Flag
  <2> QED BY <1>1, <1>2, <1>4, <2>1, <2>2
<1> QED BY <1>1, <1>5, <1>6

(* ... or, without the borrow, the difference.                             *)
LEMMA SubbLimb ==
  ASSUME NEW t \in DOMAIN Width, Width[t] < Wide,
         NEW ux \in 0 .. 2^Width[t] - 1, NEW uy \in 0 .. 2^Width[t] - 1, NEW i \in {0, 1}
  PROVE  AsUnsigned(subb(t, ux, uy, i).num, Width[t]) - 2^Width[t] * Flag(subb(t, ux, uy, i).carry)
           = ux - uy - i
<1>1. PICK w \in Nat \ {0}, s \in Nat \ {0}, big \in Nat \ {0} :
        w = Width[t] /\ s = 2^w /\ big = 2^Wide /\ 2 * s <= big
  BY Sizes, WidthAssumption
<1>2. PICK n \in Int : n = ux - uy - i /\ n >= -s /\ n <= s - 1
  BY <1>1
<1>3. PICK m \in Nat : m = uy + i /\ m <= s /\ (ux < m <=> n < 0)
  BY <1>1, <1>2
<1>4. UInt128(m) = m
  <2>1. m \in 0 .. big - 1 /\ Wide \in Nat
    BY <1>1, <1>3, WordsAssumption
  <2> QED BY <1>1, <2>1, UnsignedWord DEF UInt128
<1>5. subb(t, ux, uy, i).num = n /\ (subb(t, ux, uy, i).carry <=> n < 0)
  BY <1>2, <1>3, <1>4 DEF subb
<1>6. CASE n < 0
  <2>1. AsUnsigned(n, w) = n + s
    BY <1>1, <1>2, <1>6, WrappedOnce
  <2>2. Flag(subb(t, ux, uy, i).carry) = 1
    BY <1>5, <1>6 DEF Flag
  <2> QED BY <1>1, <1>2, <1>5, <2>1, <2>2
<1>7. CASE n >= 0
  <2>1. AsUnsigned(n, w) = n
    BY <1>1, <1>2, <1>7, UnsignedWord
  <2>2. Flag(subb(t, ux, uy, i).carry) = 0
    <3>1. ~ (n < 0)
      BY <1>7
    <3> QED BY <1>5, <3>1 DEF Flag
  <2> QED BY <1>1, <1>2, <1>5, <2>1, <2>2
<1> QED BY <1>6, <1>7
-----------------------------------------------------------------------------
(* Chains.                                                                 *)

LEMMA ValueOfIsValue ==
  ASSUME NEW limb
  PROVE  ValueOf(limb) = Value(limb, bits)
BY DEF ValueOf, Value, IsValue

(* One more limb, of the place p: s * p is the place after it.             *)
LEMMA ChainSum ==
  ASSUME NEW R \in Int, NEW X \in Int, NEW Y \in Int, NEW i \in Int, NEW p \in Int, NEW s \in Int,
         NEW r \in Int, NEW ux \in Int, NEW uy \in Int, NEW f \in Int, NEW g \in Int,
         R + f * p = X + Y + i, r + s * g = ux + uy + f
  PROVE  (R + r * p) + g * (s * p) = (X + ux * p) + (Y + uy * p) + i
<1>1. (r + s * g) * p = r * p + g * (s * p)
  OBVIOUS
<1>2. (ux + uy + f) * p = ux * p + uy * p + f * p
  OBVIOUS
<1>3. r * p + g * (s * p) = ux * p + uy * p + f * p
  BY <1>1, <1>2
<1>4. PICK rp \in Int, gp \in Int, up \in Int, vp \in Int, fp \in Int :
        rp = r * p /\ gp = g * (s * p) /\ up = ux * p /\ vp = uy * p /\ fp = f * p
  OBVIOUS
<1>5. R + fp = X + Y + i /\ rp + gp = up + vp + fp
  BY <1>3, <1>4
<1>6. (R + rp) + gp = (X + up) + (Y + vp) + i
  BY <1>5
<1> QED BY <1>4, <1>6

LEMMA ChainDifference ==
  ASSUME NEW R \in Int, NEW X \in Int, NEW Y \in Int, NEW i \in Int, NEW p \in Int, NEW s \in Int,
         NEW r \in Int, NEW ux \in Int, NEW uy \in Int, NEW f \in Int, NEW g \in Int,
         R - f * p = X - Y - i, r - s * g = ux - uy - f
  PROVE  (R + r * p) - g * (s * p) = (X + ux * p) - (Y + uy * p) - i
<1>1. (r - s * g) * p = r * p - g * (s * p)
  OBVIOUS
<1>2. (ux - uy - f) * p = ux * p - uy * p - f * p
  OBVIOUS
<1>3. r * p - g * (s * p) = ux * p - uy * p - f * p
  BY <1>1, <1>2
<1>4. PICK rp \in Int, gp \in Int, up \in Int, vp \in Int, fp \in Int :
        rp = r * p /\ gp = g * (s * p) /\ up = ux * p /\ vp = uy * p /\ fp = f * p
  OBVIOUS
<1>5. R - fp = X - Y - i /\ rp - gp = up - vp - fp
  BY <1>3, <1>4
<1>6. (R + rp) - gp = (X + up) - (Y + vp) - i
  BY <1>5
<1> QED BY <1>4, <1>6

(* What the limbs of a chain need besides: the results are numbers.        *)
ChainInv == op \in {"addc", "subb"} => \A i \in 1 .. Len(results) : results[i].num \in Int

LEMMA OperandNumbers ==
  ASSUME JobInv, NEW i \in 1 .. Len(job.operands), NEW k \in 1 .. 3
  PROVE  job.operands[i][k] \in Int
<1>1. job.operands[i] \in Seq(Int) /\ Len(job.operands[i]) >= 3
  BY DEF JobInv
<1>2. PICK l \in Nat, s \in Seq(Int) : s = job.operands[i] /\ l = Len(s) /\ l >= 3
  BY <1>1
<1>3. k \in 1 .. l
  BY <1>2
<1> QED BY <1>2, <1>3

(* What Carrying does, with a name for each of its parts.                  *)
ChainStep(n, ux, uy, i, r, val) ==
  /\ n = Len(results) /\ n < Len(job.operands)
  /\ ux = unsignedOf(job.operands[n + 1][1], type) /\ uy = unsignedOf(job.operands[n + 1][2], type)
  /\ i = Flag(carryFlag)
  /\ \/ op = "addc" /\ r = addc(type, ux, uy, i)
     \/ op = "subb" /\ r = subb(type, ux, uy, i)
  /\ val.num = fromInt128(type, r.num).num
  /\ job' = job /\ results' = Append(results, val) /\ carryFlag' = r.carry

LEMMA CarryingSteps ==
  ASSUME Carrying
  PROVE  \E n, ux, uy, i, r, val : ChainStep(n, ux, uy, i, r, val)
<1>1. /\ op \in {"addc", "subb"} /\ Len(results) < Len(job.operands)
  BY DEF Carrying, Executing
<1>2. PICK n, ux, uy, i, r :
        /\ n = Len(results)
        /\ ux = unsignedOf(job.operands[n + 1][1], type) /\ uy = unsignedOf(job.operands[n + 1][2], type)
        /\ i = Flag(carryFlag)
        /\ r = IF op = "addc" THEN addc(type, ux, uy, i) ELSE subb(type, ux, uy, i)
  OBVIOUS
<1>3. Write(type, r.num) /\ carryFlag' = r.carry
  BY <1>2 DEF Carrying, Flag, x, y, operand
<1>4. PICK val : val = [type |-> fromInt128(type, r.num).type, num |-> fromInt128(type, r.num).num,
                    threw |-> FALSE]
  OBVIOUS
<1>5. val.num = fromInt128(type, r.num).num /\ job' = job /\ results' = Append(results, val)
  BY <1>3, <1>4 DEF Write
<1>6. ChainStep(n, ux, uy, i, r, val)
  BY <1>1, <1>2, <1>3, <1>5 DEF ChainStep
<1> QED BY <1>6

LEMMA ChainNumbers ==
  ASSUME TypeInv, NEW n, NEW ux, NEW uy, NEW i, NEW r, NEW val, ChainStep(n, ux, uy, i, r, val)
  PROVE  /\ n \in Nat /\ ux \in 0 .. 2^bits - 1 /\ uy \in 0 .. 2^bits - 1 /\ i \in {0, 1}
         /\ r.num \in Int /\ val.num \in Int
         /\ unsignedOf(val.num, type) = AsUnsigned(r.num, bits)
         /\ Len(results') = n + 1 /\ results'[n + 1] = val
         /\ \A k \in 1 .. n : results'[k] = results[k]
<1>1. results \in Seq(Range(results)) /\ n = Len(results) /\ results' = Append(results, val)
  BY DEF TypeInv, ResultsInv, ChainStep
<1>2. PICK R : R = Range(results) \cup {val}
  OBVIOUS
<1>3. results \in Seq(R) /\ val \in R /\ n \in Nat
  BY <1>1, <1>2
<1>4. /\ Len(results') = n + 1 /\ results'[n + 1] = val
      /\ \A k \in 1 .. n : results'[k] = results[k]
  BY <1>1, <1>3
<1>5. type \in DOMAIN Width /\ bits = Width[type]
  BY DEF TypeInv, JobInv, bits, bitWidth
<1>6. PICK w \in Nat \ {0} : w = bits
  BY <1>5, WidthAssumption
<1>7. n + 1 \in 1 .. Len(job.operands)
  <2>1. Len(job.operands) \in Nat /\ n < Len(job.operands)
    BY DEF TypeInv, JobInv, ChainStep
  <2> QED BY <1>3, <2>1
<1>8. job.operands[n + 1][1] \in Int /\ job.operands[n + 1][2] \in Int
  BY <1>7, OperandNumbers DEF TypeInv
<1>9. /\ ux \in 0 .. 2^w - 1 /\ uy \in 0 .. 2^w - 1 /\ ux \in Nat /\ uy \in Nat
  BY <1>5, <1>6, <1>8, UnsignedWord DEF ChainStep, unsignedOf, bitWidth
<1>10. i \in {0, 1}
  BY DEF ChainStep, Flag
<1>11. r.num \in Int
  <2>1. CASE r = addc(type, ux, uy, i)
    <3>1. r.num = UInt128(ux + uy + i) /\ ux + uy + i \in Int /\ Wide \in Nat
      BY <1>9, <1>10, <2>1, WordsAssumption DEF addc
    <3> QED BY <3>1, UnsignedWord DEF UInt128
  <2>2. CASE r = subb(type, ux, uy, i)
    BY <1>9, <1>10, <2>2 DEF subb
  <2> QED BY <2>1, <2>2 DEF ChainStep
<1>12. val.num \in Int /\ unsignedOf(val.num, type) = AsUnsigned(r.num, bits)
  BY <1>5, <1>11, UnsignedOfWritten DEF ChainStep
<1> QED BY <1>3, <1>4, <1>6, <1>9, <1>10, <1>11, <1>12

LEMMA LimbsGrow ==
  ASSUME TypeInv, ChainInv, op \in {"addc", "subb"},
         NEW n, NEW ux, NEW uy, NEW i, NEW r, NEW val, ChainStep(n, ux, uy, i, r, val)
  PROVE  /\ ValueOf(OperandLimbs(1)) \in Int /\ ValueOf(OperandLimbs(2)) \in Int
         /\ ValueOf(ResultLimbs) \in Int
         /\ ValueOf(OperandLimbs(1))' = ValueOf(OperandLimbs(1)) + ux * 2^(bits * n)
         /\ ValueOf(OperandLimbs(2))' = ValueOf(OperandLimbs(2)) + uy * 2^(bits * n)
         /\ ValueOf(ResultLimbs)' = ValueOf(ResultLimbs) + AsUnsigned(r.num, bits) * 2^(bits * n)
<1>1. /\ n \in Nat /\ n = Len(results) /\ n < Len(job.operands)
      /\ r.num \in Int /\ val.num \in Int /\ unsignedOf(val.num, type) = AsUnsigned(r.num, bits)
      /\ Len(results') = n + 1 /\ results'[n + 1] = val /\ \A k \in 1 .. n : results'[k] = results[k]
  BY ChainNumbers DEF ChainStep
<1>2. job' = job /\ bits' = bits /\ type' = type
  BY DEF ChainStep, bits, type
<1>3. type \in DOMAIN Width /\ bits = Width[type]
  BY DEF TypeInv, JobInv, bits, bitWidth
<1>4. PICK w \in Nat \ {0} : w = bits
  BY <1>3, WidthAssumption
<1>5. ASSUME NEW m \in Int PROVE unsignedOf(m, type) \in Int
  BY <1>3, <1>4, UnsignedWord DEF unsignedOf, bitWidth
<1>6. ASSUME NEW k \in 1 .. 3
      PROVE  /\ ValueOf(OperandLimbs(k)) \in Int
             /\ ValueOf(OperandLimbs(k))' = ValueOf(OperandLimbs(k))
                                              + unsignedOf(job.operands[n + 1][k], type) * 2^(w * n)
  <2>1. PICK less, more : less = OperandLimbs(k) /\ more = OperandLimbs(k)'
    OBVIOUS
  <2>2. /\ Len(less) = n /\ Len(more) = n + 1 /\ \A j \in 1 .. n : more[j] = less[j]
        /\ more[n + 1] = unsignedOf(job.operands[n + 1][k], type)
    BY <1>1, <1>2, <2>1 DEF OperandLimbs
  <2>3. ASSUME NEW j \in 1 .. n PROVE less[j] \in Int
    <3>1. j \in 1 .. Len(job.operands)
      <4>1. Len(job.operands) \in Nat
        BY DEF TypeInv, JobInv
      <4> QED BY <1>1, <4>1
    <3>2. job.operands[j][k] \in Int
      BY <3>1, OperandNumbers DEF TypeInv
    <3> QED BY <1>1, <1>5, <2>1, <3>2 DEF OperandLimbs
  <2>4. Value(less, w) \in Int
    BY <1>1, <2>2, <2>3, ValueIsNumber
  <2>5. Value(more, w) = Value(less, w) + more[n + 1] * 2^(w * n)
    <3>1. n \in Nat /\ Len(less) = n /\ Len(more) = n + 1
      BY <1>1, <2>2
    <3>2. \A j \in 1 .. n : more[j] = less[j]
      BY <2>2
    <3> QED BY ONLY <3>1, <3>2, ValueOfMore
  <2>6. ValueOf(OperandLimbs(k)) = Value(less, w)
    BY <1>4, <2>1, ValueOfIsValue
  <2>7. ValueOf(OperandLimbs(k))' = Value(more, w)
    BY <1>2, <1>4, <2>1 DEF ValueOf, Value, IsValue
  <2> QED BY <2>2, <2>4, <2>5, <2>6, <2>7
<1>7. /\ ValueOf(ResultLimbs) \in Int
      /\ ValueOf(ResultLimbs)' = ValueOf(ResultLimbs) + AsUnsigned(r.num, w) * 2^(w * n)
  <2>1. PICK less, more : less = ResultLimbs /\ more = ResultLimbs'
    OBVIOUS
  <2>2. /\ Len(less) = n /\ Len(more) = n + 1 /\ \A j \in 1 .. n : more[j] = less[j]
        /\ more[n + 1] = AsUnsigned(r.num, w)
    BY <1>1, <1>2, <1>4, <2>1 DEF ResultLimbs
  <2>3. ASSUME NEW j \in 1 .. n PROVE less[j] \in Int
    <3>1. results[j].num \in Int
      BY <1>1 DEF ChainInv
    <3> QED BY <1>1, <1>5, <2>1, <3>1 DEF ResultLimbs
  <2>4. Value(less, w) \in Int
    BY <1>1, <2>2, <2>3, ValueIsNumber
  <2>5. Value(more, w) = Value(less, w) + more[n + 1] * 2^(w * n)
    <3>1. n \in Nat /\ Len(less) = n /\ Len(more) = n + 1
      BY <1>1, <2>2
    <3>2. \A j \in 1 .. n : more[j] = less[j]
      BY <2>2
    <3> QED BY ONLY <3>1, <3>2, ValueOfMore
  <2>6. ValueOf(ResultLimbs) = Value(less, w)
    BY <1>4, <2>1, ValueOfIsValue
  <2>7. ValueOf(ResultLimbs)' = Value(more, w)
    BY <1>2, <1>4, <2>1 DEF ValueOf, Value, IsValue
  <2> QED BY <2>2, <2>4, <2>5, <2>6, <2>7
<1> QED BY <1>4, <1>6, <1>7 DEF ChainStep

LEMMA ChainHolds ==
  ASSUME TypeInv, ChainInv, CarryChains, op \in {"addc", "subb"}, bits < Wide,
         NEW n, NEW ux, NEW uy, NEW i, NEW r, NEW val, ChainStep(n, ux, uy, i, r, val)
  PROVE  CarryChains'
<1>1. /\ n \in Nat /\ n = Len(results) /\ Len(results') = n + 1
      /\ ux \in 0 .. 2^bits - 1 /\ uy \in 0 .. 2^bits - 1 /\ i \in {0, 1} /\ i = Flag(carryFlag)
      /\ r.num \in Int
  BY ChainNumbers DEF ChainStep
<1>2. job' = job /\ bits' = bits /\ type' = type /\ op' = op /\ carryFlag' = r.carry
  BY DEF ChainStep, bits, type, op
<1>3. type \in DOMAIN Width /\ bits = Width[type]
  BY DEF TypeInv, JobInv, bits, bitWidth
<1>4. PICK w \in Nat \ {0} : w = bits
  BY <1>3, WidthAssumption
<1>5. PICK s \in Nat \ {0}, p \in Nat \ {0} : s = 2^w /\ p = 2^(w * n)
  <2>1. w * n \in Nat
    BY <1>1
  <2> QED BY <2>1, PowerPositive
<1>6. 2^(w * (n + 1)) = s * p
  <2>1. w * n \in Nat /\ w * (n + 1) = w + w * n
    BY <1>1
  <2> QED BY <1>5, <2>1, PowerSum
<1>7. PICK X, Y, R, X2, Y2, R2, l, g, cin :
        /\ X = ValueOf(OperandLimbs(1)) /\ X2 = ValueOf(OperandLimbs(1))'
        /\ Y = ValueOf(OperandLimbs(2)) /\ Y2 = ValueOf(OperandLimbs(2))'
        /\ R = ValueOf(ResultLimbs) /\ R2 = ValueOf(ResultLimbs)'
        /\ l = AsUnsigned(r.num, w) /\ g = Flag(r.carry) /\ cin = Flag(job.carry)
  OBVIOUS
<1>8. X2 = X + ux * p /\ Y2 = Y + uy * p /\ R2 = R + l * p
  BY <1>4, <1>5, <1>7, LimbsGrow
<1>9. X \in Int /\ Y \in Int /\ R \in Int /\ l \in Int /\ g \in Int /\ cin \in Int
  <2>1. AsUnsigned(r.num, w) \in Int
    <3>1. r.num \in Int
      BY <1>1
    <3>2. AsUnsigned(r.num, w) \in Nat
      BY ONLY w \in Nat, <3>1, UnsignedWord
    <3> QED BY <3>2
  <2>2. X \in Int /\ Y \in Int /\ R \in Int
    BY <1>7, LimbsGrow
  <2>3. g \in Int /\ cin \in Int
    BY <1>7 DEF Flag
  <2> QED BY <1>7, <2>1, <2>2, <2>3
<1>10. ux \in 0 .. s - 1 /\ uy \in 0 .. s - 1 /\ ux \in Int /\ uy \in Int /\ i \in Int
  BY <1>1, <1>4, <1>5
<1>11. (IF carryFlag THEN 2^(bits * Len(results)) ELSE 0) = i * p
  BY <1>1, <1>4, <1>5 DEF Flag
<1>12. (IF carryFlag THEN 2^(bits * Len(results)) ELSE 0)' = g * (s * p)
  <2>1. (2^(bits * Len(results)))' = s * p
    BY <1>1, <1>2, <1>4, <1>6
  <2>2. CASE r.carry
    BY <1>2, <1>5, <1>7, <2>1, <2>2 DEF Flag
  <2>3. CASE ~ r.carry
    BY <1>2, <1>5, <1>7, <2>1, <2>3 DEF Flag
  <2> QED BY <2>2, <2>3
<1>13. cin = IF job.carry THEN 1 ELSE 0
  BY <1>7 DEF Flag
<1>14. CASE op = "addc"
  <2>1. R + i * p = X + Y + cin
    BY <1>7, <1>11, <1>13, <1>14 DEF CarryChains
  <2>2. r = addc(type, ux, uy, i)
    BY <1>14 DEF ChainStep
  <2>3. l + s * g = ux + uy + i
    <3>1. type \in DOMAIN Width /\ Width[type] < Wide /\ s = 2^Width[type]
      BY <1>3, <1>4, <1>5
    <3>2. /\ ux \in 0 .. 2^Width[type] - 1 /\ uy \in 0 .. 2^Width[type] - 1 /\ i \in {0, 1}
          /\ type \in DOMAIN Width /\ Width[type] < Wide
      BY <1>1, <1>3, <3>1
    <3>3. AsUnsigned(addc(type, ux, uy, i).num, Width[type])
            + 2^Width[type] * Flag(addc(type, ux, uy, i).carry) = ux + uy + i
      BY ONLY <3>2, AddcLimb
    <3> QED BY <1>3, <1>4, <1>7, <2>2, <3>1, <3>3
  <2>4. R2 + g * (s * p) = X2 + Y2 + cin
    BY <1>8, <1>9, <1>10, <2>1, <2>3, ChainSum
  <2> QED BY <1>2, <1>7, <1>12, <1>13, <1>14, <2>4 DEF CarryChains
<1>15. CASE op = "subb"
  <2>1. R - i * p = X - Y - cin
    BY <1>7, <1>11, <1>13, <1>15 DEF CarryChains
  <2>2. r = subb(type, ux, uy, i)
    BY <1>15 DEF ChainStep
  <2>3. l - s * g = ux - uy - i
    <3>1. type \in DOMAIN Width /\ Width[type] < Wide /\ s = 2^Width[type]
      BY <1>3, <1>4, <1>5
    <3>2. /\ ux \in 0 .. 2^Width[type] - 1 /\ uy \in 0 .. 2^Width[type] - 1 /\ i \in {0, 1}
          /\ type \in DOMAIN Width /\ Width[type] < Wide
      BY <1>1, <1>3, <3>1
    <3>3. AsUnsigned(subb(type, ux, uy, i).num, Width[type])
            - 2^Width[type] * Flag(subb(type, ux, uy, i).carry) = ux - uy - i
      BY ONLY <3>2, SubbLimb
    <3> QED BY <1>3, <1>4, <1>7, <2>2, <3>1, <3>3
  <2>4. R2 - g * (s * p) = X2 - Y2 - cin
    BY <1>8, <1>9, <1>10, <2>1, <2>3, ChainDifference
  <2> QED BY <1>2, <1>7, <1>12, <1>13, <1>15, <2>4 DEF CarryChains
<1> QED BY <1>14, <1>15

(* The empty chain.                                                        *)
LEMMA InitChain == Init => ChainInv /\ CarryChains
<1> SUFFICES ASSUME Init PROVE ChainInv /\ CarryChains
  OBVIOUS
<1>1. TypeInv /\ results = <<>> /\ carryFlag = job.carry /\ Len(results) = 0
  BY InitType DEF Init
<1>2. ChainInv
  BY <1>1 DEF ChainInv
<1>3. \A k : Len(OperandLimbs(k)) = 0
  BY <1>1 DEF OperandLimbs
<1>4. Len(ResultLimbs) = 0
  BY <1>1 DEF ResultLimbs
<1>5. \A k : ValueOf(OperandLimbs(k)) = 0
  BY <1>3, ValueOfNone, ValueOfIsValue
<1>6. ValueOf(ResultLimbs) = 0
  BY <1>4, ValueOfNone, ValueOfIsValue
<1>7. PICK w \in Nat \ {0} : w = bits
  BY <1>1, WidthAssumption DEF TypeInv, JobInv, bits, bitWidth
<1>8. 2^(bits * Len(results)) = 1
  <2>1. bits * Len(results) = 0
    BY <1>1, <1>7
  <2> QED BY <2>1, PowerZero
<1>9. CarryChains
  BY <1>1, <1>5, <1>6, <1>8 DEF CarryChains
<1> QED BY <1>2, <1>9

LEMMA NextChain == TypeInv /\ ChainInv /\ CarryChains /\ [Next]_vars => ChainInv' /\ CarryChains'
<1> SUFFICES ASSUME TypeInv, ChainInv, CarryChains, [Next]_vars PROVE ChainInv' /\ CarryChains'
  OBVIOUS
<1>1. CASE UNCHANGED vars
  <2>1. /\ job' = job /\ results' = results /\ carryFlag' = carryFlag
        /\ op' = op /\ type' = type /\ bits' = bits
    BY <1>1 DEF vars, op, type, bits
  <2>2. ASSUME NEW k PROVE ValueOf(OperandLimbs(k))' = ValueOf(OperandLimbs(k))
    <3>1. PICK limb : limb = OperandLimbs(k)
      OBVIOUS
    <3>2. limb = OperandLimbs(k)'
      BY <2>1, <3>1 DEF OperandLimbs
    <3> QED BY <2>1, <3>1, <3>2 DEF ValueOf
  <2>3. ValueOf(ResultLimbs)' = ValueOf(ResultLimbs)
    <3>1. PICK limb : limb = ResultLimbs
      OBVIOUS
    <3>2. limb = ResultLimbs'
      BY <2>1, <3>1 DEF ResultLimbs
    <3> QED BY <2>1, <3>1, <3>2 DEF ValueOf
  <2>4. ChainInv'
    BY <2>1 DEF ChainInv
  <2>5. CarryChains'
    BY <2>1, <2>2, <2>3 DEF CarryChains
  <2> QED BY <2>4, <2>5
<1>2. CASE Next /\ op \notin {"addc", "subb"}
  <2>1. job' = job
    BY <1>2, StepAdds DEF Adds
  <2> QED BY <1>2, <2>1 DEF ChainInv, CarryChains, op
<1>3. CASE Next /\ op \in {"addc", "subb"}
  <2>1. Carrying
    BY <1>3 DEF Next, Basic, BitUnary, BitBinary, IntUnary, IntBinary, Saturating, Widening, Ternary,
       Field, Pointer, Overflowing, Checked, Divchk, Executing, BasicOps, BitUnaryOps, BitBinaryOps,
       IntUnaryOps, IntBinaryOps, SaturatingOps, WideningOps, TernaryOps, FieldOps, PointerOps,
       OverflowOps, Unchecked
  <2>2. PICK n, ux, uy, i, r, val : ChainStep(n, ux, uy, i, r, val)
    BY <2>1, CarryingSteps
  <2>3. op' = op /\ bits' = bits
    BY <2>2 DEF ChainStep, op, bits, type, bitWidth
  <2>4. ChainInv'
    <3>1. /\ n \in Nat /\ n = Len(results) /\ val.num \in Int
          /\ Len(results') = n + 1 /\ results'[n + 1] = val /\ \A k \in 1 .. n : results'[k] = results[k]
      BY <2>2, ChainNumbers DEF ChainStep
    <3>2. ASSUME NEW k \in 1 .. n + 1 PROVE results'[k].num \in Int
      <4>1. CASE k = n + 1
        BY <3>1, <4>1
      <4>2. CASE k \in 1 .. n
        BY <1>3, <3>1, <4>2 DEF ChainInv
      <4> QED BY <3>1, <4>1, <4>2
    <3> QED BY <3>1, <3>2 DEF ChainInv
  <2>5. CarryChains'
    <3>1. CASE bits < Wide
      BY <1>3, <2>2, <3>1, ChainHolds
    <3>2. CASE ~ (bits < Wide)
      BY <2>3, <3>2 DEF CarryChains
    <3> QED BY <3>1, <3>2
  <2> QED BY <2>4, <2>5
<1> QED BY <1>1, <1>2, <1>3

(* A chain of addc or subb over the limbs of two numbers of any length     *)
(* computes their sum or difference, carry included, whatever the width of *)
(* the limbs below that of Int128 (Opcode::Addc, Opcode::Subb).            *)
THEOREM ChainsAreExact == Spec => []CarryChains
<1>1. Init => TypeInv /\ ChainInv /\ CarryChains
  BY InitType, InitChain
<1>2. TypeInv /\ ChainInv /\ CarryChains /\ [Next]_vars => (TypeInv /\ ChainInv /\ CarryChains)'
  BY NextType, NextChain
<1> QED BY <1>1, <1>2, PTL DEF Spec
-----------------------------------------------------------------------------
(* Results on integers without bounds, and on Int128.                      *)

(* Numbers at most h have a product at most h times h.                     *)
LEMMA ProductBounds ==
  ASSUME NEW h \in Nat, NEW p \in Int, NEW q \in Int, p \in -h .. h, q \in -h .. h
  PROVE  p * q \in Int /\ p * q >= -(h * h) /\ p * q <= h * h
<1>1. ASSUME NEW m \in Nat, NEW n \in Nat PROVE m * n >= 0
  BY <1>1
<1>2. h - p \in Nat /\ h + p \in Nat /\ h - q \in Nat /\ h + q \in Nat
  OBVIOUS
<1>3. /\ (h - p) * (h + q) >= 0 /\ (h + p) * (h - q) >= 0
      /\ (h - p) * (h - q) >= 0 /\ (h + p) * (h + q) >= 0
  BY <1>1, <1>2
<1>4. PICK hh \in Int, hp \in Int, hq \in Int, pq \in Int :
        hh = h * h /\ hp = h * p /\ hq = h * q /\ pq = p * q
  OBVIOUS
<1>5. /\ (h - p) * (h + q) = hh + hq - hp - pq
      /\ (h + p) * (h - q) = hh - hq + hp - pq
      /\ (h - p) * (h - q) = hh - hq - hp + pq
      /\ (h + p) * (h + q) = hh + hq + hp + pq
  BY <1>4
<1>6. pq <= hh /\ pq >= -hh
  BY ONLY <1>3, <1>5, hh \in Int, hp \in Int, hq \in Int, pq \in Int
<1> QED BY <1>4, <1>6

(* A number of fewer bits is what Int128 computes.                         *)
LEMMA Unwrapped ==
  ASSUME NEW k \in Nat, k <= Wide, NEW n \in Int
  PROVE  /\ k < Wide /\ n >= -(2^k) /\ n <= 2^k - 1 => Int128(n) = n
         /\ n >= 0 /\ n <= 2^k - 1 => UInt128(n) = n
<1>1. Wide \in Nat \ {0} /\ Wide - 1 \in Nat
  BY WordsAssumption
<1>2. PICK s \in Nat \ {0}, l \in Nat \ {0}, big \in Nat \ {0} :
        s = 2^k /\ l = 2^(Wide - 1) /\ big = 2^Wide
  BY <1>1, PowerPositive
<1>3. ASSUME k < Wide, n >= -(2^k), n <= 2^k - 1 PROVE Int128(n) = n
  <2>1. k <= Wide - 1
    BY <1>1, <1>3
  <2>2. s <= l
    BY <1>1, <1>2, <2>1, PowersGrow
  <2>3. n \in -l .. l - 1
    BY <1>2, <1>3, <2>2
  <2> QED BY <1>1, <1>2, <2>3, SignedWord DEF Int128
<1>4. ASSUME n >= 0, n <= 2^k - 1 PROVE UInt128(n) = n
  <2>1. s <= big
    BY <1>1, <1>2, PowersGrow
  <2>2. n \in 0 .. big - 1
    BY <1>2, <1>4, <2>1
  <2> QED BY <1>1, <1>2, <2>2, UnsignedWord DEF UInt128
<1> QED BY <1>3, <1>4

(* The sizes of a type shorter than Int128, which is twice as long.        *)
LEMMA Narrow ==
  ASSUME NEW t \in DOMAIN Width, Width[t] < Wide
  PROVE  \E w \in Nat \ {0}, h \in Nat \ {0} :
           /\ w = Width[t] /\ 2 * w <= Wide /\ 2 * w - 1 \in Nat
           /\ h = 2^(w - 1) /\ 2 * h = 2^w
           /\ 2 * (h * h) = 2^(2 * w - 1) /\ 4 * (h * h) = 2^(2 * w)
<1>1. PICK w \in Nat \ {0} : w = Width[t]
  BY WidthAssumption
<1>2. 2 * w <= Wide
  <2>1. \/ Width[t] = Wide
        \/ 2 * Width[t] <= Wide /\ Width[t] <= Width["ptr"]
    BY HalvesAssumption
  <2> QED BY <1>1, <2>1, WordsAssumption
<1>3. w - 1 \in Nat /\ (w - 1) + 1 = w /\ (w - 1) + w = 2 * w - 1 /\ w + w = 2 * w /\ 2 * w - 1 \in Nat
  OBVIOUS
<1>4. PICK h \in Nat \ {0} : h = 2^(w - 1)
  BY <1>3, PowerPositive
<1>5. 2^w = 2 * h
  BY <1>3, <1>4, PowerDoubles
<1>6. 2^(2 * w - 1) = h * (2 * h)
  BY <1>3, <1>4, <1>5, PowerSum
<1>7. 2^(2 * w) = (2 * h) * (2 * h)
  BY <1>3, <1>5, PowerSum
<1>8. h * (2 * h) = 2 * (h * h) /\ (2 * h) * (2 * h) = 4 * (h * h)
  OBVIOUS
<1> QED BY <1>1, <1>2, <1>3, <1>4, <1>5, <1>6, <1>7, <1>8

(* What the instructions compute of signed numbers below 128 bits ...      *)
LEMMA SignedExact ==
  ASSUME NEW t \in DOMAIN Width, Width[t] < Wide, NEW h, h = 2^(Width[t] - 1),
         NEW p \in -h .. h - 1, NEW q \in -h .. h - 1
  PROVE  /\ p + q \in Int /\ Int128(p + q) = p + q
         /\ p - q \in Int /\ Int128(p - q) = p - q
         /\ p * q \in Int /\ Int128(p * q) = p * q
         /\ q >= 0 /\ q < Width[t] => p * 2^q \in Int /\ Int128(p * 2^q) = p * 2^q
<1>1. PICK w \in Nat \ {0} : w = Width[t] /\ 2 * w <= Wide /\ 2 * w - 1 \in Nat
  BY Narrow
<1>2. /\ h \in Nat \ {0} /\ 2 * h = 2^w /\ 2 * (h * h) = 2^(2 * w - 1)
  BY <1>1, Narrow
<1>3. p \in Int /\ q \in Int /\ p \in -h .. h /\ q \in -h .. h /\ Wide \in Nat
  BY <1>2, WordsAssumption
<1>4. w < Wide /\ 2 * w - 1 < Wide /\ 2 * w - 1 <= Wide /\ w <= Wide
  BY <1>1, <1>3
<1>5. p + q \in Int /\ p - q \in Int /\ p + q >= -(2 * h) /\ p + q <= 2 * h - 1
      /\ p - q >= -(2 * h) /\ p - q <= 2 * h - 1
  BY <1>2, <1>3
<1>6. Int128(p + q) = p + q /\ Int128(p - q) = p - q
  BY <1>1, <1>2, <1>4, <1>5, Unwrapped
<1>7. ASSUME NEW r \in Int, r \in -h .. h PROVE p * r \in Int /\ Int128(p * r) = p * r
  <2>1. p * r \in Int /\ p * r >= -(h * h) /\ p * r <= h * h
    BY <1>2, <1>3, <1>7, ProductBounds
  <2>2. PICK hh \in Int : hh = h * h /\ hh > 0
    BY <1>2
  <2>3. p * r >= -(2 * (h * h)) /\ p * r <= 2 * (h * h) - 1
    BY <2>1, <2>2
  <2> QED BY <1>1, <1>2, <1>4, <2>1, <2>3, Unwrapped
<1>8. ASSUME q >= 0, q < Width[t] PROVE 2^q \in Int /\ 2^q \in -h .. h
  <2>1. q \in Nat /\ w - 1 \in Nat /\ q <= w - 1
    BY <1>1, <1>3, <1>8
  <2>2. 2^q <= 2^(w - 1) /\ 2^q \in Nat
    BY <2>1, PowersGrow, PowerType
  <2> QED BY <1>1, <1>2, <2>2
<1> QED BY <1>3, <1>5, <1>6, <1>7, <1>8

(* ... and of unsigned ones.                                               *)
LEMMA UnsignedExact ==
  ASSUME NEW t \in DOMAIN Width, Width[t] < Wide, NEW s, s = 2^Width[t],
         NEW p \in 0 .. s - 1, NEW q \in 0 .. s - 1
  PROVE  /\ p + q \in Int /\ UInt128(p + q) = p + q
         /\ p * q \in Int /\ p * q >= 0 /\ UInt128(p * q) = p * q
<1>1. PICK w \in Nat \ {0}, h \in Nat \ {0} :
        /\ w = Width[t] /\ 2 * w <= Wide /\ 2 * h = s
        /\ 2 * (h * h) = 2^(2 * w - 1) /\ 4 * (h * h) = 2^(2 * w)
  BY Narrow
<1>2. w + 1 \in Nat /\ w + 1 <= Wide /\ 2 * w \in Nat /\ 2^(w + 1) = 2 * s
  <2>1. 2^(w + 1) = 2 * 2^w
    BY PowerDoubles
  <2> QED BY <1>1, <2>1, WordsAssumption
<1>3. s \in Nat /\ p \in Nat /\ q \in Nat /\ p + q \in Int /\ p + q >= 0 /\ p + q <= 2 * s - 1
  BY <1>1
<1>4. UInt128(p + q) = p + q
  BY <1>2, <1>3, Unwrapped
<1>5. p * q \in Int /\ p * q >= 0 /\ p * q <= (s - 1) * (s - 1)
  <2>1. PICK m \in Nat : m = s - 1
    BY <1>1
  <2>2. p \in -m .. m /\ q \in -m .. m
    BY <1>3, <2>1
  <2>3. p * q \in Int /\ p * q <= m * m
    BY <1>3, <2>1, <2>2, ProductBounds
  <2>4. p * q >= 0
    BY <1>3
  <2> QED BY <2>1, <2>3, <2>4
<1>6. p * q <= 4 * (h * h) - 1
  <2>1. (s - 1) * (s - 1) = 4 * (h * h) - 4 * h + 1
    <3>1. (s - 1) * (s - 1) = (2 * h - 1) * (2 * h - 1)
      BY <1>1
    <3>2. (2 * h - 1) * (2 * h - 1) = 4 * (h * h) - 4 * h + 1
      BY <1>1
    <3> QED BY <3>1, <3>2
  <2>2. PICK hh \in Int : hh = h * h
    OBVIOUS
  <2> QED BY <1>5, <2>1, <2>2
<1>7. UInt128(p * q) = p * q
  BY <1>1, <1>2, <1>5, <1>6, Unwrapped
<1> QED BY <1>3, <1>4, <1>5, <1>7
-----------------------------------------------------------------------------
(* The operands a and b of an instruction, as numbers of its type.         *)
LEMMA OperandRanges ==
  ASSUME type \in DOMAIN Width, bits < Wide, a \in Int, b \in Int,
         NEW h, h = 2^(Width[type] - 1), NEW s, s = 2^Width[type]
  PROVE  /\ h \in Nat \ {0} /\ s = 2 * h
         /\ SignedNumbers = -h .. h - 1 /\ UnsignedNumbers = 0 .. s - 1
         /\ signedMinOfWidth(type) = -h /\ signedMaxOfWidth(type) = h - 1
         /\ unsignedMaxOfWidth(type) = s - 1
         /\ ua \in UnsignedNumbers /\ ub \in UnsignedNumbers
<1>1. bits = Width[type] /\ Width[type] < Wide
  BY DEF bits, bitWidth
<1>2. h \in Nat \ {0} /\ s = 2 * h
  BY <1>1, Narrow
<1>3. /\ signedMinOfWidth(type) = -h /\ signedMaxOfWidth(type) = h - 1
      /\ unsignedMaxOfWidth(type) = s - 1
  BY DEF signedMinOfWidth, signedMaxOfWidth, unsignedMaxOfWidth, bitWidth
<1>4. SignedNumbers = -h .. h - 1 /\ UnsignedNumbers = 0 .. s - 1
  BY <1>3 DEF SignedNumbers, UnsignedNumbers
<1>5. ASSUME NEW n \in Int PROVE unsignedOf(n, type) \in 0 .. s - 1
  BY WidthAssumption, UnsignedWord DEF unsignedOf, bitWidth
<1> QED BY <1>2, <1>3, <1>4, <1>5 DEF ua, ub

(* The unbounded result of each kind of instruction. *)
LEMMA ExactOf ==
  ASSUME NEW o, NEW p, NEW q, p = (IF o \in UnsignedOps THEN ua ELSE a),
         q = (IF o \in UnsignedOps THEN ub ELSE b)
  PROVE  /\ o \in Sum => Exact(o) = p + q
         /\ o \in Difference => Exact(o) = p - q
         /\ o \in Product => Exact(o) = p * q
         /\ o \in {"shlo", "shlsat"} => Exact(o) = p * 2^q
         /\ o \in {"nego", "negsat"} => Exact(o) = -p
<1>1. Exact(o) = CASE o \in Sum -> p + q
                   [] o \in Difference -> p - q
                   [] o \in Product -> p * q
                   [] o \in {"shlo", "shlsat"} -> p * 2^q
                   [] o \in {"nego", "negsat"} -> -p
  BY DEF Exact
<1>2. /\ o \in Sum => o \notin Difference /\ o \notin Product
      /\ o \in Difference => o \notin Product
      /\ o \in {"shlo", "shlsat"} => o \notin Sum /\ o \notin Difference /\ o \notin Product
      /\ o \in {"nego", "negsat"} => o \notin Sum /\ o \notin Difference /\ o \notin Product
  BY DEF Sum, Difference, Product
<1>3. o \in {"nego", "negsat"} => o \notin {"shlo", "shlsat"}
  OBVIOUS
<1> QED BY <1>1, <1>2, <1>3

SignedOps == {"addo", "subo", "mulo", "shlo"}
SignedSats == {"addsat", "subsat", "mulsat", "shlsat"}

(* What the signed instructions compute before they look at the limits.    *)
Raw(o) ==
  CASE o \in {"addo", "addsat"} -> Int128(a + b)
    [] o \in {"subo", "subsat"} -> Int128(a - b)
    [] o \in {"mulo", "mulsat"} -> Int128(a * b)
    [] o \in {"shlo", "shlsat"} -> Int128(a * 2^SizeT(b))

LEMMA RawIsExact ==
  ASSUME type \in DOMAIN Width, a \in Int, b \in Int, NEW o \in SignedOps \cup SignedSats, Proper(o),
         o \in {"shlo", "shlsat"} => ~ BadAmount(type, b)
  PROVE  Exact(o) \in Int /\ Raw(o) = Exact(o) /\ Numbers(o) = SignedNumbers
<1>1. o \notin UnsignedOps
  BY DEF SignedOps, SignedSats, UnsignedOps
<1>2. bits < Wide /\ bits = Width[type] /\ a \in SignedNumbers /\ b \in SignedNumbers
  BY <1>1 DEF Proper, bits, bitWidth
<1>3. PICK h : h = 2^(Width[type] - 1)
  OBVIOUS
<1>4. a \in -h .. h - 1 /\ b \in -h .. h - 1
  BY <1>2, <1>3, OperandRanges
<1>5. /\ a + b \in Int /\ Int128(a + b) = a + b
      /\ a - b \in Int /\ Int128(a - b) = a - b
      /\ a * b \in Int /\ Int128(a * b) = a * b
      /\ b >= 0 /\ b < Width[type] => a * 2^b \in Int /\ Int128(a * 2^b) = a * 2^b
  BY <1>2, <1>3, <1>4, SignedExact
<1>6. Numbers(o) = SignedNumbers
  BY <1>1 DEF Numbers
<1>7. CASE o \in {"addo", "addsat"}
  <2>1. Exact(o) = a + b /\ Raw(o) = Int128(a + b)
    BY <1>1, <1>7, ExactOf DEF Raw, Sum
  <2> QED BY <1>5, <1>6, <2>1
<1>8. CASE o \in {"subo", "subsat"}
  <2>1. Exact(o) = a - b /\ Raw(o) = Int128(a - b)
    BY <1>1, <1>8, ExactOf DEF Raw, Difference
  <2> QED BY <1>5, <1>6, <2>1
<1>9. CASE o \in {"mulo", "mulsat"}
  <2>1. Exact(o) = a * b /\ Raw(o) = Int128(a * b)
    BY <1>1, <1>9, ExactOf DEF Raw, Product
  <2> QED BY <1>5, <1>6, <2>1
<1>10. CASE o \in {"shlo", "shlsat"}
  <2>1. Exact(o) = a * 2^b /\ Raw(o) = Int128(a * 2^SizeT(b))
    BY <1>1, <1>10, ExactOf DEF Raw
  <2>2. b >= 0 /\ SizeT(b) < Width[type]
    <3>1. Width[type] \in Nat /\ SizeT(b) \in Nat
      BY WidthAssumption, SizeOf
    <3> QED BY <1>10, <3>1 DEF BadAmount, BadIndex, bitWidth
  <2>3. SizeT(b) = b
    <3>1. h \in Nat \ {0} /\ b <= h - 1
      BY <1>2, <1>3, <1>4, OperandRanges
    <3>2. PICK w \in Nat \ {0}, k \in Nat \ {0} : w = Width[type] /\ k = Width["ptr"] /\ w <= k
      BY <1>2, WidthAssumption, WordsAssumption, HalvesAssumption DEF bits, bitWidth
    <3>3. w - 1 \in Nat /\ w - 1 <= k
      BY <3>2
    <3>4. h <= 2^k /\ 2^k \in Nat
      BY <1>3, <3>2, <3>3, PowersGrow, PowerType
    <3>5. b \in 0 .. 2^k - 1
      BY <2>2, <3>1, <3>4
    <3> QED BY <3>2, <3>5, SizeOf
  <2> QED BY <1>5, <1>6, <2>1, <2>2, <2>3
<1> QED BY <1>7, <1>8, <1>9, <1>10 DEF SignedOps, SignedSats

(* computeWithOverflow gives the unbounded result and says whether it is a *)
(* number of the type.                                                     *)
LEMMA Computed ==
  ASSUME type \in DOMAIN Width, a \in Int, b \in Int, NEW o \in OverflowOps, Proper(o),
         ~ overflowRefused(o, type, a, b)
  PROVE  /\ Exact(o) \in Int /\ computeWithOverflow(o, type, a, b).num = Exact(o)
         /\ computeWithOverflow(o, type, a, b).over \in BOOLEAN
         /\ computeWithOverflow(o, type, a, b).over <=> Exact(o) \notin Numbers(o)
<1>1. PICK h, s : h = 2^(Width[type] - 1) /\ s = 2^Width[type]
  OBVIOUS
<1>2. bits < Wide /\ Width[type] < Wide
  BY DEF Proper, bits, bitWidth
<1>3. /\ h \in Nat \ {0} /\ s = 2 * h
      /\ SignedNumbers = -h .. h - 1 /\ UnsignedNumbers = 0 .. s - 1
      /\ signedMinOfWidth(type) = -h /\ signedMaxOfWidth(type) = h - 1
      /\ unsignedMaxOfWidth(type) = s - 1
      /\ ua \in 0 .. s - 1 /\ ub \in 0 .. s - 1
  BY <1>1, <1>2, OperandRanges
<1>4. ua = unsignedOf(a, type) /\ ub = unsignedOf(b, type)
  BY DEF ua, ub
<1>5. CASE o \in SignedOps
  <2>1. PICK e \in Int : e = Exact(o) /\ Raw(o) = e /\ Numbers(o) = -h .. h - 1
    BY <1>3, <1>5, RawIsExact DEF overflowRefused, SignedOps
  <2>2. /\ computeWithOverflow(o, type, a, b).num = e
        /\ computeWithOverflow(o, type, a, b).over = (e < -h \/ e > h - 1)
    <3>1. /\ computeWithOverflow(o, type, a, b).num = Raw(o)
          /\ computeWithOverflow(o, type, a, b).over = (Raw(o) < -h \/ Raw(o) > h - 1)
      BY <1>3, <1>5 DEF computeWithOverflow, Raw, SignedOps
    <3> QED BY <2>1, <3>1
  <2>3. (e < -h \/ e > h - 1) <=> e \notin -h .. h - 1
    BY <1>3
  <2>4. (e < -h \/ e > h - 1) \in BOOLEAN
    OBVIOUS
  <2> QED BY <2>1, <2>2, <2>3, <2>4, Zenon
<1>6. CASE o = "nego"
  <2>1. Exact(o) = -a /\ Numbers(o) = -h .. h - 1 /\ a \in -h .. h - 1
    BY <1>3, <1>6, ExactOf DEF Numbers, Proper, UnsignedOps
  <2>2. /\ computeWithOverflow(o, type, a, b).num = -a
        /\ computeWithOverflow(o, type, a, b).over = (a = -h)
    BY <1>3, <1>6 DEF computeWithOverflow
  <2>3. a = -h <=> -a \notin -h .. h - 1
    BY <1>3, <2>1
  <2>4. -a \in Int /\ (a = -h) \in BOOLEAN
    OBVIOUS
  <2> QED BY <2>1, <2>2, <2>3, <2>4, Zenon
<1>7. CASE o \in {"uaddo", "usubo", "umulo"}
  <2>1. Numbers(o) = 0 .. s - 1
    BY <1>3, <1>7 DEF Numbers, UnsignedOps
  <2>2. /\ ua + ub \in Int /\ UInt128(ua + ub) = ua + ub
        /\ ua * ub \in Int /\ ua * ub >= 0 /\ UInt128(ua * ub) = ua * ub
    BY <1>1, <1>2, <1>3, UnsignedExact
  <2>3. CASE o = "uaddo"
    <3>1. Exact(o) = ua + ub
      BY <2>3, ExactOf DEF UnsignedOps, Sum
    <3>2. /\ computeWithOverflow(o, type, a, b).num = ua + ub
          /\ computeWithOverflow(o, type, a, b).over = (ua + ub > s - 1 \/ ua + ub < ua)
      BY <1>3, <1>4, <2>2, <2>3 DEF computeWithOverflow
    <3>3. (ua + ub > s - 1 \/ ua + ub < ua) <=> ua + ub \notin 0 .. s - 1
      BY <1>3
    <3>4. (ua + ub > s - 1 \/ ua + ub < ua) \in BOOLEAN
      OBVIOUS
    <3> QED BY <2>1, <2>2, <3>1, <3>2, <3>3, <3>4, Zenon
  <2>4. CASE o = "usubo"
    <3>1. Exact(o) = ua - ub
      BY <2>4, ExactOf DEF UnsignedOps, Difference
    <3>2. /\ computeWithOverflow(o, type, a, b).num = ua - ub
          /\ computeWithOverflow(o, type, a, b).over = (ua < ub)
      BY <1>3, <1>4, <2>2, <2>4 DEF computeWithOverflow
    <3>3. (ua < ub <=> ua - ub \notin 0 .. s - 1) /\ ua - ub \in Int /\ (ua < ub) \in BOOLEAN
      BY <1>3
    <3> QED BY <2>1, <2>2, <3>1, <3>2, <3>3, Zenon
  <2>5. CASE o = "umulo"
    <3>1. Exact(o) = ua * ub
      BY <2>5, ExactOf DEF UnsignedOps, Product
    <3>2. /\ computeWithOverflow(o, type, a, b).num = ua * ub
          /\ computeWithOverflow(o, type, a, b).over = (ua * ub > s - 1)
      BY <1>3, <1>4, <2>2, <2>5 DEF computeWithOverflow
    <3>3. PICK e \in Int : e = ua * ub /\ e >= 0
      BY <2>2
    <3>4. (e > s - 1 <=> e \notin 0 .. s - 1) /\ (e > s - 1) \in BOOLEAN
      <4>1. s \in Int
        BY <1>3
      <4> QED BY <3>3, <4>1
    <3> QED BY <2>1, <3>1, <3>2, <3>3, <3>4, Zenon
  <2> QED BY <1>7, <2>3, <2>4, <2>5
<1>8. o \in SignedOps \/ o = "nego" \/ o \in {"uaddo", "usubo", "umulo"}
  BY DEF OverflowOps, SignedOps
<1> QED BY <1>5, <1>6, <1>7, <1>8

(* divchk throws when the quotient is no number of the type.               *)
LEMMA QuotientFits ==
  ASSUME type \in DOMAIN Width, NEW p \in SignedNumbers, NEW q \in SignedNumbers
  PROVE  divchkRefused(type, p, q) <=> q = 0 \/ Quotient(p, q) \notin SignedNumbers
<1>1. PICK w \in Nat \ {0} : w = Width[type]
  BY WidthAssumption
<1>2. PICK h \in Nat \ {0} : h = 2^(w - 1)
  <2>1. w - 1 \in Nat
    BY <1>1
  <2> QED BY <2>1, PowerPositive
<1>3. SignedNumbers = -h .. h - 1 /\ signedMinOfWidth(type) = -h
  BY <1>1, <1>2 DEF SignedNumbers, signedMinOfWidth, signedMaxOfWidth, bitWidth
<1>4. p \in Int /\ q \in Int /\ p \in -h .. h - 1 /\ q \in -h .. h - 1
  BY <1>2, <1>3
<1>5. CASE q = 0
  BY <1>5 DEF divchkRefused
<1>6. CASE q # 0
  <2>1. PICK m \in Nat, n \in Nat \ {0} : m = Magnitude(p) /\ n = Magnitude(q) /\ m <= h
    BY <1>2, <1>4, <1>6 DEF Magnitude
  <2>2. PICK d, r : d = m \div n /\ r = m % n
    OBVIOUS
  <2>3. d \in Int /\ r \in 0 .. n - 1 /\ m = n * d + r
    <3>1. m \in Int
      BY <2>1
    <3> QED BY ONLY <2>2, <3>1, n \in Nat \ {0}, DivMod
  <2>4. d >= 0
    <3>1. ASSUME d < 0 PROVE FALSE
      <4>1. PICK g \in Nat \ {0} : d = -g
        BY <2>3, <3>1
      <4>2. n * g >= n
        BY <4>1
      <4>3. n * d = -(n * g)
        BY <4>1
      <4> QED BY <2>3, <4>2, <4>3
    <3> QED BY <2>3, <3>1
  <2>5. Quotient(p, q) = IF (p < 0) = (q < 0) THEN d ELSE -d
    BY <2>1, <2>2 DEF Quotient
  <2>6. CASE n = 1
    <3>1. d = m
      BY <2>3, <2>6
    <3>2. CASE q = 1
      <4>1. Quotient(p, q) = p
        BY <1>4, <2>1, <2>5, <3>1, <3>2 DEF Magnitude
      <4> QED BY <1>3, <1>4, <3>2, <4>1 DEF divchkRefused
    <3>3. CASE q = -1
      <4>1. Quotient(p, q) = -p
        BY <1>4, <2>1, <2>5, <3>1, <3>3 DEF Magnitude
      <4>2. -p \notin -h .. h - 1 <=> p = -h
        BY <1>2, <1>4
      <4> QED BY <1>3, <3>3, <4>1, <4>2 DEF divchkRefused
    <3> QED BY <1>4, <2>1, <2>6, <3>2, <3>3 DEF Magnitude
  <2>7. CASE n > 1
    <3>1. n * d >= 2 * d
      <4>1. PICK k \in Nat : n = 2 + k
        <5>1. n - 2 \in Nat /\ n = 2 + (n - 2)
          BY <2>1, <2>7
        <5> QED BY <5>1
      <4>2. n * d = 2 * d + k * d /\ k * d >= 0
        BY <2>3, <2>4, <4>1
      <4> QED BY <2>3, <4>1, <4>2
    <3>2. 2 * d <= h
      <4>1. PICK e \in Int : e = n * d
        BY <2>3
      <4> QED BY <2>1, <2>3, <3>1, <4>1
    <3>3. d \in -h .. h - 1 /\ -d \in -h .. h - 1
      BY <1>2, <2>3, <2>4, <3>2
    <3>4. Quotient(p, q) \in SignedNumbers
      BY <1>3, <2>5, <3>3
    <3>5. q # -1
      BY <2>1, <2>7 DEF Magnitude
    <3> QED BY <1>6, <3>4, <3>5 DEF divchkRefused
  <2> QED BY <2>1, <2>6, <2>7
<1> QED BY <1>5, <1>6
-----------------------------------------------------------------------------
(* The first result of an instruction.                                     *)

(* A step that writes the first result reads the operands a, b and c.      *)
LEMMA FirstOperands ==
  ASSUME TypeInv, Len(results) = 0, Len(job.operands) > 0
  PROVE  /\ x = a /\ y = b /\ z = c /\ a \in Int /\ b \in Int /\ c \in Int
         /\ type \in DOMAIN Width /\ op \in Opcodes /\ bits = Width[type]
<1>1. 1 \in 1 .. Len(job.operands)
  BY DEF TypeInv, JobInv
<1>2. job.operands[1][1] \in Int /\ job.operands[1][2] \in Int /\ job.operands[1][3] \in Int
  BY <1>1, OperandNumbers DEF TypeInv
<1>3. Len(results) + 1 = 1
  OBVIOUS
<1> QED BY <1>2, <1>3 DEF x, y, z, operand, a, b, c, TypeInv, JobInv, bits, bitWidth

LEMMA FirstWritten ==
  ASSUME TypeInv, Len(results) = 0, NEW t, NEW n, Write(t, n)
  PROVE  job' = job /\ dest'.num = fromInt128(t, n).num /\ dest' # Threw
<1>1. PICK val : val = [type |-> fromInt128(t, n).type, num |-> fromInt128(t, n).num, threw |-> FALSE]
  OBVIOUS
<1>2. results' = Append(results, val) /\ job' = job
  BY <1>1 DEF Write
<1>3. PICK R : R = Range(results) \cup {val}
  OBVIOUS
<1>4. results \in Seq(R) /\ val \in R
  BY <1>3 DEF TypeInv, ResultsInv
<1>5. results'[1] = val
  BY <1>2, <1>4
<1>6. val.num = fromInt128(t, n).num /\ val.threw = FALSE
  BY <1>1
<1>7. val # Threw
  BY <1>6 DEF Threw
<1> QED BY <1>2, <1>5, <1>6, <1>7 DEF dest

LEMMA FirstThrown ==
  ASSUME TypeInv, Len(results) = 0, Throw
  PROVE  job' = job /\ dest' = Threw /\ overflowFlag' = overflowFlag
<1>1. results' = Append(results, Threw) /\ job' = job /\ overflowFlag' = overflowFlag
  BY DEF Throw
<1>2. PICK R : R = Range(results) \cup {Threw}
  OBVIOUS
<1>3. results \in Seq(R) /\ Threw \in R
  BY <1>2 DEF TypeInv, ResultsInv
<1>4. results'[1] = Threw
  BY <1>1, <1>3
<1> QED BY <1>1, <1>4 DEF dest

LEMMA FirstComputed ==
  ASSUME TypeInv, Len(results) = 0, NEW refused, NEW t, NEW n, Compute(refused, t, n)
  PROVE  /\ job' = job
         /\ refused => dest' = Threw
         /\ ~ refused => dest'.num = fromInt128(t, n).num /\ dest' # Threw
<1>1. CASE refused
  BY <1>1, FirstThrown DEF Compute
<1>2. CASE ~ refused
  BY <1>2, FirstWritten DEF Compute
<1> QED BY <1>1, <1>2

(* The action of each opcode.                                              *)
LEMMA ActionOf ==
  ASSUME Next
  PROVE  /\ op \in OverflowOps => Overflowing
         /\ op \in DOMAIN Unchecked => Checked
         /\ op = "divchk" => Divchk
         /\ op \in {"mulwide", "umulwide"} => Widening
         /\ op \in SaturatingOps => Saturating
         /\ op = "negsat" => IntUnary
         /\ op \in {"clamp", "uclamp"} => Ternary
BY DEF Next, Basic, BitUnary, BitBinary, IntUnary, IntBinary, Saturating, Widening, Ternary,
       Field, Pointer, Overflowing, Checked, Divchk, Carrying, Executing, BasicOps, BitUnaryOps,
       BitBinaryOps, IntUnaryOps, IntBinaryOps, SaturatingOps, WideningOps, TernaryOps, FieldOps,
       PointerOps, OverflowOps, Unchecked

LEMMA SameJob ==
  ASSUME job' = job
  PROVE  /\ op' = op /\ type' = type /\ a' = a /\ b' = b /\ c' = c /\ ua' = ua /\ ub' = ub
         /\ bits' = bits /\ SignedNumbers' = SignedNumbers /\ UnsignedNumbers' = UnsignedNumbers
         /\ \A o : /\ Exact(o)' = Exact(o) /\ Numbers(o)' = Numbers(o)
                   /\ Proper(o)' <=> Proper(o)
<1>1. op' = op /\ type' = type /\ a' = a /\ b' = b /\ c' = c
  BY DEF op, type, a, b, c
<1>2. ua' = ua /\ ub' = ub /\ bits' = bits
  BY <1>1 DEF ua, ub, bits
<1>3. SignedNumbers' = SignedNumbers /\ UnsignedNumbers' = UnsignedNumbers
  BY <1>1 DEF SignedNumbers, UnsignedNumbers
<1>4. ASSUME NEW o
      PROVE  Exact(o)' = Exact(o) /\ Numbers(o)' = Numbers(o) /\ (Proper(o)' <=> Proper(o))
  BY <1>1, <1>2, <1>3 DEF Exact, Numbers, Proper
<1> QED BY <1>1, <1>2, <1>3, <1>4

(* A number of the type reads back as itself.                              *)
LEMMA NumberRead ==
  ASSUME type \in DOMAIN Width, NEW o, NEW n \in Numbers(o)
  PROVE  /\ n \in Int
         /\ o \in UnsignedOps => AsUnsigned(fromInt128(type, n).num, bits) = n
         /\ o \notin UnsignedOps => AsSigned(fromInt128(type, n).num, bits) = n
<1>1. PICK w \in Nat \ {0} : w = Width[type] /\ w = bits
  BY WidthAssumption DEF bits, bitWidth
<1>2. PICK h \in Nat \ {0}, s \in Nat \ {0} : h = 2^(w - 1) /\ s = 2^w
  BY <1>1, Sizes
<1>3. CASE o \in UnsignedOps
  <2>1. n \in 0 .. s - 1
    BY <1>1, <1>2, <1>3 DEF Numbers, UnsignedNumbers, unsignedMaxOfWidth, bitWidth
  <2>2. n \in Int
    BY <2>1
  <2>3. AsUnsigned(n, w) = n
    BY <1>2, <2>1, <2>2, UnsignedWord
  <2>4. AsUnsigned(fromInt128(type, n).num, w) = AsUnsigned(n, w)
    <3>1. w <= Width[type]
      BY <1>1
    <3> QED BY <2>2, <3>1, ReadBack
  <2> QED BY <1>1, <1>3, <2>2, <2>3, <2>4
<1>4. CASE o \notin UnsignedOps
  <2>1. n \in -h .. h - 1
    BY <1>1, <1>2, <1>4 DEF Numbers, SignedNumbers, signedMinOfWidth, signedMaxOfWidth, bitWidth
  <2>2. n \in Int
    BY <2>1
  <2>3. AsSigned(n, w) = n
    BY <1>2, <2>1, <2>2, SignedWord
  <2>4. AsSigned(fromInt128(type, n).num, w) = AsSigned(n, w)
    <3>1. w <= Width[type]
      BY <1>1
    <3> QED BY <2>2, <3>1, ReadBack
  <2> QED BY <1>1, <1>4, <2>2, <2>3, <2>4
<1> QED BY <1>3, <1>4

(* Before the first result is written, and after it.                       *)
FirstStep == TypeInv /\ Len(results) = 0 /\ Len(job.operands) > 0 /\ Next /\ job' = job

LEMMA ReadAfter ==
  ASSUME FirstStep, NEW o, NEW n \in Numbers(o), dest'.num = fromInt128(type, n).num
  PROVE  Read(o)' = n
<1>1. /\ o \in UnsignedOps => AsUnsigned(fromInt128(type, n).num, bits) = n
      /\ o \notin UnsignedOps => AsSigned(fromInt128(type, n).num, bits) = n
  BY NumberRead, FirstOperands DEF FirstStep
<1>2. bits' = bits
  BY SameJob DEF FirstStep
<1> QED BY <1>1, <1>2 DEF Read

LEMMA FlagStep ==
  ASSUME FirstStep
  PROVE  FlagIsExact'
<1> SUFFICES ASSUME NEW o \in OverflowOps, o = op, dest' # Threw, Proper(o)
             PROVE  /\ overflowFlag' = (Exact(o) \notin Numbers(o))
                    /\ ~ overflowFlag' => Read(o)' = Exact(o)
  <2>1. PICK o : o = op
    OBVIOUS
  <2>2. op' = o /\ Exact(o)' = Exact(o) /\ Numbers(o)' = Numbers(o) /\ (Proper(o)' <=> Proper(o))
    BY <2>1, SameJob DEF FirstStep
  <2>3. /\ Exact(op)' = Exact(o) /\ Numbers(op)' = Numbers(o) /\ Read(op)' = Read(o)'
        /\ (Proper(op)' <=> Proper(o))
    BY <2>2 DEF Exact, Numbers, Read, Proper
  <2> QED BY <2>1, <2>2, <2>3 DEF FlagIsExact, Ran
<1>1. /\ Overflowing /\ x = a /\ y = b /\ a \in Int /\ b \in Int /\ type \in DOMAIN Width
  BY ActionOf, FirstOperands DEF FirstStep
<1>2. PICK r : r = computeWithOverflow(o, type, a, b)
  OBVIOUS
<1>3. ~ overflowRefused(o, type, a, b) /\ Write(type, r.num) /\ overflowFlag' = r.over
  BY <1>1, <1>2, FirstThrown DEF Overflowing, FirstStep
<1>4. Exact(o) \in Int /\ r.num = Exact(o) /\ r.over \in BOOLEAN /\ (r.over <=> Exact(o) \notin Numbers(o))
  BY <1>1, <1>2, <1>3, Computed
<1>5. dest'.num = fromInt128(type, Exact(o)).num
  BY <1>3, <1>4, FirstWritten DEF FirstStep
<1>6. ASSUME ~ overflowFlag' PROVE Read(o)' = Exact(o)
  <2>1. PICK e \in Numbers(o) : e = Exact(o)
    BY <1>3, <1>4, <1>6
  <2> QED BY <1>5, <2>1, ReadAfter
<1> QED BY <1>3, <1>4, <1>6

LEMMA CheckStep ==
  ASSUME FirstStep
  PROVE  ChecksAreExact'
<1> SUFFICES ASSUME op \in DOMAIN Unchecked, NEW o, o = Unchecked[op], Proper(o),
                    ~ overflowRefused(o, type, a, b)
             PROVE  /\ dest' = Threw <=> Exact(o) \notin Numbers(o)
                    /\ dest' # Threw => Read(o)' = Exact(o)
  <2>1. PICK o : o = Unchecked[op]
    OBVIOUS
  <2>2. /\ op' = op /\ type' = type /\ a' = a /\ b' = b
        /\ Exact(o)' = Exact(o) /\ Numbers(o)' = Numbers(o) /\ (Proper(o)' <=> Proper(o))
    BY SameJob DEF FirstStep
  <2>3. /\ Exact(Unchecked[op])' = Exact(o) /\ Numbers(Unchecked[op])' = Numbers(o)
        /\ Read(Unchecked[op])' = Read(o)' /\ (Proper(Unchecked[op])' <=> Proper(o))
    BY <2>1, <2>2 DEF Exact, Numbers, Read, Proper
  <2> QED BY <2>1, <2>2, <2>3 DEF ChecksAreExact, Ran
<1>1. /\ Checked /\ x = a /\ y = b /\ a \in Int /\ b \in Int /\ type \in DOMAIN Width
  BY ActionOf, FirstOperands DEF FirstStep
<1>2. o \in OverflowOps
  BY DEF Unchecked, OverflowOps
<1>3. PICK r : r = computeWithOverflow(o, type, a, b)
  OBVIOUS
<1>4. Exact(o) \in Int /\ r.num = Exact(o) /\ r.over \in BOOLEAN /\ (r.over <=> Exact(o) \notin Numbers(o))
  BY <1>1, <1>2, <1>3, Computed
<1>5. Compute(r.over, type, r.num)
  BY <1>1, <1>3 DEF Checked
<1>6. CASE r.over
  BY <1>4, <1>5, <1>6, FirstComputed DEF FirstStep
<1>7. CASE ~ r.over
  <2>1. dest'.num = fromInt128(type, Exact(o)).num /\ dest' # Threw
    BY <1>4, <1>5, <1>7, FirstComputed DEF FirstStep
  <2>2. PICK e \in Numbers(o) : e = Exact(o)
    BY <1>4, <1>7
  <2>3. Read(o)' = Exact(o)
    BY <2>1, <2>2, ReadAfter
  <2> QED BY <1>4, <1>7, <2>1, <2>3
<1> QED BY <1>6, <1>7

LEMMA DivchkStep ==
  ASSUME FirstStep
  PROVE  DivchkIsExact'
<1> SUFFICES ASSUME op = "divchk", a \in SignedNumbers, b \in SignedNumbers
             PROVE  dest' = Threw <=> b = 0 \/ Quotient(a, b) \notin SignedNumbers
  <2>1. op' = op /\ a' = a /\ b' = b /\ SignedNumbers' = SignedNumbers
    BY SameJob DEF FirstStep
  <2> QED BY <2>1 DEF DivchkIsExact, Ran
<1>1. Divchk /\ x = a /\ y = b /\ type \in DOMAIN Width
  BY ActionOf, FirstOperands DEF FirstStep
<1>2. Compute(divchkRefused(type, a, b), type, Quotient(a, b))
  BY <1>1 DEF Divchk
<1>3. dest' = Threw <=> divchkRefused(type, a, b)
  BY <1>2, FirstComputed DEF FirstStep
<1> QED BY <1>1, <1>3, QuotientFits

LEMMA WideStep ==
  ASSUME FirstStep
  PROVE  WideProductsFit'
<1> SUFFICES ASSUME op \in {"mulwide", "umulwide"}, dest' # Threw, Width[job.type2] >= 2 * bits
             PROVE  AsUnsigned(dest'.num, 2 * bits)
                      = AsUnsigned(IF op = "mulwide" THEN a * b ELSE ua * ub, 2 * bits)
  <2>1. op' = op /\ a' = a /\ b' = b /\ ua' = ua /\ ub' = ub /\ bits' = bits /\ job' = job
    BY SameJob DEF FirstStep
  <2> QED BY <2>1 DEF WideProductsFit, Ran
<1>1. /\ Widening /\ x = a /\ y = b /\ a \in Int /\ b \in Int /\ type \in DOMAIN Width
      /\ bits = Width[type] /\ job.type2 \in DOMAIN Width
  BY ActionOf, FirstOperands DEF FirstStep, TypeInv, JobInv
<1>2. PICK w \in Nat \ {0} : w = bits
  BY <1>1, WidthAssumption
<1>3. PICK n : n = IF op = "mulwide" THEN a * b ELSE ua * ub
  OBVIOUS
<1>4. n \in Int
  <2>1. ua = AsUnsigned(a, w) /\ ub = AsUnsigned(b, w)
    BY <1>1, <1>2 DEF ua, ub, unsignedOf, bitWidth
  <2>2. AsUnsigned(a, w) \in Nat /\ AsUnsigned(b, w) \in Nat
    BY <1>1, UnsignedWord
  <2> QED BY <1>1, <1>3, <2>1, <2>2
<1>5. Compute(wideningRefused(op, type), job.type2, n)
  BY <1>1, <1>3 DEF Widening, widening, ua, ub
<1>6. dest'.num = fromInt128(job.type2, n).num
  BY <1>5, FirstComputed DEF FirstStep
<1>7. 2 * w \in Nat \ {0} /\ 2 * w <= Width[job.type2]
  <2>1. Width[job.type2] \in Nat
    BY <1>1, WidthAssumption
  <2> QED BY <1>2, <2>1
<1>8. AsUnsigned(fromInt128(job.type2, n).num, 2 * w) = AsUnsigned(n, 2 * w)
  BY <1>1, <1>4, <1>7, ReadBack
<1> QED BY <1>2, <1>3, <1>6, <1>8

(* Only the first result is judged.                                        *)
LEMMA FirstOrNot ==
  ASSUME TypeInv, Next
  PROVE  Len(results') = 1 => FirstStep
<1>1. Adds
  BY StepAdds
<1>2. PICK val : results' = Append(results, val)
  BY <1>1 DEF Adds
<1>3. PICK R : R = Range(results) \cup {val}
  OBVIOUS
<1>4. results \in Seq(R) /\ val \in R
  BY <1>3 DEF TypeInv, ResultsInv
<1>5. Len(results') = Len(results) + 1 /\ Len(results) \in Nat /\ Len(job.operands) \in Nat
  BY <1>2, <1>4 DEF TypeInv, JobInv
<1> QED BY <1>1, <1>5 DEF FirstStep, Adds

LEMMA NextOverflow ==
  ASSUME TypeInv, OverflowIsExact, [Next]_vars
  PROVE  OverflowIsExact'
<1>1. CASE UNCHANGED vars
  <2>1. job' = job /\ results' = results /\ overflowFlag' = overflowFlag
    BY <1>1 DEF vars
  <2> QED BY <2>1 DEF OverflowIsExact, FlagIsExact, ChecksAreExact, DivchkIsExact, WideProductsFit,
            Ran, dest, Exact, Numbers, Read, Proper, UnsignedNumbers, SignedNumbers, a, b, ua, ub,
            bits, op, type
<1>2. CASE Next /\ Len(results') = 1
  BY <1>2, FirstOrNot, FlagStep, CheckStep, DivchkStep, WideStep DEF OverflowIsExact
<1>3. CASE Next /\ Len(results') # 1
  BY <1>3 DEF OverflowIsExact, FlagIsExact, ChecksAreExact, DivchkIsExact, WideProductsFit, Ran
<1> QED BY <1>1, <1>2, <1>3

(* An instruction that reports overflow, or throws on it, is right about   *)
(* it for every operand and every width of its type below that of Int128,  *)
(* and a product of twice the width is whole (computeWithOverflow).        *)
THEOREM OverflowsAreExact == Spec => []OverflowIsExact
<1>1. Init => TypeInv /\ OverflowIsExact
  <2> SUFFICES ASSUME Init PROVE OverflowIsExact
    BY InitType
  <2>1. Len(results) # 1
    BY DEF Init
  <2> QED BY <2>1 DEF OverflowIsExact, FlagIsExact, ChecksAreExact, DivchkIsExact, WideProductsFit, Ran
<1>2. TypeInv /\ OverflowIsExact /\ [Next]_vars => (TypeInv /\ OverflowIsExact)'
  BY NextType, NextOverflow
<1> QED BY <1>1, <1>2, PTL DEF Spec
-----------------------------------------------------------------------------
(* Saturation.                                                             *)

(* The number of an interval nearest to a number is itself or the end of   *)
(* the interval that it is beyond.                                         *)
LEMMA NearestInInterval ==
  ASSUME NEW lo \in Int, NEW hi \in Int, lo <= hi, NEW e \in Int, NEW n,
         n = IF e > hi THEN hi ELSE IF e < lo THEN lo ELSE e
  PROVE  Nearest(n, e, lo .. hi)
<1>1. n \in lo .. hi
  OBVIOUS
<1>2. ASSUME NEW m \in lo .. hi PROVE Magnitude(e - n) <= Magnitude(e - m)
  BY DEF Magnitude
<1> QED BY <1>1, <1>2 DEF Nearest

LEMMA Saturated ==
  ASSUME type \in DOMAIN Width, a \in Int, b \in Int, NEW o \in SaturatingOps, Proper(o),
         ~ saturatingRefused(o, type, a, b)
  PROVE  Nearest(saturatingOp(o, type, a, b), Exact(o), Numbers(o))
<1>1. PICK h, s : h = 2^(Width[type] - 1) /\ s = 2^Width[type]
  OBVIOUS
<1>2. bits < Wide /\ Width[type] < Wide
  BY DEF Proper, bits, bitWidth
<1>3. /\ h \in Nat \ {0} /\ s = 2 * h
      /\ SignedNumbers = -h .. h - 1 /\ UnsignedNumbers = 0 .. s - 1
      /\ signedMinOfWidth(type) = -h /\ signedMaxOfWidth(type) = h - 1
      /\ unsignedMaxOfWidth(type) = s - 1
      /\ ua \in 0 .. s - 1 /\ ub \in 0 .. s - 1
  BY <1>1, <1>2, OperandRanges
<1>4. ua = unsignedOf(a, type) /\ ub = unsignedOf(b, type)
  BY DEF ua, ub
<1>5. CASE o \in SignedSats
  <2>1. PICK e \in Int : e = Exact(o) /\ Raw(o) = e /\ Numbers(o) = -h .. h - 1
    BY <1>3, <1>5, RawIsExact DEF saturatingRefused, SignedSats
  <2>2. saturatingOp(o, type, a, b) = Clamped(Raw(o), -h, h - 1)
    BY <1>3, <1>5 DEF saturatingOp, Raw, SignedSats
  <2>3. Clamped(e, -h, h - 1) = IF e > h - 1 THEN h - 1 ELSE IF e < -h THEN -h ELSE e
    BY DEF Clamped
  <2>4. -h \in Int /\ h - 1 \in Int /\ -h <= h - 1
    BY <1>3
  <2>5. Nearest(Clamped(e, -h, h - 1), e, -h .. h - 1)
    BY <2>3, <2>4, NearestInInterval
  <2> QED BY <2>1, <2>2, <2>5
<1>6. CASE o \in {"uaddsat", "usubsat", "umulsat"}
  <2>1. Numbers(o) = 0 .. s - 1
    BY <1>3, <1>6 DEF Numbers, UnsignedOps
  <2>2. /\ ua + ub \in Int /\ UInt128(ua + ub) = ua + ub
        /\ ua * ub \in Int /\ ua * ub >= 0 /\ UInt128(ua * ub) = ua * ub
    BY <1>1, <1>2, <1>3, UnsignedExact
  <2>3. PICK n, e : n = saturatingOp(o, type, a, b) /\ e = Exact(o)
    OBVIOUS
  <2>4. e \in Int /\ n = IF e > s - 1 THEN s - 1 ELSE IF e < 0 THEN 0 ELSE e
    <3>1. CASE o = "uaddsat"
      <4>1. e = ua + ub
        BY <2>3, <3>1, ExactOf DEF UnsignedOps, Sum
      <4>2. n = IF ua + ub > s - 1 \/ ua + ub < ua THEN s - 1 ELSE ua + ub
        BY <1>3, <1>4, <2>2, <2>3, <3>1 DEF saturatingOp
      <4>3. ~ (ua + ub < ua) /\ ~ (ua + ub < 0)
        BY <1>3
      <4> QED BY <2>2, <4>1, <4>2, <4>3
    <3>2. CASE o = "usubsat"
      <4>1. e = ua - ub
        BY <2>3, <3>2, ExactOf DEF UnsignedOps, Difference
      <4>2. n = IF ua < ub THEN 0 ELSE ua - ub
        BY <1>3, <1>4, <2>2, <2>3, <3>2 DEF saturatingOp
      <4> QED BY <1>3, <4>1, <4>2
    <3>3. CASE o = "umulsat"
      <4>1. e = ua * ub
        BY <2>3, <3>3, ExactOf DEF UnsignedOps, Product
      <4>2. n = IF ua * ub > s - 1 THEN s - 1 ELSE ua * ub
        BY <1>3, <1>4, <2>2, <2>3, <3>3 DEF saturatingOp
      <4>3. e \in Int /\ e >= 0 /\ n = IF e > s - 1 THEN s - 1 ELSE e
        BY <2>2, <4>1, <4>2
      <4> QED BY <4>3
    <3> QED BY <1>6, <3>1, <3>2, <3>3
  <2>5. s - 1 \in Int /\ 0 <= s - 1
    BY <1>3
  <2> QED BY <2>1, <2>3, <2>4, <2>5, NearestInInterval
<1>7. o \in SignedSats \cup {"uaddsat", "usubsat", "umulsat"}
  BY DEF SaturatingOps, SignedSats
<1> QED BY <1>5, <1>6, <1>7

LEMMA SaturatedStep ==
  ASSUME FirstStep
  PROVE  SaturatedIsNearest'
<1> SUFFICES ASSUME NEW o \in SaturatingOps \cup {"negsat"}, o = op, dest' # Threw, Proper(o)
             PROVE  Nearest(Read(o)', Exact(o), Numbers(o))
  <2>1. PICK o : o = op
    OBVIOUS
  <2>2. op' = o /\ Exact(o)' = Exact(o) /\ Numbers(o)' = Numbers(o) /\ (Proper(o)' <=> Proper(o))
    BY <2>1, SameJob DEF FirstStep
  <2>3. /\ Exact(op)' = Exact(o) /\ Numbers(op)' = Numbers(o) /\ Read(op)' = Read(o)'
        /\ (Proper(op)' <=> Proper(o))
    BY <2>2 DEF Exact, Numbers, Read, Proper
  <2> QED BY <2>1, <2>2, <2>3 DEF SaturatedIsNearest, Ran
<1>1. x = a /\ y = b /\ a \in Int /\ b \in Int /\ type \in DOMAIN Width
  BY FirstOperands DEF FirstStep
<1>2. \E n : Nearest(n, Exact(o), Numbers(o)) /\ dest'.num = fromInt128(type, n).num
  <2>1. CASE o \in SaturatingOps
    <3>1. Saturating
      BY <2>1, ActionOf DEF FirstStep
    <3>2. PICK n : n = saturatingOp(o, type, a, b)
      OBVIOUS
    <3>3. Compute(saturatingRefused(o, type, a, b), type, n)
      BY <1>1, <3>1, <3>2 DEF Saturating
    <3>4. ~ saturatingRefused(o, type, a, b) /\ dest'.num = fromInt128(type, n).num
      BY <3>3, FirstComputed DEF FirstStep
    <3> QED BY <1>1, <2>1, <3>2, <3>4, Saturated
  <2>2. CASE o = "negsat"
    <3>1. IntUnary
      BY <2>2, ActionOf DEF FirstStep
    <3>2. PICK n : n = intUnaryExt(o, type, a)
      OBVIOUS
    <3>3. Compute(intUnaryRefused(o, type, a), type, n)
      BY <1>1, <3>1, <3>2 DEF IntUnary
    <3>4. dest'.num = fromInt128(type, n).num
      BY <3>3, FirstComputed DEF FirstStep
    <3>5. PICK h : h = 2^(Width[type] - 1)
      OBVIOUS
    <3>6. /\ h \in Nat \ {0} /\ SignedNumbers = -h .. h - 1
          /\ signedMinOfWidth(type) = -h /\ signedMaxOfWidth(type) = h - 1
      BY <1>1, <3>5, OperandRanges DEF Proper
    <3>7. Exact(o) = -a /\ Numbers(o) = -h .. h - 1 /\ a \in -h .. h - 1
      BY <2>2, <3>6, ExactOf DEF Numbers, Proper, UnsignedOps
    <3>8. n = IF a = -h THEN h - 1 ELSE -a
      BY <2>2, <3>2, <3>6 DEF intUnaryExt
    <3>9. /\ -h \in Int /\ h - 1 \in Int /\ -h <= h - 1 /\ -a \in Int
          /\ n = IF -a > h - 1 THEN h - 1 ELSE IF -a < -h THEN -h ELSE -a
      BY <1>1, <3>6, <3>7, <3>8
    <3>10. Nearest(n, -a, -h .. h - 1)
      BY <3>9, NearestInInterval
    <3> QED BY <3>4, <3>7, <3>10
  <2> QED BY <2>1, <2>2
<1>3. PICK n : Nearest(n, Exact(o), Numbers(o)) /\ dest'.num = fromInt128(type, n).num
  BY <1>2
<1>4. n \in Numbers(o)
  BY <1>3 DEF Nearest
<1>5. Read(o)' = n
  BY <1>3, <1>4, ReadAfter
<1> QED BY <1>3, <1>5

LEMMA ClampedStep ==
  ASSUME FirstStep
  PROVE  ClampedIsNearest'
<1>1. /\ x = a /\ y = b /\ z = c /\ a \in Int /\ b \in Int /\ c \in Int
      /\ type \in DOMAIN Width /\ bits = Width[type]
  BY FirstOperands DEF FirstStep
<1>2. /\ op' = op /\ type' = type /\ a' = a /\ b' = b /\ c' = c /\ ua' = ua /\ ub' = ub /\ bits' = bits
      /\ SignedNumbers' = SignedNumbers
  BY SameJob DEF FirstStep
<1>3. PICK uc : uc = unsignedOf(c, type)
  OBVIOUS
<1>4. PICK n : n = ternary(op, type, a, b, c)
  OBVIOUS
<1>5. ASSUME op \in {"clamp", "uclamp"} PROVE dest'.num = fromInt128(type, n).num
  <2>1. Compute(FALSE, type, n)
    BY <1>1, <1>4, <1>5, ActionOf DEF Ternary, FirstStep
  <2> QED BY <2>1, FirstComputed DEF FirstStep
<1>6. ASSUME NEW lo \in Int, NEW hi \in Int, lo <= hi, NEW e \in Int,
             n = IF e < lo THEN lo ELSE IF e > hi THEN hi ELSE e
      PROVE  n \in lo .. hi /\ Nearest(n, e, lo .. hi)
  <2>1. n \in lo .. hi
    BY <1>6
  <2>2. n = IF e > hi THEN hi ELSE IF e < lo THEN lo ELSE e
    BY <1>6
  <2> QED BY <1>6, <2>1, <2>2, NearestInInterval
<1>7. ASSUME op = "clamp", {a, b, c} \subseteq SignedNumbers, b <= c
      PROVE  Nearest(AsSigned(dest'.num, bits), a, b .. c)
  <2>1. n = IF a < b THEN b ELSE IF a > c THEN c ELSE a
    BY <1>4, <1>7 DEF ternary
  <2>2. n \in b .. c /\ Nearest(n, a, b .. c)
    BY <1>1, <1>6, <1>7, <2>1
  <2>3. n \in {a, b, c}
    BY <2>1
  <2>4. PICK m \in Numbers("addo") : m = n
    BY <1>7, <2>3 DEF Numbers, UnsignedOps
  <2>5. AsSigned(fromInt128(type, n).num, bits) = n
    BY <1>1, <2>4, NumberRead DEF UnsignedOps
  <2> QED BY <1>5, <1>7, <2>2, <2>5
<1>8. ASSUME op = "uclamp", ub <= uc
      PROVE  Nearest(unsignedOf(dest'.num, type), ua, ub .. uc)
  <2>1. n = IF ua < ub THEN ub ELSE IF ua > uc THEN uc ELSE ua
    BY <1>3, <1>4, <1>8 DEF ternary, ua, ub
  <2>2. PICK s : s = unsignedMaxOfWidth(type)
    OBVIOUS
  <2>3. ASSUME NEW val \in Int PROVE unsignedOf(val, type) \in Int /\ unsignedOf(val, type) \in UnsignedNumbers
    <3>1. Width[type] \in Nat
      BY <1>1, WidthAssumption
    <3>2. AsUnsigned(val, Width[type]) \in Nat /\ AsUnsigned(val, Width[type]) \in 0 .. 2^Width[type] - 1
      BY <3>1, UnsignedWord
    <3> QED BY <3>2 DEF unsignedOf, UnsignedNumbers, unsignedMaxOfWidth, bitWidth
  <2>4. /\ ua \in Int /\ ub \in Int /\ uc \in Int
        /\ ua \in UnsignedNumbers /\ ub \in UnsignedNumbers /\ uc \in UnsignedNumbers
    BY <1>1, <1>3, <2>3 DEF ua, ub
  <2>5. Nearest(n, ua, ub .. uc)
    BY <1>6, <1>8, <2>1, <2>4
  <2>6. PICK m \in Numbers("uaddo") : m = n
    BY <2>1, <2>4 DEF Numbers, UnsignedOps
  <2>7. AsUnsigned(fromInt128(type, n).num, bits) = n
    BY <1>1, <2>6, NumberRead DEF UnsignedOps
  <2>8. unsignedOf(dest'.num, type) = n
    BY <1>1, <1>5, <1>8, <2>7 DEF unsignedOf, bitWidth
  <2> QED BY <2>5, <2>8
<1> QED BY <1>2, <1>3, <1>7, <1>8 DEF ClampedIsNearest, Ran

LEMMA NextSaturates ==
  ASSUME TypeInv, SaturatesToNearest, [Next]_vars
  PROVE  SaturatesToNearest'
<1>1. CASE UNCHANGED vars
  <2>1. job' = job /\ results' = results
    BY <1>1 DEF vars
  <2> QED BY <2>1 DEF SaturatesToNearest, SaturatedIsNearest, ClampedIsNearest, Ran, dest, Exact,
            Numbers, Read, Proper, UnsignedNumbers, SignedNumbers, a, b, c, ua, ub, bits, op, type
<1>2. CASE Next /\ Len(results') = 1
  BY <1>2, FirstOrNot, SaturatedStep, ClampedStep DEF SaturatesToNearest
<1>3. CASE Next /\ Len(results') # 1
  BY <1>3 DEF SaturatesToNearest, SaturatedIsNearest, ClampedIsNearest, Ran
<1> QED BY <1>1, <1>2, <1>3

(* A saturating instruction gives the number of its type nearest to the    *)
(* unbounded result, and clamp the number of its interval nearest to its   *)
(* operand, at every width below that of Int128 (saturatingOp).            *)
THEOREM SaturationIsNearest == Spec => []SaturatesToNearest
<1>1. Init => TypeInv /\ SaturatesToNearest
  <2> SUFFICES ASSUME Init PROVE SaturatesToNearest
    BY InitType
  <2>1. Len(results) # 1
    BY DEF Init
  <2> QED BY <2>1 DEF SaturatesToNearest, SaturatedIsNearest, ClampedIsNearest, Ran
<1>2. TypeInv /\ SaturatesToNearest /\ [Next]_vars => (TypeInv /\ SaturatesToNearest)'
  BY NextType, NextSaturates
<1> QED BY <1>1, <1>2, PTL DEF Spec
-----------------------------------------------------------------------------
(* Vectors.                                                                *)

(* What one lane of a lanewise instruction is, before it is cut.           *)
laneValue(o, m, n, r) ==
  CASE o \in LaneBinaryOps -> laneBinary(o, lane, m, n)
    [] o \in LaneUnaryOps -> laneUnary(o, lane, m)
    [] o \in LaneTernaryOps -> laneTernary(o, lane, m, n, r)

LEMMA LaneValueIs ==
  ASSUME NEW o, NEW m, NEW n, NEW r
  PROVE  /\ o \in LaneBinaryOps => laneValue(o, m, n, r) = laneBinary(o, lane, m, n)
         /\ o \in LaneUnaryOps => laneValue(o, m, n, r) = laneUnary(o, lane, m)
         /\ o \in LaneTernaryOps => laneValue(o, m, n, r) = laneTernary(o, lane, m, n, r)
BY DEF laneValue, LaneBinaryOps, LaneUnaryOps, LaneTernaryOps, ShiftOps

(* Which function of the scalar instructions an instruction is compared    *)
(* with.                                                                   *)
LEMMA ScalarAs ==
  ASSUME NEW o, NEW m, NEW n, NEW r
  PROVE  /\ scalarName(o) = "shr"
              => scalar(o, m, n, r) = basic(scalarName(o), lane, unsignedOf(m, lane), Amount(o, n))
         /\ scalarName(o) \in BasicOps \ {"shr"} => scalar(o, m, n, r) = basic(scalarName(o), lane, m, Amount(o, n))
         /\ scalarName(o) \in BitUnaryOps => scalar(o, m, n, r) = bitUnary(scalarName(o), lane, m)
         /\ scalarName(o) \in IntUnaryOps => scalar(o, m, n, r) = intUnaryExt(scalarName(o), lane, m)
         /\ scalarName(o) \in BitBinaryOps => scalar(o, m, n, r) = bitBinary(scalarName(o), lane, m, n)
         /\ scalarName(o) \in IntBinaryOps => scalar(o, m, n, r) = intBinaryExt(scalarName(o), lane, m, n)
         /\ scalarName(o) \in SaturatingOps => scalar(o, m, n, r) = saturatingOp(scalarName(o), lane, m, n)
         /\ scalarName(o) \in TernaryOps => scalar(o, m, n, r) = ternary(scalarName(o), lane, m, n, r)
BY DEF scalar, BasicOps, BitUnaryOps, IntUnaryOps, BitBinaryOps, IntBinaryOps, SaturatingOps, TernaryOps, FieldOps

LEMMA SelectAs ==
  ASSUME NEW m, NEW n, NEW r
  PROVE  scalar("vbitselect", m, n, r)
           = Or(And(unsignedOf(m, lane), unsignedOf(r, lane)), And(unsignedOf(n, lane), Not(unsignedOf(r, lane))))
<1>1. scalarName("vbitselect") = "bitselect"
  BY DEF scalarName, AsScalar, BySign
<1>2. PICK t : t = <<m, n, r>>
  OBVIOUS
<1>3. t[1] = m /\ t[2] = n /\ t[3] = r
  BY <1>2
<1>4. scalar("vbitselect", m, n, r) = field("bitselect", lane, t)
  BY <1>1, <1>2 DEF scalar, BasicOps, BitUnaryOps, IntUnaryOps, BitBinaryOps, IntBinaryOps, SaturatingOps,
       TernaryOps, FieldOps
<1>5. field("bitselect", lane, t)
        = Or(And(unsignedOf(t[1], lane), unsignedOf(t[3], lane)), And(unsignedOf(t[2], lane), Not(unsignedOf(t[3], lane))))
  BY DEF field
<1> QED BY <1>3, <1>4, <1>5

(* Most instructions compute a lane as the scalar instruction does.        *)
LEMMA BasicLanes ==
  ASSUME NEW o, NEW m \in Int, NEW n \in Int, NEW r
  PROVE  /\ o \in {"vadd", "vhadd", "vsub", "vhsub", "vmul", "vmulwide", "vdiv", "vmin", "vfmin", "vmax", "vfmax",
                   "vand", "vor", "vxor"} => scalar(o, m, n, r) = laneBinary(o, lane, m, n)
         /\ o \in {"vshr", "vshrv"} /\ n >= 0 => scalar(o, m, n, r) = laneBinary(o, lane, m, n)
         /\ o \in {"vabs", "vneg", "vnot"} => scalar(o, m, n, r) = laneUnary(o, lane, m)
         /\ o \in {"vshl", "vshlv"} /\ n >= 0 => scalar(o, m, n, r) = m * 2^SizeT(n)
<1>1. ASSUME o \in {"vadd", "vhadd", "vsub", "vhsub", "vmul", "vmulwide", "vdiv"}
      PROVE  scalar(o, m, n, r) = laneBinary(o, lane, m, n)
  <2>1. \/ o \in {"vadd", "vhadd"} /\ scalarName(o) = "add"
        \/ o \in {"vsub", "vhsub"} /\ scalarName(o) = "sub"
        \/ o \in {"vmul", "vmulwide"} /\ scalarName(o) = "mul"
        \/ o = "vdiv" /\ scalarName(o) = "div"
    BY <1>1 DEF scalarName, AsScalar, BySign
  <2>2. scalar(o, m, n, r) = basic(scalarName(o), lane, m, n)
    BY <2>1, ScalarAs DEF BasicOps, Amount
  <2> QED BY <2>1, <2>2 DEF basic, laneBinary, ShiftOps
<1>2. ASSUME o \in {"vmin", "vfmin", "vmax", "vfmax", "vand", "vor", "vxor"}
      PROVE  scalar(o, m, n, r) = laneBinary(o, lane, m, n)
  <2>1. \/ o \in {"vmin", "vfmin"} /\ scalarName(o) = "min"
        \/ o \in {"vmax", "vfmax"} /\ scalarName(o) = "max"
        \/ o = "vand" /\ scalarName(o) = "and"
        \/ o = "vor" /\ scalarName(o) = "or"
        \/ o = "vxor" /\ scalarName(o) = "xor"
    BY <1>2 DEF scalarName, AsScalar, BySign
  <2>2. scalar(o, m, n, r) = basic(scalarName(o), lane, m, n)
    BY <2>1, ScalarAs DEF BasicOps, Amount
  <2> QED BY <2>1, <2>2 DEF basic, laneBinary, ShiftOps
<1>3. ASSUME o \in {"vshr", "vshrv"}, n >= 0 PROVE scalar(o, m, n, r) = laneBinary(o, lane, m, n)
  <2>1. scalarName(o) = "shr"
    BY <1>3 DEF scalarName, AsScalar, BySign
  <2>2. scalar(o, m, n, r) = unsignedOf(m, lane) \div 2^SizeT(n)
    BY <1>3, <2>1, ScalarAs DEF basic, Amount
  <2>3. laneBinary(o, lane, m, n) = laneShift(o, lane, m, n)
    BY <1>3 DEF laneBinary, ShiftOps
  <2> QED BY <1>3, <2>2, <2>3 DEF laneShift
<1>4. ASSUME o \in {"vabs", "vneg", "vnot"} PROVE scalar(o, m, n, r) = laneUnary(o, lane, m)
  <2>1. \/ o = "vabs" /\ scalarName(o) = "abs"
        \/ o = "vneg" /\ scalarName(o) = "neg"
        \/ o = "vnot" /\ scalarName(o) = "not"
    BY <1>4 DEF scalarName, AsScalar, BySign
  <2>2. scalar(o, m, n, r) = basic(scalarName(o), lane, m, n)
    BY <2>1, ScalarAs DEF BasicOps, Amount
  <2> QED BY <2>1, <2>2 DEF basic, laneUnary
<1>5. ASSUME o \in {"vshl", "vshlv"}, n >= 0 PROVE scalar(o, m, n, r) = m * 2^SizeT(n)
  <2>1. scalarName(o) = "shl"
    BY <1>5 DEF scalarName, AsScalar, BySign
  <2>2. scalar(o, m, n, r) = basic(scalarName(o), lane, m, SizeT(n))
    BY <1>5, <2>1, ScalarAs DEF BasicOps, Amount
  <2> QED BY <2>1, <2>2 DEF basic
<1> QED BY <1>1, <1>2, <1>3, <1>4, <1>5

LEMMA OtherLanes ==
  ASSUME NEW o, NEW m, NEW n, NEW r
  PROVE  /\ o \in {"vandnot", "vavg", "vabsdiff", "vsar", "vsarv", "vmulhi", "vrotl", "vrotlv", "vrotr", "vrotrv"}
              => scalar(o, m, n, r) = laneBinary(o, lane, m, n)
         /\ o \in {"vsqrt", "vpopcount", "vpopcntv", "vclz", "vlzcntv", "vctz", "vbswap"}
              => scalar(o, m, n, r) = laneUnary(o, lane, m)
         /\ o \in {"vclamp", "vmla", "vmaddwide", "vmls", "vbitselect"}
              => scalar(o, m, n, r) = laneTernary(o, lane, m, n, r)
<1>1. ASSUME o \in {"vandnot", "vavg", "vabsdiff"} PROVE scalar(o, m, n, r) = laneBinary(o, lane, m, n)
  <2>1. \/ o = "vandnot" /\ scalarName(o) = "andnot"
        \/ o = "vavg" /\ scalarName(o) = "uavg"
        \/ o = "vabsdiff" /\ scalarName(o) = "absdiff"
    BY <1>1 DEF scalarName, AsScalar, BySign
  <2>2. scalar(o, m, n, r) = intBinaryExt(scalarName(o), lane, m, n)
    BY <2>1, ScalarAs DEF IntBinaryOps
  <2> QED BY <2>1, <2>2 DEF intBinaryExt, laneBinary, ShiftOps
<1>2. ASSUME o = "vmulhi" PROVE scalar(o, m, n, r) = laneBinary(o, lane, m, n)
  <2>1. scalarName(o) = IF isSignedLane(lane) THEN "mulhi" ELSE "umulhi"
    BY <1>2 DEF scalarName, AsScalar, BySign
  <2>2. scalar(o, m, n, r) = intBinaryExt(scalarName(o), lane, m, n)
    BY <2>1, ScalarAs DEF IntBinaryOps
  <2> QED BY <1>2, <2>1, <2>2 DEF intBinaryExt, laneBinary, ShiftOps
<1>3. ASSUME o \in {"vsar", "vsarv"} PROVE scalar(o, m, n, r) = laneBinary(o, lane, m, n)
  <2>1. scalarName(o) = "sar"
    BY <1>3 DEF scalarName, AsScalar, BySign
  <2>2. scalar(o, m, n, r) = intBinaryExt(scalarName(o), lane, m, n)
    BY <2>1, ScalarAs DEF IntBinaryOps
  <2>3. laneBinary(o, lane, m, n) = laneShift(o, lane, m, n)
    BY <1>3 DEF laneBinary, ShiftOps
  <2> QED BY <1>3, <2>1, <2>2, <2>3 DEF intBinaryExt, laneShift
<1>4. ASSUME o \in {"vrotl", "vrotlv", "vrotr", "vrotrv"} PROVE scalar(o, m, n, r) = laneBinary(o, lane, m, n)
  <2>1. \/ o \in {"vrotl", "vrotlv"} /\ scalarName(o) = "rotl"
        \/ o \in {"vrotr", "vrotrv"} /\ scalarName(o) = "rotr"
    BY <1>4 DEF scalarName, AsScalar, BySign
  <2>2. scalar(o, m, n, r) = bitBinary(scalarName(o), lane, m, n)
    BY <2>1, ScalarAs DEF BitBinaryOps
  <2>3. laneBinary(o, lane, m, n) = laneShift(o, lane, m, n)
    BY <1>4 DEF laneBinary, ShiftOps
  <2> QED BY <2>1, <2>2, <2>3 DEF bitBinary, laneShift
<1>5. ASSUME o = "vsqrt" PROVE scalar(o, m, n, r) = laneUnary(o, lane, m)
  <2>1. scalarName(o) = "isqrt"
    BY <1>5 DEF scalarName, AsScalar, BySign
  <2>2. scalar(o, m, n, r) = intUnaryExt(scalarName(o), lane, m)
    BY <2>1, ScalarAs DEF IntUnaryOps
  <2> QED BY <1>5, <2>1, <2>2 DEF intUnaryExt, laneUnary
<1>6. ASSUME o \in {"vpopcount", "vpopcntv", "vclz", "vlzcntv", "vctz", "vbswap"}
      PROVE  scalar(o, m, n, r) = laneUnary(o, lane, m)
  <2>1. \/ o \in {"vpopcount", "vpopcntv"} /\ scalarName(o) = "popcount"
        \/ o \in {"vclz", "vlzcntv"} /\ scalarName(o) = "clz"
        \/ o = "vctz" /\ scalarName(o) = "ctz"
        \/ o = "vbswap" /\ scalarName(o) = "bswap"
    BY <1>6 DEF scalarName, AsScalar, BySign
  <2>2. scalar(o, m, n, r) = bitUnary(scalarName(o), lane, m)
    BY <2>1, ScalarAs DEF BitUnaryOps
  <2> QED BY <2>1, <2>2 DEF bitUnary, laneUnary
<1>7. ASSUME o \in {"vclamp", "vmla", "vmaddwide", "vmls"} PROVE scalar(o, m, n, r) = laneTernary(o, lane, m, n, r)
  <2>1. \/ o = "vclamp" /\ scalarName(o) = "clamp"
        \/ o \in {"vmla", "vmaddwide"} /\ scalarName(o) = "mla"
        \/ o = "vmls" /\ scalarName(o) = "mls"
    BY <1>7 DEF scalarName, AsScalar, BySign
  <2>2. scalar(o, m, n, r) = ternary(scalarName(o), lane, m, n, r)
    BY <2>1, ScalarAs DEF TernaryOps
  <2> QED BY <2>1, <2>2 DEF ternary, laneTernary
<1>8. ASSUME o = "vbitselect" PROVE scalar(o, m, n, r) = laneTernary(o, lane, m, n, r)
  BY <1>8, SelectAs DEF laneTernary
<1> QED BY <1>1, <1>2, <1>3, <1>4, <1>5, <1>6, <1>7, <1>8

(* Numbers that are the same modulo the size of a type are the same in it. *)
LEMMA SameNumber ==
  ASSUME NEW t \in DOMAIN Width, NEW m \in Int, NEW n \in Int, SameModulo(m, n, 2^Width[t])
  PROVE  Number(t, m) = Number(t, n)
<1>1. Width[t] \in Nat \ {0}
  BY WidthAssumption
<1>2. AsUnsigned(m, Width[t]) = AsUnsigned(n, Width[t]) /\ AsSigned(m, Width[t]) = AsSigned(n, Width[t])
  BY <1>1, SameWords
<1> QED BY <1>2 DEF Number, fromInt128

LEMMA TimesSame ==
  ASSUME NEW m \in Int, NEW n \in Int, NEW k \in Int, NEW p \in Int, SameModulo(m, n, p)
  PROVE  SameModulo(m * k, n * k, p)
<1>1. PICK j \in Int : m = n + p * j
  BY DEF SameModulo
<1>2. (n + p * j) * k = n * k + p * (j * k) /\ j * k \in Int
  OBVIOUS
<1> QED BY <1>1, <1>2 DEF SameModulo

LEMMA SameThrough ==
  ASSUME NEW m \in Int, NEW n \in Int, NEW k \in Int, NEW p \in Int, SameModulo(m, n, p), SameModulo(n, k, p)
  PROVE  SameModulo(m, k, p)
<1>1. PICK i \in Int, j \in Int : m = n + p * i /\ n = k + p * j
  BY DEF SameModulo
<1>2. p * i + p * j = p * (i + j) /\ i + j \in Int
  OBVIOUS
<1>3. m = k + p * (i + j)
  <2>1. PICK u \in Int, v_ \in Int : u = p * i /\ v_ = p * j
    OBVIOUS
  <2> QED BY <1>1, <1>2, <2>1
<1> QED BY <1>2, <1>3 DEF SameModulo

(* A left shift of the word, or of the number, is the same in the type.    *)
LEMMA ShiftedLane ==
  ASSUME NEW t \in DOMAIN Width, NEW m \in Int, NEW n \in Nat
  PROVE  Number(t, UInt128(unsignedOf(m, t) * 2^n)) = Number(t, m * 2^n)
<1>1. PICK w \in Nat \ {0}, p \in Nat, u \in Int : w = Width[t] /\ p = 2^n /\ u = AsUnsigned(m, w) /\ SameModulo(u, m, 2^w)
  <2>1. PICK w \in Nat \ {0}, p \in Nat : w = Width[t] /\ p = 2^n
    BY WidthAssumption, PowerType
  <2>2. AsUnsigned(m, w) \in Nat /\ SameModulo(AsUnsigned(m, w), m, 2^w)
    BY UnsignedWord
  <2> QED BY <2>1, <2>2
<1>2. w <= Wide /\ Wide \in Nat
  BY <1>1, WordsAssumption
<1>3. PICK big \in Int : big = AsUnsigned(u * p, Wide) /\ SameModulo(big, u * p, 2^Wide)
  <2>1. PICK product \in Int : product = u * p
    OBVIOUS
  <2>2. AsUnsigned(product, Wide) \in Nat /\ SameModulo(AsUnsigned(product, Wide), product, 2^Wide)
    BY <1>2, UnsignedWord
  <2> QED BY <2>1, <2>2
<1>4. SameModulo(big, u * p, 2^w)
  BY <1>2, <1>3, SameInShorter, u * p \in Int
<1>5. SameModulo(u * p, m * p, 2^w)
  <2>1. 2^w \in Int /\ p \in Int
    BY PowerType
  <2> QED BY <1>1, <2>1, TimesSame
<1>6. SameModulo(big, m * p, 2^w)
  <2>1. 2^w \in Int /\ u * p \in Int /\ m * p \in Int
    BY PowerType
  <2> QED BY <1>4, <1>5, <2>1, SameThrough
<1>7. Number(t, big) = Number(t, m * p)
  BY <1>1, <1>6, SameNumber, m * p \in Int
<1> QED BY <1>1, <1>3, <1>7 DEF UInt128, unsignedOf, bitWidth

(* The sign of a number is the highest bit of its word.                    *)
LEMMA BitOfWord ==
  ASSUME NEW m \in Int, NEW w \in Nat, NEW i \in 0 .. w - 1
  PROVE  Bit(AsUnsigned(m, w), i) = Bit(m, i)
<1>1. PICK u \in Int : u = AsUnsigned(m, w) /\ SameModulo(u, m, 2^w)
  <2>1. AsUnsigned(m, w) \in Nat /\ SameModulo(AsUnsigned(m, w), m, 2^w)
    BY UnsignedWord
  <2> QED BY <2>1
<1>2. i \in Nat /\ w - (i + 1) \in Nat /\ w = (i + 1) + (w - (i + 1)) /\ i + 1 \in Nat
  OBVIOUS
<1>3. PICK p \in Nat \ {0}, q \in Nat \ {0} : p = 2^i /\ q = 2^(w - (i + 1)) /\ 2^w = (2 * p) * q
  <2>1. PICK p \in Nat \ {0}, q \in Nat \ {0} : p = 2^i /\ q = 2^(w - (i + 1))
    BY <1>2, PowerPositive
  <2>2. 2^(i + 1) = 2 * p
    BY <1>2, <2>1, PowerDoubles
  <2>3. 2^((i + 1) + (w - (i + 1))) = 2^(i + 1) * q
    BY <1>2, <2>1, PowerSum
  <2> QED BY <1>2, <2>1, <2>2, <2>3
<1>4. PICK k \in Int : u = m + ((2 * p) * q) * k
  BY <1>1, <1>3 DEF SameModulo
<1>5. PICK j \in Int : j = q * k /\ u = m + (2 * p) * j
  <2>1. ((2 * p) * q) * k = (2 * p) * (q * k) /\ q * k \in Int
    OBVIOUS
  <2> QED BY <1>4, <2>1
<1>6. u \div p = m \div p + 2 * j /\ m \div p \in Int
  <2>1. PICK d \in Int, r \in 0 .. p - 1 : d = m \div p /\ m = p * d + r
    BY DivMod
  <2>2. (2 * p) * j = p * (2 * j)
    OBVIOUS
  <2>3. p * d + p * (2 * j) = p * (d + 2 * j)
    OBVIOUS
  <2>4. PICK e \in Int : e = d + 2 * j
    OBVIOUS
  <2>5. u = p * e + r
    <3>1. PICK x1 \in Int, x2 \in Int : x1 = p * d /\ x2 = (2 * p) * j
      OBVIOUS
    <3>2. u = (x1 + r) + x2
      BY <1>5, <2>1, <3>1
    <3>3. p * e = x1 + x2
      BY <2>2, <2>3, <2>4, <3>1
    <3> QED BY <3>2, <3>3
  <2>6. u \div p = e
    BY <2>5
  <2> QED BY <2>1, <2>4, <2>6
<1>7. PICK d \in Int : d = m \div p
  BY <1>6
<1>8. (d + 2 * j) % 2 = d % 2
  OBVIOUS
<1> QED BY <1>1, <1>3, <1>6, <1>7, <1>8 DEF Bit

(* The numbers of a type.                                                  *)
LEMMA NumbersAre ==
  ASSUME NEW t \in DOMAIN Width, NEW m \in NumbersOf(t)
  PROVE  m \in Int /\ (t \in Unsigned => m \in 0 .. 2^Width[t] - 1 /\ unsignedOf(m, t) = m)
<1>1. PICK h \in Nat \ {0}, s \in Nat \ {0} : h = 2^(Width[t] - 1) /\ s = 2^Width[t]
  BY Sizes
<1>2. CASE t \in Unsigned
  <2>1. m \in 0 .. s - 1 /\ Width[t] \in Nat
    BY <1>1, <1>2, WidthAssumption DEF NumbersOf, unsignedMaxOfWidth, bitWidth
  <2>2. m \in Int
    BY <2>1
  <2>3. AsUnsigned(m, Width[t]) = m
    BY <1>1, <2>1, <2>2, UnsignedWord
  <2> QED BY <1>1, <2>1, <2>2, <2>3 DEF unsignedOf, bitWidth
<1>3. CASE t \notin Unsigned
  <2>1. m \in -h .. h - 1
    BY <1>1, <1>3 DEF NumbersOf, signedMinOfWidth, signedMaxOfWidth, bitWidth
  <2> QED BY <1>3, <2>1
<1> QED BY <1>2, <1>3

LEMMA SignLane ==
  ASSUME lane \in DOMAIN Width, NEW m \in Int, NEW n, NEW r
  PROVE  scalar("vsignbit", m, n, r) = laneUnary("vsignbit", lane, m)
<1>1. scalarName("vsignbit") = "msbmask"
  BY DEF scalarName, AsScalar, BySign
<1>2. scalar("vsignbit", m, n, r) = IF Bit(unsignedOf(m, lane), bitWidth(lane) - 1) = 1 THEN -1 ELSE 0
  <2>1. scalar("vsignbit", m, n, r) = bitUnary("msbmask", lane, m)
    BY <1>1, ScalarAs DEF BitUnaryOps
  <2> QED BY <2>1 DEF bitUnary
<1>3. Bit(unsignedOf(m, lane), bitWidth(lane) - 1) = Bit(m, bitWidth(lane) - 1)
  <2>1. Width[lane] \in Nat \ {0} /\ Width[lane] - 1 \in 0 .. Width[lane] - 1
    BY WidthAssumption
  <2> QED BY <2>1, BitOfWord DEF unsignedOf, bitWidth
<1> QED BY <1>2, <1>3 DEF laneUnary, laneSignBit

(* A saturating sum or difference of lanes. *)
LEMMA SaturatedLane ==
  ASSUME lane \in DOMAIN Width, NEW o \in {"vaddsat", "vsubsat"}, NEW m \in NumbersOf(lane), NEW n \in NumbersOf(lane), NEW r,
         o = "vaddsat" /\ ~ isSignedLane(lane) => Width[lane] < Wide
  PROVE  scalar(o, m, n, r) = laneBinary(o, lane, m, n)
<1>1. laneBinary(o, lane, m, n) = laneSaturated(o, lane, m, n)
  BY DEF laneBinary, ShiftOps
<1>2. m \in Int /\ n \in Int
  BY NumbersAre
<1>3. CASE isSignedLane(lane)
  <2>1. \/ o = "vaddsat" /\ scalarName(o) = "addsat"
        \/ o = "vsubsat" /\ scalarName(o) = "subsat"
    BY <1>3 DEF scalarName, AsScalar, BySign
  <2>2. scalar(o, m, n, r) = saturatingOp(scalarName(o), lane, m, n)
    BY <2>1, ScalarAs DEF SaturatingOps
  <2> QED BY <1>1, <1>3, <2>1, <2>2 DEF saturatingOp, laneSaturated
<1>4. CASE ~ isSignedLane(lane)
  <2>1. PICK s \in Nat \ {0}, big \in Nat \ {0} : s = 2^Width[lane] /\ big = 2^Wide /\ (Width[lane] < Wide => 2 * s <= big)
    BY Sizes
  <2>2. PICK um \in 0 .. s - 1, un \in 0 .. s - 1 : um = unsignedOf(m, lane) /\ un = unsignedOf(n, lane)
    BY <1>2, <2>1, WidthAssumption, UnsignedWord DEF unsignedOf, bitWidth
  <2>3. \/ o = "vaddsat" /\ scalarName(o) = "uaddsat"
        \/ o = "vsubsat" /\ scalarName(o) = "usubsat"
    BY <1>4 DEF scalarName, AsScalar, BySign
  <2>4. scalar(o, m, n, r) = saturatingOp(scalarName(o), lane, m, n)
    BY <2>3, ScalarAs DEF SaturatingOps
  <2>5. CASE o = "vsubsat"
    BY <1>1, <1>4, <2>2, <2>3, <2>4, <2>5 DEF saturatingOp, laneSaturated
  <2>6. CASE o = "vaddsat"
    <3>1. PICK e \in Nat : e = um + un /\ e \in 0 .. big - 1 /\ ~ (e < um)
      BY <1>4, <2>1, <2>2, <2>6
    <3>2. UInt128(e) = e
      <4>1. e \in Int /\ e \in 0 .. 2^Wide - 1 /\ Wide \in Nat
        BY <2>1, <3>1, WordsAssumption
      <4> QED BY <4>1, UnsignedWord DEF UInt128
    <3>3. saturatingOp("uaddsat", lane, m, n) = IF e > unsignedMaxOfWidth(lane) THEN unsignedMaxOfWidth(lane) ELSE e
      BY <2>2, <3>1, <3>2 DEF saturatingOp
    <3>4. laneSaturated("vaddsat", lane, m, n) = IF e > unsignedMaxOfWidth(lane) THEN unsignedMaxOfWidth(lane) ELSE e
      BY <1>4, <2>2, <3>1, <3>2 DEF laneSaturated
    <3> QED BY <1>1, <2>3, <2>4, <2>6, <3>3, <3>4
  <2> QED BY <2>5, <2>6
<1> QED BY <1>3, <1>4

(* On every lane a lanewise instruction gives what the scalar one gives.   *)
LEMMA LaneIsScalar ==
  ASSUME lane \in DOMAIN Width, NEW o \in HasScalar, NEW m \in NumbersOf(lane), NEW n \in Int, NEW r,
         o \in {"vshl", "vshlv", "vshr", "vshrv"} => n >= 0,
         o \in {"vaddsat", "vsubsat"}
           => n \in NumbersOf(lane) /\ (o = "vaddsat" /\ ~ isSignedLane(lane) => Width[lane] < Wide)
  PROVE  Number(lane, laneValue(o, m, n, r)) = Number(lane, scalar(o, m, n, r))
<1>0. m \in Int
  BY NumbersAre
<1>1. CASE o \in LaneBinaryOps \ {"vshl", "vshlv"}
  <2>1. laneValue(o, m, n, r) = laneBinary(o, lane, m, n)
    BY <1>1, LaneValueIs
  <2>2. scalar(o, m, n, r) = laneBinary(o, lane, m, n)
    <3>1. CASE o \in {"vaddsat", "vsubsat"}
      BY <3>1, SaturatedLane
    <3>2. CASE o \in {"vadd", "vhadd", "vsub", "vhsub", "vmul", "vmulwide", "vdiv", "vmin", "vfmin", "vmax", "vfmax",
                      "vand", "vor", "vxor", "vshr", "vshrv"}
      BY <1>0, <3>2, BasicLanes
    <3>3. CASE o \in {"vandnot", "vavg", "vabsdiff", "vsar", "vsarv", "vmulhi", "vrotl", "vrotlv", "vrotr", "vrotrv"}
      BY <3>3, OtherLanes
    <3> QED BY <1>1, <3>1, <3>2, <3>3 DEF LaneBinaryOps, ShiftOps
  <2> QED BY <2>1, <2>2
<1>2. CASE o \in {"vshl", "vshlv"}
  <2>1. o \in LaneBinaryOps
    BY <1>2 DEF LaneBinaryOps, ShiftOps
  <2>2. laneValue(o, m, n, r) = laneShift(o, lane, m, n)
    BY <1>2, <2>1, LaneValueIs DEF laneBinary, ShiftOps
  <2>3. laneValue(o, m, n, r) = UInt128(unsignedOf(m, lane) * 2^SizeT(n))
    BY <1>2, <2>2 DEF laneShift
  <2>4. scalar(o, m, n, r) = m * 2^SizeT(n)
    BY <1>0, <1>2, BasicLanes
  <2> QED BY <1>0, <2>3, <2>4, SizeOf, ShiftedLane
<1>3. CASE o \in LaneUnaryOps
  <2>1. laneValue(o, m, n, r) = laneUnary(o, lane, m)
    BY <1>3, LaneValueIs
  <2>2. scalar(o, m, n, r) = laneUnary(o, lane, m)
    <3>1. CASE o = "vsignbit"
      BY <1>0, <3>1, SignLane
    <3>2. CASE o \in {"vabs", "vneg", "vnot"}
      BY <1>0, <3>2, BasicLanes
    <3>3. CASE o \in {"vsqrt", "vpopcount", "vpopcntv", "vclz", "vlzcntv", "vctz", "vbswap"}
      BY <3>3, OtherLanes
    <3>4. o # "vfloor"
      BY DEF HasScalar, AsScalar, BySign
    <3> QED BY <1>3, <3>1, <3>2, <3>3, <3>4 DEF LaneUnaryOps
  <2> QED BY <2>1, <2>2
<1>4. CASE o \in {"vclamp", "vmla", "vmaddwide", "vmls", "vbitselect"}
  <2>1. laneValue(o, m, n, r) = laneTernary(o, lane, m, n, r)
    BY <1>4, LaneValueIs DEF LaneTernaryOps
  <2>2. scalar(o, m, n, r) = laneTernary(o, lane, m, n, r)
    BY <1>4, OtherLanes
  <2> QED BY <2>1, <2>2
<1>5. o \in LaneBinaryOps \cup LaneUnaryOps \cup {"vclamp", "vmla", "vmaddwide", "vmls", "vbitselect"}
  BY DEF HasScalar, AsScalar, BySign, LaneBinaryOps, ShiftOps, LaneUnaryOps
<1> QED BY <1>1, <1>2, <1>3, <1>4, <1>5

(* It refuses the lanes that the scalar instruction would refuse.          *)
laneThrows(o, m, n) ==
  \/ o = "vdiv" /\ n = 0
  \/ o = "vsqrt" /\ m < 0
  \/ o \in ShiftOps /\ BadAmount(lane, n)
  \/ o = "vmulhi" /\ TooWide(lane)

LEMMA ThrowsAsScalar ==
  ASSUME lane \in DOMAIN Width, NEW o \in HasScalar, NEW m \in Int, NEW n \in Int
  PROVE  scalarRefused(o, m, n) <=> laneThrows(o, m, n)
<1>1. CASE o = "vdiv"
  <2>1. scalarName(o) = "div"
    BY <1>1 DEF scalarName, AsScalar, BySign
  <2>2. Amount(o, n) = n
    BY <2>1 DEF Amount
  <2> QED BY <1>1, <2>1, <2>2 DEF scalarRefused, laneThrows, BasicOps, IntUnaryOps, BitBinaryOps, IntBinaryOps, ShiftOps, basicRefused
<1>2. CASE o = "vsqrt"
  <2>1. scalarName(o) = "isqrt"
    BY <1>2 DEF scalarName, AsScalar, BySign
  <2> QED BY <1>2, <2>1 DEF scalarRefused, laneThrows, BasicOps, IntUnaryOps, BitBinaryOps, IntBinaryOps, ShiftOps, intUnaryRefused
<1>3. CASE o = "vmulhi"
  <2>1. scalarName(o) \in {"mulhi", "umulhi"}
    BY <1>3 DEF scalarName, AsScalar, BySign
  <2> QED BY <1>3, <2>1 DEF scalarRefused, laneThrows, BasicOps, IntUnaryOps, BitBinaryOps, IntBinaryOps, ShiftOps, intBinaryRefused
<1>4. CASE o \in {"vshl", "vshlv", "vshr", "vshrv"}
  <2>1. scalarName(o) \in {"shl", "shr"}
    BY <1>4 DEF scalarName, AsScalar, BySign
  <2>2. scalarRefused(o, m, n) <=> Amount(o, n) \notin 0 .. bitWidth(lane) - 1
    BY <2>1 DEF scalarRefused, BasicOps, IntUnaryOps, BitBinaryOps, IntBinaryOps, basicRefused
  <2>3. laneThrows(o, m, n) <=> n < 0 \/ SizeT(n) \notin 0 .. bitWidth(lane) - 1
    BY <1>4 DEF laneThrows, ShiftOps, BadAmount, BadIndex
  <2>4. bitWidth(lane) \in Nat /\ SizeT(n) \in Nat
    BY WidthAssumption, SizeOf DEF bitWidth
  <2>5. Amount(o, n) = IF n >= 0 THEN SizeT(n) ELSE n
    BY <2>1 DEF Amount
  <2> QED BY <2>2, <2>3, <2>4, <2>5
<1>5. CASE o \in {"vsar", "vsarv"}
  <2>1. scalarName(o) = "sar"
    BY <1>5 DEF scalarName, AsScalar, BySign
  <2> QED BY <1>5, <2>1 DEF scalarRefused, laneThrows, BasicOps, IntUnaryOps, BitBinaryOps, IntBinaryOps, ShiftOps, intBinaryRefused
<1>6. CASE o \in {"vrotl", "vrotlv", "vrotr", "vrotrv"}
  <2>1. scalarName(o) \in {"rotl", "rotr"}
    BY <1>6 DEF scalarName, AsScalar, BySign
  <2> QED BY <1>6, <2>1 DEF scalarRefused, laneThrows, BasicOps, IntUnaryOps, BitBinaryOps, IntBinaryOps, ShiftOps, bitBinaryRefused
<1>7. CASE o \notin {"vdiv", "vsqrt", "vmulhi"} \cup ShiftOps
  <2>1. scalarName(o) \in {"add", "sub", "mul", "and", "or", "xor", "not", "neg", "abs", "min", "max", "popcount", "clz",
                           "ctz", "bswap", "msbmask", "andnot", "uavg", "absdiff", "addsat", "subsat", "uaddsat",
                           "usubsat", "clamp", "mla", "mls", "bitselect"}
    BY <1>7 DEF scalarName, AsScalar, BySign, ShiftOps, HasScalar
  <2>2. ~ scalarRefused(o, m, n)
    BY <2>1 DEF scalarRefused, BasicOps, IntUnaryOps, BitBinaryOps, IntBinaryOps, basicRefused, intUnaryRefused, bitBinaryRefused, intBinaryRefused
  <2> QED BY <1>7, <2>2 DEF laneThrows
<1> QED BY <1>1, <1>2, <1>3, <1>4, <1>5, <1>6, <1>7 DEF ShiftOps
-----------------------------------------------------------------------------
(* Bits. *)

LEMMA BitIs ==
  ASSUME NEW m \in Int, NEW k \in Nat
  PROVE  Bit(m, k) \in {0, 1} /\ m % 2^k \in Nat /\ m % 2^(k + 1) = (m % 2^k) + 2^k * Bit(m, k)
<1>1. PICK p \in Nat \ {0} : p = 2^k /\ 2^(k + 1) = 2 * p
  BY PowerPositive, PowerDoubles
<1>2. PICK d \in Int, r \in 0 .. p - 1 : d = m \div p /\ r = m % p /\ m = p * d + r
  BY DivMod
<1>3. PICK e \in Int, b_ \in {0, 1} : b_ = d % 2 /\ d = 2 * e + b_
  <2>1. d % 2 \in {0, 1} /\ d = 2 * (d \div 2) + (d % 2) /\ d \div 2 \in Int
    OBVIOUS
  <2> QED BY <2>1
<1>4. PICK x1 \in Nat : x1 = p * b_ /\ (x1 = 0 \/ x1 = p)
  <2>1. CASE b_ = 0
    BY <2>1
  <2>2. CASE b_ = 1
    BY <2>2
  <2> QED BY <2>1, <2>2
<1>5. PICK t \in Nat, q \in Nat \ {0} : t = r + x1 /\ q = 2 * p /\ t \in 0 .. q - 1
  BY <1>2, <1>4
<1>6. m % (2 * p) = t
  <2>1. p * (2 * e + b_) = p * (2 * e) + p * b_ /\ p * (2 * e) = (2 * p) * e
    OBVIOUS
  <2>2. PICK x2 \in Int : x2 = q * e
    OBVIOUS
  <2>7. p * (2 * e) = x2
    BY <1>5, <2>1, <2>2
  <2>8. p * d = x2 + x1
    BY <1>3, <1>4, <2>1, <2>7
  <2>3. m = t + x2
    BY <1>2, <1>5, <2>8
  <2>4. SameModulo(m, t, q)
    BY <2>2, <2>3 DEF SameModulo
  <2>5. m % q = t % q
    <3>1. t \in Int /\ q \in Nat \ {0}
      BY <1>5
    <3> QED BY <2>4, <3>1, ModSame
  <2>6. t % q = t
    BY <1>5
  <2> QED BY <1>5, <2>5, <2>6
<1>7. Bit(m, k) = b_
  BY <1>1, <1>2, <1>3 DEF Bit
<1>8. m % 2^k = r /\ r \in Nat /\ 2^k * Bit(m, k) = x1
  BY <1>1, <1>2, <1>4, <1>7
<1>9. m % 2^(k + 1) = t
  BY <1>1, <1>6
<1> QED BY <1>3, <1>5, <1>7, <1>8, <1>9

LEMMA LastOfSum ==
  ASSUME NEW w \in Nat, NEW g \in [0 .. w - 1 -> Nat], NEW it, IsSetSum(it, g, 0 .. w - 1), NEW j \in 0 .. w - 1
  PROVE  it[0 .. j] = g[j] + it[0 .. j - 1]
<1>1. PICK S : S = 0 .. w - 1
  OBVIOUS
<1>2. PICK t : t = 0 .. j
  OBVIOUS
<1>3. IsFiniteSet(S) /\ g \in [S -> Nat] /\ IsSetSum(it, g, S)
  <2>1. 0 \in Int /\ w - 1 \in Int
    OBVIOUS
  <2>2. IsFiniteSet(0 .. w - 1)
    BY <2>1, FS_Interval
  <2> QED BY <1>1, <2>2
<1>4. t \in SUBSET S /\ j \in t /\ t \ {j} = 0 .. j - 1
  BY <1>1, <1>2
<1>5. it[t] = g[j] + it[t \ {j}]
  BY <1>3, <1>4, SetSumTakesAny
<1> QED BY <1>2, <1>4, <1>5

(* The bits that two numbers share. *)
Shared(m, n) == [i \in 0 .. Wide - 1 |-> 2^i * Bit(m, i) * Bit(n, i)]

LEMMA AndIsSum ==
  ASSUME NEW m \in Int, NEW n \in Int
  PROVE  /\ Shared(m, n) \in [0 .. Wide - 1 -> Nat]
         /\ \E it : IsSetSum(it, Shared(m, n), 0 .. Wide - 1) /\ And(m, n) = Int128(it[0 .. Wide - 1])
<1> DEFINE S == 0 .. Wide - 1
           g == Shared(m, n)
           Summed(it) == it = [s \in SUBSET S |->
                                 IF s = {} THEN 0
                                 ELSE LET i == CHOOSE i \in s : TRUE
                                      IN  2^i * Bit(m, i) * Bit(n, i) + it[s \ {i}]]
           sum == CHOOSE it : Summed(it)
<1>1. Wide \in Nat \ {0}
  BY WordsAssumption
<1>2. IsFiniteSet(S) /\ S \subseteq Nat
  BY <1>1, FS_Interval
<1>3. ASSUME NEW i \in S PROVE 2^i * Bit(m, i) * Bit(n, i) \in Nat
  <2>1. PICK p \in Nat, b1 \in Nat, b2 \in Nat : p = 2^i /\ b1 = Bit(m, i) /\ b2 = Bit(n, i)
    BY <1>2, PowerType, BitIs
  <2>2. p * b1 * b2 \in Nat
    OBVIOUS
  <2> QED BY <2>1, <2>2
<1>4. g \in [S -> Nat]
  BY <1>3 DEF Shared
<1>5. ASSUME NEW it PROVE IsSetSum(it, g, S) <=> Summed(it)
  <2> HIDE DEF S
  <2>0. ASSUME NEW s \in SUBSET S, s # {} PROVE FirstTaken(s) \in S
    BY <2>0 DEF FirstTaken
  <2>1. ASSUME NEW s \in SUBSET S, s # {}
        PROVE  g[FirstTaken(s)] = 2^(CHOOSE i \in s : TRUE) * Bit(m, CHOOSE i \in s : TRUE) * Bit(n, CHOOSE i \in s : TRUE)
    BY <2>0, <2>1 DEF FirstTaken, Shared, S
  <2> DEFINE Here(s) == IF s = {} THEN 0 ELSE g[FirstTaken(s)] + it[s \ {FirstTaken(s)}]
             There(s) == IF s = {} THEN 0
                         ELSE LET i == CHOOSE i \in s : TRUE
                              IN  2^i * Bit(m, i) * Bit(n, i) + it[s \ {i}]
  <2>2. ASSUME NEW s \in SUBSET S PROVE Here(s) = There(s)
    <3>1. CASE s = {}
      BY <3>1
    <3>2. CASE s # {}
      <4> DEFINE e == CHOOSE i \in s : TRUE
      <4>1. FirstTaken(s) = e
        BY DEF FirstTaken
      <4>2. g[e] = 2^e * Bit(m, e) * Bit(n, e)
        BY <2>1, <3>2, <4>1
      <4>3. Here(s) = g[e] + it[s \ {e}]
        BY <3>2, <4>1
      <4>4. There(s) = 2^e * Bit(m, e) * Bit(n, e) + it[s \ {e}]
        BY <3>2
      <4> HIDE DEF Here, There, e
      <4> QED BY <4>2, <4>3, <4>4
    <3> QED BY <3>1, <3>2
  <2>3. (IsSetSum(it, g, S) <=> it = [s \in SUBSET S |-> Here(s)]) /\ (Summed(it) <=> it = [s \in SUBSET S |-> There(s)])
    BY DEF IsSetSum
  <2>4. [s \in SUBSET S |-> Here(s)] = [s \in SUBSET S |-> There(s)]
    <3> HIDE DEF Here, There
    <3> QED BY <2>2, Zenon
  <2> HIDE DEF Here, There, Summed
  <2> QED BY <2>3, <2>4
<1>6. \E it : Summed(it)
  <2> HIDE DEF g, Summed, S
  <2>1. PICK it : IsSetSum(it, g, S)
    BY <1>2, SetSumExists
  <2> QED BY <2>1, <1>5
<1>7. Summed(sum)
  BY <1>6, Zenon
<1>8. And(m, n) = Int128(sum[S])
  BY DEF And, MapThenSumSet, MapThenFoldSet
<1> HIDE DEF sum, Summed
<1>9. IsSetSum(sum, g, S)
  BY <1>5, <1>7
<1> QED BY <1>4, <1>8, <1>9

LEMMA SharedBits ==
  ASSUME NEW m \in Int, NEW n \in Int, NEW it, IsSetSum(it, Shared(m, n), 0 .. Wide - 1), NEW k \in 0 .. Wide
  PROVE  LET both == it[0 .. k - 1]
         IN  /\ both \in Nat /\ both <= m % 2^k /\ both <= n % 2^k
             /\ (m % 2^k) + (n % 2^k) - 2 * both \in 0 .. 2^k - 1
             /\ m = n => both = m % 2^k
<1> DEFINE S == 0 .. Wide - 1
           Claim(j) == /\ it[0 .. j - 1] \in Nat /\ it[0 .. j - 1] <= m % 2^j /\ it[0 .. j - 1] <= n % 2^j
                       /\ (m % 2^j) + (n % 2^j) - 2 * it[0 .. j - 1] \in 0 .. 2^j - 1
                       /\ m = n => it[0 .. j - 1] = m % 2^j
           T == {j \in 0 .. Wide : Claim(j)}
<1>1. Wide \in Nat /\ IsFiniteSet(S) /\ Shared(m, n) \in [S -> Nat]
  <2>1. Wide \in Nat /\ 0 \in Int /\ Wide - 1 \in Int
    BY WordsAssumption
  <2>2. IsFiniteSet(S)
    BY <2>1, FS_Interval
  <2>3. Shared(m, n) \in [0 .. Wide - 1 -> Nat]
    BY AndIsSum
  <2> QED BY <2>1, <2>2, <2>3
<1>2. 0 \in T
  <2>1. 0 .. 0 - 1 = {} /\ {} \in SUBSET S
    OBVIOUS
  <2>2. it[0 .. 0 - 1] = 0
    BY <2>1 DEF IsSetSum
  <2>3. 2^0 = 1 /\ m % 1 = 0 /\ n % 1 = 0
    BY PowerZero
  <2> QED BY <1>1, <2>2, <2>3
<1>3. ASSUME NEW j \in 0 .. Wide - 1, j \in T PROVE j + 1 \in T
  <2>1. j \in Nat /\ (j + 1) - 1 = j /\ j + 1 \in 0 .. Wide
    BY <1>1
  <2>2. it[0 .. j] = Shared(m, n)[j] + it[0 .. j - 1]
    <3>1. PICK g \in [S -> Nat] : g = Shared(m, n) /\ IsSetSum(it, g, S)
      BY <1>1
    <3>2. it[0 .. j] = g[j] + it[0 .. j - 1]
      BY <1>1, <3>1, LastOfSum
    <3> QED BY <3>1, <3>2
  <2>3. PICK p \in Nat \ {0}, b1 \in {0, 1}, b2 \in {0, 1} :
          /\ p = 2^j /\ 2^(j + 1) = 2 * p /\ b1 = Bit(m, j) /\ b2 = Bit(n, j)
          /\ m % 2^(j + 1) = (m % p) + p * b1 /\ n % 2^(j + 1) = (n % p) + p * b2
    BY <2>1, BitIs, PowerPositive, PowerDoubles
  <2>4. Shared(m, n)[j] = p * b1 * b2
    BY <2>3 DEF Shared
  <2>5. PICK s \in Nat, m1 \in Nat, n1 \in Nat : s = it[0 .. j - 1] /\ m1 = m % p /\ n1 = n % p
    BY <1>3, <2>1, <2>3, BitIs
  <2>6. s <= m1 /\ s <= n1 /\ m1 + n1 - 2 * s \in 0 .. p - 1 /\ (m = n => s = m1 /\ b1 = b2)
    BY <1>3, <2>3, <2>5
  <2>7. PICK s1 \in Nat : s1 = it[0 .. j] /\ s1 = p * b1 * b2 + s
    <3>1. p * b1 * b2 + s \in Nat
      OBVIOUS
    <3> QED BY <2>2, <2>4, <2>5, <3>1
  <2>8. m % 2^(j + 1) = m1 + p * b1 /\ n % 2^(j + 1) = n1 + p * b2
    BY <2>3, <2>5
  <2>9. /\ s1 <= m1 + p * b1 /\ s1 <= n1 + p * b2
        /\ (m1 + p * b1) + (n1 + p * b2) - 2 * s1 \in 0 .. 2 * p - 1
        /\ m = n => s1 = m1 + p * b1
    <3>1. b1 = 0 => p * b1 = 0 /\ p * b1 * b2 = 0
      OBVIOUS
    <3>2. b2 = 0 => p * b2 = 0 /\ p * b1 * b2 = 0
      OBVIOUS
    <3>3. b1 = 1 => p * b1 = p
      OBVIOUS
    <3>4. b2 = 1 => p * b2 = p
      OBVIOUS
    <3>5. b1 = 1 /\ b2 = 1 => p * b1 * b2 = p
      OBVIOUS
    <3>6. CASE b1 = 0 /\ b2 = 0
      <4>1. s1 = s /\ p * b1 = 0 /\ p * b2 = 0
        BY <2>7, <3>1, <3>2, <3>6
      <4> QED BY <2>6, <4>1
    <3>7. CASE b1 = 0 /\ b2 = 1
      <4>1. s1 = s /\ p * b1 = 0 /\ p * b2 = p
        BY <2>7, <3>1, <3>4, <3>7
      <4> QED BY <2>6, <3>7, <4>1
    <3>8. CASE b1 = 1 /\ b2 = 0
      <4>1. s1 = s /\ p * b1 = p /\ p * b2 = 0
        BY <2>7, <3>2, <3>3, <3>8
      <4> QED BY <2>6, <3>8, <4>1
    <3>9. CASE b1 = 1 /\ b2 = 1
      <4>1. s1 = p + s /\ p * b1 = p /\ p * b2 = p
        BY <2>7, <3>3, <3>4, <3>5, <3>9
      <4> QED BY <2>6, <3>9, <4>1
    <3> QED BY <3>6, <3>7, <3>8, <3>9
  <2> QED BY <2>1, <2>3, <2>7, <2>8, <2>9
<1>4. 0 .. Wide \subseteq T
  <2>1. \A j \in 0 .. Wide - 1 : j \in T => j + 1 \in T
    BY <1>3
  <2>2. 0 \in Int /\ Wide \in Int
    BY <1>1
  <2> HIDE DEF T
  <2> QED BY ONLY <1>2, <2>1, <2>2, IntervalInduction
<1> QED BY <1>4

(* Two numbers of 128 bits have no bit that only one of them has if and    *)
(* only if they are the same.                                              *)
LEMMA XorZero ==
  ASSUME NEW m \in Int, NEW n \in Int, NEW h \in Nat \ {0}, 2^Wide = 2 * h, m \in -h .. h - 1, n \in -h .. h - 1
  PROVE  Xor(m, n) = 0 <=> m = n
<1>1. Wide \in Nat \ {0} /\ Wide \in 0 .. Wide
  BY WordsAssumption
<1>2. PICK it : IsSetSum(it, Shared(m, n), 0 .. Wide - 1) /\ And(m, n) = Int128(it[0 .. Wide - 1])
  BY AndIsSum
<1>3. PICK s \in Nat : s = 2 * h /\ s = 2^Wide
  OBVIOUS
<1>4. PICK k \in Nat, m1 \in Nat, n1 \in Nat :
        /\ k = it[0 .. Wide - 1] /\ m1 = m % s /\ n1 = n % s
        /\ k <= m1 /\ k <= n1 /\ m1 + n1 - 2 * k \in 0 .. s - 1 /\ (m = n => k = m1)
  <2>1. LET both == it[0 .. Wide - 1]
        IN  /\ both \in Nat /\ both <= m % 2^Wide /\ both <= n % 2^Wide
            /\ (m % 2^Wide) + (n % 2^Wide) - 2 * both \in 0 .. 2^Wide - 1
            /\ m = n => both = m % 2^Wide
    <3>1. PICK j \in 0 .. Wide : j = Wide
      BY <1>1
    <3>2. LET both == it[0 .. j - 1]
          IN  /\ both \in Nat /\ both <= m % 2^j /\ both <= n % 2^j
              /\ (m % 2^j) + (n % 2^j) - 2 * both \in 0 .. 2^j - 1
              /\ m = n => both = m % 2^j
      BY ONLY <1>2, m \in Int, n \in Int, j \in 0 .. Wide, SharedBits
    <3> QED BY ONLY <3>1, <3>2
  <2>2. m % s \in Nat /\ n % s \in Nat
    <3>1. s \in Nat \ {0}
      BY <1>3
    <3>2. m % s \in 0 .. s - 1
      BY <3>1, DivMod
    <3>3. n % s \in 0 .. s - 1
      BY <3>1, DivMod
    <3> QED BY <3>2, <3>3
  <2> QED BY <1>3, <2>1, <2>2
<1>5. m1 = (IF m >= 0 THEN m ELSE m + s) /\ n1 = (IF n >= 0 THEN n ELSE n + s)
  <2>1. ASSUME NEW u \in Int, u \in -h .. h - 1 PROVE u % s = IF u >= 0 THEN u ELSE u + s
    <3>1. CASE u >= 0
      BY <1>3, <2>1, <3>1
    <3>2. CASE u < 0
      <4>1. PICK t \in Nat : t = u + s /\ t \in 0 .. s - 1
        BY <1>3, <2>1, <3>2
      <4>2. SameModulo(t, u, s)
        <5>1. t = u + s * 1 /\ 1 \in Int
          BY <4>1
        <5> QED BY <5>1 DEF SameModulo
      <4>3. t % s = u % s /\ t % s = t
        BY <1>3, <4>1, <4>2, ModSame
      <4> QED BY <3>2, <4>1, <4>3
    <3> QED BY <2>1, <3>1, <3>2
  <2> QED BY <1>4, <2>1
<1>10. /\ k <= m1 /\ k <= n1 /\ 0 <= m1 + n1 - 2 * k /\ m1 + n1 - 2 * k < s /\ (m = n => k = m1)
       /\ -h <= m /\ m < h /\ -h <= n /\ n < h /\ s = 2 * h
  BY <1>3, <1>4
<1>6. And(m, n) = IF k < h THEN k ELSE k - s
  <2>1. k \in 0 .. s - 1
    <3>1. m1 \in 0 .. s - 1
      BY <1>3, <1>5
    <3> QED BY <1>4, <3>1
  <2>2. Wide - 1 \in Nat /\ (Wide - 1) + 1 = Wide
    BY <1>1
  <2>3. PICK g \in Nat \ {0} : g = 2^(Wide - 1) /\ 2 * g = s
    BY <1>3, <2>2, PowerPositive, PowerDoubles
  <2>4. g = h
    BY <1>3, <2>3
  <2>5. AsSigned(k, Wide) = ((k + h) % s) - h
    BY <1>3, <2>3, <2>4 DEF AsSigned
  <2>6. (k + h) % s = IF k < h THEN k + h ELSE k + h - s
    <3>1. CASE k < h
      <4>1. k + h \in 0 .. s - 1 /\ k + h \in Int
        BY <1>3, <3>1
      <4> QED BY <1>3, <3>1, <4>1
    <3>2. CASE k >= h
      <4>1. PICK t \in Nat, u \in Int : u = k + h /\ t = u - s /\ t \in 0 .. s - 1
        BY <1>3, <2>1, <3>2
      <4>2. SameModulo(u, t, s)
        <5>1. u = t + s * 1 /\ 1 \in Int
          BY <4>1
        <5> QED BY <5>1 DEF SameModulo
      <4>3. u % s = t % s /\ t % s = t
        BY <1>3, <4>1, <4>2, ModSame
      <4> QED BY <3>2, <4>1, <4>3
    <3> QED BY <3>1, <3>2
  <2> QED BY <1>2, <1>4, <2>5, <2>6 DEF Int128
<1>7. Xor(m, n) = m + n - 2 * (IF k < h THEN k ELSE k - s)
  BY <1>6 DEF Xor
<1>8. CASE k < h
  <2>1. PICK u \in Int : u = m + n - 2 * k /\ Xor(m, n) = u
    BY <1>7, <1>8
  <2>2. CASE m >= 0 /\ n >= 0
    BY <1>10, <1>5, <2>1, <2>2
  <2>3. CASE m < 0 /\ n < 0
    BY <1>10, <1>5, <1>8, <2>1, <2>3
  <2>4. CASE m >= 0 /\ n < 0
    BY <1>10, <1>5, <1>8, <2>1, <2>4
  <2>5. CASE m < 0 /\ n >= 0
    BY <1>10, <1>5, <1>8, <2>1, <2>5
  <2> QED BY <2>2, <2>3, <2>4, <2>5
<1>9. CASE k >= h
  <2>1. PICK u \in Int : u = m + n - 2 * (k - s) /\ Xor(m, n) = u
    BY <1>7, <1>9
  <2>2. m < 0 /\ n < 0
    BY <1>10, <1>5, <1>9
  <2>3. u = m1 + n1 - 2 * k
    BY <1>5, <2>1, <2>2
  <2> QED BY <1>10, <1>5, <2>1, <2>2, <2>3
<1> QED BY <1>8, <1>9

(* Comparisons of lanes.                                                   *)
LEMMA SignedRange ==
  ASSUME NEW t \in DOMAIN Width, NEW m \in NumbersOf(t), t \in Unsigned => Width[t] < Wide
  PROVE  \E h \in Nat \ {0} : 2^Wide = 2 * h /\ m \in -h .. h - 1
<1>1. PICK h \in Nat \ {0}, s \in Nat \ {0}, big \in Nat \ {0} :
        h = 2^(Width[t] - 1) /\ s = 2^Width[t] /\ s = 2 * h /\ big = 2^Wide /\ (Width[t] < Wide => 2 * s <= big)
  BY Sizes
<1>2. PICK w \in Nat \ {0}, wide \in Nat \ {0} : w = Width[t] /\ wide = Wide /\ w <= wide
  BY WidthAssumption, WordsAssumption
<1>3. wide - 1 \in Nat /\ (wide - 1) + 1 = wide /\ w - 1 \in Nat /\ w - 1 <= wide - 1
  BY <1>2
<1>4. PICK half \in Nat \ {0} : half = 2^(wide - 1) /\ big = 2 * half
  BY <1>1, <1>2, <1>3, PowerPositive, PowerDoubles
<1>5. h <= half
  BY <1>1, <1>2, <1>3, <1>4, PowersGrow
<1>6. CASE t \in Unsigned
  BY <1>1, <1>4, <1>6 DEF NumbersOf, unsignedMaxOfWidth, bitWidth
<1>7. CASE t \notin Unsigned
  BY <1>1, <1>4, <1>5, <1>7 DEF NumbersOf, signedMinOfWidth, signedMaxOfWidth, bitWidth
<1> QED BY <1>6, <1>7

LEMMA LanesCompare ==
  ASSUME lane \in DOMAIN Width, lane \in Unsigned => Width[lane] < Wide,
         NEW m \in NumbersOf(lane), NEW n \in NumbersOf(lane), NEW o \in CompareOps
  PROVE  laneCompare(o, lane, m, n) <=> ComparedAs(o, m, n)
<1>1. m \in Int /\ n \in Int
  BY NumbersAre
<1>2. basic("xor", lane, m, n) = 0 <=> m = n
  <2>1. PICK h1 \in Nat \ {0} : 2^Wide = 2 * h1 /\ m \in -h1 .. h1 - 1
    BY SignedRange
  <2>2. PICK h2 \in Nat \ {0} : 2^Wide = 2 * h2 /\ n \in -h2 .. h2 - 1
    BY SignedRange
  <2>3. h1 = h2
    BY <2>1, <2>2
  <2>4. Xor(m, n) = 0 <=> m = n
    BY <1>1, <2>1, <2>2, <2>3, XorZero
  <2> QED BY <2>4 DEF basic
<1>3. /\ basic("max", lane, m, n) # m <=> m < n
      /\ basic("max", lane, n, m) # n <=> n < m
  BY <1>1 DEF basic
<1>4. ASSUME NEW p \in Int, NEW q \in Int
      PROVE  subb(lane, unsignedOf(p, lane), unsignedOf(q, lane), 0).carry <=> unsignedOf(p, lane) < unsignedOf(q, lane)
  <2>1. PICK s \in Nat \ {0}, big \in Nat \ {0}, w \in Nat \ {0} : s = 2^w /\ w = Width[lane] /\ big = 2^Wide /\ s <= big
    <3>1. PICK w \in Nat \ {0}, wide \in Nat \ {0} : w = Width[lane] /\ wide = Wide /\ w <= wide
      BY WidthAssumption, WordsAssumption
    <3>2. PICK s \in Nat \ {0}, big \in Nat \ {0} : s = 2^w /\ big = 2^wide
      BY PowerPositive
    <3>3. s <= big
      BY <3>1, <3>2, PowersGrow
    <3> QED BY <3>1, <3>2, <3>3
  <2>2. PICK u \in Int, t \in Int : u = unsignedOf(p, lane) /\ t = unsignedOf(q, lane) /\ t \in 0 .. s - 1
    <3>1. w \in Nat /\ AsUnsigned(p, w) \in Nat /\ AsUnsigned(q, w) \in Nat /\ AsUnsigned(q, w) \in 0 .. s - 1
      BY <2>1, UnsignedWord
    <3> QED BY <2>1, <3>1 DEF unsignedOf, bitWidth
  <2>3. t + 0 = t /\ t \in 0 .. 2^Wide - 1 /\ Wide \in Nat
    BY <2>1, <2>2, WordsAssumption
  <2>4. UInt128(t + 0) = t
    BY <2>2, <2>3, UnsignedWord DEF UInt128
  <2> QED BY <2>2, <2>4 DEF subb
<1>5. PICK u \in Int, t \in Int : u = unsignedOf(m, lane) /\ t = unsignedOf(n, lane)
  BY <1>1, UnsignedWord, WidthAssumption DEF unsignedOf, bitWidth
<1>6. /\ subb(lane, u, t, 0).carry <=> u < t
      /\ subb(lane, t, u, 0).carry <=> t < u
  BY <1>1, <1>4, <1>5
<1>7. CASE o \in {"vcmpeq", "vcmpne", "vcmplt", "vcmpgt", "vcmple", "vcmpge"}
  BY <1>1, <1>2, <1>3, <1>7 DEF laneCompare, ComparedAs
<1>8. CASE o \in {"vucmplt", "vucmpgt", "vucmple", "vucmpge"}
  BY <1>5, <1>6, <1>8 DEF laneCompare, ComparedAs
<1> QED BY <1>7, <1>8 DEF CompareOps
-----------------------------------------------------------------------------
(* The only instruction of a job.                                          *)

JobOf(c_, bank) == [width |-> c_[1], lane |-> c_[2], code |-> c_[3], vectors |-> bank[1], numbers |-> bank[2]]

VInv ==
  /\ \E c_ \in VectorCodes : \E bank \in VectorBanks(c_) : vjob = JobOf(c_, bank)
  /\ pc \in Nat /\ pc >= 1 /\ vthrew \in BOOLEAN
  /\ pc = 1 /\ ~ vthrew => vectors = vjob.vectors /\ numbers = vjob.numbers /\ vmemory = VectorBytes

LEMMA InitVector == VectorInit => VInv /\ ~ Single
<1> SUFFICES ASSUME VectorInit PROVE VInv /\ ~ Single
  OBVIOUS
<1>1. PICK c_ \in VectorCodes : \E bank \in VectorBanks(c_) :
        /\ vjob = JobOf(c_, bank)
        /\ vectors = bank[1] /\ numbers = bank[2] /\ vmemory = VectorBytes /\ pc = 1 /\ vthrew = FALSE
  BY DEF VectorInit, JobOf
<1>2. PICK bank \in VectorBanks(c_) :
        /\ vjob = JobOf(c_, bank)
        /\ vectors = bank[1] /\ numbers = bank[2] /\ vmemory = VectorBytes /\ pc = 1 /\ vthrew = FALSE
  BY <1>1
<1>3. vectors = vjob.vectors /\ numbers = vjob.numbers
  BY <1>2 DEF JobOf
<1>4. pc \in Nat /\ pc >= 1 /\ pc # 2 /\ vthrew = FALSE
  BY <1>2
<1>5. ~ Single
  BY <1>4 DEF Single
<1>6. \E d_ \in VectorCodes : \E e \in VectorBanks(d_) : vjob = JobOf(d_, e)
  BY <1>2
<1>7. vthrew \in BOOLEAN
  BY <1>4
<1> QED BY <1>2, <1>3, <1>4, <1>5, <1>6, <1>7, Zenon DEF VInv

(* A step goes to the next instruction or throws.                          *)
VectorStep ==
  /\ vjob' = vjob
  /\ \/ pc' = pc + 1 /\ vthrew' = vthrew
     \/ pc' = pc /\ vthrew' = TRUE

LEMMA ThrowSteps == VectorThrows => VectorStep
BY DEF VectorThrows, VectorStep

LEMMA SetSteps == \A w : Sets(w) => VectorStep
BY DEF Sets, VectorStep

LEMMA NumberSteps == \A t, n : SetsNumber(t, n) => VectorStep
BY DEF SetsNumber, VectorStep

LEMMA EachSteps == VInv /\ VectorNext => VectorStep /\ pc <= Len(code) /\ ~ vthrew
<1> SUFFICES ASSUME VInv, VectorNext PROVE VectorStep /\ pc <= Len(code) /\ ~ vthrew
  OBVIOUS
<1>1. CASE Lanewise
  BY <1>1, ThrowSteps, SetSteps DEF Lanewise, Issuing
<1>2. CASE Masked
  BY <1>2, ThrowSteps, SetSteps DEF Masked, Issuing
<1>3. CASE Move
  BY <1>3, ThrowSteps, SetSteps DEF Move, Issuing
<1>4. CASE OneLane
  BY <1>4, ThrowSteps, SetSteps DEF OneLane, Issuing
<1>5. CASE Compress \/ Parts
  BY <1>5, SetSteps DEF Compress, Parts, Issuing
<1>6. CASE KMask
  BY <1>6, ThrowSteps, NumberSteps DEF KMask, Issuing
<1>7. CASE ToMask \/ KNumber \/ Test
  BY <1>7, NumberSteps DEF ToMask, KNumber, Test, Issuing
<1>8. CASE Reduce
  BY <1>8, ThrowSteps, NumberSteps DEF Reduce, Issuing
<1>9. CASE Load
  BY <1>9, ThrowSteps, SetSteps DEF Load, Issuing
<1>10. CASE Store
  BY <1>10 DEF Store, Issuing, VectorStep, VInv
<1>11. CASE LoadAstray
  BY <1>11, ThrowSteps, SetSteps DEF LoadAstray, Issuing
<1>12. CASE StoreAstray
  BY <1>12 DEF StoreAstray, Issuing, VectorStep, VInv
<1> QED BY <1>1, <1>2, <1>3, <1>4, <1>5, <1>6, <1>7, <1>8, <1>9, <1>10, <1>11, <1>12 DEF VectorNext

LEMMA NextVector == VInv /\ [VectorNext]_vectorVars => VInv'
<1> SUFFICES ASSUME VInv, [VectorNext]_vectorVars PROVE VInv'
  OBVIOUS
<1>1. CASE VectorNext
  <2>1. VectorStep
    BY <1>1, EachSteps
  <2>2. pc' \in Nat /\ pc' >= 1 /\ vthrew' \in BOOLEAN /\ ~ (pc' = 1 /\ ~ vthrew')
    <3>1. pc \in Nat /\ pc >= 1 /\ vthrew \in BOOLEAN /\ vthrew = FALSE
      BY <1>1, EachSteps DEF VInv
    <3>2. CASE pc' = pc + 1 /\ vthrew' = vthrew
      <4>1. pc' \in Nat /\ pc' >= 1 /\ pc' # 1
        BY <3>1, <3>2
      <4> QED BY <3>1, <3>2, <4>1, Zenon
    <3>3. CASE pc' = pc /\ vthrew' = TRUE
      BY <3>1, <3>3, Zenon
    <3> QED BY <2>1, <3>2, <3>3 DEF VectorStep
  <2> QED BY <2>1, <2>2 DEF VInv, VectorStep
<1>2. CASE UNCHANGED vectorVars
  BY <1>2 DEF VInv, vectorVars
<1> QED BY <1>1, <1>2

(* It is the first and only step, and reads what the job began with.       *)
OnlyStep == VInv /\ VectorNext /\ Len(code) = 1 /\ pc = 1 /\ ~ vthrew /\ vjob' = vjob

LEMMA SingleStep ==
  ASSUME VInv, [VectorNext]_vectorVars, Single'
  PROVE  OnlyStep \/ (Single /\ UNCHANGED vectorVars)
<1>1. CASE VectorNext
  <2>1. VectorStep /\ pc <= Len(code) /\ ~ vthrew
    BY <1>1, EachSteps
  <2>2. Len(code) = 1
    BY <2>1 DEF Single, code, VectorStep
  <2>3. pc = 1
    BY <2>1, <2>2 DEF VInv
  <2> QED BY <1>1, <2>1, <2>2, <2>3 DEF OnlyStep, VectorStep
<1>2. CASE UNCHANGED vectorVars
  BY <1>2 DEF Single, vectorVars, code
<1> QED BY <1>1, <1>2

LEMMA OnlyRead ==
  ASSUME OnlyStep
  PROVE  /\ vop = only.op /\ args = had /\ code[pc] = only
         /\ vectors = vjob.vectors /\ numbers = vjob.numbers /\ vmemory = VectorBytes
BY DEF OnlyStep, VInv, vop, only, args, had, code

(* The action of each instruction.                                         *)
LEMMA VectorActionOf ==
  ASSUME VectorNext
  PROVE  /\ vop \in LanewiseOps => Lanewise
         /\ vop \in DOMAIN MaskedOps => Masked
         /\ vop \in LoadOps /\ ~ Wraps(vop, args) => Load
         /\ vop \in StoreOps /\ ~ Wraps(vop, args) => Store
<1> DEFINE Rest == MoveOps \cup OneLaneOps \cup CompressOps \cup PartOps \cup KMaskOps \cup {"kcvtmask"}
                     \cup KNumberOps \cup TestOps \cup ReduceOps
<1>1. Lanewise \/ Masked \/ Load \/ Store \/ LoadAstray \/ StoreAstray \/ vop \in Rest
  BY DEF VectorNext, Move, OneLane, Compress, Parts, KMask, ToMask, KNumber, Test, Reduce, Issuing
<1>2. /\ Lanewise => vop \in LanewiseOps
      /\ Masked => vop \in DOMAIN MaskedOps
      /\ Load => vop \in LoadOps
      /\ Store => vop \in StoreOps
      /\ LoadAstray => vop \in LoadOps /\ Wraps(vop, args)
      /\ StoreAstray => vop \in StoreOps /\ Wraps(vop, args)
  BY DEF Lanewise, Masked, Load, Store, LoadAstray, StoreAstray, Issuing
<1>3. LanewiseOps \cap (DOMAIN MaskedOps \cup LoadOps \cup StoreOps) = {}
  BY DEF LanewiseOps, CompareOps, LaneBinaryOps, ShiftOps, LaneUnaryOps, LaneTernaryOps, MaskedOps, LoadOps, StoreOps
<1>4. DOMAIN MaskedOps \cap (LoadOps \cup StoreOps) = {} /\ LoadOps \cap StoreOps = {}
  BY DEF MaskedOps, LoadOps, StoreOps
<1>5. Rest \cap LanewiseOps = {}
  BY DEF LanewiseOps, CompareOps, LaneBinaryOps, ShiftOps, LaneUnaryOps, LaneTernaryOps, MoveOps, HalfOps, ResizeOps,
         GroupOps, SelectOps, OneLaneOps, CompressOps, PartOps, KMaskOps, KNumberOps, TestOps, ReduceOps
<1>6. Rest \cap (DOMAIN MaskedOps \cup LoadOps \cup StoreOps) = {}
  BY DEF MaskedOps, LoadOps, StoreOps, MoveOps, HalfOps, ResizeOps, GroupOps, SelectOps, OneLaneOps, CompressOps,
         PartOps, KMaskOps, KNumberOps, TestOps, ReduceOps
<1> HIDE DEF Rest
<1> QED BY <1>1, <1>2, <1>3, <1>4, <1>5, <1>6

(* What the properties say of a job is the same after the step.            *)
LEMMA SameVectorJob ==
  ASSUME vjob' = vjob
  PROVE  /\ only' = only /\ had' = had /\ lane' = lane /\ LaneIds' = LaneIds /\ SelectedLanes' = SelectedLanes
         /\ \A o, ops, i : /\ scalarThrows(o, ops, i)' <=> scalarThrows(o, ops, i)
                           /\ scalarLane(o, ops, i)' = scalarLane(o, ops, i)
         /\ \A o, m, n : ComparedAs(o, m, n)' <=> ComparedAs(o, m, n)
         /\ laneBytes' = laneBytes /\ Selected' = Selected /\ Written' = Written
         /\ \A i : Cells(i)' = Cells(i) /\ place(only.op, had, i)' = place(only.op, had, i) /\ (Inside(i)' <=> Inside(i))
         /\ Wraps(only.op, had)' <=> Wraps(only.op, had)
<1>1. only' = only /\ had' = had /\ lane' = lane /\ nlanes' = nlanes
  BY DEF only, had, lane, nlanes, readOperands, readOperand, immediateType, code
<1>2. LaneIds' = LaneIds /\ SelectedLanes' = SelectedLanes
  BY <1>1 DEF LaneIds, SelectedLanes
<1>3. (\A o : scalarName(o)' = scalarName(o)) /\ \A o, n : Amount(o, n)' = Amount(o, n)
  BY <1>1 DEF scalarName, Amount
<1>4. \A o, ops, i : scalarThrows(o, ops, i)' <=> scalarThrows(o, ops, i)
  <2>1. ASSUME NEW o, NEW m, NEW n PROVE scalarRefused(o, m, n)' <=> scalarRefused(o, m, n)
    <3>1. scalarName(o)' = scalarName(o) /\ Amount(o, n)' = Amount(o, n) /\ lane' = lane
      BY <1>1, <1>3
    <3> QED BY <3>1 DEF scalarRefused
  <2> QED BY <1>1, <2>1 DEF scalarThrows
<1>5. \A o, ops, i : scalarLane(o, ops, i)' = scalarLane(o, ops, i)
  <2>1. ASSUME NEW o, NEW m, NEW n, NEW r PROVE scalar(o, m, n, r)' = scalar(o, m, n, r)
    <3>1. scalarName(o)' = scalarName(o) /\ Amount(o, n)' = Amount(o, n) /\ lane' = lane
      BY <1>1, <1>3
    <3> QED BY <3>1 DEF scalar
  <2> QED BY <1>1, <2>1, Zenon DEF scalarLane
<1>6. \A o, m, n : ComparedAs(o, m, n)' <=> ComparedAs(o, m, n)
  BY <1>1 DEF ComparedAs
<1>7. laneBytes' = laneBytes /\ Selected' = Selected
  BY <1>1 DEF laneBytes, Selected, touched
<1>8. \A i : place(only.op, had, i)' = place(only.op, had, i)
  BY <1>1, <1>7 DEF place, touched
<1>9. \A i : Cells(i)' = Cells(i) /\ (Inside(i)' <=> Inside(i))
  BY <1>1, <1>7, <1>8 DEF Cells, Inside
<1>10. Written' = Written
  BY <1>1, <1>7, <1>9 DEF Written
<1>11. Wraps(only.op, had)' <=> Wraps(only.op, had)
  BY <1>1, <1>7, <1>8 DEF Wraps, touched
<1> QED BY <1>1, <1>2, <1>4, <1>5, <1>6, <1>7, <1>8, <1>9, <1>10, <1>11
-----------------------------------------------------------------------------
(* What the hypotheses say of the job.                                     *)
LEMMA LaneCounts ==
  ASSUME VectorsFit, NEW width \in DOMAIN VectorWidth, NEW t \in DOMAIN Width
  PROVE  /\ vectorLaneCount(width, t) \in Nat
         /\ 0 .. vectorLaneCount(width, t) - 1 \subseteq Lanes(t)
<1>1. PICK n \in Nat, top \in Nat, w \in Nat \ {0} :
        n = VectorWidth[width] /\ top = VectorWidth["v512"] /\ w = Width[t] /\ n <= top
  BY WidthAssumption DEF VectorsFit
<1>2. PICK q \in Int, r \in 0 .. w - 1 : q = n \div w /\ r = n % w /\ n = w * q + r
  BY DivMod
<1>3. PICK q2 \in Int, r2 \in 0 .. w - 1 : q2 = top \div w /\ r2 = top % w /\ top = w * q2 + r2
  BY DivMod
<1>4. q >= 0
  <2>1. ASSUME q <= -1 PROVE FALSE
    <3>1. w * q <= w * (-1)
      BY <2>1
    <3>2. w * (-1) = -w
      OBVIOUS
    <3> QED BY <1>2, <3>1, <3>2
  <2> QED BY <2>1
<1>5. q <= q2
  <2>1. ASSUME q2 + 1 <= q PROVE FALSE
    <3>1. w * (q2 + 1) <= w * q
      BY <2>1
    <3>2. w * (q2 + 1) = w * q2 + w
      OBVIOUS
    <3>3. PICK u \in Int, t2 \in Int : u = w * q /\ t2 = w * q2
      OBVIOUS
    <3> QED BY <1>1, <1>2, <1>3, <3>1, <3>2, <3>3
  <2> QED BY <2>1
<1>6. vectorLaneCount(width, t) = q /\ vectorLaneCount("v512", t) = q2
  BY <1>1, <1>2, <1>3 DEF vectorLaneCount, bitWidth
<1> QED BY <1>4, <1>5, <1>6 DEF Lanes

JobFits(bank) ==
  /\ vjob.vectors = bank[1] /\ vjob.numbers = bank[2]
  /\ bank[1] \in [DOMAIN bank[1] -> VectorsOf(lane)] /\ bank[2] \in [DOMAIN bank[2] -> Int]
  /\ OperandsFit(only, bank)

LEMMA JobIs ==
  ASSUME VectorsFit, VInv, Len(code) = 1
  PROVE  /\ lane \in DOMAIN Width /\ Width[lane] % ByteBits = 0
         /\ nlanes \in Nat /\ LaneIds \subseteq Lanes(lane)
         /\ \E bank : JobFits(bank)
         /\ SumsFit => (~ isSignedLane(lane) => Width[lane] < Wide)
<1>1. PICK c_ \in VectorCodes : \E bank \in VectorBanks(c_) : vjob = JobOf(c_, bank)
  BY DEF VInv
<1>2. PICK bank \in VectorBanks(c_) : vjob = JobOf(c_, bank)
  BY <1>1
<1>3. /\ vjob.width = c_[1] /\ lane = c_[2] /\ code = c_[3] /\ vjob.vectors = bank[1] /\ vjob.numbers = bank[2]
      /\ only = c_[3][1]
  BY <1>2 DEF JobOf, lane, code, only
<1>4. /\ c_[1] \in DOMAIN VectorWidth /\ c_[2] \in DOMAIN Width /\ Width[c_[2]] % ByteBits = 0
      /\ bank[1] \in [DOMAIN bank[1] -> VectorsOf(c_[2])] /\ bank[2] \in [DOMAIN bank[2] -> Int]
      /\ Len(c_[3]) = 1 => OperandsFit(c_[3][1], bank)
  BY DEF VectorsFit
<1>5. JobFits(bank)
  BY <1>3, <1>4 DEF JobFits
<1>6. nlanes \in Nat /\ LaneIds \subseteq Lanes(lane)
  BY <1>3, <1>4, LaneCounts DEF nlanes, LaneIds
<1> QED BY <1>3, <1>4, <1>5, <1>6 DEF SumsFit

LEMMA HadIs ==
  ASSUME VectorsFit, lane \in DOMAIN Width, NEW bank, JobFits(bank), NEW k \in DOMAIN only.in
  PROVE  /\ GivesVector(bank, only.in[k]) => had[k] \in VectorsOf(lane)
         /\ GivesNumber(bank, only.in[k]) => had[k] \in Int
<1>1. had[k] = readOperand(vjob.vectors, vjob.numbers, only, k)
  BY DEF had, readOperands
<1>2. ASSUME GivesVector(bank, only.in[k]) PROVE had[k] \in VectorsOf(lane)
  <2>1. only.in[k][1] = "v" /\ only.in[k][2] \in DOMAIN bank[1]
    BY <1>2 DEF GivesVector
  <2>2. had[k] = bank[1][only.in[k][2]]
    BY <1>1, <2>1 DEF readOperand, JobFits
  <2> QED BY <2>1, <2>2 DEF JobFits
<1>3. ASSUME only.in[k][1] = "n", only.in[k][2] \in DOMAIN bank[2] PROVE had[k] \in Int
  <2>1. had[k] = bank[2][only.in[k][2]]
    BY <1>1, <1>3 DEF readOperand, JobFits
  <2> QED BY <1>3, <2>1 DEF JobFits
<1>4. ASSUME only.in[k][1] = "i", only.in[k][2] \in Int PROVE had[k] \in Int
  <2>1. immediateType(only, k) \in DOMAIN Width
    BY DEF immediateType, VectorsFit
  <2>2. had[k] = Number(immediateType(only, k), only.in[k][2])
    BY <1>1, <1>4 DEF readOperand
  <2> QED BY <1>4, <2>1, <2>2, WrittenWord DEF Number
<1> QED BY <1>2, <1>3, <1>4 DEF GivesNumber

LEMMA HadDomain ==
  ASSUME NEW bank, JobFits(bank)
  PROVE  /\ Len(only.in) \in Nat /\ DOMAIN only.in = 1 .. Len(only.in)
         /\ had = [k \in 1 .. Len(only.in) |-> had[k]] /\ DOMAIN had = 1 .. Len(only.in)
<1>1. PICK R : R = Range(only.in)
  OBVIOUS
<1>2. only.in \in Seq(R)
  BY <1>1 DEF JobFits, OperandsFit
<1>3. Len(only.in) \in Nat /\ DOMAIN only.in = 1 .. Len(only.in)
  BY <1>2
<1> QED BY <1>3 DEF had, readOperands
-----------------------------------------------------------------------------
(* What one lane of a lanewise or of a masked instruction is.              *)
LEMMA PieceIsLane ==
  ASSUME lane \in DOMAIN Width, LaneIds \subseteq Lanes(lane),
         NEW o \in HasScalar, o = "vaddsat" /\ ~ isSignedLane(lane) => Width[lane] < Wide,
         NEW ops, \A k \in DOMAIN ops : ops[k] \in VectorsOf(lane), 1 .. Operated(o) \subseteq DOMAIN ops,
         NEW i \in LaneIds
  PROVE  /\ laneRefused(o, lane, ops, i) <=> scalarThrows(o, ops, i)
         /\ ~ laneRefused(o, lane, ops, i) => Number(lane, lanewise(o, lane, ops, i)) = scalarLane(o, ops, i)
<1> DEFINE m == piece(ops, 1, i)
           n == piece(ops, 2, i)
           r == piece(ops, 3, i)
<1>1. 1 \in DOMAIN ops /\ (o \notin LaneUnaryOps => 2 \in DOMAIN ops) /\ (o \in LaneTernaryOps => 3 \in DOMAIN ops)
  <2>1. o \in LaneUnaryOps => o \notin LaneTernaryOps
    BY DEF LaneUnaryOps, LaneTernaryOps
  <2>2. Operated(o) \in {1, 2, 3} /\ (o \notin LaneUnaryOps => Operated(o) >= 2) /\ (o \in LaneTernaryOps => Operated(o) = 3)
    BY <2>1 DEF Operated
  <2>3. \A k \in 1 .. Operated(o) : k \in DOMAIN ops
    OBVIOUS
  <2> QED BY <2>2, <2>3
<1>2. \A k \in DOMAIN ops : ops[k][i] \in NumbersOf(lane) /\ ops[k][i] \in Int
  BY NumbersAre DEF VectorsOf
<1>3. m = ops[1][i] /\ m \in NumbersOf(lane)
  BY <1>1, <1>2 DEF piece
<1>4. n \in Int
  BY <1>2 DEF piece
<1>5. o \notin LaneUnaryOps => n = ops[2][i] /\ n \in NumbersOf(lane)
  BY <1>1, <1>2 DEF piece
<1>6. o \in LaneTernaryOps => r = ops[3][i]
  BY <1>1 DEF piece
<1>7. o \in {"vdiv", "vmulhi", "vaddsat", "vsubsat"} \cup ShiftOps => o \notin LaneUnaryOps
  BY DEF ShiftOps, LaneUnaryOps
<1> HIDE DEF m, n, r
<1>8. laneRefused(o, lane, ops, i) <=> laneThrows(o, m, n)
  BY <1>3, <1>5, <1>7 DEF laneRefused, laneThrows
<1>9. laneRefused(o, lane, ops, i) <=> scalarThrows(o, ops, i)
  <2>1. m \in Int
    BY <1>3, NumbersAre
  <2> QED BY <1>4, <1>8, <2>1, ThrowsAsScalar DEF scalarThrows, m, n
<1>10. ASSUME ~ laneRefused(o, lane, ops, i)
       PROVE  Number(lane, lanewise(o, lane, ops, i)) = scalarLane(o, ops, i)
  <2>1. o \in {"vshl", "vshlv", "vshr", "vshrv"} => n >= 0
    <3>1. o \in {"vshl", "vshlv", "vshr", "vshrv"} => ~ BadAmount(lane, n)
      BY <1>8, <1>10 DEF laneThrows, ShiftOps
    <3> QED BY <1>4, <3>1 DEF BadAmount, BadIndex
  <2>2. Number(lane, laneValue(o, m, n, r)) = Number(lane, scalar(o, m, n, r))
    BY <1>3, <1>4, <1>5, <1>7, <2>1, LaneIsScalar
  <2>3. lanewise(o, lane, ops, i) = laneValue(o, m, n, r)
    <3>1. o \notin CompareOps /\ o # "vternlog" /\ o \in LaneBinaryOps \cup LaneUnaryOps \cup LaneTernaryOps
      BY DEF HasScalar, AsScalar, BySign, CompareOps, LaneBinaryOps, ShiftOps, LaneUnaryOps, LaneTernaryOps
    <3>2. CASE o \in LaneBinaryOps
      <4>1. o \notin LaneUnaryOps
        BY <3>2 DEF LaneBinaryOps, ShiftOps, LaneUnaryOps
      <4> QED BY <1>3, <1>5, <3>1, <3>2, <4>1, LaneValueIs DEF lanewise
    <3>3. CASE o \in LaneUnaryOps
      <4>1. o \notin LaneBinaryOps
        BY <3>3 DEF LaneBinaryOps, ShiftOps, LaneUnaryOps
      <4> QED BY <1>3, <3>1, <3>3, <4>1, LaneValueIs DEF lanewise
    <3>4. CASE o \in LaneTernaryOps
      <4>1. o \notin LaneBinaryOps /\ o \notin LaneUnaryOps
        BY <3>4 DEF LaneBinaryOps, ShiftOps, LaneUnaryOps, LaneTernaryOps
      <4> QED BY <1>3, <1>5, <1>6, <3>1, <3>4, <4>1, LaneValueIs DEF lanewise
    <3> QED BY <3>1, <3>2, <3>3, <3>4
  <2> QED BY <2>2, <2>3 DEF scalarLane, m, n, r
<1> QED BY <1>9, <1>10

(* The vectors and the lanes of a lanewise instruction.                    *)
LEMMA LanewiseOperands ==
  ASSUME VectorsFit, lane \in DOMAIN Width, NEW bank, JobFits(bank), only.op \in LanewiseOps \ {"vternlog"}
  PROVE  (\A k \in DOMAIN had : had[k] \in VectorsOf(lane)) /\ 1 .. Operated(only.op) \subseteq DOMAIN had
<1>1. /\ \A k \in 1 .. Len(only.in) : GivesVector(bank, only.in[k])
      /\ Len(only.in) >= Operated(only.op)
  BY DEF JobFits, OperandsFit
<1>2. Len(only.in) \in Nat /\ DOMAIN only.in = 1 .. Len(only.in) /\ DOMAIN had = 1 .. Len(only.in)
  BY HadDomain
<1>3. \A k \in DOMAIN had : had[k] \in VectorsOf(lane)
  BY <1>1, <1>2, HadIs
<1>4. Operated(only.op) \in {1, 2, 3}
  BY DEF Operated
<1> QED BY <1>1, <1>2, <1>3, <1>4

(* What a lanewise instruction did.                                        *)
LEMMA LanewiseDid ==
  ASSUME VectorsFit, OnlyStep, only.op \in LanewiseOps
  PROVE  \/ vthrew' = TRUE /\ \E i \in LaneIds : laneRefused(only.op, lane, had, i)
         \/ /\ vthrew' = FALSE /\ ~ \E i \in LaneIds : laneRefused(only.op, lane, had, i)
            /\ \A i \in LaneIds : result'[i] = Number(lane, lanewise(only.op, lane, had, i))
<1>0. VInv /\ Len(code) = 1 /\ vthrew = FALSE /\ VectorNext /\ vjob' = vjob
  BY DEF OnlyStep, VInv
<1>1. PICK bank : JobFits(bank)
  BY <1>0, JobIs
<1>2. only.op = vop /\ args = had /\ code[pc] = only /\ vectors = bank[1]
  BY <1>1, OnlyRead DEF JobFits
<1>3. LaneIds \subseteq Lanes(lane) /\ nlanes \in Nat
  BY <1>0, JobIs
<1>4. only.dest \in DOMAIN vectors
  BY <1>1, <1>2 DEF JobFits, OperandsFit
<1>5. Lanewise
  BY <1>0, <1>2, VectorActionOf
<1>6. CASE \E i \in LaneIds : laneRefused(only.op, lane, had, i)
  <2>1. VectorThrows
    BY <1>2, <1>5, <1>6 DEF Lanewise, LaneIds
  <2> QED BY <1>6, <2>1 DEF VectorThrows
<1>7. CASE ~ \E i \in LaneIds : laneRefused(only.op, lane, had, i)
  <2>1. Sets(Vector(lane, nlanes, LAMBDA i : Number(lane, lanewise(only.op, lane, had, i))))
    BY <1>2, <1>5, <1>7 DEF Lanewise, LaneIds
  <2>2. PICK w : /\ w = Vector(lane, nlanes, LAMBDA i : Number(lane, lanewise(only.op, lane, had, i)))
                 /\ Sets(w)
    BY <2>1
  <2>3. result' = w /\ vthrew' = FALSE
    <3>1. only' = only
      BY <1>0, SameVectorJob
    <3> QED BY <1>0, <1>2, <1>4, <2>2, <3>1 DEF Sets, result
  <2>4. w = [i \in Lanes(lane) |-> IF i < nlanes THEN Number(lane, lanewise(only.op, lane, had, i)) ELSE 0]
    BY <2>2 DEF Vector
  <2>5. ASSUME NEW i \in LaneIds PROVE w[i] = Number(lane, lanewise(only.op, lane, had, i))
    <3>1. i \in Lanes(lane) /\ i < nlanes
      BY <1>3 DEF LaneIds
    <3> QED BY <2>4, <3>1
  <2> QED BY <1>7, <2>3, <2>5
<1> QED BY <1>6, <1>7

LEMMA StepScalars ==
  ASSUME VectorsFit, SumsFit, OnlyStep
  PROVE  LanesAreScalars'
<1>0. VInv /\ Len(code) = 1 /\ vjob' = vjob
  BY DEF OnlyStep
<1>1. PICK bank : JobFits(bank)
  BY <1>0, JobIs
<1>2. lane \in DOMAIN Width /\ (~ isSignedLane(lane) => Width[lane] < Wide) /\ LaneIds \subseteq Lanes(lane)
  BY <1>0, JobIs
<1>3. /\ only' = only /\ had' = had /\ lane' = lane /\ LaneIds' = LaneIds
      /\ \A o, ops, i : /\ scalarThrows(o, ops, i)' <=> scalarThrows(o, ops, i)
                        /\ scalarLane(o, ops, i)' = scalarLane(o, ops, i)
      /\ \A o, m, n : ComparedAs(o, m, n)' <=> ComparedAs(o, m, n)
  BY <1>0, SameVectorJob
<1>4. ASSUME only.op \in HasScalar
      PROVE  /\ vthrew' = (\E i \in LaneIds : scalarThrows(only.op, had, i))
             /\ ~ vthrew' => \A i \in LaneIds : result'[i] = scalarLane(only.op, had, i)
  <2>1. only.op \in LanewiseOps \ {"vternlog"}
    BY <1>4 DEF HasScalar, AsScalar, BySign, LanewiseOps, LaneBinaryOps, ShiftOps, LaneUnaryOps, LaneTernaryOps
  <2>2. (\A k \in DOMAIN had : had[k] \in VectorsOf(lane)) /\ 1 .. Operated(only.op) \subseteq DOMAIN had
    BY <1>1, <1>2, <2>1, LanewiseOperands
  <2>3. \A i \in LaneIds :
          /\ laneRefused(only.op, lane, had, i) <=> scalarThrows(only.op, had, i)
          /\ ~ laneRefused(only.op, lane, had, i) => Number(lane, lanewise(only.op, lane, had, i)) = scalarLane(only.op, had, i)
    BY <1>2, <1>4, <2>2, PieceIsLane
  <2>4. \/ vthrew' = TRUE /\ \E i \in LaneIds : laneRefused(only.op, lane, had, i)
        \/ /\ vthrew' = FALSE /\ ~ \E i \in LaneIds : laneRefused(only.op, lane, had, i)
           /\ \A i \in LaneIds : result'[i] = Number(lane, lanewise(only.op, lane, had, i))
    BY <2>1, LanewiseDid
  <2> QED BY <2>3, <2>4
<1>5. ASSUME only.op \in CompareOps
      PROVE  \A i \in LaneIds : result'[i] = IF ComparedAs(only.op, had[1][i], had[2][i]) THEN allOnes(lane) ELSE 0
  <2>1. only.op \in LanewiseOps \ {"vternlog"}
    BY <1>5 DEF LanewiseOps, CompareOps
  <2>2. (\A k \in DOMAIN had : had[k] \in VectorsOf(lane)) /\ 1 .. Operated(only.op) \subseteq DOMAIN had
    BY <1>1, <1>2, <2>1, LanewiseOperands
  <2>3. 1 \in DOMAIN had /\ 2 \in DOMAIN had
    <3>1. Operated(only.op) = 2
      BY <1>5 DEF Operated, CompareOps, LaneUnaryOps, LaneTernaryOps
    <3> QED BY <2>2, <3>1
  <2>4. \A i \in LaneIds : laneCompare(only.op, lane, had[1][i], had[2][i]) <=> ComparedAs(only.op, had[1][i], had[2][i])
    <3>1. \A i \in LaneIds : had[1][i] \in NumbersOf(lane) /\ had[2][i] \in NumbersOf(lane)
      BY <1>2, <2>2, <2>3 DEF VectorsOf
    <3>2. lane \in Unsigned => Width[lane] < Wide
      BY <1>2 DEF isSignedLane
    <3> QED BY <1>2, <1>5, <3>1, <3>2, LanesCompare
  <2>5. \A i : lanewise(only.op, lane, had, i)
                 = IF laneCompare(only.op, lane, had[1][i], had[2][i]) THEN allOnes(lane) ELSE 0
    BY <1>5, <2>1 DEF lanewise, CompareOps, LaneBinaryOps, ShiftOps, LaneUnaryOps
  <2>6. Number(lane, allOnes(lane)) = allOnes(lane) /\ Number(lane, 0) = 0
    <3>1. Number(lane, -1) \in Int /\ SameModulo(Number(lane, -1), -1, 2^Width[lane])
      BY <1>2, WrittenWord DEF Number
    <3>2. Number(lane, Number(lane, -1)) = Number(lane, -1)
      BY <1>2, <3>1, SameNumber
    <3>3. Number(lane, 0) = 0
      <4>1. PICK h \in Nat \ {0}, s \in Nat \ {0} : h = 2^(Width[lane] - 1) /\ s = 2^Width[lane]
        BY <1>2, Sizes
      <4>2. 0 \in 0 .. s - 1 /\ 0 \in -h .. h - 1 /\ Width[lane] \in Nat \ {0}
        BY <1>2, WidthAssumption
      <4>3. AsUnsigned(0, Width[lane]) = 0 /\ AsSigned(0, Width[lane]) = 0
        <5>1. PICK w \in Nat \ {0}, zero \in Int : w = Width[lane] /\ zero = 0
          BY <4>2
        <5>2. AsUnsigned(zero, w) = zero
          BY <4>1, <4>2, <5>1, UnsignedWord
        <5>3. AsSigned(zero, w) = zero
          BY <4>1, <4>2, <5>1, SignedWord
        <5> QED BY <5>1, <5>2, <5>3
      <4> QED BY <4>3 DEF Number, fromInt128
    <3> QED BY <3>2, <3>3 DEF allOnes
  <2>7. ~ \E i \in LaneIds : laneRefused(only.op, lane, had, i)
    BY <1>5 DEF laneRefused, CompareOps, ShiftOps
  <2>8. \A i \in LaneIds : result'[i] = Number(lane, lanewise(only.op, lane, had, i))
    BY <2>1, <2>7, LanewiseDid
  <2> QED BY <2>4, <2>5, <2>6, <2>8
<1>6. vthrew' \in BOOLEAN
  BY NextVector DEF OnlyStep, VInv
<1> QED BY <1>3, <1>4, <1>5 DEF LanesAreScalars

(* A lanewise instruction gives on every lane what the scalar instruction  *)
(* of the same name gives a register of the lane type, and throws if and   *)
(* only if that would on some lane.                                        *)
THEOREM LanesGiveScalars ==
  ASSUME VectorsFit, SumsFit
  PROVE  VectorSpec => []LanesAreScalars
<1>1. VectorInit => VInv /\ LanesAreScalars
  BY InitVector DEF LanesAreScalars
<1>2. VInv /\ LanesAreScalars /\ [VectorNext]_vectorVars => VInv' /\ LanesAreScalars'
  <2> SUFFICES ASSUME VInv, LanesAreScalars, [VectorNext]_vectorVars PROVE LanesAreScalars'
    BY NextVector
  <2>1. CASE OnlyStep
    BY <2>1, StepScalars
  <2>2. CASE UNCHANGED vectorVars
    <3>1. vjob' = vjob /\ vectors' = vectors /\ pc' = pc /\ vthrew' = vthrew
      BY <2>2 DEF vectorVars
    <3>2. /\ only' = only /\ had' = had /\ lane' = lane /\ LaneIds' = LaneIds
          /\ \A o, ops, i : /\ scalarThrows(o, ops, i)' <=> scalarThrows(o, ops, i)
                            /\ scalarLane(o, ops, i)' = scalarLane(o, ops, i)
          /\ \A o, m, n : ComparedAs(o, m, n)' <=> ComparedAs(o, m, n)
      BY <3>1, SameVectorJob
    <3>3. (Single' <=> Single) /\ result' = result
      BY <3>1, <3>2 DEF Single, code, result
    <3> QED BY <3>1, <3>2, <3>3 DEF LanesAreScalars
  <2>3. CASE ~ Single'
    BY <2>3 DEF LanesAreScalars
  <2> QED BY <2>1, <2>2, <2>3, SingleStep
<1> QED BY <1>1, <1>2, PTL DEF VectorSpec
-----------------------------------------------------------------------------
(* Masked instructions.                                                    *)
LEMMA MaskedOperands ==
  ASSUME VectorsFit, lane \in DOMAIN Width, NEW bank, JobFits(bank), only.op \in DOMAIN MaskedOps
  PROVE  /\ BaseOp(only.op, had) \in HasScalar \ {"vaddsat"}
         /\ \A k \in DOMAIN Tail(had) : Tail(had)[k] \in VectorsOf(lane)
         /\ 1 .. Operated(BaseOp(only.op, had)) \subseteq DOMAIN Tail(had)
<1>1. PICK n \in Nat : n = Len(only.in) /\ DOMAIN only.in = 1 .. n /\ DOMAIN had = 1 .. n /\ had = [k \in 1 .. n |-> had[k]]
  BY HadDomain
<1>2. (\A k \in 2 .. n : GivesVector(bank, only.in[k])) /\ n > Operated(MaskedOps[only.op])
  BY <1>1 DEF JobFits, OperandsFit
<1>3. Operated(MaskedOps[only.op]) \in {1, 2, 3} /\ Operated("vmla") = 3
  BY DEF Operated, LaneUnaryOps, LaneTernaryOps
<1>4. PICK R : R = Range(had)
  OBVIOUS
<1>5. had \in Seq(R) /\ Len(had) = n /\ had # <<>>
  <2>1. \A k \in 1 .. n : had[k] \in R
    BY <1>1, <1>4 DEF Range
  <2>2. had \in [1 .. n -> R]
    BY <1>1, <2>1
  <2>3. n # 0
    BY <1>2, <1>3
  <2>4. had \in Seq(R)
    BY <2>2
  <2>5. Len(had) = n
    BY <1>1, <2>4
  <2> QED BY <2>3, <2>4, <2>5
<1>6. DOMAIN Tail(had) = 1 .. n - 1 /\ \A k \in 1 .. n - 1 : Tail(had)[k] = had[k + 1]
  <2>1. Tail(had) \in Seq(R) /\ Len(Tail(had)) = n - 1 /\ \A k \in 1 .. Len(Tail(had)) : Tail(had)[k] = had[k + 1]
    BY <1>5, HeadTailProperties
  <2> QED BY <2>1
<1>7. \A k \in DOMAIN Tail(had) : Tail(had)[k] \in VectorsOf(lane)
  <2>1. \A k \in 1 .. n - 1 : k + 1 \in 2 .. n /\ k + 1 \in DOMAIN only.in
    BY <1>1
  <2>2. \A k \in 1 .. n - 1 : had[k + 1] \in VectorsOf(lane)
    BY <1>2, <2>1, HadIs
  <2> QED BY <1>6, <2>2
<1>8. BaseOp(only.op, had) = IF n > 3 THEN "vmla" ELSE MaskedOps[only.op]
  BY <1>5 DEF BaseOp
<1>9. n - 1 >= Operated(BaseOp(only.op, had)) /\ Operated(BaseOp(only.op, had)) \in {1, 2, 3}
  <2>1. CASE n > 3
    BY <1>3, <1>8, <2>1
  <2>2. CASE ~ (n > 3)
    BY <1>2, <1>3, <1>8, <2>2
  <2> QED BY <2>1, <2>2
<1>10. DOMAIN Tail(had) = 1 .. n - 1
  BY <1>6
<1>11. MaskedOps[only.op] \in HasScalar \ {"vaddsat"} /\ "vmla" \in HasScalar \ {"vaddsat"}
  BY DEF MaskedOps, HasScalar, AsScalar, BySign
<1>12. 1 .. Operated(BaseOp(only.op, had)) \subseteq DOMAIN Tail(had)
  BY <1>9, <1>10
<1> QED BY <1>7, <1>8, <1>11, <1>12

LEMMA StepMasks ==
  ASSUME VectorsFit, OnlyStep, only.op \in DOMAIN MaskedOps
  PROVE  MaskedArithmetic'
<1> DEFINE ops == Tail(had)
           base == BaseOp(only.op, had)
<1>0. VInv /\ Len(code) = 1 /\ vthrew = FALSE /\ VectorNext /\ vjob' = vjob
  BY DEF OnlyStep, VInv
<1>1. PICK bank : JobFits(bank)
  BY <1>0, JobIs
<1>2. lane \in DOMAIN Width /\ LaneIds \subseteq Lanes(lane) /\ nlanes \in Nat
  BY <1>0, JobIs
<1>3. only.op = vop /\ args = had /\ code[pc] = only /\ vectors = bank[1]
  BY <1>1, OnlyRead DEF JobFits
<1>4. only.dest \in DOMAIN vectors
  BY <1>1, <1>3 DEF JobFits, OperandsFit
<1>5. /\ base \in HasScalar \ {"vaddsat"}
      /\ \A k \in DOMAIN ops : ops[k] \in VectorsOf(lane)
      /\ 1 .. Operated(base) \subseteq DOMAIN ops
  BY <1>1, <1>2, MaskedOperands
<1>6. \A i \in LaneIds :
        /\ laneRefused(base, lane, ops, i) <=> scalarThrows(base, ops, i)
        /\ ~ laneRefused(base, lane, ops, i) => Number(lane, lanewise(base, lane, ops, i)) = scalarLane(base, ops, i)
  <2> HIDE DEF ops, base
  <2> QED BY <1>2, <1>5, PieceIsLane
<1>7. SelectedLanes = Chosen(had[1], nlanes) /\ SelectedLanes \subseteq LaneIds
  BY DEF SelectedLanes, Chosen, LaneIds
<1>8. Masked
  BY <1>0, <1>3, VectorActionOf
<1>9. maskedRefused(vop, lane, nlanes, args) <=> \E i \in SelectedLanes : laneRefused(base, lane, ops, i)
  BY <1>3, <1>7 DEF maskedRefused
<1> HIDE DEF ops, base
<1>10. /\ only' = only /\ had' = had /\ lane' = lane /\ LaneIds' = LaneIds /\ SelectedLanes' = SelectedLanes
       /\ \A o, z_, i : /\ scalarThrows(o, z_, i)' <=> scalarThrows(o, z_, i)
                        /\ scalarLane(o, z_, i)' = scalarLane(o, z_, i)
  BY <1>0, SameVectorJob
<1>11. CASE \E i \in SelectedLanes : laneRefused(base, lane, ops, i)
  <2>1. vthrew' = TRUE
    BY <1>8, <1>9, <1>11 DEF Masked, VectorThrows
  <2>2. \E i \in SelectedLanes : scalarThrows(base, ops, i)
    BY <1>6, <1>7, <1>11
  <2> QED BY <1>10, <2>1, <2>2 DEF MaskedArithmetic, ops, base
<1>12. CASE ~ \E i \in SelectedLanes : laneRefused(base, lane, ops, i)
  <2>1. Sets(vectorComputeMasked(vop, lane, nlanes, args))
    BY <1>8, <1>9, <1>12 DEF Masked
  <2>2. PICK w : w = vectorComputeMasked(vop, lane, nlanes, args) /\ Sets(w)
    BY <2>1
  <2>3. result' = w /\ vthrew' = FALSE
    BY <1>0, <1>3, <1>4, <1>10, <2>2 DEF Sets, result
  <2>4. w = [i \in Lanes(lane) |->
               IF i \in SelectedLanes THEN Number(lane, lanewise(base, lane, ops, i))
               ELSE IF only.op \in Zeroing THEN 0 ELSE ops[1][i]]
    BY <1>3, <1>7, <2>2 DEF vectorComputeMasked, ops, base
  <2>5. ASSUME NEW i \in LaneIds
        PROVE  w[i] = IF i \in SelectedLanes THEN scalarLane(base, ops, i)
                      ELSE IF only.op \in Zeroing THEN 0 ELSE ops[1][i]
    BY <1>2, <1>6, <1>12, <2>4
  <2>6. ~ \E i \in SelectedLanes : scalarThrows(base, ops, i)
    BY <1>6, <1>7, <1>12
  <2> QED BY <1>10, <2>3, <2>5, <2>6 DEF MaskedArithmetic, ops, base
<1> QED BY <1>11, <1>12
-----------------------------------------------------------------------------
(* Accesses of memory.                                                     *)

(* A lane is of whole bytes, and its place is an address.                  *)
LEMMA LaneSize ==
  ASSUME lane \in DOMAIN Width, Width[lane] % ByteBits = 0
  PROVE  laneBytes \in Nat \ {0} /\ laneBytes * ByteBits = Width[lane]
<1>1. PICK w \in Nat \ {0}, b_ \in Nat \ {0} : w = Width[lane] /\ b_ = ByteBits /\ w % b_ = 0
  BY WidthAssumption, WordsAssumption
<1>2. PICK q \in Int, r \in 0 .. b_ - 1 : q = w \div b_ /\ r = w % b_ /\ w = b_ * q + r
  BY DivMod
<1>3. w = b_ * q /\ b_ * q = q * b_
  BY <1>1, <1>2
<1>4. q >= 1
  <2>1. ASSUME q <= 0 PROVE FALSE
    <3>1. b_ * q <= b_ * 0
      BY <2>1
    <3> QED BY <1>3, <3>1
  <2> QED BY <2>1
<1>5. laneBytes = q
  BY <1>1, <1>2 DEF laneBytes, bitWidth
<1> QED BY <1>1, <1>3, <1>4, <1>5

LEMMA PlaceIs ==
  ASSUME VectorsFit, VInv, Len(code) = 1, only.op \in LoadOps \cup StoreOps
  PROVE  /\ Selected \subseteq LaneIds
         /\ \A i \in LaneIds : place(only.op, had, i) \in Nat
<1>1. PICK bank : JobFits(bank)
  BY JobIs
<1>2. lane \in DOMAIN Width /\ Width[lane] % ByteBits = 0 /\ LaneIds \subseteq Lanes(lane) /\ nlanes \in Nat
  BY JobIs
<1>3. laneBytes \in Int
  BY <1>2, LaneSize
<1>4. Selected \subseteq LaneIds
  BY DEF Selected, touched, LaneIds, Chosen
<1>5. had[1] \in Int
  BY <1>1, <1>2, HadIs DEF JobFits, OperandsFit
<1>6. ASSUME only.op \in Indexed, NEW i \in LaneIds PROVE had[IF only.op \in WordMasked THEN 3 ELSE 2][i] \in Int
  <2>1. PICK k : k = IF only.op \in WordMasked THEN 3 ELSE 2
    OBVIOUS
  <2>2. k \in DOMAIN only.in /\ GivesVector(bank, only.in[k])
    BY <1>1, <1>6, <2>1 DEF JobFits, OperandsFit
  <2>3. had[k] \in VectorsOf(lane)
    BY <1>1, <1>2, <2>2, HadIs
  <2>4. had[k][i] \in NumbersOf(lane)
    BY <1>2, <2>3 DEF VectorsOf
  <2> QED BY <1>2, <2>1, <2>4, NumbersAre
<1>7. ASSUME NEW i \in LaneIds PROVE Below(touched(only.op, had), i) \in Int
  <2>1. PICK S : S = {j \in Selected : j < i} /\ S \subseteq 0 .. nlanes - 1
    BY <1>4 DEF LaneIds
  <2>2. IsFiniteSet(0 .. nlanes - 1)
    <3>1. 0 \in Int /\ nlanes - 1 \in Int
      BY <1>2
    <3> QED BY <3>1, FS_Interval
  <2>3. IsFiniteSet(S)
    BY <2>1, <2>2, FS_Subset
  <2>4. Cardinality(S) \in Nat
    BY <2>3, FS_CardinalityType
  <2> QED BY <2>1, <2>4 DEF Below, Selected
<1>8. ASSUME NEW i \in LaneIds PROVE place(only.op, had, i) \in Nat
  <2>1. PICK at \in Int : place(only.op, had, i) = AsUnsigned(had[1] + laneBytes * at, Width["ptr"])
    <3>1. i \in Int
      BY DEF LaneIds
    <3>2. CASE only.op \in Indexed
      <4>1. PICK at \in Int : at = had[IF only.op \in WordMasked THEN 3 ELSE 2][i]
        BY <1>6, <3>2
      <4>2. only.op \notin Packing /\ only.op # "vloadsplat"
        BY <3>2 DEF Packing, Indexed
      <4>3. place(only.op, had, i) = AsUnsigned(had[1] + laneBytes * at, Width["ptr"])
        BY <3>2, <4>1, <4>2 DEF place
      <4> QED BY <4>3
    <3>3. CASE only.op \in Packing
      <4>1. only.op \notin Indexed
        BY <3>3 DEF Packing, Indexed
      <4> QED BY <1>7, <3>3, <4>1 DEF place
    <3>4. CASE only.op = "vloadsplat"
      <4>1. only.op \notin Indexed /\ only.op \notin Packing
        BY <3>4 DEF Packing, Indexed
      <4> QED BY <3>4, <4>1 DEF place
    <3>5. CASE only.op \notin Indexed \cup Packing \cup {"vloadsplat"}
      BY <3>1, <3>5 DEF place
    <3> QED BY <3>2, <3>3, <3>4, <3>5
  <2>2. PICK n \in Int : n = had[1] + laneBytes * at
    BY <1>3, <1>5
  <2>3. Width["ptr"] \in Nat
    BY WidthAssumption DEF VectorsFit
  <2>4. AsUnsigned(n, Width["ptr"]) \in Nat
    BY <2>3, UnsignedWord
  <2> QED BY <2>1, <2>2, <2>4
<1> QED BY <1>4, <1>8

(* A lane is out of range if and only if a byte of it is.                  *)
LEMMA OutsideIs ==
  ASSUME VectorsFit, VInv, Len(code) = 1, only.op \in LoadOps \cup StoreOps, NEW i \in LaneIds
  PROVE  outside(only.op, had, i) <=> ~ Inside(i)
<1>1. PICK p \in Nat : p = place(only.op, had, i)
  BY PlaceIs
<1>2. lane \in DOMAIN Width /\ Width[lane] % ByteBits = 0
  BY JobIs
<1>3. PICK n \in Nat \ {0} : n = laneBytes
  BY <1>2, LaneSize
<1>4. PICK size \in Nat : size = VectorMemory
  BY DEF VectorsFit
<1>5. Cells(i) = p .. p + n - 1
  BY <1>1, <1>3 DEF Cells
<1>6. ASSUME p + n <= size PROVE p .. p + n - 1 \subseteq 0 .. size - 1
  BY <1>6
<1>7. ASSUME p .. p + n - 1 \subseteq 0 .. size - 1 PROVE p + n <= size
  <2>1. p + n - 1 \in p .. p + n - 1
    OBVIOUS
  <2> QED BY <1>7, <2>1
<1> QED BY <1>1, <1>3, <1>4, <1>5, <1>6, <1>7 DEF outside, Inside

(* What a lane reads from the memory: a number with these bytes.           *)
BytesFrom(m, at, n) == [k \in 0 .. n - 1 |-> m[at + k]]

LEMMA LaneAtIsSum ==
  ASSUME lane \in DOMAIN Width, NEW m, NEW at \in Nat, NEW n \in Nat, n = laneBytes,
         NEW d_ \in [0 .. n - 1 -> 0 .. 2^ByteBits - 1], d_ = BytesFrom(m, at, n)
  PROVE  \E it : IsByteSum(it, d_, n, ByteBits) /\ laneAt(m, at) = Number(lane, it[0 .. n - 1])
<1> DEFINE S == 0 .. n - 1
           g == [k \in S |-> m[at + k] * 2^(k * ByteBits)]
           Summed(it) == it = [s \in SUBSET S |->
                                 IF s = {} THEN 0
                                 ELSE LET k == CHOOSE k \in s : TRUE
                                      IN  m[at + k] * 2^(k * ByteBits) + it[s \ {k}]]
           sum == CHOOSE it : Summed(it)
<1>1. IsFiniteSet(S)
  BY FS_Interval
<1>2. d_ \in [S -> 0 .. 2^ByteBits - 1] /\ g = Weighed(d_, n, ByteBits)
  BY DEF Weighed, BytesFrom
<1>3. ASSUME NEW it PROVE IsSetSum(it, g, S) <=> Summed(it)
  <2> HIDE DEF S
  <2>0. ASSUME NEW s \in SUBSET S, s # {} PROVE FirstTaken(s) \in S
    BY <2>0 DEF FirstTaken
  <2>1. ASSUME NEW s \in SUBSET S, s # {}
        PROVE  g[FirstTaken(s)] = m[at + (CHOOSE k \in s : TRUE)] * 2^((CHOOSE k \in s : TRUE) * ByteBits)
    BY <2>0, <2>1 DEF FirstTaken
  <2> DEFINE Here(s) == IF s = {} THEN 0 ELSE g[FirstTaken(s)] + it[s \ {FirstTaken(s)}]
             There(s) == IF s = {} THEN 0
                         ELSE LET k == CHOOSE k \in s : TRUE
                              IN  m[at + k] * 2^(k * ByteBits) + it[s \ {k}]
  <2>2. ASSUME NEW s \in SUBSET S PROVE Here(s) = There(s)
    <3>1. CASE s = {}
      BY <3>1
    <3>2. CASE s # {}
      <4> DEFINE e == CHOOSE k \in s : TRUE
      <4>1. FirstTaken(s) = e
        BY DEF FirstTaken
      <4>2. g[e] = m[at + e] * 2^(e * ByteBits)
        BY <2>1, <3>2, <4>1
      <4>3. Here(s) = g[e] + it[s \ {e}]
        BY <3>2, <4>1
      <4>4. There(s) = m[at + e] * 2^(e * ByteBits) + it[s \ {e}]
        BY <3>2
      <4> HIDE DEF Here, There, e
      <4> QED BY <4>2, <4>3, <4>4
    <3> QED BY <3>1, <3>2
  <2>3. (IsSetSum(it, g, S) <=> it = [s \in SUBSET S |-> Here(s)]) /\ (Summed(it) <=> it = [s \in SUBSET S |-> There(s)])
    BY DEF IsSetSum
  <2>4. [s \in SUBSET S |-> Here(s)] = [s \in SUBSET S |-> There(s)]
    <3> HIDE DEF Here, There
    <3> QED BY <2>2, Zenon
  <2> HIDE DEF Here, There, Summed
  <2> QED BY <2>3, <2>4
<1>4. \E it : Summed(it)
  <2> HIDE DEF g, Summed, S
  <2>1. PICK it : IsSetSum(it, g, S)
    BY <1>1, SetSumExists, Zenon
  <2> QED BY <2>1, <1>3
<1>5. Summed(sum)
  BY <1>4, Zenon
<1>6. laneAt(m, at) = Number(lane, sum[S])
  BY DEF laneAt, MapThenSumSet, MapThenFoldSet
<1>7. IsByteSum(sum, d_, n, ByteBits)
  <2> HIDE DEF sum, Summed
  <2>1. IsSetSum(sum, g, S)
    BY <1>3, <1>5
  <2> QED BY <1>2, <2>1 DEF IsByteSum
<1> QED BY <1>6, <1>7, Zenon

LEMMA LaneAtIs ==
  ASSUME lane \in DOMAIN Width, Width[lane] % ByteBits = 0, NEW m, NEW at \in Nat,
         \A k \in 0 .. laneBytes - 1 : m[at + k] \in 0 .. 2^ByteBits - 1
  PROVE  \A k \in 0 .. laneBytes - 1 : Byte(unsignedOf(laneAt(m, at), lane), k, ByteBits) = m[at + k]
<1>1. PICK n \in Nat \ {0}, size \in Nat \ {0}, w \in Nat \ {0} :
        n = laneBytes /\ size = ByteBits /\ w = Width[lane] /\ n * size = w
  BY LaneSize, WordsAssumption, WidthAssumption
<1>2. PICK d_ : d_ = BytesFrom(m, at, n)
  OBVIOUS
<1>3. PICK it : IsByteSum(it, d_, n, size) /\ laneAt(m, at) = Number(lane, it[0 .. n - 1])
  <2>1. d_ \in [0 .. n - 1 -> 0 .. 2^ByteBits - 1]
    BY <1>1, <1>2 DEF BytesFrom
  <2>2. n \in Nat
    BY <1>1
  <2>3. n = laneBytes
    BY <1>1
  <2>4. PICK it : IsByteSum(it, d_, n, ByteBits) /\ laneAt(m, at) = Number(lane, it[0 .. n - 1])
    BY <1>2, <2>1, <2>2, <2>3, LaneAtIsSum
  <2>5. IsByteSum(it, d_, n, size)
    BY <1>1, <2>4
  <2> QED BY <2>4, <2>5
<1>4. PICK total \in Int : total = it[0 .. n - 1]
  <2>1. n \in 0 .. n /\ n * size \in Nat
    OBVIOUS
  <2>2. it[0 .. n - 1] \in 0 .. 2^(n * size) - 1
    BY <1>3, <2>1, BytesBelow
  <2> QED BY <2>1, <2>2, PowerType
<1>5. PICK u \in Int : u = unsignedOf(laneAt(m, at), lane) /\ SameModulo(u, total, 2^w)
  <2>1. unsignedOf(Number(lane, total), lane) = AsUnsigned(total, Width[lane])
    BY UnsignedOfWritten DEF Number
  <2>2. AsUnsigned(total, w) \in Nat /\ SameModulo(AsUnsigned(total, w), total, 2^w)
    BY UnsignedWord
  <2> QED BY <1>1, <1>3, <1>4, <2>1, <2>2
<1>6. ASSUME NEW k \in 0 .. n - 1 PROVE Byte(u, k, size) = m[at + k]
  <2>1. (k + 1) * size <= w
    <3>1. k + 1 <= n
      OBVIOUS
    <3>2. (k + 1) * size <= n * size
      BY <3>1
    <3> QED BY <1>1, <3>2
  <2>2. PICK low : low = it[0 .. k - 1] /\ low \in 0 .. 2^(k * size) - 1
    <3>1. k \in 0 .. n
      OBVIOUS
    <3> QED BY <1>3, <3>1, BytesBelow
  <2>3. HasByte(total, k, size, d_[k], low)
    <3>1. HasByte(it[0 .. n - 1], k, size, d_[k], it[0 .. k - 1])
      BY <1>3, BytesAbove
    <3> QED BY <1>4, <2>2, <3>1
  <2>4. d_[k] \in 0 .. 2^size - 1 /\ d_[k] = m[at + k]
    BY <1>2, <1>3 DEF IsByteSum, BytesFrom
  <2>5. (u \div 2^(k * size)) % 2^size = d_[k]
    <3>1. PICK e \in 0 .. 2^size - 1 : e = d_[k]
      BY <2>4
    <3>2. HasByte(total, k, size, e, low) /\ SameModulo(u, total, 2^w) /\ k \in Nat
      BY <1>5, <2>3, <3>1
    <3> QED BY <2>1, <2>2, <3>1, <3>2, BytesWithin, Zenon
  <2> QED BY <2>4, <2>5 DEF Byte
<1> QED BY <1>1, <1>5, <1>6

(* A lane of 0 has no other bytes.                                         *)
LEMMA ZeroBytes ==
  ASSUME lane \in DOMAIN Width, NEW k \in Nat
  PROVE  Byte(unsignedOf(0, lane), k, ByteBits) = 0
<1>1. PICK w \in Nat \ {0}, size \in Nat \ {0} : w = Width[lane] /\ size = ByteBits
  BY WordsAssumption, WidthAssumption
<1>2. PICK p \in Nat \ {0}, q \in Nat \ {0}, s \in Nat \ {0} : p = 2^(k * size) /\ q = 2^size /\ s = 2^w
  <2>1. k * size \in Nat
    OBVIOUS
  <2> QED BY <2>1, PowerPositive
<1>3. AsUnsigned(0, w) = 0
  <2>1. PICK zero \in Int : zero = 0 /\ zero \in 0 .. s - 1
    OBVIOUS
  <2> QED BY <1>2, <2>1, UnsignedWord
<1>4. 0 \div p = 0 /\ 0 % q = 0
  OBVIOUS
<1> QED BY <1>1, <1>2, <1>3, <1>4 DEF Byte, unsignedOf, bitWidth

(* What a load did.                                                        *)
LEMMA StepLoads ==
  ASSUME VectorsFit, OnlyStep, only.op \in LoadOps, ~ Wraps(only.op, had)
  PROVE  /\ vthrew' = (\E i \in Selected : ~ Inside(i))
         /\ ~ vthrew' =>
              \A i \in LaneIds :
                \A k \in 0 .. laneBytes - 1 :
                  Byte(unsignedOf(result'[i], lane), k, ByteBits)
                    = IF i \in Selected THEN VectorBytes[place(only.op, had, i) + k] ELSE 0
<1>0. VInv /\ Len(code) = 1 /\ vthrew = FALSE /\ VectorNext /\ vjob' = vjob
  BY DEF OnlyStep, VInv
<1>1. PICK bank : JobFits(bank)
  BY <1>0, JobIs
<1>2. lane \in DOMAIN Width /\ Width[lane] % ByteBits = 0 /\ LaneIds \subseteq Lanes(lane) /\ nlanes \in Nat
  BY <1>0, JobIs
<1>3. only.op = vop /\ args = had /\ code[pc] = only /\ vectors = bank[1] /\ vmemory = VectorBytes
  BY <1>1, OnlyRead DEF JobFits
<1>4. only.dest \in DOMAIN vectors
  BY <1>1, <1>3 DEF JobFits, OperandsFit
<1>5. Selected \subseteq LaneIds /\ \A i \in LaneIds : place(only.op, had, i) \in Nat
  BY <1>0, PlaceIs
<1>6. \A i \in Selected : outside(only.op, had, i) <=> ~ Inside(i)
  BY <1>0, <1>5, OutsideIs
<1>7. Load
  BY <1>0, <1>3, VectorActionOf
<1>8. CASE \E i \in Selected : ~ Inside(i)
  <2>1. VectorThrows
    BY <1>3, <1>6, <1>7, <1>8 DEF Load, Selected
  <2>2. vthrew' = TRUE
    BY <2>1 DEF VectorThrows
  <2> QED BY <1>8, <2>2
<1>9. CASE ~ \E i \in Selected : ~ Inside(i)
  <2>1. PICK w : /\ Sets(w)
                 /\ \A i \in Lanes(lane) :
                      w[i] = IF i < nlanes
                             THEN (IF i \in Selected THEN laneAt(VectorBytes, place(only.op, had, i)) ELSE 0) ELSE 0
    <3>1. ~ \E i \in touched(vop, args) : outside(vop, args, i)
      BY <1>3, <1>6, <1>9 DEF Selected
    <3>2. Sets(Vector(lane, nlanes,
                 LAMBDA i : IF i \in touched(vop, args) THEN laneAt(vmemory, place(vop, args, i)) ELSE 0))
      BY <1>7, <3>1 DEF Load
    <3>3. PICK w : /\ w = [i \in Lanes(lane) |->
                             IF i < nlanes
                             THEN (IF i \in touched(vop, args) THEN laneAt(vmemory, place(vop, args, i)) ELSE 0)
                             ELSE 0]
                   /\ Sets(w)
      BY <3>2 DEF Vector
    <3>4. \A i \in Lanes(lane) :
            w[i] = IF i < nlanes
                   THEN (IF i \in Selected THEN laneAt(VectorBytes, place(only.op, had, i)) ELSE 0) ELSE 0
      BY <1>3, <3>3 DEF Selected
    <3> QED BY <3>3, <3>4
  <2>3. result' = w /\ vthrew' = FALSE
    <3>1. only' = only
      BY <1>0, SameVectorJob
    <3> QED BY <1>0, <1>3, <1>4, <2>1, <3>1 DEF Sets, result
  <2>5. ASSUME NEW i \in LaneIds, NEW k \in 0 .. laneBytes - 1
        PROVE  Byte(unsignedOf(w[i], lane), k, ByteBits)
                 = IF i \in Selected THEN VectorBytes[place(only.op, had, i) + k] ELSE 0
    <3>1. i \in Lanes(lane) /\ i < nlanes
      BY <1>2 DEF LaneIds
    <3>2. CASE i \in Selected
      <4>1. PICK at \in Nat : at = place(only.op, had, i)
        BY <1>5
      <4>2. w[i] = laneAt(VectorBytes, at)
        BY <2>1, <3>1, <3>2, <4>1
      <4>3. \A j \in 0 .. laneBytes - 1 : VectorBytes[at + j] \in 0 .. 2^ByteBits - 1
        <5>1. at .. at + laneBytes - 1 \subseteq 0 .. VectorMemory - 1
          BY <1>9, <3>2, <4>1 DEF Inside, Cells
        <5>2. laneBytes \in Nat
          BY <1>2, LaneSize
        <5>3. \A j \in 0 .. laneBytes - 1 : at + j \in 0 .. VectorMemory - 1
          BY <5>1, <5>2
        <5>4. VectorBytes \in [0 .. VectorMemory - 1 -> 0 .. 2^ByteBits - 1]
          BY DEF VectorsFit
        <5> QED BY <5>3, <5>4
      <4> QED BY <1>2, <3>2, <4>1, <4>2, <4>3, LaneAtIs
    <3>3. CASE i \notin Selected
      <4>1. w[i] = 0
        BY <2>1, <3>1, <3>3
      <4>2. k \in Nat
        OBVIOUS
      <4> QED BY <1>2, <3>3, <4>1, <4>2, ZeroBytes
    <3> QED BY <3>2, <3>3
  <2> QED BY <1>9, <2>3, <2>5
<1> QED BY <1>8, <1>9
-----------------------------------------------------------------------------
(* Stores: one lane after the other.                                       *)
LaneByte(i, p) == Byte(unsignedOf(had[Len(had)][i], lane), p - place(only.op, had, i), ByteBits)

WrittenOn(m, i, done) ==
  IF i \in done THEN withLane(m, place(vop, args, i), args[Len(args)][i]) ELSE m

(* it writes any of the first n lanes of order, the last one last. *)
IsWriting(it, n, order, done) ==
  it = [t \in SUBSET (1 .. n) |->
         IF t = {} THEN vmemory ELSE WrittenOn(it[t \ {Max(t)}], order[Max(t)], done)]

(* The recursion of the fold has a solution.                               *)
LEMMA WritingExists ==
  ASSUME NEW n \in Nat, NEW order, NEW done
  PROVE  \E it : IsWriting(it, n, order, done)
<1> DEFINE Has == {k \in Nat : \E it : IsWriting(it, k, order, done)}
<1>1. 0 \in Has
  <2> DEFINE none == [t \in SUBSET (1 .. 0) |-> vmemory]
  <2>1. none = [t \in SUBSET (1 .. 0) |->
                 IF t = {} THEN vmemory ELSE WrittenOn(none[t \ {Max(t)}], order[Max(t)], done)]
    OBVIOUS
  <2>2. IsWriting(none, 0, order, done)
    BY <2>1 DEF IsWriting
  <2> QED BY <2>2
<1>2. ASSUME NEW k \in Nat, k \in Has PROVE k + 1 \in Has
  <2>1. PICK it : IsWriting(it, k, order, done)
    BY <1>2
  <2> DEFINE more == [t \in SUBSET (1 .. k + 1) |->
                       IF t = {} THEN vmemory ELSE WrittenOn(it[t \ {Max(t)}], order[Max(t)], done)]
  <2>2. ASSUME NEW t \in SUBSET (1 .. k) PROVE more[t] = it[t]
    <3>1. t \in SUBSET (1 .. k + 1)
      OBVIOUS
    <3>2. it[t] = IF t = {} THEN vmemory ELSE WrittenOn(it[t \ {Max(t)}], order[Max(t)], done)
      BY <2>1 DEF IsWriting
    <3> QED BY <3>1, <3>2
  <2>3. ASSUME NEW t \in SUBSET (1 .. k + 1), t # {}
        PROVE  t \ {Max(t)} \in SUBSET (1 .. k)
    <3>1. Max(t) \in t /\ \A i \in t : i <= Max(t)
      BY <2>3, MaxOfFinite, k + 1 \in Nat
    <3> DEFINE top == Max(t)
    <3> HIDE DEF top
    <3>2. top \in t /\ \A i \in t : i <= top
      BY <3>1 DEF top
    <3>3. t \ {top} \subseteq 1 .. k
      BY <3>2
    <3> QED BY <3>3 DEF top
  <2>4. \A t \in SUBSET (1 .. k + 1) :
          more[t] = IF t = {} THEN vmemory ELSE WrittenOn(more[t \ {Max(t)}], order[Max(t)], done)
    <3> SUFFICES ASSUME NEW t \in SUBSET (1 .. k + 1), t # {}
                 PROVE  more[t] = WrittenOn(more[t \ {Max(t)}], order[Max(t)], done)
      OBVIOUS
    <3>1. more[t \ {Max(t)}] = it[t \ {Max(t)}]
      BY <2>2, <2>3
    <3> QED BY <3>1
  <2>5. IsWriting(more, k + 1, order, done)
    BY <2>4 DEF IsWriting
  <2> QED BY <2>5
<1> HIDE DEF Has
<1>3. n \in Has
  BY <1>1, <1>2, SetInduction
<1> QED BY <1>3 DEF Has

(* The first k + 1 lanes are the first k and one more.                     *)
LEMMA WritingOfInterval ==
  ASSUME NEW n \in Nat, NEW order, NEW done, NEW it, IsWriting(it, n, order, done), NEW k \in 0 .. n - 1
  PROVE  it[1 .. k + 1] = WrittenOn(it[1 .. k], order[k + 1], done)
<1>1. k \in Nat /\ 1 .. k + 1 \in SUBSET (1 .. n)
  OBVIOUS
<1>2. Max(1 .. k + 1) = k + 1 /\ 1 .. k + 1 # {} /\ (1 .. k + 1) \ {k + 1} = 1 .. k
  BY <1>1, MaxOfInterval
<1> DEFINE t == 1 .. k + 1
<1> HIDE DEF t
<1>3. it[t] = IF t = {} THEN vmemory ELSE WrittenOn(it[t \ {Max(t)}], order[Max(t)], done)
  BY <1>1 DEF IsWriting, t
<1>4. t # {} /\ Max(t) = k + 1 /\ t \ {Max(t)} = 1 .. k
  BY <1>2 DEF t
<1> QED BY <1>3, <1>4 DEF t

(* The lanes that a store writes, and the memory that it leaves.           *)
DoneLanes ==
  LET bad == {i \in touched(vop, args) : outside(vop, args, i)}
  IN  CASE bad = {} -> touched(vop, args)
        [] bad # {} /\ vop = "vstore" -> {}
        [] OTHER -> {i \in touched(vop, args) : i < Min(bad)}

LEMMA StoreWrites ==
  ASSUME Store, nlanes \in Nat
  PROVE  \E it : IsWriting(it, nlanes, UpTo(nlanes), DoneLanes) /\ vmemory' = it[1 .. nlanes]
<1> DEFINE order == UpTo(nlanes)
           it == CHOOSE f : f = [t \in SUBSET DOMAIN order |->
                                   IF t = {} THEN vmemory
                                   ELSE IF order[Max(t)] \in DoneLanes
                                        THEN withLane(f[t \ {Max(t)}], place(vop, args, order[Max(t)]),
                                                      args[Len(args)][order[Max(t)]])
                                        ELSE f[t \ {Max(t)}]]
<1>1. vmemory' = it[DOMAIN order]
  BY DEF Store, FoldLeft, MapThenFoldSet, DoneLanes
<1>2. DOMAIN order = 1 .. nlanes
  BY DEF UpTo
<1> HIDE DEF order
<1>3. it = CHOOSE f : IsWriting(f, nlanes, order, DoneLanes)
  BY <1>2 DEF IsWriting, WrittenOn
<1> HIDE DEF it
<1>4. IsWriting(it, nlanes, order, DoneLanes)
  BY <1>3, WritingExists, Zenon
<1> QED BY <1>1, <1>2, <1>4 DEF order
(* They are all, or those before the first that is out of range.           *)
LEMMA DoneIsWritten ==
  ASSUME VectorsFit, OnlyStep, only.op \in StoreOps
  PROVE  /\ DoneLanes = Written /\ Written \subseteq LaneIds /\ \A i \in Written : Inside(i)
         /\ {i \in touched(vop, args) : outside(vop, args, i)} = {i \in Selected : ~ Inside(i)}
<1>0. VInv /\ Len(code) = 1
  BY DEF OnlyStep
<1>1. only.op = vop /\ args = had
  BY OnlyRead
<1>2. Selected \subseteq LaneIds /\ LaneIds \subseteq Nat
  BY <1>0, PlaceIs DEF LaneIds
<1>3. \A i \in Selected : outside(only.op, had, i) <=> ~ Inside(i)
  BY <1>0, <1>2, OutsideIs
<1>4. PICK bad : bad = {i \in Selected : ~ Inside(i)} /\ bad = {i \in touched(vop, args) : outside(vop, args, i)}
  BY <1>1, <1>3 DEF Selected
<1>5. DoneLanes = CASE bad = {} -> Selected
                    [] bad # {} /\ vop = "vstore" -> {}
                    [] OTHER -> {i \in Selected : i < Min(bad)}
  BY <1>1, <1>4 DEF DoneLanes, Selected
<1>6. CASE bad = {}
  <2>1. \A i \in Selected : Inside(i)
    BY <1>4, <1>6
  <2>2. DoneLanes = Selected
    BY <1>5, <1>6
  <2>3. Written = Selected
    BY <2>1 DEF Written
  <2> QED BY <1>2, <1>4, <2>1, <2>2, <2>3
<1>7. CASE bad # {} /\ vop = "vstore"
  <2>1. ~ \A i \in Selected : Inside(i)
    BY <1>4, <1>7
  <2>2. DoneLanes = {}
    BY <1>5, <1>7
  <2>3. Written = {}
    BY <1>1, <1>7, <2>1 DEF Written
  <2> QED BY <1>4, <2>2, <2>3
<1>8. CASE bad # {} /\ vop # "vstore"
  <2>1. PICK k \in bad : \A j \in bad : k <= j
    <3>1. bad \in SUBSET Nat
      BY <1>2, <1>4
    <3> QED BY <1>8, <3>1, LeastElement
  <2>2. Min(bad) \in bad /\ \A j \in bad : Min(bad) <= j
    BY <2>1 DEF Min
  <2>3. PICK low \in Nat : low = Min(bad) /\ low \in Selected /\ ~ Inside(low) /\ \A j \in bad : low <= j
    BY <1>2, <1>4, <2>2
  <2>4. DoneLanes = {i \in Selected : i < low}
    BY <1>5, <1>8, <2>3
  <2>5. ASSUME NEW i \in Selected, i < low, NEW j \in Selected, j <= i PROVE Inside(j)
    <3>1. i \in Nat /\ j \in Nat /\ ~ (low <= j)
      BY <1>2, <2>5
    <3> QED BY <1>4, <2>3, <3>1
  <2>6. ASSUME NEW i \in Selected, \A j \in Selected : j <= i => Inside(j) PROVE i < low
    <3>1. i \in Nat /\ ~ (low <= i)
      BY <1>2, <2>3, <2>6
    <3> QED BY <3>1
  <2>7. Written = {i \in Selected : \A j \in Selected : j <= i => Inside(j)}
    BY <1>1, <1>8 DEF Written
  <2>8. DoneLanes = Written
    BY <2>4, <2>5, <2>6, <2>7
  <2>9. \A i \in Written : i <= i /\ i \in Selected
    BY <1>2, <2>7
  <2>10. \A i \in Written : Inside(i)
    BY <2>7, <2>9
  <2> QED BY <1>2, <1>4, <2>8, <2>9, <2>10
<1> QED BY <1>6, <1>7, <1>8

LEMMA GreatestIs ==
  ASSUME NEW S \in SUBSET Nat, NEW k \in S, \A j \in S : j <= k
  PROVE  Max(S) = k
<1>1. \A m \in S : (\A j \in S : m >= j) => m = k
  OBVIOUS
<1>2. \A j \in S : k >= j
  OBVIOUS
<1> QED BY <1>1, <1>2 DEF Max

(* What a store did.                                                       *)
LEMMA StepStores ==
  ASSUME VectorsFit, OnlyStep, only.op \in StoreOps, ~ Wraps(only.op, had)
  PROVE  StoredBytes' /\ vthrew' = (\E i \in Selected : ~ Inside(i))
<1> DEFINE AllBytes == 0 .. VectorMemory - 1
           Before(k, p) == {i \in Written : i < k /\ p \in Cells(i)}
           Expected(k, p) == IF Before(k, p) = {} THEN VectorBytes[p] ELSE LaneByte(Max(Before(k, p)), p)
<1>0. VInv /\ Len(code) = 1 /\ VectorNext /\ vjob' = vjob
  BY DEF OnlyStep
<1>1. only.op = vop /\ args = had /\ vmemory = VectorBytes /\ VectorBytes \in [AllBytes -> 0 .. 2^ByteBits - 1]
  BY OnlyRead DEF VectorsFit
<1>2. Store
  BY <1>0, <1>1, VectorActionOf
<1>3. PICK n \in Nat : n = nlanes /\ LaneIds = 0 .. n - 1
  BY <1>0, JobIs DEF LaneIds
<1>4. /\ DoneLanes = Written /\ Written \subseteq LaneIds /\ \A i \in Written : Inside(i)
      /\ {i \in touched(vop, args) : outside(vop, args, i)} = {i \in Selected : ~ Inside(i)}
  BY DoneIsWritten
<1>5. vthrew' = (\E i \in Selected : ~ Inside(i))
  <2>1. vthrew' = ({i \in touched(vop, args) : outside(vop, args, i)} # {})
    BY <1>2 DEF Store
  <2> QED BY <1>4, <2>1
<1>6. PICK it : IsWriting(it, n, UpTo(n), Written) /\ vmemory' = it[1 .. n]
  BY <1>2, <1>3, <1>4, StoreWrites
<1>7. ASSUME NEW m, DOMAIN m = AllBytes, NEW k \in Written
      PROVE  /\ DOMAIN WrittenOn(m, k, Written) = AllBytes
             /\ \A p \in AllBytes :
                  WrittenOn(m, k, Written)[p] = IF p \in Cells(k) THEN LaneByte(k, p) ELSE m[p]
  BY <1>1, <1>7 DEF WrittenOn, withLane, Cells, LaneByte
<1>8. ASSUME NEW m, NEW k, k \notin Written PROVE WrittenOn(m, k, Written) = m
  BY <1>8 DEF WrittenOn
<1> DEFINE Fine == {k \in 0 .. n : DOMAIN it[1 .. k] = AllBytes /\ \A p \in AllBytes : it[1 .. k][p] = Expected(k, p)}
<1>9. 0 \in Fine
  <2>1. 1 .. 0 = {} /\ {} \in SUBSET (1 .. n)
    OBVIOUS
  <2>2. it[1 .. 0] = VectorBytes
    BY <1>1, <1>6, <2>1 DEF IsWriting
  <2>3. \A i \in Written : ~ (i < 0)
    BY <1>3, <1>4
  <2>4. \A p : Before(0, p) = {}
    BY <2>3
  <2> HIDE DEF Before
  <2>5. \A p \in AllBytes : it[1 .. 0][p] = Expected(0, p)
    BY <2>2, <2>4
  <2>6. DOMAIN it[1 .. 0] = AllBytes
    BY <1>1, <2>2
  <2>7. 0 \in 0 .. n
    OBVIOUS
  <2> HIDE DEF AllBytes, Expected
  <2> QED BY <2>5, <2>6, <2>7
<1>10. ASSUME NEW k \in 0 .. n - 1, k \in Fine PROVE k + 1 \in Fine
  <2>1. it[1 .. k + 1] = WrittenOn(it[1 .. k], k, Written)
    <3>1. it[1 .. k + 1] = WrittenOn(it[1 .. k], UpTo(n)[k + 1], Written)
      BY <1>6, WritingOfInterval
    <3>2. UpTo(n)[k + 1] = k
      BY DEF UpTo
    <3> QED BY <3>1, <3>2
  <2>2. k + 1 \in 0 .. n /\ Written \subseteq Nat
    BY <1>3, <1>4
  <2>3. DOMAIN it[1 .. k] = AllBytes /\ \A p \in AllBytes : it[1 .. k][p] = Expected(k, p)
    BY <1>10
  <2>4. ASSUME NEW p, k \in Written, p \in Cells(k) PROVE Before(k + 1, p) # {} /\ Max(Before(k + 1, p)) = k
    <3>1. k \in Before(k + 1, p) /\ \A j \in Before(k + 1, p) : j <= k
      BY <2>2, <2>4
    <3>2. Before(k + 1, p) \in SUBSET Nat
      BY <2>2
    <3> HIDE DEF Before
    <3> QED BY <3>1, <3>2, GreatestIs
  <2>5. ASSUME NEW p, k \notin Written \/ p \notin Cells(k) PROVE Before(k + 1, p) = Before(k, p)
    <3>1. \A i \in Written : p \in Cells(i) => (i < k + 1 <=> i < k)
      BY <2>2, <2>5
    <3> QED BY <3>1
  <2> HIDE DEF Before
  <2>6. CASE k \in Written
    <3>1. /\ DOMAIN it[1 .. k + 1] = AllBytes
          /\ \A p \in AllBytes : it[1 .. k + 1][p] = IF p \in Cells(k) THEN LaneByte(k, p) ELSE it[1 .. k][p]
      BY <1>7, <2>1, <2>3, <2>6
    <3>2. ASSUME NEW p \in AllBytes PROVE it[1 .. k + 1][p] = Expected(k + 1, p)
      BY <2>3, <2>4, <2>5, <2>6, <3>1
    <3> QED BY <2>2, <3>1, <3>2
  <2>7. CASE k \notin Written
    <3>1. it[1 .. k + 1] = it[1 .. k]
      BY <1>8, <2>1, <2>7
    <3>2. ASSUME NEW p \in AllBytes PROVE it[1 .. k + 1][p] = Expected(k + 1, p)
      BY <2>3, <2>5, <2>7, <3>1
    <3> QED BY <2>2, <2>3, <3>1, <3>2
  <2> QED BY <2>6, <2>7
<1> HIDE DEF Fine
<1>11. n \in Fine
  <2>1. 0 .. n \subseteq Fine
    BY <1>9, <1>10, IntervalInduction
  <2> QED BY <2>1
<1>12. ASSUME NEW p \in AllBytes
       PROVE  LET S == {i \in Written : p \in Cells(i)}
              IN  vmemory'[p] = IF S = {} THEN VectorBytes[p] ELSE LaneByte(Max(S), p)
  <2>1. Before(n, p) = {i \in Written : p \in Cells(i)}
    <3>1. \A i \in Written : i < n
      BY <1>3, <1>4
    <3> QED BY <3>1
  <2> HIDE DEF Before
  <2>2. vmemory'[p] = Expected(n, p)
    BY <1>6, <1>11 DEF Fine
  <2> QED BY <2>1, <2>2
<1>13. /\ only' = only /\ had' = had /\ lane' = lane /\ Written' = Written
       /\ \A i : Cells(i)' = Cells(i) /\ place(only.op, had, i)' = place(only.op, had, i)
  BY <1>0, SameVectorJob
<1>14. StoredBytes'
  BY <1>12, <1>13 DEF StoredBytes, LaneByte
<1> QED BY <1>5, <1>14

(* The bytes a load has put into the lanes. *)
Loaded ==
  /\ vthrew = (\E i \in Selected : ~ Inside(i))
  /\ ~ vthrew =>
       \A i \in LaneIds :
         \A k \in 0 .. laneBytes - 1 :
           Byte(unsignedOf(result[i], lane), k, ByteBits)
             = IF i \in Selected THEN VectorBytes[place(only.op, had, i) + k] ELSE 0

(* A masked instruction computes the lanes its mask selects as the scalar  *)
(* instruction would and keeps or clears the others; a store changes the   *)
(* bytes of the lanes it has written and no other, up to the first lane    *)
(* that is out of range; and a load fills the lanes it selects.  Of a load *)
(* or store that goes past the last address nothing is said: checkRange    *)
(* lets it through to what the host has there (LoadAstray, StoreAstray).   *)
THEOREM MasksSelectLanes ==
  ASSUME VectorsFit
  PROVE  VectorSpec => []MaskedLanesOnly
<1>1. VectorInit => VInv /\ MaskedLanesOnly
  BY InitVector DEF MaskedLanesOnly
<1>2. VInv /\ MaskedLanesOnly /\ [VectorNext]_vectorVars => VInv' /\ MaskedLanesOnly'
  <2> SUFFICES ASSUME VInv, MaskedLanesOnly, [VectorNext]_vectorVars PROVE MaskedLanesOnly'
    BY NextVector
  <2>1. CASE OnlyStep
    <3>1. /\ only' = only /\ lane' = lane /\ LaneIds' = LaneIds /\ laneBytes' = laneBytes /\ Selected' = Selected
          /\ \A i : place(only.op, had, i)' = place(only.op, had, i) /\ (Inside(i)' <=> Inside(i))
          /\ Wraps(only.op, had)' <=> Wraps(only.op, had)
      BY <2>1, SameVectorJob DEF OnlyStep
    <3>2. only.op \in DOMAIN MaskedOps => MaskedArithmetic'
      BY <2>1, StepMasks
    <3>3. only.op \in StoreOps /\ ~ Wraps(only.op, had) => StoredBytes' /\ vthrew' = (\E i \in Selected : ~ Inside(i))
      BY <2>1, StepStores
    <3>4. only.op \in LoadOps /\ ~ Wraps(only.op, had) =>
            /\ vthrew' = (\E i \in Selected : ~ Inside(i))
            /\ ~ vthrew' =>
                 \A i \in LaneIds :
                   \A k \in 0 .. laneBytes - 1 :
                     Byte(unsignedOf(result'[i], lane), k, ByteBits)
                       = IF i \in Selected THEN VectorBytes[place(only.op, had, i) + k] ELSE 0
      BY <2>1, StepLoads
    <3>5. (only.op \in DOMAIN MaskedOps => MaskedArithmetic)'
      BY <3>1, <3>2
    <3>6. (only.op \in StoreOps /\ ~ Wraps(only.op, had) => StoredBytes /\ vthrew = (\E i \in Selected : ~ Inside(i)))'
      BY <3>1, <3>3
    <3>7. (only.op \in LoadOps /\ ~ Wraps(only.op, had) => Loaded)'
      BY <3>1, <3>4 DEF Loaded, unsignedOf
    <3> QED BY <3>5, <3>6, <3>7 DEF MaskedLanesOnly, Loaded
  <2>2. CASE UNCHANGED vectorVars
    <3>1. vjob' = vjob /\ vectors' = vectors /\ vmemory' = vmemory /\ pc' = pc /\ vthrew' = vthrew
      BY <2>2 DEF vectorVars
    <3>2. /\ only' = only /\ had' = had /\ lane' = lane /\ LaneIds' = LaneIds /\ SelectedLanes' = SelectedLanes
          /\ \A o, ops, i : /\ scalarThrows(o, ops, i)' <=> scalarThrows(o, ops, i)
                            /\ scalarLane(o, ops, i)' = scalarLane(o, ops, i)
          /\ laneBytes' = laneBytes /\ Selected' = Selected /\ Written' = Written
          /\ \A i : /\ Cells(i)' = Cells(i) /\ place(only.op, had, i)' = place(only.op, had, i)
                    /\ Inside(i)' <=> Inside(i)
          /\ Wraps(only.op, had)' <=> Wraps(only.op, had)
      BY <3>1, SameVectorJob
    <3>3. (Single' <=> Single) /\ result' = result
      BY <3>1, <3>2 DEF Single, code, result
    <3>4. MaskedArithmetic' <=> MaskedArithmetic
      BY <3>1, <3>2, <3>3 DEF MaskedArithmetic
    <3>5. StoredBytes' <=> StoredBytes
      <4>1. \A p : {i \in Written' : p \in Cells(i)'} = {i \in Written : p \in Cells(i)}
        BY <3>2
      <4>2. \A i, p : Byte(unsignedOf(had'[Len(had')][i], lane'), p - place(only.op, had, i)', ByteBits)
                       = Byte(unsignedOf(had[Len(had)][i], lane), p - place(only.op, had, i), ByteBits)
        BY <3>2
      <4> QED BY <3>1, <4>1, <4>2 DEF StoredBytes
    <3>6. Loaded' <=> Loaded
      BY <3>1, <3>2, <3>3 DEF Loaded, unsignedOf
    <3> QED BY <3>1, <3>2, <3>3, <3>4, <3>5, <3>6 DEF MaskedLanesOnly, Loaded
  <2>3. CASE ~ Single'
    BY <2>3 DEF MaskedLanesOnly
  <2> QED BY <2>1, <2>2, <2>3, SingleStep
<1> QED BY <1>1, <1>2, PTL DEF VectorSpec
-----------------------------------------------------------------------------
(* Words of masks.                                                         *)

(* Bits.                                                                   *)
LEMMA DivIs ==
  ASSUME NEW p \in Nat \ {0}, NEW k \in Int, NEW r \in 0 .. p - 1, NEW m \in Int, m = p * k + r
  PROVE  m \div p = k
<1>1. PICK q \in Int, s \in 0 .. p - 1 : q = m \div p /\ m = p * q + s
  BY DivMod
<1>2. PICK u \in Int, t \in Int : u = p * q /\ t = p * k
  OBVIOUS
<1>3. u + s = t + r
  BY <1>1, <1>2
<1>4. ASSUME q + 1 <= k PROVE FALSE
  <2>1. p * (q + 1) <= p * k /\ p * (q + 1) = p * q + p
    BY <1>4
  <2> QED BY <1>1, <1>2, <1>3, <2>1
<1>5. ASSUME k + 1 <= q PROVE FALSE
  <2>1. p * (k + 1) <= p * q /\ p * (k + 1) = p * k + p
    BY <1>5
  <2> QED BY <1>1, <1>2, <1>3, <2>1
<1>6. q = k
  BY <1>4, <1>5
<1> QED BY <1>1, <1>6

(* Numbers that are the same in a word have the same bits in it.           *)
LEMMA BitSame ==
  ASSUME NEW m \in Int, NEW n \in Int, NEW w \in Nat, NEW k \in 0 .. w - 1, SameModulo(m, n, 2^w)
  PROVE  Bit(m, k) = Bit(n, k)
<1>1. PICK p \in Nat \ {0} : p = 2^w
  BY PowerPositive
<1>2. m % p = n % p
  BY <1>1, ModSame
<1>3. Bit(m % 2^w, k) = Bit(m, k) /\ Bit(n % 2^w, k) = Bit(n, k)
  BY BitOfWord DEF AsUnsigned
<1> QED BY <1>1, <1>2, <1>3

LEMMA SmallBit ==
  ASSUME NEW w \in Nat, NEW m \in 0 .. 2^w - 1, NEW k \in Nat, w <= k
  PROVE  Bit(m, k) = 0
<1>1. PICK p \in Nat \ {0}, q \in Nat \ {0} : p = 2^w /\ q = 2^k /\ p <= q
  BY PowerPositive, PowersGrow
<1>2. m \in 0 .. q - 1 /\ m \in Int
  BY <1>1
<1>3. m = q * 0 + m /\ 0 \in Int
  BY <1>2
<1>4. m \div q = 0
  BY <1>2, <1>3, DivIs
<1> QED BY <1>1, <1>4 DEF Bit

LEMMA BitLow ==
  ASSUME NEW m \in Int, NEW w \in Nat, NEW k \in Nat
  PROVE  Bit(m % 2^w, k) = IF k < w THEN Bit(m, k) ELSE 0
<1>1. CASE k < w
  <2>1. k \in 0 .. w - 1
    BY <1>1
  <2> QED BY <1>1, <2>1, BitOfWord DEF AsUnsigned
<1>2. CASE ~ (k < w)
  <2>1. PICK p \in Nat \ {0} : p = 2^w
    BY PowerPositive
  <2>2. m % p \in 0 .. p - 1
    BY DivMod
  <2>3. m % 2^w \in 0 .. 2^w - 1 /\ w <= k
    BY <1>2, <2>1, <2>2
  <2> QED BY <1>2, <2>3, SmallBit
<1> QED BY <1>1, <1>2

LEMMA BitNot ==
  ASSUME NEW m \in Int, NEW k \in Nat
  PROVE  Bit(Not(m), k) = 1 - Bit(m, k)
<1>1. PICK p \in Nat \ {0} : p = 2^k
  BY PowerPositive
<1>2. PICK d \in Int, r \in 0 .. p - 1 : d = m \div p /\ m = p * d + r
  BY DivMod
<1>3. (-m - 1) \div p = -d - 1
  <2>1. p * (-d - 1) = -(p * d) - p
    OBVIOUS
  <2>2. PICK u \in Int : u = p * d
    OBVIOUS
  <2>3. -m - 1 = p * (-d - 1) + (p - 1 - r) /\ p - 1 - r \in 0 .. p - 1 /\ -d - 1 \in Int /\ -m - 1 \in Int
    BY <1>2, <2>1, <2>2
  <2> QED BY <2>3, DivIs
<1>4. (-d - 1) % 2 = 1 - (d % 2)
  OBVIOUS
<1> QED BY <1>1, <1>2, <1>3, <1>4 DEF Bit, Not

(* A number above a number of h bits.                                      *)
LEMMA BitsAbove ==
  ASSUME NEW h \in Nat, NEW low \in 0 .. 2^h - 1, NEW m \in Int, NEW k \in Nat
  PROVE  Bit(low + m * 2^h, k) = IF k < h THEN Bit(low, k) ELSE Bit(m, k - h)
<1>1. PICK p \in Nat \ {0} : p = 2^h
  BY PowerPositive
<1>2. low \in Nat /\ low \in 0 .. p - 1 /\ low + m * p \in Int
  BY <1>1
<1>3. CASE k < h
  <2>1. low + m * p = low + p * m
    OBVIOUS
  <2>2. SameModulo(low + m * p, low, p)
    BY <2>1 DEF SameModulo
  <2>3. k \in 0 .. h - 1
    BY <1>3
  <2> QED BY <1>1, <1>2, <1>3, <2>2, <2>3, BitSame
<1>4. CASE ~ (k < h)
  <2>1. k - h \in Nat /\ k = h + (k - h)
    BY <1>4
  <2>2. PICK q \in Nat \ {0} : q = 2^(k - h) /\ 2^k = p * q
    <3>1. 2^(k - h) \in Nat \ {0}
      BY <2>1, PowerPositive
    <3>2. 2^k = 2^h * 2^(k - h)
      BY <2>1, PowerSum
    <3> QED BY <1>1, <3>1, <3>2
  <2>3. PICK d \in Int, r \in 0 .. q - 1 : d = m \div q /\ m = q * d + r
    BY DivMod
  <2>4. PICK t \in Nat \ {0} : t = p * q
    <3>1. p * q \in Nat \ {0}
      OBVIOUS
    <3> QED BY <3>1
  <2>5. r * p + low \in 0 .. t - 1
    <3>1. r * p <= (q - 1) * p
      OBVIOUS
    <3>2. (q - 1) * p = p * q - p /\ r * p \in Nat
      OBVIOUS
    <3>3. PICK u \in Nat : u = r * p
      BY <3>2
    <3> QED BY <1>2, <2>4, <3>1, <3>2, <3>3
  <2>6. low + m * p = t * d + (r * p + low)
    <3>1. (q * d + r) * p = (p * q) * d + r * p
      OBVIOUS
    <3>2. PICK u \in Int, s \in Int : u = r * p /\ s = t * d
      BY <2>4
    <3>3. m * p = t * d + r * p
      BY <2>3, <2>4, <3>1
    <3> QED BY <1>2, <3>2, <3>3
  <2>7. (low + m * p) \div t = d
    BY <1>2, <2>5, <2>6, DivIs
  <2> QED BY <1>1, <1>4, <2>2, <2>3, <2>4, <2>7 DEF Bit
<1> QED BY <1>3, <1>4

(* Shifts. *)
LEMMA BitShifted ==
  ASSUME NEW m \in Int, NEW h \in Nat, NEW k \in Nat
  PROVE  /\ Bit(m * 2^h, k) = IF k < h THEN 0 ELSE Bit(m, k - h)
         /\ Bit(m \div 2^h, k) = Bit(m, k + h)
<1>1. PICK p \in Nat \ {0} : p = 2^h
  BY PowerPositive
<1>2. Bit(m * 2^h, k) = IF k < h THEN 0 ELSE Bit(m, k - h)
  <2>1. 0 \in 0 .. 2^h - 1 /\ 0 + m * 2^h = m * 2^h
    BY <1>1
  <2>2. 0 \in 0 .. 2^0 - 1 /\ 0 \in Nat /\ 0 <= k
    BY PowerZero
  <2>3. Bit(0, k) = 0
    BY <2>2, SmallBit
  <2>4. Bit(0 + m * 2^h, k) = IF k < h THEN Bit(0, k) ELSE Bit(m, k - h)
    BY <2>1, BitsAbove
  <2> QED BY <2>1, <2>3, <2>4
<1>3. PICK d \in Int, r \in 0 .. p - 1 : d = m \div p /\ m = p * d + r
  BY DivMod
<1>4. r \in 0 .. 2^h - 1 /\ m = r + d * 2^h
  <2>1. p * d = d * p
    OBVIOUS
  <2> QED BY <1>1, <1>3, <2>1
<1>5. Bit(m, k + h) = Bit(d, k)
  <2>1. k + h \in Nat /\ ~ (k + h < h) /\ (k + h) - h = k
    OBVIOUS
  <2>2. Bit(r + d * 2^h, k + h) = Bit(d, (k + h) - h)
    BY <1>4, <2>1, BitsAbove
  <2> QED BY <1>4, <2>1, <2>2
<1> QED BY <1>1, <1>2, <1>3, <1>5

(* A sum of powers of two has the bits that it takes.                      *)
SumsBits(f, n, b_) ==
  f[0] = 0 /\ \A k \in 0 .. n - 1 : b_[k] \in {0, 1} /\ f[k + 1] = f[k] + b_[k] * 2^k

LEMMA BitsOfSum ==
  ASSUME NEW n \in Nat, NEW f, NEW b_, SumsBits(f, n, b_)
  PROVE  f[n] \in 0 .. 2^n - 1 /\ \A k \in 0 .. n - 1 : Bit(f[n], k) = b_[k]
<1> DEFINE Claim(j) == f[j] \in 0 .. 2^j - 1 /\ \A k \in 0 .. j - 1 : Bit(f[j], k) = b_[k]
           T == {j \in 0 .. n : Claim(j)}
<1>1. 0 \in T
  BY PowerZero DEF SumsBits
<1>2. ASSUME NEW j \in 0 .. n - 1, j \in T PROVE j + 1 \in T
  <2>1. Claim(j) /\ j \in Nat /\ j + 1 \in 0 .. n /\ b_[j] \in {0, 1} /\ f[j + 1] = f[j] + b_[j] * 2^j
    BY <1>2 DEF SumsBits
  <2>2. PICK p \in Nat \ {0} : p = 2^j /\ 2^(j + 1) = 2 * p
    BY <2>1, PowerPositive, PowerDoubles
  <2>3. f[j + 1] \in 0 .. 2^(j + 1) - 1
    <3>1. PICK u \in Nat, t \in Nat : u = f[j] /\ u <= p - 1 /\ t = b_[j] * p /\ (t = 0 \/ t = p)
      <4>1. b_[j] * p = 0 \/ b_[j] * p = p
        BY <2>1
      <4>2. f[j] \in 0 .. p - 1
        BY <2>1, <2>2
      <4> QED BY <4>1, <4>2
    <3>2. f[j + 1] = u + t
      BY <2>1, <2>2, <3>1
    <3> QED BY <2>2, <3>1, <3>2
  <2>4. ASSUME NEW k \in 0 .. (j + 1) - 1 PROVE Bit(f[j + 1], k) = b_[k]
    <3>1. k \in Nat /\ b_[j] \in Int /\ f[j] \in 0 .. 2^j - 1
      BY <2>1
    <3>2. Bit(f[j + 1], k) = IF k < j THEN Bit(f[j], k) ELSE Bit(b_[j], k - j)
      <4>1. PICK low \in 0 .. 2^j - 1, m \in Int : low = f[j] /\ m = b_[j]
        BY <3>1
      <4>2. f[j + 1] = low + m * 2^j /\ j \in Nat
        BY <2>1, <4>1
      <4>3. Bit(low + m * 2^j, k) = IF k < j THEN Bit(low, k) ELSE Bit(m, k - j)
        BY ONLY <3>1, <4>2, BitsAbove
      <4> QED BY <4>1, <4>2, <4>3
    <3>3. CASE k < j
      <4>1. k \in 0 .. j - 1
        BY <3>3
      <4> QED BY <2>1, <3>2, <3>3, <4>1
    <3>4. CASE ~ (k < j)
      <4>1. k = j /\ k - j = 0
        BY <3>4
      <4>2. b_[j] \div 1 = b_[j] /\ b_[j] % 2 = b_[j]
        BY <2>1
      <4>3. Bit(b_[j], 0) = b_[j]
        BY <4>2, PowerZero DEF Bit
      <4> QED BY <3>2, <4>1, <4>3
    <3> QED BY <3>3, <3>4
  <2> HIDE DEF Claim
  <2> QED BY <2>1, <2>3, <2>4 DEF Claim
<1>3. 0 .. n \subseteq T
  <2> HIDE DEF T
  <2>1. \A j \in 0 .. n - 1 : j \in T => j + 1 \in T
    BY <1>2
  <2>2. 0 \in Int /\ n \in Int
    OBVIOUS
  <2> QED BY ONLY <1>1, <2>1, <2>2, IntervalInduction
<1> QED BY <1>3

(* And, Or and Xor work bit by bit.                                        *)
LEMMA BitsCombine ==
  ASSUME NEW m \in Int, NEW n \in Int, NEW k \in 0 .. Wide - 1
  PROVE  /\ And(m, n) \in Int /\ Or(m, n) \in Int /\ Xor(m, n) \in Int
         /\ Bit(And(m, n), k) = Bit(m, k) * Bit(n, k)
         /\ Bit(Or(m, n), k) = Bit(m, k) + Bit(n, k) - Bit(m, k) * Bit(n, k)
         /\ Bit(Xor(m, n), k) = Bit(m, k) + Bit(n, k) - 2 * (Bit(m, k) * Bit(n, k))
<1>1. Wide \in Nat \ {0}
  BY WordsAssumption
<1>2. PICK it : IsSetSum(it, Shared(m, n), 0 .. Wide - 1) /\ And(m, n) = Int128(it[0 .. Wide - 1])
  BY AndIsSum
<1> DEFINE both(j) == it[0 .. j - 1]
           f1 == [j \in 0 .. Wide |-> both(j)]
           f2 == [j \in 0 .. Wide |-> (m % 2^j) + (n % 2^j) - both(j)]
           f3 == [j \in 0 .. Wide |-> (m % 2^j) + (n % 2^j) - 2 * both(j)]
           b1 == [j \in 0 .. Wide - 1 |-> Bit(m, j) * Bit(n, j)]
           b2 == [j \in 0 .. Wide - 1 |-> Bit(m, j) + Bit(n, j) - Bit(m, j) * Bit(n, j)]
           b3 == [j \in 0 .. Wide - 1 |-> Bit(m, j) + Bit(n, j) - 2 * (Bit(m, j) * Bit(n, j))]
<1>3. both(0) = 0 /\ m % 2^0 = 0 /\ n % 2^0 = 0
  <2>1. 0 .. 0 - 1 = {} /\ m % 1 = 0 /\ n % 1 = 0
    OBVIOUS
  <2>2. it[{}] = 0
    BY <1>2 DEF IsSetSum
  <2> QED BY <2>1, <2>2, PowerZero
<1>4. \A j \in 0 .. Wide : both(j) \in Nat /\ m % 2^j \in Nat /\ n % 2^j \in Nat
  <2>1. ASSUME NEW j \in 0 .. Wide PROVE both(j) \in Nat
    <3>1. LET u == it[0 .. j - 1]
          IN  /\ u \in Nat /\ u <= m % 2^j /\ u <= n % 2^j
              /\ (m % 2^j) + (n % 2^j) - 2 * u \in 0 .. 2^j - 1
              /\ m = n => u = m % 2^j
      BY ONLY <1>2, m \in Int, n \in Int, j \in 0 .. Wide, SharedBits
    <3> QED BY <3>1
  <2>2. \A j \in 0 .. Wide : j \in Nat
    BY <1>1
  <2> QED BY <2>1, <2>2, BitIs
<1>5. ASSUME NEW j \in 0 .. Wide - 1
      PROVE  \E p \in Nat, c1 \in {0, 1}, c2 \in {0, 1} :
               /\ p = 2^j /\ c1 = Bit(m, j) /\ c2 = Bit(n, j)
               /\ both(j + 1) = both(j) + (c1 * c2) * p
               /\ m % 2^(j + 1) = (m % 2^j) + c1 * p
               /\ n % 2^(j + 1) = (n % 2^j) + c2 * p
  <2>1. PICK p \in Nat, c1 \in {0, 1}, c2 \in {0, 1} : p = 2^j /\ c1 = Bit(m, j) /\ c2 = Bit(n, j)
    <3>1. j \in Nat
      BY <1>1
    <3>2. 2^j \in Nat
      BY <3>1, PowerType
    <3>3. Bit(m, j) \in {0, 1} /\ Bit(n, j) \in {0, 1}
      BY <3>1, BitIs
    <3> QED BY <3>2, <3>3
  <2>2. m % 2^(j + 1) = (m % 2^j) + p * c1 /\ n % 2^(j + 1) = (n % 2^j) + p * c2
    BY <1>1, <2>1, BitIs
  <2>3. both(j + 1) = Shared(m, n)[j] + both(j)
    <3>1. Shared(m, n) \in [0 .. Wide - 1 -> Nat] /\ Wide \in Nat
      BY <1>1, AndIsSum
    <3>2. it[0 .. j] = Shared(m, n)[j] + it[0 .. j - 1]
      <4> HIDE DEF f1, f2, f3, b1, b2, b3
      <4>1. PICK g \in [0 .. Wide - 1 -> Nat] : g = Shared(m, n) /\ IsSetSum(it, g, 0 .. Wide - 1)
        BY <1>2, <3>1
      <4>3. it[0 .. j] = g[j] + it[0 .. j - 1]
        BY <3>1, <4>1, LastOfSum
      <4> QED BY <4>1, <4>3
    <3>3. (j + 1) - 1 = j
      OBVIOUS
    <3> QED BY <3>2, <3>3
  <2>4. Shared(m, n)[j] = (p * c1) * c2
    BY <2>1 DEF Shared
  <2>5. (p * c1) * c2 = (c1 * c2) * p /\ p * c1 = c1 * p /\ p * c2 = c2 * p
    OBVIOUS
  <2>6. both(j) \in Nat /\ (c1 * c2) * p \in Nat
    <3>1. j \in 0 .. Wide
      BY <1>1
    <3>2. c1 * c2 \in {0, 1}
      OBVIOUS
    <3>3. (c1 * c2) * p \in Nat
      BY <3>2
    <3> HIDE DEF both
    <3> QED BY <1>4, <3>1, <3>3
  <2>7. both(j + 1) = both(j) + (c1 * c2) * p
    BY <2>3, <2>4, <2>5, <2>6
  <2> QED BY <2>1, <2>2, <2>5, <2>7
<1> HIDE DEF both
<1>6. SumsBits(f1, Wide, b1) /\ SumsBits(f2, Wide, b2) /\ SumsBits(f3, Wide, b3)
  <2>1. f1[0] = 0 /\ f2[0] = 0 /\ f3[0] = 0
    BY <1>1, <1>3
  <2>2. ASSUME NEW j \in 0 .. Wide - 1
        PROVE  /\ b1[j] \in {0, 1} /\ b2[j] \in {0, 1} /\ b3[j] \in {0, 1}
               /\ f1[j + 1] = f1[j] + b1[j] * 2^j
               /\ f2[j + 1] = f2[j] + b2[j] * 2^j
               /\ f3[j + 1] = f3[j] + b3[j] * 2^j
    <3>1. PICK p \in Nat, c1 \in {0, 1}, c2 \in {0, 1} :
               /\ p = 2^j /\ c1 = Bit(m, j) /\ c2 = Bit(n, j)
               /\ both(j + 1) = both(j) + (c1 * c2) * p
               /\ m % 2^(j + 1) = (m % 2^j) + c1 * p
               /\ n % 2^(j + 1) = (n % 2^j) + c2 * p
      BY <1>5
    <3>2. j \in 0 .. Wide /\ j + 1 \in 0 .. Wide
      BY <1>1
    <3>3. PICK u \in Nat, m1 \in Nat, n1 \in Nat : u = both(j) /\ m1 = m % 2^j /\ n1 = n % 2^j
      BY <1>4, <3>2
    <3>4. /\ b1[j] = c1 * c2 /\ b2[j] = c1 + c2 - c1 * c2 /\ b3[j] = c1 + c2 - 2 * (c1 * c2)
      BY <3>1
    <3>5. /\ f1[j] = u /\ f2[j] = m1 + n1 - u /\ f3[j] = m1 + n1 - 2 * u
          /\ f1[j + 1] = u + (c1 * c2) * p
          /\ f2[j + 1] = (m1 + c1 * p) + (n1 + c2 * p) - (u + (c1 * c2) * p)
          /\ f3[j + 1] = (m1 + c1 * p) + (n1 + c2 * p) - 2 * (u + (c1 * c2) * p)
      BY <3>1, <3>2, <3>3
    <3> HIDE DEF f1, f2, f3, b1, b2, b3
    <3>6. CASE c1 = 0 /\ c2 = 0
      BY <3>1, <3>4, <3>5, <3>6
    <3>7. CASE c1 = 1 /\ c2 = 0
      BY <3>1, <3>4, <3>5, <3>7
    <3>8. CASE c1 = 0 /\ c2 = 1
      BY <3>1, <3>4, <3>5, <3>8
    <3>9. CASE c1 = 1 /\ c2 = 1
      BY <3>1, <3>4, <3>5, <3>9
    <3> QED BY <3>6, <3>7, <3>8, <3>9
  <2> HIDE DEF f1, f2, f3, b1, b2, b3
  <2> QED BY <2>1, <2>2 DEF SumsBits
<1>7. /\ f1[Wide] \in Int /\ Bit(f1[Wide], k) = b1[k]
      /\ f2[Wide] \in Int /\ Bit(f2[Wide], k) = b2[k]
      /\ f3[Wide] \in Int /\ Bit(f3[Wide], k) = b3[k]
  <2> HIDE DEF f1, f2, f3, b1, b2, b3
  <2> QED BY <1>1, <1>6, BitsOfSum
<1>8. PICK p \in Nat \ {0}, u \in Nat, c0 \in Int, c1 \in Int, c2 \in Int, m1 \in Nat, n1 \in Nat :
        /\ p = 2^Wide /\ u = both(Wide) /\ m1 = m % p /\ n1 = n % p
        /\ And(m, n) = u + p * c0 /\ m = m1 + p * c1 /\ n = n1 + p * c2
  <2>1. PICK p \in Nat \ {0} : p = 2^Wide
    BY <1>1, PowerPositive
  <2>2. PICK c1 \in Int, m1 \in 0 .. p - 1 : m1 = m % p /\ m = p * c1 + m1
    BY DivMod
  <2>3. PICK c2 \in Int, n1 \in 0 .. p - 1 : n1 = n % p /\ n = p * c2 + n1
    BY DivMod
  <2>4. PICK u \in Nat : u = both(Wide)
    BY <1>1, <1>4
  <2>5. And(m, n) = AsSigned(u, Wide)
    BY <1>2, <2>4 DEF Int128, both
  <2>6. AsSigned(u, Wide) \in Int /\ SameModulo(AsSigned(u, Wide), u, p)
    BY <1>1, <2>1, SignedWord
  <2>7. PICK c0 \in Int : And(m, n) = u + p * c0
    BY <2>5, <2>6 DEF SameModulo
  <2>8. m1 \in Nat /\ n1 \in Nat /\ m = m1 + p * c1 /\ n = n1 + p * c2
    <3>1. PICK e1 \in Int, e2 \in Int : e1 = p * c1 /\ e2 = p * c2
      OBVIOUS
    <3> QED BY <2>2, <2>3, <3>1
  <2> HIDE DEF f1, f2, f3, b1, b2, b3
  <2>9. m1 = m % p /\ n1 = n % p /\ m1 \in Nat /\ n1 \in Nat
    BY <2>2, <2>3, <2>8
  <2> WITNESS p \in Nat \ {0}, u \in Nat, c0 \in Int, c1 \in Int, c2 \in Int, m1 \in Nat, n1 \in Nat
  <2> QED BY <2>1, <2>4, <2>7, <2>8, <2>9
<1>9. f1[Wide] = u /\ f2[Wide] = m1 + n1 - u /\ f3[Wide] = m1 + n1 - 2 * u
  BY <1>1, <1>8
<1>10. PICK e0 \in Int, e1 \in Int, e2 \in Int : e0 = p * c0 /\ e1 = p * c1 /\ e2 = p * c2
  OBVIOUS
<1>11. /\ And(m, n) = u + p * c0
       /\ Or(m, n) = (m1 + n1 - u) + p * (c1 + c2 - c0)
       /\ Xor(m, n) = (m1 + n1 - 2 * u) + p * (c1 + c2 - 2 * c0)
  <2>1. p * (c1 + c2 - c0) = p * c1 + p * c2 - p * c0 /\ p * (c1 + c2 - 2 * c0) = p * c1 + p * c2 - 2 * (p * c0)
    OBVIOUS
  <2> QED BY <1>8, <1>10, <2>1 DEF Or, Xor
<1>12. /\ And(m, n) \in Int /\ SameModulo(And(m, n), u, p)
       /\ Or(m, n) \in Int /\ SameModulo(Or(m, n), m1 + n1 - u, p)
       /\ Xor(m, n) \in Int /\ SameModulo(Xor(m, n), m1 + n1 - 2 * u, p)
  <2>1. c1 + c2 - c0 \in Int /\ c1 + c2 - 2 * c0 \in Int
    OBVIOUS
  <2>2. ASSUME NEW r \in Int, NEW i \in Int, NEW q, q = r + p * i PROVE q \in Int /\ SameModulo(q, r, p)
    BY <2>2 DEF SameModulo
  <2>3. u \in Int /\ m1 + n1 - u \in Int /\ m1 + n1 - 2 * u \in Int
    OBVIOUS
  <2> QED BY ONLY <1>11, <2>1, <2>2, <2>3, c0 \in Int
<1>13. /\ Bit(And(m, n), k) = Bit(u, k) /\ Bit(Or(m, n), k) = Bit(m1 + n1 - u, k)
       /\ Bit(Xor(m, n), k) = Bit(m1 + n1 - 2 * u, k)
  <2>1. u \in Int /\ m1 + n1 - u \in Int /\ m1 + n1 - 2 * u \in Int /\ Wide \in Nat
    BY <1>1
  <2> QED BY <1>8, <1>12, <2>1, BitSame
<1> QED BY <1>7, <1>9, <1>12, <1>13

(* The mask of a set of lanes has their bits.                              *)
LEMMA MaskOfBits ==
  ASSUME NEW n \in Nat, NEW S \in SUBSET (0 .. n - 1)
  PROVE  /\ MaskOf(S) \in 0 .. 2^n - 1
         /\ \A k \in 0 .. n - 1 : Bit(MaskOf(S), k) = IF k \in S THEN 1 ELSE 0
<1> DEFINE g == [i \in S |-> 2^i]
           Summed(it) == it = [s \in SUBSET S |->
                                 IF s = {} THEN 0 ELSE LET i == CHOOSE i \in s : TRUE IN 2^i + it[s \ {i}]]
           sum == CHOOSE it : Summed(it)
<1>1. IsFiniteSet(S) /\ g \in [S -> Nat]
  <2>1. 0 \in Int /\ n - 1 \in Int /\ \A i \in S : i \in Nat
    OBVIOUS
  <2>2. IsFiniteSet(0 .. n - 1)
    BY <2>1, FS_Interval
  <2> QED BY <2>1, <2>2, FS_Subset, PowerType
<1>2. ASSUME NEW it PROVE IsSetSum(it, g, S) <=> Summed(it)
  <2> DEFINE Here(s) == IF s = {} THEN 0 ELSE g[FirstTaken(s)] + it[s \ {FirstTaken(s)}]
             There(s) == IF s = {} THEN 0 ELSE LET i == CHOOSE i \in s : TRUE IN 2^i + it[s \ {i}]
  <2>1. ASSUME NEW s \in SUBSET S PROVE Here(s) = There(s)
    <3>1. CASE s = {}
      BY <3>1
    <3>2. CASE s # {}
      <4> DEFINE e == CHOOSE i \in s : TRUE
      <4>1. FirstTaken(s) = e
        BY DEF FirstTaken
      <4>2. e \in S
        BY <3>2
      <4>3. g[e] = 2^e
        BY <4>2
      <4>4. Here(s) = g[e] + it[s \ {e}]
        BY <3>2, <4>1
      <4>5. There(s) = 2^e + it[s \ {e}]
        BY <3>2
      <4> HIDE DEF Here, There, e, g
      <4> QED BY <4>3, <4>4, <4>5
    <3> QED BY <3>1, <3>2
  <2>2. (IsSetSum(it, g, S) <=> it = [s \in SUBSET S |-> Here(s)]) /\ (Summed(it) <=> it = [s \in SUBSET S |-> There(s)])
    BY DEF IsSetSum
  <2>3. [s \in SUBSET S |-> Here(s)] = [s \in SUBSET S |-> There(s)]
    <3> HIDE DEF Here, There
    <3> QED BY <2>1, Zenon
  <2> HIDE DEF Here, There, Summed
  <2> QED BY <2>2, <2>3
<1>3. IsSetSum(sum, g, S) /\ MaskOf(S) = sum[S]
  <2>1. \E it : Summed(it)
    <3> HIDE DEF g, Summed
    <3>1. PICK it : IsSetSum(it, g, S)
      BY <1>1, SetSumExists
    <3> QED BY <3>1, <1>2
  <2>2. Summed(sum)
    BY <2>1, Zenon
  <2>3. MaskOf(S) = sum[S]
    BY DEF MaskOf, MapThenSumSet, MapThenFoldSet
  <2> HIDE DEF g, sum, Summed
  <2> QED BY <1>2, <2>2, <2>3
<1> DEFINE f == [j \in 0 .. n |-> sum[S \cap (0 .. j - 1)]]
           b_ == [j \in 0 .. n - 1 |-> IF j \in S THEN 1 ELSE 0]
<1> HIDE DEF sum, Summed
<1>4. SumsBits(f, n, b_)
  <2>1. f[0] = 0
    <3>1. S \cap (0 .. 0 - 1) = {} /\ {} \in SUBSET S
      OBVIOUS
    <3>2. sum[{}] = 0
      BY <1>3, <3>1 DEF IsSetSum
    <3> QED BY <3>1, <3>2
  <2>2. ASSUME NEW k \in 0 .. n - 1 PROVE b_[k] \in {0, 1} /\ f[k + 1] = f[k] + b_[k] * 2^k
    <3>1. PICK p \in Nat : p = 2^k
      BY PowerType
    <3>2. PICK s \in SUBSET S, t \in SUBSET S : s = S \cap (0 .. k - 1) /\ t = S \cap (0 .. k)
      OBVIOUS
    <3>3. f[k] = sum[s] /\ f[k + 1] = sum[t] /\ b_[k] = IF k \in S THEN 1 ELSE 0
      <4>1. (k + 1) - 1 = k /\ k \in 0 .. n /\ k + 1 \in 0 .. n
        OBVIOUS
      <4> QED BY <3>2, <4>1
    <3>4. sum[s] \in Nat
      <4> HIDE DEF g
      <4> QED BY <1>1, <1>3, SetSumIsNatural
    <3>5. CASE k \in S
      <4>1. k \in t /\ t \ {k} = s /\ g[k] = p
        BY <3>1, <3>2, <3>5
      <4>2. sum[t] = g[k] + sum[t \ {k}]
        <5>1. PICK h : h = g
          OBVIOUS
        <5>2. PICK it : it = sum
          OBVIOUS
        <5>3. PICK R, r, e : R = S /\ r = t /\ e = k
          OBVIOUS
        <5>4. IsFiniteSet(R) /\ h \in [R -> Nat] /\ IsSetSum(it, h, R) /\ r \in SUBSET R /\ e \in r
          <6> HIDE DEF f, g, b_
          <6> QED BY <1>1, <1>3, <4>1, <5>1, <5>2, <5>3
        <5>5. it[r] = h[e] + it[r \ {e}]
          BY ONLY <5>4, SetSumTakesAny
        <5> QED BY <5>1, <5>2, <5>3, <5>5
      <4>3. PICK u \in Nat : u = sum[s]
        BY <3>4
      <4>4. f[k + 1] = p + u /\ f[k] = u /\ b_[k] = 1
        <5> HIDE DEF f, g, b_
        <5> QED BY <3>3, <3>5, <4>1, <4>2, <4>3
      <4> HIDE DEF f, g, b_
      <4> QED BY <3>1, <4>3, <4>4
    <3>6. CASE k \notin S
      <4>1. t = s
        BY <3>2, <3>6
      <4> QED BY <3>1, <3>3, <3>4, <3>6, <4>1
    <3> QED BY <3>5, <3>6
  <2> HIDE DEF f, b_
  <2> QED BY <2>1, <2>2 DEF SumsBits
<1>5. f[n] = MaskOf(S)
  <2>1. n \in 0 .. n /\ f[n] = sum[S \cap (0 .. n - 1)]
    OBVIOUS
  <2>2. S \cap (0 .. n - 1) = S
    BY Zenon
  <2> HIDE DEF f
  <2> QED BY <1>3, <2>1, <2>2
<1>6. \A k \in 0 .. n - 1 : b_[k] = IF k \in S THEN 1 ELSE 0
  OBVIOUS
<1> HIDE DEF f, b_
<1> QED BY <1>4, <1>5, <1>6, BitsOfSum

(* Counts.                                                                 *)
LEMMA CountOfLanes ==
  ASSUME NEW n \in Nat, NEW S \in SUBSET (0 .. n - 1)
  PROVE  /\ Cardinality(S) \in 0 .. n
         /\ S # {} => /\ Min(S) \in S /\ \A k \in S : Min(S) <= k
                      /\ Max(S) \in S /\ \A k \in S : k <= Max(S)
<1>1. Cardinality(S) \in 0 .. n
  <2>1. IsFiniteSet(0 .. n - 1) /\ Cardinality(0 .. n - 1) = n
    <3>1. 0 \in Int /\ n - 1 \in Int
      OBVIOUS
    <3>2. IsFiniteSet(0 .. n - 1) /\ Cardinality(0 .. n - 1) = IF 0 > n - 1 THEN 0 ELSE (n - 1) - 0 + 1
      BY <3>1, FS_Interval
    <3> QED BY <3>2
  <2>2. IsFiniteSet(S) /\ Cardinality(S) <= Cardinality(0 .. n - 1)
    BY <2>1, FS_Subset
  <2>3. Cardinality(S) \in Nat
    BY <2>2, FS_CardinalityType
  <2> QED BY <2>1, <2>2, <2>3
<1>2. ASSUME S # {} PROVE Min(S) \in S /\ \A k \in S : Min(S) <= k
  <2>1. S \in SUBSET Nat
    OBVIOUS
  <2>2. \E m \in S : \A k \in S : m <= k
    BY <1>2, <2>1, LeastElement
  <2> QED BY <2>2 DEF Min
<1>3. ASSUME S # {} PROVE Max(S) \in S /\ \A k \in S : k <= Max(S)
  <2> DEFINE T == {m \in Nat : \E i \in S : m = n - i}
  <2>1. T \in SUBSET Nat /\ T # {}
    <3>1. \A i \in S : n - i \in Nat
      OBVIOUS
    <3> QED BY <1>3, <3>1
  <2>2. PICK m \in T : \A k \in T : m <= k
    BY <2>1, LeastElement
  <2>3. PICK i \in S : m = n - i
    BY <2>2
  <2>4. ASSUME NEW k \in S PROVE k <= i
    <3>1. n - k \in T
      OBVIOUS
    <3> QED BY <2>2, <2>3, <3>1
  <2> HIDE DEF T
  <2>5. \E e \in S : \A k \in S : e >= k
    BY <2>4
  <2>6. Max(S) \in S /\ \A k \in S : Max(S) >= k
    BY <2>5 DEF Max
  <2> QED BY <2>6
<1> QED BY <1>1, <1>2, <1>3

(* The bits of a number in the word of a type, and a number that fits it.  *)
LEMMA BitOfNumber ==
  ASSUME NEW t \in DOMAIN Width, NEW m \in Int
  PROVE  /\ \A k \in 0 .. Width[t] - 1 : Bit(Number(t, m), k) = Bit(m, k)
         /\ t \notin Unsigned /\ m \in -(2^(Width[t] - 1)) .. 2^(Width[t] - 1) - 1 => Number(t, m) = m
<1>1. PICK w \in Nat \ {0} : w = Width[t]
  BY WidthAssumption
<1>2. Number(t, m) \in Int /\ SameModulo(Number(t, m), m, 2^Width[t])
  BY WrittenWord DEF Number
<1>3. \A k \in 0 .. Width[t] - 1 : Bit(Number(t, m), k) = Bit(m, k)
  BY <1>1, <1>2, BitSame
<1>4. ASSUME t \notin Unsigned, m \in -(2^(w - 1)) .. 2^(w - 1) - 1 PROVE Number(t, m) = m
  <2>1. AsSigned(m, w) = m
    BY <1>4, SignedWord
  <2> QED BY <1>1, <1>4, <2>1 DEF Number, fromInt128
<1> QED BY <1>1, <1>3, <1>4
-----------------------------------------------------------------------------
(* The mask instructions on words.                                         *)

BitSet(m, w) == {k \in 0 .. w - 1 : maskBit(m, k)}

LEMMA BitSetLow ==
  ASSUME NEW m \in Int, NEW n \in Nat, NEW w \in Nat, n <= w
  PROVE  BitSet(m % 2^n, w) = Chosen(m, n)
<1>1. \A k \in 0 .. w - 1 : Bit(m % 2^n, k) = IF k < n THEN Bit(m, k) ELSE 0
  BY BitLow
<1> QED BY <1>1 DEF BitSet, Chosen, maskBit

LEMMA AllBits ==
  ASSUME NEW n \in Nat, NEW w \in Nat, n <= w
  PROVE  BitSet(2^n - 1, w) = 0 .. n - 1 /\ BitSet(0, w) = {}
<1>1. PICK p \in Nat \ {0} : p = 2^n
  BY PowerPositive
<1>2. 2^n - 1 \in 0 .. 2^n - 1 /\ 2^n - 1 \in Int
  BY <1>1
<1>3. ASSUME NEW k \in 0 .. w - 1 PROVE Bit(2^n - 1, k) = (IF k < n THEN 1 ELSE 0) /\ Bit(0, k) = 0
  <2>1. k \in Nat /\ 0 \in 0 .. 2^0 - 1 /\ 0 \in Nat /\ 0 <= k
    BY PowerZero
  <2>2. Bit(0, k) = 0
    BY <2>1, SmallBit
  <2>3. CASE k < n
    <3>1. Not(2^n - 1) = (-1) * 2^n /\ -1 \in Int
      BY <1>1 DEF Not
    <3>2. Bit((-1) * 2^n, k) = 0
      BY <2>1, <2>3, <3>1, BitShifted
    <3>3. Bit(Not(2^n - 1), k) = 1 - Bit(2^n - 1, k) /\ Bit(2^n - 1, k) \in {0, 1}
      BY <1>2, <2>1, BitNot, BitIs
    <3>4. Bit(2^n - 1, k) = 1
      BY <3>1, <3>2, <3>3
    <3> QED BY <2>2, <2>3, <3>4
  <2>4. CASE ~ (k < n)
    <3>1. n <= k
      BY <2>4
    <3>2. Bit(2^n - 1, k) = 0
      BY <1>2, <2>1, <3>1, SmallBit
    <3> QED BY <2>2, <2>4, <3>2
  <2> QED BY <2>3, <2>4
<1> QED BY <1>3 DEF BitSet, maskBit

LEMMA WordsAreSets ==
  ASSUME NEW n \in Nat, NEW x_ \in Int, NEW y_ \in Int, n <= Wide
  PROVE  LET A == Chosen(x_, n)
             B == Chosen(y_, n)
         IN  /\ Chosen(Not(x_), n) = (0 .. n - 1) \ A
             /\ Chosen(And(x_, y_), n) = A \cap B
             /\ Chosen(Or(x_, y_), n) = A \cup B
             /\ Chosen(Xor(x_, y_), n) = (A \ B) \cup (B \ A)
             /\ Chosen(And(Not(x_), y_), n) = B \ A
             /\ Chosen(Not(Xor(x_, y_)), n) = (A \cap B) \cup ((0 .. n - 1) \ (A \cup B))
<1>1. Not(x_) \in Int /\ Xor(x_, y_) \in Int /\ Wide \in Nat
  <2>1. Wide \in Nat \ {0} /\ 0 \in 0 .. Wide - 1
    BY WordsAssumption
  <2> QED BY <2>1, BitsCombine DEF Not
<1>2. ASSUME NEW k \in 0 .. n - 1
      PROVE  \E c1 \in {0, 1}, c2 \in {0, 1} :
               /\ Bit(x_, k) = c1 /\ Bit(y_, k) = c2
               /\ Bit(Not(x_), k) = 1 - c1
               /\ Bit(And(x_, y_), k) = c1 * c2
               /\ Bit(Or(x_, y_), k) = c1 + c2 - c1 * c2
               /\ Bit(Xor(x_, y_), k) = c1 + c2 - 2 * (c1 * c2)
               /\ Bit(And(Not(x_), y_), k) = (1 - c1) * c2
               /\ Bit(Not(Xor(x_, y_)), k) = 1 - (c1 + c2 - 2 * (c1 * c2))
  <2>1. k \in Nat /\ k \in 0 .. Wide - 1
    BY <1>1
  <2>2. PICK c1 \in {0, 1}, c2 \in {0, 1} : Bit(x_, k) = c1 /\ Bit(y_, k) = c2
    BY <2>1, BitIs
  <2>3. Bit(Not(x_), k) = 1 - c1
    BY <2>1, <2>2, BitNot
  <2>4. /\ Bit(And(x_, y_), k) = c1 * c2
        /\ Bit(Or(x_, y_), k) = c1 + c2 - c1 * c2
        /\ Bit(Xor(x_, y_), k) = c1 + c2 - 2 * (c1 * c2)
    BY <2>1, <2>2, BitsCombine
  <2>5. Bit(And(Not(x_), y_), k) = (1 - c1) * c2
    <3>1. PICK u \in Int : u = Not(x_)
      BY <1>1
    <3>2. Bit(And(u, y_), k) = Bit(u, k) * Bit(y_, k)
      BY <2>1, BitsCombine
    <3> QED BY <2>2, <2>3, <3>1, <3>2
  <2>6. Bit(Not(Xor(x_, y_)), k) = 1 - (c1 + c2 - 2 * (c1 * c2))
    BY <1>1, <2>1, <2>4, BitNot
  <2> QED BY <2>2, <2>3, <2>4, <2>5, <2>6
<1>3. ASSUME NEW k \in 0 .. n - 1
      PROVE  /\ maskBit(Not(x_), k) <=> ~ maskBit(x_, k)
             /\ maskBit(And(x_, y_), k) <=> maskBit(x_, k) /\ maskBit(y_, k)
             /\ maskBit(Or(x_, y_), k) <=> maskBit(x_, k) \/ maskBit(y_, k)
             /\ maskBit(Xor(x_, y_), k) <=> ~ (maskBit(x_, k) <=> maskBit(y_, k))
             /\ maskBit(And(Not(x_), y_), k) <=> ~ maskBit(x_, k) /\ maskBit(y_, k)
             /\ maskBit(Not(Xor(x_, y_)), k) <=> (maskBit(x_, k) <=> maskBit(y_, k))
  <2>1. PICK c1 \in {0, 1}, c2 \in {0, 1} :
               /\ Bit(x_, k) = c1 /\ Bit(y_, k) = c2
               /\ Bit(Not(x_), k) = 1 - c1
               /\ Bit(And(x_, y_), k) = c1 * c2
               /\ Bit(Or(x_, y_), k) = c1 + c2 - c1 * c2
               /\ Bit(Xor(x_, y_), k) = c1 + c2 - 2 * (c1 * c2)
               /\ Bit(And(Not(x_), y_), k) = (1 - c1) * c2
               /\ Bit(Not(Xor(x_, y_)), k) = 1 - (c1 + c2 - 2 * (c1 * c2))
    BY <1>2
  <2>2. CASE c1 = 0 /\ c2 = 0
    BY <2>1, <2>2 DEF maskBit
  <2>3. CASE c1 = 1 /\ c2 = 0
    BY <2>1, <2>3 DEF maskBit
  <2>4. CASE c1 = 0 /\ c2 = 1
    BY <2>1, <2>4 DEF maskBit
  <2>5. CASE c1 = 1 /\ c2 = 1
    BY <2>1, <2>5 DEF maskBit
  <2> QED BY <2>2, <2>3, <2>4, <2>5
<1> QED BY <1>3, Zenon DEF Chosen

(* What each of them leaves in a word of w bits.                           *)
LEMMA MaskWordIs ==
  ASSUME nlanes \in Nat, NEW w \in Nat, nlanes <= w, w <= Wide,
         NEW o \in {"kset", "kclr", "kmov", "knot", "kand", "kor", "kxor", "kandn", "kxnor"},
         NEW args_, \A k \in 1 .. MasksRead(o) : args_[k] \in Int
  PROVE  /\ kmask(o, nlanes, args_) \in Int
         /\ BitSet(kmask(o, nlanes, args_), w) = SetOf(o, Chosen(args_[1], nlanes), Chosen(args_[2], nlanes))
<1> DEFINE n == nlanes
           x1 == args_[1]
           y1 == args_[2]
<1>0. Wide \in Nat /\ n <= Wide /\ 2^n \in Nat \ {0}
  BY WordsAssumption, PowerPositive
<1>1. ASSUME NEW m \in Int PROVE m % 2^n \in Int /\ BitSet(m % 2^n, w) = Chosen(m, n)
  BY <1>0, BitSetLow
<1>2. CASE o = "kset"
  BY <1>0, <1>2, AllBits DEF kmask, SetOf, LaneIds
<1>3. CASE o = "kclr"
  BY <1>0, <1>3, AllBits DEF kmask, SetOf
<1>4. CASE o \in {"kmov", "knot"}
  <2>1. x1 \in Int
    <3>1. MasksRead(o) = 1
      BY <1>4 DEF MasksRead
    <3> QED BY <3>1
  <2>2. Not(x1) \in Int
    BY <2>1 DEF Not
  <2>3. Chosen(Not(x1), n) = (0 .. n - 1) \ Chosen(x1, n)
    BY <1>0, <2>1, WordsAreSets
  <2> HIDE DEF n, x1
  <2> QED BY <1>1, <1>4, <2>1, <2>2, <2>3 DEF kmask, SetOf, LaneIds, n, x1
<1>5. CASE o \in {"kand", "kor", "kxor", "kandn", "kxnor"}
  <2>1. x1 \in Int /\ y1 \in Int
    <3>1. MasksRead(o) = 2
      BY <1>5 DEF MasksRead
    <3> QED BY <3>1
  <2>2. ASSUME NEW m \in Int, NEW k \in Int
        PROVE  And(m, k) \in Int /\ Or(m, k) \in Int /\ Xor(m, k) \in Int /\ Not(m) \in Int
    <3>1. PICK i \in 0 .. Wide - 1 : i = 0
      BY WordsAssumption
    <3>2. And(m, k) \in Int /\ Or(m, k) \in Int /\ Xor(m, k) \in Int
      BY BitsCombine
    <3> QED BY <3>2 DEF Not
  <2>3. LET A == Chosen(x1, n)
            B == Chosen(y1, n)
        IN  /\ Chosen(And(x1, y1), n) = A \cap B
            /\ Chosen(Or(x1, y1), n) = A \cup B
            /\ Chosen(Xor(x1, y1), n) = (A \ B) \cup (B \ A)
            /\ Chosen(And(Not(x1), y1), n) = B \ A
            /\ Chosen(Not(Xor(x1, y1)), n) = (A \cap B) \cup ((0 .. n - 1) \ (A \cup B))
    BY <1>0, <2>1, WordsAreSets
  <2>4. /\ And(x1, y1) \in Int /\ Or(x1, y1) \in Int /\ Xor(x1, y1) \in Int
        /\ And(Not(x1), y1) \in Int /\ Not(Xor(x1, y1)) \in Int
    BY <2>1, <2>2
  <2>5. kmask(o, n, args_) = CASE o = "kand" -> And(x1, y1) % 2^n
                               [] o = "kor" -> Or(x1, y1) % 2^n
                               [] o = "kxor" -> Xor(x1, y1) % 2^n
                               [] o = "kandn" -> And(Not(x1), y1) % 2^n
                               [] o = "kxnor" -> Not(Xor(x1, y1)) % 2^n
    BY <1>5 DEF kmask
  <2> HIDE DEF n, x1, y1
  <2>6. SetOf(o, Chosen(x1, n), Chosen(y1, n)) = CASE o = "kand" -> Chosen(And(x1, y1), n)
                               [] o = "kor" -> Chosen(Or(x1, y1), n)
                               [] o = "kxor" -> Chosen(Xor(x1, y1), n)
                               [] o = "kandn" -> Chosen(And(Not(x1), y1), n)
                               [] o = "kxnor" -> Chosen(Not(Xor(x1, y1)), n)
    BY <1>5, <2>3 DEF SetOf, LaneIds, n
  <2>7. /\ kmask(o, n, args_) \in Int
        /\ BitSet(kmask(o, n, args_), w) = SetOf(o, Chosen(x1, n), Chosen(y1, n))
    BY <1>1, <1>5, <2>4, <2>5, <2>6
  <2> QED BY <2>7 DEF n, x1, y1
<1> QED BY <1>2, <1>3, <1>4, <1>5

LEMMA ShiftsAreMoves ==
  ASSUME nlanes \in Nat, NEW w \in Nat, nlanes <= w, NEW o \in {"kshiftl", "kshiftr"},
         NEW args_, args_[1] \in Int, SizeT(args_[2]) \in 0 .. nlanes
  PROVE  /\ kmask(o, nlanes, args_) \in Int
         /\ o = "kshiftl" =>
              BitSet(kmask(o, nlanes, args_), w) = MovedUp(Chosen(args_[1], nlanes), SizeT(args_[2])) \cap LaneIds
         /\ o = "kshiftr" =>
              BitSet(kmask(o, nlanes, args_), w) = MovedDown(Chosen(args_[1], nlanes), SizeT(args_[2]))
<1>1. PICK n \in Nat, s \in Nat, m \in Int : n = nlanes /\ s <= n /\ s = SizeT(args_[2]) /\ m = args_[1]
  OBVIOUS
<1>2. PICK u \in Int : u = m % 2^n /\ \A k \in Nat : Bit(u, k) = IF k < n THEN Bit(m, k) ELSE 0
  <2>1. 2^n \in Nat \ {0}
    BY PowerPositive
  <2>2. m % 2^n \in Int
    BY <2>1
  <2> QED BY <2>2, BitLow
<1>3. PICK p \in Nat \ {0} : p = 2^s
  BY PowerPositive
<1>4. CASE o = "kshiftl"
  <2>1. PICK v_ \in Int : v_ = u * p
    OBVIOUS
  <2>2. kmask(o, n, args_) = v_ % 2^n
    BY <1>1, <1>2, <1>3, <1>4, <2>1 DEF kmask
  <2>3. BitSet(v_ % 2^n, w) = Chosen(v_, n)
    BY <1>1, BitSetLow
  <2>4. ASSUME NEW k \in 0 .. n - 1 PROVE Bit(v_, k) = IF k < s THEN 0 ELSE Bit(m, k - s)
    <3>1. Bit(v_, k) = IF k < s THEN 0 ELSE Bit(u, k - s)
      <4>1. k \in Nat /\ u * 2^s = v_
        BY <1>3, <2>1
      <4>2. Bit(u * 2^s, k) = IF k < s THEN 0 ELSE Bit(u, k - s)
        BY <4>1, BitShifted
      <4> QED BY <4>1, <4>2
    <3>2. CASE ~ (k < s)
      <4>1. k - s \in Nat /\ k - s < n
        BY <3>2
      <4> QED BY <1>2, <3>1, <3>2, <4>1
    <3> QED BY <3>1, <3>2
  <2>5. Chosen(v_, n) = MovedUp(Chosen(m, n), s) \cap (0 .. n - 1)
    <3>1. ASSUME NEW k \in Chosen(v_, n) PROVE k \in MovedUp(Chosen(m, n), s) /\ k \in 0 .. n - 1
      <4>1. k \in 0 .. n - 1 /\ Bit(v_, k) = 1
        BY DEF Chosen, maskBit
      <4>2. ~ (k < s) /\ Bit(m, k - s) = 1
        BY <2>4, <4>1
      <4>3. k - s \in Chosen(m, n) /\ k = (k - s) + s
        BY <4>1, <4>2 DEF Chosen, maskBit
      <4> QED BY <4>1, <4>3 DEF MovedUp
    <3>2. ASSUME NEW i \in Chosen(m, n), i + s \in 0 .. n - 1 PROVE i + s \in Chosen(v_, n)
      <4>1. i \in 0 .. n - 1 /\ Bit(m, i) = 1
        BY DEF Chosen, maskBit
      <4>2. ~ (i + s < s) /\ (i + s) - s = i
        BY <4>1
      <4>3. Bit(v_, i + s) = 1
        BY <2>4, <3>2, <4>1, <4>2
      <4> QED BY <3>2, <4>3 DEF Chosen, maskBit
    <3> QED BY <3>1, <3>2 DEF MovedUp
  <2>6. 2^n \in Nat \ {0}
    BY PowerPositive
  <2>7. kmask(o, n, args_) \in Int
    BY <2>2, <2>6
  <2> QED BY <1>1, <1>4, <2>2, <2>3, <2>5, <2>7 DEF LaneIds
<1>5. CASE o = "kshiftr"
  <2>1. PICK v_ \in Int : v_ = u \div p
    BY DivMod
  <2>2. kmask(o, n, args_) = v_
    BY <1>1, <1>2, <1>3, <1>5, <2>1 DEF kmask
  <2>3. ASSUME NEW k \in Nat PROVE Bit(v_, k) = IF k + s < n THEN Bit(m, k + s) ELSE 0
    <3>1. k + s \in Nat /\ Bit(v_, k) = Bit(u, k + s)
      <4>1. u \div 2^s = v_ /\ k + s \in Nat
        BY <1>3, <2>1
      <4>2. Bit(u \div 2^s, k) = Bit(u, k + s)
        BY BitShifted
      <4> QED BY <4>1, <4>2
    <3> QED BY <1>2, <3>1
  <2>4. BitSet(v_, w) = MovedDown(Chosen(m, n), s)
    <3>1. ASSUME NEW k \in BitSet(v_, w) PROVE k \in MovedDown(Chosen(m, n), s)
      <4>1. k \in Nat /\ Bit(v_, k) = 1
        BY DEF BitSet, maskBit
      <4>2. k + s < n /\ Bit(m, k + s) = 1
        BY <2>3, <4>1
      <4>3. k + s \in Chosen(m, n) /\ k + s >= s /\ k = (k + s) - s
        BY <4>1, <4>2 DEF Chosen, maskBit
      <4> QED BY <4>3 DEF MovedDown
    <3>2. ASSUME NEW i \in Chosen(m, n), i >= s PROVE i - s \in BitSet(v_, w)
      <4>1. i \in 0 .. n - 1 /\ Bit(m, i) = 1
        BY DEF Chosen, maskBit
      <4>2. i - s \in Nat /\ i - s \in 0 .. w - 1 /\ (i - s) + s = i
        BY <1>1, <3>2, <4>1
      <4>3. Bit(v_, i - s) = 1
        BY <2>3, <4>1, <4>2
      <4> QED BY <4>2, <4>3 DEF BitSet, maskBit
    <3> QED BY <3>1, <3>2 DEF MovedDown
  <2> QED BY <1>1, <1>5, <2>2, <2>4
<1> QED BY <1>4, <1>5

LEMMA UnpackIsHalves ==
  ASSUME nlanes \in Nat, NEW w \in Nat, nlanes <= w, NEW args_, args_[1] \in Int, args_[2] \in Int
  PROVE  LET half == nlanes \div 2
         IN  /\ kmask("kunpack", nlanes, args_) \in Int
             /\ BitSet(kmask("kunpack", nlanes, args_), w) =
                  (Chosen(args_[1], nlanes) \cap LowHalf) \cup MovedUp(Chosen(args_[2], nlanes) \cap LowHalf, half)
<1>1. PICK n \in Nat, h \in Nat, x1 \in Int, y1 \in Int :
        n = nlanes /\ h = nlanes \div 2 /\ 2 * h <= n /\ x1 = args_[1] /\ y1 = args_[2]
  OBVIOUS
<1>2. PICK p \in Nat \ {0} : p = 2^h
  BY PowerPositive
<1>3. PICK m1 \in 0 .. p - 1, n1 \in 0 .. p - 1 : m1 = x1 % p /\ n1 = y1 % p
  BY DivMod
<1>4. PICK u \in Int : u = m1 + n1 * p
  OBVIOUS
<1>5. kmask("kunpack", n, args_) = u
  BY <1>1, <1>2, <1>3, <1>4 DEF kmask
<1>6. ASSUME NEW k \in Nat
      PROVE  Bit(u, k) = IF k < h THEN Bit(x1, k) ELSE IF k - h < h THEN Bit(y1, k - h) ELSE 0
  <2>1. m1 \in 0 .. 2^h - 1 /\ n1 \in Int
    BY <1>2
  <2>2. Bit(m1 + n1 * 2^h, k) = IF k < h THEN Bit(m1, k) ELSE Bit(n1, k - h)
    BY <2>1, BitsAbove
  <2>3. Bit(m1, k) = IF k < h THEN Bit(x1, k) ELSE 0
    BY <1>2, <1>3, BitLow
  <2>4. CASE ~ (k < h)
    <3>1. k - h \in Nat
      BY <2>4
    <3>2. Bit(n1, k - h) = IF k - h < h THEN Bit(y1, k - h) ELSE 0
      BY <1>2, <1>3, <3>1, BitLow
    <3> QED BY <1>2, <1>4, <2>2, <2>4, <3>2
  <2> QED BY <1>2, <1>4, <2>2, <2>3, <2>4
<1>7. BitSet(u, w) = (Chosen(x1, n) \cap (0 .. h - 1)) \cup MovedUp(Chosen(y1, n) \cap (0 .. h - 1), h)
  <2>1. ASSUME NEW k \in BitSet(u, w)
        PROVE  k \in Chosen(x1, n) \cap (0 .. h - 1) \/ k \in MovedUp(Chosen(y1, n) \cap (0 .. h - 1), h)
    <3>1. k \in Nat /\ Bit(u, k) = 1
      BY DEF BitSet, maskBit
    <3>2. CASE k < h
      <4>1. Bit(x1, k) = 1 /\ k \in 0 .. n - 1
        BY <1>1, <1>6, <3>1, <3>2
      <4> QED BY <3>2, <4>1 DEF Chosen, maskBit
    <3>3. CASE ~ (k < h)
      <4>1. k - h < h /\ Bit(y1, k - h) = 1
        BY <1>6, <3>1, <3>3
      <4>2. k - h \in 0 .. n - 1 /\ k = (k - h) + h
        BY <1>1, <3>1, <3>3, <4>1
      <4>3. k - h \in Chosen(y1, n) \cap (0 .. h - 1)
        BY <4>1, <4>2 DEF Chosen, maskBit
      <4> QED BY <4>2, <4>3 DEF MovedUp
    <3> QED BY <3>2, <3>3
  <2>2. ASSUME NEW i \in Chosen(x1, n), i < h PROVE i \in BitSet(u, w)
    <3>1. i \in 0 .. n - 1 /\ Bit(x1, i) = 1
      BY DEF Chosen, maskBit
    <3>2. Bit(u, i) = 1 /\ i \in 0 .. w - 1
      BY <1>1, <1>6, <2>2, <3>1
    <3> QED BY <3>2 DEF BitSet, maskBit
  <2>3. ASSUME NEW i \in Chosen(y1, n), i < h PROVE i + h \in BitSet(u, w)
    <3>1. i \in 0 .. n - 1 /\ Bit(y1, i) = 1
      BY DEF Chosen, maskBit
    <3>2. i + h \in Nat /\ ~ (i + h < h) /\ (i + h) - h = i /\ i + h \in 0 .. w - 1
      BY <1>1, <2>3, <3>1
    <3>3. Bit(u, i + h) = 1
      BY <1>6, <2>3, <3>1, <3>2
    <3> QED BY <3>2, <3>3 DEF BitSet, maskBit
  <2>4. \A i \in 0 .. h - 1 : i < h
    OBVIOUS
  <2> QED BY <2>1, <2>2, <2>3, <2>4 DEF MovedUp
<1> QED BY <1>1, <1>5, <1>7 DEF LowHalf

LEMMA BitSetOfMask ==
  ASSUME NEW n \in Nat, NEW w \in Nat, n <= w, NEW S \in SUBSET (0 .. n - 1)
  PROVE  MaskOf(S) \in Int /\ BitSet(MaskOf(S), w) = S
<1>1. MaskOf(S) \in 0 .. 2^n - 1 /\ \A k \in 0 .. n - 1 : Bit(MaskOf(S), k) = IF k \in S THEN 1 ELSE 0
  BY MaskOfBits
<1>2. ASSUME NEW k \in 0 .. w - 1 PROVE maskBit(MaskOf(S), k) <=> k \in S
  <2>1. CASE k < n
    <3>1. k \in 0 .. n - 1
      BY <2>1
    <3> QED BY <1>1, <3>1 DEF maskBit
  <2>2. CASE ~ (k < n)
    <3>1. k \in Nat /\ n <= k /\ k \notin S
      BY <2>2
    <3>2. Bit(MaskOf(S), k) = 0
      BY <1>1, <3>1, SmallBit
    <3> QED BY <3>1, <3>2 DEF maskBit
  <2> QED BY <2>1, <2>2
<1>3. S \subseteq 0 .. w - 1 /\ MaskOf(S) \in Int
  BY <1>1
<1>4. BitSet(MaskOf(S), w) = {k \in 0 .. w - 1 : k \in S}
  BY <1>2, Zenon DEF BitSet
<1>5. {k \in 0 .. w - 1 : k \in S} = S
  BY <1>3, Zenon
<1> QED BY <1>3, <1>4, <1>5
-----------------------------------------------------------------------------
(* What the hypotheses say of an instruction on masks.                     *)
LEMMA MaskJob ==
  ASSUME VectorsFit, MasksFit, VInv, Len(code) = 1
  PROVE  /\ nlanes \in Nat /\ LaneIds = 0 .. nlanes - 1 /\ LaneIds \subseteq Lanes(lane) /\ lane \in DOMAIN Width
         /\ only.op \in KMaskOps \cup {"kcvtmask"} => nlanes <= Width["i64"]
         /\ only.op \in KNumberOps \cup TestOps => nlanes < 2^(Width["i32"] - 1)
         /\ only.op \in KMaskOps \cup KNumberOps => \A k \in 1 .. MasksRead(only.op) : had[k] \in Int
         /\ only.op \in TestOps \cup {"kcvtmask"} => had[1] \in VectorsOf(lane)
         /\ only.op \in KMaskOps \cup KNumberOps \cup TestOps \cup {"kcvtmask"} => only.dest \in DOMAIN vjob.numbers
<1>1. PICK c_ \in VectorCodes : \E bank \in VectorBanks(c_) : vjob = JobOf(c_, bank)
  BY DEF VInv
<1>2. PICK bank \in VectorBanks(c_) : vjob = JobOf(c_, bank)
  BY <1>1
<1>3. /\ vjob.width = c_[1] /\ lane = c_[2] /\ code = c_[3] /\ vjob.vectors = bank[1] /\ vjob.numbers = bank[2]
      /\ only = c_[3][1] /\ nlanes = vectorLaneCount(c_[1], c_[2])
  BY <1>2 DEF JobOf, lane, code, only, nlanes
<1>4. /\ bank[1] \in [DOMAIN bank[1] -> VectorsOf(c_[2])] /\ bank[2] \in [DOMAIN bank[2] -> Int]
      /\ Len(c_[3]) = 1 => OperandsFit(c_[3][1], bank)
  BY DEF VectorsFit
<1>5. JobFits(bank)
  BY <1>3, <1>4 DEF JobFits
<1>6. nlanes \in Nat /\ LaneIds \subseteq Lanes(lane) /\ lane \in DOMAIN Width
  BY JobIs
<1>7. /\ only.op \in KMaskOps \cup {"kcvtmask"} => nlanes <= Width["i64"]
      /\ only.op \in KNumberOps \cup TestOps => nlanes < 2^(Width["i32"] - 1)
      /\ only.op \in KMaskOps \cup KNumberOps =>
           \A k \in 1 .. MasksRead(only.op) : k \in DOMAIN only.in /\ GivesNumber(bank, only.in[k])
      /\ only.op \in TestOps \cup {"kcvtmask"} => 1 \in DOMAIN only.in /\ GivesVector(bank, only.in[1])
      /\ only.op \in KMaskOps \cup KNumberOps \cup TestOps \cup {"kcvtmask"} => only.dest \in DOMAIN bank[2]
  BY <1>3 DEF MasksFit
<1>8. only.op \in KMaskOps \cup KNumberOps => \A k \in 1 .. MasksRead(only.op) : had[k] \in Int
  BY <1>5, <1>6, <1>7, HadIs
<1>9. only.op \in TestOps \cup {"kcvtmask"} => had[1] \in VectorsOf(lane)
  BY <1>5, <1>6, <1>7, HadIs
<1> QED BY <1>3, <1>6, <1>7, <1>8, <1>9 DEF LaneIds

(* The action of each instruction on masks.                                *)
LEMMA MaskActionOf ==
  ASSUME VectorNext
  PROVE  /\ vop \in KMaskOps => KMask
         /\ vop = "kcvtmask" => ToMask
         /\ vop \in KNumberOps => KNumber
         /\ vop \in TestOps => Test
<1> DEFINE Masking == KMaskOps \cup {"kcvtmask"} \cup KNumberOps \cup TestOps
           Others == MoveOps \cup OneLaneOps \cup CompressOps \cup PartOps \cup ReduceOps
<1>1. \/ vop \in LanewiseOps \/ vop \in DOMAIN MaskedOps \cup LoadOps \cup StoreOps \/ vop \in Others
      \/ KMask \/ ToMask \/ KNumber \/ Test
  BY DEF VectorNext, Lanewise, Masked, Load, Store, LoadAstray, StoreAstray, Move, OneLane, Compress, Parts, Reduce,
         Issuing
<1>2. /\ KMask => vop \in KMaskOps
      /\ ToMask => vop = "kcvtmask"
      /\ KNumber => vop \in KNumberOps
      /\ Test => vop \in TestOps
  BY DEF KMask, ToMask, KNumber, Test, Issuing
<1>3. /\ "kcvtmask" \notin KMaskOps \cup KNumberOps \cup TestOps
      /\ KMaskOps \cap (KNumberOps \cup TestOps) = {} /\ KNumberOps \cap TestOps = {}
  BY DEF KMaskOps, KNumberOps, TestOps
<1>4. Masking \cap LanewiseOps = {}
  BY DEF LanewiseOps, CompareOps, LaneBinaryOps, ShiftOps, LaneUnaryOps, LaneTernaryOps, KMaskOps, KNumberOps, TestOps
<1>5. Masking \cap (DOMAIN MaskedOps \cup LoadOps \cup StoreOps) = {}
  BY DEF MaskedOps, LoadOps, StoreOps, KMaskOps, KNumberOps, TestOps
<1>6. Masking \cap Others = {}
  BY DEF MoveOps, HalfOps, ResizeOps, GroupOps, SelectOps, OneLaneOps, CompressOps, PartOps, ReduceOps, KMaskOps,
         KNumberOps, TestOps
<1>7. ASSUME vop \in Masking PROVE KMask \/ ToMask \/ KNumber \/ Test
  BY <1>1, <1>4, <1>5, <1>6, <1>7
<1> QED BY <1>2, <1>3, <1>7

(* What it wrote.                                                          *)
LEMMA MaskWrote ==
  ASSUME VectorsFit, MasksFit, OnlyStep, ~ vthrew'
  PROVE  /\ only.op \in KMaskOps =>
              /\ ~ kmaskRefused(only.op, nlanes, had)
              /\ written' = Number("i64", kmask(only.op, nlanes, had))
         /\ only.op = "kcvtmask" => written' = Number("i64", MaskOf({i \in LaneIds : had[1][i] # 0}))
         /\ only.op \in KNumberOps => written' = Number("i32", knumber(only.op, nlanes, had))
         /\ only.op \in TestOps => written' = Number("i32", laneTest(only.op, lane, nlanes, had[1]))
<1>0. VInv /\ Len(code) = 1 /\ vthrew = FALSE /\ VectorNext /\ vjob' = vjob
  BY DEF OnlyStep, VInv
<1>1. only.op = vop /\ args = had /\ code[pc] = only /\ numbers = vjob.numbers
  BY OnlyRead
<1>2. only' = only
  BY <1>0, SameVectorJob
<1>3. ASSUME NEW t, NEW m, only.dest \in DOMAIN numbers, SetsNumber(t, m)
      PROVE  written' = Number(t, m)
  BY <1>1, <1>2, <1>3 DEF SetsNumber, written
<1>4. only.op \in KMaskOps \cup KNumberOps \cup TestOps \cup {"kcvtmask"} => only.dest \in DOMAIN numbers
  BY <1>0, <1>1, MaskJob
<1>5. ASSUME only.op \in KMaskOps
      PROVE  /\ ~ kmaskRefused(only.op, nlanes, had)
             /\ written' = Number("i64", kmask(only.op, nlanes, had))
  <2>1. KMask
    BY <1>0, <1>1, <1>5, MaskActionOf
  <2>2. ~ VectorThrows
    BY DEF VectorThrows
  <2>3. ~ kmaskRefused(only.op, nlanes, had) /\ SetsNumber("i64", kmask(only.op, nlanes, had))
    BY <1>1, <2>1, <2>2 DEF KMask
  <2> QED BY <1>3, <1>4, <1>5, <2>3
<1>6. ASSUME only.op = "kcvtmask" PROVE written' = Number("i64", MaskOf({i \in LaneIds : had[1][i] # 0}))
  <2>1. ToMask
    BY <1>0, <1>1, <1>6, MaskActionOf
  <2>2. SetsNumber("i64", MaskOf({i \in LaneIds : had[1][i] # 0}))
    BY <1>1, <2>1 DEF ToMask, LaneIds
  <2> QED BY <1>3, <1>4, <1>6, <2>2
<1>7. ASSUME only.op \in KNumberOps PROVE written' = Number("i32", knumber(only.op, nlanes, had))
  <2>1. KNumber
    BY <1>0, <1>1, <1>7, MaskActionOf
  <2>2. SetsNumber("i32", knumber(only.op, nlanes, had))
    BY <1>1, <2>1 DEF KNumber
  <2> QED BY <1>3, <1>4, <1>7, <2>2
<1>8. ASSUME only.op \in TestOps PROVE written' = Number("i32", laneTest(only.op, lane, nlanes, had[1]))
  <2>1. Test
    BY <1>0, <1>1, <1>8, MaskActionOf
  <2>2. SetsNumber("i32", laneTest(only.op, lane, nlanes, had[1]))
    BY <1>1, <2>1 DEF Test
  <2> QED BY <1>3, <1>4, <1>8, <2>2
<1> QED BY <1>5, <1>6, <1>7, <1>8

LEMMA SameMasks ==
  ASSUME vjob' = vjob
  PROVE  /\ only' = only /\ had' = had /\ lane' = lane /\ nlanes' = nlanes /\ LaneIds' = LaneIds
         /\ FirstSet' = FirstSet /\ SecondSet' = SecondSet /\ TrueLanes' = TrueLanes /\ LowHalf' = LowHalf
         /\ SetOf(only.op, FirstSet, SecondSet)' = SetOf(only.op, FirstSet, SecondSet)
<1>1. only' = only /\ had' = had /\ lane' = lane /\ nlanes' = nlanes
  BY DEF only, had, lane, nlanes, readOperands, readOperand, immediateType, code
<1>2. LaneIds' = LaneIds
  BY <1>1 DEF LaneIds
<1>3. FirstSet' = FirstSet /\ SecondSet' = SecondSet /\ TrueLanes' = TrueLanes /\ LowHalf' = LowHalf
  BY <1>1, <1>2 DEF FirstSet, SecondSet, TrueLanes, LowHalf
<1>4. SetOf(only.op, FirstSet, SecondSet)' = SetOf(only.op, FirstSet, SecondSet)
  BY <1>1, <1>2, <1>3 DEF SetOf
<1> QED BY <1>1, <1>2, <1>3, <1>4

LEMMA StepCombine ==
  ASSUME VectorsFit, MasksFit, OnlyStep, ~ vthrew'
  PROVE  MasksCombine'
<1> DEFINE Plain == {"kset", "kclr", "kmov", "knot", "kand", "kor", "kxor", "kandn", "kxnor"}
<1>0. VInv /\ Len(code) = 1 /\ vjob' = vjob
  BY DEF OnlyStep
<1>1. PICK w \in Nat : w = Width["i64"] /\ w <= Wide
  BY WidthAssumption, WordsAssumption DEF MasksFit
<1>2. nlanes \in Nat /\ LaneIds = 0 .. nlanes - 1
  BY <1>0, MaskJob
<1>3. /\ only.op \in KMaskOps => nlanes <= w /\ \A k \in 1 .. MasksRead(only.op) : had[k] \in Int
      /\ only.op = "kcvtmask" => nlanes <= w
  BY <1>0, <1>1, MaskJob
<1>4. ASSUME NEW m \in Int, written' = Number("i64", m) PROVE WrittenSet' = BitSet(m, w)
  <2>1. "i64" \in DOMAIN Width
    BY DEF MasksFit
  <2>2. \A k \in 0 .. w - 1 : Bit(written', k) = Bit(m, k)
    BY <1>1, <1>4, <2>1, BitOfNumber
  <2> QED BY <1>1, <2>2 DEF WrittenSet, BitSet, maskBit
<1>5. only.op \in KMaskOps =>
        /\ ~ kmaskRefused(only.op, nlanes, had)
        /\ written' = Number("i64", kmask(only.op, nlanes, had))
  BY MaskWrote
<1>6. Plain \cup {"kshiftl", "kshiftr", "kunpack"} \subseteq KMaskOps
  BY DEF KMaskOps
<1>7. ASSUME only.op \in Plain PROVE WrittenSet' = SetOf(only.op, FirstSet, SecondSet)
  <2>1. /\ kmask(only.op, nlanes, had) \in Int
        /\ BitSet(kmask(only.op, nlanes, had), w) = SetOf(only.op, FirstSet, SecondSet)
    BY <1>1, <1>2, <1>3, <1>6, <1>7, MaskWordIs DEF FirstSet, SecondSet
  <2> QED BY <1>4, <1>5, <1>6, <1>7, <2>1
<1>8. ASSUME only.op \in {"kshiftl", "kshiftr"}
      PROVE  /\ only.op = "kshiftl" => WrittenSet' = MovedUp(FirstSet, SizeT(had[2])) \cap LaneIds
             /\ only.op = "kshiftr" => WrittenSet' = MovedDown(FirstSet, SizeT(had[2]))
  <2>1. MasksRead(only.op) = 2
    BY <1>8 DEF MasksRead
  <2>2. had[1] \in Int /\ SizeT(had[2]) \in 0 .. nlanes
    <3>1. had[1] \in Int /\ had[2] \in Int
      BY <1>3, <1>6, <1>8, <2>1
    <3>2. ~ BadIndex(had[2], nlanes + 1)
      BY <1>5, <1>6, <1>8 DEF kmaskRefused
    <3>3. PICK k, n : k = SizeT(had[2]) /\ n = nlanes
      OBVIOUS
    <3>4. n \in Nat /\ k \in 0 .. n + 1 - 1
      BY <1>2, <3>2, <3>3 DEF BadIndex
    <3>5. k \in 0 .. n
      BY <3>4
    <3> QED BY <3>1, <3>3, <3>5
  <2>3. /\ kmask(only.op, nlanes, had) \in Int
        /\ only.op = "kshiftl" =>
             BitSet(kmask(only.op, nlanes, had), w) = MovedUp(FirstSet, SizeT(had[2])) \cap LaneIds
        /\ only.op = "kshiftr" => BitSet(kmask(only.op, nlanes, had), w) = MovedDown(FirstSet, SizeT(had[2]))
    BY <1>2, <1>3, <1>6, <1>8, <2>2, ShiftsAreMoves DEF FirstSet
  <2>4. WrittenSet' = BitSet(kmask(only.op, nlanes, had), w)
    BY <1>4, <1>5, <1>6, <1>8, <2>3
  <2> QED BY <2>3, <2>4
<1>9. ASSUME only.op = "kunpack"
      PROVE  WrittenSet' = (FirstSet \cap LowHalf) \cup MovedUp(SecondSet \cap LowHalf, nlanes \div 2)
  <2>1. MasksRead(only.op) = 2
    BY <1>9 DEF MasksRead
  <2>2. had[1] \in Int /\ had[2] \in Int
    BY <1>3, <1>6, <1>9, <2>1
  <2>3. /\ kmask("kunpack", nlanes, had) \in Int
        /\ BitSet(kmask("kunpack", nlanes, had), w) =
             (FirstSet \cap LowHalf) \cup MovedUp(SecondSet \cap LowHalf, nlanes \div 2)
    BY <1>2, <1>3, <1>6, <1>9, <2>2, UnpackIsHalves DEF FirstSet, SecondSet
  <2> QED BY <1>4, <1>5, <1>6, <1>9, <2>3
<1>10. ASSUME only.op = "kcvtmask" PROVE WrittenSet' = TrueLanes
  <2>1. written' = Number("i64", MaskOf(TrueLanes))
    BY <1>10, MaskWrote DEF TrueLanes
  <2>2. TrueLanes \in SUBSET (0 .. nlanes - 1)
    BY <1>2 DEF TrueLanes
  <2>3. MaskOf(TrueLanes) \in Int /\ BitSet(MaskOf(TrueLanes), w) = TrueLanes
    BY <1>2, <1>3, <1>10, <2>2, BitSetOfMask
  <2> QED BY <1>4, <2>1, <2>3
<1>11. /\ only' = only /\ had' = had /\ nlanes' = nlanes /\ LaneIds' = LaneIds
       /\ FirstSet' = FirstSet /\ SecondSet' = SecondSet /\ TrueLanes' = TrueLanes /\ LowHalf' = LowHalf
       /\ SetOf(only.op, FirstSet, SecondSet)' = SetOf(only.op, FirstSet, SecondSet)
  BY <1>0, SameMasks
<1>12. (only.op \in Plain => WrittenSet = SetOf(only.op, FirstSet, SecondSet))'
  BY <1>7, <1>11
<1>13. /\ (only.op = "kshiftl" => WrittenSet = MovedUp(FirstSet, SizeT(had[2])) \cap LaneIds)'
       /\ (only.op = "kshiftr" => WrittenSet = MovedDown(FirstSet, SizeT(had[2])))'
  BY <1>8, <1>11
<1>14. (only.op = "kunpack" =>
          WrittenSet = (FirstSet \cap LowHalf) \cup MovedUp(SecondSet \cap LowHalf, nlanes \div 2))'
  BY <1>9, <1>11
<1>15. (only.op = "kcvtmask" => WrittenSet = TrueLanes)'
  BY <1>10, <1>11
<1> QED BY <1>12, <1>13, <1>14, <1>15, Zenon DEF MasksCombine

(* A count of lanes and the number of a lane fit an i32.                   *)
LEMMA CountsFit ==
  ASSUME VectorsFit, MasksFit, NEW n \in Nat, n < 2^(Width["i32"] - 1), NEW m \in (-1 .. n) \cup {1}
  PROVE  Number("i32", m) = m
<1>1. "i32" \in DOMAIN Width /\ "i32" \notin Unsigned
  BY DEF MasksFit, Unsigned
<1>2. PICK top \in Nat : top = 2^(Width["i32"] - 1) /\ top >= 2
  <2>1. PICK w \in Nat \ {0} : w = Width["i32"] - 1
    BY <1>1, WidthAssumption DEF MasksFit
  <2>2. 2^1 <= 2^w /\ 2^w \in Nat
    <3>1. 1 \in Nat /\ 1 <= w
      OBVIOUS
    <3> QED BY <3>1, PowersGrow, PowerPositive
  <2>3. 2^1 = 2
    OBVIOUS
  <2> QED BY <2>1, <2>2, <2>3
<1>3. m \in Int /\ m \in -top .. top - 1
  BY <1>2
<1> QED BY <1>1, <1>2, <1>3, BitOfNumber

LEMMA StepCount ==
  ASSUME VectorsFit, MasksFit, OnlyStep, ~ vthrew'
  PROVE  MasksCount'
<1> DEFINE Counted == {"ktest", "kortest", "kcount", "kfirst", "klast"}
<1>0. VInv /\ Len(code) = 1 /\ vjob' = vjob
  BY DEF OnlyStep
<1>1. SUFFICES ASSUME only.op \in Counted PROVE MasksCount'
  <2>1. only' = only
    BY <1>0, SameMasks
  <2> QED BY <1>1, <2>1 DEF MasksCount
<1>2. only.op \in KNumberOps
  BY <1>1 DEF KNumberOps
<1>3. PICK n \in Nat : n = nlanes /\ n < 2^(Width["i32"] - 1)
  BY <1>0, <1>2, MaskJob
<1>4. FirstSet \in SUBSET (0 .. n - 1)
  BY <1>3 DEF FirstSet, Chosen
<1>5. /\ Cardinality(FirstSet) \in 0 .. n
      /\ FirstSet # {} => /\ Min(FirstSet) \in FirstSet /\ \A k \in FirstSet : Min(FirstSet) <= k
                          /\ Max(FirstSet) \in FirstSet /\ \A k \in FirstSet : k <= Max(FirstSet)
  BY <1>4, CountOfLanes
<1>6. PICK m : m = knumber(only.op, nlanes, had)
  OBVIOUS
<1>7. /\ only.op = "ktest" => m = Truth(FirstSet \cap SecondSet # {})
      /\ only.op = "kortest" => m = Truth(FirstSet \cup SecondSet # {})
      /\ only.op = "kcount" => m = Cardinality(FirstSet)
      /\ only.op = "kfirst" => m = IF FirstSet = {} THEN -1 ELSE Min(FirstSet)
      /\ only.op = "klast" => m = IF FirstSet = {} THEN -1 ELSE Max(FirstSet)
  BY <1>6 DEF knumber, FirstSet, SecondSet
<1>8. m \in -1 .. n
  <2>1. CASE only.op \in {"ktest", "kortest"}
    <3>1. n = 0 => FirstSet = {} /\ SecondSet = {}
      BY <1>3 DEF FirstSet, SecondSet, Chosen
    <3>2. m \in {0, 1} /\ (n = 0 => m = 0)
      BY <1>7, <2>1, <3>1 DEF Truth
    <3> QED BY <3>2
  <2>2. CASE only.op = "kcount"
    BY <1>5, <1>7, <2>2
  <2>3. CASE only.op \in {"kfirst", "klast"}
    <3>1. m = -1 \/ m \in FirstSet
      BY <1>5, <1>7, <2>3
    <3>2. \A k \in FirstSet : k \in -1 .. n
      BY <1>4
    <3> QED BY <3>1, <3>2
  <2> QED BY <1>1, <2>1, <2>2, <2>3
<1>9. written' = m
  BY <1>2, <1>3, <1>6, <1>8, CountsFit, MaskWrote
<1>10. only' = only /\ FirstSet' = FirstSet /\ SecondSet' = SecondSet
  BY <1>0, SameMasks
<1>11. FirstSet \cup SecondSet # {} <=> FirstSet # {} \/ SecondSet # {}
  OBVIOUS
<1> QED BY <1>5, <1>7, <1>9, <1>10, <1>11 DEF MasksCount

LEMMA StepLanesCount ==
  ASSUME VectorsFit, MasksFit, OnlyStep, ~ vthrew'
  PROVE  LanesCount'
<1>0. VInv /\ Len(code) = 1 /\ vjob' = vjob
  BY DEF OnlyStep
<1>1. SUFFICES ASSUME only.op \in TestOps PROVE LanesCount'
  <2>1. only' = only
    BY <1>0, SameMasks
  <2> QED BY <1>1, <2>1 DEF LanesCount, TestOps
<1>2. PICK n \in Nat : n = nlanes /\ n < 2^(Width["i32"] - 1) /\ LaneIds = 0 .. n - 1
  BY <1>0, <1>1, MaskJob
<1>3. written' = Number("i32", laneTest(only.op, lane, nlanes, had[1]))
  BY <1>1, MaskWrote
<1>4. PICK m : m = laneTest(only.op, lane, nlanes, had[1])
  OBVIOUS
<1>5. TrueLanes \in SUBSET (0 .. n - 1) /\ Cardinality(TrueLanes) \in 0 .. n
  BY <1>2, CountOfLanes DEF TrueLanes
<1>6. /\ only.op = "vanytrue" => m = Truth(TrueLanes # {})
      /\ only.op = "valltrue" => m = Truth(TrueLanes = LaneIds)
      /\ only.op = "vtestz" => m = Truth(TrueLanes = {})
      /\ only.op = "vcountones" => m = Cardinality(TrueLanes)
  BY <1>4 DEF laneTest, TrueLanes, LaneIds
<1>7. /\ TrueLanes # {} <=> \E i \in LaneIds : had[1][i] # 0
      /\ TrueLanes = LaneIds <=> \A i \in LaneIds : had[1][i] # 0
      /\ TrueLanes = {} <=> \A i \in LaneIds : had[1][i] = 0
  BY DEF TrueLanes
<1>8. ASSUME only.op \in {"vanytrue", "vtestz", "valltrue", "vcountones"} PROVE written' = m
  <2>1. m \in 0 .. n \/ m \in {0, 1}
    BY <1>5, <1>6, <1>8 DEF Truth
  <2>2. m \in (-1 .. n) \cup {1}
    BY <1>2, <2>1
  <2> QED BY <1>2, <1>3, <1>4, <2>2, CountsFit
<1>9. ASSUME only.op = "vbitmask", NEW i \in LaneIds, i < Width["i32"]
      PROVE  maskBit(written', i) <=> laneSignBit(had[1][i], lane)
  <2>1. PICK S : S = {j \in 0 .. n - 1 : laneSignBit(had[1][j], lane)}
    OBVIOUS
  <2>2. m = MaskOf(S)
    BY <1>2, <1>4, <1>9, <2>1 DEF laneTest
  <2>3. S \in SUBSET (0 .. n - 1) /\ i \in 0 .. n - 1
    BY <1>2, <2>1
  <2>4. m \in Int /\ Bit(m, i) = IF i \in S THEN 1 ELSE 0
    <3>1. MaskOf(S) \in 0 .. 2^n - 1 /\ Bit(MaskOf(S), i) = IF i \in S THEN 1 ELSE 0
      BY <2>3, MaskOfBits
    <3> QED BY <2>2, <3>1
  <2>5. "i32" \in DOMAIN Width /\ i \in 0 .. Width["i32"] - 1
    BY <1>2, <1>9, WidthAssumption DEF MasksFit
  <2>6. Bit(written', i) = Bit(m, i)
    BY <1>3, <1>4, <2>4, <2>5, BitOfNumber
  <2> QED BY <2>1, <2>3, <2>4, <2>6 DEF maskBit
<1>10. only' = only /\ had' = had /\ lane' = lane /\ LaneIds' = LaneIds /\ TrueLanes' = TrueLanes
  BY <1>0, SameMasks
<1> QED BY <1>6, <1>7, <1>8, <1>9, <1>10 DEF LanesCount

(* The word an instruction on masks writes has the bits of the set its     *)
(* operands name, and the number it counts or finds is that of its lanes.  *)
THEOREM MasksComputeSets ==
  ASSUME VectorsFit, MasksFit
  PROVE  VectorSpec => []MasksAreSets
<1>1. VectorInit => VInv /\ MasksAreSets
  BY InitVector DEF MasksAreSets
<1>2. VInv /\ MasksAreSets /\ [VectorNext]_vectorVars => VInv' /\ MasksAreSets'
  <2> SUFFICES ASSUME VInv, MasksAreSets, [VectorNext]_vectorVars PROVE MasksAreSets'
    BY NextVector
  <2>1. CASE OnlyStep
    BY <2>1, StepCombine, StepCount, StepLanesCount DEF MasksAreSets
  <2>2. CASE UNCHANGED vectorVars
    <3>1. vjob' = vjob /\ numbers' = numbers /\ pc' = pc /\ vthrew' = vthrew
      BY <2>2 DEF vectorVars
    <3>2. /\ only' = only /\ had' = had /\ lane' = lane /\ nlanes' = nlanes /\ LaneIds' = LaneIds
          /\ FirstSet' = FirstSet /\ SecondSet' = SecondSet /\ TrueLanes' = TrueLanes /\ LowHalf' = LowHalf
          /\ SetOf(only.op, FirstSet, SecondSet)' = SetOf(only.op, FirstSet, SecondSet)
      BY <3>1, SameMasks
    <3>3. (Single' <=> Single) /\ written' = written
      BY <3>1, <3>2 DEF Single, code, written
    <3>4. WrittenSet' = WrittenSet
      BY <3>3 DEF WrittenSet
    <3>5. MasksCombine' <=> MasksCombine
      BY <3>2, <3>4, Zenon DEF MasksCombine
    <3>6. MasksCount' <=> MasksCount
      BY <3>2, <3>3 DEF MasksCount
    <3>7. LanesCount' <=> LanesCount
      BY <3>2, <3>3 DEF LanesCount
    <3> QED BY <3>1, <3>3, <3>5, <3>6, <3>7 DEF MasksAreSets
  <2>3. CASE ~ Single'
    BY <2>3 DEF MasksAreSets
  <2> QED BY <2>1, <2>2, <2>3, SingleStep
<1> QED BY <1>1, <1>2, PTL DEF VectorSpec
=============================================================================
