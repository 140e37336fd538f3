---------------------------- MODULE IntegerUnit -----------------------------
(***************************************************************************)
(* One frame of Interpreter::call while it runs an integer instruction, or *)
(* a chain of addc or subb instructions over the limbs of longer numbers:  *)
(* the registers it writes and the two flags it keeps between them.        *)
(***************************************************************************)
EXTENDS IntegerOps

CONSTANT Operands(_, _)   (* Of an opcode and a type: the operands, numbers,*)
                          (* of each of the steps it is run in.             *)

VARIABLES
  job,           (* The opcode, its types, and the operands of each step.    *)
  results,       (* The destinations written so far.                         *)
  carryFlag, overflowFlag

vars == <<job, results, carryFlag, overflowFlag>>

op == job.op
type == job.type

Opcodes ==
  BasicOps \cup BitUnaryOps \cup BitBinaryOps \cup IntUnaryOps \cup IntBinaryOps \cup SaturatingOps
    \cup WideningOps \cup TernaryOps \cup OverflowOps \cup DOMAIN Unchecked \cup FieldOps
    \cup PointerOps \cup {"divchk", "addc", "subb"}

(* The operands are the numbers of registers, three or more of each step;  *)
(* an instruction does not read those it has no use for.  And every type   *)
(* but the longest is at most half as long as Int128, and no longer than a *)
(* pointer.                                                                *)
ASSUME OperandsAssumption ==
  \A o \in Opcodes, t \in DOMAIN Width : \A n \in Operands(o, t) :
    n \in Seq(Seq(Int)) /\ \A i \in DOMAIN n : Len(n[i]) >= 3

ASSUME HalvesAssumption ==
  \A t \in DOMAIN Width : Width[t] = Wide \/ (2 * Width[t] <= Wide /\ Width[t] <= Width["ptr"])

(* The carry an earlier instruction left, and the type of a wider result.  *)
Carries(o) == IF o \in {"addc", "subb"} THEN BOOLEAN ELSE {FALSE}
Types2(o, t) == IF o \in WideningOps THEN DOMAIN Width ELSE {t}

Init ==
  /\ \E o \in Opcodes, t \in DOMAIN Width : \E t2 \in Types2(o, t), cc \in Carries(o), n \in Operands(o, t) :
        job = [op |-> o, type |-> t, type2 |-> t2, carry |-> cc, operands |-> n]
  /\ results = <<>>
  /\ carryFlag = job.carry
  /\ overflowFlag = FALSE

Threw == [type |-> "void", num |-> 0, threw |-> TRUE]

Executing(ops) ==
  /\ op \in ops
  /\ Len(results) < Len(job.operands)
  /\ \A k \in DOMAIN results : results[k] # Threw

operand(k) == job.operands[Len(results) + 1][k]
x == operand(1)
y == operand(2)
z == operand(3)

Write(t, n) ==
  LET v == fromInt128(t, n)
  IN  results' = Append(results, [type |-> v.type, num |-> v.num, threw |-> FALSE]) /\ UNCHANGED job

Throw == results' = Append(results, Threw) /\ UNCHANGED <<job, carryFlag, overflowFlag>>

Compute(refused, t, n) ==
  IF refused THEN Throw ELSE Write(t, n) /\ UNCHANGED <<carryFlag, overflowFlag>>
-----------------------------------------------------------------------------
Basic ==
  Executing(BasicOps) /\ Compute(basicRefused(op, type, x, y), type, basic(op, type, x, y))

BitUnary ==
  Executing(BitUnaryOps) /\ Compute(bitUnaryRefused(op, type, x), type, bitUnary(op, type, x))

BitBinary ==
  Executing(BitBinaryOps) /\ Compute(bitBinaryRefused(op, type, x, y), type, bitBinary(op, type, x, y))

IntUnary ==
  /\ Executing(IntUnaryOps) /\ Ends(op, type, x)
  /\ Compute(intUnaryRefused(op, type, x), type, intUnaryExt(op, type, x))

IntBinary ==
  Executing(IntBinaryOps) /\ Compute(intBinaryRefused(op, type, x, y), type, intBinaryExt(op, type, x, y))

Saturating ==
  Executing(SaturatingOps) /\ Compute(saturatingRefused(op, type, x, y), type, saturatingOp(op, type, x, y))

Widening ==
  Executing(WideningOps) /\ Compute(wideningRefused(op, type), job.type2, widening(op, type, x, y))

Ternary == Executing(TernaryOps) /\ Compute(FALSE, type, ternary(op, type, x, y, z))

Field ==
  /\ Executing(FieldOps)
  /\ LET n == job.operands[1] IN Compute(fieldRefused(op, type, n), type, field(op, type, n))

Pointer ==
  /\ Executing(PointerOps)
  /\ LET n == job.operands[1]
     IN  Compute(pointerRefused(op, n), IF op = "ptrdiff" THEN type ELSE "ptr", pointerOp(op, n))

Overflowing ==
  /\ Executing(OverflowOps)
  /\ \/ overflowRefused(op, type, x, y) /\ Throw
     \/ /\ ~ overflowRefused(op, type, x, y)
        /\ LET r == computeWithOverflow(op, type, x, y)
           IN  Write(type, r.num) /\ overflowFlag' = r.over /\ UNCHANGED carryFlag

Checked ==
  /\ Executing(DOMAIN Unchecked)
  /\ LET r == computeWithOverflow(Unchecked[op], type, x, y)
     IN  Compute(IF overflowRefused(Unchecked[op], type, x, y) THEN TRUE ELSE r.over, type, r.num)

Divchk == Executing({"divchk"}) /\ Compute(divchkRefused(type, x, y), type, Quotient(x, y))

Carrying ==
  /\ Executing({"addc", "subb"})
  /\ LET ux == unsignedOf(x, type)
         uy == unsignedOf(y, type)
         c == IF carryFlag THEN 1 ELSE 0
         r == IF op = "addc" THEN addc(type, ux, uy, c) ELSE subb(type, ux, uy, c)
     IN  Write(type, r.num) /\ carryFlag' = r.carry /\ UNCHANGED overflowFlag

Next ==
  \/ Basic \/ BitUnary \/ BitBinary \/ IntUnary \/ IntBinary \/ Saturating \/ Widening \/ Ternary
  \/ Field \/ Pointer \/ Overflowing \/ Checked \/ Divchk \/ Carrying

Spec == Init /\ [][Next]_vars
-----------------------------------------------------------------------------
(* What an instruction computed. *)

Ran(ops) == op \in ops /\ Len(results) = 1
dest == results[1]
a == job.operands[1][1]
b == job.operands[1][2]
c == job.operands[1][3]
ua == unsignedOf(a, type)
ub == unsignedOf(b, type)
bits == bitWidth(type)

SignedNumbers == signedMinOfWidth(type) .. signedMaxOfWidth(type)
UnsignedNumbers == 0 .. unsignedMaxOfWidth(type)

UnsignedOps == {"uaddo", "usubo", "umulo", "uaddsat", "usubsat", "umulsat"}

Sum == {"addo", "addsat", "uaddo", "uaddsat"}
Difference == {"subo", "subsat", "usubo", "usubsat"}
Product == {"mulo", "mulsat", "umulo", "umulsat"}

(* The result on integers without bounds. *)
Exact(o) ==
  LET p == IF o \in UnsignedOps THEN ua ELSE a
      q == IF o \in UnsignedOps THEN ub ELSE b
  IN  CASE o \in Sum -> p + q
        [] o \in Difference -> p - q
        [] o \in Product -> p * q
        [] o \in {"shlo", "shlsat"} -> p * 2^q
        [] o \in {"nego", "negsat"} -> -p

Numbers(o) == IF o \in UnsignedOps THEN UnsignedNumbers ELSE SignedNumbers

Read(o) == IF o \in UnsignedOps THEN AsUnsigned(dest.num, bits) ELSE AsSigned(dest.num, bits)

(* The operands of a signed instruction are numbers of the signed type.    *)
Proper(o) == bits < Wide /\ (o \in UnsignedOps \/ {a, b} \subseteq SignedNumbers)

(* A chain of addc or subb over the limbs of two numbers, lowest first,    *)
(* computes their sum or difference: after each limb the registers and the *)
(* carry flag together are the whole result so far (Opcode::Addc).         *)
(* Only below the width of Int128: there the carry itself is lost.         *)
ValueOf(limb) ==
  LET low[k \in 0 .. Len(limb)] == IF k = 0 THEN 0 ELSE low[k - 1] + limb[k] * 2^(bits * (k - 1))
  IN  low[Len(limb)]

OperandLimbs(k) == [i \in 1 .. Len(results) |-> unsignedOf(job.operands[i][k], type)]
ResultLimbs == [i \in 1 .. Len(results) |-> unsignedOf(results[i].num, type)]

CarryChains ==
  op \in {"addc", "subb"} /\ bits < Wide =>
    LET Out == IF carryFlag THEN 2^(bits * Len(results)) ELSE 0
        carryIn == IF job.carry THEN 1 ELSE 0
    IN  IF op = "addc" THEN ValueOf(ResultLimbs) + Out = ValueOf(OperandLimbs(1)) + ValueOf(OperandLimbs(2)) + carryIn
        ELSE ValueOf(ResultLimbs) - Out = ValueOf(OperandLimbs(1)) - ValueOf(OperandLimbs(2)) - carryIn

(* An overflow flag says that the result on unbounded integers is not a    *)
(* number of the type; the register holds it if it is.                     *)
FlagIsExact ==
  Ran(OverflowOps) /\ dest # Threw /\ Proper(op) =>
    /\ overflowFlag = (Exact(op) \notin Numbers(op))
    /\ ~ overflowFlag => Read(op) = Exact(op)

ChecksAreExact ==
  Ran(DOMAIN Unchecked) /\ Proper(Unchecked[op]) /\ ~ overflowRefused(Unchecked[op], type, a, b) =>
    LET o == Unchecked[op]
    IN  /\ dest = Threw <=> Exact(o) \notin Numbers(o)
        /\ dest # Threw => Read(o) = Exact(o)

DivchkIsExact ==
  Ran({"divchk"}) /\ {a, b} \subseteq SignedNumbers =>
    (dest = Threw <=> b = 0 \/ Quotient(a, b) \notin SignedNumbers)

WideProductsFit ==
  Ran({"mulwide", "umulwide"}) /\ dest # Threw /\ Width[job.type2] >= 2 * bits =>
    AsUnsigned(dest.num, 2 * bits) = AsUnsigned(IF op = "mulwide" THEN a * b ELSE ua * ub, 2 * bits)

(* An overflow flag is set, or a checked instruction throws, exactly when  *)
(* the result on unbounded integers is not a number of the type; if it is, *)
(* the register holds it (computeWithOverflow).                            *)
OverflowIsExact == FlagIsExact /\ ChecksAreExact /\ DivchkIsExact /\ WideProductsFit

Nearest(n, exact, numbers) ==
  n \in numbers /\ \A m \in numbers : Magnitude(exact - n) <= Magnitude(exact - m)

SaturatedIsNearest ==
  Ran(SaturatingOps \cup {"negsat"}) /\ dest # Threw /\ Proper(op) =>
    Nearest(Read(op), Exact(op), Numbers(op))

ClampedIsNearest ==
  /\ Ran({"clamp"}) /\ {a, b, c} \subseteq SignedNumbers /\ b <= c =>
       Nearest(AsSigned(dest.num, bits), a, b .. c)
  /\ Ran({"uclamp"}) /\ ub <= unsignedOf(c, type) =>
       Nearest(unsignedOf(dest.num, type), ua, ub .. unsignedOf(c, type))

(* A saturating instruction gives the number of the type nearest to the    *)
(* unbounded result, and clamp the number of its interval nearest to its   *)
(* operand (saturatingOp, Opcode::Clamp).                                  *)
SaturatesToNearest == SaturatedIsNearest /\ ClampedIsNearest

(* Quotients are rounded as the opcode says: towards zero (div), down, up, *)
(* or so that the remainder is not negative; averages down; high halves    *)
(* are those of the whole product; aligned numbers are the multiples next  *)
(* to the operand (floorDiv, ceilDiv, euclidDiv, intBinaryExt,             *)
(* Opcode::Ptralign).                                                      *)
Floor(n, d) == IF d > 0 THEN n \div d ELSE (-n) \div (-d)
Ceiling(n, d) == -Floor(-n, d)
Truncated(n, d) == IF (n < 0) = (d < 0) THEN Floor(n, d) ELSE Ceiling(n, d)
Euclidean(n, d) == IF d > 0 THEN Floor(n, d) ELSE Ceiling(n, d)

Rounded ==
  CASE op = "div"       -> Truncated(a, b)
    [] op = "mod"       -> a - b * Truncated(a, b)
    [] op = "divfloor"  -> Floor(a, b)
    [] op = "divceil"   -> Ceiling(a, b)
    [] op = "diveuclid" -> Euclidean(a, b)
    [] op = "modeuclid" -> a - b * Euclidean(a, b)
    [] op = "divchk"    -> Truncated(a, b)
    [] op = "avg"       -> Floor(a + b, 2)
    [] op = "uavg"      -> Floor(ua + ub, 2)
    [] op = "mulhi"     -> Floor(a * b, 2^bits)
    [] op = "umulhi"    -> Floor(ua * ub, 2^bits)
    [] op = "alignup"   -> CHOOSE m \in ua .. ua + ub - 1 : m % ub = 0
    [] op = "aligndown" -> CHOOSE m \in ua - ub + 1 .. ua : m % ub = 0

RoundingOps ==
  {"div", "mod", "divfloor", "divceil", "diveuclid", "modeuclid", "divchk", "avg", "uavg",
   "mulhi", "umulhi", "alignup", "aligndown"}

QuotientsRound ==
  /\ Ran(RoundingOps) /\ dest # Threw /\ (op \in {"avg", "alignup"} => bits < Wide) =>
       dest.num = fromInt128(type, Rounded).num
  /\ Ran({"ptralign"}) /\ dest # Threw =>
       LET p == SizeT(a)
           align == SizeT(b)
       IN  0 < align /\ p + align <= 2^Width["ptr"] =>
             dest.num \in p .. p + align - 1 /\ dest.num % align = 0

(* Roots, logarithms, powers and divisors are the numbers their names say, *)
(* by multiplication alone (uisqrt, ipow, nextPow2, Opcode::Gcd).          *)
Divides(d, n) == d # 0 /\ n % d = 0

(* The power modulo the type, one multiplication at a time. *)
PowerModulo == FoldLeft(LAMBDA r, k : AsSigned(r * AsSigned(a, bits), bits), 1, UpTo(b))

RootsAndPowers ==
  LET r == unsignedOf(dest.num, type)
  IN  /\ Ran({"isqrt"}) /\ dest # Threw => dest.num^2 <= a /\ a < (dest.num + 1)^2
      /\ Ran({"ilog2"}) /\ dest # Threw => 2^r <= ua /\ ua < 2^(r + 1)
      /\ Ran({"ilog10"}) /\ dest # Threw => 10^r <= ua /\ ua < 10^(r + 1)
      /\ Ran({"ispow2"}) => dest.num % 2 = Cardinality({k \in 0 .. bits - 1 : ua = 2^k})
      /\ Ran({"nextpow2"}) => \/ r = 0 /\ ua > 2^(bits - 1)
                              \/ ua <= r /\ (r = 1 \/ r < 2 * ua) /\ \E k \in 0 .. bits - 1 : r = 2^k
      /\ Ran({"prevpow2"}) => \/ r = 0 /\ ua = 0
                              \/ r <= ua /\ ua < 2 * r /\ \E k \in 0 .. bits - 1 : r = 2^k
      /\ Ran({"powi"}) /\ dest # Threw => r = AsUnsigned(PowerModulo, bits)
      /\ Ran({"gcd"}) /\ ua + ub > 0 =>
           /\ ua % r = 0 /\ ub % r = 0
           /\ \A d \in 1 .. (IF ua = 0 THEN ub ELSE ua) :
                Divides(d, ua) /\ Divides(d, ub) => Divides(d, r)
      /\ Ran({"lcm"}) /\ ua > 0 /\ ub > 0 =>
           r = AsUnsigned(ua * CHOOSE k \in 1 .. ub :
                                  /\ Divides(ub, ua * k)
                                  /\ \A j \in 1 .. k - 1 : ~ Divides(ub, ua * j), bits)

(* The instructions that are defined by a product or a power are right at  *)
(* every sign and remainder: those above, of quotients and of roots.       *)
QuotientsAndRoots == QuotientsRound /\ RootsAndPowers

(* The place a permuting instruction takes the bit i of its result from.   *)
Places == 0 .. bits - 1
Ones(v) == {i \in Places : Bit(v, i) = 1}
Mirrored(i, size) == size * (i \div size) + (size - 1 - (i % size))
OnesBelow(i, v) == Cardinality({k \in Ones(v) : k < i})

Swapped(i, below) == IF i < below THEN Mirrored(below - 1 - i, ByteBits) ELSE i

From(i) ==
  CASE op = "bitreverse" -> bits - 1 - i
    [] op = "bitrev8"    -> Mirrored(i, ByteBits)
    [] op = "bswap"      -> Swapped(i, bits)
    [] op = "bswap16"    -> Swapped(i, Wide \div 8)
    [] op = "bswap32"    -> Swapped(i, Wide \div 4)
    [] op = "nibbleswap" -> Mirrored(bits - 1 - i, ByteBits \div 2)
    [] op = "rotl"       -> (i - SizeT(b)) % bits
    [] op = "rotr"       -> (i + SizeT(b)) % bits

Permuting == {"bitreverse", "bitrev8", "bswap", "bswap16", "bswap32", "nibbleswap", "rotl", "rotr"}

Moves ==
  /\ Ran(Permuting) => Ones(dest.num) = {i \in Places : From(i) \in Ones(a)}
  /\ Ran({"bext"}) =>
       Ones(dest.num) = {OnesBelow(i, b) : i \in Ones(a) \cap Ones(b)}
  /\ Ran({"bdep"}) => Ones(dest.num) = {i \in Ones(b) : OnesBelow(i, b) \in Ones(a)}
  /\ Ran({"gray"}) =>
       Ones(a) = {i \in Places : Cardinality({k \in Ones(dest.num) : k >= i}) % 2 = 1}
  /\ Ran({"ungray"}) =>
       Ones(a) = {i \in Places : (i \in Ones(dest.num)) # (i + 1 \in Ones(dest.num))}
  /\ Ran({"bitinterleave"}) => Ones(dest.num) = {i \in Places : i % 2 = 0 /\ i \div 2 \in Ones(a)}
  /\ Ran({"bitdeinterleave"}) => Ones(dest.num) = {i \in Places : 2 * i \in Ones(a)}
  /\ Ran({"sextbit"}) => AsSigned(dest.num, bits) = IF SizeT(b) = 0 THEN 0 ELSE AsSigned(a, SizeT(b))
  /\ Ran({"zextbit"}) => Ones(dest.num) = {i \in Ones(a) : i < SizeT(b)}
  /\ Ran({"bitset"}) => Ones(dest.num) = Ones(a) \cup {SizeT(b)}
  /\ Ran({"bitclear"}) => Ones(dest.num) = Ones(a) \ {SizeT(b)}
  /\ Ran({"lowmask"}) => Ones(dest.num) = {i \in Places : i < SizeT(a)}
  /\ Ran({"himask"}) => Ones(dest.num) = {i \in Places : i >= bits - SizeT(a)}

(* A bit field is the places start .. start + length - 1, its start within *)
(* Int128, and a funnel shift moves the two words as one.                  *)
FieldsMove ==
  LET n == job.operands[1]
      start == SizeT(Start(op, n)) % Wide
      places == Places \cap start .. start + SizeT(FieldLen(op, n)) - 1
      amount == SizeT(c)
      both == Ones(b) \cup {i + bits : i \in Ones(a)}
  IN  /\ Ran({"bfextract"}) => Ones(dest.num) = {i - start : i \in Ones(a) \cap places}
      /\ Ran({"bfinsert"}) =>
           Ones(dest.num) = (Ones(a) \ places) \cup {i \in places : i - start \in Ones(b)}
      /\ Ran({"bfclear"}) => Ones(dest.num) = Ones(a) \ places
      /\ Ran({"bfset"}) => Ones(dest.num) = Ones(a) \cup places
      /\ Ran({"shld"}) => Ones(dest.num) = {i \in Places : i + bits - amount \in both}
      /\ Ran({"shrd"}) => Ones(dest.num) = {i \in Places : i + amount \in both}
      /\ Ran({"bitselect"}) =>
           Ones(dest.num) = {i \in Places : i \in IF i \in Ones(c) THEN Ones(a) ELSE Ones(b)}

(* What a count says of the value of the word. *)
Counts ==
  LET n == AsSigned(dest.num, bits)
      s == AsSigned(a, bits)
      Lowest(k) == ua % 2^k = 0 /\ ua % 2^(k + 1) # 0
      Highest(k) == 2^k <= ua /\ ua < 2^(k + 1)
  IN  /\ Ran({"clz"}) => IF ua = 0 THEN dest.num = fromInt128(type, bits).num ELSE Highest(bits - 1 - n)
      /\ Ran({"ctz"}) => IF ua = 0 THEN dest.num = fromInt128(type, bits).num ELSE Lowest(n)
      /\ Ran({"hibit"}) => IF ua = 0 THEN n = -1 ELSE Highest(n)
      /\ Ran({"lobit"}) => IF ua = 0 THEN n = -1 ELSE Lowest(n)
      /\ Ran({"ffs"}) => IF ua = 0 THEN n = 0 ELSE Lowest(n - 1)
      /\ Ran({"clrsb"}) =>
           /\ s \in -(2^(bits - 1 - n)) .. 2^(bits - 1 - n) - 1
           /\ n < bits - 1 => s \notin -(2^(bits - 2 - n)) .. 2^(bits - 2 - n) - 1
      /\ Ran({"blsi"}) => Ones(n) = {i \in Ones(a) : OnesBelow(i, a) = 0}
      /\ Ran({"blsr"}) => Ones(n) = {i \in Ones(a) : OnesBelow(i, a) > 0}

(* The bits of a result are the bits of the operand that the instruction   *)
(* moves there, none lost, doubled or moved past another, and a count of   *)
(* bits says what the value of the word does.  They move by the amount that*)
(* is left when it is cut to size_t (bitUnary, rotateValue, bitIndexOp,    *)
(* bitManipUnary, bitManipBinary, Opcode::Bfinsert, Opcode::Shld).         *)
BitsMove == results # <<>> /\ dest # Threw => Moves /\ FieldsMove /\ Counts
=============================================================================
