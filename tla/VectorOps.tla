----------------------------- MODULE VectorOps ------------------------------
(***************************************************************************)
(* The vector instructions of vm/vector_ops.cpp on integer lanes, as       *)
(* functions of their operands.  A vector is the function from lane indices*)
(* to the numbers of the lanes that a register of 64 bytes holds; the lane *)
(* type of an instruction is the one its operands were written with.       *)
(* Opcodes that share a case of the code share a name here.  Float lanes   *)
(* are left out, and so is valign by a negative count, which reads outside *)
(* of the register.                                                        *)
(***************************************************************************)
EXTENDS IntegerOps

CONSTANT VectorWidth   (* The bits of v128, v256 and v512, by their names.   *)

vectorLaneCount(width, lane) == VectorWidth[width] \div bitWidth(lane)

Lanes(lane) == 0 .. vectorLaneCount("v512", lane) - 1

(* Value out with the lanes below n set.                                   *)
Vector(lane, n, f(_)) == [i \in Lanes(lane) |-> IF i < n THEN f(i) ELSE 0]

Number(type, n) == fromInt128(type, n).num

isSignedLane(lane) == lane \notin Unsigned \cup {"u128"}
allOnes(lane) == Number(lane, -1)
laneSignBit(x, lane) == Bit(x, bitWidth(lane) - 1) = 1
-----------------------------------------------------------------------------
(* Lane by lane: what each lane of the result is, before it is cut.        *)

CompareOps ==
  {"vcmpeq", "vcmpne", "vcmplt", "vcmpgt", "vcmple", "vcmpge", "vucmplt", "vucmpgt", "vucmple", "vucmpge"}

laneCompare(op, lane, x, y) ==
  LET ux == unsignedOf(x, lane)
      uy == unsignedOf(y, lane)
  IN  CASE op = "vcmpeq" -> x = y
        [] op = "vcmpne" -> x # y
        [] op = "vcmplt" -> x < y
        [] op = "vcmpgt" -> x > y
        [] op = "vcmple" -> x <= y
        [] op = "vcmpge" -> x >= y
        [] op = "vucmplt" -> ux < uy
        [] op = "vucmpgt" -> ux > uy
        [] op = "vucmple" -> ux <= uy
        [] op = "vucmpge" -> ux >= uy

ShiftOps == {"vshl", "vshr", "vsar", "vrotl", "vrotr", "vshlv", "vshrv", "vsarv", "vrotlv", "vrotrv"}

LaneBinaryOps ==
  ShiftOps \cup
  {"vadd", "vsub", "vmul", "vdiv", "vmin", "vmax", "vfmin", "vfmax", "vand", "vor", "vxor", "vandnot",
   "vavg", "vabsdiff", "vhadd", "vhsub", "vaddsat", "vsubsat", "vmulhi", "vmulwide"}

laneShift(op, lane, x, y) ==
  LET bits == bitWidth(lane)
      ux == unsignedOf(x, lane)
      s == SizeT(y)
  IN  CASE op \in {"vshl", "vshlv"} -> UInt128(ux * 2^s)
        [] op \in {"vshr", "vshrv"} -> ux \div 2^s
        [] op \in {"vsar", "vsarv"} -> x \div 2^s
        [] op \in {"vrotl", "vrotlv"} -> IF s = 0 THEN ux ELSE rotlGeneric(ux, bits, s)
        [] op \in {"vrotr", "vrotrv"} -> IF s = 0 THEN ux ELSE rotrGeneric(ux, bits, s)

(* Fault: unsigned lanes saturate as signed ones do. *)
laneSaturatedSigned(op, lane, x, y) ==
  LET r == IF op = "vaddsat" THEN x + y ELSE x - y
  IN  Clamped(Int128(r), signedMinOfWidth(lane), signedMaxOfWidth(lane))

(* A sum of unsigned 128-bit lanes wraps before it is compared.            *)
laneSaturated(op, lane, x, y) ==
  LET r == IF op = "vaddsat" THEN x + y ELSE x - y
      top == unsignedMaxOfWidth(lane)
      ux == unsignedOf(x, lane)
      uy == unsignedOf(y, lane)
      sum == UInt128(ux + uy)
  IN  IF isSignedLane(lane) THEN Clamped(Int128(r), signedMinOfWidth(lane), signedMaxOfWidth(lane))
      ELSE IF op = "vsubsat" THEN IF ux < uy THEN 0 ELSE ux - uy
      ELSE IF sum > top THEN top ELSE sum

laneBinary(op, lane, x, y) ==
  LET ux == unsignedOf(x, lane)
      uy == unsignedOf(y, lane)
  IN  CASE op \in ShiftOps -> laneShift(op, lane, x, y)
        [] op \in {"vaddsat", "vsubsat"} -> laneSaturated(op, lane, x, y)
        [] op \in {"vadd", "vhadd"} -> x + y
        [] op \in {"vsub", "vhsub"} -> x - y
        [] op \in {"vmul", "vmulwide"} -> x * y
        [] op = "vdiv" -> Quotient(x, y)
        [] op \in {"vmin", "vfmin"} -> IF x < y THEN x ELSE y
        [] op \in {"vmax", "vfmax"} -> IF x > y THEN x ELSE y
        [] op = "vand" -> And(x, y)
        [] op = "vor" -> Or(x, y)
        [] op = "vxor" -> Xor(x, y)
        [] op = "vandnot" -> And(x, Not(y))
        [] op = "vavg" -> And(ux, uy) + UInt128(Xor(ux, uy)) \div 2
        [] op = "vabsdiff" -> Magnitude(x - y)
        [] op = "vmulhi" -> IF isSignedLane(lane) THEN Int128(x * y) \div 2^bitWidth(lane)
                            ELSE UInt128(ux * uy) \div 2^bitWidth(lane)

LaneUnaryOps ==
  {"vabs", "vneg", "vnot", "vsqrt", "vpopcount", "vpopcntv", "vclz", "vlzcntv", "vctz", "vbswap",
   "vfloor", "vsignbit"}

laneUnary(op, lane, x) ==
  LET bits == bitWidth(lane)
      ux == unsignedOf(x, lane)
  IN  CASE op = "vabs" -> Magnitude(x)
        [] op = "vneg" -> -x
        [] op = "vnot" -> Not(x)
        [] op = "vsqrt" -> uisqrt(x)
        [] op \in {"vpopcount", "vpopcntv"} -> popcountGeneric(ux, bits)
        [] op \in {"vclz", "vlzcntv"} -> clzGeneric(ux, bits)
        [] op = "vctz" -> ctzGeneric(ux, bits)
        [] op = "vbswap" -> bswapGeneric(ux, bits \div ByteBits)
        [] op = "vfloor" -> x
        [] op = "vsignbit" -> IF laneSignBit(x, lane) THEN -1 ELSE 0

LaneTernaryOps ==
  {"vclamp", "vmla", "vmls", "vmin3", "vmax3", "vbitselect", "vselect", "vsignselect", "vmaddwide", "vternlog"}

(* vternlog looks each bit up in the table imm.                            *)
laneTernlog(lane, x, y, z, imm) ==
  MapThenSumSet(LAMBDA i : 2^i * Bit(imm, 4 * Bit(x, i) + 2 * Bit(y, i) + Bit(z, i)), 0 .. bitWidth(lane) - 1)

laneTernary(op, lane, x, y, z) ==
  CASE op = "vclamp" -> IF x < y THEN y ELSE IF x > z THEN z ELSE x
    [] op \in {"vmla", "vmaddwide"} -> x * y + z
    [] op = "vmls" -> z - x * y
    [] op = "vmin3" -> Min({x, y, z})
    [] op = "vmax3" -> Max({x, y, z})
    [] op = "vbitselect" -> LET m == unsignedOf(z, lane)
                            IN  Or(And(unsignedOf(x, lane), m), And(unsignedOf(y, lane), Not(m)))
    [] op = "vselect" -> IF x # 0 THEN y ELSE z
    [] op = "vsignselect" -> IF laneSignBit(z, lane) THEN y ELSE x

LanewiseOps == CompareOps \cup LaneBinaryOps \cup LaneUnaryOps \cup LaneTernaryOps

(* Of the operands and a lane index. *)
lanewise(op, lane, args, i) ==
  LET v(k) == args[k][i]
  IN  CASE op \in CompareOps -> IF laneCompare(op, lane, v(1), v(2)) THEN allOnes(lane) ELSE 0
        [] op \in LaneBinaryOps -> laneBinary(op, lane, v(1), v(2))
        [] op \in LaneUnaryOps -> laneUnary(op, lane, v(1))
        [] op = "vternlog" -> laneTernlog(lane, v(1), v(2), v(3), args[4])
        [] OTHER -> laneTernary(op, lane, v(1), v(2), v(3))

laneRefused(op, lane, args, i) ==
  \/ op = "vdiv" /\ args[2][i] = 0
  \/ op = "vsqrt" /\ args[1][i] < 0
  \/ op \in ShiftOps /\ BadAmount(lane, args[2][i])
  \/ op = "vmulhi" /\ TooWide(lane)
-----------------------------------------------------------------------------
(* Lanes that move: each lane i of the result is the lane l of the operand *)
(* k, for <<k, l>>, or 0, for Nowhere.                                     *)

Nowhere == <<0, 0>>

(* Fault: both unpack the low halves. *)
zippedLow(op, n, i) == IF i < 2 * (n \div 2) THEN <<1 + (i % 2), i \div 2>> ELSE Nowhere

zipped(op, n, i) ==
  IF i < 2 * (n \div 2) THEN <<1 + (i % 2), (IF op = "vunpackhi" THEN n \div 2 ELSE 0) + i \div 2>> ELSE Nowhere

halved(op, n, i) ==
  LET h == n \div 2
  IN  CASE op \in {"vconcat", "vcombine"} -> IF i < h THEN <<1, i>> ELSE IF i < 2 * h THEN <<2, i - h>> ELSE Nowhere
        [] op = "vunzip" -> IF i < h THEN <<1, 2 * i>> ELSE IF i < 2 * h THEN <<2, 2 * (i - h)>> ELSE Nowhere
        [] op = "vswaphalves" -> IF i < h THEN <<1, h + i>> ELSE IF i < 2 * h THEN <<1, i - h>> ELSE Nowhere
        [] op = "vlohalf" -> IF i < h THEN <<1, i>> ELSE Nowhere
        [] op = "vhihalf" -> IF i < h THEN <<1, h + i>> ELSE Nowhere

(* What widens or narrows repeats or drops lanes, and keeps their size.    *)
resized(op, n, two, i) ==
  LET h == n \div 2
      Capped(j) == IF j < n THEN j ELSE n - 1
  IN  CASE op \in {"vwidenlo", "vextend"} -> <<1, Capped(i \div 2)>>
        [] op = "vwidenhi" -> <<1, Capped(h + i \div 2)>>
        [] op = "vwiden256" -> <<1, i \div 2>>
        [] op = "vnarrow256" -> <<1, Capped(2 * i)>>
        [] op \in {"vnarrow", "vpacks", "vpacku"} ->
             IF i < h THEN <<1, Capped(2 * i)>> ELSE <<IF two THEN 2 ELSE 1, Capped(2 * (i - h))>>

(* The 128-bit groups of per lanes each, and the first lane of the group k.*)
FirstOfGroup(k, per) == SizeT(SizeT(k) * per)

grouped(op, n, per, args, i) ==
  LET g == i \div per
      groups == n \div per
      sel == (args[2] \div 2^(4 * g)) % 16
      first == FirstOfGroup(args[2], per)
  IN  CASE op = "vextract128" -> IF i < per THEN <<1, first + i>> ELSE Nowhere
        [] op = "vinsert128" -> IF i \in first .. first + per - 1 THEN <<3, i % per>> ELSE <<1, i>>
        [] op = "vbroadcast128" -> <<1, i % per>>
        [] op = "vperm128" -> <<1, (IF sel < groups THEN sel ELSE groups - 1) * per + (i % per)>>
        [] op = "vinterleave128" -> <<IF g % 2 = 0 THEN 1 ELSE 2, (g \div 2) * per + (i % per)>>

(* The source is named by an operand. *)
selected(op, n, args, i) ==
  LET idx == args[Len(args)]
      two == op = "vshuffle" /\ Len(args) >= 3
  IN  CASE op \in {"vshuffle", "vswizzle"} ->
             IF idx[i] < 0 THEN Nowhere
             ELSE IF SizeT(idx[i]) < n THEN <<1, SizeT(idx[i])>>
             ELSE IF two /\ SizeT(idx[i]) < 2 * n THEN <<2, SizeT(idx[i]) - n>> ELSE Nowhere
        [] op = "vpermvar" -> <<1, SizeT(idx[i]) % n>>
        [] op = "vdupelem" -> <<1, SizeT(idx)>>
        [] op = "vrotate" -> <<1, (i + idx) % n>>
        [] op = "valign" -> LET j == (i + idx) % (2 * n) IN IF j < n THEN <<1, j>> ELSE <<2, j - n>>
        [] op = "vshufi" -> <<IF i < n \div 2 THEN 1 ELSE 2, ((idx \div 4^i) % 4) % n>>

HalfOps == {"vconcat", "vcombine", "vunzip", "vswaphalves", "vlohalf", "vhihalf"}
ResizeOps == {"vwidenlo", "vwidenhi", "vextend", "vwiden256", "vnarrow256", "vnarrow", "vpacks", "vpacku"}
GroupOps == {"vextract128", "vinsert128", "vbroadcast128", "vperm128", "vinterleave128"}
SelectOps == {"vshuffle", "vswizzle", "vpermvar", "vdupelem", "vrotate", "valign", "vshufi"}
MoveOps == HalfOps \cup ResizeOps \cup GroupOps \cup SelectOps \cup {"vzip", "vunpacklo", "vunpackhi", "vreverse", "vshiftout"}

laneSource(op, n, per, args, i) ==
  CASE op \in HalfOps -> halved(op, n, i)
    [] op \in ResizeOps -> resized(op, n, Len(args) > 1, i)
    [] op \in GroupOps -> grouped(op, n, per, args, i)
    [] op \in SelectOps -> selected(op, n, args, i)
    [] op = "vreverse" -> <<1, n - 1 - i>>
    [] op = "vshiftout" -> IF i = 0 THEN Nowhere ELSE <<1, i - 1>>
    [] OTHER -> zipped(op, n, i)

(* Packing saturates to the signed type of the lane's own size: vpacks     *)
(* changes nothing but large unsigned lanes, vpacku only negative ones.    *)
packed(op, lane, x) ==
  CASE op = "vpacks" -> Clamped(x, signedMinOfWidth(lane), signedMaxOfWidth(lane))
    [] op = "vpacku" -> IF x < 0 THEN 0 ELSE x
    [] OTHER -> x

moved(op, lane, n, per, args, i) ==
  LET s == laneSource(op, n, per, args, i)
  IN  IF s = Nowhere THEN 0 ELSE packed(op, lane, args[s[1]][s[2]])

moveRefused(op, n, per, args) ==
  \/ op = "vdupelem" /\ BadIndex(args[2], n)
  \/ op \in {"vextract128", "vinsert128"} /\ (args[2] < 0 \/ FirstOfGroup(args[2], per) >= n)
-----------------------------------------------------------------------------
(* One lane in, out or shifted in, and the vectors made from nothing.      *)

OneLaneOps == {"vsplat", "vinsert", "vshiftin", "viota", "vones", "vzero"}

oneLane(op, lane, n, args) ==
  CASE op = "vsplat" -> Vector(lane, n, LAMBDA i : Number(lane, args[1]))
    [] op = "vinsert" -> [args[1] EXCEPT ![SizeT(args[2])] = Number(lane, args[3])]
    [] op = "vshiftin" -> Vector(lane, n, LAMBDA i : IF i + 1 < n THEN args[1][i + 1] ELSE Number(lane, args[2]))
    [] op = "viota" -> Vector(lane, n, LAMBDA i : Number(lane, i))
    [] op = "vones" -> Vector(lane, n, LAMBDA i : allOnes(lane))
    [] op = "vzero" -> Vector(lane, n, LAMBDA i : 0)

oneLaneRefused(op, n, args) == op = "vinsert" /\ BadIndex(args[2], n)
-----------------------------------------------------------------------------
(* Masks: a bit for each lane. *)

maskBit(m, i) == Bit(m, i) = 1

(* The lanes a mask selects. *)
Chosen(m, n) == {i \in 0 .. n - 1 : maskBit(m, i)}
Below(S, i) == Cardinality({j \in S : j < i})
Nth(S, k) == CHOOSE i \in S : Below(S, i) = k
MaskOf(S) == MapThenSumSet(LAMBDA i : 2^i, S)

KMaskOps ==
  {"kset", "kclr", "kmov", "knot", "kand", "kor", "kxor", "kandn", "kxnor", "kadd", "kshiftl", "kshiftr", "kunpack"}

(* Fault: the bits above the lanes are not masked off. *)
kmaskUncut(op, n, m) == IF op = "knot" THEN Not(m[1]) ELSE IF op = "kset" THEN 2^n - 1 ELSE m[1]

(* Before maskValue cuts it to i64. *)
kmask(op, n, m) ==
  LET low(x) == x % 2^n
      half == n \div 2
  IN  CASE op = "kset" -> 2^n - 1
        [] op = "kclr" -> 0
        [] op = "kmov" -> low(m[1])
        [] op = "knot" -> low(Not(m[1]))
        [] op = "kand" -> low(And(m[1], m[2]))
        [] op = "kor" -> low(Or(m[1], m[2]))
        [] op = "kxor" -> low(Xor(m[1], m[2]))
        [] op = "kandn" -> low(And(Not(m[1]), m[2]))
        [] op = "kxnor" -> low(Not(Xor(m[1], m[2])))
        [] op = "kadd" -> low(m[1] + m[2])
        [] op = "kshiftl" -> low(low(m[1]) * 2^SizeT(m[2]))
        [] op = "kshiftr" -> low(m[1]) \div 2^SizeT(m[2])
        [] op = "kunpack" -> (m[1] % 2^half) + (m[2] % 2^half) * 2^half

kmaskRefused(op, n, m) == op \in {"kshiftl", "kshiftr"} /\ BadIndex(m[2], n + 1)

KNumberOps == {"ktest", "kortest", "kcount", "kfirst", "klast", "kvalid", "vlen"}

Truth(b) == IF b THEN 1 ELSE 0

knumber(op, n, m) ==
  LET S == Chosen(m[1], n)
  IN  CASE op = "ktest" -> Truth(S \cap Chosen(m[2], n) # {})
        [] op = "kortest" -> Truth(S \cup Chosen(m[2], n) # {})
        [] op = "kcount" -> Cardinality(S)
        [] op = "kfirst" -> IF S = {} THEN -1 ELSE Min(S)
        [] op = "klast" -> IF S = {} THEN -1 ELSE Max(S)
        [] op = "kvalid" -> Truth(UInt128(m[1]) < 2^n)
        [] op = "vlen" -> n

CompressOps == {"vcompress", "vexpand"}

compressed(op, lane, n, args) ==
  LET S == Chosen(args[2], n)
  IN  IF op = "vcompress"
      THEN Vector(lane, n, LAMBDA k : IF k < Cardinality(S) THEN args[1][Nth(S, k)] ELSE 0)
      ELSE Vector(lane, n, LAMBDA i : IF i \in S THEN args[1][Below(S, i)] ELSE 0)

(* The masked form of an instruction computes the chosen lanes only; the   *)
(* others are those of its first vector (k) or 0 (z).  With three vectors  *)
(* it multiplies and adds, whatever its name.                              *)
MaskedOps ==
  [vaddk |-> "vadd", vaddz |-> "vadd", vsubk |-> "vsub", vsubz |-> "vsub", vmulk |-> "vmul", vmulz |-> "vmul",
   vdivk |-> "vdiv", vdivz |-> "vdiv", vmink |-> "vmin", vminz |-> "vmin", vmaxk |-> "vmax", vmaxz |-> "vmax",
   vsqrtk |-> "vsqrt", vsqrtz |-> "vsqrt", vabsk |-> "vabs", vabsz |-> "vabs", vnegk |-> "vneg", vnegz |-> "vneg",
   vfmak |-> "vmla", vfmaz |-> "vmla"]

Zeroing == {"vaddz", "vsubz", "vmulz", "vdivz", "vminz", "vmaxz", "vsqrtz", "vabsz", "vnegz", "vfmaz"}

BaseOp(op, args) == IF Len(args) > 3 THEN "vmla" ELSE MaskedOps[op]

vectorComputeMasked(op, lane, n, args) ==
  LET vectors == Tail(args)
      Keep(i) == IF op \in Zeroing THEN 0 ELSE vectors[1][i]
  IN  [i \in Lanes(lane) |->
         IF i \in Chosen(args[1], n) THEN Number(lane, lanewise(BaseOp(op, args), lane, vectors, i))
         ELSE Keep(i)]

maskedRefused(op, lane, n, args) ==
  \E i \in Chosen(args[1], n) : laneRefused(BaseOp(op, args), lane, Tail(args), i)
-----------------------------------------------------------------------------
(* From lanes to a number.  vbitmask and the tests give an i32.            *)

TestOps == {"vanytrue", "valltrue", "vtestz", "vbitmask", "vcountones"}

laneTest(op, lane, n, v) ==
  LET S == {i \in 0 .. n - 1 : v[i] # 0}
  IN  CASE op = "vanytrue" -> Truth(S # {})
        [] op = "valltrue" -> Truth(S = 0 .. n - 1)
        [] op = "vtestz" -> Truth(S = {})
        [] op = "vcountones" -> Cardinality(S)
        [] op = "vbitmask" -> MaskOf({i \in 0 .. n - 1 : laneSignBit(v[i], lane)})

ReduceOps ==
  {"vreduceadd", "vsum", "vreducemul", "vreducemin", "vreducemax", "vreduceand", "vreduceor", "vreducexor",
   "vdot", "vextract"}

reduced(op, n, args) ==
  LET Join(r, x) == CASE op \in {"vreduceadd", "vsum"} -> r + x
                      [] op = "vreducemul" -> Int128(r * x)
                      [] op = "vreducemin" -> IF x < r THEN x ELSE r
                      [] op = "vreducemax" -> IF x > r THEN x ELSE r
                      [] op = "vreduceand" -> And(r, x)
                      [] op = "vreduceor" -> Or(r, x)
                      [] op = "vreducexor" -> Xor(r, x)
  IN  CASE op = "vdot" -> MapThenSumSet(LAMBDA i : args[1][i] * args[2][i], 0 .. n - 1)
        [] op = "vextract" -> args[1][SizeT(args[2])]
        [] OTHER -> FoldLeft(LAMBDA r, i : Join(r, args[1][i]), args[1][0], [k \in 1 .. n - 1 |-> k])

reduceRefused(op, n, args) == op = "vextract" /\ BadIndex(args[2], n)

(* Sums of parts of a vector, as a vector, and which earlier lanes equal   *)
(* each lane, cut to as many bits as the lane has.                         *)
PartOps == {"vsad", "vreduce2", "vreduce4", "vconflict"}

parts(op, lane, n, args) ==
  LET group == IF op = "vreduce2" THEN 2 ELSE 4
      Sum(S) == MapThenSumSet(LAMBDA i : args[1][i], S)
  IN  CASE op = "vsad" ->
             Vector(lane, 1, LAMBDA i :
               Number(lane, MapThenSumSet(LAMBDA j : Magnitude(args[1][j] - args[2][j]), 0 .. n - 1)))
        [] op = "vconflict" ->
             Vector(lane, n, LAMBDA i : Number(lane, MaskOf({j \in 0 .. i - 1 : args[1][j] = args[1][i]})))
        [] OTHER -> Vector(lane, n \div group, LAMBDA i : Number(lane, Sum(i * group .. i * group + group - 1)))
=============================================================================
