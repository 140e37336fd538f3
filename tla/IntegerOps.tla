----------------------------- MODULE IntegerOps -----------------------------
(***************************************************************************)
(* The integer and bit instructions of Interpreter::call, as functions of  *)
(* their operands: x, y and z are the operands' asInt128, which a register *)
(* may have taken from another type.  An operator gives the number before  *)
(* fromInt128 cuts it to the type.  Float types, which most of these       *)
(* instructions refuse, are left out.                                      *)
(***************************************************************************)
EXTENDS Words

(* Fault: only the upper limit. *)
ClampedAbove(n, lo, hi) == IF n > hi THEN hi ELSE n

Clamped(n, lo, hi) == IF n > hi THEN hi ELSE IF n < lo THEN lo ELSE n

(* Twice the width has to fit: bits > 64 in the code.                      *)
TooWide(type) == 2 * bitWidth(type) > Wide

(* Most amounts and indices are cut to size_t before they are compared, and*)
(* the instruction runs with what is left of them: an Int128 of 2^64 + k is*)
(* taken for k.                                                            *)
BadIndex(n, size) == n < 0 \/ SizeT(n) \notin 0 .. size - 1
BadAmount(type, n) == BadIndex(n, bitWidth(type))
-----------------------------------------------------------------------------
(* arith, bitwise, bitwiseNot, shift, negate, absValue, minMaxValue.       *)

BasicOps ==
  {"add", "sub", "mul", "div", "mod", "and", "or", "xor", "not", "shl", "shr", "neg",
   "abs", "min", "max"}

basic(op, type, x, y) ==
  CASE op = "add" -> x + y
    [] op = "sub" -> x - y
    [] op = "mul" -> x * y
    [] op = "div" -> Quotient(x, y)
    [] op = "mod" -> Remainder(x, y)
    [] op = "and" -> And(x, y)
    [] op = "or"  -> Or(x, y)
    [] op = "xor" -> Xor(x, y)
    [] op = "not" -> Not(x)
    [] op = "shl" -> x * 2^y
    [] op = "shr" -> x \div 2^y
    [] op = "neg" -> -x
    [] op = "abs" -> Magnitude(x)
    [] op = "min" -> IF x < y THEN x ELSE y
    [] op = "max" -> IF x < y THEN y ELSE x

basicRefused(op, type, x, y) ==
  \/ op \in {"div", "mod"} /\ y = 0
  \/ op \in {"shl", "shr"} /\ y \notin 0 .. bitWidth(type) - 1
-----------------------------------------------------------------------------
(* bitUnary and bitManipUnary. *)

BitUnaryOps ==
  {"popcount", "clz", "ctz", "parity", "ffs", "bitreverse", "bswap", "blsi", "blsr", "blsmsk",
   "gray", "ungray", "clrsb", "zerocount", "hibit", "lobit", "msbmask", "nibbleswap", "bitrev8",
   "bswap16", "bswap32", "bswap64", "bitinterleave", "bitdeinterleave", "lowmask", "himask"}

(* bswap16, bswap32 and bswap64 swap the bytes of an eighth, a quarter and *)
(* a half of Int128; the first two keep the bits above.                    *)
SwapLow(v, bits) ==
  LET low == v % 2^bits IN v - low + bswapGeneric(low, bits \div ByteBits)

bitUnary(op, type, x) ==
  LET bits == bitWidth(type)
      v == unsignedOf(x, type)
      bytes == bits \div ByteBits
      nibble == ByteBits \div 2
      nibbles == bits \div nibble
  IN  CASE op = "popcount"   -> popcountGeneric(v, bits)
        [] op = "clz"        -> clzGeneric(v, bits)
        [] op = "ctz"        -> ctzGeneric(v, bits)
        [] op = "parity"     -> popcountGeneric(v, bits) % 2
        [] op = "ffs"        -> IF v = 0 THEN 0 ELSE ctzGeneric(v, bits) + 1
        [] op = "bitreverse" -> bitreverseGeneric(v, bits)
        [] op = "bswap"      -> bswapGeneric(v, bytes)
        [] op = "blsi"       -> And(v, -v)
        [] op = "blsr"       -> And(v, v - 1)
        [] op = "blsmsk"     -> Xor(v, v - 1)
        [] op = "gray"       -> Xor(v, v \div 2)
        [] op = "ungray"     -> Ungray(v, bits)
        [] op = "clrsb"      -> SignCopies(v, bits)
        [] op = "zerocount"  -> bits - popcountGeneric(v, bits)
        [] op = "hibit"      -> IF v = 0 THEN -1 ELSE bits - 1 - clzGeneric(v, bits)
        [] op = "lobit"      -> IF v = 0 THEN -1 ELSE ctzGeneric(v, bits)
        [] op = "msbmask"    -> IF Bit(v, bits - 1) = 1 THEN -1 ELSE 0
        [] op = "nibbleswap" ->
             MapThenSumSet(LAMBDA i : Byte(v, i, nibble) * 2^(nibble * (nibbles - 1 - i)), 0 .. nibbles - 1)
        [] op = "bitrev8"    ->
             MapThenSumSet(LAMBDA b : bitreverseGeneric(Byte(v, b, ByteBits), ByteBits) * 2^(b * ByteBits),
                           0 .. bytes - 1)
        [] op = "bswap16"    -> SwapLow(v, Wide \div 8)
        [] op = "bswap32"    -> SwapLow(v, Wide \div 4)
        [] op = "bswap64"    -> bswapGeneric(v, (Wide \div 2) \div ByteBits)
        [] op = "bitinterleave"   -> interleaveBits(v, bits)
        [] op = "bitdeinterleave" -> deinterleaveBits(v, bits)
        [] op = "lowmask"    -> lowMask(SizeT(x))
        [] op = "himask"     -> unsignedMaxOfWidth(type) - lowMask(bits - SizeT(x))

bitUnaryRefused(op, type, x) ==
  \/ op = "lowmask" /\ x < 0
  \/ op = "himask" /\ BadIndex(x, bitWidth(type) + 1)
-----------------------------------------------------------------------------
(* rotateValue, bitIndexOp and bitManipBinary. *)

BitBinaryOps == {"rotl", "rotr", "bitset", "bitclear", "bittest", "bext", "bdep", "sextbit", "zextbit"}

bitBinary(op, type, x, y) ==
  LET bits == bitWidth(type)
      v == unsignedOf(x, type)
      k == SizeT(y)
      low == And(v, lowMask(k))
  IN  CASE op = "rotl"     -> IF k = 0 THEN v ELSE rotlGeneric(v, bits, k)
        [] op = "rotr"     -> IF k = 0 THEN v ELSE rotrGeneric(v, bits, k)
        [] op = "bitset"   -> Or(v, 2^k)
        [] op = "bitclear" -> And(v, Not(2^k))
        [] op = "bittest"  -> Bit(v, k)
        [] op = "bext"     -> bextGeneric(v, unsignedOf(y, type), bits)
        [] op = "bdep"     -> bdepGeneric(v, unsignedOf(y, type), bits)
        [] op = "sextbit"  -> IF 2 * low >= 2^k THEN low + unsignedMaxOfWidth(type) - lowMask(k) ELSE low
        [] op = "zextbit"  -> low

bitBinaryRefused(op, type, x, y) ==
  \/ op \in {"rotl", "rotr", "bitset", "bitclear", "bittest"} /\ BadAmount(type, y)
  \/ op = "sextbit" /\ y = 0
  \/ op \in {"sextbit", "zextbit"} /\ BadIndex(y, bitWidth(type) + 1)
-----------------------------------------------------------------------------
(* intUnaryExt.  nextpow2 of a number above the last power never ends.     *)

IntUnaryOps ==
  {"inc", "dec", "signum", "sqr", "isqrt", "ilog2", "ilog10", "ispow2", "nextpow2", "prevpow2", "negsat"}

intUnaryExt(op, type, x) ==
  LET u == unsignedOf(x, type)
  IN  CASE op = "inc"      -> x + 1
        [] op = "dec"      -> x - 1
        [] op = "signum"   -> IF x > 0 THEN 1 ELSE IF x < 0 THEN -1 ELSE 0
        [] op = "sqr"      -> x * x
        [] op = "isqrt"    -> uisqrt(x)
        [] op = "ilog2"    -> Log(u, 2)
        [] op = "ilog10"   -> Log(u, 10)
        [] op = "ispow2"   -> IF u # 0 /\ And(u, u - 1) = 0 THEN 1 ELSE 0
        [] op = "nextpow2" -> nextPow2(u)
        [] op = "prevpow2" -> prevPow2(u)
        [] op = "negsat"   -> IF x = signedMinOfWidth(type) THEN signedMaxOfWidth(type) ELSE -x

intUnaryRefused(op, type, x) ==
  \/ op = "isqrt" /\ x < 0
  \/ op \in {"ilog2", "ilog10"} /\ unsignedOf(x, type) = 0

Ends(op, type, x) == op = "nextpow2" => HasNextPow2(unsignedOf(x, type))
-----------------------------------------------------------------------------
(* intBinaryExt. *)

IntBinaryOps ==
  {"udiv", "umod", "sar", "mulhi", "umulhi", "umin", "umax", "absdiff", "uabsdiff", "avg", "uavg",
   "nand", "nor", "xnor", "andnot", "ornot", "powi", "gcd", "lcm", "divceil", "divfloor",
   "diveuclid", "modeuclid", "alignup", "aligndown"}

intBinaryExt(op, type, x, y) ==
  LET ux == unsignedOf(x, type)
      uy == unsignedOf(y, type)
  IN  CASE op = "udiv"      -> ux \div uy
        [] op = "umod"      -> ux % uy
        [] op = "sar"       -> x \div 2^SizeT(y)
        [] op = "mulhi"     -> Int128(x * y) \div 2^bitWidth(type)
        [] op = "umulhi"    -> UInt128(ux * uy) \div 2^bitWidth(type)
        [] op = "umin"      -> IF ux < uy THEN ux ELSE uy
        [] op = "umax"      -> IF ux > uy THEN ux ELSE uy
        [] op = "absdiff"   -> Magnitude(x - y)
        [] op = "uabsdiff"  -> Magnitude(ux - uy)
        [] op = "avg"       -> floorDiv(Int128(x + y), 2)
        [] op = "uavg"      -> And(ux, uy) + UInt128(Xor(ux, uy)) \div 2
        [] op = "nand"      -> Not(And(x, y))
        [] op = "nor"       -> Not(Or(x, y))
        [] op = "xnor"      -> Not(Xor(x, y))
        [] op = "andnot"    -> And(x, Not(y))
        [] op = "ornot"     -> Or(x, Not(y))
        [] op = "powi"      -> ipow(x, y)
        [] op = "gcd"       -> Gcd(ux, uy)
        [] op = "lcm"       -> IF ux = 0 \/ uy = 0 THEN 0 ELSE (ux \div Gcd(ux, uy)) * uy
        [] op = "divceil"   -> ceilDiv(x, y)
        [] op = "divfloor"  -> floorDiv(x, y)
        [] op = "diveuclid" -> euclidDiv(x, y)
        [] op = "modeuclid" -> euclidMod(x, y)
        [] op = "alignup"   -> (UInt128(ux + uy - 1) \div uy) * uy
        [] op = "aligndown" -> (ux \div uy) * uy

intBinaryRefused(op, type, x, y) ==
  \/ op \in {"udiv", "umod", "alignup", "aligndown"} /\ unsignedOf(y, type) = 0
  \/ op \in {"divceil", "divfloor", "diveuclid", "modeuclid"} /\ y = 0
  \/ op = "sar" /\ BadAmount(type, y)
  \/ op \in {"mulhi", "umulhi"} /\ TooWide(type)
  \/ op = "powi" /\ y < 0
-----------------------------------------------------------------------------
(* saturatingOp. *)

SaturatingOps == {"addsat", "subsat", "mulsat", "shlsat", "uaddsat", "usubsat", "umulsat"}

saturatingOp(op, type, x, y) ==
  LET lo == signedMinOfWidth(type)
      hi == signedMaxOfWidth(type)
      umax == unsignedMaxOfWidth(type)
      ux == unsignedOf(x, type)
      uy == unsignedOf(y, type)
      sum == UInt128(ux + uy)
      product == UInt128(ux * uy)
  IN  CASE op = "addsat"  -> Clamped(Int128(x + y), lo, hi)
        [] op = "subsat"  -> Clamped(Int128(x - y), lo, hi)
        [] op = "mulsat"  -> Clamped(Int128(x * y), lo, hi)
        [] op = "shlsat"  -> Clamped(Int128(x * 2^SizeT(y)), lo, hi)
        [] op = "uaddsat" -> IF sum > umax \/ sum < ux THEN umax ELSE sum
        [] op = "usubsat" -> IF ux < uy THEN 0 ELSE ux - uy
        [] op = "umulsat" -> IF product > umax THEN umax ELSE product

saturatingRefused(op, type, x, y) ==
  \/ op \in {"mulsat", "umulsat"} /\ TooWide(type)
  \/ op = "shlsat" /\ BadAmount(type, y)
-----------------------------------------------------------------------------
(* computeWithOverflow, of addo ... nego, and of the ...chk instructions,  *)
(* which throw where the others set the flag.                              *)

OverflowOps == {"addo", "subo", "mulo", "shlo", "nego", "uaddo", "usubo", "umulo"}

Unchecked ==
  [addchk |-> "addo", subchk |-> "subo", mulchk |-> "mulo",
   uaddchk |-> "uaddo", usubchk |-> "usubo", umulchk |-> "umulo"]

(* The number, and whether it overflowed. *)
computeWithOverflow(op, type, x, y) ==
  LET lo == signedMinOfWidth(type)
      hi == signedMaxOfWidth(type)
      ux == unsignedOf(x, type)
      uy == unsignedOf(y, type)
      Signed(n) == [num |-> n, over |-> n < lo \/ n > hi]
      sum == UInt128(ux + uy)
      product == UInt128(ux * uy)
  IN  CASE op = "addo"  -> Signed(Int128(x + y))
        [] op = "subo"  -> Signed(Int128(x - y))
        [] op = "mulo"  -> Signed(Int128(x * y))
        [] op = "shlo"  -> Signed(Int128(x * 2^SizeT(y)))
        [] op = "nego"  -> [num |-> -x, over |-> x = lo]
        [] op = "uaddo" -> [num |-> sum, over |-> sum > unsignedMaxOfWidth(type) \/ sum < ux]
        [] op = "usubo" -> [num |-> ux - uy, over |-> ux < uy]
        [] op = "umulo" -> [num |-> product, over |-> product > unsignedMaxOfWidth(type)]

overflowRefused(op, type, x, y) ==
  \/ op \in {"mulo", "umulo"} /\ TooWide(type)
  \/ op = "shlo" /\ BadAmount(type, y)

divchkRefused(type, x, y) == y = 0 \/ (x = signedMinOfWidth(type) /\ y = -1)
-----------------------------------------------------------------------------
(* addc and subb, with the carry c as 0 or 1. *)

addc(type, ux, uy, c) ==
  LET r == UInt128(ux + uy + c)
  IN  [num |-> r, carry |-> r > unsignedMaxOfWidth(type) \/ r < ux]

(* Fault: the borrow is left out of the comparison. *)
subbNoBorrow(type, ux, uy, c) == [num |-> ux - uy - c, carry |-> ux < uy]

subb(type, ux, uy, c) == [num |-> ux - uy - c, carry |-> ux < UInt128(uy + c)]
-----------------------------------------------------------------------------
(* mulwide, umulwide, clamp, uclamp, mla, mls, sext and zext.              *)

WideningOps == {"mulwide", "umulwide", "sext", "zext"}

widening(op, type, x, y) ==
  CASE op = "mulwide"  -> x * y
    [] op = "umulwide" -> unsignedOf(x, type) * unsignedOf(y, type)
    [] op = "sext"     -> AsSigned(x, bitWidth(type))
    [] op = "zext"     -> unsignedOf(x, type)

wideningRefused(op, type) == op \in {"mulwide", "umulwide"} /\ TooWide(type)

TernaryOps == {"clamp", "uclamp", "mla", "mls"}

(* With lo above hi, a number below lo gives lo. *)
ternary(op, type, x, y, z) ==
  LET u(n) == unsignedOf(n, type)
  IN  CASE op = "clamp"  -> IF x < y THEN y ELSE IF x > z THEN z ELSE x
        [] op = "uclamp" -> IF u(x) < u(y) THEN u(y) ELSE IF u(x) > u(z) THEN u(z) ELSE u(x)
        [] op = "mla"    -> x * y + z
        [] op = "mls"    -> z - x * y
-----------------------------------------------------------------------------
(* bfextract, bfinsert, bfclear, bfset, shld, shrd and bitselect, of their *)
(* whole sequence n of operands: bfinsert has the field before start.      *)

FieldOps == {"bfextract", "bfinsert", "bfclear", "bfset", "shld", "shrd", "bitselect"}
BitFields == {"bfextract", "bfinsert", "bfclear", "bfset"}

Start(op, n) == IF op = "bfinsert" THEN n[3] ELSE n[2]
FieldLen(op, n) == IF op = "bfinsert" THEN n[4] ELSE n[3]

(* The check of their sum lets a start above Int128 by, if the sum passes  *)
(* size_t: the shift, which C++ leaves undefined, is by its low bits alone *)
(* on both hosts.                                                          *)
FieldStart(op, n) == SizeT(Start(op, n)) % Wide

field(op, type, n) ==
  LET u(k) == unsignedOf(n[k], type)
      start == FieldStart(op, n)
      ones == lowMask(SizeT(FieldLen(op, n)))
      mask == UInt128(ones * 2^start)
      s == SizeT(n[3])
      rest == 2^(bitWidth(type) - s)
  IN  CASE op = "bfextract" -> And(u(1) \div 2^start, ones)
        [] op = "bfinsert"  -> Or(And(u(1), Not(mask)), And(u(2) * 2^start, mask))
        [] op = "bfclear"   -> And(u(1), Not(mask))
        [] op = "bfset"     -> Or(u(1), mask)
        [] op = "shld"      -> IF s = 0 THEN u(1) ELSE Or(UInt128(u(1) * 2^s), u(2) \div rest)
        [] op = "shrd"      -> IF s = 0 THEN u(2) ELSE Or(u(2) \div 2^s, UInt128(u(1) * rest))
        [] op = "bitselect" -> Or(And(u(1), u(3)), And(u(2), Not(u(3))))

fieldRefused(op, type, n) ==
  \/ /\ op \in BitFields
     /\ \/ Start(op, n) < 0 \/ FieldLen(op, n) < 0
        \/ SizeT(Start(op, n) + FieldLen(op, n)) > bitWidth(type)
  \/ op \in {"shld", "shrd"} /\ BadAmount(type, n[3])
-----------------------------------------------------------------------------
(* getelementptr, ptradd, ptrsub, ptrdiff and ptralign, of their operands. *)

PointerOps == {"getelementptr", "ptradd", "ptrsub", "ptrdiff", "ptralign"}

(* An alignment that is cut to 0 divides by it: the process ends there on  *)
(* x86-64, and the result is 0 on arm64.                                   *)
pointerOp(op, n) ==
  LET p(k) == SizeT(n[k])
      align == SizeT(n[2])
  IN  CASE op = "getelementptr" -> p(1) + n[2] * n[3] + n[4]
        [] op = "ptradd"   -> p(1) + n[2]
        [] op = "ptrsub"   -> p(1) - n[2]
        [] op = "ptrdiff"  -> p(1) - p(2)
        [] op = "ptralign" -> IF align = 0 THEN 0 ELSE (SizeT(p(1) + align - 1) \div align) * align

pointerRefused(op, n) == op = "ptralign" /\ n[2] <= 0
=============================================================================
