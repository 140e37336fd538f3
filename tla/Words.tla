------------------------------- MODULE Words --------------------------------
(***************************************************************************)
(* Two's complement words as the interpreter computes on them: every       *)
(* operation is done at the width of Int128 (Wide here) and its result is  *)
(* cut to the type afterwards.  A negative number has the bits of its two's*)
(* complement: (v \div 2^i) % 2 rounds down.                               *)
(***************************************************************************)
EXTENDS Values, SequencesExt

CONSTANTS
  Wide,      (* The bits of Int128: 128.                                     *)
  ByteBits   (* The bits of a byte: 8.                                       *)

ASSUME WordsAssumption ==
  /\ Wide \in Nat \ {0} /\ ByteBits \in Nat \ {0}
  /\ \A type \in DOMAIN Width : Width[type] <= Wide
  /\ "ptr" \in DOMAIN Width

(* A signed sum or product that does not fit Int128 wraps: its operands are*)
(* known at run time only, and the build has no check for it.              *)
Int128(n) == AsSigned(n, Wide)
UInt128(n) == AsUnsigned(n, Wide)

(* static_cast<size_t>: as many bits as a pointer has.                     *)
SizeT(n) == AsUnsigned(n, Width["ptr"])

bitWidth(type) == Width[type]

unsignedOf(x, type) == AsUnsigned(x, bitWidth(type))

signedMinOfWidth(type) == -(2^(bitWidth(type) - 1))

(* Fault: one above the largest number. *)
signedMaxOneOff(type) == 2^(bitWidth(type) - 1)

signedMaxOfWidth(type) == 2^(bitWidth(type) - 1) - 1
unsignedMaxOfWidth(type) == 2^bitWidth(type) - 1

Remainder(x, y) == x - y * Quotient(x, y)

Bit(v, i) == (v \div 2^i) % 2

And(x, y) == Int128(MapThenSumSet(LAMBDA i : 2^i * Bit(x, i) * Bit(y, i), 0 .. Wide - 1))
Or(x, y) == x + y - And(x, y)
Xor(x, y) == x + y - 2 * And(x, y)
Not(x) == -x - 1

(* for (i = 0; i < n; ++i) *)
UpTo(n) == [k \in 1 .. n |-> k - 1]
-----------------------------------------------------------------------------
(* The loops over the bits of a word. *)

popcountGeneric(v, bits) == FoldLeft(LAMBDA c, i : c + Bit(v, i), 0, UpTo(bits))

clzGeneric(v, bits) ==
  LET below[i \in Int] == IF i < 0 THEN bits ELSE IF Bit(v, i) = 1 THEN bits - 1 - i ELSE below[i - 1]
  IN  below[bits - 1]

ctzGeneric(v, bits) ==
  LET above[i \in Nat] == IF i = bits \/ Bit(v, i) = 1 THEN i ELSE above[i + 1] IN above[0]

bitreverseGeneric(v, bits) == FoldLeft(LAMBDA r, i : 2 * r + Bit(v, i), 0, UpTo(bits))

Byte(v, i, size) == (v \div 2^(i * size)) % 2^size

bswapGeneric(v, bytes) ==
  FoldLeft(LAMBDA r, i : r * 2^ByteBits + Byte(v, i, ByteBits), 0, UpTo(bytes))

rotlGeneric(v, bits, n) == UInt128(v * 2^n) + v \div 2^(bits - n)
rotrGeneric(v, bits, n) == v \div 2^n + UInt128(v * 2^(bits - n))

(* The bit i of the mask is the k-th that is set. *)
(* Fault: k counts every bit. *)
bextEveryBit(v, mask, bits) ==
  LET from[i \in Nat] ==
        IF i = bits THEN 0 ELSE 2^i * Bit(mask, i) * Bit(v, i) + from[i + 1]
  IN  from[0]

bextGeneric(v, mask, bits) ==
  LET from[i \in Nat, k \in Nat] ==
        IF i = bits THEN 0 ELSE 2^k * Bit(mask, i) * Bit(v, i) + from[i + 1, k + Bit(mask, i)]
  IN  from[0, 0]

bdepGeneric(v, mask, bits) ==
  LET from[i \in Nat, k \in Nat] ==
        IF i = bits THEN 0 ELSE 2^i * Bit(mask, i) * Bit(v, k) + from[i + 1, k + Bit(mask, i)]
  IN  from[0, 0]

lowMask(n) == IF n >= Wide THEN 2^Wide - 1 ELSE 2^n - 1

HalfBits(bits) == {i \in 0 .. bits - 1 : 2 * i < bits}
interleaveBits(v, bits) == MapThenSumSet(LAMBDA i : Bit(v, i) * 4^i, HalfBits(bits))
deinterleaveBits(v, bits) == MapThenSumSet(LAMBDA i : Bit(v, 2 * i) * 2^i, HalfBits(bits))

(* r ^= r >> s for s = 1, 2, 4, ... below the width. *)
Ungray(v, bits) ==
  LET fold[r \in Nat, s \in Nat] == IF s >= bits THEN r ELSE fold[Xor(r, r \div 2^s), 2 * s]
  IN  fold[v, 1]

(* The bits below the sign that equal it. *)
SignCopies(v, bits) ==
  LET same[i \in Int] == IF i < 0 \/ Bit(v, i) # Bit(v, bits - 1) THEN 0 ELSE 1 + same[i - 1]
  IN  same[bits - 2]
-----------------------------------------------------------------------------
(* Powers, roots, logarithms and divisors. *)

ipow(base, exp) ==
  LET loop[r \in Int, b \in Int, e \in Nat] ==
        IF e = 0 THEN r ELSE loop[IF e % 2 = 1 THEN Int128(r * b) ELSE r, Int128(b * b), e \div 2]
  IN  loop[1, base, exp]

uisqrt(n) ==
  LET newton[x \in Nat] ==
        LET y == (x + n \div x) \div 2 IN IF y < x THEN newton[y] ELSE x
  IN  IF n = 0 THEN 0 ELSE newton[n]

(* ulog2 and ulog10: the divisions until nothing is left. *)
Log(v, base) == LET log[n \in Nat] == IF n = 0 THEN -1 ELSE 1 + log[n \div base] IN log[v]

(* nextPow2 doubles until it reaches v: past the last power of the word it *)
(* is 0 and never does.                                                    *)
Powers == {2^k : k \in 0 .. Wide - 1}
HasNextPow2(v) == \E p \in Powers : p >= v
nextPow2(v) == Min({p \in Powers : p >= v})

prevPow2(v) ==
  LET up[r \in Nat] == IF 2 * r < 2^Wide /\ 2 * r <= v THEN up[2 * r] ELSE r
  IN  IF v = 0 THEN 0 ELSE up[1]

Gcd(x, y) == LET gcd[p \in Nat, q \in Nat] == IF q = 0 THEN p ELSE gcd[q, p % q] IN gcd[x, y]

floorDiv(a, b) ==
  Quotient(a, b) - (IF Remainder(a, b) # 0 /\ (a < 0) # (b < 0) THEN 1 ELSE 0)

ceilDiv(a, b) ==
  Quotient(a, b) + (IF Remainder(a, b) # 0 /\ (a < 0) = (b < 0) THEN 1 ELSE 0)

(* Fault: the quotient moves up whatever the sign of the divisor. *)
euclidDivUp(a, b) == Quotient(a, b) + (IF Remainder(a, b) < 0 THEN 1 ELSE 0)

euclidDiv(a, b) ==
  Quotient(a, b) + (IF Remainder(a, b) >= 0 THEN 0 ELSE IF b > 0 THEN -1 ELSE 1)

euclidMod(a, b) ==
  LET m == Remainder(a, b) IN IF m < 0 THEN m + Magnitude(b) ELSE m
=============================================================================
