------------------------------- MODULE Values -------------------------------
(***************************************************************************)
(* struct Value for the integer types: a dynamic type and a number of that *)
(* type.  The widths are parameters, so that a small word has every wrap.  *)
(***************************************************************************)
EXTENDS Integers

CONSTANT Width   (* The bits of each integer type: 8 * sizeOfType.           *)

ASSUME WidthAssumption == Width \in [DOMAIN Width -> Nat \ {0}]

(* The types whose numbers asInt128 reads as they are: a u128 is as long as*)
(* an Int128 and is read as one, from 2^127 on as a negative number.       *)
Unsigned == {"u8", "u16", "u32", "u64", "ptr"}

(* The number an integer of a width is taken for.                          *)
AsUnsigned(n, bits) == n % 2^bits

AsSigned(n, bits) == ((n + 2^(bits - 1)) % 2^bits) - 2^(bits - 1)

fromInt128(type, n) ==
  [type |-> type,
   num  |-> IF type \in Unsigned THEN AsUnsigned(n, Width[type]) ELSE AsSigned(n, Width[type])]

(* What Value() and a function without a result make.                      *)
NewValue == [type |-> "i32", num |-> 0]
VoidValue == [type |-> "void", num |-> 0]

(* Integer division of C++, towards zero.                                  *)
Magnitude(n) == IF n < 0 THEN -n ELSE n

Quotient(x, y) ==
  LET q == Magnitude(x) \div Magnitude(y) IN IF (x < 0) = (y < 0) THEN q ELSE -q
=============================================================================
