---------------------------- MODULE MCVectorUnit ----------------------------
(* Registers and codes for TLC.  A v128 has 16 bits, that is four lanes of *)
(* i32, two of i64 and one of i128, as many as the real one; a mask word   *)
(* has the eight bits of an i64, one for each lane of a v256 of u32.  The  *)
(* memory has 20 bytes: a v128 has eight, a v256 sixteen.                  *)
EXTENDS VectorUnit

MCVectorWidth == [w \in {"v128", "v256", "v512"} |-> CASE w = "v128" -> 16 [] w = "v256" -> 32 [] w = "v512" -> 64]
MCVectorMemory == 20

Vec(l, x) == [i \in Lanes(l) |-> IF i < Len(x) THEN Number(l, x[i + 1]) ELSE 0]

(* Some 0 lanes for a mask or a load to find. *)
MCVectorBytes == [b \in 0 .. MCVectorMemory - 1 |-> ((b * b) \div 3) % 4]

Vecs(l, xs) == [k \in DOMAIN xs |-> Vec(l, xs[k])]
None == <<>>

V(k) == [j \in 1 .. k |-> v(j)]
-----------------------------------------------------------------------------
(* One lanewise instruction: every number of four bits with every other,   *)
(* and longer ones around the limits; the third operand is always the same.*)
Arity(o) == IF o \in LaneUnaryOps THEN 1 ELSE IF o \in LaneTernaryOps THEN 3 ELSE 2
Third == <<-3, 5, 2, -8>>
Limits(l) == LET top == 2^(bitWidth(l) - 1) IN {-top, -top + 1, -1, 0, 1, 3, 90, top - 1}

LanewiseCodes == {<<"v128", l, Ins(o, V(Arity(o)), 4)>> : l \in {"i32", "u32", "i64", "i128"}, o \in LanewiseOps \ {"vternlog"}}

Seconds(o, l) ==
  IF Arity(o) = 1 THEN {None}
  ELSE IF bitWidth(l) = 4 THEN {<<y, y, y, y>> : y \in -8 .. 7} \cup {<<1, 2, 3, 0>>}
  ELSE {<<y, 3>> : y \in IF o \in ShiftOps THEN {-1, 0, 3, 7, 8, 14, 16, 256, 259} ELSE Limits(l)}

LanewiseBanks(o, l) ==
  {<<Vecs(l, <<x, y, Third, None>>), <<>>>> :
     x \in IF bitWidth(l) = 4 THEN {<<x0, x0 + 1, x0 + 2, x0 + 3>> : x0 \in {-8, -4, 0, 4}} ELSE {<<x0, -5>> : x0 \in Limits(l)},
     y \in Seconds(o, l)}
-----------------------------------------------------------------------------
(* One masked instruction, or one on masks, with and without bits above the*)
(* lanes of the mask.  The i32 that counts lanes holds numbers up to 7.    *)
Words4 == {h + m : h \in {0, -16, 80}, m \in 0 .. 15}
Words8 == {-128, -86, -1, 0, 1, 85, 127}

MaskArity(o) == IF MaskedOps[o] \in LaneUnaryOps THEN 1 ELSE IF MaskedOps[o] = "vmla" THEN 3 ELSE 2

MaskedCodes ==
  {<<"v128", l, Ins(o, <<num(1)>> \o V(MaskArity(o)), 4)>> : l \in {"i32", "u32"}, o \in DOMAIN MaskedOps}
    \cup {<<"v128", "i32", Ins(o, <<num(1)>> \o V(3), 4)>> : o \in {"vaddk", "vminz"}}

MaskedBanks(l) ==
  {<<Vecs(l, <<<<4, -8, 7, 0>>, <<3, 0, -1, 2>>, Third, None>>), <<m>>>> : m \in Words4}

KCodes ==
  {<<w[1], w[2], Ins(o, <<num(1), num(2)>>, 3)>> : w \in {<<"v128", "i32">>, <<"v256", "u32">>}, o \in KMaskOps}
    \cup {<<w[1], w[2], Ins(o, <<num(1), num(2)>>, 3)>> : w \in {<<"v128", "i32">>, <<"v256", "i64">>}, o \in KNumberOps}

KBanks(l) ==
  {<<<<>>, <<m, k, 0>>>> : m \in IF l = "i32" THEN Words4 ELSE Words8,
                         k \in {-16, 10, 256, 257} \cup IF l = "i32" THEN -1 .. 5 ELSE Words8 \cup {2, 8}}

TestCodes ==
  {<<w[1], w[2], Ins(o, V(1), 3)>> : w \in {<<"v128", "i32">>, <<"v128", "u32">>, <<"v256", "i64">>}, o \in TestOps}
    \cup {<<w[1], w[2], Ins("kcvtmask", V(1), 3)>> : w \in {<<"v128", "i32">>, <<"v256", "u32">>}}

TestBanks(l) ==
  {<<Vecs(l, <<x>>), <<0, 0, 0>>>> :
     x \in {None, <<1, 2, 3, 4, 5, 6, 7, 8>>, <<-1, 0, -8, 7>>, <<0, 0, 0, 1>>, <<-1, -2, -3, -4, -5, -6, -7, -8>>}}
-----------------------------------------------------------------------------
(* One access, near both ends of the memory. *)
Operand(o) ==
  <<num(1)>> \o (IF o \in WordMasked THEN <<num(2)>> ELSE <<>>) \o (IF o \in Indexed \cup LaneMasked THEN V(1) ELSE <<>>)
    \o (IF o \in StoreOps THEN <<v(2)>> ELSE <<>>)

AccessCodes == {<<"v128", l, Ins(o, Operand(o), 3)>> : l \in {"i32", "i64"}, o \in LoadOps \cup StoreOps}

AccessBanks(o, l) ==
  {<<Vecs(l, <<x, <<-3, 5, 2, -8>>, None>>), <<a, m>>>> :
     a \in {0, 1, 4, 10, 12, 13, 16, 18, 19, 20, 247, 255},
     m \in IF o \in WordMasked THEN 0 .. 15 \cup {-6} ELSE {0},
     x \in IF o \in Indexed \cup LaneMasked
           THEN {<<0, 1, 2, 3>>, <<3, -1, 3, 0>>, <<-2, -3, -2, 0>>, <<6, 7, 5, -1>>, <<1, 1, 1, 1>>} ELSE {None}}
-----------------------------------------------------------------------------
(* Several instructions.  Of a width and a lane type: masks, counts of     *)
(* lanes, and a permutation and its inverse.                               *)
Shape(w, l) ==
  CASE w = "v128" -> [masks |-> {0, 5, 11, -1}, counts |-> 0 .. 4, there |-> <<3, 0, 2, 1>>, back |-> <<1, 3, 2, 0>>]
    [] l = "u32" -> [masks |-> {0, -86, 23, -1}, counts |-> {0, 3, 8}, there |-> <<7, 2, 0, 5, 6, 1, 3, 4>>,
                     back |-> <<2, 5, 1, 6, 7, 3, 4, 0>>]
    [] l = "i64" -> [masks |-> {9, 6}, counts |-> {1}, there |-> <<1, 2, 3, 0>>, back |-> <<3, 0, 1, 2>>]

ManyCodes ==
  {<<w[1], w[2], c>> : w \in {<<"v128", "i32">>, <<"v128", "u32">>, <<"v256", "u32">>, <<"v256", "i64">>},
                     c \in RoundTrips \cup TwoWays}

(* 256 and 257 are cut to 0 and 1, and 64 times the four lanes of a group  *)
(* is cut to 0.                                                            *)
Indices(code_) ==
  IF \E k \in DOMAIN code_ : index \in Range(code_[k].in) THEN {-1, 0, 1, 3, 4, 8, 64, 256, 257} ELSE {0}

ManyBanks(w, l, code_) ==
  {<<Vecs(l, <<x[1], x[2], Shape(w, l).there, Shape(w, l).back, None, None, <<0, 1, 2, 3, 3, 1, 2, 0>>>>),
     <<2, m, k, vectorLaneCount(w, l) - k, -28, -28, at>>>> :
     m \in Shape(w, l).masks, k \in Shape(w, l).counts, at \in Indices(code_),
     x \in {<<<<-8, 0, 7, 1, -3, 2, 5, -1>>, <<3, -8, 7, 0, 1, 1, -6, 4>>>>,
            <<<<0, 0, 5, -7, 7, 7, 1, 0>>, <<0, 1, -1, 2, 0, -8, 3, 0>>>>}}

ConflictCodes == {<<"v128", "i32", Conflicting>>, <<"v256", "i64", Conflicting>>}
ConflictBanks(l) ==
  {<<Vecs(l, <<<<5, -8, 2, 7>>, x, None, None, None, None>>), <<4>>>> : x \in [1 .. 4 -> -1 .. 2]}
-----------------------------------------------------------------------------
MCVectorCodes ==
  LanewiseCodes \cup MaskedCodes \cup KCodes \cup TestCodes \cup AccessCodes \cup ManyCodes \cup ConflictCodes

MCVectorBanks(c) ==
  LET o == c[3][1].op
  IN  CASE c \in ConflictCodes -> ConflictBanks(c[2])
        [] Len(c[3]) > 1 -> ManyBanks(c[1], c[2], c[3])
        [] o \in LanewiseOps -> LanewiseBanks(o, c[2])
        [] o \in DOMAIN MaskedOps -> MaskedBanks(c[2])
        [] o \in KMaskOps \cup KNumberOps -> KBanks(c[2])
        [] o \in LoadOps \cup StoreOps -> AccessBanks(o, c[2])
        [] OTHER -> TestBanks(c[2])
-----------------------------------------------------------------------------
ASSUME VectorsFitAssumption == VectorsFit /\ SumsFit /\ MasksFit
=============================================================================
