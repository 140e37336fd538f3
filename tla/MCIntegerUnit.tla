--------------------------- MODULE MCIntegerUnit ----------------------------
(* Operands for TLC.  Int128 has 16 bits, i64 and u64 have 8, i32 and u32  *)
(* have 4: every pair of numbers of i32 and u32, and the numbers around    *)
(* the limits of the longer types.                                         *)
EXTENDS IntegerUnit

MCWidth ==
  [t \in {"i32", "u32", "i64", "i128", "u128", "ptr"} |->
     CASE t \in {"i32", "u32"} -> 4 [] t \in {"i64", "ptr"} -> 8 [] OTHER -> 16]

Around == [t \in DOMAIN MCWidth |->
  LET top == 2^(MCWidth[t] - 1)
  IN  CASE t = "i32" -> -8 .. 15
        [] t = "u32" -> {-8, -3, -1, 0, 3, 8, 15}
        [] t = "i64" -> {-top, -top + 1, -3, -1, 0, 1, 2, 3, 7, 10, 90, top - 1, top, 2 * top - 1}
        [] t = "ptr" -> {0, 1, 2, 7, 100, top, 2 * top - 3, 2 * top - 1}
        [] OTHER     -> {-top, -1, 0, 1, 2, 3, 16, 1443, top - 1}]

(* A size_t has eight bits: 256 and 259 are cut to 0 and 3.  TLC computes  *)
(* on 32 bits: no product of two 16-bit words.                             *)
Cut == {256, 259}
Shifts == [t \in DOMAIN MCWidth |-> Cut \cup IF MCWidth[t] = 16 THEN {-1, 0, 2, 8, 14} ELSE -1 .. MCWidth[t]]
Amounts == [t \in DOMAIN MCWidth |-> Shifts[t] \cup Around[t]]

Limbs == {<<n, m, 0>> : n \in {-8, -1, 0, 7}, m \in {-1, 0, 1, 8}}
LastLimbs == {<<-1, -1, 0>>, <<0, 1, 0>>, <<3, 7, 0>>}

MCOperands(o, t) ==
  CASE o = "getelementptr" -> IF t = "ptr" THEN {<<<<p, -1, 8, k>>>> : p \in Around[t], k \in {-1, 0, 4}} ELSE {}
    [] o = "ptrdiff" -> {<<<<p, q, 0>>>> : p \in Around["ptr"], q \in Around["ptr"]}
    [] o \in PointerOps -> IF t = "ptr" THEN {<<<<p, k, 0>>>> : p \in Around[t], k \in {-8, -1, 0, 1, 3, 8, 64, 256, 264}}
                           ELSE {}
    [] t = "ptr" -> {}
    [] o = "bfinsert" -> {<<<<n, m, k, l>>>> : n \in {-8, 5}, m \in {-1, 6, 9}, k \in Shifts[t] \cup {255}, l \in {-1, 0, 1, 3, MCWidth[t]} \cup Cut}
    [] o \in BitFields -> {<<<<n, k, l>>>> : n \in {-8, -1, 0, 5}, k \in Shifts[t] \cup {255}, l \in (-1 .. MCWidth[t]) \cup Cut}
    [] o \in FieldOps -> {<<<<n, m, k>>>> : n \in {-8, -1, 6}, m \in {-2, 0, 5}, k \in Shifts[t]}
    [] o \in {"addc", "subb"} -> IF t = "u32" THEN {<<p, q, r>> : p \in Limbs, q \in Limbs, r \in LastLimbs}
                                 ELSE {<<<<n, m, 0>>>> : n \in Around[t], m \in Around[t]}
    [] o \in TernaryOps -> IF MCWidth[t] > 4 THEN {}
                           ELSE {<<<<n, m, k>>>> : n \in {-8, -1, 0, 3, 7, 15}, m \in {-8, 0, 3, 9}, k \in {-1, 0, 7, 15}}
    [] o = "powi" -> {<<<<n, m, 0>>>> : n \in Around[t], m \in -1 .. 9}
    [] o = "lcm" /\ MCWidth[t] > 8 -> {}
    [] o \in {"lowmask", "himask"} -> {<<<<n, 0, 0>>>> : n \in Amounts[t]}
    [] o \in {"rotl", "rotr", "bitset", "bitclear", "bittest", "sextbit", "zextbit", "sar"} ->
         {<<<<n, m, 0>>>> : n \in Around[t], m \in Amounts[t]}
    [] o \in BitUnaryOps \cup IntUnaryOps \cup {"nego", "neg", "abs", "not", "sext", "zext"} ->
         {<<<<n, 0, 0>>>> : n \in Around[t]}
    [] OTHER -> {<<<<n, m, 0>>>> : n \in Around[t], m \in Around[t]}
=============================================================================
