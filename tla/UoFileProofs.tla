---------------------------- MODULE UoFileProofs ----------------------------
(***************************************************************************)
(* For every program whose counts fit the fields they are written to: its  *)
(* file reads back as the program, and no part of the file reads at all.   *)
(***************************************************************************)
EXTENDS UoFile, BasicLemmas

(* A file holds the bytes from pos on, as far as it goes.                  *)
Agrees(f, pos, bytes) ==
  \A i \in 1 .. Len(bytes) : pos + i - 1 <= Len(f) => f[pos + i - 1] = bytes[i]

(* What a reader does that has a value if the file goes on up to end.      *)
Upto(f, end, value) == IF end <= Len(f) + 1 THEN Read(value, end) ELSE Failure

LEMMA Outcomes ==
  /\ \A v, p : Read(v, p).ok /\ Read(v, p).value = v /\ Read(v, p).pos = p
  /\ ~ Failure.ok
BY DEF Read, Failure

(* Two texts, one after the other.                                         *)
LEMMA Parts ==
  ASSUME NEW f \in Seq(Byte), NEW pos \in Places(f), NEW s \in Seq(Byte), NEW t \in Seq(Byte),
         Agrees(f, pos, s \o t)
  PROVE  /\ Agrees(f, pos, s)
         /\ pos + Len(s) <= Len(f) + 1 => pos + Len(s) \in Places(f) /\ Agrees(f, pos + Len(s), t)
<1>1. PICK l \in Nat, m \in Nat, n \in Nat : l = Len(f) /\ m = Len(s) /\ n = Len(t)
  OBVIOUS
<1>2. /\ Len(s \o t) = m + n
      /\ \A i \in 1 .. m + n : (s \o t)[i] = IF i <= m THEN s[i] ELSE t[i - m]
  BY <1>1, ConcatProperties
<1>3. pos \in Int /\ 1 <= pos /\ pos <= l + 1
  BY <1>1 DEF Places
<1>4. \A i \in 1 .. m + n : pos + i - 1 <= l => f[pos + i - 1] = (s \o t)[i]
  BY <1>1, <1>2 DEF Agrees
<1>5. ASSUME NEW i \in 1 .. m, pos + i - 1 <= l PROVE f[pos + i - 1] = s[i]
  <2>1. i \in 1 .. m + n /\ i <= m
    OBVIOUS
  <2> QED BY <1>2, <1>4, <1>5, <2>1
<1>6. ASSUME NEW i \in 1 .. n, (pos + m) + i - 1 <= l PROVE f[(pos + m) + i - 1] = t[i]
  <2>1. m + i \in 1 .. m + n /\ ~ (m + i <= m) /\ (m + i) - m = i /\ (pos + m) + i - 1 = pos + (m + i) - 1
    BY <1>3
  <2> QED BY <1>2, <1>4, <1>6, <2>1
<1>7. pos + m <= l + 1 => pos + m \in 1 .. l + 1
  BY <1>3
<1> QED BY <1>1, <1>5, <1>6, <1>7 DEF Agrees, Places

LEMMA BytesRead ==
  ASSUME NEW f \in Seq(Byte), NEW pos \in Places(f), NEW s \in Seq(Byte), Agrees(f, pos, s)
  PROVE  need(f, pos, Len(s)) = Upto(f, pos + Len(s), s)
<1>1. PICK l \in Nat, n \in Nat : l = Len(f) /\ n = Len(s)
  OBVIOUS
<1>2. pos \in Int /\ 1 <= pos /\ pos <= l + 1
  BY <1>1 DEF Places
<1>3. CASE pos + n <= l + 1
  <2>1. \A i \in pos .. pos + n - 1 : f[i] \in Byte
    BY <1>1, <1>2, <1>3
  <2>2. /\ SubSeq(f, pos, pos + n - 1) \in Seq(Byte) /\ Len(SubSeq(f, pos, pos + n - 1)) = n
        /\ \A i \in 1 .. n : SubSeq(f, pos, pos + n - 1)[i] = f[pos + i - 1]
    BY <1>1, <1>2, <1>3, <2>1, SubSeqProperties
  <2>3. \A i \in 1 .. n : f[pos + i - 1] = s[i]
    <3>1. ASSUME NEW i \in 1 .. n PROVE pos + i - 1 <= l
      BY <1>2, <1>3
    <3> QED BY <1>1, <3>1 DEF Agrees
  <2>4. SubSeq(f, pos, pos + n - 1) = s
    BY <1>1, <2>2, <2>3, SeqEqual
  <2>5. PICK e \in Int : e = pos + n - 1 /\ ~ (e > l) /\ e <= l
    BY <1>2, <1>3
  <2>6. need(f, pos, n) = Read(s, pos + n)
    BY <1>1, <2>4, <2>5 DEF need
  <2>7. Upto(f, pos + Len(s), s) = Read(s, pos + n)
    BY <1>1, <1>3 DEF Upto
  <2> QED BY <1>1, <2>6, <2>7
<1>4. CASE ~ (pos + n <= l + 1)
  <2>1. pos + n - 1 > l
    BY <1>2, <1>4
  <2> QED BY <1>1, <1>4, <2>1 DEF need, Upto
<1> QED BY <1>3, <1>4

(* A byte, a number, a text.                                               *)
LEMMA ByteReads ==
  ASSUME NEW v \in Byte
  PROVE  /\ u8(v) \in Seq(Byte) /\ Len(u8(v)) = 1
         /\ \A f \in Seq(Byte) : \A pos \in Places(f) :
              Agrees(f, pos, u8(v)) => readU8(f, pos) = Upto(f, pos + Len(u8(v)), v)
<1>1. u8(v) = <<v>>
  BY DEF u8, Byte
<1>2. u8(v) \in Seq(Byte) /\ Len(u8(v)) = 1 /\ u8(v)[1] = v
  BY <1>1
<1>3. ASSUME NEW f \in Seq(Byte), NEW pos \in Places(f), Agrees(f, pos, u8(v))
      PROVE  readU8(f, pos) = Upto(f, pos + Len(u8(v)), v)
  <2>1. need(f, pos, 1) = Upto(f, pos + Len(u8(v)), u8(v))
    BY <1>2, <1>3, BytesRead
  <2> QED BY <1>2, <2>1, Outcomes DEF readU8, Upto, Then
<1> QED BY <1>2, <1>3

LEMMA LimitIsNumber == Limit \in Nat \ {0} /\ Limit <= 65536
BY DEF Limit

LEMMA NumberReads ==
  ASSUME NEW v \in 0 .. Limit - 1
  PROVE  /\ u32(v) \in Seq(Byte) /\ Len(u32(v)) = 4
         /\ \A f \in Seq(Byte) : \A pos \in Places(f) :
              Agrees(f, pos, u32(v)) => readU32(f, pos) = Upto(f, pos + Len(u32(v)), v)
<1>1. PICK lo \in Byte, hi \in Byte : lo = v % 256 /\ hi = v \div 256 /\ v = lo + 256 * hi
  <2>1. v \in Nat /\ v < 65536
    BY LimitIsNumber
  <2>2. v % 256 \in 0 .. 255 /\ v \div 256 \in Nat /\ v = (v % 256) + 256 * (v \div 256)
    BY <2>1
  <2>3. v \div 256 \in 0 .. 255
    BY <2>1, <2>2
  <2>4. v % 256 \in Byte /\ v \div 256 \in Byte
    BY <2>2, <2>3 DEF Byte
  <2> QED BY <2>2, <2>4, Zenon
<1>2. u32(v) = <<lo, hi, 0, 0>> /\ 0 \in Byte
  BY <1>1 DEF u32, Byte
<1>3. /\ u32(v) \in Seq(Byte) /\ Len(u32(v)) = 4
      /\ u32(v)[1] = lo /\ u32(v)[2] = hi /\ u32(v)[3] = 0 /\ u32(v)[4] = 0
  BY <1>2
<1>4. ASSUME NEW f \in Seq(Byte), NEW pos \in Places(f), Agrees(f, pos, u32(v))
      PROVE  readU32(f, pos) = Upto(f, pos + Len(u32(v)), v)
  <2>1. need(f, pos, 4) = Upto(f, pos + Len(u32(v)), u32(v))
    BY <1>3, <1>4, BytesRead
  <2>2. ~ (0 + 0 > 0)
    OBVIOUS
  <2> QED BY <1>1, <1>3, <2>1, <2>2, Outcomes DEF readU32, Upto, Then
<1> QED BY <1>3, <1>4

LEMMA TextReads ==
  ASSUME NEW s \in Text
  PROVE  /\ str(s) \in Seq(Byte) /\ Len(str(s)) \in Nat /\ Len(str(s)) >= 4
         /\ \A f \in Seq(Byte) : \A pos \in Places(f) :
              Agrees(f, pos, str(s)) => readStr(f, pos) = Upto(f, pos + Len(str(s)), s)
<1>1. PICK n \in 0 .. Limit - 1 : n = Len(s) /\ s \in Seq(Byte)
  <2>1. s \in Seq(Byte) /\ Len(s) < Limit
    BY DEF Text, Fewer
  <2>2. PICK n \in Nat : n = Len(s)
    BY <2>1, LenProperties
  <2>3. n < Limit
    BY <2>1, <2>2
  <2>4. n \in 0 .. Limit - 1
    BY <2>3, LimitIsNumber
  <2> QED BY <2>1, <2>2, <2>4
<1>2. n \in Nat /\ u32(n) \in Seq(Byte) /\ Len(u32(n)) = 4
  <2>1. n \in Nat
    BY LimitIsNumber
  <2> QED BY <2>1, NumberReads
<1>3. str(s) \in Seq(Byte) /\ Len(str(s)) = 4 + n
  <2>1. u32(n) \o s \in Seq(Byte) /\ Len(u32(n) \o s) = Len(u32(n)) + Len(s)
    BY <1>1, <1>2, ConcatProperties
  <2> QED BY <1>1, <1>2, <2>1 DEF str
<1>4. ASSUME NEW f \in Seq(Byte), NEW pos \in Places(f), Agrees(f, pos, str(s))
      PROVE  readStr(f, pos) = Upto(f, pos + (4 + n), s)
  <2>1. PICK l \in Nat : l = Len(f)
    OBVIOUS
  <2>2. PICK p \in Int, q \in Int : p = pos + 4 /\ q = p + n /\ q = pos + (4 + n) /\ p <= q
    BY <1>2 DEF Places
  <2>3. Agrees(f, pos, u32(n)) /\ (p <= l + 1 => p \in Places(f) /\ Agrees(f, p, s))
    BY <1>1, <1>2, <1>4, <2>1, <2>2, Parts DEF str
  <2>4. readU32(f, pos) = Upto(f, p, n)
    BY <1>2, <2>2, <2>3, NumberReads
  <2>5. p <= l + 1 => need(f, p, n) = Upto(f, q, s)
    BY <1>1, <2>1, <2>2, <2>3, BytesRead
  <2> QED BY <2>1, <2>2, <2>4, <2>5, Outcomes DEF readStr, Upto, Then
<1> QED BY <1>2, <1>3, <1>4
-----------------------------------------------------------------------------
(* One text after the other.                                               *)

AreTexts(codes, n) ==
  /\ Len(codes) = n
  /\ n = 0 => codes = <<>>
  /\ \A k \in 1 .. n : codes[k] \in Seq(Byte) /\ Len(codes[k]) >= 1

Joined(cat, codes, n) ==
  /\ cat \in [0 .. n -> Seq(Byte)]
  /\ cat[0] = <<>>
  /\ \A k \in 1 .. n : cat[k] = cat[k - 1] \o codes[k]
  /\ cat[n] = FlattenSeq(codes)

LEMMA FlatteningJoins ==
  ASSUME NEW codes, NEW n \in Nat, AreTexts(codes, n)
  PROVE  \E cat : Joined(cat, codes, n)
<1>0. \A k \in 1 .. n : codes[k] \in Seq(Byte)
  BY DEF AreTexts
<1>1. CASE n = 0
  <2>1. FlattenSeq(codes) = codes /\ codes = <<>>
    BY <1>1 DEF FlattenSeq, AreTexts
  <2> DEFINE cat == [k \in 0 .. 0 |-> <<>>]
  <2>2. cat[0] = <<>> /\ cat \in [0 .. 0 -> Seq(Byte)]
    OBVIOUS
  <2> HIDE DEF cat
  <2> QED BY <1>1, <2>1, <2>2 DEF Joined
<1>2. CASE n # 0
  <2>1. PICK g : IsFlattening(codes, n, g) /\ FlattenSeq(codes) = g[n]
    <3>1. Len(codes) = n /\ n \in Nat \ {0}
      BY <1>2 DEF AreTexts
    <3> QED BY <3>1, FlattenSeqIsFlattening
  <2>2. \A k \in 1 .. n : g[k] = IF k = 1 THEN codes[k] ELSE g[k - 1] \o codes[k]
    BY <2>1 DEF IsFlattening
  <2> DEFINE Right == {k \in 1 .. n : g[k] \in Seq(Byte)}
  <2>3. 1 \in Right
    BY <1>0, <1>2, <2>2
  <2>4. ASSUME NEW k \in 1 .. n - 1, k \in Right PROVE k + 1 \in Right
    <3>1. k + 1 \in 1 .. n /\ k + 1 # 1 /\ (k + 1) - 1 = k
      OBVIOUS
    <3>2. g[k + 1] = g[k] \o codes[k + 1]
      BY <2>2, <3>1
    <3>3. g[k] \in Seq(Byte) /\ codes[k + 1] \in Seq(Byte)
      BY <1>0, <2>4, <3>1
    <3>4. g[k + 1] \in Seq(Byte)
      BY <3>2, <3>3, ConcatProperties
    <3> QED BY <3>1, <3>4
  <2> HIDE DEF Right
  <2>5. 1 .. n \subseteq Right
    BY <2>3, <2>4, IntervalInduction
  <2> DEFINE cat == [k \in 0 .. n |-> IF k = 0 THEN <<>> ELSE g[k]]
  <2>6. /\ cat[0] = <<>> /\ \A k \in 1 .. n : cat[k] = g[k] /\ cat[k] \in Seq(Byte)
        /\ cat \in [0 .. n -> Seq(Byte)]
    <3>1. \A k \in 0 .. n : k # 0 => k \in 1 .. n
      OBVIOUS
    <3>2. \A k \in 1 .. n : g[k] \in Seq(Byte)
      BY <2>5 DEF Right
    <3> QED BY <3>1, <3>2
  <2> HIDE DEF cat
  <2>7. ASSUME NEW k \in 1 .. n PROVE cat[k] = cat[k - 1] \o codes[k]
    <3>1. CASE k = 1
      <4>1. cat[1] = codes[1] /\ k - 1 = 0
        BY <2>2, <2>6, <3>1
      <4>2. <<>> \o codes[1] = codes[1]
        BY <1>0, <3>1, ConcatEmptySeq
      <4> QED BY <2>6, <3>1, <4>1, <4>2
    <3>2. CASE k # 1
      <4>1. k - 1 \in 1 .. n
        BY <3>2
      <4> QED BY <2>2, <2>6, <3>2, <4>1
    <3> QED BY <3>1, <3>2
  <2>8. n \in 1 .. n
    BY <1>2
  <2> QED BY <2>1, <2>6, <2>7, <2>8 DEF Joined
<1> QED BY <1>1, <1>2

(* A file that agrees with all of them agrees with each, after those before*)
(* it; and each of them takes a byte or more.                              *)
LEMMA JoinedAgrees ==
  ASSUME NEW codes, NEW n \in Nat, AreTexts(codes, n), NEW cat, Joined(cat, codes, n),
         NEW f \in Seq(Byte), NEW pos \in Places(f), Agrees(f, pos, FlattenSeq(codes))
  PROVE  /\ \A k \in 0 .. n : Len(cat[k]) \in Nat /\ Len(cat[k]) >= k
         /\ \A k \in 1 .. n :
              /\ Len(cat[k]) = Len(cat[k - 1]) + Len(codes[k])
              /\ pos + Len(cat[k - 1]) <= Len(f) + 1 =>
                   /\ pos + Len(cat[k - 1]) \in Places(f)
                   /\ Agrees(f, pos + Len(cat[k - 1]), codes[k])
<1>1. \A k \in 1 .. n : k - 1 \in 0 .. n /\ k \in 0 .. n
  OBVIOUS
<1>2. /\ \A k \in 0 .. n : cat[k] \in Seq(Byte)
      /\ \A k \in 1 .. n : codes[k] \in Seq(Byte) /\ Len(codes[k]) >= 1 /\ cat[k - 1] \in Seq(Byte)
      /\ \A k \in 1 .. n : cat[k] = cat[k - 1] \o codes[k]
  BY <1>1 DEF Joined, AreTexts
<1>3. ASSUME NEW k \in 1 .. n
      PROVE  Len(cat[k]) = Len(cat[k - 1]) + Len(codes[k])
  <2>1. cat[k - 1] \in Seq(Byte) /\ codes[k] \in Seq(Byte) /\ cat[k] = cat[k - 1] \o codes[k]
    BY <1>2
  <2> QED BY <2>1, ConcatProperties
<1>4. \A k \in 0 .. n : Len(cat[k]) \in Nat
  BY <1>2, LenProperties
<1>5. \A k \in 0 .. n : Len(cat[k]) >= k
  <2> DEFINE Long == {k \in 0 .. n : Len(cat[k]) >= k}
  <2>1. 0 \in Long
    BY DEF Joined
  <2>2. ASSUME NEW k \in 0 .. n - 1, k \in Long PROVE k + 1 \in Long
    <3>1. k + 1 \in 1 .. n /\ k + 1 \in 0 .. n /\ (k + 1) - 1 = k
      OBVIOUS
    <3>2. PICK c \in Nat, d \in Nat : c = Len(cat[k]) /\ d = Len(codes[k + 1]) /\ d >= 1 /\ c >= k
      BY <1>2, <1>4, <2>2, <3>1, LenProperties
    <3>3. PICK e \in Nat : e = Len(cat[k + 1]) /\ e = c + d
      BY <1>3, <1>4, <3>1, <3>2
    <3>4. c >= k /\ d >= 1 /\ e = c + d
      BY <3>2, <3>3
    <3>5. k + 1 <= e
      BY <3>4
    <3> QED BY <3>1, <3>3, <3>5
  <2> HIDE DEF Long
  <2>3. 0 .. n \subseteq Long
    BY <2>1, <2>2, IntervalInduction
  <2> QED BY <2>3 DEF Long
<1>6. \A k \in 0 .. n : Agrees(f, pos, cat[k])
  <2> DEFINE Agreeing == {j \in 0 .. n : Agrees(f, pos, cat[n - j])}
  <2>1. 0 \in Agreeing
    <3>1. n - 0 = n
      OBVIOUS
    <3> QED BY <3>1 DEF Joined
  <2>2. ASSUME NEW j \in 0 .. n - 1, j \in Agreeing PROVE j + 1 \in Agreeing
    <3>1. n - j \in 1 .. n /\ (n - j) - 1 = n - (j + 1) /\ j + 1 \in 0 .. n
      OBVIOUS
    <3>2. Agrees(f, pos, cat[(n - j) - 1] \o codes[n - j])
      BY <1>2, <2>2, <3>1
    <3>3. Agrees(f, pos, cat[(n - j) - 1])
      BY <1>2, <3>1, <3>2, Parts
    <3> QED BY <3>1, <3>3
  <2> HIDE DEF Agreeing
  <2>3. 0 .. n \subseteq Agreeing
    BY <2>1, <2>2, IntervalInduction
  <2>4. ASSUME NEW k \in 0 .. n PROVE Agrees(f, pos, cat[k])
    <3>1. n - k \in 0 .. n /\ n - (n - k) = k
      OBVIOUS
    <3> QED BY <2>3, <3>1 DEF Agreeing
  <2> QED BY <2>4
<1>7. ASSUME NEW k \in 1 .. n, pos + Len(cat[k - 1]) <= Len(f) + 1
      PROVE  pos + Len(cat[k - 1]) \in Places(f) /\ Agrees(f, pos + Len(cat[k - 1]), codes[k])
  <2>1. Agrees(f, pos, cat[k - 1] \o codes[k])
    BY <1>1, <1>2, <1>6
  <2> QED BY <1>2, <1>7, <2>1, Parts
<1> QED BY <1>3, <1>4, <1>5, <1>7
-----------------------------------------------------------------------------
(* What Repeat computes, one item after the other.                         *)

OneMore(r, read) ==
  Then(r, LAMBDA items, p : Then(read[p], LAMBDA item, q : Read(Append(items, item), q)))

IsReading(sofar, m, read, pos) ==
  sofar = [k \in 0 .. m |-> IF k = 0 THEN Read(<<>>, pos) ELSE OneMore(sofar[k - 1], read)]

LEMMA ReadingsAgree ==
  ASSUME NEW m \in Nat, NEW read, NEW pos, NEW g, IsReading(g, m, read, pos),
         NEW h, IsReading(h, m, read, pos)
  PROVE  g[m] = h[m]
<1>1. /\ \A k \in 0 .. m : g[k] = IF k = 0 THEN Read(<<>>, pos) ELSE OneMore(g[k - 1], read)
      /\ \A k \in 0 .. m : h[k] = IF k = 0 THEN Read(<<>>, pos) ELSE OneMore(h[k - 1], read)
  BY DEF IsReading
<1> DEFINE Same == {k \in 0 .. m : g[k] = h[k]}
<1>2. 0 \in Same
  BY <1>1
<1>3. ASSUME NEW k \in 0 .. m - 1, k \in Same PROVE k + 1 \in Same
  <2>1. k + 1 \in 0 .. m /\ k + 1 # 0 /\ (k + 1) - 1 = k
    OBVIOUS
  <2> QED BY <1>1, <1>3, <2>1
<1> HIDE DEF Same
<1>4. 0 .. m \subseteq Same
  BY <1>2, <1>3, IntervalInduction
<1> QED BY <1>4 DEF Same

LEMMA RepeatIsReading ==
  ASSUME NEW f, NEW count \in Nat, NEW read, NEW pos, NEW m \in Nat,
         m = IF count <= Len(f) THEN count ELSE Len(f) + 1,
         NEW g, IsReading(g, m, read, pos)
  PROVE  Repeat(f, count, read, pos) = g[m]
<1> DEFINE sofar == CHOOSE h : h = [k \in 0 .. m |-> IF k = 0 THEN Read(<<>>, pos)
                                     ELSE Then(h[k - 1], LAMBDA items, p :
                                            Then(read[p], LAMBDA item, q : Read(Append(items, item), q)))]
<1>1. Repeat(f, count, read, pos) = sofar[m]
  BY DEF Repeat
<1>2. sofar = CHOOSE h : IsReading(h, m, read, pos)
  BY DEF IsReading, OneMore
<1> HIDE DEF sofar
<1>3. IsReading(sofar, m, read, pos)
  BY <1>2
<1> QED BY <1>1, <1>3, ReadingsAgree

(* Items that are read from their texts are read from one text of them all.*)
LEMMA RepeatReads ==
  ASSUME NEW codes, NEW n \in Nat, AreTexts(codes, n), NEW S, NEW items \in Seq(S), Len(items) = n,
         NEW f \in Seq(Byte), NEW pos \in Places(f), Agrees(f, pos, FlattenSeq(codes)), NEW read,
         \A k \in 1 .. n : \A p \in Places(f) :
           Agrees(f, p, codes[k]) => read[p] = Upto(f, p + Len(codes[k]), items[k])
  PROVE  Repeat(f, n, read, pos) = Upto(f, pos + Len(FlattenSeq(codes)), items)
<1>1. PICK cat : Joined(cat, codes, n)
  BY FlatteningJoins
<1>2. PICK l \in Nat : l = Len(f)
  OBVIOUS
<1>3. pos \in Int /\ 1 <= pos /\ pos <= l + 1
  BY <1>2 DEF Places
<1> DEFINE at == [k \in 0 .. n |-> pos + Len(cat[k])]
<1>4. /\ \A k \in 0 .. n : at[k] \in Int /\ at[k] >= pos + k
      /\ \A k \in 1 .. n : at[k] = at[k - 1] + Len(codes[k])
      /\ \A k \in 1 .. n : at[k - 1] <= at[k]
      /\ \A k \in 1 .. n : at[k - 1] <= l + 1 => at[k - 1] \in Places(f) /\ Agrees(f, at[k - 1], codes[k])
      /\ at[0] = pos /\ at[n] = pos + Len(FlattenSeq(codes))
  <2>1. /\ \A k \in 0 .. n : Len(cat[k]) \in Nat /\ Len(cat[k]) >= k
        /\ \A k \in 1 .. n :
             /\ Len(cat[k]) = Len(cat[k - 1]) + Len(codes[k])
             /\ pos + Len(cat[k - 1]) <= Len(f) + 1 =>
                  /\ pos + Len(cat[k - 1]) \in Places(f)
                  /\ Agrees(f, pos + Len(cat[k - 1]), codes[k])
    BY <1>1, JoinedAgrees
  <2>2. \A k \in 1 .. n : k - 1 \in 0 .. n /\ k \in 0 .. n
    OBVIOUS
  <2>3. \A k \in 1 .. n : Len(codes[k]) \in Nat
    BY LenProperties DEF AreTexts
  <2>4. ASSUME NEW k \in 0 .. n PROVE at[k] \in Int /\ at[k] >= pos + k
    <3>1. PICK c \in Nat : c = Len(cat[k]) /\ c >= k
      BY <2>1
    <3> QED BY <1>3, <3>1
  <2>5. ASSUME NEW k \in 1 .. n PROVE at[k] = at[k - 1] + Len(codes[k]) /\ at[k - 1] <= at[k]
    <3>1. Len(cat[k]) \in Nat /\ Len(cat[k - 1]) \in Nat /\ Len(codes[k]) \in Nat
      BY <2>1, <2>2, <2>3
    <3>2. PICK b \in Nat, c \in Nat, d \in Nat : b = Len(cat[k]) /\ c = Len(cat[k - 1]) /\ d = Len(codes[k])
      BY <3>1
    <3>3. b = c + d
      BY <2>1, <3>2
    <3>4. at[k] = pos + b /\ at[k - 1] = pos + c
      BY <2>2, <3>2
    <3>5. pos + b = (pos + c) + d /\ pos + c <= pos + b
      BY <1>3, <3>3
    <3> QED BY <3>2, <3>4, <3>5
  <2>6. ASSUME NEW k \in 1 .. n, at[k - 1] <= l + 1
        PROVE  at[k - 1] \in Places(f) /\ Agrees(f, at[k - 1], codes[k])
    <3>1. at[k - 1] = pos + Len(cat[k - 1])
      BY <2>2
    <3> QED BY <1>2, <2>1, <2>6, <3>1
  <2>7. at[0] = pos
    <3>1. cat[0] = <<>> /\ Len(<<>>) = 0 /\ 0 \in 0 .. n
      BY <1>1 DEF Joined
    <3> QED BY <1>3, <3>1
  <2>8. at[n] = pos + Len(FlattenSeq(codes))
    <3>1. cat[n] = FlattenSeq(codes) /\ n \in 0 .. n
      BY <1>1 DEF Joined
    <3> QED BY <3>1
  <2> QED BY <2>4, <2>5, <2>6, <2>7, <2>8
<1> HIDE DEF at
<1>5. PICK m \in Nat : m = (IF n <= Len(f) THEN n ELSE Len(f) + 1) /\ m <= n /\ (m = n \/ m = l + 1)
  <2>1. CASE n <= l
    BY <1>2, <2>1
  <2>2. CASE ~ (n <= l)
    <3>1. l + 1 <= n /\ l + 1 \in Nat
      BY <2>2
    <3> QED BY <1>2, <2>2, <3>1
  <2> QED BY <2>1, <2>2
<1> DEFINE g == [k \in 0 .. m |-> Upto(f, at[k], SubSeq(items, 1, k))]
<1>6. IsReading(g, m, read, pos)
  <2>1. g[0] = Read(<<>>, pos)
    <3>1. 0 \in 0 .. m /\ SubSeq(items, 1, 0) = <<>>
      BY SubSeqEmpty
    <3>2. Upto(f, pos, <<>>) = Read(<<>>, pos)
      BY <1>2, <1>3 DEF Upto
    <3> QED BY <1>4, <3>1, <3>2
  <2>2. ASSUME NEW k \in 1 .. m PROVE g[k] = OneMore(g[k - 1], read)
    <3>1. k \in 1 .. n /\ k \in 0 .. m /\ k - 1 \in 0 .. m /\ k \in 0 .. n /\ k - 1 \in 0 .. n
      BY <1>5
    <3>2. /\ g[k] = Upto(f, at[k], SubSeq(items, 1, k))
          /\ g[k - 1] = Upto(f, at[k - 1], SubSeq(items, 1, k - 1))
      BY <3>1
    <3>3. Append(SubSeq(items, 1, k - 1), items[k]) = SubSeq(items, 1, k)
      <4>1. SubSeq(items, 1, k) = SubSeq(items, 1, k - 1) \o <<items[k]>>
        BY <3>1, SubSeqRecursiveSecond
      <4>2. items[k] \in S /\ SubSeq(items, 1, k - 1) \in Seq(S)
        BY <3>1
      <4> QED BY <4>1, <4>2, AppendIsConcat
    <3>4. at[k - 1] <= l + 1 => read[at[k - 1]] = Upto(f, at[k], items[k])
      BY <1>4, <3>1
    <3>5. at[k - 1] <= at[k] /\ at[k] \in Int /\ at[k - 1] \in Int
      BY <1>4, <3>1
    <3> HIDE DEF g
    <3>6. CASE at[k - 1] <= l + 1
      <4>1. g[k - 1] = Read(SubSeq(items, 1, k - 1), at[k - 1])
        BY <1>2, <3>2, <3>6 DEF Upto
      <4>2. OneMore(g[k - 1], read) = Then(read[at[k - 1]], LAMBDA item, q : Read(Append(SubSeq(items, 1, k - 1), item), q))
        BY <4>1, Outcomes DEF OneMore, Then
      <4>3. CASE at[k] <= l + 1
        <5>1. read[at[k - 1]] = Read(items[k], at[k])
          BY <1>2, <3>4, <3>6, <4>3 DEF Upto
        <5>2. OneMore(g[k - 1], read) = Read(SubSeq(items, 1, k), at[k])
          <6>1. read[at[k - 1]].ok /\ read[at[k - 1]].value = items[k] /\ read[at[k - 1]].pos = at[k]
            BY <5>1, Outcomes
          <6>2. OneMore(g[k - 1], read) = Read(Append(SubSeq(items, 1, k - 1), items[k]), at[k])
            BY <4>2, <6>1, Zenon DEF Then
          <6> QED BY <3>3, <6>2, Zenon
        <5> QED BY <1>2, <3>2, <4>3, <5>2 DEF Upto
      <4>4. CASE ~ (at[k] <= l + 1)
        <5>1. read[at[k - 1]] = Failure
          BY <1>2, <3>4, <3>6, <4>4 DEF Upto
        <5> QED BY <1>2, <3>2, <4>2, <4>4, <5>1, Outcomes DEF Then, Upto
      <4> QED BY <4>3, <4>4
    <3>7. CASE ~ (at[k - 1] <= l + 1)
      <4>1. ~ (at[k] <= l + 1)
        BY <3>5, <3>7
      <4> QED BY <1>2, <3>2, <3>7, <4>1, Outcomes DEF OneMore, Then, Upto
    <3> QED BY <3>6, <3>7
  <2>3. \A k \in 0 .. m : k = 0 \/ k \in 1 .. m
    OBVIOUS
  <2>4. g = [k \in 0 .. m |-> g[k]]
    OBVIOUS
  <2> HIDE DEF g
  <2>5. \A k \in 0 .. m : g[k] = IF k = 0 THEN Read(<<>>, pos) ELSE OneMore(g[k - 1], read)
    BY <2>1, <2>2, <2>3
  <2> QED BY <2>4, <2>5 DEF IsReading
<1>7. Repeat(f, n, read, pos) = Upto(f, at[m], SubSeq(items, 1, m))
  <2>1. Repeat(f, n, read, pos) = g[m]
    BY <1>5, <1>6, RepeatIsReading
  <2> QED BY <2>1
<1>8. CASE m = n
  <2>1. SubSeq(items, 1, n) = items
    BY SubSeqFull
  <2> QED BY <1>4, <1>7, <1>8, <2>1
<1>9. CASE m = l + 1
  <2>1. at[m] \in Int /\ at[m] >= pos + m /\ at[n] \in Int /\ at[n] >= pos + n
    BY <1>4, <1>5
  <2>2. ~ (at[m] <= l + 1) /\ ~ (at[n] <= l + 1)
    BY <1>3, <1>5, <1>9, <2>1
  <2> QED BY <1>2, <1>4, <1>7, <2>2 DEF Upto
<1> QED BY <1>5, <1>8, <1>9
-----------------------------------------------------------------------------
(* Programs, from operands up.                                             *)

LEMMA TextsFlatten ==
  ASSUME NEW codes, NEW n \in Nat, AreTexts(codes, n)
  PROVE  FlattenSeq(codes) \in Seq(Byte)
<1>1. PICK cat : Joined(cat, codes, n)
  BY FlatteningJoins
<1>2. n \in 0 .. n
  OBVIOUS
<1> QED BY <1>1, <1>2 DEF Joined

(* The next text, and where it is.                                         *)
Cut(f, pos, s, t, w, p, q) ==
  /\ p \in Int /\ q \in Int /\ p = pos + Len(s) /\ q = pos + Len(w) /\ q = p + Len(t)
  /\ pos <= p /\ p <= q
  /\ Agrees(f, pos, s)
  /\ p <= Len(f) + 1 => p \in Places(f) /\ Agrees(f, p, t)

LEMMA Followed ==
  ASSUME NEW f \in Seq(Byte), NEW pos \in Places(f), NEW s \in Seq(Byte), NEW t \in Seq(Byte),
         NEW w, w = s \o t, Agrees(f, pos, w)
  PROVE  /\ w \in Seq(Byte)
         /\ Agrees(f, pos, s)
         /\ Cut(f, pos, s, t, w, pos + Len(s), pos + Len(w))
<1>1. w \in Seq(Byte) /\ Len(w) = Len(s) + Len(t)
  BY ConcatProperties
<1>2. PICK m \in Nat, n \in Nat : m = Len(s) /\ n = Len(t)
  OBVIOUS
<1>3. pos \in Int
  BY DEF Places
<1>4. pos + (m + n) = (pos + m) + n /\ pos <= pos + m /\ pos + m <= pos + (m + n)
  BY <1>3
<1>5. /\ Agrees(f, pos, s)
      /\ pos + Len(s) <= Len(f) + 1 => pos + Len(s) \in Places(f) /\ Agrees(f, pos + Len(s), t)
  BY Parts
<1>6. pos + m \in Int /\ pos + (m + n) \in Int
  BY <1>3
<1> QED BY <1>1, <1>2, <1>4, <1>5, <1>6 DEF Cut

LEMMA DataReads ==
  ASSUME NEW op \in Operand
  PROVE  /\ op.kind \in Byte /\ ~ (op.kind > SymbolKind)
         /\ op = [kind |-> op.kind, data |-> op.data]
         /\ writeData(op) \in Seq(Byte)
         /\ \A f \in Seq(Byte) : \A pos \in Places(f) :
              Agrees(f, pos, writeData(op)) =>
                readData(f, op.kind, pos) = Upto(f, pos + Len(writeData(op)), op.data)
<1>1. CASE op \in [kind : {SymbolKind}, data : Text]
  <2>1. op.kind = SymbolKind /\ op.data \in Text /\ op = [kind |-> op.kind, data |-> op.data]
    BY <1>1
  <2>2. writeData(op) = str(op.data)
    BY <2>1 DEF writeData
  <2>3. op.kind \in Byte /\ ~ (op.kind > SymbolKind)
    BY <2>1 DEF SymbolKind, Byte
  <2>4. \A f, pos : readData(f, op.kind, pos) = readStr(f, pos)
    BY <2>1 DEF readData, SymbolKind
  <2>5. ASSUME NEW f \in Seq(Byte), NEW pos \in Places(f), Agrees(f, pos, writeData(op))
        PROVE  readData(f, op.kind, pos) = Upto(f, pos + Len(writeData(op)), op.data)
    BY <2>1, <2>2, <2>4, <2>5, TextReads
  <2>6. writeData(op) \in Seq(Byte)
    BY <2>1, <2>2, TextReads
  <2> QED BY <2>1, <2>3, <2>5, <2>6
<1>2. CASE op \in [kind : {0}, data : Bytes(4)] \cup [kind : {1, 2}, data : Bytes(8)]
  <2>1. PICK n \in {4, 8} :
          /\ op.kind \in {0, 1, 2} /\ (op.kind = 0 <=> n = 4) /\ op.data \in Bytes(n)
          /\ op = [kind |-> op.kind, data |-> op.data]
    BY <1>2
  <2>2. op.data \in Seq(Byte) /\ Len(op.data) = n
    BY <2>1 DEF Bytes
  <2>3. writeData(op) = op.data
    BY <2>1 DEF writeData, SymbolKind
  <2>4. op.kind \in Byte /\ ~ (op.kind > SymbolKind)
    BY <2>1 DEF SymbolKind, Byte
  <2>5. \A f, pos : readData(f, op.kind, pos) = need(f, pos, n)
    BY <2>1 DEF readData, SymbolKind
  <2>6. ASSUME NEW f \in Seq(Byte), NEW pos \in Places(f), Agrees(f, pos, writeData(op))
        PROVE  readData(f, op.kind, pos) = Upto(f, pos + Len(writeData(op)), op.data)
    BY <2>2, <2>3, <2>5, <2>6, BytesRead
  <2> QED BY <2>1, <2>2, <2>3, <2>4, <2>6
<1> QED BY <1>1, <1>2 DEF Operand

LEMMA OperandReads ==
  ASSUME NEW op \in Operand
  PROVE  /\ writeOperand(op) \in Seq(Byte) /\ Len(writeOperand(op)) >= 1
         /\ \A f \in Seq(Byte) : \A pos \in Places(f) :
              Agrees(f, pos, writeOperand(op)) =>
                readOperand(f, pos) = Upto(f, pos + Len(writeOperand(op)), op)
<1>1. /\ op.kind \in Byte /\ ~ (op.kind > SymbolKind) /\ op = [kind |-> op.kind, data |-> op.data]
      /\ writeData(op) \in Seq(Byte) /\ writeOperand(op) = u8(op.kind) \o writeData(op)
  BY DataReads DEF writeOperand
<1>2. u8(op.kind) \in Seq(Byte) /\ Len(u8(op.kind)) = 1
  BY <1>1, ByteReads
<1>3. writeOperand(op) \in Seq(Byte) /\ Len(writeOperand(op)) >= 1
  <2>1. PICK n \in Nat : n = Len(writeData(op))
    BY <1>1, LenProperties
  <2>2. writeOperand(op) \in Seq(Byte) /\ Len(writeOperand(op)) = 1 + n
    <3> DEFINE kind == u8(op.kind)
               data == writeData(op)
    <3>1. /\ kind \in Seq(Byte) /\ Len(kind) = 1 /\ data \in Seq(Byte) /\ Len(data) = n
          /\ writeOperand(op) = kind \o data
      BY <1>1, <1>2, <2>1
    <3> HIDE DEF kind, data
    <3>2. kind \o data \in Seq(Byte) /\ Len(kind \o data) = Len(kind) + Len(data)
      BY <3>1, ConcatProperties
    <3> QED BY <3>1, <3>2
  <2>3. 1 + n >= 1
    OBVIOUS
  <2> QED BY <2>2, <2>3
<1>4. ASSUME NEW f \in Seq(Byte), NEW pos \in Places(f), Agrees(f, pos, writeOperand(op))
      PROVE  readOperand(f, pos) = Upto(f, pos + Len(writeOperand(op)), op)
  <2> DEFINE p == pos + Len(u8(op.kind))
             q == pos + Len(writeOperand(op))
  <2>1. Cut(f, pos, u8(op.kind), writeData(op), writeOperand(op), p, q)
    BY <1>1, <1>2, <1>4, Followed
  <2> HIDE DEF p, q
  <2>6. /\ p \in Int /\ q \in Int /\ p = pos + Len(u8(op.kind)) /\ q = pos + Len(writeOperand(op))
        /\ q = p + Len(writeData(op)) /\ p <= q /\ Agrees(f, pos, u8(op.kind))
        /\ p <= Len(f) + 1 => p \in Places(f) /\ Agrees(f, p, writeData(op))
    BY <2>1 DEF Cut
  <2>2. readU8(f, pos) = Upto(f, p, op.kind)
    BY <1>1, <2>6, ByteReads
  <2>3. PICK l \in Nat : l = Len(f)
    OBVIOUS
  <2>4. p <= l + 1 => readData(f, op.kind, p) = Upto(f, q, op.data)
    BY <2>3, <2>6, DataReads
  <2>5. readOperand(f, pos) = Upto(f, q, op)
    <3>1. CASE p <= l + 1
      <4>1. readU8(f, pos) = Read(op.kind, p)
        BY <2>2, <2>3, <3>1 DEF Upto
      <4>2. readOperand(f, pos) = Then(readData(f, op.kind, p), LAMBDA data, z : Read([kind |-> op.kind, data |-> data], z))
        BY <1>1, <4>1, Outcomes DEF readOperand, Then
      <4> QED BY <1>1, <2>3, <2>4, <3>1, <4>2, Outcomes DEF Then, Upto
    <3>2. CASE ~ (p <= l + 1)
      <4>1. readU8(f, pos) = Failure /\ ~ (q <= l + 1)
        BY <2>2, <2>3, <2>6, <3>2 DEF Upto
      <4> QED BY <2>3, <4>1, Outcomes DEF readOperand, Then, Upto
    <3> QED BY <3>1, <3>2
  <2> QED BY <2>5, <2>6
<1> QED BY <1>3, <1>4

(* A text that follows one of a byte or more is one.                       *)
LEMMA Longer ==
  ASSUME NEW s \in Seq(Byte), Len(s) >= 1, NEW t \in Seq(Byte)
  PROVE  s \o t \in Seq(Byte) /\ Len(s \o t) >= 1
<1>1. PICK m \in Nat, n \in Nat : m = Len(s) /\ n = Len(t)
  OBVIOUS
<1>2. s \o t \in Seq(Byte) /\ Len(s \o t) = m + n
  BY <1>1, ConcatProperties
<1>3. m + n >= 1
  BY <1>1
<1> QED BY <1>2, <1>3

(* A reader that reads v up to q, gives up if it cannot, and is then next. *)
Leads(f, r, v, q, this, next) ==
  /\ r = Upto(f, q, v)
  /\ r = Read(v, q) => this = next
  /\ r = Failure => this = Failure

LEMMA Onward ==
  ASSUME NEW f \in Seq(Byte), NEW q \in Int, NEW end \in Int, q <= end,
         NEW r, NEW v, NEW this, NEW next, NEW x, Leads(f, r, v, q, this, next),
         q <= Len(f) + 1 => next = Upto(f, end, x)
  PROVE  this = Upto(f, end, x)
<1>1. PICK l \in Nat : l = Len(f)
  OBVIOUS
<1>2. CASE q <= l + 1
  BY <1>1, <1>2 DEF Upto, Leads
<1>3. CASE ~ (q <= l + 1)
  <2>1. ~ (end <= l + 1)
    BY <1>1, <1>3
  <2> QED BY <1>1, <1>3, <2>1 DEF Upto, Leads
<1> QED BY <1>2, <1>3

(* Items of one kind.                                                      *)
LEMMA ListReads ==
  ASSUME NEW S, NEW items \in Seq(S), NEW codes, Len(codes) = Len(items), items = <<>> => codes = <<>>,
         \A i \in DOMAIN items : codes[i] \in Seq(Byte) /\ Len(codes[i]) >= 1
  PROVE  /\ FlattenSeq(codes) \in Seq(Byte)
         /\ \A f \in Seq(Byte) : \A pos \in Places(f) : \A read :
              /\ Agrees(f, pos, FlattenSeq(codes))
              /\ \A i \in DOMAIN items : \A p \in Places(f) :
                   Agrees(f, p, codes[i]) => read[p] = Upto(f, p + Len(codes[i]), items[i])
              => Repeat(f, Len(items), read, pos) = Upto(f, pos + Len(FlattenSeq(codes)), items)
<1>1. PICK n \in Nat : n = Len(items) /\ DOMAIN items = 1 .. n
  BY LenProperties
<1>2. n = 0 => items = <<>>
  BY <1>1, EmptySeq
<1>3. AreTexts(codes, n)
  BY <1>1, <1>2 DEF AreTexts
<1>4. FlattenSeq(codes) \in Seq(Byte)
  BY <1>3, TextsFlatten
<1>5. ASSUME NEW f \in Seq(Byte), NEW pos \in Places(f), NEW read, Agrees(f, pos, FlattenSeq(codes)),
             \A i \in DOMAIN items : \A p \in Places(f) :
               Agrees(f, p, codes[i]) => read[p] = Upto(f, p + Len(codes[i]), items[i])
      PROVE  Repeat(f, Len(items), read, pos) = Upto(f, pos + Len(FlattenSeq(codes)), items)
  <2>1. \A k \in 1 .. n : \A p \in Places(f) :
          Agrees(f, p, codes[k]) => read[p] = Upto(f, p + Len(codes[k]), items[k])
    BY <1>1, <1>5
  <2>2. Repeat(f, n, read, pos) = Upto(f, pos + Len(FlattenSeq(codes)), items)
    BY <1>1, <1>3, <1>5, <2>1, RepeatReads
  <2> QED BY <1>1, <2>2
<1> QED BY <1>4, <1>5

(* The number of things in a list is one that its field holds.             *)
LEMMA FewerAreCounted ==
  ASSUME NEW S
  PROVE  /\ \A s \in Fewer(256, S) : s \in Seq(S) /\ Len(s) \in Byte
         /\ \A s \in Fewer(Limit, S) : s \in Seq(S) /\ Len(s) \in 0 .. Limit - 1
<1>1. ASSUME NEW s \in Fewer(256, S) PROVE s \in Seq(S) /\ Len(s) \in Byte
  <2>1. s \in Seq(S) /\ Len(s) < 256
    BY DEF Fewer
  <2>2. PICK n \in Nat : n = Len(s)
    BY <2>1, LenProperties
  <2>3. n < 256
    BY <2>1, <2>2
  <2>4. n <= 255
    BY <2>3
  <2>5. 0 .. 255 = Byte
    BY DEF Byte
  <2>6. n \in 0 .. 255
    BY <2>4
  <2> QED BY <2>1, <2>2, <2>5, <2>6
<1>2. ASSUME NEW s \in Fewer(Limit, S) PROVE s \in Seq(S) /\ Len(s) \in 0 .. Limit - 1
  <2>1. s \in Seq(S) /\ Len(s) < Limit
    BY DEF Fewer
  <2>2. PICK n \in Nat : n = Len(s)
    BY <2>1, LenProperties
  <2>3. n < Limit
    BY <2>1, <2>2
  <2>4. n \in 0 .. Limit - 1
    BY <2>3, LimitIsNumber
  <2> QED BY <2>1, <2>2, <2>4
<1> QED BY <1>1, <1>2

LEMMA ByteTextReads ==
  ASSUME NEW v \in Byte
  PROVE  /\ u8(v) \in Seq(Byte) /\ Len(u8(v)) >= 1
         /\ \A f \in Seq(Byte) : \A pos \in Places(f) :
              Agrees(f, pos, u8(v)) => readU8(f, pos) = Upto(f, pos + Len(u8(v)), v)
BY ByteReads

ByteTexts(items) == [i \in DOMAIN items |-> u8(items[i])]

LEMMA ParamsRead ==
  ASSUME NEW items \in Seq(Byte)
  PROVE  /\ FlattenSeq(ByteTexts(items)) \in Seq(Byte)
         /\ \A f \in Seq(Byte) : \A pos \in Places(f) :
              Agrees(f, pos, FlattenSeq(ByteTexts(items))) =>
                Repeat(f, Len(items), [at \in Places(f) |-> readU8(f, at)], pos)
                  = Upto(f, pos + Len(FlattenSeq(ByteTexts(items))), items)
<1> DEFINE codes == ByteTexts(items)
<1>1. \A i \in DOMAIN items : items[i] \in Byte /\ codes[i] = u8(items[i])
  BY DEF ByteTexts
<1>2. Len(codes) = Len(items) /\ (items = <<>> => codes = <<>>)
  <2>1. PICK n \in Nat : n = Len(items) /\ DOMAIN items = 1 .. n
    BY LenProperties
  <2> QED BY <2>1 DEF ByteTexts
<1> HIDE DEF codes
<1>3. \A i \in DOMAIN items : codes[i] \in Seq(Byte) /\ Len(codes[i]) >= 1
  BY <1>1, ByteTextReads
<1>4. ASSUME NEW f \in Seq(Byte), NEW pos \in Places(f), Agrees(f, pos, FlattenSeq(codes))
      PROVE  Repeat(f, Len(items), [at \in Places(f) |-> readU8(f, at)], pos)
               = Upto(f, pos + Len(FlattenSeq(codes)), items)
  <2> DEFINE read == [at \in Places(f) |-> readU8(f, at)]
  <2>1. ASSUME NEW i \in DOMAIN items, NEW p \in Places(f), Agrees(f, p, codes[i])
        PROVE  read[p] = Upto(f, p + Len(codes[i]), items[i])
    <3>1. read[p] = readU8(f, p)
      OBVIOUS
    <3> HIDE DEF read
    <3>2. readU8(f, p) = Upto(f, p + Len(codes[i]), items[i])
      BY <1>1, <2>1, ByteTextReads
    <3> QED BY <3>1, <3>2
  <2> HIDE DEF read
  <2>2. Repeat(f, Len(items), read, pos) = Upto(f, pos + Len(FlattenSeq(codes)), items)
    BY <1>2, <1>3, <1>4, <2>1, ListReads
  <2> QED BY <2>2 DEF read
<1>5. FlattenSeq(codes) \in Seq(Byte)
  BY <1>2, <1>3, ListReads
<1> QED BY <1>4, <1>5 DEF codes

OperandTexts(items) == [i \in DOMAIN items |-> writeOperand(items[i])]

LEMMA OperandsRead ==
  ASSUME NEW items \in Seq(Operand)
  PROVE  /\ FlattenSeq(OperandTexts(items)) \in Seq(Byte)
         /\ \A f \in Seq(Byte) : \A pos \in Places(f) :
              Agrees(f, pos, FlattenSeq(OperandTexts(items))) =>
                Repeat(f, Len(items), [at \in Places(f) |-> readOperand(f, at)], pos)
                  = Upto(f, pos + Len(FlattenSeq(OperandTexts(items))), items)
<1> DEFINE codes == OperandTexts(items)
<1>1. \A i \in DOMAIN items : items[i] \in Operand /\ codes[i] = writeOperand(items[i])
  BY DEF OperandTexts
<1>2. Len(codes) = Len(items) /\ (items = <<>> => codes = <<>>)
  <2>1. PICK n \in Nat : n = Len(items) /\ DOMAIN items = 1 .. n
    BY LenProperties
  <2> QED BY <2>1 DEF OperandTexts
<1> HIDE DEF codes
<1>3. \A i \in DOMAIN items : codes[i] \in Seq(Byte) /\ Len(codes[i]) >= 1
  BY <1>1, OperandReads
<1>4. ASSUME NEW f \in Seq(Byte), NEW pos \in Places(f), Agrees(f, pos, FlattenSeq(codes))
      PROVE  Repeat(f, Len(items), [at \in Places(f) |-> readOperand(f, at)], pos)
               = Upto(f, pos + Len(FlattenSeq(codes)), items)
  <2> DEFINE read == [at \in Places(f) |-> readOperand(f, at)]
  <2>1. ASSUME NEW i \in DOMAIN items, NEW p \in Places(f), Agrees(f, p, codes[i])
        PROVE  read[p] = Upto(f, p + Len(codes[i]), items[i])
    <3>1. read[p] = readOperand(f, p)
      OBVIOUS
    <3> HIDE DEF read
    <3>2. readOperand(f, p) = Upto(f, p + Len(codes[i]), items[i])
      BY <1>1, <2>1, OperandReads
    <3> QED BY <3>1, <3>2
  <2> HIDE DEF read
  <2>2. Repeat(f, Len(items), read, pos) = Upto(f, pos + Len(FlattenSeq(codes)), items)
    BY <1>2, <1>3, <1>4, <2>1, ListReads
  <2> QED BY <2>2 DEF read
<1>5. FlattenSeq(codes) \in Seq(Byte)
  BY <1>2, <1>3, ListReads
<1> QED BY <1>4, <1>5 DEF codes

FromOperands(f, head, count, p) ==
  Then(Repeat(f, count, [at \in Places(f) |-> readOperand(f, at)], p), LAMBDA operands, q : Read([head |-> head, operands |-> operands], q))
FromCount(f, head, p) ==
  Then(readU8(f, p), LAMBDA count, q : FromOperands(f, head, count, q))
FromHead(f, p) ==
  Then(readHead(f, 1, p), LAMBDA head, q : FromCount(f, head, q))

LEMMA InstructionReads ==
  ASSUME NEW instr \in Instruction
  PROVE  /\ writeInstruction(instr) \in Seq(Byte) /\ Len(writeInstruction(instr)) >= 1
         /\ \A f \in Seq(Byte) : \A pos \in Places(f) :
              Agrees(f, pos, writeInstruction(instr)) =>
                readInstruction(f, 1, pos) = Upto(f, pos + Len(writeInstruction(instr)), instr)
<1>1. PICK head, operands :
        /\ instr = [head |-> head, operands |-> operands]
        /\ head \in Fields /\ operands \in Fewer(256, Operand)
  BY DEF Instruction
<1>2. /\ head \in Seq(Byte) /\ Len(head) = 9 /\ head[5] \in {0, 1}
      /\ operands \in Seq(Operand) /\ Len(operands) \in Byte
  BY <1>1, FewerAreCounted DEF Fields, Bytes
<1> DEFINE c1 == head
           c2 == u8(Len(operands))
           c3 == FlattenSeq(OperandTexts(operands))
           w2 == c1 \o c2
           w3 == w2 \o c3
<1>3. writeInstruction(instr) = w3
  BY <1>1 DEF writeInstruction, All, OperandTexts
<1>4. c1 \in Seq(Byte) /\ c2 \in Seq(Byte) /\ c3 \in Seq(Byte) /\ Len(c1) >= 1
  BY <1>2, ByteReads, OperandsRead
<1>5. w2 = c1 \o c2 /\ w3 = w2 \o c3
  OBVIOUS
<1> HIDE DEF w2, w3
<1>6. w2 \in Seq(Byte) /\ w3 \in Seq(Byte) /\ Len(w3) >= 1
  <2> HIDE DEF c1, c2, c3
  <2>2. w2 \in Seq(Byte) /\ Len(w2) >= 1
    BY <1>4, <1>5, Longer
  <2>3. w3 \in Seq(Byte) /\ Len(w3) >= 1
    BY <1>4, <1>5, <2>2, Longer
  <2> QED BY <2>2, <2>3
<1>7. ASSUME NEW f \in Seq(Byte), NEW pos \in Places(f), Agrees(f, pos, w3)
      PROVE  readInstruction(f, 1, pos) = Upto(f, pos + Len(w3), instr)
  <2> DEFINE p1 == pos + Len(c1)
             p2 == pos + Len(w2)
             p3 == pos + Len(w3)
  <2> HIDE DEF c1, c2, c3
  <2>1. Agrees(f, pos, w2) /\ Cut(f, pos, w2, c3, w3, p2, p3)
    BY <1>4, <1>5, <1>6, <1>7, Followed
  <2>2. Agrees(f, pos, c1) /\ Cut(f, pos, c1, c2, w2, p1, p2)
    BY <1>4, <1>5, <1>6, <2>1, Followed
  <2> HIDE DEF p1, p2, p3
  <2>3. /\ p2 \in Int /\ p3 \in Int /\ p2 <= p3 /\ p2 = pos + Len(w2) /\ p3 = p2 + Len(c3)
        /\ p3 = pos + Len(w3) /\ (p2 <= Len(f) + 1 => p2 \in Places(f) /\ Agrees(f, p2, c3))
    BY <2>1 DEF Cut
  <2>4. /\ p1 \in Int /\ p2 \in Int /\ p1 <= p2 /\ p1 = pos + Len(c1) /\ p2 = p1 + Len(c2)
        /\ p2 = pos + Len(w2) /\ (p1 <= Len(f) + 1 => p1 \in Places(f) /\ Agrees(f, p1, c2))
    BY <2>2 DEF Cut
  <2>5. p1 <= p3 /\ p2 <= p3 /\ p3 <= p3
    <3>1. p1 \in Int /\ p2 \in Int /\ p3 \in Int /\ p1 <= p2 /\ p2 <= p3
      BY <2>4, <2>3
    <3> QED BY <3>1
  <2>6. readHead(f, 1, pos) = Upto(f, p1, head)
    <3>1. need(f, pos, 9) = Upto(f, p1, head)
      <4>1. c1 \in Seq(Byte) /\ Len(c1) = 9 /\ c1 = head /\ Agrees(f, pos, c1) /\ p1 = pos + Len(c1)
        BY <1>2, <1>4, <2>2, <2>4 DEF c1
      <4>2. need(f, pos, Len(c1)) = Upto(f, pos + Len(c1), c1)
        BY <4>1, BytesRead
      <4> QED BY <4>1, <4>2
    <3>2. need(f, pos, 9) = Read(head, p1) => readHead(f, 1, pos) = Read(head, p1)
      <4>1. [head EXCEPT ![5] = bool(@)] = head
        BY <1>2 DEF bool
      <4> QED BY <4>1, Outcomes DEF readHead, Then
    <3>3. need(f, pos, 9) = Failure => readHead(f, 1, pos) = Failure
      BY Outcomes DEF readHead, Then
    <3> QED BY <3>1, <3>2, <3>3 DEF Upto
  <2>7. p1 <= Len(f) + 1 => readU8(f, p1) = Upto(f, p2, Len(operands))
    <3>1. Len(operands) \in Byte
      BY <1>2
    <3> QED BY <2>4, <3>1, ByteReads DEF c2
  <2>8. p2 <= Len(f) + 1 => Repeat(f, Len(operands), [at \in Places(f) |-> readOperand(f, at)], p2) = Upto(f, p3, operands)
    <3>1. operands \in Seq(Operand)
      BY <1>2
    <3> QED BY <2>3, <3>1, OperandsRead DEF c3
  <2>9. ASSUME p2 <= Len(f) + 1 PROVE FromOperands(f, head, Len(operands), p2) = Upto(f, p3, instr)
    <3>1. Repeat(f, Len(operands), [at \in Places(f) |-> readOperand(f, at)], p2) = Read(operands, p3) => FromOperands(f, head, Len(operands), p2) = Read(instr, p3)
      BY <1>1, Outcomes DEF FromOperands, Then
    <3>2. Repeat(f, Len(operands), [at \in Places(f) |-> readOperand(f, at)], p2) = Failure => FromOperands(f, head, Len(operands), p2) = Failure
      BY Outcomes DEF FromOperands, Then
    <3>3. Leads(f, Repeat(f, Len(operands), [at \in Places(f) |-> readOperand(f, at)], p2), operands, p3, FromOperands(f, head, Len(operands), p2), Read(instr, p3))
      BY <2>9, <2>8, <3>1, <3>2 DEF Leads
    <3>4. p3 <= Len(f) + 1 => Read(instr, p3) = Upto(f, p3, instr)
      BY DEF Upto
    <3> QED BY <2>3, <2>5, <3>3, <3>4, Onward
  <2>10. ASSUME p1 <= Len(f) + 1 PROVE FromCount(f, head, p1) = Upto(f, p3, instr)
    <3>1. readU8(f, p1) = Read(Len(operands), p2) => FromCount(f, head, p1) = FromOperands(f, head, Len(operands), p2)
      BY Outcomes DEF FromCount, Then
    <3>2. readU8(f, p1) = Failure => FromCount(f, head, p1) = Failure
      BY Outcomes DEF FromCount, Then
    <3>3. Leads(f, readU8(f, p1), Len(operands), p2, FromCount(f, head, p1), FromOperands(f, head, Len(operands), p2))
      BY <2>10, <2>7, <3>1, <3>2 DEF Leads
    <3>4. p2 \in Int /\ p3 \in Int /\ p2 <= p3
      BY <2>4, <2>3, <2>5
    <3>5. p2 <= Len(f) + 1 => FromOperands(f, head, Len(operands), p2) = Upto(f, p3, instr)
      BY <2>9
    <3> QED BY <3>3, <3>4, <3>5, Onward
  <2>11. FromHead(f, pos) = Upto(f, p3, instr)
    <3>1. readHead(f, 1, pos) = Read(head, p1) => FromHead(f, pos) = FromCount(f, head, p1)
      BY Outcomes DEF FromHead, Then
    <3>2. readHead(f, 1, pos) = Failure => FromHead(f, pos) = Failure
      BY Outcomes DEF FromHead, Then
    <3>3. Leads(f, readHead(f, 1, pos), head, p1, FromHead(f, pos), FromCount(f, head, p1))
      BY <2>6, <3>1, <3>2 DEF Leads
    <3>4. p1 \in Int /\ p3 \in Int /\ p1 <= p3
      BY <2>4, <2>3, <2>5
    <3>5. p1 <= Len(f) + 1 => FromCount(f, head, p1) = Upto(f, p3, instr)
      BY <2>10
    <3> QED BY <3>3, <3>4, <3>5, Onward
  <2>12. readInstruction(f, 1, pos) = FromHead(f, pos)
    BY DEF readInstruction, FromHead, FromCount, FromOperands
  <2> QED BY <2>3, <2>11, <2>12
<1> QED BY <1>3, <1>6, <1>7

InstructionTexts(items) == [i \in DOMAIN items |-> writeInstruction(items[i])]

LEMMA InstructionsRead ==
  ASSUME NEW items \in Seq(Instruction)
  PROVE  /\ FlattenSeq(InstructionTexts(items)) \in Seq(Byte)
         /\ \A f \in Seq(Byte) : \A pos \in Places(f) :
              Agrees(f, pos, FlattenSeq(InstructionTexts(items))) =>
                Repeat(f, Len(items), [at \in Places(f) |-> readInstruction(f, 1, at)], pos)
                  = Upto(f, pos + Len(FlattenSeq(InstructionTexts(items))), items)
<1> DEFINE codes == InstructionTexts(items)
<1>1. \A i \in DOMAIN items : items[i] \in Instruction /\ codes[i] = writeInstruction(items[i])
  BY DEF InstructionTexts
<1>2. Len(codes) = Len(items) /\ (items = <<>> => codes = <<>>)
  <2>1. PICK n \in Nat : n = Len(items) /\ DOMAIN items = 1 .. n
    BY LenProperties
  <2> QED BY <2>1 DEF InstructionTexts
<1> HIDE DEF codes
<1>3. \A i \in DOMAIN items : codes[i] \in Seq(Byte) /\ Len(codes[i]) >= 1
  BY <1>1, InstructionReads
<1>4. ASSUME NEW f \in Seq(Byte), NEW pos \in Places(f), Agrees(f, pos, FlattenSeq(codes))
      PROVE  Repeat(f, Len(items), [at \in Places(f) |-> readInstruction(f, 1, at)], pos)
               = Upto(f, pos + Len(FlattenSeq(codes)), items)
  <2> DEFINE read == [at \in Places(f) |-> readInstruction(f, 1, at)]
  <2>1. ASSUME NEW i \in DOMAIN items, NEW p \in Places(f), Agrees(f, p, codes[i])
        PROVE  read[p] = Upto(f, p + Len(codes[i]), items[i])
    <3>1. read[p] = readInstruction(f, 1, p)
      OBVIOUS
    <3> HIDE DEF read
    <3>2. readInstruction(f, 1, p) = Upto(f, p + Len(codes[i]), items[i])
      BY <1>1, <2>1, InstructionReads
    <3> QED BY <3>1, <3>2
  <2> HIDE DEF read
  <2>2. Repeat(f, Len(items), read, pos) = Upto(f, pos + Len(FlattenSeq(codes)), items)
    BY <1>2, <1>3, <1>4, <2>1, ListReads
  <2> QED BY <2>2 DEF read
<1>5. FlattenSeq(codes) \in Seq(Byte)
  BY <1>2, <1>3, ListReads
<1> QED BY <1>4, <1>5 DEF codes

FromCode(f, label, length, p) ==
  Then(Repeat(f, length, [at \in Places(f) |-> readInstruction(f, 1, at)], p), LAMBDA code, q : Read([label |-> label, code |-> code], q))
FromLength(f, label, p) ==
  Then(readU32(f, p), LAMBDA length, q : FromCode(f, label, length, q))
FromLabel(f, p) ==
  Then(readStr(f, p), LAMBDA label, q : FromLength(f, label, q))

LEMMA BlockReads ==
  ASSUME NEW block \in Block
  PROVE  /\ writeBlock(block) \in Seq(Byte) /\ Len(writeBlock(block)) >= 1
         /\ \A f \in Seq(Byte) : \A pos \in Places(f) :
              Agrees(f, pos, writeBlock(block)) =>
                readBlock(f, 1, pos) = Upto(f, pos + Len(writeBlock(block)), block)
<1>1. PICK label, code :
        /\ block = [label |-> label, code |-> code]
        /\ label \in Text /\ code \in Fewer(Limit, Instruction)
  BY DEF Block
<1>2. label \in Text /\ code \in Seq(Instruction) /\ Len(code) \in 0 .. Limit - 1
  BY <1>1, FewerAreCounted
<1> DEFINE c1 == str(label)
           c2 == u32(Len(code))
           c3 == FlattenSeq(InstructionTexts(code))
           w2 == c1 \o c2
           w3 == w2 \o c3
<1>3. writeBlock(block) = w3
  BY <1>1 DEF writeBlock, All, InstructionTexts
<1>4. c1 \in Seq(Byte) /\ c2 \in Seq(Byte) /\ c3 \in Seq(Byte) /\ Len(c1) >= 1
  BY <1>2, TextReads, NumberReads, InstructionsRead
<1>5. w2 = c1 \o c2 /\ w3 = w2 \o c3
  OBVIOUS
<1> HIDE DEF w2, w3
<1>6. w2 \in Seq(Byte) /\ w3 \in Seq(Byte) /\ Len(w3) >= 1
  <2> HIDE DEF c1, c2, c3
  <2>2. w2 \in Seq(Byte) /\ Len(w2) >= 1
    BY <1>4, <1>5, Longer
  <2>3. w3 \in Seq(Byte) /\ Len(w3) >= 1
    BY <1>4, <1>5, <2>2, Longer
  <2> QED BY <2>2, <2>3
<1>7. ASSUME NEW f \in Seq(Byte), NEW pos \in Places(f), Agrees(f, pos, w3)
      PROVE  readBlock(f, 1, pos) = Upto(f, pos + Len(w3), block)
  <2> DEFINE p1 == pos + Len(c1)
             p2 == pos + Len(w2)
             p3 == pos + Len(w3)
  <2> HIDE DEF c1, c2, c3
  <2>1. Agrees(f, pos, w2) /\ Cut(f, pos, w2, c3, w3, p2, p3)
    BY <1>4, <1>5, <1>6, <1>7, Followed
  <2>2. Agrees(f, pos, c1) /\ Cut(f, pos, c1, c2, w2, p1, p2)
    BY <1>4, <1>5, <1>6, <2>1, Followed
  <2> HIDE DEF p1, p2, p3
  <2>3. /\ p2 \in Int /\ p3 \in Int /\ p2 <= p3 /\ p2 = pos + Len(w2) /\ p3 = p2 + Len(c3)
        /\ p3 = pos + Len(w3) /\ (p2 <= Len(f) + 1 => p2 \in Places(f) /\ Agrees(f, p2, c3))
    BY <2>1 DEF Cut
  <2>4. /\ p1 \in Int /\ p2 \in Int /\ p1 <= p2 /\ p1 = pos + Len(c1) /\ p2 = p1 + Len(c2)
        /\ p2 = pos + Len(w2) /\ (p1 <= Len(f) + 1 => p1 \in Places(f) /\ Agrees(f, p1, c2))
    BY <2>2 DEF Cut
  <2>5. p1 <= p3 /\ p2 <= p3 /\ p3 <= p3
    <3>1. p1 \in Int /\ p2 \in Int /\ p3 \in Int /\ p1 <= p2 /\ p2 <= p3
      BY <2>4, <2>3
    <3> QED BY <3>1
  <2>6. readStr(f, pos) = Upto(f, p1, label)
    <3>1. label \in Text
      BY <1>2
    <3> QED BY <2>2, <2>4, <3>1, TextReads DEF c1
  <2>7. p1 <= Len(f) + 1 => readU32(f, p1) = Upto(f, p2, Len(code))
    <3>1. Len(code) \in 0 .. Limit - 1
      BY <1>2
    <3> QED BY <2>4, <3>1, NumberReads DEF c2
  <2>8. p2 <= Len(f) + 1 => Repeat(f, Len(code), [at \in Places(f) |-> readInstruction(f, 1, at)], p2) = Upto(f, p3, code)
    <3>1. code \in Seq(Instruction)
      BY <1>2
    <3> QED BY <2>3, <3>1, InstructionsRead DEF c3
  <2>9. ASSUME p2 <= Len(f) + 1 PROVE FromCode(f, label, Len(code), p2) = Upto(f, p3, block)
    <3>1. Repeat(f, Len(code), [at \in Places(f) |-> readInstruction(f, 1, at)], p2) = Read(code, p3) => FromCode(f, label, Len(code), p2) = Read(block, p3)
      BY <1>1, Outcomes DEF FromCode, Then
    <3>2. Repeat(f, Len(code), [at \in Places(f) |-> readInstruction(f, 1, at)], p2) = Failure => FromCode(f, label, Len(code), p2) = Failure
      BY Outcomes DEF FromCode, Then
    <3>3. Leads(f, Repeat(f, Len(code), [at \in Places(f) |-> readInstruction(f, 1, at)], p2), code, p3, FromCode(f, label, Len(code), p2), Read(block, p3))
      BY <2>9, <2>8, <3>1, <3>2 DEF Leads
    <3>4. p3 <= Len(f) + 1 => Read(block, p3) = Upto(f, p3, block)
      BY DEF Upto
    <3> QED BY <2>3, <2>5, <3>3, <3>4, Onward
  <2>10. ASSUME p1 <= Len(f) + 1 PROVE FromLength(f, label, p1) = Upto(f, p3, block)
    <3>1. readU32(f, p1) = Read(Len(code), p2) => FromLength(f, label, p1) = FromCode(f, label, Len(code), p2)
      BY Outcomes DEF FromLength, Then
    <3>2. readU32(f, p1) = Failure => FromLength(f, label, p1) = Failure
      BY Outcomes DEF FromLength, Then
    <3>3. Leads(f, readU32(f, p1), Len(code), p2, FromLength(f, label, p1), FromCode(f, label, Len(code), p2))
      BY <2>10, <2>7, <3>1, <3>2 DEF Leads
    <3>4. p2 \in Int /\ p3 \in Int /\ p2 <= p3
      BY <2>4, <2>3, <2>5
    <3>5. p2 <= Len(f) + 1 => FromCode(f, label, Len(code), p2) = Upto(f, p3, block)
      BY <2>9
    <3> QED BY <3>3, <3>4, <3>5, Onward
  <2>11. FromLabel(f, pos) = Upto(f, p3, block)
    <3>1. readStr(f, pos) = Read(label, p1) => FromLabel(f, pos) = FromLength(f, label, p1)
      BY Outcomes DEF FromLabel, Then
    <3>2. readStr(f, pos) = Failure => FromLabel(f, pos) = Failure
      BY Outcomes DEF FromLabel, Then
    <3>3. Leads(f, readStr(f, pos), label, p1, FromLabel(f, pos), FromLength(f, label, p1))
      BY <2>6, <3>1, <3>2 DEF Leads
    <3>4. p1 \in Int /\ p3 \in Int /\ p1 <= p3
      BY <2>4, <2>3, <2>5
    <3>5. p1 <= Len(f) + 1 => FromLength(f, label, p1) = Upto(f, p3, block)
      BY <2>10
    <3> QED BY <3>3, <3>4, <3>5, Onward
  <2>12. readBlock(f, 1, pos) = FromLabel(f, pos)
    BY DEF readBlock, FromLabel, FromLength, FromCode
  <2> QED BY <2>3, <2>11, <2>12
<1> QED BY <1>3, <1>6, <1>7

BlockTexts(items) == [i \in DOMAIN items |-> writeBlock(items[i])]

LEMMA BlocksRead ==
  ASSUME NEW items \in Seq(Block)
  PROVE  /\ FlattenSeq(BlockTexts(items)) \in Seq(Byte)
         /\ \A f \in Seq(Byte) : \A pos \in Places(f) :
              Agrees(f, pos, FlattenSeq(BlockTexts(items))) =>
                Repeat(f, Len(items), [at \in Places(f) |-> readBlock(f, 1, at)], pos)
                  = Upto(f, pos + Len(FlattenSeq(BlockTexts(items))), items)
<1> DEFINE codes == BlockTexts(items)
<1>1. \A i \in DOMAIN items : items[i] \in Block /\ codes[i] = writeBlock(items[i])
  BY DEF BlockTexts
<1>2. Len(codes) = Len(items) /\ (items = <<>> => codes = <<>>)
  <2>1. PICK n \in Nat : n = Len(items) /\ DOMAIN items = 1 .. n
    BY LenProperties
  <2> QED BY <2>1 DEF BlockTexts
<1> HIDE DEF codes
<1>3. \A i \in DOMAIN items : codes[i] \in Seq(Byte) /\ Len(codes[i]) >= 1
  BY <1>1, BlockReads
<1>4. ASSUME NEW f \in Seq(Byte), NEW pos \in Places(f), Agrees(f, pos, FlattenSeq(codes))
      PROVE  Repeat(f, Len(items), [at \in Places(f) |-> readBlock(f, 1, at)], pos)
               = Upto(f, pos + Len(FlattenSeq(codes)), items)
  <2> DEFINE read == [at \in Places(f) |-> readBlock(f, 1, at)]
  <2>1. ASSUME NEW i \in DOMAIN items, NEW p \in Places(f), Agrees(f, p, codes[i])
        PROVE  read[p] = Upto(f, p + Len(codes[i]), items[i])
    <3>1. read[p] = readBlock(f, 1, p)
      OBVIOUS
    <3> HIDE DEF read
    <3>2. readBlock(f, 1, p) = Upto(f, p + Len(codes[i]), items[i])
      BY <1>1, <2>1, BlockReads
    <3> QED BY <3>1, <3>2
  <2> HIDE DEF read
  <2>2. Repeat(f, Len(items), read, pos) = Upto(f, pos + Len(FlattenSeq(codes)), items)
    BY <1>2, <1>3, <1>4, <2>1, ListReads
  <2> QED BY <2>2 DEF read
<1>5. FlattenSeq(codes) \in Seq(Byte)
  BY <1>2, <1>3, ListReads
<1> QED BY <1>4, <1>5 DEF codes

FromBlocks(f, name, module, isExported, paramCount, params, returnType, blockCount, p) ==
  Then(Repeat(f, blockCount, [at \in Places(f) |-> readBlock(f, 1, at)], p), LAMBDA blocks, q : Read([name |-> name, module |-> module, isExported |-> bool(isExported), params |-> params, returnType |-> returnType, blocks |-> blocks], q))
FromBlockCount(f, name, module, isExported, paramCount, params, returnType, p) ==
  Then(readU32(f, p), LAMBDA blockCount, q : FromBlocks(f, name, module, isExported, paramCount, params, returnType, blockCount, q))
FromReturnType(f, name, module, isExported, paramCount, params, p) ==
  Then(readU8(f, p), LAMBDA returnType, q : FromBlockCount(f, name, module, isExported, paramCount, params, returnType, q))
FromParams(f, name, module, isExported, paramCount, p) ==
  Then(Repeat(f, paramCount, [at \in Places(f) |-> readU8(f, at)], p), LAMBDA params, q : FromReturnType(f, name, module, isExported, paramCount, params, q))
FromParamCount(f, name, module, isExported, p) ==
  Then(readU8(f, p), LAMBDA paramCount, q : FromParams(f, name, module, isExported, paramCount, q))
FromExported(f, name, module, p) ==
  Then(readU8(f, p), LAMBDA isExported, q : FromParamCount(f, name, module, isExported, q))
FromModule(f, name, p) ==
  Then(readStr(f, p), LAMBDA module, q : FromExported(f, name, module, q))
FromName(f, p) ==
  Then(readStr(f, p), LAMBDA name, q : FromModule(f, name, q))

LEMMA FunctionReads ==
  ASSUME NEW fn \in Function
  PROVE  /\ writeFunction(fn) \in Seq(Byte) /\ Len(writeFunction(fn)) >= 1
         /\ \A f \in Seq(Byte) : \A pos \in Places(f) :
              Agrees(f, pos, writeFunction(fn)) =>
                readFunction(f, 1, pos) = Upto(f, pos + Len(writeFunction(fn)), fn)
<1>1. PICK name, module, isExported, params, returnType, blocks :
        /\ fn = [name |-> name, module |-> module, isExported |-> isExported, params |-> params, returnType |-> returnType, blocks |-> blocks]
        /\ name \in Text /\ module \in Text /\ isExported \in {0, 1} /\ params \in Fewer(256, Byte)
        /\ returnType \in Byte /\ blocks \in Fewer(Limit, Block)
  BY DEF Function
<1>2. /\ name \in Text /\ module \in Text /\ isExported \in Byte /\ bool(isExported) = isExported /\ returnType \in Byte
      /\ params \in Seq(Byte) /\ Len(params) \in Byte
      /\ blocks \in Seq(Block) /\ Len(blocks) \in 0 .. Limit - 1
  <2>1. isExported \in Byte /\ bool(isExported) = isExported
    BY <1>1 DEF Byte, bool
  <2> QED BY <1>1, <2>1, FewerAreCounted
<1> DEFINE c1 == str(name)
           c2 == str(module)
           c3 == u8(isExported)
           c4 == u8(Len(params))
           c5 == FlattenSeq(ByteTexts(params))
           c6 == u8(returnType)
           c7 == u32(Len(blocks))
           c8 == FlattenSeq(BlockTexts(blocks))
           w2 == c1 \o c2
           w3 == w2 \o c3
           w4 == w3 \o c4
           w5 == w4 \o c5
           w6 == w5 \o c6
           w7 == w6 \o c7
           w8 == w7 \o c8
<1>3. writeFunction(fn) = w8
  BY <1>1 DEF writeFunction, All, ByteTexts, BlockTexts
<1>4. c1 \in Seq(Byte) /\ c2 \in Seq(Byte) /\ c3 \in Seq(Byte) /\ c4 \in Seq(Byte) /\ c5 \in Seq(Byte) /\ c6 \in Seq(Byte) /\ c7 \in Seq(Byte) /\ c8 \in Seq(Byte) /\ Len(c1) >= 1
  BY <1>2, TextReads, ByteReads, ParamsRead, NumberReads, BlocksRead
<1>5. w2 = c1 \o c2 /\ w3 = w2 \o c3 /\ w4 = w3 \o c4 /\ w5 = w4 \o c5 /\ w6 = w5 \o c6 /\ w7 = w6 \o c7 /\ w8 = w7 \o c8
  OBVIOUS
<1> HIDE DEF w2, w3, w4, w5, w6, w7, w8
<1>6. w2 \in Seq(Byte) /\ w3 \in Seq(Byte) /\ w4 \in Seq(Byte) /\ w5 \in Seq(Byte) /\ w6 \in Seq(Byte) /\ w7 \in Seq(Byte) /\ w8 \in Seq(Byte) /\ Len(w8) >= 1
  <2> HIDE DEF c1, c2, c3, c4, c5, c6, c7, c8
  <2>2. w2 \in Seq(Byte) /\ Len(w2) >= 1
    BY <1>4, <1>5, Longer
  <2>3. w3 \in Seq(Byte) /\ Len(w3) >= 1
    BY <1>4, <1>5, <2>2, Longer
  <2>4. w4 \in Seq(Byte) /\ Len(w4) >= 1
    BY <1>4, <1>5, <2>3, Longer
  <2>5. w5 \in Seq(Byte) /\ Len(w5) >= 1
    BY <1>4, <1>5, <2>4, Longer
  <2>6. w6 \in Seq(Byte) /\ Len(w6) >= 1
    BY <1>4, <1>5, <2>5, Longer
  <2>7. w7 \in Seq(Byte) /\ Len(w7) >= 1
    BY <1>4, <1>5, <2>6, Longer
  <2>8. w8 \in Seq(Byte) /\ Len(w8) >= 1
    BY <1>4, <1>5, <2>7, Longer
  <2> QED BY <2>2, <2>3, <2>4, <2>5, <2>6, <2>7, <2>8
<1>7. ASSUME NEW f \in Seq(Byte), NEW pos \in Places(f), Agrees(f, pos, w8)
      PROVE  readFunction(f, 1, pos) = Upto(f, pos + Len(w8), fn)
  <2> DEFINE p1 == pos + Len(c1)
             p2 == pos + Len(w2)
             p3 == pos + Len(w3)
             p4 == pos + Len(w4)
             p5 == pos + Len(w5)
             p6 == pos + Len(w6)
             p7 == pos + Len(w7)
             p8 == pos + Len(w8)
  <2> HIDE DEF c1, c2, c3, c4, c5, c6, c7, c8
  <2>1. Agrees(f, pos, w7) /\ Cut(f, pos, w7, c8, w8, p7, p8)
    BY <1>4, <1>5, <1>6, <1>7, Followed
  <2>2. Agrees(f, pos, w6) /\ Cut(f, pos, w6, c7, w7, p6, p7)
    BY <1>4, <1>5, <1>6, <2>1, Followed
  <2>3. Agrees(f, pos, w5) /\ Cut(f, pos, w5, c6, w6, p5, p6)
    BY <1>4, <1>5, <1>6, <2>2, Followed
  <2>4. Agrees(f, pos, w4) /\ Cut(f, pos, w4, c5, w5, p4, p5)
    BY <1>4, <1>5, <1>6, <2>3, Followed
  <2>5. Agrees(f, pos, w3) /\ Cut(f, pos, w3, c4, w4, p3, p4)
    BY <1>4, <1>5, <1>6, <2>4, Followed
  <2>6. Agrees(f, pos, w2) /\ Cut(f, pos, w2, c3, w3, p2, p3)
    BY <1>4, <1>5, <1>6, <2>5, Followed
  <2>7. Agrees(f, pos, c1) /\ Cut(f, pos, c1, c2, w2, p1, p2)
    BY <1>4, <1>5, <1>6, <2>6, Followed
  <2> HIDE DEF p1, p2, p3, p4, p5, p6, p7, p8
  <2>8. /\ p7 \in Int /\ p8 \in Int /\ p7 <= p8 /\ p7 = pos + Len(w7) /\ p8 = p7 + Len(c8)
        /\ p8 = pos + Len(w8) /\ (p7 <= Len(f) + 1 => p7 \in Places(f) /\ Agrees(f, p7, c8))
    BY <2>1 DEF Cut
  <2>9. /\ p6 \in Int /\ p7 \in Int /\ p6 <= p7 /\ p6 = pos + Len(w6) /\ p7 = p6 + Len(c7)
        /\ p7 = pos + Len(w7) /\ (p6 <= Len(f) + 1 => p6 \in Places(f) /\ Agrees(f, p6, c7))
    BY <2>2 DEF Cut
  <2>10. /\ p5 \in Int /\ p6 \in Int /\ p5 <= p6 /\ p5 = pos + Len(w5) /\ p6 = p5 + Len(c6)
        /\ p6 = pos + Len(w6) /\ (p5 <= Len(f) + 1 => p5 \in Places(f) /\ Agrees(f, p5, c6))
    BY <2>3 DEF Cut
  <2>11. /\ p4 \in Int /\ p5 \in Int /\ p4 <= p5 /\ p4 = pos + Len(w4) /\ p5 = p4 + Len(c5)
        /\ p5 = pos + Len(w5) /\ (p4 <= Len(f) + 1 => p4 \in Places(f) /\ Agrees(f, p4, c5))
    BY <2>4 DEF Cut
  <2>12. /\ p3 \in Int /\ p4 \in Int /\ p3 <= p4 /\ p3 = pos + Len(w3) /\ p4 = p3 + Len(c4)
        /\ p4 = pos + Len(w4) /\ (p3 <= Len(f) + 1 => p3 \in Places(f) /\ Agrees(f, p3, c4))
    BY <2>5 DEF Cut
  <2>13. /\ p2 \in Int /\ p3 \in Int /\ p2 <= p3 /\ p2 = pos + Len(w2) /\ p3 = p2 + Len(c3)
        /\ p3 = pos + Len(w3) /\ (p2 <= Len(f) + 1 => p2 \in Places(f) /\ Agrees(f, p2, c3))
    BY <2>6 DEF Cut
  <2>14. /\ p1 \in Int /\ p2 \in Int /\ p1 <= p2 /\ p1 = pos + Len(c1) /\ p2 = p1 + Len(c2)
        /\ p2 = pos + Len(w2) /\ (p1 <= Len(f) + 1 => p1 \in Places(f) /\ Agrees(f, p1, c2))
    BY <2>7 DEF Cut
  <2>15. p1 <= p8 /\ p2 <= p8 /\ p3 <= p8 /\ p4 <= p8 /\ p5 <= p8 /\ p6 <= p8 /\ p7 <= p8 /\ p8 <= p8
    <3>1. p1 \in Int /\ p2 \in Int /\ p1 <= p2
      BY <2>14
    <3>2. p3 \in Int /\ p2 <= p3
      BY <2>13
    <3>3. p4 \in Int /\ p3 <= p4
      BY <2>12
    <3>4. p5 \in Int /\ p4 <= p5
      BY <2>11
    <3>5. p6 \in Int /\ p5 <= p6
      BY <2>10
    <3>6. p7 \in Int /\ p8 \in Int /\ p6 <= p7 /\ p7 <= p8
      BY <2>9, <2>8
    <3> QED BY <3>1, <3>2, <3>3, <3>4, <3>5, <3>6
  <2>16. readStr(f, pos) = Upto(f, p1, name)
    <3>1. name \in Text
      BY <1>2
    <3> QED BY <2>7, <2>14, <3>1, TextReads DEF c1
  <2>17. p1 <= Len(f) + 1 => readStr(f, p1) = Upto(f, p2, module)
    <3>1. module \in Text
      BY <1>2
    <3> QED BY <2>14, <3>1, TextReads DEF c2
  <2>18. p2 <= Len(f) + 1 => readU8(f, p2) = Upto(f, p3, isExported)
    <3>1. isExported \in Byte
      BY <1>2
    <3> QED BY <2>13, <3>1, ByteReads DEF c3
  <2>19. p3 <= Len(f) + 1 => readU8(f, p3) = Upto(f, p4, Len(params))
    <3>1. Len(params) \in Byte
      BY <1>2
    <3> QED BY <2>12, <3>1, ByteReads DEF c4
  <2>20. p4 <= Len(f) + 1 => Repeat(f, Len(params), [at \in Places(f) |-> readU8(f, at)], p4) = Upto(f, p5, params)
    <3>1. params \in Seq(Byte)
      BY <1>2
    <3> QED BY <2>11, <3>1, ParamsRead DEF c5
  <2>21. p5 <= Len(f) + 1 => readU8(f, p5) = Upto(f, p6, returnType)
    <3>1. returnType \in Byte
      BY <1>2
    <3> QED BY <2>10, <3>1, ByteReads DEF c6
  <2>22. p6 <= Len(f) + 1 => readU32(f, p6) = Upto(f, p7, Len(blocks))
    <3>1. Len(blocks) \in 0 .. Limit - 1
      BY <1>2
    <3> QED BY <2>9, <3>1, NumberReads DEF c7
  <2>23. p7 <= Len(f) + 1 => Repeat(f, Len(blocks), [at \in Places(f) |-> readBlock(f, 1, at)], p7) = Upto(f, p8, blocks)
    <3>1. blocks \in Seq(Block)
      BY <1>2
    <3> QED BY <2>8, <3>1, BlocksRead DEF c8
  <2>24. ASSUME p7 <= Len(f) + 1 PROVE FromBlocks(f, name, module, isExported, Len(params), params, returnType, Len(blocks), p7) = Upto(f, p8, fn)
    <3>1. Repeat(f, Len(blocks), [at \in Places(f) |-> readBlock(f, 1, at)], p7) = Read(blocks, p8) => FromBlocks(f, name, module, isExported, Len(params), params, returnType, Len(blocks), p7) = Read(fn, p8)
      BY <1>1, <1>2, Outcomes DEF FromBlocks, Then
    <3>2. Repeat(f, Len(blocks), [at \in Places(f) |-> readBlock(f, 1, at)], p7) = Failure => FromBlocks(f, name, module, isExported, Len(params), params, returnType, Len(blocks), p7) = Failure
      BY Outcomes DEF FromBlocks, Then
    <3>3. Leads(f, Repeat(f, Len(blocks), [at \in Places(f) |-> readBlock(f, 1, at)], p7), blocks, p8, FromBlocks(f, name, module, isExported, Len(params), params, returnType, Len(blocks), p7), Read(fn, p8))
      BY <2>24, <2>23, <3>1, <3>2 DEF Leads
    <3>4. p8 <= Len(f) + 1 => Read(fn, p8) = Upto(f, p8, fn)
      BY DEF Upto
    <3> QED BY <2>8, <2>15, <3>3, <3>4, Onward
  <2>25. ASSUME p6 <= Len(f) + 1 PROVE FromBlockCount(f, name, module, isExported, Len(params), params, returnType, p6) = Upto(f, p8, fn)
    <3>1. readU32(f, p6) = Read(Len(blocks), p7) => FromBlockCount(f, name, module, isExported, Len(params), params, returnType, p6) = FromBlocks(f, name, module, isExported, Len(params), params, returnType, Len(blocks), p7)
      BY Outcomes DEF FromBlockCount, Then
    <3>2. readU32(f, p6) = Failure => FromBlockCount(f, name, module, isExported, Len(params), params, returnType, p6) = Failure
      BY Outcomes DEF FromBlockCount, Then
    <3>3. Leads(f, readU32(f, p6), Len(blocks), p7, FromBlockCount(f, name, module, isExported, Len(params), params, returnType, p6), FromBlocks(f, name, module, isExported, Len(params), params, returnType, Len(blocks), p7))
      BY <2>25, <2>22, <3>1, <3>2 DEF Leads
    <3>4. p7 \in Int /\ p8 \in Int /\ p7 <= p8
      BY <2>9, <2>8, <2>15
    <3>5. p7 <= Len(f) + 1 => FromBlocks(f, name, module, isExported, Len(params), params, returnType, Len(blocks), p7) = Upto(f, p8, fn)
      BY <2>24
    <3> QED BY <3>3, <3>4, <3>5, Onward
  <2>26. ASSUME p5 <= Len(f) + 1 PROVE FromReturnType(f, name, module, isExported, Len(params), params, p5) = Upto(f, p8, fn)
    <3>1. readU8(f, p5) = Read(returnType, p6) => FromReturnType(f, name, module, isExported, Len(params), params, p5) = FromBlockCount(f, name, module, isExported, Len(params), params, returnType, p6)
      BY Outcomes DEF FromReturnType, Then
    <3>2. readU8(f, p5) = Failure => FromReturnType(f, name, module, isExported, Len(params), params, p5) = Failure
      BY Outcomes DEF FromReturnType, Then
    <3>3. Leads(f, readU8(f, p5), returnType, p6, FromReturnType(f, name, module, isExported, Len(params), params, p5), FromBlockCount(f, name, module, isExported, Len(params), params, returnType, p6))
      BY <2>26, <2>21, <3>1, <3>2 DEF Leads
    <3>4. p6 \in Int /\ p8 \in Int /\ p6 <= p8
      BY <2>10, <2>8, <2>15
    <3>5. p6 <= Len(f) + 1 => FromBlockCount(f, name, module, isExported, Len(params), params, returnType, p6) = Upto(f, p8, fn)
      BY <2>25
    <3> QED BY <3>3, <3>4, <3>5, Onward
  <2>27. ASSUME p4 <= Len(f) + 1 PROVE FromParams(f, name, module, isExported, Len(params), p4) = Upto(f, p8, fn)
    <3>1. Repeat(f, Len(params), [at \in Places(f) |-> readU8(f, at)], p4) = Read(params, p5) => FromParams(f, name, module, isExported, Len(params), p4) = FromReturnType(f, name, module, isExported, Len(params), params, p5)
      BY Outcomes DEF FromParams, Then
    <3>2. Repeat(f, Len(params), [at \in Places(f) |-> readU8(f, at)], p4) = Failure => FromParams(f, name, module, isExported, Len(params), p4) = Failure
      BY Outcomes DEF FromParams, Then
    <3>3. Leads(f, Repeat(f, Len(params), [at \in Places(f) |-> readU8(f, at)], p4), params, p5, FromParams(f, name, module, isExported, Len(params), p4), FromReturnType(f, name, module, isExported, Len(params), params, p5))
      BY <2>27, <2>20, <3>1, <3>2 DEF Leads
    <3>4. p5 \in Int /\ p8 \in Int /\ p5 <= p8
      BY <2>11, <2>8, <2>15
    <3>5. p5 <= Len(f) + 1 => FromReturnType(f, name, module, isExported, Len(params), params, p5) = Upto(f, p8, fn)
      BY <2>26
    <3> QED BY <3>3, <3>4, <3>5, Onward
  <2>28. ASSUME p3 <= Len(f) + 1 PROVE FromParamCount(f, name, module, isExported, p3) = Upto(f, p8, fn)
    <3>1. readU8(f, p3) = Read(Len(params), p4) => FromParamCount(f, name, module, isExported, p3) = FromParams(f, name, module, isExported, Len(params), p4)
      BY Outcomes DEF FromParamCount, Then
    <3>2. readU8(f, p3) = Failure => FromParamCount(f, name, module, isExported, p3) = Failure
      BY Outcomes DEF FromParamCount, Then
    <3>3. Leads(f, readU8(f, p3), Len(params), p4, FromParamCount(f, name, module, isExported, p3), FromParams(f, name, module, isExported, Len(params), p4))
      BY <2>28, <2>19, <3>1, <3>2 DEF Leads
    <3>4. p4 \in Int /\ p8 \in Int /\ p4 <= p8
      BY <2>12, <2>8, <2>15
    <3>5. p4 <= Len(f) + 1 => FromParams(f, name, module, isExported, Len(params), p4) = Upto(f, p8, fn)
      BY <2>27
    <3> QED BY <3>3, <3>4, <3>5, Onward
  <2>29. ASSUME p2 <= Len(f) + 1 PROVE FromExported(f, name, module, p2) = Upto(f, p8, fn)
    <3>1. readU8(f, p2) = Read(isExported, p3) => FromExported(f, name, module, p2) = FromParamCount(f, name, module, isExported, p3)
      BY Outcomes DEF FromExported, Then
    <3>2. readU8(f, p2) = Failure => FromExported(f, name, module, p2) = Failure
      BY Outcomes DEF FromExported, Then
    <3>3. Leads(f, readU8(f, p2), isExported, p3, FromExported(f, name, module, p2), FromParamCount(f, name, module, isExported, p3))
      BY <2>29, <2>18, <3>1, <3>2 DEF Leads
    <3>4. p3 \in Int /\ p8 \in Int /\ p3 <= p8
      BY <2>13, <2>8, <2>15
    <3>5. p3 <= Len(f) + 1 => FromParamCount(f, name, module, isExported, p3) = Upto(f, p8, fn)
      BY <2>28
    <3> QED BY <3>3, <3>4, <3>5, Onward
  <2>30. ASSUME p1 <= Len(f) + 1 PROVE FromModule(f, name, p1) = Upto(f, p8, fn)
    <3>1. readStr(f, p1) = Read(module, p2) => FromModule(f, name, p1) = FromExported(f, name, module, p2)
      BY Outcomes DEF FromModule, Then
    <3>2. readStr(f, p1) = Failure => FromModule(f, name, p1) = Failure
      BY Outcomes DEF FromModule, Then
    <3>3. Leads(f, readStr(f, p1), module, p2, FromModule(f, name, p1), FromExported(f, name, module, p2))
      BY <2>30, <2>17, <3>1, <3>2 DEF Leads
    <3>4. p2 \in Int /\ p8 \in Int /\ p2 <= p8
      BY <2>14, <2>8, <2>15
    <3>5. p2 <= Len(f) + 1 => FromExported(f, name, module, p2) = Upto(f, p8, fn)
      BY <2>29
    <3> QED BY <3>3, <3>4, <3>5, Onward
  <2>31. FromName(f, pos) = Upto(f, p8, fn)
    <3>1. readStr(f, pos) = Read(name, p1) => FromName(f, pos) = FromModule(f, name, p1)
      BY Outcomes DEF FromName, Then
    <3>2. readStr(f, pos) = Failure => FromName(f, pos) = Failure
      BY Outcomes DEF FromName, Then
    <3>3. Leads(f, readStr(f, pos), name, p1, FromName(f, pos), FromModule(f, name, p1))
      BY <2>16, <3>1, <3>2 DEF Leads
    <3>4. p1 \in Int /\ p8 \in Int /\ p1 <= p8
      BY <2>14, <2>8, <2>15
    <3>5. p1 <= Len(f) + 1 => FromModule(f, name, p1) = Upto(f, p8, fn)
      BY <2>30
    <3> QED BY <3>3, <3>4, <3>5, Onward
  <2>32. readFunction(f, 1, pos) = FromName(f, pos)
    BY DEF readFunction, FromName, FromModule, FromExported, FromParamCount, FromParams, FromReturnType, FromBlockCount, FromBlocks
  <2> QED BY <2>8, <2>31, <2>32
<1> QED BY <1>3, <1>6, <1>7

FunctionTexts(items) == [i \in DOMAIN items |-> writeFunction(items[i])]

LEMMA FunctionsRead ==
  ASSUME NEW items \in Seq(Function)
  PROVE  /\ FlattenSeq(FunctionTexts(items)) \in Seq(Byte)
         /\ \A f \in Seq(Byte) : \A pos \in Places(f) :
              Agrees(f, pos, FlattenSeq(FunctionTexts(items))) =>
                Repeat(f, Len(items), [at \in Places(f) |-> readFunction(f, 1, at)], pos)
                  = Upto(f, pos + Len(FlattenSeq(FunctionTexts(items))), items)
<1> DEFINE codes == FunctionTexts(items)
<1>1. \A i \in DOMAIN items : items[i] \in Function /\ codes[i] = writeFunction(items[i])
  BY DEF FunctionTexts
<1>2. Len(codes) = Len(items) /\ (items = <<>> => codes = <<>>)
  <2>1. PICK n \in Nat : n = Len(items) /\ DOMAIN items = 1 .. n
    BY LenProperties
  <2> QED BY <2>1 DEF FunctionTexts
<1> HIDE DEF codes
<1>3. \A i \in DOMAIN items : codes[i] \in Seq(Byte) /\ Len(codes[i]) >= 1
  BY <1>1, FunctionReads
<1>4. ASSUME NEW f \in Seq(Byte), NEW pos \in Places(f), Agrees(f, pos, FlattenSeq(codes))
      PROVE  Repeat(f, Len(items), [at \in Places(f) |-> readFunction(f, 1, at)], pos)
               = Upto(f, pos + Len(FlattenSeq(codes)), items)
  <2> DEFINE read == [at \in Places(f) |-> readFunction(f, 1, at)]
  <2>1. ASSUME NEW i \in DOMAIN items, NEW p \in Places(f), Agrees(f, p, codes[i])
        PROVE  read[p] = Upto(f, p + Len(codes[i]), items[i])
    <3>1. read[p] = readFunction(f, 1, p)
      OBVIOUS
    <3> HIDE DEF read
    <3>2. readFunction(f, 1, p) = Upto(f, p + Len(codes[i]), items[i])
      BY <1>1, <2>1, FunctionReads
    <3> QED BY <3>1, <3>2
  <2> HIDE DEF read
  <2>2. Repeat(f, Len(items), read, pos) = Upto(f, pos + Len(FlattenSeq(codes)), items)
    BY <1>2, <1>3, <1>4, <2>1, ListReads
  <2> QED BY <2>2 DEF read
<1>5. FlattenSeq(codes) \in Seq(Byte)
  BY <1>2, <1>3, ListReads
<1> QED BY <1>4, <1>5 DEF codes
-----------------------------------------------------------------------------
(* Files.                                                                  *)

FromEntry(f, functions, p) ==
  Then(readU32(f, p), LAMBDA entryIndex, q :
    Read([functions |-> functions, entryIndex |-> entryIndex], q))
FromFunctions(f, functionCount, p) ==
  Then(Repeat(f, functionCount, [at \in Places(f) |-> readFunction(f, 1, at)], p),
       LAMBDA functions, q : FromEntry(f, functions, q))
FromFunctionCount(f, p) ==
  Then(readU32(f, p), LAMBDA functionCount, q : FromFunctions(f, functionCount, q))

LEMMA ReadIsOne ==
  ASSUME NEW v, NEW w, NEW p, Read(v, p) = Read(w, p)
  PROVE  v = w
<1>1. Read(v, p).value = v /\ Read(w, p).value = w
  BY Outcomes
<1> QED BY <1>1

(* Two texts, the first of a known length.                                 *)
LEMMA NextPart ==
  ASSUME NEW f \in Seq(Byte), NEW pos \in Places(f), NEW s \in Seq(Byte), NEW t \in Seq(Byte),
         NEW w, w = s \o t, Agrees(f, pos, w), NEW q, q = pos + Len(s)
  PROVE  Agrees(f, pos, s) /\ (q <= Len(f) + 1 => q \in Places(f) /\ Agrees(f, q, t))
BY Parts

(* The bytes before the count of functions.                                *)
Header == Magic \o Sentinel \o u32(Version)

LEMMA HeaderIsFourteenBytes ==
  /\ Magic \in Seq(Byte) /\ Len(Magic) = 6 /\ Sentinel \in Seq(Byte) /\ Len(Sentinel) = 4
  /\ u32(Version) \in Seq(Byte) /\ Len(u32(Version)) = 4 /\ Version \in 0 .. Limit - 1
  /\ Magic \o Sentinel \in Seq(Byte) /\ Len(Magic \o Sentinel) = 10
  /\ Header \in Seq(Byte) /\ Len(Header) = 14
<1>1. Magic \in Seq(Byte) /\ Len(Magic) = 6 /\ Sentinel \in Seq(Byte) /\ Len(Sentinel) = 4
  BY DEF Magic, Sentinel, Byte
<1>2. Version \in 0 .. Limit - 1
  BY DEF Version, Limit
<1>3. u32(Version) \in Seq(Byte) /\ Len(u32(Version)) = 4
  BY <1>2, NumberReads
<1>4. Magic \o Sentinel \in Seq(Byte) /\ Len(Magic \o Sentinel) = 10
  <2>1. Magic \o Sentinel \in Seq(Byte) /\ Len(Magic \o Sentinel) = Len(Magic) + Len(Sentinel)
    BY <1>1, ConcatProperties
  <2> QED BY <1>1, <2>1
<1>5. Header \in Seq(Byte) /\ Len(Header) = 14
  <2>1. Header = (Magic \o Sentinel) \o u32(Version)
    BY DEF Header
  <2>2. Header \in Seq(Byte) /\ Len(Header) = Len(Magic \o Sentinel) + Len(u32(Version))
    BY <1>3, <1>4, <2>1, ConcatProperties
  <2> QED BY <1>3, <1>4, <2>2
<1> QED BY <1>1, <1>2, <1>3, <1>4, <1>5

(* What follows the header, for a file that has one.                       *)
LEMMA ProgramReads ==
  ASSUME NEW prog \in Program
  PROVE  /\ Encoded(prog) \in Seq(Byte) /\ Len(Encoded(prog)) >= 14
         /\ \A f \in Seq(Byte) :
              Agrees(f, 1, Encoded(prog)) =>
                /\ Agrees(f, 1, Header)
                /\ 15 <= Len(f) + 1 =>
                     readProgram(f, 1, 15) = Upto(f, 1 + Len(Encoded(prog)), prog)
<1>1. PICK functions, entryIndex :
        /\ prog = [functions |-> functions, entryIndex |-> entryIndex]
        /\ functions \in Fewer(Limit, Function) /\ entryIndex \in 0 .. Limit - 1
  BY DEF Program
<1>2. functions \in Seq(Function) /\ Len(functions) \in 0 .. Limit - 1 /\ entryIndex \in 0 .. Limit - 1
  BY <1>1, FewerAreCounted
<1> DEFINE c2 == u32(Len(functions))
           c3 == FlattenSeq(FunctionTexts(functions))
           c4 == u32(entryIndex)
           w2 == Header \o c2
           w3 == w2 \o c3
           w4 == w3 \o c4
<1>3. Encoded(prog) = w4
  BY <1>1 DEF Encoded, Header, All, FunctionTexts
<1>4. c2 \in Seq(Byte) /\ c3 \in Seq(Byte) /\ c4 \in Seq(Byte)
  BY <1>2, NumberReads, FunctionsRead
<1>5. w2 = Header \o c2 /\ w3 = w2 \o c3 /\ w4 = w3 \o c4
  OBVIOUS
<1> HIDE DEF w2, w3, w4
<1>6. w2 \in Seq(Byte) /\ w3 \in Seq(Byte) /\ w4 \in Seq(Byte) /\ Len(w4) >= 14
  <2> HIDE DEF c2, c3, c4
  <2>1. w2 \in Seq(Byte) /\ Len(w2) = Len(Header) + Len(c2)
    BY <1>4, <1>5, HeaderIsFourteenBytes, ConcatProperties
  <2>2. w3 \in Seq(Byte) /\ Len(w3) = Len(w2) + Len(c3)
    BY <1>4, <1>5, <2>1, ConcatProperties
  <2>3. w4 \in Seq(Byte) /\ Len(w4) = Len(w3) + Len(c4)
    BY <1>4, <1>5, <2>2, ConcatProperties
  <2>4. PICK k \in Nat, m \in Nat, n \in Nat : k = Len(c2) /\ m = Len(c3) /\ n = Len(c4)
    BY <1>4, LenProperties
  <2>5. Len(w4) = ((14 + k) + m) + n
    BY <2>1, <2>2, <2>3, <2>4, HeaderIsFourteenBytes
  <2>6. ((14 + k) + m) + n >= 14
    OBVIOUS
  <2> QED BY <2>1, <2>2, <2>3, <2>5, <2>6
<1>7. ASSUME NEW f \in Seq(Byte), Agrees(f, 1, w4)
      PROVE  /\ Agrees(f, 1, Header)
             /\ 15 <= Len(f) + 1 => readProgram(f, 1, 15) = Upto(f, 1 + Len(w4), prog)
  <2> DEFINE p1 == 1 + Len(Header)
             p2 == 1 + Len(w2)
             p3 == 1 + Len(w3)
             p4 == 1 + Len(w4)
  <2> HIDE DEF c2, c3, c4
  <2>0. 1 \in Places(f)
    BY LenProperties DEF Places
  <2>1. Agrees(f, 1, w3) /\ Cut(f, 1, w3, c4, w4, p3, p4)
    BY <1>4, <1>5, <1>6, <1>7, <2>0, Followed
  <2>2. Agrees(f, 1, w2) /\ Cut(f, 1, w2, c3, w3, p2, p3)
    BY <1>4, <1>5, <1>6, <2>0, <2>1, Followed
  <2>3. Agrees(f, 1, Header) /\ Cut(f, 1, Header, c2, w2, p1, p2)
    BY <1>4, <1>5, <2>0, <2>2, HeaderIsFourteenBytes, Followed
  <2>p. p1 = 15
    BY HeaderIsFourteenBytes
  <2> HIDE DEF p1, p2, p3, p4
  <2>4. /\ p3 \in Int /\ p4 \in Int /\ p3 <= p4 /\ p4 = p3 + Len(c4)
        /\ p4 = 1 + Len(w4) /\ (p3 <= Len(f) + 1 => p3 \in Places(f) /\ Agrees(f, p3, c4))
    BY <2>1 DEF Cut
  <2>5. /\ p2 \in Int /\ p3 \in Int /\ p2 <= p3 /\ p3 = p2 + Len(c3)
        /\ (p2 <= Len(f) + 1 => p2 \in Places(f) /\ Agrees(f, p2, c3))
    BY <2>2 DEF Cut
  <2>6. /\ p1 \in Int /\ p2 \in Int /\ p1 <= p2 /\ p2 = p1 + Len(c2)
        /\ (p1 <= Len(f) + 1 => p1 \in Places(f) /\ Agrees(f, p1, c2))
    BY <2>3 DEF Cut
  <2>7. p2 <= p4
    BY <2>4, <2>5
  <2>8. p1 <= Len(f) + 1 => readU32(f, p1) = Upto(f, p2, Len(functions))
    BY <1>2, <2>6, NumberReads DEF c2
  <2>9. p2 <= Len(f) + 1 =>
          Repeat(f, Len(functions), [at \in Places(f) |-> readFunction(f, 1, at)], p2) = Upto(f, p3, functions)
    BY <1>2, <2>5, FunctionsRead DEF c3
  <2>10. p3 <= Len(f) + 1 => readU32(f, p3) = Upto(f, p4, entryIndex)
    BY <1>2, <2>4, NumberReads DEF c4
  <2>11. ASSUME p3 <= Len(f) + 1 PROVE FromEntry(f, functions, p3) = Upto(f, p4, prog)
    <3>1. readU32(f, p3) = Read(entryIndex, p4) => FromEntry(f, functions, p3) = Read(prog, p4)
      BY <1>1, Outcomes DEF FromEntry, Then
    <3>2. readU32(f, p3) = Failure => FromEntry(f, functions, p3) = Failure
      BY Outcomes DEF FromEntry, Then
    <3>3. Leads(f, readU32(f, p3), entryIndex, p4, FromEntry(f, functions, p3), Read(prog, p4))
      BY <2>10, <2>11, <3>1, <3>2 DEF Leads
    <3>4. p4 <= Len(f) + 1 => Read(prog, p4) = Upto(f, p4, prog)
      BY DEF Upto
    <3>5. p4 <= p4
      BY <2>4
    <3> QED BY <2>4, <3>3, <3>4, <3>5, Onward
  <2>12. ASSUME p2 <= Len(f) + 1 PROVE FromFunctions(f, Len(functions), p2) = Upto(f, p4, prog)
    <3> DEFINE some == Repeat(f, Len(functions), [at \in Places(f) |-> readFunction(f, 1, at)], p2)
    <3>1. some = Read(functions, p3) => FromFunctions(f, Len(functions), p2) = FromEntry(f, functions, p3)
      BY Outcomes DEF FromFunctions, Then
    <3>2. some = Failure => FromFunctions(f, Len(functions), p2) = Failure
      BY Outcomes DEF FromFunctions, Then
    <3>3. Leads(f, some, functions, p3, FromFunctions(f, Len(functions), p2), FromEntry(f, functions, p3))
      BY <2>9, <2>12, <3>1, <3>2 DEF Leads
    <3> HIDE DEF some
    <3>4. p3 \in Int /\ p4 \in Int /\ p3 <= p4
      BY <2>4
    <3>5. p3 <= Len(f) + 1 => FromEntry(f, functions, p3) = Upto(f, p4, prog)
      BY <2>11
    <3> QED BY <3>3, <3>4, <3>5, Onward
  <2>13. ASSUME p1 <= Len(f) + 1 PROVE FromFunctionCount(f, p1) = Upto(f, p4, prog)
    <3>1. readU32(f, p1) = Read(Len(functions), p2) =>
            FromFunctionCount(f, p1) = FromFunctions(f, Len(functions), p2)
      BY Outcomes DEF FromFunctionCount, Then
    <3>2. readU32(f, p1) = Failure => FromFunctionCount(f, p1) = Failure
      BY Outcomes DEF FromFunctionCount, Then
    <3>3. Leads(f, readU32(f, p1), Len(functions), p2, FromFunctionCount(f, p1), FromFunctions(f, Len(functions), p2))
      BY <2>8, <2>13, <3>1, <3>2 DEF Leads
    <3>4. p2 \in Int /\ p4 \in Int /\ p2 <= p4
      BY <2>4, <2>5, <2>7
    <3>5. p2 <= Len(f) + 1 => FromFunctions(f, Len(functions), p2) = Upto(f, p4, prog)
      BY <2>12
    <3> QED BY <3>3, <3>4, <3>5, Onward
  <2>14. readProgram(f, 1, p1) = FromFunctionCount(f, p1)
    BY DEF readProgram, FromFunctionCount, FromFunctions, FromEntry
  <2> QED BY <2>3, <2>p, <2>4, <2>13, <2>14
<1> QED BY <1>3, <1>6, <1>7

(* A list that starts where its first item cannot be read.                 *)
LEMMA RepeatFails ==
  ASSUME NEW f \in Seq(Byte), NEW count \in Nat, count >= 1, NEW read, NEW pos, read[pos] = Failure
  PROVE  Repeat(f, count, read, pos) = Failure
<1>1. PICK m \in Nat : m = (IF count <= Len(f) THEN count ELSE Len(f) + 1) /\ m >= 1
  <2>1. PICK l \in Nat : l = Len(f)
    OBVIOUS
  <2>2. l + 1 \in Nat /\ l + 1 >= 1
    BY <2>1
  <2> QED BY <2>1, <2>2
<1> DEFINE g == [k \in 0 .. m |-> IF k = 0 THEN Read(<<>>, pos) ELSE Failure]
<1>2. \A k \in 0 .. m : g[k] = IF k = 0 THEN Read(<<>>, pos) ELSE OneMore(g[k - 1], read)
  <2>1. ASSUME NEW k \in 0 .. m, k # 0 PROVE g[k] = OneMore(g[k - 1], read)
    <3>1. g[k] = Failure /\ k - 1 \in 0 .. m
      BY <2>1
    <3>2. CASE k = 1
      <4>1. g[k - 1] = Read(<<>>, pos)
        BY <3>1, <3>2
      <4> HIDE DEF g
      <4> QED BY <3>1, <4>1, Outcomes DEF OneMore, Then
    <3>3. CASE k # 1
      <4>1. k - 1 # 0
        BY <2>1, <3>3
      <4>2. g[k - 1] = Failure
        BY <3>1, <4>1
      <4> HIDE DEF g
      <4> QED BY <3>1, <4>2, Outcomes DEF OneMore, Then
    <3> QED BY <3>2, <3>3
  <2>2. g[0] = Read(<<>>, pos)
    OBVIOUS
  <2> HIDE DEF g
  <2> QED BY <2>1, <2>2
<1>3. g = [k \in 0 .. m |-> g[k]] /\ g[m] = Failure
  BY <1>1
<1> HIDE DEF g
<1>4. IsReading(g, m, read, pos)
  BY <1>2, <1>3 DEF IsReading
<1> QED BY <1>1, <1>3, <1>4, RepeatIsReading

(* Where fewer than four bytes are left there is no number.                *)
LEMMA NoNumber ==
  ASSUME NEW f \in Seq(Byte), NEW pos \in Nat, pos + 3 > Len(f)
  PROVE  readU32(f, pos) = Failure
<1>1. pos + 4 - 1 = pos + 3
  OBVIOUS
<1>2. need(f, pos, 4) = Failure
  BY <1>1 DEF need
<1> QED BY <1>2, Outcomes DEF readU32, Then

(* A file cut off after its magic and before its version is read as one of *)
(* version 0, whose count of functions the sentinel would be.              *)
LEMMA NoVersionNoProgram ==
  ASSUME NEW f \in Seq(Byte), Len(f) < 14, Agrees(f, 1, Magic \o Sentinel), 7 <= Len(f) + 1
  PROVE  readProgram(f, 0, 7) = Failure
<1>1. PICK l \in Nat : l = Len(f) /\ l < 14 /\ 6 <= l
  <2>1. PICK l \in Nat : l = Len(f)
    OBVIOUS
  <2> QED BY <2>1
<1>2. CASE 7 + 3 > l
  <2>1. readU32(f, 7) = Failure
    BY <1>1, <1>2, NoNumber
  <2> QED BY <2>1, Outcomes DEF readProgram, Then
<1>3. CASE ~ (7 + 3 > l)
  <2>1. 1 \in Places(f) /\ 11 \in Places(f)
    BY <1>1, <1>3 DEF Places
  <2>2. 7 \in Places(f) /\ Agrees(f, 7, Sentinel)
    <3>1. 7 = 1 + Len(Magic) /\ 7 <= Len(f) + 1 /\ Magic \in Seq(Byte) /\ Sentinel \in Seq(Byte)
      BY <1>1, HeaderIsFourteenBytes
    <3> QED BY <2>1, <3>1, NextPart
  <2>3. need(f, 7, 4) = Read(Sentinel, 11)
    <3>1. need(f, 7, 4) = Upto(f, 7 + 4, Sentinel)
      BY <2>2, HeaderIsFourteenBytes, BytesRead
    <3>2. 7 + 4 = 11 /\ 11 <= Len(f) + 1
      BY <1>1, <1>3
    <3> QED BY <3>1, <3>2 DEF Upto
  <2>4. readU32(f, 7) = Read(Limit, 11)
    <3>1. Sentinel[3] + Sentinel[4] > 0
      BY DEF Sentinel
    <3> QED BY <2>3, <3>1, Outcomes DEF readU32, Then
  <2>5. readFunction(f, 0, 11) = Failure
    <3>1. readU32(f, 11) = Failure
      BY <1>1, NoNumber
    <3>2. readStr(f, 11) = Failure
      BY <3>1, Outcomes DEF readStr, Then
    <3> QED BY <3>2, Outcomes DEF readFunction, Then
  <2> DEFINE read == [at \in Places(f) |-> readFunction(f, 0, at)]
  <2>6. Repeat(f, Limit, read, 11) = Failure
    <3>1. read[11] = Failure
      BY <2>1, <2>5
    <3> HIDE DEF read
    <3>2. Limit \in Nat /\ Limit >= 1
      BY DEF Limit
    <3> QED BY <3>1, <3>2, RepeatFails
  <2> QED BY <2>4, <2>6, Outcomes DEF readProgram, Then
<1> QED BY <1>2, <1>3

(* A file that is a part of a program's, from the start: it reads as the   *)
(* program if it is all of it, and otherwise not at all.                   *)
LEMMA FileReads ==
  ASSUME NEW prog \in Program, NEW f \in Seq(Byte), Agrees(f, 1, Encoded(prog))
  PROVE  Decoded(f) = Upto(f, 1 + Len(Encoded(prog)), prog)
<1> DEFINE end == 1 + Len(Encoded(prog))
<1>1. PICK l \in Nat : l = Len(f)
  OBVIOUS
<1>2. end \in Int /\ end >= 15
  <2>1. PICK n \in Nat : n = Len(Encoded(prog)) /\ n >= 14
    BY ProgramReads, LenProperties
  <2> QED BY <2>1
<1> HIDE DEF end
<1>3. Agrees(f, 1, Header) /\ (15 <= l + 1 => readProgram(f, 1, 15) = Upto(f, end, prog))
  BY <1>1, ProgramReads DEF end
<1>4. /\ Agrees(f, 1, Magic \o Sentinel) /\ Agrees(f, 1, Magic)
      /\ 7 <= l + 1 => 7 \in Places(f) /\ Agrees(f, 7, Sentinel)
      /\ 11 <= l + 1 => 11 \in Places(f) /\ Agrees(f, 11, u32(Version))
  <2>1. 1 \in Places(f)
    BY <1>1 DEF Places
  <2>2. Agrees(f, 1, Magic \o Sentinel) /\ (11 <= l + 1 => 11 \in Places(f) /\ Agrees(f, 11, u32(Version)))
    <3>1. /\ 11 = 1 + Len(Magic \o Sentinel) /\ Header = (Magic \o Sentinel) \o u32(Version)
          /\ Magic \o Sentinel \in Seq(Byte) /\ u32(Version) \in Seq(Byte)
      BY HeaderIsFourteenBytes DEF Header
    <3> QED BY <1>1, <1>3, <2>1, <3>1, NextPart
  <2>3. 7 = 1 + Len(Magic) /\ Magic \in Seq(Byte) /\ Sentinel \in Seq(Byte)
    BY HeaderIsFourteenBytes
  <2>4. Agrees(f, 1, Magic) /\ (7 <= l + 1 => 7 \in Places(f) /\ Agrees(f, 7, Sentinel))
    BY <1>1, <2>1, <2>2, <2>3, NextPart
  <2> QED BY <2>2, <2>4
<1>5. CASE l < 6
  <2>1. Decoded(f) = Failure
    BY <1>1, <1>5, HeaderIsFourteenBytes DEF Decoded
  <2>2. ~ (end <= l + 1)
    BY <1>2, <1>5
  <2> QED BY <1>1, <2>1, <2>2 DEF Upto, end
<1>6. ASSUME ~ (l < 6)
      PROVE  Decoded(f) =
               IF ~ HasVersion(f) THEN readProgram(f, 0, 7)
               ELSE Then(readU32(f, 11), LAMBDA version, p :
                      IF version > Version THEN Failure ELSE readProgram(f, version, p))
  <2>1. need(f, 1, 6) = Upto(f, 7, Magic)
    <3>1. 1 \in Places(f) /\ 7 = 1 + 6
      BY <1>1 DEF Places
    <3>2. Magic \in Seq(Byte) /\ Len(Magic) = 6
      BY HeaderIsFourteenBytes
    <3>3. need(f, 1, Len(Magic)) = Upto(f, 1 + Len(Magic), Magic)
      BY <1>4, <3>1, <3>2, BytesRead
    <3> QED BY <3>1, <3>2, <3>3
  <2>2. 7 <= l + 1 /\ 1 + 6 - 1 = 6 /\ ~ (6 > l)
    BY <1>6
  <2>3. SubSeq(f, 1, 6) = Magic
    <3>1. need(f, 1, 6) = Read(SubSeq(f, 1, 6), 7)
      BY <1>1, <2>2 DEF need
    <3>2. need(f, 1, 6) = Read(Magic, 7)
      BY <1>1, <2>1, <2>2 DEF Upto
    <3> QED BY <3>1, <3>2, ReadIsOne
  <2>4. Len(Magic) = 6 /\ Len(Magic) + 1 = 7 /\ Len(Magic) + 5 = 11
    BY HeaderIsFourteenBytes
  <2>5. ~ (Len(f) < Len(Magic) \/ SubSeq(f, 1, Len(Magic)) # Magic)
    BY <1>1, <1>6, <2>3, <2>4
  <2> QED BY <2>4, <2>5 DEF Decoded
<1>7. CASE ~ (l < 6) /\ l < 14
  <2>1. ~ HasVersion(f)
    BY <1>1, <1>7, HeaderIsFourteenBytes DEF HasVersion
  <2>2. 7 <= l + 1
    BY <1>7
  <2>3. Decoded(f) = Failure
    BY <1>1, <1>4, <1>6, <1>7, <2>1, <2>2, NoVersionNoProgram
  <2>4. ~ (end <= l + 1)
    BY <1>2, <1>7
  <2> QED BY <1>1, <2>3, <2>4 DEF Upto, end
<1>8. CASE ~ (l < 14)
  <2>1. 7 <= l + 1 /\ 11 <= l + 1 /\ 15 <= l + 1 /\ ~ (l < 6) /\ l >= 14
    BY <1>8
  <2>2. HasVersion(f)
    <3>1. need(f, 7, 4) = Upto(f, 11, Sentinel)
      <4>1. 11 = 7 + 4 /\ Sentinel \in Seq(Byte) /\ Len(Sentinel) = 4
        BY HeaderIsFourteenBytes
      <4>2. 7 \in Places(f) /\ Agrees(f, 7, Sentinel)
        BY <1>4, <2>1
      <4>3. need(f, 7, Len(Sentinel)) = Upto(f, 7 + Len(Sentinel), Sentinel)
        BY <4>1, <4>2, BytesRead
      <4> QED BY <4>1, <4>3
    <3>2. 7 + 4 - 1 = 10 /\ ~ (10 > l) /\ 7 + 4 = 11
      BY <2>1
    <3>3. need(f, 7, 4) = Read(SubSeq(f, 7, 10), 11)
      BY <1>1, <3>2 DEF need
    <3>4. need(f, 7, 4) = Read(Sentinel, 11)
      BY <1>1, <2>1, <3>1 DEF Upto
    <3>5. SubSeq(f, 7, 10) = Sentinel
      BY <3>3, <3>4, ReadIsOne
    <3>6. Len(Magic) + 1 = 7 /\ Len(Magic) + 4 = 10 /\ Len(Magic) + 8 = 14
      BY HeaderIsFourteenBytes
    <3> QED BY <1>1, <2>1, <3>5, <3>6 DEF HasVersion
  <2>3. readU32(f, 11) = Read(1, 15)
    <3>1. readU32(f, 11) = Upto(f, 11 + Len(u32(Version)), Version)
      BY <1>4, <2>1, HeaderIsFourteenBytes, NumberReads
    <3>2. 11 + Len(u32(Version)) = 15
      BY HeaderIsFourteenBytes
    <3> QED BY <1>1, <2>1, <3>1, <3>2 DEF Upto, Version
  <2>4. Decoded(f) = Then(readU32(f, 11), LAMBDA version, p :
                       IF version > Version THEN Failure ELSE readProgram(f, version, p))
    BY <1>6, <2>1, <2>2
  <2>5. Decoded(f) = readProgram(f, 1, 15)
    BY <2>3, <2>4, Outcomes DEF Then, Version
  <2> QED BY <1>3, <2>1, <2>5 DEF end
<1> QED BY <1>5, <1>7, <1>8
-----------------------------------------------------------------------------
(* Whatever the writers did, the file is a part of its program's, from the *)
(* start: the writer opened it empty and only ever appended what came next.*)
IsPart(f, w) == f = SubSeq(w, 1, Len(f)) /\ Len(f) <= Len(w)

IInv ==
  /\ program \in Programs
  /\ file \in Seq(Byte)
  /\ IsPart(file, Encoded(program))

LEMMA PartAgrees ==
  ASSUME NEW w \in Seq(Byte), NEW f \in Seq(Byte), IsPart(f, w)
  PROVE  Agrees(f, 1, w) /\ (1 + Len(w) <= Len(f) + 1 <=> f = w)
<1>1. PICK l \in Nat, n \in Nat : l = Len(f) /\ n = Len(w) /\ l <= n
  <2>1. Len(f) \in Nat /\ Len(w) \in Nat
    BY LenProperties
  <2>2. Len(f) <= Len(w)
    BY DEF IsPart
  <2> QED BY <2>1, <2>2
<1>2. \A i \in 1 .. l : f[i] = w[i]
  BY <1>1 DEF IsPart
<1>3. ASSUME NEW i \in 1 .. n, 1 + i - 1 <= l PROVE f[1 + i - 1] = w[i]
  <2>1. 1 + i - 1 = i /\ i \in 1 .. l
    BY <1>3
  <2> QED BY <1>2, <2>1
<1>4. ASSUME 1 + n <= l + 1 PROVE f = w
  <2>1. l = n
    BY <1>1, <1>4
  <2> QED BY <1>1, <1>2, <2>1, SeqEqual
<1>5. f = w => 1 + n <= l + 1
  BY <1>1
<1> QED BY <1>1, <1>3, <1>4, <1>5 DEF Agrees

LEMMA PartsStayParts ==
  ASSUME CountsFit
  PROVE  Spec => []IInv
<1>1. Init => IInv
  <2> SUFFICES ASSUME Init PROVE IInv
    OBVIOUS
  <2>1. Encoded(program) \in Seq(Byte) /\ Len(Encoded(program)) >= 14
    BY ProgramReads DEF CountsFit, Init
  <2>2. IsPart(<<>>, Encoded(program))
    <3>1. Len(<<>>) = 0 /\ SubSeq(Encoded(program), 1, 0) = <<>>
      BY <2>1, SubSeqEmpty
    <3>2. 0 <= Len(Encoded(program))
      BY <2>1, LenProperties
    <3> QED BY <3>1, <3>2 DEF IsPart
  <2> QED BY <2>2 DEF IInv, Init
<1>2. IInv /\ [Next]_vars => IInv'
  <2> SUFFICES ASSUME IInv, [Next]_vars PROVE IInv'
    OBVIOUS
  <2>1. ASSUME NEW p \in Programs, Open(p) PROVE IInv'
    <3>1. Encoded(p) \in Seq(Byte) /\ Len(Encoded(p)) >= 14
      BY ProgramReads DEF CountsFit
    <3>2. IsPart(<<>>, Encoded(p))
      <4>1. Len(<<>>) = 0 /\ SubSeq(Encoded(p), 1, 0) = <<>>
        BY <3>1, SubSeqEmpty
      <4>2. 0 <= Len(Encoded(p))
        BY <3>1, LenProperties
      <4> QED BY <4>1, <4>2 DEF IsPart
    <3>3. program' = p /\ file' = <<>>
      BY <2>1 DEF Open
    <3> QED BY <3>2, <3>3 DEF IInv
  <2>2. CASE Flush
    <3> DEFINE w == Encoded(program)
    <3>1. w \in Seq(Byte) /\ program' = program
      BY <2>2, ProgramReads DEF CountsFit, IInv, Flush
    <3>2. PICK l \in Nat, n \in Nat : l = Len(file) /\ n = Len(w) /\ l <= n
      BY <3>1, LenProperties DEF IInv, IsPart
    <3>3. /\ file' = Append(file, Head(SubSeq(w, l + 1, n))) /\ SubSeq(w, l + 1, n) # <<>>
          /\ file \in Seq(Byte) /\ file = SubSeq(w, 1, l)
      BY <2>2, <3>2 DEF Flush, Rest, IInv, IsPart
    <3> HIDE DEF w
    <3>4. l + 1 <= n
      <4>1. CASE ~ (l + 1 <= n)
        <5>1. SubSeq(w, l + 1, n) = <<>>
          BY <3>1, <3>2, <4>1, SubSeqEmpty
        <5> QED BY <3>3, <5>1
      <4> QED BY <4>1
    <3>5. Head(SubSeq(w, l + 1, n)) = w[l + 1] /\ w[l + 1] \in Byte
      <4>1. l + 1 \in 1 .. n
        BY <3>4
      <4>2. w[l + 1] \in Byte
        BY <3>1, <3>2, <4>1
      <4>3. \A i \in l + 1 .. n : w[i] \in Byte
        BY <3>1, <3>2
      <4>4. /\ SubSeq(w, l + 1, n) \in Seq(Byte) /\ Len(SubSeq(w, l + 1, n)) = n - l
            /\ \A i \in 1 .. n - l : SubSeq(w, l + 1, n)[i] = w[l + i]
        BY <3>1, <3>2, <3>4
      <4>5. SubSeq(w, l + 1, n)[1] = w[l + 1]
        <5>1. 1 \in 1 .. n - l
          BY <3>4
        <5> QED BY <4>4, <5>1
      <4> QED BY <3>3, <4>2, <4>4, <4>5
    <3>6. file' \in Seq(Byte) /\ Len(file') = l + 1
      <4>1. file' = Append(file, w[l + 1])
        BY <3>3, <3>5
      <4>2. file \in Seq(Byte) /\ w[l + 1] \in Byte /\ Len(file) = l
        BY <3>2, <3>3, <3>5
      <4> QED BY <4>1, <4>2, AppendProperties
    <3>7. SubSeq(w, 1, l + 1) = Append(file, w[l + 1])
      <4>1. SubSeq(w, 1, l + 1) = SubSeq(w, 1, l) \o <<w[l + 1]>>
        <5>1. (l + 1) - 1 = l /\ 1 \in 1 .. n /\ l + 1 \in 1 .. n
          BY <3>4
        <5> QED BY <3>1, <3>2, <3>4, <5>1, SubSeqRecursiveSecond
      <4> QED BY <3>3, <3>5, <4>1, AppendIsConcat
    <3>8. IsPart(file', w)
      BY <3>2, <3>3, <3>4, <3>5, <3>6, <3>7 DEF IsPart
    <3> QED BY <3>1, <3>6, <3>8 DEF IInv, w
  <2>3. CASE Check \/ Close \/ DiskFull \/ Crash \/ UNCHANGED vars
    <3>1. UNCHANGED <<file, program>>
      BY <2>3 DEF Check, Close, DiskFull, Crash, vars
    <3> QED BY <3>1 DEF IInv
  <2> QED BY <2>1, <2>2, <2>3 DEF Next
<1> QED BY <1>1, <1>2, PTL DEF Spec

LEMMA PartsRead ==
  ASSUME CountsFit, IInv
  PROVE  Decoded(file) = IF file = Encoded(program) THEN Read(program, 1 + Len(Encoded(program))) ELSE Failure
<1>1. program \in Program /\ file \in Seq(Byte) /\ Encoded(program) \in Seq(Byte)
  BY ProgramReads DEF CountsFit, IInv
<1>2. Agrees(file, 1, Encoded(program)) /\ (1 + Len(Encoded(program)) <= Len(file) + 1 <=> file = Encoded(program))
  BY <1>1, PartAgrees DEF IInv
<1>3. Decoded(file) = Upto(file, 1 + Len(Encoded(program)), program)
  BY <1>1, <1>2, FileReads
<1> QED BY <1>2, <1>3 DEF Upto

(* A reader that comes at any moment, also after a crash or on a full disk,*)
(* takes the file for a program only if all of it is there.                *)
THEOREM PartsAreRefused ==
  ASSUME CountsFit
  PROVE  Spec => []OnlyWholeFilesRead
<1>1. IInv => OnlyWholeFilesRead
  BY PartsRead, Outcomes DEF OnlyWholeFilesRead
<1> QED BY <1>1, PartsStayParts, PTL

(* A file that is complete reads as the program that was compiled to it.   *)
THEOREM FilesReadBack ==
  ASSUME CountsFit
  PROVE  Spec => []WholeFilesReadBack
<1>1. IInv => WholeFilesReadBack
  BY PartsRead, Outcomes DEF WholeFilesReadBack
<1> QED BY <1>1, PartsStayParts, PTL
=============================================================================
