---------------------------- MODULE BasicLemmas ----------------------------
(***************************************************************************)
(* Facts about numbers and sequences that the proofs of several modules    *)
(* rest on.                                                                *)
(***************************************************************************)
EXTENDS
  Integers, SequencesExt, SequenceTheorems, FiniteSetTheorems, WellFoundedInduction, TLAPS

(* Every nonempty set of natural numbers has a least element. *)
LEMMA LeastElement ==
  ASSUME NEW T \in SUBSET Nat, T # {}
  PROVE  \E m \in T : \A n \in T : m <= n
<1> DEFINE R == OpToRel(<, Nat)
<1>1. IsWellFoundedOn(R, Nat)
  BY NatLessThanWellFounded
<1>2. \A x, y \in Nat : x < y => <<x, y>> \in R
  BY DEF OpToRel
<1> HIDE DEF R
<1>3. PICK x \in T : \A y \in T : ~ (<<y, x>> \in R)
  BY <1>1, WFMin
<1>4. ASSUME NEW y \in T PROVE x <= y
  <2>1. x \in Nat /\ y \in Nat
    OBVIOUS
  <2>2. ~ (<<y, x>> \in R)
    BY <1>3
  <2> QED BY <1>2, <2>1, <2>2
<1> QED BY <1>4

(* Induction on a set: what holds of 0, and of k + 1 when it holds of k,   *)
(* holds of every natural number.                                          *)
LEMMA SetInduction ==
  ASSUME NEW T, 0 \in T, \A k \in Nat : k \in T => k + 1 \in T
  PROVE  Nat \subseteq T
<1> SUFFICES ASSUME Nat \ T # {} PROVE FALSE
  OBVIOUS
<1>1. PICK m \in Nat \ T : \A n \in Nat \ T : m <= n
  <2>1. Nat \ T \in SUBSET Nat
    OBVIOUS
  <2> QED BY <2>1, LeastElement
<1>2. m - 1 \in Nat /\ ~ (m <= m - 1) /\ (m - 1) + 1 = m
  BY <1>1
<1> QED BY <1>1, <1>2

(* The same between two bounds.                                            *)
LEMMA IntervalInduction ==
  ASSUME NEW T, NEW a \in Int, NEW b \in Int, a \in T,
         \A k \in a .. b - 1 : k \in T => k + 1 \in T
  PROVE  a .. b \subseteq T
<1> DEFINE S == {d \in Nat : a + d <= b => a + d \in T}
<1>1. 0 \in S
  OBVIOUS
<1>2. ASSUME NEW d \in Nat, d \in S PROVE d + 1 \in S
  <2> SUFFICES ASSUME a + (d + 1) <= b PROVE a + (d + 1) \in T
    OBVIOUS
  <2>1. a + d \in a .. b - 1 /\ (a + d) + 1 = a + (d + 1) /\ a + d <= b
    OBVIOUS
  <2> QED BY <1>2, <2>1
<1> HIDE DEF S
<1>3. Nat \subseteq S
  BY <1>1, <1>2, SetInduction
<1> SUFFICES ASSUME NEW k \in a .. b PROVE k \in T
  OBVIOUS
<1>4. k - a \in Nat /\ a + (k - a) = k /\ k <= b
  OBVIOUS
<1>5. k - a \in S
  BY <1>3, <1>4
<1> QED BY <1>4, <1>5 DEF S

(* What inserting an element does to those before and after it.            *)
IsInsertion(r, S, s, i, e) ==
  /\ r \in Seq(S)
  /\ Len(r) = Len(s) + 1
  /\ \A j \in 1 .. Len(s) + 1 : r[j] = IF j < i THEN s[j] ELSE IF j = i THEN e ELSE s[j - 1]

(* InsertAt puts one element between the others.                           *)
LEMMA InsertAtElements ==
  ASSUME NEW S, NEW s \in Seq(S), NEW e \in S, NEW i \in 1 .. Len(s) + 1
  PROVE  IsInsertion(InsertAt(s, i, e), S, s, i, e)
<1> DEFINE a == SubSeq(s, 1, i - 1)
           b == SubSeq(s, i, Len(s))
           c == a \o <<e>>
<1>0. Len(s) \in Nat /\ i \in Int
  OBVIOUS
<1>1. /\ a \in Seq(S) /\ Len(a) = i - 1
      /\ \A j \in 1 .. i - 1 : a[j] = s[j]
  OBVIOUS
<1>2. /\ b \in Seq(S) /\ Len(b) = Len(s) - i + 1
      /\ \A j \in 1 .. Len(s) - i + 1 : b[j] = s[i + j - 1]
  OBVIOUS
<1>3. <<e>> \in Seq(S) /\ Len(<<e>>) = 1 /\ <<e>>[1] = e
  OBVIOUS
<1> HIDE DEF a, b
<1>4. /\ c \in Seq(S) /\ Len(c) = i
      /\ \A j \in 1 .. i : c[j] = IF j < i THEN s[j] ELSE e
  BY <1>1, <1>3
<1> HIDE DEF c
<1>5. /\ c \o b \in Seq(S) /\ Len(c \o b) = Len(c) + Len(b)
      /\ \A j \in 1 .. Len(c) + Len(b) :
           (c \o b)[j] = IF j <= Len(c) THEN c[j] ELSE b[j - Len(c)]
  BY <1>2, <1>4, ConcatProperties
<1>6. ASSUME NEW j \in 1 .. Len(s) + 1
      PROVE  (c \o b)[j] = IF j < i THEN s[j] ELSE IF j = i THEN e ELSE s[j - 1]
  <2>0. (c \o b)[j] = IF j <= i THEN c[j] ELSE b[j - i]
    BY <1>0, <1>2, <1>4, <1>5
  <2>1. CASE j <= i
    BY <2>0, <2>1, <1>0, <1>4
  <2>2. CASE j > i
    <3>1. b[j - i] = s[i + (j - i) - 1]
      BY <1>0, <1>2, <2>2
    <3>2. i + (j - i) - 1 = j - 1
      BY <1>0
    <3> QED BY <2>0, <2>2, <3>1, <3>2, <1>0
  <2>3. j <= i \/ j > i
    BY <1>0
  <2> QED BY <2>1, <2>2, <2>3
<1>7. InsertAt(s, i, e) = c \o b
  BY DEF InsertAt, a, b, c
<1>8. Len(c) + Len(b) = Len(s) + 1
  BY <1>0, <1>2, <1>4
<1> QED BY <1>5, <1>6, <1>7, <1>8 DEF IsInsertion

(* What flattening computes, one vector after the other.                   *)
IsFlattening(ss, n, f) ==
  f = [i \in 1 .. n |-> IF i = 1 THEN ss[i] ELSE f[i - 1] \o ss[i]]

(* There is a flattening of every vector of vectors ...                    *)
LEMMA FlatteningExists ==
  ASSUME NEW ss, NEW n \in Nat
  PROVE  \E f : IsFlattening(ss, n, f)
<1> DEFINE Has == {k \in Nat : \E f : IsFlattening(ss, k, f)}
<1>1. 0 \in Has
  <2> DEFINE none == [i \in 1 .. 0 |-> <<>>]
  <2>1. none = [i \in 1 .. 0 |-> IF i = 1 THEN ss[i] ELSE none[i - 1] \o ss[i]]
    OBVIOUS
  <2>2. IsFlattening(ss, 0, none)
    BY <2>1 DEF IsFlattening
  <2> QED BY <2>2
<1>2. ASSUME NEW k \in Nat, k \in Has PROVE k + 1 \in Has
  <2>1. PICK f : IsFlattening(ss, k, f)
    BY <1>2
  <2>2. \A i \in 1 .. k : f[i] = IF i = 1 THEN ss[i] ELSE f[i - 1] \o ss[i]
    BY <2>1 DEF IsFlattening
  <2> DEFINE more == [i \in 1 .. k + 1 |-> IF i = 1 THEN ss[i] ELSE f[i - 1] \o ss[i]]
  <2>3. \A i \in 1 .. k : more[i] = f[i]
    BY <2>2
  <2>4. \A i \in 1 .. k + 1 : i # 1 => i - 1 \in 1 .. k
    OBVIOUS
  <2>5. \A i \in 1 .. k + 1 : more[i] = IF i = 1 THEN ss[i] ELSE more[i - 1] \o ss[i]
    BY <2>3, <2>4
  <2>6. IsFlattening(ss, k + 1, more)
    BY <2>5 DEF IsFlattening
  <2> QED BY <2>6
<1> HIDE DEF Has
<1>3. n \in Has
  BY <1>1, <1>2, SetInduction
<1> QED BY <1>3 DEF Has

(* ... and FlattenSeq is one.                                              *)
LEMMA FlattenSeqIsFlattening ==
  ASSUME NEW ss, Len(ss) \in Nat \ {0}
  PROVE  \E f : IsFlattening(ss, Len(ss), f) /\ FlattenSeq(ss) = f[Len(ss)]
<1>1. PICK n \in Nat : n = Len(ss) /\ n # 0
  OBVIOUS
<1> DEFINE flatten == CHOOSE f : f = [i \in 1 .. n |-> IF i = 1 THEN ss[i] ELSE f[i - 1] \o ss[i]]
<1>2. FlattenSeq(ss) = flatten[n]
  BY <1>1 DEF FlattenSeq
<1>3. \E f : f = [i \in 1 .. n |-> IF i = 1 THEN ss[i] ELSE f[i - 1] \o ss[i]]
  <2>1. PICK f : IsFlattening(ss, n, f)
    BY FlatteningExists
  <2> QED BY <2>1 DEF IsFlattening
<1>4. flatten = [i \in 1 .. n |-> IF i = 1 THEN ss[i] ELSE flatten[i - 1] \o ss[i]]
  BY <1>3
<1> HIDE DEF flatten
<1>5. IsFlattening(ss, n, flatten)
  BY <1>4 DEF IsFlattening
<1> QED BY <1>1, <1>2, <1>5
-----------------------------------------------------------------------------
(* What a sum over a finite set computes: it takes one element after the   *)
(* other, in an order of its own.                                          *)
FirstTaken(s) == CHOOSE x \in s : TRUE

IsSetSum(it, g, S) ==
  it = [s \in SUBSET S |-> IF s = {} THEN 0 ELSE g[FirstTaken(s)] + it[s \ {FirstTaken(s)}]]

(* One element less. *)
LEMMA TakingLeavesLess ==
  ASSUME NEW S, IsFiniteSet(S), NEW k \in Nat, NEW s \in SUBSET S, NEW x \in s, Cardinality(s) <= k + 1
  PROVE  /\ s \ {x} \in SUBSET S
         /\ Cardinality(s \ {x}) \in Nat /\ Cardinality(s \ {x}) <= k
<1>1. IsFiniteSet(s) /\ IsFiniteSet(s \ {x})
  BY FS_Subset, FS_RemoveElement
<1>2. Cardinality(s \ {x}) = Cardinality(s) - 1 /\ Cardinality(s) \in Nat /\ Cardinality(s \ {x}) \in Nat
  BY <1>1, FS_RemoveElement, FS_CardinalityType
<1> QED BY <1>2

(* The empty set is the one of no elements. *)
LEMMA NothingToTake ==
  ASSUME NEW S, IsFiniteSet(S), NEW s \in SUBSET S
  PROVE  /\ Cardinality(s) \in Nat /\ Cardinality(s) <= Cardinality(S) /\ Cardinality(S) \in Nat
         /\ Cardinality(s) <= 0 => s = {}
         /\ s # {} => FirstTaken(s) \in s
<1>1. IsFiniteSet(s) /\ Cardinality(s) <= Cardinality(S)
  BY FS_Subset
<1>2. Cardinality(s) \in Nat /\ Cardinality(S) \in Nat /\ (Cardinality(s) = 0 <=> s = {})
  BY <1>1, FS_EmptySet, FS_CardinalityType
<1>3. s # {} => FirstTaken(s) \in s
  BY DEF FirstTaken
<1> QED BY <1>1, <1>2, <1>3

(* There is a sum over every finite set.                                   *)
LEMMA SetSumExists ==
  ASSUME NEW S, IsFiniteSet(S), NEW g
  PROVE  \E it : IsSetSum(it, g, S)
<1> DEFINE Body(it, s) == IF s = {} THEN 0 ELSE g[FirstTaken(s)] + it[s \ {FirstTaken(s)}]
           Upto(it, k) == \A s \in SUBSET S : Cardinality(s) <= k => it[s] = Body(it, s)
           Has == {k \in Nat : \E it : Upto(it, k)}
<1>1. 0 \in Has
  <2> DEFINE none == [s \in SUBSET S |-> 0]
  <2>1. ASSUME NEW s \in SUBSET S, Cardinality(s) <= 0 PROVE none[s] = Body(none, s)
    BY <2>1, NothingToTake
  <2>2. Upto(none, 0)
    BY <2>1
  <2> QED BY <2>2
<1>2. ASSUME NEW k \in Nat, k \in Has PROVE k + 1 \in Has
  <2>1. PICK it : Upto(it, k)
    BY <1>2
  <2> DEFINE more == [s \in SUBSET S |-> Body(it, s)]
  <2>2. ASSUME NEW s \in SUBSET S, Cardinality(s) <= k PROVE more[s] = it[s]
    BY <2>1, <2>2
  <2>3. ASSUME NEW s \in SUBSET S, Cardinality(s) <= k + 1 PROVE more[s] = Body(more, s)
    <3>1. CASE s = {}
      BY <3>1
    <3>2. CASE s # {}
      <4>1. FirstTaken(s) \in s
        BY <3>2, NothingToTake
      <4> DEFINE rest == s \ {FirstTaken(s)}
      <4>2. rest \in SUBSET S /\ Cardinality(rest) <= k
        BY <4>1, <2>3, TakingLeavesLess
      <4>3. more[rest] = it[rest]
        BY <4>2, <2>2
      <4>4. more[s] = g[FirstTaken(s)] + it[rest]
        BY <3>2
      <4> QED BY <4>3, <4>4, <3>2
    <3> QED BY <3>1, <3>2
  <2> HIDE DEF more
  <2>4. Upto(more, k + 1)
    BY <2>3
  <2> HIDE DEF Upto
  <2> QED BY <2>4
<1> HIDE DEF Has
<1>3. Nat \subseteq Has
  BY <1>1, <1>2, SetInduction
<1>4. Cardinality(S) \in Has
  BY <1>3, FS_CardinalityType
<1>5. PICK it : Upto(it, Cardinality(S))
  BY <1>4 DEF Has
<1>6. \A s \in SUBSET S : it[s] = Body(it, s)
  BY <1>5, NothingToTake
<1> DEFINE sum == [s \in SUBSET S |-> it[s]]
<1>7. ASSUME NEW s \in SUBSET S PROVE sum[s] = Body(sum, s)
  <2>1. s \ {FirstTaken(s)} \in SUBSET S
    OBVIOUS
  <2>2. sum[s \ {FirstTaken(s)}] = it[s \ {FirstTaken(s)}]
    BY <2>1
  <2> QED BY <1>6, <2>2
<1>8. sum = [s \in SUBSET S |-> sum[s]]
  OBVIOUS
<1> HIDE DEF sum
<1>9. IsSetSum(sum, g, S)
  BY <1>7, <1>8 DEF IsSetSum
<1> QED BY <1>9

(* A sum of natural numbers is one, and any element may be taken first.    *)
LEMMA SetSumIsNatural ==
  ASSUME NEW S, IsFiniteSet(S), NEW g \in [S -> Nat], NEW it, IsSetSum(it, g, S), NEW s \in SUBSET S
  PROVE  it[s] \in Nat
<1> DEFINE Holds == {k \in Nat : \A t \in SUBSET S : Cardinality(t) <= k => it[t] \in Nat}
<1>0. ASSUME NEW t \in SUBSET S PROVE it[t] = IF t = {} THEN 0 ELSE g[FirstTaken(t)] + it[t \ {FirstTaken(t)}]
  BY DEF IsSetSum
<1>1. 0 \in Holds
  BY <1>0, NothingToTake
<1>2. ASSUME NEW k \in Nat, k \in Holds PROVE k + 1 \in Holds
  <2>1. ASSUME NEW t \in SUBSET S, Cardinality(t) <= k + 1, t # {} PROVE it[t] \in Nat
    <3>1. FirstTaken(t) \in t /\ g[FirstTaken(t)] \in Nat
      BY <2>1, NothingToTake
    <3>2. t \ {FirstTaken(t)} \in SUBSET S /\ Cardinality(t \ {FirstTaken(t)}) <= k
      BY <2>1, <3>1, TakingLeavesLess
    <3>3. it[t \ {FirstTaken(t)}] \in Nat
      BY <3>2, <1>2
    <3>4. it[t] = g[FirstTaken(t)] + it[t \ {FirstTaken(t)}]
      BY <1>0, <2>1
    <3> QED BY <3>1, <3>3, <3>4
  <2>2. ASSUME NEW t \in SUBSET S, t = {} PROVE it[t] \in Nat
    <3>1. it[t] = 0
      BY <1>0, <2>2
    <3> QED BY <3>1
  <2> QED BY <2>1, <2>2
<1> HIDE DEF Holds
<1>3. Cardinality(S) \in Holds
  BY <1>1, <1>2, SetInduction, FS_CardinalityType
<1> QED BY <1>3, NothingToTake DEF Holds

(* A sum does not depend on the element it begins with.                    *)
LEMMA SetSumTakesAny ==
  ASSUME NEW S, IsFiniteSet(S), NEW g \in [S -> Nat], NEW it, IsSetSum(it, g, S), NEW s \in SUBSET S, NEW x \in s
  PROVE  it[s] = g[x] + it[s \ {x}]
<1> DEFINE Holds == {k \in Nat : \A t \in SUBSET S : \A y \in t : Cardinality(t) <= k => it[t] = g[y] + it[t \ {y}]}
<1>0. ASSUME NEW t \in SUBSET S PROVE it[t] = IF t = {} THEN 0 ELSE g[FirstTaken(t)] + it[t \ {FirstTaken(t)}]
  BY DEF IsSetSum
<1>1. 0 \in Holds
  BY NothingToTake
<1>2. ASSUME NEW k \in Nat, k \in Holds PROVE k + 1 \in Holds
  <2> SUFFICES ASSUME NEW t \in SUBSET S, NEW y \in t, Cardinality(t) <= k + 1
               PROVE  it[t] = g[y] + it[t \ {y}]
    OBVIOUS
  <2> DEFINE z == FirstTaken(t)
  <2>1. z \in t
    BY NothingToTake
  <2>2. it[t] = g[z] + it[t \ {z}]
    BY <1>0
  <2> HIDE DEF z
  <2>3. CASE y = z
    BY <2>2, <2>3
  <2>4. CASE y # z
    <3>1. /\ t \ {z} \in SUBSET S /\ y \in t \ {z} /\ Cardinality(t \ {z}) <= k
          /\ t \ {y} \in SUBSET S /\ z \in t \ {y} /\ Cardinality(t \ {y}) <= k
      BY <2>1, <2>4, TakingLeavesLess
    <3>2. it[t \ {z}] = g[y] + it[(t \ {z}) \ {y}] /\ it[t \ {y}] = g[z] + it[(t \ {y}) \ {z}]
      BY <3>1, <1>2
    <3>3. (t \ {z}) \ {y} = (t \ {y}) \ {z} /\ (t \ {z}) \ {y} \in SUBSET S
      OBVIOUS
    <3>4. g[y] \in Nat /\ g[z] \in Nat /\ it[(t \ {z}) \ {y}] \in Nat
      BY <2>1, <3>3, SetSumIsNatural
    <3> DEFINE rest == it[(t \ {z}) \ {y}]
    <3>5. it[t] = g[z] + (g[y] + rest) /\ it[t \ {y}] = g[z] + rest /\ rest \in Nat
      BY <3>2, <3>3, <3>4, <2>2
    <3> HIDE DEF rest
    <3> QED BY <3>4, <3>5
  <2> QED BY <2>3, <2>4
<1> HIDE DEF Holds
<1>3. Cardinality(S) \in Holds
  BY <1>1, <1>2, SetInduction, FS_CardinalityType
<1> QED BY <1>3, NothingToTake DEF Holds
-----------------------------------------------------------------------------
(* The powers of two are what the subsets of an interval are counted by.   *)
LEMMA PowerCounts ==
  ASSUME NEW n \in Nat
  PROVE  IsFiniteSet(SUBSET (1 .. n)) /\ Cardinality(SUBSET (1 .. n)) = 2^n
<1>1. IsFiniteSet(1 .. n) /\ Cardinality(1 .. n) = n
  BY FS_Interval
<1> QED BY <1>1, FS_SUBSET

(* Powers of two: 1 for 0, twice as much for each one more.                *)
LEMMA PowerZero == 2^0 = 1
OBVIOUS

(* Powers are numbers.                                                     *)
LEMMA PowerType ==
  ASSUME NEW n \in Nat
  PROVE  2^n \in Nat
BY PowerCounts, FS_CardinalityType

(* The subsets of 1 .. n + 1 are those of 1 .. n, without n + 1 and with.  *)
LEMMA PowerDoubles ==
  ASSUME NEW n \in Nat
  PROVE  2^(n + 1) = 2 * 2^n
<1> DEFINE S == SUBSET (1 .. n)
           T == {s \cup {n + 1} : s \in S}
           f == [s \in S |-> s \cup {n + 1}]
<1>1. SUBSET (1 .. n + 1) = S \cup T
  <2>1. ASSUME NEW s \in SUBSET (1 .. n + 1) PROVE s \in S \cup T
    <3>1. CASE n + 1 \in s
      <4>1. s \ {n + 1} \in S /\ s = (s \ {n + 1}) \cup {n + 1}
        BY <3>1
      <4> QED BY <4>1
    <3>2. CASE n + 1 \notin s
      BY <3>2
    <3> QED BY <3>1, <3>2
  <2>2. ASSUME NEW s \in S \cup T PROVE s \in SUBSET (1 .. n + 1)
    OBVIOUS
  <2> QED BY <2>1, <2>2
<1>2. \A s \in S : n + 1 \notin s
  OBVIOUS
<1>3. S \cap T = {}
  BY <1>2
<1>4. f \in Bijection(S, T)
  <2>1. f \in [S -> T] /\ \A s \in S : f[s] = s \cup {n + 1}
    OBVIOUS
  <2>2. \A s \in S, u \in S : s \cup {n + 1} = u \cup {n + 1} => s = u
    BY <1>2
  <2>3. \A u \in T : \E s \in S : f[s] = u
    OBVIOUS
  <2> HIDE DEF S, T, f
  <2> QED BY <2>1, <2>2, <2>3 DEF Bijection, Injection, Surjection, IsInjective
<1>5. IsFiniteSet(T) /\ Cardinality(T) = Cardinality(S)
  <2>1. ExistsBijection(S, T)
    BY <1>4 DEF ExistsBijection
  <2> HIDE DEF T
  <2> QED BY <2>1, PowerCounts, FS_Bijection
<1> HIDE DEF S, T
<1>6. IsFiniteSet(S) /\ Cardinality(S) = 2^n
  BY PowerCounts DEF S
<1>7. Cardinality(S \cup T) = Cardinality(S) + Cardinality(T) - Cardinality(S \cap T)
  BY <1>5, <1>6, FS_Union
<1>8. Cardinality(S \cap T) = 0
  BY <1>3, FS_EmptySet
<1>9. Cardinality(S \cup T) = 2^(n + 1)
  <2>1. n + 1 \in Nat
    OBVIOUS
  <2>2. Cardinality(SUBSET (1 .. n + 1)) = 2^(n + 1)
    BY <2>1, PowerCounts
  <2> QED BY <1>1, <2>2
<1> QED BY <1>5, <1>6, <1>7, <1>8, <1>9, PowerType

(* They are positive, ...                                                  *)
LEMMA PowerPositive ==
  ASSUME NEW n \in Nat
  PROVE  2^n \in Nat \ {0}
<1> DEFINE P == {k \in Nat : 2^k \in Nat \ {0}}
<1>1. 0 \in P
  BY PowerZero
<1>2. \A k \in Nat : k \in P => k + 1 \in P
  BY PowerDoubles
<1> HIDE DEF P
<1>3. n \in P
  BY <1>1, <1>2, SetInduction
<1> QED BY <1>3 DEF P

(* ... they multiply as their exponents add, ...                           *)
LEMMA PowerSum ==
  ASSUME NEW m \in Nat, NEW n \in Nat
  PROVE  2^(m + n) = 2^m * 2^n
<1> DEFINE P == {k \in Nat : 2^(m + k) = 2^m * 2^k}
<1>1. 0 \in P
  BY PowerZero, PowerType
<1>2. ASSUME NEW k \in Nat, k \in P PROVE k + 1 \in P
  <2>1. 2^(m + k) = 2^m * 2^k
    BY <1>2
  <2>2. 2^((m + k) + 1) = 2 * 2^(m + k)
    BY PowerDoubles
  <2>3. 2^(k + 1) = 2 * 2^k
    BY PowerDoubles
  <2>4. PICK x \in Nat, y \in Nat, z \in Nat : x = 2^m /\ y = 2^k /\ z = 2^(m + k)
    BY PowerType
  <2>5. 2 * (x * y) = x * (2 * y)
    OBVIOUS
  <2>6. (m + k) + 1 = m + (k + 1)
    OBVIOUS
  <2> QED BY <2>1, <2>2, <2>3, <2>4, <2>5, <2>6
<1> HIDE DEF P
<1>3. n \in P
  BY <1>1, <1>2, SetInduction
<1> QED BY <1>3 DEF P

(* ... and they grow.                                                      *)
LEMMA PowersGrow ==
  ASSUME NEW m \in Nat, NEW n \in Nat, m <= n
  PROVE  2^m <= 2^n
<1>1. n - m \in Nat /\ m + (n - m) = n
  OBVIOUS
<1>2. 2^n = 2^m * 2^(n - m)
  BY <1>1, PowerSum
<1>3. PICK x \in Nat \ {0}, y \in Nat \ {0} : x = 2^m /\ y = 2^(n - m)
  BY <1>1, PowerPositive
<1>4. x * y >= x
  OBVIOUS
<1> QED BY <1>2, <1>3, <1>4
-----------------------------------------------------------------------------
(* Remainders.                                                             *)

(* m and n are the same but for a multiple of b.                           *)
SameModulo(m, n, b) == \E k \in Int : m = n + b * k

(* Every number is a multiple of another and a remainder ...               *)
LEMMA NaturalDivMod ==
  ASSUME NEW b \in Nat \ {0}, NEW v \in Nat
  PROVE  \E q \in Nat, r \in 0 .. b - 1 : v = b * q + r
<1> DEFINE P == {k \in Nat : \E q \in Nat, r \in 0 .. b - 1 : k = b * q + r}
<1>1. 0 \in P
  <2>1. 0 \in 0 .. b - 1 /\ 0 = b * 0 + 0
    OBVIOUS
  <2> QED BY <2>1
<1>2. ASSUME NEW k \in Nat, k \in P PROVE k + 1 \in P
  <2>1. PICK q \in Nat, r \in 0 .. b - 1 : k = b * q + r
    BY <1>2
  <2>2. CASE r < b - 1
    <3>1. r + 1 \in 0 .. b - 1
      BY <2>2
    <3>2. k + 1 = b * q + (r + 1)
      BY <2>1
    <3>3. PICK d \in 0 .. b - 1 : d = r + 1
      BY <3>1
    <3>4. k + 1 = b * q + d
      BY <3>2, <3>3
    <3> QED BY <3>4
  <2>3. CASE r = b - 1
    <3>1. b * (q + 1) = b * q + b
      OBVIOUS
    <3>2. k + 1 = b * (q + 1) + 0 /\ 0 \in 0 .. b - 1 /\ q + 1 \in Nat
      BY <2>1, <2>3, <3>1
    <3>3. PICK p \in Nat : p = q + 1
      OBVIOUS
    <3>4. k + 1 = b * p + 0
      BY <3>2, <3>3
    <3> QED BY <3>2, <3>4
  <2> QED BY <2>2, <2>3
<1> HIDE DEF P
<1>3. v \in P
  BY <1>1, <1>2, SetInduction
<1> QED BY <1>3 DEF P

(* ... which \div and % give, below 0 too.                                 *)
LEMMA DivMod ==
  ASSUME NEW b \in Nat \ {0}, NEW v \in Int
  PROVE  /\ v % b \in 0 .. b - 1 /\ v \div b \in Int
         /\ v = b * (v \div b) + (v % b)
<1>1. PICK q \in Int, r \in 0 .. b - 1 : v = b * q + r
  <2>1. CASE v >= 0
    <3>1. v \in Nat
      BY <2>1
    <3> QED BY <3>1, NaturalDivMod
  <2>2. CASE v < 0
    <3>1. -v - 1 \in Nat
      BY <2>2
    <3>2. PICK q \in Nat, r \in 0 .. b - 1 : -v - 1 = b * q + r
      BY <3>1, NaturalDivMod
    <3>3. b * (-q - 1) = -(b * q) - b
      OBVIOUS
    <3>4. v = b * (-q - 1) + (b - 1 - r)
      BY <3>2, <3>3
    <3>5. -q - 1 \in Int /\ b - 1 - r \in 0 .. b - 1
      OBVIOUS
    <3> QED BY <3>4, <3>5
  <2> QED BY <2>1, <2>2
<1>2. v % b = r
  BY <1>1
<1>3. v \div b = q
  BY <1>1
<1> QED BY <1>1, <1>2, <1>3

(* Numbers that are the same modulo b have the same remainder, ...         *)
LEMMA ModSame ==
  ASSUME NEW b \in Nat \ {0}, NEW m \in Int, NEW n \in Int, SameModulo(m, n, b)
  PROVE  m % b = n % b
<1>1. PICK k \in Int : m = n + b * k
  BY DEF SameModulo
<1>2. PICK q \in Int, r \in 0 .. b - 1 : q = n \div b /\ r = n % b /\ n = b * q + r
  BY DivMod
<1>3. b * (q + k) = b * q + b * k
  OBVIOUS
<1>4. m = b * (q + k) + r
  BY <1>1, <1>2, <1>3
<1>5. m % b = r
  BY <1>4
<1> QED BY <1>2, <1>5

(* ... and a remainder is the same as its number.                          *)
LEMMA ModIsSame ==
  ASSUME NEW b \in Nat \ {0}, NEW n \in Int
  PROVE  SameModulo(n % b, n, b)
<1>1. PICK q \in Int : q = n \div b /\ n = b * q + (n % b)
  BY DivMod
<1>2. n % b \in Int
  BY DivMod
<1>3. n % b = n + b * (-q)
  <2>1. b * (-q) = -(b * q)
    OBVIOUS
  <2> QED BY <1>1, <1>2, <2>1
<1>4. -q \in Int
  OBVIOUS
<1> QED BY <1>3, <1>4 DEF SameModulo
-----------------------------------------------------------------------------
(* Numbers and the bytes they are made of.                                 *)

(* The bytes d[0] .. d[n - 1], each of size bits, at their places.         *)
Weighed(d, n, size) == [b \in 0 .. n - 1 |-> d[b] * 2^(b * size)]

IsByteSum(it, d, n, size) ==
  /\ d \in [0 .. n - 1 -> 0 .. 2^size - 1]
  /\ IsSetSum(it, Weighed(d, n, size), 0 .. n - 1)

(* One byte more, above the others.                                        *)
LEMMA ByteAbove ==
  ASSUME NEW n \in Nat, NEW size \in Nat, NEW d, NEW it, IsByteSum(it, d, n, size), NEW m \in 0 .. n - 1
  PROVE  /\ it[0 .. m] = d[m] * 2^(m * size) + it[0 .. m - 1]
         /\ it[0 .. m - 1] \in Nat /\ it[0 .. m] \in Nat /\ d[m] \in Nat /\ m * size \in Nat
<1> DEFINE S == 0 .. n - 1
           g == Weighed(d, n, size)
<1>1. IsFiniteSet(S)
  BY FS_Interval
<1>2. ASSUME NEW b \in S PROVE d[b] \in Nat /\ b * size \in Nat /\ 2^(b * size) \in Nat /\ d[b] * 2^(b * size) \in Nat
  <2>1. d[b] \in 0 .. 2^size - 1
    BY DEF IsByteSum
  <2>2. d[b] \in Nat
    BY <2>1, PowerType
  <2>3. b * size \in Nat
    OBVIOUS
  <2>4. 2^(b * size) \in Nat
    BY <2>3, PowerType
  <2> QED BY <2>2, <2>3, <2>4
<1>3. g \in [S -> Nat]
  BY <1>2 DEF Weighed
<1>4. 0 .. m \in SUBSET S /\ m \in 0 .. m /\ (0 .. m) \ {m} = 0 .. m - 1 /\ 0 .. m - 1 \in SUBSET S
  OBVIOUS
<1>5. IsSetSum(it, g, S)
  BY DEF IsByteSum
<1>6. g[m] = d[m] * 2^(m * size)
  BY DEF Weighed
<1> HIDE DEF S, g
<1>7. it[0 .. m] = g[m] + it[(0 .. m) \ {m}]
  <2>1. PICK t \in SUBSET S : t = 0 .. m
    BY <1>4
  <2>2. m \in t
    BY <2>1, <1>4
  <2>3. ASSUME NEW s \in SUBSET S, NEW b \in s PROVE it[s] = g[b] + it[s \ {b}]
    BY <1>1, <1>3, <1>5, SetSumTakesAny
  <2>4. it[t] = g[m] + it[t \ {m}]
    BY <2>2, <2>3
  <2> QED BY <2>1, <2>4
<1>8. it[0 .. m - 1] \in Nat /\ it[0 .. m] \in Nat
  BY <1>1, <1>3, <1>4, <1>5, SetSumIsNatural
<1>9. d[m] \in Nat /\ m * size \in Nat
  BY <1>2 DEF S
<1> QED BY <1>4, <1>6, <1>7, <1>8, <1>9

(* The first m bytes make a number of m * size bits ...                    *)
LEMMA BytesBelow ==
  ASSUME NEW n \in Nat, NEW size \in Nat, NEW d, NEW it, IsByteSum(it, d, n, size), NEW m \in 0 .. n
  PROVE  it[0 .. m - 1] \in 0 .. 2^(m * size) - 1
<1> DEFINE T == {k \in 0 .. n : it[0 .. k - 1] \in 0 .. 2^(k * size) - 1}
<1>1. 0 \in T
  <2>1. it[{}] = 0
    BY DEF IsByteSum, IsSetSum
  <2>2. 0 .. 0 - 1 = {} /\ 0 * size = 0 /\ 0 \in 0 .. n
    OBVIOUS
  <2>3. 2^(0 * size) = 1
    BY <2>2, PowerZero
  <2>4. it[0 .. 0 - 1] = 0
    BY <2>1, <2>2
  <2> QED BY <2>2, <2>3, <2>4
<1>2. ASSUME NEW k \in 0 .. n - 1, k \in T PROVE k + 1 \in T
  <2>0. /\ it[0 .. k] = d[k] * 2^(k * size) + it[0 .. k - 1]
        /\ it[0 .. k - 1] \in Nat /\ it[0 .. k] \in Nat /\ d[k] \in Nat
    BY ByteAbove
  <2>1. PICK x \in Nat, c \in Nat, y \in Nat : x = it[0 .. k - 1] /\ c = d[k] /\ y = it[0 .. k]
    BY <2>0
  <2>2. c \in 0 .. 2^size - 1
    BY <2>1 DEF IsByteSum
  <2>3. k * size \in Nat /\ (k + 1) * size = k * size + size
    OBVIOUS
  <2>4. PICK p \in Nat \ {0}, q \in Nat \ {0} : p = 2^(k * size) /\ q = 2^size /\ 2^((k + 1) * size) = p * q
    BY <2>3, PowerSum, PowerPositive
  <2>5. y = c * p + x
    BY <2>0, <2>1, <2>4
  <2>6. x \in 0 .. p - 1 /\ c \in 0 .. q - 1
    BY <2>1, <2>2, <2>4, <1>2
  <2>7. c * p <= (q - 1) * p
    BY <2>6
  <2>8. (q - 1) * p = p * q - p
    OBVIOUS
  <2>9. y \in 0 .. p * q - 1
    BY <2>5, <2>6, <2>7, <2>8
  <2>10. (k + 1) - 1 = k /\ k + 1 \in 0 .. n
    OBVIOUS
  <2> QED BY <2>1, <2>4, <2>9, <2>10
<1> HIDE DEF T
<1>3. \A k \in 0 .. n - 1 : k \in T => k + 1 \in T
  BY <1>2
<1>4. 0 .. n \subseteq T
  BY <1>1, <1>3, IntervalInduction
<1> QED BY <1>4 DEF T

(* The number n is a byte c at place m, low below it and others above it.  *)
HasByte(n, m, size, c, low) == \E k \in Nat : n = low + 2^(m * size) * (c + 2^size * k)

(* ... above which are byte m and what is a multiple of the next place.    *)
LEMMA BytesAbove ==
  ASSUME NEW n \in Nat, NEW size \in Nat, NEW d, NEW it, IsByteSum(it, d, n, size), NEW m \in 0 .. n - 1
  PROVE  HasByte(it[0 .. n - 1], m, size, d[m], it[0 .. m - 1])
<1>0. /\ it[0 .. m] = d[m] * 2^(m * size) + it[0 .. m - 1]
      /\ it[0 .. m - 1] \in Nat /\ it[0 .. m] \in Nat /\ d[m] \in Nat
  BY ByteAbove
<1>1. PICK c \in Nat, x \in Nat : c = d[m] /\ x = it[0 .. m - 1] /\ it[0 .. m] = c * 2^(m * size) + x
  BY <1>0
<1>2. m * size \in Nat
  OBVIOUS
<1>3. PICK p \in Nat \ {0}, q \in Nat \ {0} : p = 2^(m * size) /\ q = 2^size
  BY <1>2, PowerPositive
<1> DEFINE T == {j \in m + 1 .. n : \E k \in Nat : it[0 .. j - 1] = x + p * (c + q * k)}
<1>4. m + 1 \in T
  <2>1. (m + 1) - 1 = m /\ p * (c + q * 0) = c * p
    OBVIOUS
  <2>2. it[0 .. m] = x + p * (c + q * 0)
    BY <1>1, <1>3, <2>1
  <2> QED BY <2>1, <2>2
<1>5. ASSUME NEW j \in m + 1 .. n - 1, j \in T PROVE j + 1 \in T
  <2>1. PICK k \in Nat : it[0 .. j - 1] = x + p * (c + q * k)
    BY <1>5
  <2>2. PICK a \in Nat : a = d[j] /\ it[0 .. j] = d[j] * 2^(j * size) + it[0 .. j - 1]
    BY ByteAbove
  <2>3. PICK r \in Nat : 2^(j * size) = p * (q * r)
    <3>1. j - m - 1 \in Nat /\ (j - m - 1) * size \in Nat
      OBVIOUS
    <3>2. j * size = (m * size + size) + (j - m - 1) * size
      OBVIOUS
    <3>3. 2^(m * size + size) = p * q
      BY <1>2, <1>3, PowerSum
    <3>4. 2^(j * size) = (p * q) * 2^((j - m - 1) * size)
      <4>1. m * size + size \in Nat
        BY <1>2
      <4> QED BY <3>1, <3>2, <3>3, <4>1, PowerSum
    <3>5. PICK r \in Nat : r = 2^((j - m - 1) * size)
      BY <3>1, PowerType
    <3>6. (p * q) * r = p * (q * r)
      OBVIOUS
    <3> QED BY <3>4, <3>5, <3>6
  <2>4. a * (p * (q * r)) + (x + p * (c + q * k)) = x + p * (c + q * (a * r + k))
    <3>1. a * (p * (q * r)) = p * (q * (a * r))
      OBVIOUS
    <3>2. q * (a * r + k) = q * (a * r) + q * k
      OBVIOUS
    <3>3. PICK u \in Nat, v \in Nat : u = q * (a * r) /\ v = q * k
      OBVIOUS
    <3>4. p * (c + (u + v)) = p * (c + v) + p * u
      OBVIOUS
    <3> QED BY <3>1, <3>2, <3>3, <3>4
  <2>5. it[0 .. j] = a * (p * (q * r)) + (x + p * (c + q * k))
    BY <2>1, <2>2, <2>3, Zenon
  <2>6. PICK l \in Nat : l = a * r + k
    OBVIOUS
  <2>7. it[0 .. j] = x + p * (c + q * l)
    BY <2>4, <2>5, <2>6, Zenon
  <2>8. (j + 1) - 1 = j /\ j + 1 \in m + 1 .. n
    OBVIOUS
  <2> QED BY <2>7, <2>8
<1> HIDE DEF T
<1>6. \A j \in m + 1 .. n - 1 : j \in T => j + 1 \in T
  BY <1>5
<1>7. m + 1 .. n \subseteq T /\ n \in m + 1 .. n
  BY <1>4, <1>6, IntervalInduction
<1>8. n \in T
  BY <1>7
<1>9. PICK k \in Nat : it[0 .. n - 1] = x + p * (c + q * k)
  BY <1>8 DEF T
<1> QED BY <1>1, <1>3, <1>9 DEF HasByte

(* A number and what it is read as in a word of w bits have the same bytes *)
(* within the word.                                                        *)
LEMMA BytesWithin ==
  ASSUME NEW size \in Nat, NEW m \in Nat, NEW w \in Nat, (m + 1) * size <= w,
         NEW low \in 0 .. 2^(m * size) - 1, NEW c \in 0 .. 2^size - 1, NEW n, NEW v \in Int,
         HasByte(n, m, size, c, low), SameModulo(v, n, 2^w)
  PROVE  (v \div 2^(m * size)) % 2^size = c
<1>1. m * size \in Nat /\ (m + 1) * size = m * size + size /\ w - (m * size + size) \in Nat
      /\ w = (m * size + size) + (w - (m * size + size))
  OBVIOUS
<1>2. PICK p \in Nat \ {0}, q \in Nat \ {0}, r \in Nat \ {0} :
        p = 2^(m * size) /\ q = 2^size /\ r = 2^(w - (m * size + size))
  BY <1>1, PowerPositive
<1>3. 2^w = (p * q) * r
  <2>1. m * size + size \in Nat /\ 2^(m * size + size) = p * q
    BY <1>1, <1>2, PowerSum
  <2> QED BY <1>1, <1>2, <2>1, PowerSum
<1>0. PICK k \in Nat : n = low + p * (c + q * k)
  BY <1>2 DEF HasByte
<1>4. PICK h \in Int : v = (low + p * (c + q * k)) + ((p * q) * r) * h
  BY <1>0, <1>2, <1>3 DEF SameModulo
<1>5. c \in Int /\ low \in Int /\ low \in 0 .. p - 1 /\ c \in 0 .. q - 1
  BY <1>2
<1>6. ((p * q) * r) * h = p * (q * (r * h))
  OBVIOUS
<1>7. PICK a \in Int : a = r * h
  OBVIOUS
<1>8. p * (c + q * k) + p * (q * a) = p * (q * (k + a) + c)
  <2>1. q * (k + a) = q * k + q * a
    OBVIOUS
  <2>2. PICK u \in Int, t \in Int : u = q * k /\ t = q * a
    OBVIOUS
  <2>3. p * (c + u) + p * t = p * ((u + t) + c)
    BY <1>5
  <2> QED BY <2>1, <2>2, <2>3
<1>9. PICK b \in Int : b = k + a
  OBVIOUS
<1>10. PICK e \in Int : e = q * b + c
  BY <1>5, <1>9
<1>11. v = p * e + low
  BY <1>4, <1>5, <1>6, <1>7, <1>8, <1>9, <1>10
<1>12. v \div p = e
  BY <1>5, <1>11
<1>13. e % q = c
  BY <1>5, <1>10
<1> QED BY <1>2, <1>12, <1>13
-----------------------------------------------------------------------------
(* The layout of compiled functions, laid out one after the other: each    *)
(* starts where the one before it ends.                                    *)

(* What CodeImage computes as Start.                                       *)
StartOf(laid, i) == FoldLeft(LAMBDA sum, f : sum + f.size, 0, SubSeq(laid, 1, i - 1))

Sized(laid) ==
  /\ Len(laid) \in Nat /\ DOMAIN laid = 1 .. Len(laid)
  /\ \A i \in DOMAIN laid : laid[i].size \in Nat

(* sum adds the sizes of any of the first m functions, the last one last.  *)
IsSum(laid, m, sum) ==
  sum = [t \in SUBSET (1 .. m) |->
          IF t = {} THEN 0 ELSE sum[t \ {Max(t)}] + laid[Max(t)].size]

(* The greatest of some of the first m numbers is one of them.             *)
LEMMA MaxOfFinite ==
  ASSUME NEW m \in Nat, NEW t \in SUBSET (1 .. m), t # {}
  PROVE  Max(t) \in t /\ \A x \in t : x <= Max(t)
<1> DEFINE Gaps == {m - x : x \in t}
<1>1. Gaps \in SUBSET Nat /\ Gaps # {}
  <2>1. \A x \in t : x \in 1 .. m /\ m - x \in Nat
    OBVIOUS
  <2> QED BY <2>1
<1>2. PICK d \in Gaps : \A e \in Gaps : d <= e
  BY <1>1, LeastElement
<1>3. PICK x \in t : d = m - x
  BY <1>2
<1>4. \A y \in t : x >= y
  BY <1>2, <1>3
<1>5. Max(t) \in t /\ \A y \in t : Max(t) >= y
  BY <1>4 DEF Max
<1> QED BY <1>5

(* The greatest of an interval is its last.                                *)
LEMMA MaxOfInterval ==
  ASSUME NEW m \in Nat
  PROVE  Max(1 .. m + 1) = m + 1 /\ 1 .. m + 1 # {} /\ (1 .. m + 1) \ {m + 1} = 1 .. m
<1>1. m + 1 \in Nat /\ m + 1 \in 1 .. m + 1
  OBVIOUS
<1>2. Max(1 .. m + 1) \in 1 .. m + 1 /\ m + 1 <= Max(1 .. m + 1)
  BY <1>1, MaxOfFinite
<1> QED BY <1>1, <1>2

(* The sum over a set takes its greatest last.                             *)
LEMMA SumOfSet ==
  ASSUME NEW laid, NEW m \in Nat, NEW sum, IsSum(laid, m, sum), NEW t \in SUBSET (1 .. m)
  PROVE  sum[t] = IF t = {} THEN 0 ELSE sum[t \ {Max(t)}] + laid[Max(t)].size
BY DEF IsSum

(* The recursion of the fold has a solution.                               *)
LEMMA SumExists ==
  ASSUME NEW laid, NEW m \in Nat
  PROVE  \E sum : IsSum(laid, m, sum)
<1> DEFINE Has == {k \in Nat : \E sum : IsSum(laid, k, sum)}
<1>1. 0 \in Has
  <2> DEFINE zero == [t \in SUBSET (1 .. 0) |-> 0]
  <2>1. zero = [t \in SUBSET (1 .. 0) |->
                 IF t = {} THEN 0 ELSE zero[t \ {Max(t)}] + laid[Max(t)].size]
    OBVIOUS
  <2>2. IsSum(laid, 0, zero)
    BY <2>1 DEF IsSum
  <2> QED BY <2>2
<1>2. ASSUME NEW k \in Nat, k \in Has PROVE k + 1 \in Has
  <2>1. PICK sum : IsSum(laid, k, sum)
    BY <1>2
  <2> DEFINE more == [t \in SUBSET (1 .. k + 1) |->
                       IF t = {} THEN 0 ELSE sum[t \ {Max(t)}] + laid[Max(t)].size]
  <2>2. ASSUME NEW t \in SUBSET (1 .. k) PROVE more[t] = sum[t]
    <3>1. t \in SUBSET (1 .. k + 1)
      OBVIOUS
    <3>2. sum[t] = IF t = {} THEN 0 ELSE sum[t \ {Max(t)}] + laid[Max(t)].size
      BY <2>1, SumOfSet
    <3> QED BY <3>1, <3>2
  <2>3. ASSUME NEW t \in SUBSET (1 .. k + 1), t # {}
        PROVE  t \ {Max(t)} \in SUBSET (1 .. k)
    <3>1. Max(t) \in t /\ \A x \in t : x <= Max(t)
      BY <2>3, MaxOfFinite, k + 1 \in Nat
    <3> DEFINE top == Max(t)
    <3> HIDE DEF top
    <3>2. top \in t /\ \A x \in t : x <= top
      BY <3>1 DEF top
    <3>3. t \ {top} \subseteq 1 .. k
      BY <3>2
    <3> QED BY <3>3 DEF top
  <2>4. \A t \in SUBSET (1 .. k + 1) :
          more[t] = IF t = {} THEN 0 ELSE more[t \ {Max(t)}] + laid[Max(t)].size
    <3> SUFFICES ASSUME NEW t \in SUBSET (1 .. k + 1), t # {}
                 PROVE  more[t] = more[t \ {Max(t)}] + laid[Max(t)].size
      OBVIOUS
    <3>1. more[t \ {Max(t)}] = sum[t \ {Max(t)}]
      BY <2>2, <2>3
    <3> QED BY <3>1
  <2>5. IsSum(laid, k + 1, more)
    BY <2>4 DEF IsSum
  <2> QED BY <2>5
<1> HIDE DEF Has
<1>3. m \in Has
  BY <1>1, <1>2, SetInduction
<1> QED BY <1>3 DEF Has

(* The k + 1 first sizes are the k first and one more.                     *)
LEMMA SumOfInterval ==
  ASSUME NEW laid, NEW m \in Nat, NEW sum, IsSum(laid, m, sum), NEW k \in 0 .. m - 1
  PROVE  sum[1 .. k + 1] = sum[1 .. k] + laid[k + 1].size
<1>1. k \in Nat /\ 1 .. k + 1 \in SUBSET (1 .. m)
  OBVIOUS
<1>2. Max(1 .. k + 1) = k + 1 /\ 1 .. k + 1 # {} /\ (1 .. k + 1) \ {k + 1} = 1 .. k
  BY <1>1, MaxOfInterval
<1> DEFINE t == 1 .. k + 1
<1> HIDE DEF t
<1>3. sum[t] = IF t = {} THEN 0 ELSE sum[t \ {Max(t)}] + laid[Max(t)].size
  BY <1>1, SumOfSet DEF t
<1>4. t # {} /\ Max(t) = k + 1 /\ t \ {Max(t)} = 1 .. k
  BY <1>2 DEF t
<1> QED BY <1>3, <1>4 DEF t

(* What is summed up to k depends on the first k functions alone.          *)
LEMMA SumsAgree ==
  ASSUME NEW c, NEW d, NEW m \in Nat, NEW l \in Nat, NEW f, NEW g,
         IsSum(c, m, f), IsSum(d, l, g),
         NEW k \in Nat, k <= m, k <= l, \A i \in 1 .. k : c[i] = d[i]
  PROVE  f[1 .. k] = g[1 .. k]
<1> DEFINE Same == {x \in 0 .. k : f[1 .. x] = g[1 .. x]}
<1>1. 0 \in Same
  <2>1. 1 .. 0 = {} /\ {} \in SUBSET (1 .. m) /\ {} \in SUBSET (1 .. l)
    OBVIOUS
  <2>2. f[{}] = 0 /\ g[{}] = 0
    BY <2>1, SumOfSet
  <2> QED BY <2>1, <2>2
<1>2. ASSUME NEW x \in 0 .. k - 1, x \in Same PROVE x + 1 \in Same
  <2>1. x \in 0 .. m - 1 /\ x \in 0 .. l - 1 /\ x + 1 \in 1 .. k
    OBVIOUS
  <2>2. /\ f[1 .. x + 1] = f[1 .. x] + c[x + 1].size
        /\ g[1 .. x + 1] = g[1 .. x] + d[x + 1].size
    BY <2>1, SumOfInterval
  <2> QED BY <1>2, <2>1, <2>2
<1> HIDE DEF Same
<1>3. 0 .. k \subseteq Same
  BY <1>1, <1>2, IntervalInduction
<1>4. k \in Same
  BY <1>3
<1> QED BY <1>4 DEF Same

(* StartOf is such a sum.                                                  *)
LEMMA StartIsSum ==
  ASSUME NEW laid, Sized(laid), NEW i \in 1 .. Len(laid) + 1
  PROVE  \E sum : /\ IsSum(SubSeq(laid, 1, i - 1), i - 1, sum)
                  /\ StartOf(laid, i) = sum[1 .. i - 1]
<1> DEFINE s == SubSeq(laid, 1, i - 1)
           sum == CHOOSE f : IsSum(s, i - 1, f)
<1>1. i - 1 \in Nat
  BY DEF Sized
<1>2. DOMAIN s = 1 .. i - 1
  BY <1>1
<1> HIDE DEF s
<1>3. StartOf(laid, i) = FoldLeft(LAMBDA x, f : x + f.size, 0, s)
  BY DEF StartOf, s
<1>4. StartOf(laid, i)
        = (CHOOSE f : f = [t \in SUBSET DOMAIN s |->
             IF t = {} THEN 0 ELSE f[t \ {Max(t)}] + s[Max(t)].size])[DOMAIN s]
  BY <1>3 DEF FoldLeft, MapThenFoldSet
<1>5. StartOf(laid, i) = sum[1 .. i - 1]
  BY <1>2, <1>4 DEF IsSum
<1>6. IsSum(s, i - 1, sum)
  BY <1>1, SumExists
<1> QED BY <1>5, <1>6 DEF s

(* The first function starts at 0, each other where the one before ends.   *)
LEMMA Layout ==
  ASSUME NEW laid, Sized(laid)
  PROVE  /\ StartOf(laid, 1) = 0
         /\ \A i \in DOMAIN laid : StartOf(laid, i + 1) = StartOf(laid, i) + laid[i].size
<1>0. Len(laid) \in Nat /\ DOMAIN laid = 1 .. Len(laid)
  BY DEF Sized
<1>1. StartOf(laid, 1) = 0
  <2>1. PICK f : IsSum(SubSeq(laid, 1, 0), 0, f) /\ StartOf(laid, 1) = f[1 .. 0]
    <3>1. 1 \in 1 .. Len(laid) + 1 /\ 1 - 1 = 0
      BY <1>0
    <3> QED BY <3>1, StartIsSum
  <2>2. 1 .. 0 = {} /\ 1 .. 0 \in SUBSET (1 .. 0)
    OBVIOUS
  <2> QED BY <2>1, <2>2 DEF IsSum
<1>2. ASSUME NEW i \in DOMAIN laid
      PROVE  StartOf(laid, i + 1) = StartOf(laid, i) + laid[i].size
  <2>1. /\ i \in 1 .. Len(laid) + 1 /\ i + 1 \in 1 .. Len(laid) + 1
        /\ (i + 1) - 1 = i /\ i \in Nat /\ i - 1 \in Nat /\ i <= i
    BY <1>0
  <2> DEFINE s == SubSeq(laid, 1, i - 1)
             u == SubSeq(laid, 1, i)
  <2>2. PICK f : IsSum(s, i - 1, f) /\ StartOf(laid, i) = f[1 .. i - 1]
    BY <2>1, StartIsSum
  <2>3. PICK g : IsSum(u, i, g) /\ StartOf(laid, i + 1) = g[1 .. i]
    BY <2>1, StartIsSum
  <2>4. u[i] = laid[i] /\ \A j \in 1 .. i - 1 : s[j] = u[j]
    BY <1>0
  <2> HIDE DEF s, u
  <2>5. f[1 .. i - 1] = g[1 .. i - 1]
    <3> DEFINE k == i - 1
    <3>1. k \in Nat /\ i \in Nat /\ k <= k /\ k <= i
      BY <2>1
    <3>2. IsSum(s, k, f) /\ \A j \in 1 .. k : s[j] = u[j]
      BY <2>2, <2>4
    <3>3. IsSum(u, i, g)
      BY <2>3
    <3> HIDE DEF k
    <3>4. ASSUME NEW c, NEW d, IsSum(c, k, f), IsSum(d, i, g), \A j \in 1 .. k : c[j] = d[j]
          PROVE  f[1 .. k] = g[1 .. k]
      BY <3>1, <3>4, SumsAgree
    <3> QED BY <3>2, <3>3, <3>4 DEF k
  <2>6. g[1 .. i] = g[1 .. i - 1] + u[i].size
    <3>1. i - 1 \in 0 .. i - 1 /\ (i - 1) + 1 = i
      BY <2>1
    <3> QED BY <2>1, <2>3, <3>1, SumOfInterval
  <2> QED BY <2>2, <2>3, <2>4, <2>5, <2>6
<1> QED BY <1>1, <1>2

(* Every function lies between the start and the end of the laid.          *)
LEMMA StartsAreInside ==
  ASSUME NEW laid, Sized(laid)
  PROVE  LET end == StartOf(laid, Len(laid) + 1) IN
         /\ end \in Nat
         /\ \A i \in DOMAIN laid :
              StartOf(laid, i) \in Nat /\ StartOf(laid, i) + laid[i].size <= end
<1> DEFINE N == Len(laid)
           end == StartOf(laid, N + 1)
           Fine == {i \in Nat : StartOf(laid, i) \in Nat}
           Before(i) == {j \in Nat : StartOf(laid, j) \in Nat /\ StartOf(laid, i) <= StartOf(laid, j)}
<1>0. /\ N \in Nat /\ DOMAIN laid = 1 .. N /\ \A i \in 1 .. N : laid[i].size \in Nat
      /\ StartOf(laid, 1) = 0
      /\ \A i \in 1 .. N : StartOf(laid, i + 1) = StartOf(laid, i) + laid[i].size
  BY Layout DEF Sized
<1> HIDE DEF N
<1>1. 1 .. N + 1 \subseteq Fine
  <2>1. 1 \in Fine
    BY <1>0
  <2>2. ASSUME NEW i \in 1 .. (N + 1) - 1, i \in Fine PROVE i + 1 \in Fine
    BY <1>0, <2>2
  <2>3. 1 \in Int /\ N + 1 \in Int
    BY <1>0
  <2> HIDE DEF Fine
  <2> QED BY <2>1, <2>2, <2>3, IntervalInduction
<1>2. ASSUME NEW i \in 1 .. N + 1 PROVE N + 1 \in Before(i)
  <2>1. i \in Before(i)
    BY <1>0, <1>1
  <2>2. ASSUME NEW j \in i .. (N + 1) - 1, j \in Before(i) PROVE j + 1 \in Before(i)
    <3>1. j \in 1 .. N /\ i \in Fine /\ j \in Fine /\ j + 1 \in Fine
      BY <1>0, <1>1
    <3>2. StartOf(laid, i) \in Nat /\ StartOf(laid, j) \in Nat /\ StartOf(laid, i) <= StartOf(laid, j)
      BY <2>2, <3>1
    <3>3. StartOf(laid, j + 1) = StartOf(laid, j) + laid[j].size /\ laid[j].size \in Nat
      BY <1>0, <3>1
    <3> QED BY <3>1, <3>2, <3>3
  <2> HIDE DEF Before
  <2>3. i .. N + 1 \subseteq Before(i)
    <3>1. i \in Int /\ N + 1 \in Int
      BY <1>0
    <3> QED BY <2>1, <2>2, <3>1, IntervalInduction
  <2> QED BY <1>0, <2>3
<1>3. end \in Nat
  BY <1>0, <1>1
<1>4. ASSUME NEW i \in 1 .. N
      PROVE  StartOf(laid, i) \in Nat /\ StartOf(laid, i) + laid[i].size <= end
  <2>1. i \in 1 .. N + 1 /\ i + 1 \in 1 .. N + 1
    BY <1>0
  <2>2. StartOf(laid, i + 1) <= end
    BY <1>2, <2>1
  <2> QED BY <1>0, <1>1, <2>1, <2>2
<1> QED BY <1>0, <1>3, <1>4 DEF N
=============================================================================
