----------------------------- MODULE HeapProofs -----------------------------
(***************************************************************************)
(* The allocator keeps its block table tiled, for every memory size and    *)
(* every program, as long as no size a program asks for is so close to     *)
(* 2^64 that adding it to the bump pointer wraps; and what a program sees  *)
(* are objects whose bytes are theirs alone.  Frames share it: each block  *)
(* has one owner, and leaving a frame gives back the blocks of that frame  *)
(* and no other.                                                           *)
(***************************************************************************)
EXTENDS Heap, CallFrames, BasicLemmas, TLAPS

(* What the operations of the allocator do to its block table, for every   *)
(* table they can meet: they keep it tiled, and change the live blocks by  *)
(* the one they hand out or take back.                                     *)

(* A size whose sum with an address of the memory is still a uint64_t.     *)
Unwrapped(size) == size \in Nat /\ MemSize + RoundUp(size) < Word

TableInv(h) == HeapType(h) /\ Tiled(h)
-----------------------------------------------------------------------------
(* The first index the scan of the block table stops at is one of those it *)
(* looks for.                                                              *)
LEMMA FirstIsMember ==
  ASSUME NEW S \in SUBSET Nat, S # {}
  PROVE  First(S) \in S
BY LeastElement DEF First

-----------------------------------------------------------------------------
(* Every block of a tiled table ends at the bump pointer or before it.     *)
LEMMA BlockEndsBelowBump ==
  ASSUME NEW h, TableInv(h), NEW i \in DOMAIN h.blocks
  PROVE  /\ h.blocks[i] \in Block
         /\ BlockEnd(h.blocks[i]) <= h.bump
<1>1. /\ h.blocks \in Seq(Block) /\ Len(h.blocks) \in Nat /\ DOMAIN h.blocks = 1 .. Len(h.blocks)
      /\ h.bump \in U64
  BY DEF TableInv, HeapType
<1>a. h.blocks # <<>> /\ Len(h.blocks) \in DOMAIN h.blocks /\ i \in 1 .. Len(h.blocks)
  BY <1>1
<1>2. h.blocks[i] \in Block /\ h.blocks[Len(h.blocks)] \in Block
  BY <1>1, <1>a
<1>3. BlockEnd(h.blocks[Len(h.blocks)]) = h.bump
  BY <1>a DEF TableInv, Tiled
<1>4. CASE i = Len(h.blocks)
  BY <1>1, <1>2, <1>3, <1>4 DEF U64
<1>5. CASE i < Len(h.blocks)
  <2>1. BlockEnd(h.blocks[i]) <= h.blocks[Len(h.blocks)].offset
    BY <1>1, <1>a, <1>5 DEF TableInv, Tiled
  <2> QED BY <1>1, <1>2, <1>3, <2>1, MemAssumption DEF BlockEnd, Block, U64
<1> QED BY <1>1, <1>a, <1>4, <1>5

(* Allocations of a tiled table are disjoint and inside the memory.        *)
LEMMA TiledIsDisjoint ==
  ASSUME NEW h, TableInv(h)
  PROVE  LiveDisjoint(h)
<1> SUFFICES ASSUME NEW i \in Live(h), NEW j \in Live(h)
             PROVE  /\ BlockEnd(h.blocks[i]) <= MemSize
                    /\ i # j => \/ BlockEnd(h.blocks[i]) <= h.blocks[j].offset
                                \/ BlockEnd(h.blocks[j]) <= h.blocks[i].offset
  BY DEF LiveDisjoint
<1>1. i \in DOMAIN h.blocks /\ j \in DOMAIN h.blocks /\ i \in Nat /\ j \in Nat
  BY DEF Live, TableInv, HeapType
<1>2. h.bump \in Nat /\ h.bump <= MemSize
  BY MemAssumption DEF TableInv, Tiled, HeapType, U64
<1>3. /\ BlockEnd(h.blocks[i]) <= h.bump
      /\ h.blocks[i] \in Block
  BY <1>1, BlockEndsBelowBump
<1>4. BlockEnd(h.blocks[i]) \in Int
  BY <1>3, MemAssumption DEF BlockEnd, Block, U64
<1>5. i # j => i < j \/ j < i
  BY <1>1
<1>6. /\ i < j => BlockEnd(h.blocks[i]) <= h.blocks[j].offset
      /\ j < i => BlockEnd(h.blocks[j]) <= h.blocks[i].offset
  BY <1>1 DEF TableInv, Tiled
<1> QED BY <1>2, <1>3, <1>4, <1>5, <1>6, MemAssumption

(* The fields of a block are numbers. *)
LEMMA BlockNumbers ==
  ASSUME NEW b \in Block
  PROVE  b.offset \in Nat /\ b.size \in Nat /\ BlockEnd(b) \in Nat
<1>1. Word - 1 \in Int
  BY MemAssumption
<1>2. b.offset \in Nat /\ b.size \in Nat
  BY <1>1 DEF Block, U64
<1> QED BY <1>2 DEF BlockEnd

(* heapFree changes whose a block is, never where it lies.                 *)
LEMMA FreeKeepsTable ==
  ASSUME NEW h, TableInv(h), NEW offset, Tracked(h, offset)
  PROVE  TableInv(HeapFree(h, offset))
<1> DEFINE i == First(LiveAt(h, offset))
           g == HeapFree(h, offset)
<1>1. h.blocks \in Seq(Block) /\ h.bump \in U64 /\ h \in [blocks : Seq(Block), bump : U64]
  BY DEF TableInv, HeapType
<1>2. i \in DOMAIN h.blocks
  <2>1. LiveAt(h, offset) \in SUBSET Nat /\ LiveAt(h, offset) # {}
    BY <1>1 DEF LiveAt, Tracked
  <2> QED BY <2>1, FirstIsMember DEF LiveAt
<1> HIDE DEF i
<1>3. /\ g = [blocks |-> g.blocks, bump |-> g.bump]
      /\ g.bump = h.bump
      /\ g.blocks = [h.blocks EXCEPT ![i].free = TRUE]
  BY DEF HeapFree, i
<1> HIDE DEF g
<1>4. h.blocks[i] \in Block
  BY <1>1, <1>2
<1>5. [h.blocks[i] EXCEPT !.free = TRUE] \in Block
  BY <1>4 DEF Block
<1>6. g.blocks \in Seq(Block) /\ Len(g.blocks) = Len(h.blocks)
  BY <1>1, <1>2, <1>3, <1>5
<1>7. ASSUME NEW j \in DOMAIN h.blocks
      PROVE  /\ g.blocks[j].offset = h.blocks[j].offset
             /\ g.blocks[j].size = h.blocks[j].size
             /\ BlockEnd(g.blocks[j]) = BlockEnd(h.blocks[j])
  BY <1>1, <1>2, <1>3, <1>4 DEF Block, BlockEnd
<1>8. HeapType(g)
  BY <1>1, <1>3, <1>6 DEF HeapType
<1>9. /\ DOMAIN g.blocks = DOMAIN h.blocks /\ DOMAIN h.blocks = 1 .. Len(h.blocks)
      /\ Len(h.blocks) \in Nat /\ (g.blocks = <<>> <=> h.blocks = <<>>)
  BY <1>1, <1>6
<1>10. h.blocks # <<>> => 1 \in DOMAIN h.blocks /\ Len(h.blocks) \in DOMAIN h.blocks
  BY <1>1, <1>9
<1>11. ASSUME NEW j \in 1 .. Len(g.blocks) - 1
       PROVE  BlockEnd(g.blocks[j]) = g.blocks[j + 1].offset
  <2>1. j \in DOMAIN h.blocks /\ j + 1 \in DOMAIN h.blocks
    BY <1>6, <1>9
  <2> QED BY <2>1, <1>6, <1>7 DEF TableInv, Tiled
<1>12. Tiled(g)
  BY ZenonT(40), <1>3, <1>6, <1>7, <1>9, <1>10, <1>11 DEF Tiled, TableInv
<1> QED BY <1>8, <1>12 DEF TableInv, g

(* What a carved table holds: everything it did, but for the block that    *)
(* was taken, and, if something is left of that one, the rest of it.       *)
LEMMA CarveElements ==
  ASSUME NEW h, TableInv(h), NEW n \in Nat \ {0}, NEW i \in FreeFits(h, n)
  PROVE  LET b    == h.blocks[i]
             used == Taken(b, n)
             rest == Leftover(b, n)
             g    == Carve(h, i, n) IN
         /\ i \in 1 .. Len(h.blocks) /\ i \in Nat /\ b \in Block /\ b.size >= n
         /\ b.offset + b.size < Word /\ b.offset \in Nat /\ b.size \in Nat
         /\ used \in Block /\ BlockEnd(used) = rest.offset /\ BlockEnd(rest) = BlockEnd(b)
         /\ g = [blocks |-> g.blocks, bump |-> h.bump] /\ g.blocks \in Seq(Block)
         /\ b.size > n =>
              /\ Len(g.blocks) = Len(h.blocks) + 1
              /\ \A j \in 1 .. i - 1 : g.blocks[j] = h.blocks[j]
              /\ g.blocks[i] = used
              /\ g.blocks[i + 1] = rest
              /\ \A j \in i + 2 .. Len(h.blocks) + 1 : g.blocks[j] = h.blocks[j - 1]
         /\ b.size = n =>
              /\ Len(g.blocks) = Len(h.blocks)
              /\ \A j \in 1 .. Len(h.blocks) : g.blocks[j] = IF j = i THEN used ELSE h.blocks[j]
<1> DEFINE b     == h.blocks[i]
           used  == Taken(b, n)
           rest  == Leftover(b, n)
           g     == Carve(h, i, n)
           taken == ReplaceAt(h.blocks, i, used)
<1>1. /\ h.blocks \in Seq(Block) /\ h.bump \in U64
      /\ Len(h.blocks) \in Nat /\ DOMAIN h.blocks = 1 .. Len(h.blocks)
  BY DEF TableInv, HeapType
<1>2. i \in 1 .. Len(h.blocks) /\ i \in Nat /\ b \in Block /\ b.size >= n
  BY <1>1 DEF FreeFits
<1>3. b.offset + b.size < Word /\ b.offset \in Nat /\ b.size \in Nat
  <2>1. BlockEnd(b) <= h.bump
    BY <1>1, <1>2, BlockEndsBelowBump
  <2> QED BY SMTT(30), <2>1, <1>1, <1>2, MemAssumption DEF BlockEnd, Block, U64
<1>4. /\ used \in Block /\ used.offset = b.offset /\ used.size = n
      /\ BlockEnd(used) = b.offset + n
  <2>1. n \in U64 /\ b.offset \in U64
    BY <1>2, <1>3, MemAssumption DEF Block, U64
  <2> QED BY <2>1 DEF Block, BlockEnd, Taken
<1>5. b.size > n => rest \in Block
  BY <1>2, <1>3, MemAssumption DEF Block, U64, Leftover
<1>6. rest.offset = b.offset + n /\ rest.size = b.size - n /\ BlockEnd(rest) = BlockEnd(b)
  BY <1>2, <1>3 DEF BlockEnd, Leftover
<1>7. /\ taken \in Seq(Block) /\ Len(taken) = Len(h.blocks)
      /\ \A j \in 1 .. Len(h.blocks) : taken[j] = IF j = i THEN used ELSE h.blocks[j]
  BY <1>1, <1>2, <1>4 DEF ReplaceAt
<1>8. g = [blocks |-> IF b.size > n THEN InsertAt(taken, i + 1, rest) ELSE taken,
           bump |-> h.bump]
  BY DEF Carve
<1> HIDE DEF taken, used, rest, b, g
<1>9. ASSUME b.size > n
      PROVE  /\ g.blocks \in Seq(Block) /\ Len(g.blocks) = Len(h.blocks) + 1
             /\ \A j \in 1 .. i - 1 : g.blocks[j] = h.blocks[j]
             /\ g.blocks[i] = used
             /\ g.blocks[i + 1] = rest
             /\ \A j \in i + 2 .. Len(h.blocks) + 1 : g.blocks[j] = h.blocks[j - 1]
  <2>1. /\ g.blocks \in Seq(Block) /\ Len(g.blocks) = Len(h.blocks) + 1
        /\ \A j \in 1 .. Len(h.blocks) + 1 :
             g.blocks[j] = IF j < i + 1 THEN taken[j] ELSE IF j = i + 1 THEN rest ELSE taken[j - 1]
    <3>1. g.blocks = InsertAt(taken, i + 1, rest)
      BY <1>8, <1>9
    <3>2. i + 1 \in 1 .. Len(taken) + 1
      BY <1>1, <1>2, <1>7
    <3>3. taken \in Seq(Block) /\ rest \in Block
      BY <1>5, <1>7, <1>9
    <3> DEFINE p == i + 1
    <3> HIDE DEF p
    <3>4. p \in 1 .. Len(taken) + 1
      BY <3>2 DEF p
    <3>5. IsInsertion(InsertAt(taken, p, rest), Block, taken, p, rest)
      BY <3>3, <3>4, InsertAtElements
    <3>6. /\ InsertAt(taken, p, rest) \in Seq(Block)
          /\ Len(InsertAt(taken, p, rest)) = Len(taken) + 1
          /\ \A j \in 1 .. Len(taken) + 1 :
               InsertAt(taken, p, rest)[j] =
                 IF j < p THEN taken[j] ELSE IF j = p THEN rest ELSE taken[j - 1]
      BY <3>5 DEF IsInsertion
    <3> QED BY <3>1, <3>6, <1>7 DEF p
  <2>2. /\ \A j \in 1 .. i - 1 : g.blocks[j] = h.blocks[j]
        /\ g.blocks[i] = used
        /\ g.blocks[i + 1] = rest
        /\ \A j \in i + 2 .. Len(h.blocks) + 1 : g.blocks[j] = h.blocks[j - 1]
    <3>1. ASSUME NEW j \in 1 .. i - 1 PROVE g.blocks[j] = h.blocks[j]
      <4>1. j \in 1 .. Len(h.blocks) + 1 /\ j < i + 1 /\ j \in 1 .. Len(h.blocks) /\ j # i
        BY <1>1, <1>2
      <4> QED BY <4>1, <1>7, <2>1
    <3>2. g.blocks[i] = used /\ g.blocks[i + 1] = rest
      <4>1. /\ i \in 1 .. Len(h.blocks) + 1 /\ i < i + 1
            /\ i + 1 \in 1 .. Len(h.blocks) + 1 /\ ~ (i + 1 < i + 1)
        BY <1>1, <1>2
      <4> QED BY <4>1, <1>2, <1>7, <2>1
    <3>3. ASSUME NEW j \in i + 2 .. Len(h.blocks) + 1 PROVE g.blocks[j] = h.blocks[j - 1]
      <4>1. j \in 1 .. Len(h.blocks) + 1 /\ ~ (j < i + 1) /\ j # i + 1
            /\ j - 1 \in 1 .. Len(h.blocks) /\ j - 1 # i
        BY <1>1, <1>2
      <4> QED BY <4>1, <1>7, <2>1
    <3> QED BY <3>1, <3>2, <3>3
  <2> QED BY <2>1, <2>2
<1>10. b.size = n => g.blocks = taken
  BY <1>8
<1>11. b.size > n \/ b.size = n
  BY <1>2, <1>3
<1>12. g = [blocks |-> g.blocks, bump |-> h.bump]
  BY <1>8
<1> QED BY <1>2, <1>3, <1>4, <1>6, <1>7, <1>9, <1>10, <1>11, <1>12 DEF b, used, rest, g

(* Taking a free block, whole or in part, keeps the table tiled.           *)
LEMMA CarveKeepsTable ==
  ASSUME NEW h, TableInv(h), NEW n \in Nat \ {0}, NEW i \in FreeFits(h, n)
  PROVE  TableInv(Carve(h, i, n))
<1> DEFINE b     == h.blocks[i]
           used  == Taken(b, n)
           rest  == Leftover(b, n)
           g     == Carve(h, i, n)
           old(j) == IF j <= i THEN j ELSE j - 1
<1>1. /\ h.blocks \in Seq(Block) /\ h.bump \in U64
      /\ Len(h.blocks) \in Nat /\ DOMAIN h.blocks = 1 .. Len(h.blocks)
  BY DEF TableInv, HeapType
<1>4. h.blocks[i] = b /\ BlockEnd(b) = b.offset + b.size
  BY DEF BlockEnd
<1>6. /\ used.offset = b.offset /\ used.size = n /\ BlockEnd(used) = b.offset + n
      /\ rest.offset = b.offset + n /\ rest.size = b.size - n
  BY DEF BlockEnd, Taken, Leftover
<1> HIDE DEF b, used, rest, g
<1>5. /\ i \in 1 .. Len(h.blocks) /\ i \in Nat /\ b \in Block /\ b.size >= n
      /\ b.offset + b.size < Word /\ b.offset \in Nat /\ b.size \in Nat
      /\ used \in Block /\ BlockEnd(used) = rest.offset /\ BlockEnd(rest) = BlockEnd(b)
      /\ g = [blocks |-> g.blocks, bump |-> h.bump] /\ g.blocks \in Seq(Block)
      /\ b.size > n =>
           /\ Len(g.blocks) = Len(h.blocks) + 1
           /\ \A j \in 1 .. i - 1 : g.blocks[j] = h.blocks[j]
           /\ g.blocks[i] = used
           /\ g.blocks[i + 1] = rest
           /\ \A j \in i + 2 .. Len(h.blocks) + 1 : g.blocks[j] = h.blocks[j - 1]
      /\ b.size = n =>
           /\ Len(g.blocks) = Len(h.blocks)
           /\ \A j \in 1 .. Len(h.blocks) : g.blocks[j] = IF j = i THEN used ELSE h.blocks[j]
  BY CarveElements DEF b, used, rest, g
<1>3. /\ i \in 1 .. Len(h.blocks) /\ i \in Nat /\ b \in Block /\ b.size >= n
      /\ b.offset + b.size < Word /\ b.offset \in Nat /\ b.size \in Nat
  BY <1>5
<1>2. /\ used.offset = b.offset /\ used.size = n /\ BlockEnd(used) = b.offset + n
      /\ rest.offset = b.offset + n /\ rest.size = b.size - n
      /\ BlockEnd(rest) = b.offset + b.size
  BY <1>4, <1>5, <1>6
<1>7. /\ g.blocks \in Seq(Block) /\ g.bump = h.bump
      /\ g = [blocks |-> g.blocks, bump |-> g.bump]
  BY <1>5
<1>9. CASE b.size > n
  <2>1. /\ Len(g.blocks) = Len(h.blocks) + 1
        /\ \A j \in 1 .. i - 1 : g.blocks[j] = h.blocks[j]
        /\ g.blocks[i] = used
        /\ g.blocks[i + 1] = rest
        /\ \A j \in i + 2 .. Len(h.blocks) + 1 : g.blocks[j] = h.blocks[j - 1]
    BY <1>5, <1>9
  <2>3. HeapType(g)
    BY <1>1, <1>7 DEF HeapType
  <2>4. ASSUME NEW j \in 1 .. Len(h.blocks) + 1
        PROVE  /\ old(j) \in DOMAIN h.blocks
               /\ g.blocks[j].offset >= h.blocks[old(j)].offset
               /\ BlockEnd(g.blocks[j]) <= BlockEnd(h.blocks[old(j)])
               /\ g.blocks[j].size > 0
               /\ g.blocks[j].offset \in Nat /\ BlockEnd(g.blocks[j]) \in Nat
    <3>1. old(j) \in DOMAIN h.blocks /\ h.blocks[old(j)] \in Block
      BY <1>1, <1>3
    <3>2. h.blocks[old(j)].offset \in Nat /\ BlockEnd(h.blocks[old(j)]) \in Nat
      BY <3>1, BlockNumbers
    <3>3. h.blocks[old(j)].size > 0
      BY <3>1 DEF TableInv, Tiled
    <3>4. CASE j \in 1 .. i - 1
      <4>1. old(j) = j /\ g.blocks[j] = h.blocks[j]
        BY SMTT(30), <3>4, <2>1, <1>3
      <4> HIDE DEF old
      <4> QED BY <4>1, <3>1, <3>2, <3>3 DEF Block, U64
    <3>5. CASE j = i
      <4>1. old(j) = i /\ g.blocks[j] = used
        BY <3>5, <2>1, <1>3
      <4> HIDE DEF old
      <4> QED BY <4>1, <3>1, <1>2, <1>3, <1>4, <1>9
    <3>6. CASE j = i + 1
      <4>1. old(j) = i /\ g.blocks[j] = rest
        BY <3>6, <2>1, <1>3
      <4> HIDE DEF old
      <4> QED BY <4>1, <3>1, <1>2, <1>3, <1>4, <1>9
    <3>7. CASE j \in i + 2 .. Len(h.blocks) + 1
      <4>1. old(j) = j - 1 /\ g.blocks[j] = h.blocks[j - 1]
        BY SMTT(30), <3>7, <2>1, <1>3
      <4> HIDE DEF old
      <4> QED BY <4>1, <3>1, <3>2, <3>3 DEF Block, U64
    <3> QED BY <3>4, <3>5, <3>6, <3>7, <1>1, <1>3
  <2>5. ASSUME NEW j \in 1 .. Len(h.blocks) + 1, NEW k \in 1 .. Len(h.blocks) + 1, j < k
        PROVE  BlockEnd(g.blocks[j]) <= g.blocks[k].offset
    <3>1. CASE j = i /\ k = i + 1
      BY <3>1, <2>1, <1>3, <1>2, <1>4
    <3>2. CASE ~ (j = i /\ k = i + 1)
      <4>1. old(j) < old(k)
        BY <3>2, <2>5, <1>3
      <4>2. BlockEnd(h.blocks[old(j)]) <= h.blocks[old(k)].offset
        BY <4>1, <2>4 DEF TableInv, Tiled
      <4>3. /\ h.blocks[old(k)].offset \in Nat /\ BlockEnd(h.blocks[old(j)]) \in Nat
        <5>1. h.blocks[old(j)] \in Block /\ h.blocks[old(k)] \in Block
          BY <1>1, <2>4
        <5> HIDE DEF old
        <5> QED BY <5>1, BlockNumbers
      <4> HIDE DEF old
      <4> QED BY <4>2, <4>3, <2>4
    <3> QED BY <3>1, <3>2
  <2>6. ASSUME NEW j \in 1 .. Len(h.blocks)
        PROVE  BlockEnd(g.blocks[j]) = g.blocks[j + 1].offset
    <3>1. CASE j \in 1 .. i - 2
      <4>1. j + 1 \in 1 .. i - 1 /\ j \in 1 .. i - 1 /\ j \in 1 .. Len(h.blocks) - 1
        BY <3>1, <1>1, <1>3
      <4> QED BY <4>1, <2>1 DEF TableInv, Tiled
    <3>2. CASE j = i - 1
      <4>1. j \in 1 .. i - 1 /\ j \in 1 .. Len(h.blocks) - 1 /\ j + 1 = i
        BY <3>2, <1>1, <1>3
      <4> QED BY <4>1, <2>1, <1>2, <1>3, <1>4 DEF TableInv, Tiled
    <3>3. CASE j = i
      BY <3>3, <2>1, <1>2, <1>3, <1>4
    <3>4. CASE j = i + 1
      <4>1. i \in 1 .. Len(h.blocks) - 1 /\ j + 1 \in i + 2 .. Len(h.blocks) + 1
            /\ (j + 1) - 1 = i + 1
        BY <3>4, <1>1, <1>3
      <4>2. g.blocks[j] = rest /\ g.blocks[j + 1] = h.blocks[i + 1]
        BY <3>4, <4>1, <2>1
      <4>3. BlockEnd(h.blocks[i]) = h.blocks[i + 1].offset
        BY <4>1 DEF TableInv, Tiled
      <4>4. BlockEnd(rest) = BlockEnd(h.blocks[i])
        BY <1>2, <1>4 DEF BlockEnd
      <4> QED BY <4>2, <4>3, <4>4
    <3>5. CASE j \in i + 2 .. Len(h.blocks)
      <4>1. /\ j \in i + 2 .. Len(h.blocks) + 1 /\ j + 1 \in i + 2 .. Len(h.blocks) + 1
            /\ j - 1 \in 1 .. Len(h.blocks) - 1 /\ (j - 1) + 1 = j /\ (j + 1) - 1 = j
        BY <3>5, <1>1, <1>3
      <4>2. g.blocks[j] = h.blocks[j - 1] /\ g.blocks[j + 1] = h.blocks[j]
        BY <4>1, <2>1
      <4> QED BY <4>1, <4>2 DEF TableInv, Tiled
    <3> QED BY <3>1, <3>2, <3>3, <3>4, <3>5, <1>1, <1>3
  <2>7. /\ g.blocks # <<>> /\ g.blocks[1].offset = 0
        /\ BlockEnd(g.blocks[Len(g.blocks)]) = h.bump
    <3>1. h.blocks # <<>> /\ h.blocks[1].offset = 0 /\ BlockEnd(h.blocks[Len(h.blocks)]) = h.bump
      BY <1>1, <1>3 DEF TableInv, Tiled
    <3>2. g.blocks[1].offset = 0
      <4>1. CASE i = 1
        BY <4>1, <3>1, <2>1, <1>2, <1>3, <1>4
      <4>2. CASE i > 1
        <5>1. 1 \in 1 .. i - 1
          BY <4>2, <1>3
        <5> QED BY <5>1, <3>1, <2>1
      <4> QED BY <4>1, <4>2, <1>3
    <3>3. BlockEnd(g.blocks[Len(h.blocks) + 1]) = h.bump
      <4>1. CASE i = Len(h.blocks)
        BY <4>1, <3>1, <2>1, <1>2, <1>3, <1>4
      <4>2. CASE i < Len(h.blocks)
        <5>1. Len(h.blocks) + 1 \in i + 2 .. Len(h.blocks) + 1 /\ (Len(h.blocks) + 1) - 1 = Len(h.blocks)
          BY <4>2, <1>1, <1>3
        <5> QED BY <5>1, <3>1, <2>1
      <4> QED BY <4>1, <4>2, <1>1, <1>3
    <3> QED BY <3>1, <3>2, <3>3, <2>1, <1>1, <1>7
  <2>8. h.bump <= MemSize /\ g.bump = h.bump
    BY <1>7 DEF TableInv, Tiled
  <2>9. DOMAIN g.blocks = 1 .. Len(h.blocks) + 1 /\ Len(g.blocks) - 1 = Len(h.blocks)
    BY <2>1, <1>1, <1>7
  <2>10. Tiled(g)
    BY <2>4, <2>5, <2>6, <2>7, <2>8, <2>9 DEF Tiled
  <2> QED BY <2>3, <2>10 DEF TableInv, g
<1>10. CASE b.size = n
  <2>1. /\ Len(g.blocks) = Len(h.blocks) /\ g.bump = h.bump
        /\ \A j \in 1 .. Len(h.blocks) : g.blocks[j] = IF j = i THEN used ELSE h.blocks[j]
    BY <1>5, <1>10
  <2>2. HeapType(g)
    BY <1>1, <1>7 DEF HeapType
  <2>3. DOMAIN g.blocks = DOMAIN h.blocks /\ Len(g.blocks) = Len(h.blocks)
        /\ h.blocks # <<>> /\ g.blocks # <<>>
    BY <1>1, <1>3, <1>7, <2>1
  <2>4. ASSUME NEW j \in DOMAIN h.blocks
        PROVE  /\ g.blocks[j].offset = h.blocks[j].offset
               /\ g.blocks[j].size = h.blocks[j].size
               /\ BlockEnd(g.blocks[j]) = BlockEnd(h.blocks[j])
    BY <1>1, <1>3, <1>2, <1>4, <1>10, <2>1 DEF BlockEnd
  <2>5. 1 \in DOMAIN h.blocks /\ Len(h.blocks) \in DOMAIN h.blocks
    BY <1>1, <1>3
  <2>6. ASSUME NEW j \in 1 .. Len(g.blocks) - 1
        PROVE  BlockEnd(g.blocks[j]) = g.blocks[j + 1].offset
    <3>1. j \in DOMAIN h.blocks /\ j + 1 \in DOMAIN h.blocks
      BY <1>1, <2>3
    <3> QED BY <3>1, <2>3, <2>4 DEF TableInv, Tiled
  <2>7. Tiled(g)
    BY <2>1, <2>3, <2>4, <2>5, <2>6 DEF Tiled, TableInv
  <2> QED BY <2>2, <2>7 DEF TableInv, g
<1> QED BY <1>3, <1>9, <1>10

(* A block appended at the bump pointer, when the sum does not wrap.       *)
LEMMA ExtendKeepsTable ==
  ASSUME NEW h, TableInv(h), NEW n \in Nat \ {0}, MemSize + n < Word, BumpFits(h, n)
  PROVE  TableInv(Extend(h, n))
<1> DEFINE new == [offset |-> h.bump, size |-> n, free |-> FALSE]
           g   == Extend(h, n)
<1>1. /\ h.blocks \in Seq(Block) /\ h.bump \in U64
      /\ Len(h.blocks) \in Nat /\ DOMAIN h.blocks = 1 .. Len(h.blocks)
      /\ h.bump <= MemSize
  BY DEF TableInv, HeapType, Tiled
<1>2. BumpEnd(h, n) = h.bump + n /\ BumpEnd(h, n) \in U64 /\ BumpEnd(h, n) <= MemSize
  <2>1. Word \in Nat \ {0} /\ MemSize \in Nat
    BY MemAssumption
  <2>2. h.bump \in Nat
    BY <1>1, <2>1 DEF U64
  <2>3. h.bump + n \in 0 .. Word - 1
    BY <1>1, <2>1, <2>2
  <2>4. (h.bump + n) % Word = h.bump + n
    BY <2>1, <2>3
  <2> QED BY <2>3, <2>4 DEF BumpEnd, BumpFits, U64
<1>3. new \in Block /\ new.offset = h.bump /\ BlockEnd(new) = h.bump + n /\ new.size > 0
  BY <1>1, <1>2, MemAssumption DEF Block, BlockEnd, U64
<1> HIDE DEF new
<1>4. /\ g = [blocks |-> g.blocks, bump |-> g.bump]
      /\ g.blocks = Append(h.blocks, new) /\ g.bump = h.bump + n
  BY <1>2 DEF Extend, new
<1> HIDE DEF g
<1>5. /\ g.blocks \in Seq(Block) /\ Len(g.blocks) = Len(h.blocks) + 1
      /\ DOMAIN g.blocks = 1 .. Len(h.blocks) + 1 /\ g.blocks # <<>>
      /\ \A j \in 1 .. Len(h.blocks) : g.blocks[j] = h.blocks[j]
      /\ g.blocks[Len(h.blocks) + 1] = new
  BY <1>1, <1>3, <1>4
<1>6. HeapType(g)
  BY <1>2, <1>4, <1>5 DEF HeapType
<1>7. \A j \in 1 .. Len(h.blocks) : BlockEnd(h.blocks[j]) <= h.bump
  BY <1>1, BlockEndsBelowBump
<1>8. g.blocks[1].offset = 0
  <2>1. CASE h.blocks = <<>>
    <3>1. Len(h.blocks) + 1 = 1 /\ h.bump = 0
      BY <2>1 DEF TableInv, Tiled
    <3> QED BY <3>1, <1>3, <1>5
  <2>2. CASE h.blocks # <<>>
    <3>1. 1 \in 1 .. Len(h.blocks) /\ h.blocks[1].offset = 0
      BY <2>2, <1>1 DEF TableInv, Tiled
    <3> QED BY <3>1, <1>5
  <2> QED BY <2>1, <2>2
<1>9. ASSUME NEW j \in 1 .. Len(h.blocks)
      PROVE  BlockEnd(g.blocks[j]) = g.blocks[j + 1].offset
  <2>1. CASE j = Len(h.blocks)
    <3>1. h.blocks # <<>>
      BY <1>1
    <3>2. BlockEnd(h.blocks[j]) = h.bump
      BY <3>1, <2>1 DEF TableInv, Tiled
    <3> QED BY <3>2, <2>1, <1>3, <1>5
  <2>2. CASE j < Len(h.blocks)
    <3>1. j \in 1 .. Len(h.blocks) - 1 /\ j + 1 \in 1 .. Len(h.blocks)
      BY <2>2, <1>1
    <3> QED BY <3>1, <1>5 DEF TableInv, Tiled
  <2> QED BY <2>1, <2>2, <1>1
<1>10. ASSUME NEW j \in DOMAIN g.blocks, NEW k \in DOMAIN g.blocks, j < k
       PROVE  BlockEnd(g.blocks[j]) <= g.blocks[k].offset
  <2>1. j \in 1 .. Len(h.blocks)
    BY <1>1, <1>5, <1>10
  <2>2. CASE k = Len(h.blocks) + 1
    BY <2>1, <2>2, <1>3, <1>5, <1>7
  <2>3. CASE k \in 1 .. Len(h.blocks)
    BY <2>1, <2>3, <1>1, <1>5, <1>10 DEF TableInv, Tiled
  <2> QED BY <2>2, <2>3, <1>1, <1>5
<1>11. ASSUME NEW j \in DOMAIN g.blocks PROVE g.blocks[j].size > 0
  <2>1. CASE j = Len(h.blocks) + 1
    BY <2>1, <1>3, <1>5
  <2>2. CASE j \in 1 .. Len(h.blocks)
    BY <2>2, <1>1, <1>5 DEF TableInv, Tiled
  <2> QED BY <2>1, <2>2, <1>1, <1>5
<1>12. Tiled(g)
  BY <1>1, <1>2, <1>3, <1>4, <1>5, <1>8, <1>9, <1>10, <1>11 DEF Tiled
<1> QED BY <1>6, <1>12 DEF TableInv, g

(* heapAlloc: first fit, or the bump pointer.                              *)
LEMMA AllocKeepsTable ==
  ASSUME NEW h, TableInv(h), NEW size, Unwrapped(size), CanAlloc(h, size)
  PROVE  TableInv(HeapAlloc(h, size))
<1>1. RoundUp(size) \in Nat \ {0} /\ MemSize + RoundUp(size) < Word
  BY DEF Unwrapped, RoundUp
<1>2. CASE FreeFits(h, RoundUp(size)) # {}
  <2>1. FreeFits(h, RoundUp(size)) \in SUBSET Nat
    BY DEF FreeFits, TableInv, HeapType
  <2>2. First(FreeFits(h, RoundUp(size))) \in FreeFits(h, RoundUp(size))
    BY <1>2, <2>1, FirstIsMember
  <2> QED BY <1>1, <1>2, <2>2, CarveKeepsTable DEF HeapAlloc
<1>3. CASE FreeFits(h, RoundUp(size)) = {}
  BY <1>1, <1>3, ExtendKeepsTable DEF HeapAlloc, CanAlloc
<1> QED BY <1>2, <1>3

(* The block freed by realloc is still live once the new one is allocated. *)
LEMMA AllocKeepsTracked ==
  ASSUME NEW h, TableInv(h), NEW size, Unwrapped(size), CanAlloc(h, size),
         NEW offset, Tracked(h, offset)
  PROVE  Tracked(HeapAlloc(h, size), offset)
<1> DEFINE n == RoundUp(size)
           g == HeapAlloc(h, size)
<1>1. n \in Nat \ {0} /\ MemSize + n < Word
  BY DEF Unwrapped, RoundUp
<1>2. /\ h.blocks \in Seq(Block) /\ Len(h.blocks) \in Nat
      /\ DOMAIN h.blocks = 1 .. Len(h.blocks)
  BY DEF TableInv, HeapType
<1>3. PICK k \in 1 .. Len(h.blocks) : h.blocks[k].offset = offset /\ ~ h.blocks[k].free
  BY <1>2 DEF Tracked, LiveAt
<1>4. SUFFICES \E j \in DOMAIN g.blocks : g.blocks[j] = h.blocks[k]
  BY <1>3 DEF Tracked, LiveAt
<1>5. CASE FreeFits(h, n) # {}
  <2> DEFINE i == First(FreeFits(h, n))
  <2>1. FreeFits(h, n) \in SUBSET Nat
    BY <1>2 DEF FreeFits
  <2>2. i \in FreeFits(h, n)
    BY <1>5, <2>1, FirstIsMember
  <2>3. g = Carve(h, i, n)
    BY <1>5 DEF HeapAlloc
  <2> HIDE DEF i, n
  <2>4. i \in 1 .. Len(h.blocks) /\ k # i
    BY <1>2, <1>3, <2>2 DEF FreeFits
  <2> HIDE DEF g
  <2>5. /\ g.blocks \in Seq(Block)
        /\ h.blocks[i].size >= n /\ h.blocks[i].size \in Nat
        /\ h.blocks[i].size > n =>
             /\ Len(g.blocks) = Len(h.blocks) + 1
             /\ \A j \in 1 .. i - 1 : g.blocks[j] = h.blocks[j]
             /\ \A j \in i + 2 .. Len(h.blocks) + 1 : g.blocks[j] = h.blocks[j - 1]
        /\ h.blocks[i].size = n =>
             /\ Len(g.blocks) = Len(h.blocks)
             /\ \A j \in 1 .. Len(h.blocks) :
                  g.blocks[j] = IF j = i THEN Taken(h.blocks[i], n) ELSE h.blocks[j]
    BY SMTT(30), <1>1, <2>2, <2>3, CarveElements
  <2>6. CASE h.blocks[i].size = n
    BY <1>2, <2>4, <2>5, <2>6
  <2>7. CASE h.blocks[i].size > n
    <3>1. CASE k < i
      <4>1. k \in 1 .. i - 1 /\ k \in DOMAIN g.blocks
        BY <1>2, <2>4, <2>5, <2>7, <3>1
      <4> QED BY <4>1, <2>5, <2>7
    <3>2. CASE k > i
      <4>1. /\ k + 1 \in i + 2 .. Len(h.blocks) + 1 /\ (k + 1) - 1 = k
            /\ k + 1 \in DOMAIN g.blocks
        BY <1>2, <2>4, <2>5, <2>7, <3>2
      <4> QED BY <4>1, <2>5, <2>7
    <3> QED BY <3>1, <3>2, <2>4
  <2> QED BY <2>5, <2>6, <2>7, <1>1
<1>6. CASE FreeFits(h, n) = {}
  <2>1. g.blocks = Append(h.blocks, [offset |-> h.bump, size |-> n, free |-> FALSE])
    BY <1>6 DEF HeapAlloc, Extend
  <2> QED BY <2>1, <1>2
<1> QED BY <1>5, <1>6

(* A tracked offset is where a block of the memory starts.                 *)
LEMMA TrackedBlock ==
  ASSUME NEW h, TableInv(h), NEW offset, Tracked(h, offset)
  PROVE  /\ offset \in Nat /\ HeapBlockSize(h, offset) \in Nat
         /\ offset + HeapBlockSize(h, offset) <= MemSize
<1> DEFINE i == First(LiveAt(h, offset))
<1>1. i \in LiveAt(h, offset)
  <2>1. LiveAt(h, offset) \in SUBSET Nat /\ LiveAt(h, offset) # {}
    BY DEF LiveAt, Tracked, TableInv, HeapType
  <2> QED BY <2>1, FirstIsMember
<1>2. i \in DOMAIN h.blocks /\ h.blocks[i].offset = offset
  BY <1>1 DEF LiveAt
<1> HIDE DEF i
<1>3. h.blocks[i] \in Block /\ BlockEnd(h.blocks[i]) <= h.bump
  BY <1>2, BlockEndsBelowBump
<1>4. h.bump \in Nat /\ h.bump <= MemSize
  BY MemAssumption DEF TableInv, Tiled, HeapType, U64
<1> QED BY <1>2, <1>3, <1>4, MemAssumption DEF HeapBlockSize, BlockEnd, Block, U64, i

(* heapAlloc returns the start of a block it had, or the bump pointer.     *)
LEMMA AllocOffsetIsAddress ==
  ASSUME NEW h, TableInv(h), NEW size
  PROVE  AllocOffset(h, size) \in Nat
<1> DEFINE S == FreeFits(h, RoundUp(size))
<1>1. S \in SUBSET Nat /\ S \subseteq DOMAIN h.blocks /\ h.bump \in Nat
  BY MemAssumption DEF FreeFits, TableInv, HeapType, U64
<1>2. AllocOffset(h, size) = IF S # {} THEN h.blocks[First(S)].offset ELSE h.bump
  BY DEF AllocOffset
<1> HIDE DEF S
<1>3. CASE S # {}
  <2>1. First(S) \in DOMAIN h.blocks
    BY <1>1, <1>3, FirstIsMember
  <2>2. h.blocks[First(S)] \in Block
    BY <2>1, BlockEndsBelowBump
  <2> QED BY <1>2, <1>3, <2>2, MemAssumption DEF Block, U64
<1> QED BY <1>1, <1>2, <1>3
-----------------------------------------------------------------------------
(* The live blocks.  Their offsets tell them apart, so that a program can  *)
(* name a block by its address.                                            *)

LiveBlocks(h) == {h.blocks[i] : i \in Live(h)}

LEMMA OffsetsDiffer ==
  ASSUME NEW h, TableInv(h), NEW i \in DOMAIN h.blocks, NEW j \in DOMAIN h.blocks,
         h.blocks[i].offset = h.blocks[j].offset
  PROVE  i = j
<1>1. i \in Nat /\ j \in Nat
  BY DEF TableInv, HeapType
<1>2. ASSUME NEW k \in DOMAIN h.blocks
      PROVE  h.blocks[k].offset \in Nat /\ BlockEnd(h.blocks[k]) > h.blocks[k].offset
  <2>1. h.blocks[k] \in Block /\ h.blocks[k].size > 0
    BY BlockEndsBelowBump DEF TableInv, Tiled
  <2> QED BY <2>1, BlockNumbers DEF BlockEnd
<1>3. ASSUME NEW k \in DOMAIN h.blocks, NEW l \in DOMAIN h.blocks, k < l
      PROVE  BlockEnd(h.blocks[k]) <= h.blocks[l].offset
  BY <1>3 DEF TableInv, Tiled
<1>4. BlockEnd(h.blocks[i]) \in Nat /\ BlockEnd(h.blocks[j]) \in Nat
  BY BlockEndsBelowBump, BlockNumbers
<1>5. ~ (i < j) /\ ~ (j < i)
  BY <1>2, <1>3, <1>4
<1> QED BY <1>1, <1>5

(* What the scans for a live block find.                                   *)
LEMMA LiveBlockAt ==
  ASSUME NEW h, TableInv(h), NEW b \in LiveBlocks(h)
  PROVE  Tracked(h, b.offset) /\ HeapBlockSize(h, b.offset) = b.size
<1>1. PICK i \in DOMAIN h.blocks : b = h.blocks[i] /\ ~ h.blocks[i].free
  BY DEF LiveBlocks, Live
<1>2. LiveAt(h, b.offset) = {i}
  BY <1>1, OffsetsDiffer DEF LiveAt
<1>3. i \in Nat
  BY DEF TableInv, HeapType
<1>4. First({i}) = i
  <2>1. First({i}) \in {i}
    BY <1>3, FirstIsMember
  <2> QED BY <2>1
<1> QED BY <1>1, <1>2, <1>4 DEF Tracked, HeapBlockSize

LEMMA TrackedIsLive ==
  ASSUME NEW h, NEW offset
  PROVE  /\ Tracked(h, offset) <=> offset \in LiveOffsets(h)
         /\ Tracked(h, offset) <=> \E b \in LiveBlocks(h) : b.offset = offset
BY DEF Tracked, LiveAt, LiveOffsets, LiveBlocks, Live

(* A live block is an extent of the memory.                                *)
LEMMA LiveBlockInside ==
  ASSUME NEW h, TableInv(h), NEW b \in LiveBlocks(h)
  PROVE  /\ b \in Block /\ b.offset \in Nat /\ b.size \in Nat \ {0}
         /\ b.offset + b.size <= MemSize
<1>1. PICK i \in DOMAIN h.blocks : b = h.blocks[i]
  BY DEF LiveBlocks, Live
<1>2. b \in Block /\ BlockEnd(b) <= h.bump /\ b.size > 0
  BY <1>1, BlockEndsBelowBump DEF TableInv, Tiled
<1>3. h.bump \in Nat /\ h.bump <= MemSize
  BY MemAssumption DEF TableInv, Tiled, HeapType, U64
<1>4. b.offset \in Nat /\ b.size \in Nat /\ BlockEnd(b) \in Nat
  BY <1>2, BlockNumbers
<1> QED BY <1>2, <1>3, <1>4, MemAssumption DEF BlockEnd

(* Two live blocks share no byte.                                          *)
LEMMA LiveBlocksDisjoint ==
  ASSUME NEW h, TableInv(h), NEW b \in LiveBlocks(h), NEW c \in LiveBlocks(h),
         b.offset # c.offset
  PROVE  b.offset + b.size <= c.offset \/ c.offset + c.size <= b.offset
<1>1. PICK i \in Live(h) : b = h.blocks[i]
  BY DEF LiveBlocks
<1>2. PICK j \in Live(h) : c = h.blocks[j]
  BY DEF LiveBlocks
<1> QED BY <1>1, <1>2, TiledIsDisjoint DEF LiveDisjoint, BlockEnd

(* heapFree takes one live block away and changes no other.                *)
LEMMA FreeTakesOne ==
  ASSUME NEW h, TableInv(h), NEW offset, Tracked(h, offset)
  PROVE  LiveBlocks(HeapFree(h, offset)) = {b \in LiveBlocks(h) : b.offset # offset}
<1> DEFINE i == First(LiveAt(h, offset))
           g == HeapFree(h, offset)
<1>1. h.blocks \in Seq(Block)
  BY DEF TableInv, HeapType
<1>2. i \in DOMAIN h.blocks /\ h.blocks[i].offset = offset /\ ~ h.blocks[i].free
  <2>1. LiveAt(h, offset) \in SUBSET Nat /\ LiveAt(h, offset) # {}
    BY <1>1 DEF LiveAt, Tracked
  <2> QED BY <2>1, FirstIsMember DEF LiveAt
<1>3. g.blocks = [h.blocks EXCEPT ![i].free = TRUE]
  BY DEF HeapFree
<1> HIDE DEF i, g
<1>4. DOMAIN g.blocks = DOMAIN h.blocks
  BY <1>1, <1>3
<1>5. g.blocks[i].free
  BY <1>1, <1>2, <1>3 DEF Block
<1>6. \A j \in DOMAIN h.blocks : j # i => g.blocks[j] = h.blocks[j]
  BY <1>1, <1>3
<1>7. \A j \in DOMAIN h.blocks : h.blocks[j].offset = offset => j = i
  BY <1>2, OffsetsDiffer
<1>8. Live(g) = Live(h) \ {i}
  BY <1>4, <1>5, <1>6 DEF Live
<1>9. \A j \in Live(h) \ {i} : g.blocks[j] = h.blocks[j] /\ h.blocks[j].offset # offset
  BY <1>6, <1>7 DEF Live
<1>10. LiveBlocks(g) = {h.blocks[j] : j \in Live(h) \ {i}}
  BY <1>8, <1>9 DEF LiveBlocks
<1>11. {h.blocks[j] : j \in Live(h) \ {i}} = {b \in LiveBlocks(h) : b.offset # offset}
  BY <1>2, <1>9 DEF LiveBlocks
<1> QED BY <1>10, <1>11 DEF g

(* heapAlloc adds one live block, of the rounded size, and changes no      *)
(* other.                                                                  *)
LEMMA AllocAddsOne ==
  ASSUME NEW h, TableInv(h), NEW size, Unwrapped(size), CanAlloc(h, size)
  PROVE  LiveBlocks(HeapAlloc(h, size)) =
           LiveBlocks(h) \cup {[offset |-> AllocOffset(h, size), size |-> RoundUp(size), free |-> FALSE]}
<1> DEFINE n == RoundUp(size)
           g == HeapAlloc(h, size)
           new == [offset |-> AllocOffset(h, size), size |-> n, free |-> FALSE]
<1> SUFFICES LiveBlocks(g) = LiveBlocks(h) \cup {new}
  OBVIOUS
<1>1. n \in Nat \ {0} /\ MemSize + n < Word
  BY DEF Unwrapped, RoundUp
<1>2. /\ h.blocks \in Seq(Block) /\ Len(h.blocks) \in Nat
      /\ DOMAIN h.blocks = 1 .. Len(h.blocks)
  BY DEF TableInv, HeapType
<1>3. CASE FreeFits(h, n) # {}
  <2> DEFINE i == First(FreeFits(h, n))
             b == h.blocks[i]
  <2>1. FreeFits(h, n) \in SUBSET Nat
    BY <1>2 DEF FreeFits
  <2>2. i \in FreeFits(h, n)
    BY <1>3, <2>1, FirstIsMember
  <2>3. new = Taken(b, n)
    BY <1>3 DEF AllocOffset, Taken
  <2>a. g = Carve(h, i, n)
    BY <1>3 DEF HeapAlloc
  <2> HIDE DEF i, n, g, new
  <2>4. i \in 1 .. Len(h.blocks) /\ b.free
    BY <1>2, <2>2 DEF FreeFits
  <2>5. /\ g.blocks \in Seq(Block)
        /\ b.size >= n /\ b.size \in Nat
        /\ b.size > n =>
             /\ Len(g.blocks) = Len(h.blocks) + 1
             /\ \A j \in 1 .. i - 1 : g.blocks[j] = h.blocks[j]
             /\ g.blocks[i] = Taken(b, n)
             /\ g.blocks[i + 1] = Leftover(b, n)
             /\ \A j \in i + 2 .. Len(h.blocks) + 1 : g.blocks[j] = h.blocks[j - 1]
        /\ b.size = n =>
             /\ Len(g.blocks) = Len(h.blocks)
             /\ \A j \in 1 .. Len(h.blocks) :
                  g.blocks[j] = IF j = i THEN Taken(b, n) ELSE h.blocks[j]
    BY <1>1, <2>2, <2>a, CarveElements
  <2>6. ~ new.free /\ Leftover(b, n).free
    BY DEF new, Leftover
  <2>7. CASE b.size = n
    <3>1. Live(g) = Live(h) \cup {i} /\ i \notin Live(h)
      BY <1>2, <2>3, <2>4, <2>5, <2>6, <2>7 DEF Live
    <3>2. g.blocks[i] = new /\ \A j \in Live(h) : g.blocks[j] = h.blocks[j]
      BY <1>2, <2>3, <2>4, <2>5, <2>7, <3>1 DEF Live
    <3>3. LiveBlocks(g) = {g.blocks[j] : j \in Live(h) \cup {i}}
      BY <3>1 DEF LiveBlocks
    <3>4. {g.blocks[j] : j \in Live(h) \cup {i}} = LiveBlocks(h) \cup {new}
      BY <3>2 DEF LiveBlocks
    <3> QED BY <3>3, <3>4
  <2>8. CASE b.size > n
    <3>1. DOMAIN g.blocks = 1 .. Len(h.blocks) + 1
      BY <2>5, <2>8
    <3>2. ASSUME NEW j \in Live(g) PROVE g.blocks[j] \in LiveBlocks(h) \cup {new}
      <4>1. j \in 1 .. Len(h.blocks) + 1 /\ ~ g.blocks[j].free
        BY <3>1 DEF Live
      <4>2. CASE j < i
        <5>1. j \in 1 .. i - 1 /\ j \in DOMAIN h.blocks
          BY <1>2, <2>4, <4>1, <4>2
        <5> QED BY <2>5, <2>8, <4>1, <5>1 DEF Live, LiveBlocks
      <4>3. CASE j = i
        BY <2>3, <2>5, <2>8, <4>3
      <4>4. CASE j = i + 1
        BY <2>5, <2>6, <2>8, <4>1, <4>4
      <4>5. CASE j > i + 1
        <5>1. j \in i + 2 .. Len(h.blocks) + 1 /\ j - 1 \in DOMAIN h.blocks
          BY <1>2, <2>4, <4>1, <4>5
        <5> QED BY <2>5, <2>8, <4>1, <5>1 DEF Live, LiveBlocks
      <4> QED BY <2>4, <4>1, <4>2, <4>3, <4>4, <4>5
    <3>3. ASSUME NEW j \in Live(h) PROVE h.blocks[j] \in LiveBlocks(g)
      <4>1. j \in 1 .. Len(h.blocks) /\ ~ h.blocks[j].free /\ j # i
        BY <1>2, <2>4 DEF Live
      <4>2. CASE j < i
        <5>1. j \in 1 .. i - 1 /\ j \in DOMAIN g.blocks
          BY <2>4, <3>1, <4>1, <4>2
        <5> QED BY <2>5, <2>8, <4>1, <5>1 DEF Live, LiveBlocks
      <4>3. CASE j > i
        <5>1. /\ j + 1 \in i + 2 .. Len(h.blocks) + 1 /\ (j + 1) - 1 = j
              /\ j + 1 \in DOMAIN g.blocks
          BY <1>2, <2>4, <3>1, <4>1, <4>3
        <5>2. g.blocks[j + 1] = h.blocks[j]
          BY <2>5, <2>8, <5>1
        <5> QED BY <4>1, <5>1, <5>2 DEF Live, LiveBlocks
      <4> QED BY <2>4, <4>1, <4>2, <4>3
    <3>4. new \in LiveBlocks(g)
      <4>1. i \in DOMAIN g.blocks /\ g.blocks[i] = new
        BY <1>2, <2>3, <2>4, <2>5, <2>8, <3>1
      <4> QED BY <2>6, <4>1 DEF Live, LiveBlocks
    <3>5. LiveBlocks(g) \subseteq LiveBlocks(h) \cup {new}
      BY <3>2 DEF LiveBlocks
    <3>6. LiveBlocks(h) \subseteq LiveBlocks(g)
      BY <3>3 DEF LiveBlocks
    <3> QED BY <3>4, <3>5, <3>6
  <2> QED BY <1>1, <2>5, <2>7, <2>8 DEF n
<1>4. CASE FreeFits(h, n) = {}
  <2>1. g.blocks = Append(h.blocks, new)
    BY <1>4 DEF HeapAlloc, Extend, AllocOffset
  <2> HIDE DEF g
  <2>2. ~ new.free
    OBVIOUS
  <2> HIDE DEF new
  <2>3. /\ DOMAIN g.blocks = DOMAIN h.blocks \cup {Len(h.blocks) + 1}
        /\ g.blocks[Len(h.blocks) + 1] = new
        /\ \A j \in DOMAIN h.blocks : g.blocks[j] = h.blocks[j]
    BY <1>2, <2>1
  <2>4. Live(g) = Live(h) \cup {Len(h.blocks) + 1}
    BY <2>2, <2>3 DEF Live
  <2>5. \A j \in Live(h) : g.blocks[j] = h.blocks[j]
    BY <2>3 DEF Live
  <2>6. LiveBlocks(g) = {g.blocks[j] : j \in Live(h) \cup {Len(h.blocks) + 1}}
    BY <2>4 DEF LiveBlocks
  <2>7. {g.blocks[j] : j \in Live(h) \cup {Len(h.blocks) + 1}} = LiveBlocks(h) \cup {new}
    BY <2>3, <2>5 DEF LiveBlocks
  <2> QED BY <2>6, <2>7
<1> QED BY <1>3, <1>4

(* The block handed out was no one's.                                      *)
LEMMA AllocIsFresh ==
  ASSUME NEW h, TableInv(h), NEW size
  PROVE  AllocOffset(h, size) \notin LiveOffsets(h)
<1> DEFINE S == FreeFits(h, RoundUp(size))
<1>1. S \in SUBSET Nat /\ S \subseteq DOMAIN h.blocks /\ \A i \in S : h.blocks[i].free
  BY DEF FreeFits, TableInv, HeapType
<1>2. AllocOffset(h, size) = IF S # {} THEN h.blocks[First(S)].offset ELSE h.bump
  BY DEF AllocOffset
<1> HIDE DEF S
<1>3. SUFFICES ASSUME NEW j \in Live(h), h.blocks[j].offset = AllocOffset(h, size)
               PROVE  FALSE
  BY DEF LiveOffsets
<1>4. j \in DOMAIN h.blocks /\ ~ h.blocks[j].free
  BY DEF Live
<1>5. CASE S # {}
  <2>1. First(S) \in S
    BY <1>1, <1>5, FirstIsMember
  <2>2. First(S) = j
    BY <1>1, <1>2, <1>3, <1>4, <1>5, <2>1, OffsetsDiffer
  <2> QED BY <1>1, <1>4, <2>1, <2>2
<1>6. CASE S = {}
  <2>1. h.blocks[j] \in Block /\ BlockEnd(h.blocks[j]) <= h.bump /\ h.blocks[j].size > 0
    BY <1>4, BlockEndsBelowBump DEF TableInv, Tiled
  <2>2. h.blocks[j].offset \in Nat /\ h.blocks[j].size \in Nat
    BY <2>1, BlockNumbers
  <2> QED BY <1>2, <1>3, <1>6, <2>1, <2>2 DEF BlockEnd
<1> QED BY <1>5, <1>6
-----------------------------------------------------------------------------
(* Copying a range of the memory leaves a memory.                          *)
LEMMA CopyKeepsMemory ==
  ASSUME NEW m \in [0 .. MemSize - 1 -> Byte], NEW dst \in Nat, NEW src \in Nat, NEW n \in Nat,
         src + n <= MemSize
  PROVE  CopyBytes(m, dst, src, n) \in [0 .. MemSize - 1 -> Byte]
<1>1. ASSUME NEW a \in 0 .. MemSize - 1, a \in dst .. dst + n - 1
      PROVE  m[a - dst + src] \in Byte
  BY <1>1, MemAssumption
<1> QED BY <1>1 DEF CopyBytes
-----------------------------------------------------------------------------
(* No operation of the allocator takes a block's start out of the table.   *)

(* heapFree marks a block, it does not remove it.                          *)
LEMMA FreeKeepsStarts ==
  ASSUME NEW h, TableInv(h), NEW offset, Tracked(h, offset)
  PROVE  Starts(h) \subseteq Starts(HeapFree(h, offset))
<1> DEFINE i == First(LiveAt(h, offset))
           g == HeapFree(h, offset)
<1>1. h.blocks \in Seq(Block) /\ g.blocks = [h.blocks EXCEPT ![i].free = TRUE]
  BY DEF TableInv, HeapType, HeapFree
<1> HIDE DEF i, g
<1>2. DOMAIN g.blocks = DOMAIN h.blocks
  BY <1>1
<1>3. ASSUME NEW j \in DOMAIN h.blocks
      PROVE  g.blocks[j].offset = h.blocks[j].offset
  <2>1. h.blocks[j] \in Block
    BY <1>1
  <2> QED BY <1>1, <2>1 DEF Block
<1> QED BY <1>2, <1>3 DEF Starts, g

(* A block taken from the free list keeps its offset, and what is left of  *)
(* it only adds one.                                                       *)
LEMMA CarveKeepsStarts ==
  ASSUME NEW h, TableInv(h), NEW n \in Nat \ {0}, NEW i \in FreeFits(h, n)
  PROVE  Starts(h) \subseteq Starts(Carve(h, i, n))
<1> DEFINE used == Taken(h.blocks[i], n)
           g    == Carve(h, i, n)
<1>1. /\ i \in 1 .. Len(h.blocks) /\ h.blocks[i].size >= n /\ h.blocks[i].size \in Nat
      /\ g.blocks \in Seq(Block)
      /\ h.blocks[i].size > n =>
           /\ Len(g.blocks) = Len(h.blocks) + 1
           /\ \A j \in 1 .. i - 1 : g.blocks[j] = h.blocks[j]
           /\ g.blocks[i] = used
           /\ \A j \in i + 2 .. Len(h.blocks) + 1 : g.blocks[j] = h.blocks[j - 1]
      /\ h.blocks[i].size = n =>
           /\ Len(g.blocks) = Len(h.blocks)
           /\ \A j \in 1 .. Len(h.blocks) :
                g.blocks[j] = IF j = i THEN used ELSE h.blocks[j]
  BY CarveElements
<1>2. used.offset = h.blocks[i].offset
  BY DEF Taken
<1>3. Len(h.blocks) \in Nat /\ DOMAIN h.blocks = 1 .. Len(h.blocks)
  BY DEF TableInv, HeapType
<1> HIDE DEF used, g
<1>4. ASSUME NEW k \in 1 .. Len(h.blocks)
      PROVE  \E j \in DOMAIN g.blocks : g.blocks[j].offset = h.blocks[k].offset
  <2>1. CASE h.blocks[i].size = n
    <3>1. k \in DOMAIN g.blocks
      BY <1>1, <1>3, <2>1
    <3> QED BY <1>1, <1>2, <2>1, <3>1
  <2>2. CASE h.blocks[i].size > n
    <3>1. CASE k < i
      <4>1. k \in 1 .. i - 1 /\ k \in DOMAIN g.blocks
        BY <1>1, <1>3, <2>2, <3>1
      <4> QED BY <1>1, <2>2, <4>1
    <3>2. CASE k = i
      <4>1. k \in DOMAIN g.blocks
        BY <1>1, <1>3, <2>2, <3>2
      <4> QED BY <1>1, <1>2, <2>2, <3>2, <4>1
    <3>3. CASE k > i
      <4>1. /\ k + 1 \in i + 2 .. Len(h.blocks) + 1 /\ (k + 1) - 1 = k
            /\ k + 1 \in DOMAIN g.blocks
        BY <1>1, <1>3, <2>2, <3>3
      <4> QED BY <1>1, <2>2, <4>1
    <3> QED BY <1>1, <3>1, <3>2, <3>3
  <2> QED BY <1>1, <2>1, <2>2
<1> QED BY <1>3, <1>4 DEF Starts, g

(* heapAlloc: first fit, or one start more at the bump pointer.            *)
LEMMA AllocKeepsStarts ==
  ASSUME NEW h, TableInv(h), NEW size, Unwrapped(size)
  PROVE  Starts(h) \subseteq Starts(HeapAlloc(h, size))
<1> DEFINE n == RoundUp(size)
<1>1. n \in Nat \ {0}
  BY DEF Unwrapped, RoundUp
<1>2. h.blocks \in Seq(Block)
  BY DEF TableInv, HeapType
<1>3. CASE FreeFits(h, n) # {}
  <2>1. FreeFits(h, n) \in SUBSET Nat
    BY <1>2 DEF FreeFits
  <2>2. First(FreeFits(h, n)) \in FreeFits(h, n)
    BY <1>3, <2>1, FirstIsMember
  <2> QED BY <1>1, <1>3, <2>2, CarveKeepsStarts DEF HeapAlloc
<1>4. CASE FreeFits(h, n) = {}
  <2> DEFINE new == [offset |-> h.bump, size |-> n, free |-> FALSE]
             g   == HeapAlloc(h, size)
  <2>1. g.blocks = Append(h.blocks, new)
    BY <1>4 DEF HeapAlloc, Extend
  <2> HIDE DEF new, g
  <2>2. \A j \in DOMAIN h.blocks : j \in DOMAIN g.blocks /\ g.blocks[j] = h.blocks[j]
    BY <1>2, <2>1
  <2> QED BY <2>2 DEF Starts, g
<1> QED BY <1>3, <1>4
-----------------------------------------------------------------------------
IInv == TypeOK /\ HeapTiled

LEMMA InitInv == Init => IInv
<1> SUFFICES ASSUME Init PROVE IInv
  OBVIOUS
<1>1. HeapType(heap)
  BY MemAssumption DEF Init, NoHeap, HeapType, U64
<1>2. Tiled(heap)
  BY MemAssumption DEF Init, NoHeap, Tiled
<1> QED BY <1>1, <1>2, MemAssumption, HeapAssumption DEF Init, IInv, TypeOK, HeapTiled

(* The sizes a program asks for never wrap the bump pointer.               *)
SizesFit == \A size \in Sizes : Unwrapped(size)

LEMMA NextInv ==
  ASSUME SizesFit, IInv, [Next]_vars
  PROVE  IInv'
<1>1. /\ TableInv(heap) /\ memory \in [0 .. MemSize - 1 -> Byte]
      /\ status \in {"running", "out of memory", "free of untracked pointer",
                     "operation on untracked pointer", "out of bounds"}
  BY DEF IInv, TypeOK, HeapTiled, TableInv
<1>2. \A size \in Sizes : Unwrapped(size) /\ size \in Nat
  BY DEF SizesFit, Unwrapped
<1>3. /\ Pointers \subseteq Nat
      /\ \A ptr \in Pointers, size \in Sizes : (ptr + size) % Word = ptr + size
  BY <1>2, HeapAssumption, MemAssumption DEF U64
<1> USE DEF Running, Throw
<1>4. ASSUME NEW size \in Sizes, Alloc(size) PROVE TableInv(heap') /\ UNCHANGED memory
  BY <1>1, <1>2, <1>4, AllocKeepsTable DEF Alloc
<1>5. ASSUME NEW ptr \in Pointers, Free(ptr) PROVE TableInv(heap') /\ UNCHANGED memory
  BY <1>1, <1>5, FreeKeepsTable DEF Free
<1>6. ASSUME NEW ptr \in Pointers, NEW size \in Sizes, Realloc(ptr, size)
      PROVE  TableInv(heap') /\ memory' \in [0 .. MemSize - 1 -> Byte]
  <2>1. CASE Tracked(heap, ptr) /\ CanAlloc(heap, size)
    <3> DEFINE g == HeapAlloc(heap, size)
               copyLen == Smaller(HeapBlockSize(heap, ptr), size)
               dst == AllocOffset(heap, size)
    <3>1. heap' = HeapFree(g, ptr) /\ memory' = CopyBytes(memory, dst, ptr, copyLen)
      BY <1>6, <2>1 DEF Realloc
    <3>2. TableInv(g) /\ Tracked(g, ptr)
      BY <1>1, <1>2, <2>1, AllocKeepsTable, AllocKeepsTracked
    <3> HIDE DEF g
    <3>3. TableInv(heap')
      BY <3>1, <3>2, FreeKeepsTable
    <3>4. copyLen \in Nat /\ ptr \in Nat /\ ptr + copyLen <= MemSize
      <4>1. /\ ptr \in Nat /\ HeapBlockSize(heap, ptr) \in Nat
            /\ ptr + HeapBlockSize(heap, ptr) <= MemSize
        BY <1>1, <2>1, TrackedBlock
      <4> QED BY <4>1, <1>2, MemAssumption DEF Smaller
    <3>5. dst \in Nat
      BY <1>1, AllocOffsetIsAddress
    <3> HIDE DEF copyLen, dst
    <3>6. memory' \in [0 .. MemSize - 1 -> Byte]
      BY <1>1, <3>1, <3>4, <3>5, CopyKeepsMemory
    <3> QED BY <3>3, <3>6
  <2>2. CASE ~ (Tracked(heap, ptr) /\ CanAlloc(heap, size))
    BY <1>1, <1>6, <2>2 DEF Realloc
  <2> QED BY <2>1, <2>2
<1>7. ASSUME NEW dst \in Pointers, NEW byte \in Byte, NEW len \in Sizes, MemSet(dst, byte, len)
      PROVE  UNCHANGED heap /\ memory' \in [0 .. MemSize - 1 -> Byte]
  BY <1>1, <1>7 DEF MemSet
<1>8. ASSUME NEW dst \in Pointers, NEW src \in Pointers, NEW len \in Sizes, MemMove(dst, src, len)
      PROVE  UNCHANGED heap /\ memory' \in [0 .. MemSize - 1 -> Byte]
  <2>1. CASE InRange(dst, len) /\ InRange(src, len)
    <3>1. src + len <= MemSize /\ src \in Nat /\ dst \in Nat /\ len \in Nat
      BY <1>2, <1>3, <2>1 DEF InRange
    <3> QED BY <1>1, <1>8, <2>1, <3>1, CopyKeepsMemory DEF MemMove
  <2>2. CASE ~ (InRange(dst, len) /\ InRange(src, len))
    BY <1>1, <1>8, <2>2 DEF MemMove
  <2> QED BY <2>1, <2>2
<1>9. ASSUME Next
      PROVE status' \in {"running", "out of memory", "free of untracked pointer",
                         "operation on untracked pointer", "out of bounds"}
  BY <1>1, <1>9 DEF Next, Alloc, Free, Realloc, MemSet, MemMove
<1>10. CASE Next
  <2>1. TableInv(heap') /\ memory' \in [0 .. MemSize - 1 -> Byte]
    BY <1>1, <1>4, <1>5, <1>6, <1>7, <1>8, <1>10 DEF Next
  <2> QED BY <1>9, <1>10, <2>1 DEF IInv, TypeOK, HeapTiled, TableInv
<1>11. CASE UNCHANGED vars
  BY <1>11 DEF IInv, TypeOK, HeapTiled, vars
<1> QED BY <1>10, <1>11

(* The heap, its memory and the outcome of a run keep their types.         *)
THEOREM TypeCorrect ==
  ASSUME SizesFit
  PROVE  Spec => []TypeOK
<1>1. IInv /\ [Next]_vars => IInv'
  BY NextInv
<1>2. IInv => TypeOK
  BY DEF IInv
<1> QED BY InitInv, <1>1, <1>2, PTL DEF Spec

(* Every byte below the bump pointer belongs to exactly one block.         *)
THEOREM StaysTiled ==
  ASSUME SizesFit
  PROVE  Spec => []HeapTiled
<1>1. IInv /\ [Next]_vars => IInv'
  BY NextInv
<1>2. IInv => HeapTiled
  BY DEF IInv
<1> QED BY InitInv, <1>1, <1>2, PTL DEF Spec

(* No two live allocations share a byte, whatever the program does.        *)
THEOREM AllocationsStayDisjoint ==
  ASSUME SizesFit
  PROVE  Spec => []LiveAllocationsDisjoint
<1>1. IInv /\ [Next]_vars => IInv'
  BY NextInv
<1>2. IInv => LiveAllocationsDisjoint
  BY TiledIsDisjoint DEF IInv, TypeOK, HeapTiled, TableInv, LiveAllocationsDisjoint
<1> QED BY InitInv, <1>1, <1>2, PTL DEF Spec

(* Where a block starts, a block starts for the rest of the run: nothing   *)
(* the program does merges blocks or gives memory back to the bump pointer.*)
THEOREM StartsStay ==
  ASSUME SizesFit
  PROVE  Spec => BlockStartsAreForever
<1>1. IInv /\ [Next]_vars => IInv'
  BY NextInv
<1>2. ASSUME IInv, [Next]_vars
      PROVE  Starts(heap) \subseteq Starts(heap)'
  <2>1. TableInv(heap)
    BY <1>2 DEF IInv, TypeOK, HeapTiled, TableInv
  <2>2. \A size \in Sizes : Unwrapped(size)
    BY DEF SizesFit
  <2>3. UNCHANGED heap => Starts(heap) \subseteq Starts(heap)'
    BY DEF Starts
  <2>4. ASSUME NEW size \in Sizes, Alloc(size)
        PROVE  Starts(heap) \subseteq Starts(heap')
    BY <2>1, <2>2, <2>4, AllocKeepsStarts DEF Alloc, Throw
  <2>5. ASSUME NEW ptr \in Pointers, Free(ptr)
        PROVE  Starts(heap) \subseteq Starts(heap')
    BY <2>1, <2>5, FreeKeepsStarts DEF Free, Throw
  <2>6. ASSUME NEW ptr \in Pointers, NEW size \in Sizes, Realloc(ptr, size)
        PROVE  Starts(heap) \subseteq Starts(heap')
    <3>1. CASE Tracked(heap, ptr) /\ CanAlloc(heap, size)
      <4> DEFINE g == HeapAlloc(heap, size)
      <4>1. heap' = HeapFree(g, ptr)
        BY <2>6, <3>1 DEF Realloc, Throw
      <4>2. TableInv(g) /\ Tracked(g, ptr)
        BY <2>1, <2>2, <3>1, AllocKeepsTable, AllocKeepsTracked
      <4>3. Starts(heap) \subseteq Starts(g)
        BY <2>1, <2>2, AllocKeepsStarts
      <4> HIDE DEF g
      <4>4. Starts(g) \subseteq Starts(heap')
        BY <4>1, <4>2, FreeKeepsStarts
      <4> QED BY <4>3, <4>4
    <3>2. CASE ~ (Tracked(heap, ptr) /\ CanAlloc(heap, size))
      <4>1. UNCHANGED heap
        BY <2>6, <3>2 DEF Realloc, Throw
      <4> QED BY <4>1
    <3> QED BY <3>1, <3>2
  <2>7. ASSUME NEW dst \in Pointers, NEW byte \in Byte, NEW len \in Sizes, MemSet(dst, byte, len)
        PROVE  UNCHANGED heap
    BY <2>7 DEF MemSet, Throw
  <2>8. ASSUME NEW dst \in Pointers, NEW src \in Pointers, NEW len \in Sizes, MemMove(dst, src, len)
        PROVE  UNCHANGED heap
    BY <2>8 DEF MemMove, Throw
  <2>9. Starts(heap)' = Starts(heap')
    BY DEF Starts
  <2>10. CASE Next
    BY <2>3, <2>4, <2>5, <2>6, <2>7, <2>8, <2>9, <2>10 DEF Next
  <2>11. CASE UNCHANGED vars
    BY <2>3, <2>11 DEF vars
  <2> QED BY <1>2, <2>10, <2>11
<1> QED BY InitInv, <1>1, <1>2, PTL DEF Spec, BlockStartsAreForever
-----------------------------------------------------------------------------
(* The objects of a heap h in a memory m.                                  *)

IsMemory(m) == m \in [0 .. MemSize - 1 -> Byte]

View(h, m) == [o \in LiveOffsets(h) |-> [k \in 1 .. HeapBlockSize(h, o) |-> m[o + k - 1]]]

(* An object has the bytes of its block.                                   *)
LEMMA ObjectOfBlock ==
  ASSUME NEW h, TableInv(h), NEW m, IsMemory(m), NEW b \in LiveBlocks(h)
  PROVE  /\ b.offset \in DOMAIN View(h, m) /\ b.offset \in Objects!Address
         /\ View(h, m)[b.offset] = [k \in 1 .. b.size |-> m[b.offset + k - 1]]
         /\ View(h, m)[b.offset] \in [1 .. b.size -> Byte]
         /\ b.size \in Nat \ {0} /\ Objects!Extent(b.offset, b.size) \subseteq Objects!Address
<1> DEFINE v == View(h, m)[b.offset]
<1>1. /\ b.offset \in Nat /\ b.size \in Nat \ {0} /\ b.offset + b.size <= MemSize
      /\ MemSize \in Nat
  BY LiveBlockInside, MemAssumption
<1>2. b.offset \in LiveOffsets(h) /\ HeapBlockSize(h, b.offset) = b.size
  BY LiveBlockAt, TrackedIsLive
<1>3. v = [k \in 1 .. b.size |-> m[b.offset + k - 1]]
  BY <1>2 DEF View
<1>4. \A k \in 1 .. b.size : b.offset + k - 1 \in 0 .. MemSize - 1
  BY <1>1
<1>5. v \in [1 .. b.size -> Byte]
  BY <1>3, <1>4 DEF IsMemory
<1>7. b.offset \in Objects!Address /\ Objects!Extent(b.offset, b.size) \subseteq Objects!Address
  BY <1>1 DEF Objects!Address, Objects!Extent
<1>8. b.offset \in DOMAIN View(h, m)
  BY <1>2 DEF View
<1> QED BY <1>1, <1>3, <1>5, <1>7, <1>8

LEMMA ObjectLength ==
  ASSUME NEW h, TableInv(h), NEW m, IsMemory(m), NEW b \in LiveBlocks(h)
  PROVE  Len(View(h, m)[b.offset]) = b.size
<1>1. PICK v, n : v = View(h, m)[b.offset] /\ n = b.size
  OBVIOUS
<1>2. n \in Nat /\ v \in [1 .. n -> Byte]
  BY <1>1, ObjectOfBlock
<1>3. v \in Seq(Byte) /\ Len(v) = n
  BY <1>2
<1> QED BY <1>1, <1>3

(* Every object is that of a live block.                                   *)
LEMMA BlockOfObject ==
  ASSUME NEW h, TableInv(h), NEW m, NEW o \in DOMAIN View(h, m)
  PROVE  \E b \in LiveBlocks(h) : b.offset = o
BY TrackedIsLive DEF View

(* heapFree takes one object away.                                         *)
LEMMA FreeView ==
  ASSUME NEW h, TableInv(h), NEW m, IsMemory(m), NEW a, Tracked(h, a)
  PROVE  /\ a \in DOMAIN View(h, m) /\ a \in Objects!Address
         /\ View(HeapFree(h, a), m) = Objects!Without(View(h, m), a)
<1>0. PICK g : g = HeapFree(h, a)
  OBVIOUS
<1>1. TableInv(g) /\ LiveBlocks(g) = {b \in LiveBlocks(h) : b.offset # a}
  BY <1>0, FreeKeepsTable, FreeTakesOne
<1>2. PICK b \in LiveBlocks(h) : b.offset = a
  BY TrackedIsLive
<1>3. a \in DOMAIN View(h, m) /\ a \in Objects!Address
  BY <1>2, ObjectOfBlock
<1>4. DOMAIN View(g, m) = DOMAIN View(h, m) \ {a}
  <2>1. \A o : o \in LiveOffsets(g) <=> \E c \in LiveBlocks(g) : c.offset = o
    BY TrackedIsLive
  <2>2. \A o : o \in LiveOffsets(h) <=> \E c \in LiveBlocks(h) : c.offset = o
    BY TrackedIsLive
  <2>3. LiveOffsets(g) = LiveOffsets(h) \ {a}
    BY <1>1, <2>1, <2>2
  <2> QED BY <2>3 DEF View
<1>5. ASSUME NEW o \in DOMAIN View(g, m) PROVE View(g, m)[o] = View(h, m)[o]
  <2>1. PICK c \in LiveBlocks(g) : c.offset = o
    BY <1>1, BlockOfObject
  <2>2. View(g, m)[c.offset] = [k \in 1 .. c.size |-> m[c.offset + k - 1]]
    <3>1. TableInv(g)
      BY <1>1
    <3> QED BY <3>1, ObjectOfBlock
  <2>3. View(h, m)[c.offset] = [k \in 1 .. c.size |-> m[c.offset + k - 1]]
    <3>1. c \in LiveBlocks(h)
      BY <1>1
    <3> QED BY <3>1, ObjectOfBlock
  <2> QED BY <2>1, <2>2, <2>3
<1>6. View(g, m) = [o \in DOMAIN View(g, m) |-> View(g, m)[o]]
  BY DEF View
<1>7. View(g, m) = Objects!Without(View(h, m), a)
  BY <1>4, <1>5, <1>6 DEF Objects!Without
<1> QED BY <1>0, <1>3, <1>7

(* heapAlloc adds one, in bytes that were no object's.                     *)
LEMMA AllocView ==
  ASSUME NEW h, TableInv(h), NEW m, IsMemory(m), NEW size, Unwrapped(size), CanAlloc(h, size)
  PROVE  LET a == AllocOffset(h, size)
             n == RoundUp(size)
             v == [k \in 1 .. n |-> m[a + k - 1]] IN
         /\ n \in Nat \ {0} /\ a \in Objects!Address /\ v \in [1 .. n -> Byte]
         /\ a \notin DOMAIN View(h, m)
         /\ Objects!Extent(a, n) \subseteq Objects!Address
         /\ \A b \in LiveBlocks(h) : Objects!Extent(b.offset, b.size) \cap Objects!Extent(a, n) = {}
         /\ View(HeapAlloc(h, size), m) = Objects!With(View(h, m), a, v)
<1>0. PICK g, a, n, v, new :
        /\ g = HeapAlloc(h, size) /\ a = AllocOffset(h, size) /\ n = RoundUp(size)
        /\ v = [k \in 1 .. n |-> m[a + k - 1]]
        /\ new = [offset |-> a, size |-> n, free |-> FALSE]
  OBVIOUS
<1>1. TableInv(g) /\ LiveBlocks(g) = LiveBlocks(h) \cup {new} /\ a \notin LiveOffsets(h)
  BY <1>0, AllocKeepsTable, AllocAddsOne, AllocIsFresh
<1>2. new \in LiveBlocks(g) /\ new.offset = a /\ new.size = n
  BY <1>0, <1>1
<1>3. a \notin DOMAIN View(h, m)
  BY <1>1 DEF View
<1>4. /\ n \in Nat \ {0} /\ a \in Objects!Address /\ v \in [1 .. n -> Byte]
      /\ Objects!Extent(a, n) \subseteq Objects!Address
      /\ a \in DOMAIN View(g, m) /\ View(g, m)[a] = v
  <2>1. /\ new.size \in Nat \ {0} /\ new.offset \in Objects!Address
        /\ Objects!Extent(new.offset, new.size) \subseteq Objects!Address
        /\ new.offset \in DOMAIN View(g, m) /\ View(g, m)[new.offset] \in [1 .. new.size -> Byte]
        /\ View(g, m)[new.offset] = [k \in 1 .. new.size |-> m[new.offset + k - 1]]
    <3>1. TableInv(g)
      BY <1>1
    <3>2. new \in LiveBlocks(g)
      BY <1>2
    <3> QED BY <3>1, <3>2, ObjectOfBlock
  <2>2. v = [k \in 1 .. new.size |-> m[new.offset + k - 1]]
    BY <1>0, <1>2
  <2> QED BY <1>2, <2>1, <2>2
<1>5. ASSUME NEW b \in LiveBlocks(h)
      PROVE  Objects!Extent(b.offset, b.size) \cap Objects!Extent(a, n) = {}
  <2>1. b \in LiveBlocks(g) /\ b.offset # a
    <3>1. b.offset \in LiveOffsets(h)
      BY TrackedIsLive
    <3> QED BY <1>1, <3>1
  <2>2. b.offset + b.size <= a \/ a + n <= b.offset
    BY <1>1, <1>2, <2>1, LiveBlocksDisjoint
  <2>3. b.offset \in Nat /\ b.size \in Nat /\ a \in Nat /\ n \in Nat
    BY <1>1, <1>2, <2>1, LiveBlockInside
  <2> QED BY <2>2, <2>3 DEF Objects!Extent
<1>6. DOMAIN View(g, m) = DOMAIN View(h, m) \cup {a}
  <2>1. \A o : o \in LiveOffsets(g) <=> \E c \in LiveBlocks(g) : c.offset = o
    BY TrackedIsLive
  <2>2. \A o : o \in LiveOffsets(h) <=> \E c \in LiveBlocks(h) : c.offset = o
    BY TrackedIsLive
  <2>3. \A o : o \in LiveOffsets(g) <=> o \in LiveOffsets(h) \/ o = a
    BY <1>1, <1>2, <2>1, <2>2
  <2> QED BY <2>3 DEF View
<1>7. ASSUME NEW o \in DOMAIN View(h, m) PROVE View(g, m)[o] = View(h, m)[o]
  <2>1. PICK c \in LiveBlocks(h) : c.offset = o
    BY BlockOfObject
  <2>2. View(g, m)[c.offset] = [k \in 1 .. c.size |-> m[c.offset + k - 1]]
    <3>1. TableInv(g) /\ c \in LiveBlocks(g)
      BY <1>1
    <3> QED BY <3>1, ObjectOfBlock
  <2>3. View(h, m)[c.offset] = [k \in 1 .. c.size |-> m[c.offset + k - 1]]
    BY ObjectOfBlock
  <2> QED BY <2>1, <2>2, <2>3
<1>8. View(g, m) = [o \in DOMAIN View(g, m) |-> View(g, m)[o]]
  BY DEF View
<1>9. View(g, m) = Objects!With(View(h, m), a, v)
  BY <1>3, <1>4, <1>6, <1>7, <1>8 DEF Objects!With
<1> QED BY <1>0, <1>3, <1>4, <1>5, <1>9

(* An object whose bytes stay what they are stays what it is.              *)
LEMMA SameBytesSameView ==
  ASSUME NEW h, TableInv(h), NEW m, IsMemory(m), NEW m2, IsMemory(m2),
         \A b \in LiveBlocks(h) : \A k \in 1 .. b.size : m2[b.offset + k - 1] = m[b.offset + k - 1]
  PROVE  View(h, m2) = View(h, m)
<1>1. ASSUME NEW o \in LiveOffsets(h) PROVE View(h, m2)[o] = View(h, m)[o]
  <2>1. PICK b \in LiveBlocks(h) : b.offset = o
    BY <1>1, TrackedIsLive
  <2>2. View(h, m2)[b.offset] = [k \in 1 .. b.size |-> m2[b.offset + k - 1]]
    BY ObjectOfBlock
  <2>3. View(h, m)[b.offset] = [k \in 1 .. b.size |-> m[b.offset + k - 1]]
    BY ObjectOfBlock
  <2> QED BY <2>1, <2>2, <2>3
<1>2. /\ View(h, m2) = [o \in LiveOffsets(h) |-> View(h, m2)[o]]
      /\ View(h, m) = [o \in LiveOffsets(h) |-> View(h, m)[o]]
  BY DEF View
<1> QED BY <1>1, <1>2

(* Bytes written to n addresses from a on are seen where an object has one *)
(* of them and nowhere else.                                               *)
Written(view, a, n, w) ==
  [o \in DOMAIN view |->
    [k \in 1 .. Len(view[o]) |->
      IF o + k - 1 \in Objects!Extent(a, n) THEN w[o + k - a] ELSE view[o][k]]]

(* Beside the blocks of h, memory m2 is m with the n bytes w written at a.  *)
WrittenAt(h, m, m2, a, n, w) ==
  /\ TableInv(h) /\ IsMemory(m) /\ IsMemory(m2) /\ a \in Nat /\ n \in Nat
  /\ \A x \in 0 .. MemSize - 1 :
       m2[x] = IF x \in Objects!Extent(a, n) THEN w[x - a + 1] ELSE m[x]

LEMMA WriteView ==
  ASSUME NEW h, NEW m, NEW m2, NEW a, NEW n, NEW w, WrittenAt(h, m, m2, a, n, w)
  PROVE  View(h, m2) = Written(View(h, m), a, n, w)
<1>0. TableInv(h) /\ IsMemory(m) /\ IsMemory(m2) /\ a \in Nat /\ n \in Nat
  BY DEF WrittenAt
<1>1. ASSUME NEW o \in LiveOffsets(h)
      PROVE  View(h, m2)[o] =
               [k \in 1 .. Len(View(h, m)[o]) |->
                 IF o + k - 1 \in Objects!Extent(a, n) THEN w[o + k - a] ELSE View(h, m)[o][k]]
  <2>1. PICK b \in LiveBlocks(h) : b.offset = o
    BY <1>1, TrackedIsLive
  <2>2. View(h, m2)[b.offset] = [k \in 1 .. b.size |-> m2[b.offset + k - 1]]
    BY <1>0, ObjectOfBlock
  <2>3. /\ View(h, m)[b.offset] = [k \in 1 .. b.size |-> m[b.offset + k - 1]]
        /\ Len(View(h, m)[b.offset]) = b.size
    BY <1>0, ObjectOfBlock, ObjectLength
  <2>4. b.offset \in Nat /\ b.size \in Nat /\ b.offset + b.size <= MemSize /\ MemSize \in Nat
    BY <1>0, LiveBlockInside, MemAssumption
  <2>5. ASSUME NEW k \in 1 .. b.size
        PROVE  m2[o + k - 1] =
                 IF o + k - 1 \in Objects!Extent(a, n) THEN w[o + k - a] ELSE View(h, m)[o][k]
    <3>1. o + k - 1 \in 0 .. MemSize - 1 /\ (o + k - 1) - a + 1 = o + k - a
      BY <1>0, <2>1, <2>4
    <3>2. View(h, m)[o][k] = m[o + k - 1]
      BY <2>1, <2>3
    <3> QED BY <3>1, <3>2 DEF WrittenAt
  <2>6. View(h, m2)[o] = [k \in 1 .. b.size |-> View(h, m2)[o][k]]
    BY <2>1, <2>2
  <2>7. \A k \in 1 .. b.size : View(h, m2)[o][k] = m2[o + k - 1]
    BY <2>1, <2>2
  <2>8. Len(View(h, m)[o]) = b.size
    BY <2>1, <2>3
  <2> QED BY <2>5, <2>6, <2>7, <2>8
<1>2. View(h, m2) = [o \in LiveOffsets(h) |-> View(h, m2)[o]] /\ DOMAIN View(h, m) = LiveOffsets(h)
  BY DEF View
<1> QED BY <1>1, <1>2 DEF Written

(* heapRealloc moves one object and takes its bytes along.                 *)
LEMMA ReallocView ==
  ASSUME NEW h, TableInv(h), NEW m, IsMemory(m), NEW size, Unwrapped(size), CanAlloc(h, size),
         NEW ptr, Tracked(h, ptr)
  PROVE  LET a  == AllocOffset(h, size)
             n  == RoundUp(size)
             m2 == CopyBytes(m, a, ptr, Smaller(HeapBlockSize(h, ptr), size)) IN
         \E v \in [1 .. n -> Byte] :
           /\ \A k \in 1 .. size : k <= Len(View(h, m)[ptr]) => v[k] = View(h, m)[ptr][k]
           /\ View(HeapFree(HeapAlloc(h, size), ptr), m2) =
                Objects!With(Objects!Without(View(h, m), ptr), a, v)
<1>0. PICK g, a, n, l, m2, v :
        /\ g = HeapAlloc(h, size) /\ a = AllocOffset(h, size) /\ n = RoundUp(size)
        /\ l = Smaller(HeapBlockSize(h, ptr), size)
        /\ m2 = CopyBytes(m, a, ptr, l)
        /\ v = [k \in 1 .. n |-> m2[a + k - 1]]
  OBVIOUS
<1>1. PICK b \in LiveBlocks(h) : b.offset = ptr
  BY TrackedIsLive
<1>2. /\ ptr \in Nat /\ b.size \in Nat /\ ptr + b.size <= MemSize /\ MemSize \in Nat
      /\ HeapBlockSize(h, ptr) = b.size
  BY <1>1, LiveBlockInside, LiveBlockAt, MemAssumption
<1>3. /\ n \in Nat \ {0} /\ size \in Nat /\ size <= n
      /\ l \in Nat /\ l <= n /\ l <= b.size /\ \A k \in 1 .. size : k <= b.size => k <= l
  BY <1>0, <1>2 DEF Unwrapped, RoundUp, Smaller
<1>4. a \in Nat
  BY <1>0, AllocOffsetIsAddress
<1>5. IsMemory(m2)
  BY SMTT(30), <1>0, <1>2, <1>3, <1>4, CopyKeepsMemory DEF IsMemory
<1>6. \A x \in 0 .. MemSize - 1 : m2[x] = IF x \in a .. a + l - 1 THEN m[x - a + ptr] ELSE m[x]
  BY <1>0 DEF CopyBytes, IsMemory
<1>7. TableInv(g) /\ Tracked(g, ptr)
  BY <1>0, AllocKeepsTable, AllocKeepsTracked
<1>8. /\ a \in Objects!Address /\ v \in [1 .. n -> Byte] /\ a \notin DOMAIN View(h, m2)
      /\ Objects!Extent(a, n) \subseteq Objects!Address
      /\ \A c \in LiveBlocks(h) : Objects!Extent(c.offset, c.size) \cap Objects!Extent(a, n) = {}
      /\ View(g, m2) = Objects!With(View(h, m2), a, v)
  BY <1>0, <1>5, AllocView
<1>9. View(h, m2) = View(h, m)
  <2>1. ASSUME NEW c \in LiveBlocks(h), NEW k \in 1 .. c.size
        PROVE  m2[c.offset + k - 1] = m[c.offset + k - 1]
    <3>1. c.offset \in Nat /\ c.size \in Nat /\ c.offset + c.size <= MemSize
      BY LiveBlockInside
    <3>2. c.offset + k - 1 \in Objects!Extent(c.offset, c.size) /\ c.offset + k - 1 \in 0 .. MemSize - 1
      BY <1>2, <3>1 DEF Objects!Extent
    <3>3. c.offset + k - 1 \notin Objects!Extent(a, n)
      BY <1>8, <3>2
    <3>4. c.offset + k - 1 \notin a .. a + l - 1
      BY <1>3, <1>4, <3>1, <3>3 DEF Objects!Extent
    <3> QED BY <1>6, <3>2, <3>4
  <2> QED BY <1>5, <2>1, SameBytesSameView
<1>10. View(HeapFree(g, ptr), m2) = Objects!Without(Objects!With(View(h, m), a, v), ptr)
  BY <1>5, <1>7, <1>8, <1>9, FreeView
<1>11. ptr \in DOMAIN View(h, m) /\ a # ptr
  <2>1. ptr \in DOMAIN View(h, m)
    BY FreeView
  <2> QED BY <1>8, <1>9, <2>1
<1>12. Objects!Without(Objects!With(View(h, m), a, v), ptr)
         = Objects!With(Objects!Without(View(h, m), ptr), a, v)
  <2>1. (DOMAIN View(h, m) \cup {a}) \ {ptr} = (DOMAIN View(h, m) \ {ptr}) \cup {a}
    BY <1>11
  <2> QED BY <1>11, <2>1 DEF Objects!Without, Objects!With
<1>13. ASSUME NEW k \in 1 .. size, k <= Len(View(h, m)[ptr])
       PROVE  v[k] = View(h, m)[ptr][k]
  <2>1. Len(View(h, m)[ptr]) = b.size /\ View(h, m)[ptr] = [j \in 1 .. b.size |-> m[ptr + j - 1]]
    <3>1. /\ Len(View(h, m)[b.offset]) = b.size
          /\ View(h, m)[b.offset] = [j \in 1 .. b.size |-> m[b.offset + j - 1]]
      BY ObjectOfBlock, ObjectLength
    <3> QED BY <1>1, <3>1
  <2>2. k \in 1 .. b.size /\ k \in 1 .. n /\ k <= l
    BY <1>2, <1>3, <1>13, <2>1
  <2>3. a + k - 1 \in Objects!Address /\ a + k - 1 \in a .. a + l - 1 /\ (a + k - 1) - a + ptr = ptr + k - 1
    <3>1. a + k - 1 \in Objects!Extent(a, n)
      BY <1>3, <1>4, <2>2 DEF Objects!Extent
    <3> QED BY <1>2, <1>3, <1>4, <1>8, <2>2, <3>1
  <2>4. v[k] = m[ptr + k - 1]
    BY <1>0, <1>6, <2>2, <2>3 DEF Objects!Address
  <2> QED BY <2>1, <2>2, <2>4
<1> QED BY <1>0, <1>8, <1>10, <1>12, <1>13

(* Every instruction does to the objects what HeapSpec allows, or nothing. *)
LEMMA StepImplements ==
  ASSUME SizesFit, IInv, [Next]_vars
  PROVE  [Objects!Next]_objects
<1>1. TableInv(heap) /\ IsMemory(memory) /\ Word \in Nat /\ MemSize \in Nat \ {0}
  BY MemAssumption DEF IInv, TypeOK, HeapTiled, TableInv, IsMemory
<1>2. objects = View(heap, memory) /\ objects' = View(heap', memory')
  BY DEF objects, ObjectAt, View
<1>3. ASSUME NEW size \in Sizes
      PROVE  /\ Unwrapped(size) /\ size \in Nat /\ Objects!Bytes(size) = RoundUp(size)
  BY DEF SizesFit, Unwrapped, Objects!Bytes, RoundUp
<1>4. ASSUME NEW ptr \in Pointers, NEW size \in Sizes, InRange(ptr, size)
      PROVE  ptr \in Nat /\ ptr + size <= MemSize
  <2>1. ptr \in Nat /\ size \in Nat /\ ptr + size < Word
    BY <1>1, <1>3, HeapAssumption DEF U64
  <2> QED BY <1>1, <1>4, <2>1 DEF InRange
<1>5. UNCHANGED <<heap, memory>> => UNCHANGED objects
  BY <1>2
<1>6. ASSUME NEW size \in Sizes, CanAlloc(heap, size)
      PROVE  LET a == AllocOffset(heap, size)
                 n == RoundUp(size) IN a \in Objects!Address /\ Objects!Fresh(a, n)
  <2>1. PICK a, n : a = AllocOffset(heap, size) /\ n = RoundUp(size)
    OBVIOUS
  <2>2. /\ a \in Objects!Address /\ Objects!Extent(a, n) \subseteq Objects!Address
        /\ \A b \in LiveBlocks(heap) : Objects!Extent(b.offset, b.size) \cap Objects!Extent(a, n) = {}
    BY <1>1, <1>3, <1>6, <2>1, AllocView
  <2>3. ASSUME NEW o \in DOMAIN objects
        PROVE  Objects!Extent(o, Len(objects[o])) \cap Objects!Extent(a, n) = {}
    <3>1. PICK b \in LiveBlocks(heap) : b.offset = o
      BY <1>1, <1>2, BlockOfObject
    <3>2. Len(View(heap, memory)[b.offset]) = b.size
      BY <1>1, ObjectLength
    <3> QED BY <1>2, <2>2, <3>1, <3>2
  <2>4. Objects!Fresh(a, n)
    BY <2>2, <2>3 DEF Objects!Fresh
  <2> QED BY <2>1, <2>2, <2>4
<1>7. ASSUME NEW size \in Sizes, Alloc(size) PROVE [Objects!Next]_objects
  <2>1. CASE CanAlloc(heap, size)
    <3>1. heap' = HeapAlloc(heap, size) /\ memory' = memory
      BY <1>7, <2>1 DEF Alloc, Throw
    <3>2. PICK a, n, v : /\ a = AllocOffset(heap, size) /\ n = RoundUp(size)
                         /\ v = [k \in 1 .. n |-> memory[a + k - 1]]
      OBVIOUS
    <3>3. v \in [1 .. n -> Byte] /\ objects' = Objects!With(objects, a, v)
      BY <1>1, <1>2, <1>3, <2>1, <3>1, <3>2, AllocView
    <3>4. Objects!Allocate(size)
      BY <1>3, <1>6, <2>1, <3>2, <3>3 DEF Objects!Allocate
    <3> QED BY <3>4 DEF Objects!Next
  <2>2. CASE ~ CanAlloc(heap, size)
    BY <1>5, <1>7, <2>2 DEF Alloc, Throw
  <2> QED BY <2>1, <2>2
<1>8. ASSUME NEW ptr \in Pointers, Free(ptr) PROVE [Objects!Next]_objects
  <2>1. CASE Tracked(heap, ptr)
    <3>1. heap' = HeapFree(heap, ptr) /\ memory' = memory
      BY <1>8, <2>1 DEF Free, Throw
    <3>2. ptr \in Objects!Address /\ Objects!Release(ptr)
      BY <1>1, <1>2, <2>1, <3>1, FreeView DEF Objects!Release
    <3> QED BY <3>2 DEF Objects!Next
  <2>2. CASE ~ Tracked(heap, ptr)
    BY <1>5, <1>8, <2>2 DEF Free, Throw
  <2> QED BY <2>1, <2>2
<1>9. ASSUME NEW ptr \in Pointers, NEW size \in Sizes, Realloc(ptr, size)
      PROVE  [Objects!Next]_objects
  <2>1. CASE Tracked(heap, ptr) /\ CanAlloc(heap, size)
    <3>1. PICK a, n, m2 :
            /\ a = AllocOffset(heap, size) /\ n = RoundUp(size)
            /\ m2 = CopyBytes(memory, a, ptr, Smaller(HeapBlockSize(heap, ptr), size))
      OBVIOUS
    <3>2. heap' = HeapFree(HeapAlloc(heap, size), ptr) /\ memory' = m2
      BY <1>9, <2>1, <3>1 DEF Realloc, Throw
    <3>3. PICK v \in [1 .. n -> Byte] :
            /\ \A k \in 1 .. size : k <= Len(objects[ptr]) => v[k] = objects[ptr][k]
            /\ objects' = Objects!With(Objects!Without(objects, ptr), a, v)
      BY <1>1, <1>2, <1>3, <2>1, <3>1, <3>2, ReallocView
    <3>4. ptr \in DOMAIN objects /\ ptr \in Objects!Address
      BY <1>1, <1>2, <2>1, FreeView
    <3>5. Objects!Resize(ptr, size)
      BY <1>3, <1>6, <2>1, <3>1, <3>3, <3>4 DEF Objects!Resize
    <3> QED BY <3>4, <3>5 DEF Objects!Next
  <2>2. CASE ~ (Tracked(heap, ptr) /\ CanAlloc(heap, size))
    BY <1>5, <1>9, <2>2 DEF Realloc, Throw
  <2> QED BY <2>1, <2>2
<1>10. ASSUME NEW dst \in Pointers, NEW len \in Sizes, InRange(dst, len),
              NEW w \in [1 .. len -> Byte], IsMemory(memory'), heap' = heap,
              \A x \in 0 .. MemSize - 1 :
                memory'[x] = IF x \in dst .. dst + len - 1 THEN w[x - dst + 1] ELSE memory[x]
       PROVE  [Objects!Next]_objects
  <2>1. dst \in Nat /\ len \in Nat /\ dst + len <= MemSize
    BY <1>3, <1>4, <1>10
  <2>2. CASE dst \in Objects!Address
    <3>1. Objects!Write(dst, len)
      <4>1. objects' = Written(objects, dst, len, w)
        <5>1. PICK h, m, m2, a, n, v :
                h = heap /\ m = memory /\ m2 = memory' /\ a = dst /\ n = len /\ v = w
          OBVIOUS
        <5>2. TableInv(h) /\ IsMemory(m) /\ IsMemory(m2) /\ a \in Nat /\ n \in Nat
          BY <1>1, <1>10, <2>1, <5>1
        <5>3. WrittenAt(h, m, m2, a, n, v)
          BY <1>10, <5>1, <5>2 DEF Objects!Extent, WrittenAt
        <5>4. View(h, m2) = Written(View(h, m), a, n, v)
          BY <5>3, WriteView
        <5>5. objects = View(h, m) /\ objects' = View(h, m2)
          BY <1>2, <1>10, <5>1
        <5> QED BY <5>1, <5>4, <5>5
      <4> QED BY <4>1 DEF Written, Objects!Write
    <3> QED BY <2>2, <3>1 DEF Objects!Next
  <2>3. CASE dst \notin Objects!Address
    <3>1. len = 0
      BY <1>1, <2>1, <2>3 DEF Objects!Address
    <3>2. \A x \in 0 .. MemSize - 1 : memory'[x] = memory[x]
      BY <1>10, <2>1, <3>1
    <3>3. memory' = memory
      BY <1>1, <1>10, <3>2 DEF IsMemory
    <3> QED BY <1>5, <1>10, <3>3
  <2> QED BY <2>2, <2>3
<1>11. ASSUME NEW dst \in Pointers, NEW byte \in Byte, NEW len \in Sizes, MemSet(dst, byte, len)
       PROVE  [Objects!Next]_objects
  <2>1. CASE InRange(dst, len)
    <3> DEFINE w == [i \in 1 .. len |-> byte]
    <3>1. heap' = heap /\ memory' = [x \in DOMAIN memory |->
                                      IF x \in dst .. dst + len - 1 THEN byte ELSE memory[x]]
      BY <1>11, <2>1 DEF MemSet, Throw
    <3>2. dst \in Nat /\ len \in Nat /\ w \in [1 .. len -> Byte]
      BY <1>3, <1>4, <2>1
    <3>3. IsMemory(memory')
      BY <1>1, <3>1 DEF IsMemory
    <3>4. ASSUME NEW x \in 0 .. MemSize - 1
          PROVE  memory'[x] = IF x \in dst .. dst + len - 1 THEN w[x - dst + 1] ELSE memory[x]
      <4>1. x \in dst .. dst + len - 1 => x - dst + 1 \in 1 .. len
        BY <3>2
      <4> QED BY <1>1, <3>1, <4>1 DEF IsMemory
    <3> HIDE DEF w
    <3> QED BY <1>10, <2>1, <3>1, <3>2, <3>3, <3>4
  <2>2. CASE ~ InRange(dst, len)
    BY <1>5, <1>11, <2>2 DEF MemSet, Throw
  <2> QED BY <2>1, <2>2
<1>12. ASSUME NEW dst \in Pointers, NEW src \in Pointers, NEW len \in Sizes, MemMove(dst, src, len)
       PROVE  [Objects!Next]_objects
  <2>1. CASE InRange(dst, len) /\ InRange(src, len)
    <3> DEFINE w == [i \in 1 .. len |-> memory[src + i - 1]]
    <3>1. heap' = heap /\ memory' = CopyBytes(memory, dst, src, len)
      BY <1>12, <2>1 DEF MemMove, Throw
    <3>2. dst \in Nat /\ src \in Nat /\ len \in Nat /\ src + len <= MemSize
      BY <1>3, <1>4, <2>1
    <3>3. w \in [1 .. len -> Byte]
      <4>1. \A i \in 1 .. len : src + i - 1 \in 0 .. MemSize - 1
        BY <1>1, <3>2
      <4> QED BY <1>1, <4>1 DEF IsMemory
    <3>4. IsMemory(memory')
      BY <1>1, <3>1, <3>2, CopyKeepsMemory DEF IsMemory
    <3>5. ASSUME NEW x \in 0 .. MemSize - 1
          PROVE  memory'[x] = IF x \in dst .. dst + len - 1 THEN w[x - dst + 1] ELSE memory[x]
      <4>1. x \in dst .. dst + len - 1 =>
              x - dst + 1 \in 1 .. len /\ src + (x - dst + 1) - 1 = x - dst + src
        BY <3>2
      <4> QED BY <1>1, <3>1, <4>1 DEF IsMemory, CopyBytes
    <3> HIDE DEF w
    <3> QED BY <1>10, <2>1, <3>1, <3>3, <3>4, <3>5
  <2>2. CASE ~ (InRange(dst, len) /\ InRange(src, len))
    BY <1>5, <1>12, <2>2 DEF MemMove, Throw
  <2> QED BY <2>1, <2>2
<1>13. CASE UNCHANGED vars
  BY <1>5, <1>13 DEF vars
<1> QED BY <1>7, <1>8, <1>9, <1>11, <1>12, <1>13 DEF Next

(* A program sees an allocation as bytes of its own: they change only when *)
(* it writes to them, and realloc takes them along, whatever the size of   *)
(* the memory and of the allocations.                                      *)
THEOREM AllocatorKeepsObjects ==
  ASSUME SizesFit
  PROVE  Spec => ImplementsObjects
<1>1. Init => Objects!Init
  <2> SUFFICES ASSUME Init PROVE objects = [a \in {} |-> <<>>]
    BY DEF Objects!Init
  <2>1. LiveOffsets(heap) = {}
    BY DEF Init, NoHeap, LiveOffsets, Live
  <2> QED BY <2>1 DEF objects
<1>2. IInv /\ [Next]_vars => IInv'
  BY NextInv
<1>3. IInv /\ [Next]_vars => [Objects!Next]_objects
  BY StepImplements
<1> QED BY InitInv, <1>1, <1>2, <1>3, PTL DEF Spec, ImplementsObjects, Objects!Spec
-----------------------------------------------------------------------------
(* What the allocator does to the offsets of the live blocks.              *)

LEMMA FreeOffsets ==
  ASSUME NEW h, TableInv(h), NEW a, Tracked(h, a)
  PROVE  LiveOffsets(HeapFree(h, a)) = LiveOffsets(h) \ {a}
<1>1. PICK g : g = HeapFree(h, a)
  OBVIOUS
<1>2. LiveBlocks(g) = {b \in LiveBlocks(h) : b.offset # a}
  BY <1>1, FreeTakesOne
<1>3. \A o : o \in LiveOffsets(g) <=> \E b \in LiveBlocks(g) : b.offset = o
  BY TrackedIsLive
<1>4. \A o : o \in LiveOffsets(h) <=> \E b \in LiveBlocks(h) : b.offset = o
  BY TrackedIsLive
<1>5. LiveOffsets(g) = LiveOffsets(h) \ {a}
  BY <1>2, <1>3, <1>4
<1> QED BY <1>1, <1>5

LEMMA AllocOffsets ==
  ASSUME NEW h, TableInv(h), NEW size, Unwrapped(size), CanAlloc(h, size)
  PROVE  LiveOffsets(HeapAlloc(h, size)) = LiveOffsets(h) \cup {AllocOffset(h, size)}
<1>1. PICK g, a, new : /\ g = HeapAlloc(h, size) /\ a = AllocOffset(h, size)
                       /\ new = [offset |-> a, size |-> RoundUp(size), free |-> FALSE]
  OBVIOUS
<1>2. LiveBlocks(g) = LiveBlocks(h) \cup {new}
  BY <1>1, AllocAddsOne
<1>3. \A o : o \in LiveOffsets(g) <=> \E b \in LiveBlocks(g) : b.offset = o
  BY TrackedIsLive
<1>4. \A o : o \in LiveOffsets(h) <=> \E b \in LiveBlocks(h) : b.offset = o
  BY TrackedIsLive
<1>5. new.offset = a
  BY <1>1
<1>6. LiveOffsets(g) = LiveOffsets(h) \cup {a}
  BY <1>2, <1>3, <1>4, <1>5
<1> QED BY <1>1, <1>6

-----------------------------------------------------------------------------
(* freeAllocas as a fold: it gives back the i-th alloca after those that   *)
(* follow it.                                                              *)
IsFreeing(s, base, a, it) ==
  it = [t \in SUBSET (a .. Len(s)) |->
         IF t = {} THEN base ELSE FreeOne(s[Min(t)], it[t \ {Min(t)}])]

LEMMA MinOfSet ==
  ASSUME NEW a \in Nat, NEW n \in Nat, NEW t \in SUBSET (a .. n), t # {}
  PROVE  Min(t) \in t /\ t \ {Min(t)} \in SUBSET (a + 1 .. n)
<1>1. PICK m \in t : \A x \in t : m <= x
  <2>1. t \in SUBSET Nat
    OBVIOUS
  <2> QED BY <2>1, LeastElement
<1>2. Min(t) \in t /\ \A x \in t : Min(t) <= x
  BY <1>1 DEF Min
<1> DEFINE low == Min(t)
<1>3. low \in t /\ \A x \in t : low <= x
  BY <1>2
<1> HIDE DEF low
<1>4. t \ {low} \in SUBSET (a + 1 .. n)
  BY <1>3
<1> QED BY <1>3, <1>4 DEF low

LEMMA MinOfInterval ==
  ASSUME NEW a \in Nat, NEW n \in Nat, a <= n
  PROVE  Min(a .. n) = a /\ a .. n # {} /\ (a .. n) \ {a} = a + 1 .. n
<1>1. a \in a .. n /\ \A x \in a .. n : a <= x
  OBVIOUS
<1>2. Min(a .. n) \in a .. n /\ Min(a .. n) <= a
  BY <1>1 DEF Min
<1> QED BY <1>1, <1>2

(* The recursion of the fold has a solution.                               *)
LEMMA FreeingExists ==
  ASSUME NEW s, Len(s) \in Nat, NEW base
  PROVE  \E it : IsFreeing(s, base, 1, it)
<1> DEFINE n == Len(s)
           Has == {k \in Nat : k <= n => \E it : IsFreeing(s, base, n + 1 - k, it)}
<1>0. n \in Nat
  OBVIOUS
<1>1. 0 \in Has
  <2> DEFINE none == [t \in SUBSET (n + 1 .. n) |-> base]
  <2>1. \A t \in SUBSET (n + 1 .. n) : t = {}
    OBVIOUS
  <2>2. none = [t \in SUBSET (n + 1 .. n) |->
                 IF t = {} THEN base ELSE FreeOne(s[Min(t)], none[t \ {Min(t)}])]
    BY <2>1
  <2>3. IsFreeing(s, base, n + 1, none)
    BY <2>2 DEF IsFreeing
  <2> QED BY <2>3
<1>2. ASSUME NEW k \in Nat, k \in Has PROVE k + 1 \in Has
  <2> SUFFICES ASSUME k + 1 <= n
               PROVE  \E it : IsFreeing(s, base, n + 1 - (k + 1), it)
    OBVIOUS
  <2>1. PICK a \in Nat : a = n + 1 - (k + 1) /\ n + 1 - k = a + 1
    OBVIOUS
  <2>2. PICK it : IsFreeing(s, base, a + 1, it)
    BY <1>2, <2>1
  <2>a. \A t \in SUBSET (a + 1 .. n) :
          it[t] = IF t = {} THEN base ELSE FreeOne(s[Min(t)], it[t \ {Min(t)}])
    BY <2>2 DEF IsFreeing
  <2> DEFINE more == [t \in SUBSET (a .. n) |->
                       IF t = {} THEN base ELSE FreeOne(s[Min(t)], it[t \ {Min(t)}])]
  <2>3. ASSUME NEW t \in SUBSET (a + 1 .. n) PROVE more[t] = it[t]
    <3>1. t \in SUBSET (a .. n)
      BY <1>0
    <3>2. it[t] = IF t = {} THEN base ELSE FreeOne(s[Min(t)], it[t \ {Min(t)}])
      BY <2>a
    <3> QED BY <3>1, <3>2
  <2>4. ASSUME NEW t \in SUBSET (a .. n), t # {}
        PROVE  more[t] = FreeOne(s[Min(t)], more[t \ {Min(t)}])
    <3>1. t \ {Min(t)} \in SUBSET (a + 1 .. n)
      BY <1>0, <2>4, MinOfSet
    <3>2. more[t \ {Min(t)}] = it[t \ {Min(t)}]
      BY <2>3, <3>1
    <3> QED BY <2>4, <3>2
  <2>5. \A t \in SUBSET (a .. n) :
          more[t] = IF t = {} THEN base ELSE FreeOne(s[Min(t)], more[t \ {Min(t)}])
    BY <2>4
  <2>6. IsFreeing(s, base, a, more)
    BY <2>5 DEF IsFreeing
  <2> QED BY <2>1, <2>6
<1> HIDE DEF Has
<1>3. n \in Has
  BY <1>0, <1>1, <1>2, SetInduction
<1> QED BY <1>0, <1>3 DEF Has

LEMMA FoldIsFreeing ==
  ASSUME NEW s \in Seq(Nat), NEW base
  PROVE  \E it : IsFreeing(s, base, 1, it) /\ FoldRight(FreeOne, s, base) = it[1 .. Len(s)]
<1> DEFINE it == CHOOSE f : IsFreeing(s, base, 1, f)
<1>1. DOMAIN s = 1 .. Len(s) /\ Len(s) \in Nat
  OBVIOUS
<1>2. FoldRight(FreeOne, s, base)
        = (CHOOSE f : f = [t \in SUBSET DOMAIN s |->
             IF t = {} THEN base ELSE FreeOne(s[Min(t)], f[t \ {Min(t)}])])[DOMAIN s]
  BY DEF FoldRight, MapThenFoldSet
<1>3. FoldRight(FreeOne, s, base) = it[1 .. Len(s)]
  BY <1>1, <1>2 DEF IsFreeing
<1>4. IsFreeing(s, base, 1, it)
  BY <1>1, FreeingExists
<1> QED BY <1>3, <1>4

(* A frame whose allocas are all live and all different gives every one of *)
(* them back, and nothing else.                                            *)
LEMMA FreeingFrees ==
  ASSUME NEW h, TableInv(h), NEW s \in Seq(Nat),
         \A i \in DOMAIN s : s[i] \in LiveOffsets(h),
         \A i, j \in DOMAIN s : s[i] = s[j] => i = j
  PROVE  LET freed == FoldRight(FreeOne, s, [heap |-> h, ok |-> TRUE]) IN
         /\ freed.ok = TRUE /\ TableInv(freed.heap)
         /\ LiveOffsets(freed.heap) = LiveOffsets(h) \ ToSet(s)
<1>0. PICK n, base : n = Len(s) /\ base = [heap |-> h, ok |-> TRUE]
  OBVIOUS
<1>a. n \in Nat /\ DOMAIN s = 1 .. n
  BY <1>0
<1> DEFINE Left(a) == LiveOffsets(h) \ {s[j] : j \in a .. n}
<1>1. PICK it : IsFreeing(s, base, 1, it) /\ FoldRight(FreeOne, s, base) = it[1 .. n]
  BY <1>0, FoldIsFreeing
<1>b. \A t \in SUBSET (1 .. n) :
        it[t] = IF t = {} THEN base ELSE FreeOne(s[Min(t)], it[t \ {Min(t)}])
  BY <1>0, <1>1 DEF IsFreeing
<1> DEFINE Fine(a) == LET freed == it[a .. n] IN
             freed.ok = TRUE /\ TableInv(freed.heap) /\ LiveOffsets(freed.heap) = Left(a)
           Good == {k \in Nat : k <= n => Fine(n + 1 - k)}
<1>2. 0 \in Good
  <2>1. n + 1 - 0 .. n = {} /\ {} \in SUBSET (1 .. n)
    BY <1>a
  <2>2. it[{}] = base
    BY <1>b, <2>1
  <2>3. Left(n + 1 - 0) = LiveOffsets(h)
    BY <2>1
  <2> QED BY <1>0, <2>1, <2>2, <2>3
<1>3. ASSUME NEW k \in Nat, k \in Good PROVE k + 1 \in Good
  <2>0. CASE ~ (k + 1 <= n)
    BY <2>0
  <2>1. ASSUME k + 1 <= n PROVE Fine(n + 1 - (k + 1))
    <3>1. PICK a \in 1 .. n : a = n + 1 - (k + 1) /\ n + 1 - k = a + 1
      BY <1>a, <2>1
    <3>2. PICK r : r = it[a + 1 .. n]
      OBVIOUS
    <3>3. Fine(a + 1)
      <4>1. k <= n
        BY <1>a, <2>1
      <4> HIDE DEF Fine
      <4> QED BY <1>3, <3>1, <4>1
    <3>4. r.ok = TRUE /\ TableInv(r.heap) /\ LiveOffsets(r.heap) = Left(a + 1)
      BY <3>2, <3>3
    <3>5. it[a .. n] = FreeOne(s[a], r)
      <4>1. Min(a .. n) = a /\ a .. n # {} /\ (a .. n) \ {a} = a + 1 .. n
        <5>1. a \in Nat /\ n \in Nat /\ a <= n
          BY <1>a
        <5> QED BY <5>1, MinOfInterval
      <4>2. a .. n \in SUBSET (1 .. n)
        BY <1>a
      <4>3. PICK t : t = a .. n
        OBVIOUS
      <4>4. it[t] = IF t = {} THEN base ELSE FreeOne(s[Min(t)], it[t \ {Min(t)}])
        BY <1>b, <4>2, <4>3
      <4> QED BY <3>2, <4>1, <4>3, <4>4
    <3>6. s[a] \in Left(a + 1)
      BY <1>a
    <3>7. Tracked(r.heap, s[a])
      BY <3>4, <3>6, TrackedIsLive
    <3>8. it[a .. n] = [heap |-> HeapFree(r.heap, s[a]), ok |-> TRUE]
      BY <3>4, <3>5, <3>7 DEF FreeOne
    <3>9. /\ TableInv(HeapFree(r.heap, s[a]))
          /\ LiveOffsets(HeapFree(r.heap, s[a])) = LiveOffsets(r.heap) \ {s[a]}
      BY <3>4, <3>7, FreeKeepsTable, FreeOffsets
    <3>10. Left(a + 1) \ {s[a]} = Left(a)
      <4>1. \A j : j \in a .. n <=> j \in a + 1 .. n \/ j = a
        BY <1>a
      <4> QED BY <4>1
    <3>11. Fine(a)
      <4>1. PICK freed : freed = it[a .. n]
        OBVIOUS
      <4>2. freed.heap = HeapFree(r.heap, s[a]) /\ freed.ok = TRUE
        BY <3>8, <4>1
      <4>3. LiveOffsets(freed.heap) = Left(a)
        BY <3>4, <3>9, <3>10, <4>2
      <4> HIDE DEF Left
      <4>4. TableInv(freed.heap)
        BY <3>9, <4>2
      <4> QED BY <4>1, <4>2, <4>3, <4>4
    <3> HIDE DEF Fine
    <3> QED BY <3>1, <3>11
  <2> HIDE DEF Fine
  <2> QED BY <2>0, <2>1
<1>4. n \in Good
  <2> HIDE DEF Good
  <2> QED BY <1>a, <1>2, <1>3, SetInduction
<1>5. Fine(1)
  <2>1. n + 1 - n = 1 /\ n <= n
    BY <1>a
  <2> HIDE DEF Fine
  <2> QED BY <1>4, <2>1
<1>6. Left(1) = LiveOffsets(h) \ ToSet(s)
  BY <1>a DEF ToSet
<1> QED BY <1>0, <1>1, <1>5, <1>6

-----------------------------------------------------------------------------
(* The stack of frames.                                                    *)

LEMMA WithoutLast ==
  ASSUME NEW S, NEW fs \in Seq(S), fs # <<>>
  PROVE  /\ Front(fs) \in Seq(S) /\ Len(fs) \in Nat \ {0} /\ Len(Front(fs)) = Len(fs) - 1
         /\ \A d \in 1 .. Len(fs) - 1 : Front(fs)[d] = fs[d]
         /\ Last(fs) = fs[Len(fs)] /\ Last(fs) \in S
<1>1. Len(fs) \in Nat \ {0} /\ fs[Len(fs)] \in S
  OBVIOUS
<1>2. PICK n \in Nat : n = Len(fs) - 1
  BY <1>1
<1>3. \A d \in 1 .. n : fs[d] \in S
  BY <1>1, <1>2
<1>4. /\ SubSeq(fs, 1, n) \in Seq(S)
      /\ Len(SubSeq(fs, 1, n)) = n
      /\ \A d \in 1 .. n : SubSeq(fs, 1, n)[d] = fs[d]
  BY <1>2, <1>3, SubSeqProperties
<1> QED BY <1>1, <1>2, <1>4 DEF Front, Last

LEMMA WithLast ==
  ASSUME NEW S, NEW fs \in Seq(S), fs # <<>>, NEW s \in S
  PROVE  LET gs == Append(Front(fs), s) IN
         /\ gs \in Seq(S) /\ Len(gs) = Len(fs) /\ gs # <<>>
         /\ \A d \in 1 .. Len(fs) - 1 : gs[d] = fs[d]
         /\ gs[Len(fs)] = s
<1>1. PICK f : f = Front(fs)
  OBVIOUS
<1>2. /\ f \in Seq(S) /\ Len(fs) \in Nat \ {0} /\ Len(f) = Len(fs) - 1
      /\ \A d \in 1 .. Len(fs) - 1 : f[d] = fs[d]
  BY <1>1, WithoutLast
<1>3. /\ Append(f, s) \in Seq(S) /\ Append(f, s) # <<>> /\ Len(Append(f, s)) = Len(f) + 1
      /\ \A d \in 1 .. Len(f) : Append(f, s)[d] = f[d]
      /\ Append(f, s)[Len(f) + 1] = s
  BY <1>2, AppendProperties
<1> QED BY <1>1, <1>2, <1>3

-----------------------------------------------------------------------------
(* The allocas of a frame. *)
Allocas == Seq(Nat)

(* BlocksHaveOneOwner of frames fs, allocations own and live offsets L.    *)
OneOwner(fs, own, L) ==
  /\ \A d, e \in DOMAIN fs : \A i \in DOMAIN fs[d], j \in DOMAIN fs[e] :
       fs[d][i] = fs[e][j] => d = e /\ i = j
  /\ \A d \in DOMAIN fs : \A i \in DOMAIN fs[d] : fs[d][i] \in L /\ fs[d][i] \notin own
  /\ own \subseteq L
  /\ \A x \in L : x \in own \/ \E d \in DOMAIN fs : \E i \in DOMAIN fs[d] : fs[d][i] = x

LEMMA OwnersAgree == BlocksHaveOneOwner <=> OneOwner(frames, owned, LiveOffsets(heap))
BY DEF BlocksHaveOneOwner, Held, ToSet, OneOwner

(* A new block goes to the program,                                        *)
LEMMA OwnMore ==
  ASSUME NEW fs, NEW own, NEW L, OneOwner(fs, own, L), NEW a, a \notin L
  PROVE  OneOwner(fs, own \cup {a}, L \cup {a})
BY DEF OneOwner

(* and an old one back to the allocator,                                   *)
LEMMA OwnLess ==
  ASSUME NEW fs, NEW own, NEW L, OneOwner(fs, own, L), NEW a \in own
  PROVE  OneOwner(fs, own \ {a}, L \ {a})
BY DEF OneOwner

(* or it goes to the running frame.                                        *)
LEMMA FrameMore ==
  ASSUME NEW fs \in Seq(Allocas), fs # <<>>, NEW own, NEW L, OneOwner(fs, own, L),
         NEW a \in Nat, a \notin L
  PROVE  OneOwner(Append(Front(fs), Append(Last(fs), a)), own, L \cup {a})
<1>1. PICK s, t, gs, n : /\ s = Last(fs) /\ t = Append(s, a) /\ n = Len(fs)
                         /\ gs = Append(Front(fs), t)
  OBVIOUS
<1>2. n \in Nat \ {0} /\ DOMAIN fs = 1 .. n /\ s = fs[n] /\ s \in Allocas
  BY <1>1, WithoutLast
<1>3. /\ t \in Allocas /\ Len(s) \in Nat /\ DOMAIN s = 1 .. Len(s) /\ DOMAIN t = 1 .. Len(s) + 1
      /\ \A i \in 1 .. Len(s) : t[i] = s[i]
      /\ t[Len(s) + 1] = a
  BY <1>1, <1>2, AppendProperties DEF Allocas
<1>4. DOMAIN gs = 1 .. n /\ gs[n] = t /\ \A d \in 1 .. n - 1 : gs[d] = fs[d]
  BY <1>1, <1>2, <1>3, WithLast
<1>5. \A d \in 1 .. n : d = n \/ d \in 1 .. n - 1
  BY <1>2
<1>a. \A i : i \in DOMAIN t <=> i \in DOMAIN s \/ i = Len(s) + 1
  BY <1>3
<1>b. \A d : d \in DOMAIN gs <=> d \in 1 .. n - 1 \/ d = n
  BY <1>2, <1>4
<1>6. ASSUME NEW d \in DOMAIN gs, NEW i \in DOMAIN gs[d]
      PROVE  \/ d = n /\ i = Len(s) + 1 /\ gs[d][i] = a
             \/ d \in DOMAIN fs /\ i \in DOMAIN fs[d] /\ gs[d][i] = fs[d][i]
  <2>1. CASE d = n
    <3>1. gs[d] = t /\ d \in DOMAIN fs /\ fs[d] = s
      BY <1>2, <1>4, <2>1
    <3> QED BY <1>3, <1>a, <2>1, <3>1
  <2>2. CASE d \in 1 .. n - 1
    BY <1>2, <1>4, <2>2
  <2> QED BY <1>b, <2>1, <2>2
<1>7. ASSUME NEW d \in DOMAIN fs, NEW i \in DOMAIN fs[d]
      PROVE  d \in DOMAIN gs /\ i \in DOMAIN gs[d] /\ gs[d][i] = fs[d][i]
  <2>1. CASE d = n
    <3>1. gs[d] = t /\ d \in DOMAIN gs /\ fs[d] = s
      BY <1>2, <1>4, <2>1
    <3> QED BY <1>3, <1>a, <3>1
  <2>2. CASE d \in 1 .. n - 1
    BY <1>2, <1>4, <2>2
  <2> QED BY <1>2, <1>5, <2>1, <2>2
<1>8. n \in DOMAIN gs /\ Len(s) + 1 \in DOMAIN gs[n] /\ gs[n][Len(s) + 1] = a
  BY <1>2, <1>3, <1>4
<1>9. /\ \A d, e \in DOMAIN fs : \A i \in DOMAIN fs[d], j \in DOMAIN fs[e] :
           fs[d][i] = fs[e][j] => d = e /\ i = j
      /\ \A d \in DOMAIN fs : \A i \in DOMAIN fs[d] : fs[d][i] \in L /\ fs[d][i] \notin own
      /\ own \subseteq L
      /\ \A x \in L : x \in own \/ \E d \in DOMAIN fs : \E i \in DOMAIN fs[d] : fs[d][i] = x
  BY DEF OneOwner
<1>10. ASSUME NEW d \in DOMAIN gs, NEW e \in DOMAIN gs,
              NEW i \in DOMAIN gs[d], NEW j \in DOMAIN gs[e], gs[d][i] = gs[e][j]
       PROVE  d = e /\ i = j
  <2>1. \/ d = n /\ i = Len(s) + 1 /\ gs[d][i] = a
        \/ d \in DOMAIN fs /\ i \in DOMAIN fs[d] /\ gs[d][i] = fs[d][i]
    BY <1>6
  <2>2. \/ e = n /\ j = Len(s) + 1 /\ gs[e][j] = a
        \/ e \in DOMAIN fs /\ j \in DOMAIN fs[e] /\ gs[e][j] = fs[e][j]
    BY <1>6
  <2> QED BY <1>9, <1>10, <2>1, <2>2
<1>11. ASSUME NEW d \in DOMAIN gs, NEW i \in DOMAIN gs[d]
       PROVE  gs[d][i] \in L \cup {a} /\ gs[d][i] \notin own
  BY <1>6, <1>9
<1>12. ASSUME NEW x \in L \cup {a}
       PROVE  x \in own \/ \E d \in DOMAIN gs : \E i \in DOMAIN gs[d] : gs[d][i] = x
  BY <1>7, <1>8, <1>9
<1>13. OneOwner(gs, own, L \cup {a})
  BY <1>9, <1>10, <1>11, <1>12 DEF OneOwner
<1> QED BY <1>1, <1>13

(* A frame without allocas owns nothing.                                   *)
LEMMA FrameNone ==
  ASSUME NEW fs \in Seq(Allocas), NEW own, NEW L, OneOwner(fs, own, L)
  PROVE  OneOwner(Append(fs, <<>>), own, L)
<1>1. PICK gs, n : gs = Append(fs, <<>>) /\ n = Len(fs)
  OBVIOUS
<1>2. <<>> \in Allocas /\ DOMAIN <<>> = {}
  BY DEF Allocas
<1>3. /\ n \in Nat /\ DOMAIN fs = 1 .. n /\ DOMAIN gs = 1 .. n + 1
      /\ gs[n + 1] = <<>> /\ \A d \in 1 .. n : gs[d] = fs[d]
  BY <1>1, <1>2, AppendProperties
<1>4. \A d \in 1 .. n + 1 : d = n + 1 \/ d \in 1 .. n
  BY <1>3
<1>5. \A d \in DOMAIN gs : \A i \in DOMAIN gs[d] : d \in DOMAIN fs /\ gs[d] = fs[d]
  BY <1>2, <1>3, <1>4
<1>6. \A d \in DOMAIN fs : d \in DOMAIN gs /\ gs[d] = fs[d]
  BY <1>3
<1>7. OneOwner(gs, own, L)
  BY <1>5, <1>6 DEF OneOwner
<1> QED BY <1>1, <1>7

(* The running frame goes, and its blocks with it.                         *)
LEMMA FrameLess ==
  ASSUME NEW fs \in Seq(Allocas), fs # <<>>, NEW own, NEW L, OneOwner(fs, own, L)
  PROVE  OneOwner(Front(fs), own, L \ ToSet(Last(fs)))
<1>1. PICK s, gs, n : s = Last(fs) /\ gs = Front(fs) /\ n = Len(fs)
  OBVIOUS
<1>a. gs \in Seq(Allocas) /\ Len(gs) = n - 1 /\ n \in Nat \ {0} /\ s = fs[n] /\ \A d \in 1 .. n - 1 : gs[d] = fs[d]
  BY <1>1, WithoutLast
<1>2. /\ n \in Nat \ {0} /\ DOMAIN fs = 1 .. n /\ s = fs[n]
      /\ DOMAIN gs = 1 .. n - 1 /\ \A d \in 1 .. n - 1 : gs[d] = fs[d]
  BY <1>a, <1>1
<1>3. \A d \in DOMAIN gs : d \in DOMAIN fs /\ gs[d] = fs[d] /\ d # n
  BY <1>2
<1>4. \A d \in DOMAIN fs : d = n \/ d \in DOMAIN gs
  BY <1>2
<1>5. n \in DOMAIN fs
  BY <1>2
<1>6. \A x : x \in ToSet(s) <=> \E i \in DOMAIN fs[n] : fs[n][i] = x
  BY <1>2 DEF ToSet
<1>7. /\ \A d, e \in DOMAIN fs : \A i \in DOMAIN fs[d], j \in DOMAIN fs[e] :
           fs[d][i] = fs[e][j] => d = e /\ i = j
      /\ \A d \in DOMAIN fs : \A i \in DOMAIN fs[d] : fs[d][i] \in L /\ fs[d][i] \notin own
      /\ own \subseteq L
      /\ \A x \in L : x \in own \/ \E d \in DOMAIN fs : \E i \in DOMAIN fs[d] : fs[d][i] = x
  BY DEF OneOwner
<1>8. ASSUME NEW d \in DOMAIN gs, NEW i \in DOMAIN gs[d]
      PROVE  gs[d][i] \in L \ ToSet(s) /\ gs[d][i] \notin own
  BY <1>3, <1>5, <1>6, <1>7
<1>9. own \subseteq L \ ToSet(s)
  BY <1>5, <1>6, <1>7
<1>10. ASSUME NEW x \in L \ ToSet(s)
       PROVE  x \in own \/ \E d \in DOMAIN gs : \E i \in DOMAIN gs[d] : gs[d][i] = x
  <2>1. CASE x \notin own
    <3>1. PICK d \in DOMAIN fs : \E i \in DOMAIN fs[d] : fs[d][i] = x
      BY <1>7, <2>1
    <3>2. d # n
      BY <1>6, <3>1
    <3> QED BY <1>3, <1>4, <3>1, <3>2
  <2> QED BY <2>1
<1>11. \A d, e \in DOMAIN gs : \A i \in DOMAIN gs[d], j \in DOMAIN gs[e] :
         gs[d][i] = gs[e][j] => d = e /\ i = j
  BY <1>3, <1>7
<1>12. OneOwner(gs, own, L \ ToSet(s))
  BY <1>8, <1>9, <1>10, <1>11 DEF OneOwner
<1> QED BY <1>1, <1>12

-----------------------------------------------------------------------------
(* The inductive invariant: the block table is tiled, which is what makes  *)
(* an offset name one block, a running program has a frame, and the blocks *)
(* have one owner, which is what makes freeAllocas find them.              *)
FramesInv ==
  /\ TableInv(heap)
  /\ frames \in Seq(Allocas)
  /\ status = "running" => frames # <<>>
  /\ OneOwner(frames, owned, LiveOffsets(heap))
  /\ FreeingNeverTraps

LEMMA FramesInitInv == FramesInit => FramesInv
<1> SUFFICES ASSUME FramesInit PROVE FramesInv
  OBVIOUS
<1>1. TableInv(heap)
  BY MemAssumption DEF FramesInit, NoHeap, TableInv, HeapType, Tiled, U64
<1>2. frames = <<<<>>>> /\ owned = {} /\ status = "running" /\ LiveOffsets(heap) = {}
  BY DEF FramesInit, NoHeap, LiveOffsets, Live
<1>3. <<>> \in Allocas /\ DOMAIN <<>> = {}
  BY DEF Allocas
<1>4. PICK e : e = <<>>
  OBVIOUS
<1>5. <<e>> \in Seq(Allocas) /\ <<e>> # <<>> /\ DOMAIN <<e>> = {1} /\ <<e>>[1] = e
  BY <1>3, <1>4
<1>6. OneOwner(<<e>>, {}, {})
  BY <1>3, <1>4, <1>5 DEF OneOwner
<1> QED BY <1>1, <1>2, <1>4, <1>5, <1>6 DEF FramesInv, FreeingNeverTraps

(* Leaving a frame, whatever is left of it: all its blocks are given back. *)
LEMMA FreeAllocasFrees ==
  ASSUME FramesInv, status = "running", NEW left, NEW outcome, FreeAllocas(left, outcome)
  PROVE  /\ TableInv(heap') /\ LiveOffsets(heap') = LiveOffsets(heap) \ ToSet(Last(frames))
         /\ frames' = left /\ status' = outcome /\ owned' = owned
<1>1. PICK h, s, n, fs : h = heap /\ fs = frames /\ s = Last(fs) /\ n = Len(fs)
  OBVIOUS
<1>2. TableInv(h) /\ fs # <<>> /\ fs \in Seq(Allocas) /\ OneOwner(fs, owned, LiveOffsets(h))
  BY <1>1 DEF FramesInv
<1>3. n \in DOMAIN fs /\ s = fs[n] /\ s \in Seq(Nat)
  <2>1. n \in Nat \ {0} /\ s = fs[n] /\ s \in Allocas
    BY <1>1, <1>2, WithoutLast
  <2> QED BY <1>1, <1>2, <2>1 DEF Allocas
<1>4. \A i \in DOMAIN s : s[i] \in LiveOffsets(h)
  BY <1>2, <1>3 DEF OneOwner
<1>5. \A i, j \in DOMAIN s : s[i] = s[j] => i = j
  BY <1>2, <1>3 DEF OneOwner
<1>6. PICK freed : freed = FoldRight(FreeOne, s, [heap |-> h, ok |-> TRUE])
  OBVIOUS
<1>7. freed.ok = TRUE /\ TableInv(freed.heap) /\ LiveOffsets(freed.heap) = LiveOffsets(h) \ ToSet(s)
  BY <1>2, <1>3, <1>4, <1>5, <1>6, FreeingFrees
<1>8. freed = Freed
  BY <1>1, <1>6 DEF Freed, allocas
<1> QED BY <1>1, <1>7, <1>8 DEF FreeAllocas

LEMMA FramesNextInv ==
  ASSUME SizesFit, FramesInv, [FramesNext]_framesVars
  PROVE  FramesInv'
<1>1. /\ TableInv(heap) /\ frames \in Seq(Allocas) /\ (status = "running" => frames # <<>>)
      /\ OneOwner(frames, owned, LiveOffsets(heap)) /\ FreeingNeverTraps
  BY DEF FramesInv
<1>2. PICK fs, own, live : /\ fs = frames /\ own = owned /\ live = LiveOffsets(heap)
  OBVIOUS
<1>3. fs \in Seq(Allocas) /\ OneOwner(fs, own, live) /\ (status = "running" => fs # <<>>)
  BY <1>1, <1>2
<1>4. ASSUME TableInv(heap'), frames' \in Seq(Allocas), status' = "running" => frames' # <<>>,
             OneOwner(frames', owned', LiveOffsets(heap')), status' # "free of untracked pointer"
      PROVE  FramesInv'
  <2>1. LiveOffsets(heap)' = LiveOffsets(heap')
    BY DEF LiveOffsets, Live
  <2>2. TableInv(heap)' = TableInv(heap')
    BY DEF TableInv, HeapType, Tiled, BlockEnd, Block, U64
  <2>3. OneOwner(frames, owned, LiveOffsets(heap))' = OneOwner(frames', owned', LiveOffsets(heap)')
    BY DEF OneOwner
  <2> QED BY <1>2, <1>4, <2>1, <2>2, <2>3 DEF FramesInv, FreeingNeverTraps
<1>5. ASSUME UNCHANGED <<heap, frames, owned>>, status' \notin {"running", "free of untracked pointer"}
      PROVE  FramesInv'
  <2>1. /\ TableInv(heap') /\ frames' = fs /\ owned' = own /\ LiveOffsets(heap') = live
        /\ status' # "running" /\ status' # "free of untracked pointer"
    BY <1>1, <1>2, <1>5
  <2> QED BY <1>3, <1>4, <2>1
<1>6. ASSUME NEW size \in Sizes, CanAlloc(heap, size)
      PROVE  LET a == AllocOffset(heap, size) IN
             /\ TableInv(HeapAlloc(heap, size)) /\ a \in Nat /\ a \notin live
             /\ LiveOffsets(HeapAlloc(heap, size)) = live \cup {a}
  <2>1. Unwrapped(size)
    BY DEF SizesFit
  <2>2. PICK h : h = heap
    OBVIOUS
  <2>3. TableInv(h) /\ CanAlloc(h, size) /\ live = LiveOffsets(h)
    BY <1>1, <1>2, <1>6, <2>2
  <2>4. TableInv(HeapAlloc(h, size)) /\ AllocOffset(h, size) \in Nat
    BY <2>1, <2>3, AllocKeepsTable, AllocOffsetIsAddress
  <2>5. /\ AllocOffset(h, size) \notin LiveOffsets(h)
        /\ LiveOffsets(HeapAlloc(h, size)) = LiveOffsets(h) \cup {AllocOffset(h, size)}
    BY <2>1, <2>3, AllocOffsets, AllocIsFresh
  <2> QED BY <2>2, <2>3, <2>4, <2>5
<1>7. ASSUME status = "running", NEW size \in Sizes, OwnedAlloc(size) PROVE FramesInv'
  <2>1. CASE CanAlloc(heap, size)
    <3>1. PICK a : a = AllocOffset(heap, size)
      OBVIOUS
    <3>2. heap' = HeapAlloc(heap, size) /\ owned' = own \cup {a} /\ frames' = fs /\ status' = status
      BY <1>2, <1>7, <2>1, <3>1 DEF OwnedAlloc, OutOfMemory
    <3>3. TableInv(heap') /\ a \notin live /\ LiveOffsets(heap') = live \cup {a}
      BY <1>6, <2>1, <3>1, <3>2
    <3>4. OneOwner(fs, own \cup {a}, live \cup {a})
      BY <1>3, <3>3, OwnMore
    <3> QED BY <1>3, <1>4, <1>7, <3>2, <3>3, <3>4
  <2>2. CASE ~ CanAlloc(heap, size)
    BY <1>5, <1>7, <2>2 DEF OwnedAlloc, OutOfMemory, FramesThrow
  <2> QED BY <2>1, <2>2
<1>8. ASSUME status = "running", NEW size \in Sizes, Alloca(size) PROVE FramesInv'
  <2>1. CASE CanAlloc(heap, size)
    <3>1. PICK a, s, gs : /\ a = AllocOffset(heap, size) /\ s = Append(Last(fs), a)
                          /\ gs = Append(Front(fs), s)
      OBVIOUS
    <3>2. heap' = HeapAlloc(heap, size) /\ owned' = own /\ frames' = gs /\ status' = status
      BY <1>2, <1>8, <2>1, <3>1 DEF Alloca, OutOfMemory, allocas
    <3>3. TableInv(heap') /\ a \in Nat /\ a \notin live /\ LiveOffsets(heap') = live \cup {a}
      BY <1>6, <2>1, <3>1, <3>2
    <3>4. OneOwner(gs, own, live \cup {a})
      BY <1>2, <1>3, <1>8, <3>1, <3>3, FrameMore
    <3>5. gs \in Seq(Allocas) /\ gs # <<>>
      <4>1. Last(fs) \in Allocas
        BY <1>3, <1>8, WithoutLast
      <4>2. s \in Allocas
        BY <1>2, <3>1, <3>3, <4>1, AppendProperties DEF Allocas
      <4> QED BY <1>3, <1>8, <3>1, <4>2, WithLast
    <3> QED BY <1>4, <1>8, <3>2, <3>3, <3>4, <3>5
  <2>2. CASE ~ CanAlloc(heap, size)
    BY <1>5, <1>8, <2>2 DEF Alloca, OutOfMemory, FramesThrow
  <2> QED BY <2>1, <2>2
<1>9. ASSUME NEW ptr \in owned PROVE Tracked(heap, ptr)
  <2>1. ptr \in LiveOffsets(heap)
    BY <1>1 DEF OneOwner
  <2> QED BY <2>1, TrackedIsLive
<1>10. ASSUME status = "running", NEW ptr \in owned, OwnedFree(ptr) PROVE FramesInv'
  <2>1. heap' = HeapFree(heap, ptr) /\ owned' = own \ {ptr} /\ frames' = fs /\ status' = status
    BY <1>2, <1>9, <1>10 DEF OwnedFree
  <2>2. TableInv(heap') /\ LiveOffsets(heap') = live \ {ptr}
    <3>1. PICK h : h = heap
      OBVIOUS
    <3>2. TableInv(h) /\ Tracked(h, ptr) /\ live = LiveOffsets(h)
      BY <1>1, <1>2, <1>9, <3>1
    <3>3. TableInv(HeapFree(h, ptr)) /\ LiveOffsets(HeapFree(h, ptr)) = LiveOffsets(h) \ {ptr}
      BY <3>2, FreeKeepsTable, FreeOffsets
    <3> QED BY <2>1, <3>1, <3>2, <3>3
  <2>3. OneOwner(fs, own \ {ptr}, live \ {ptr})
    BY <1>2, <1>3, OwnLess
  <2> QED BY <1>3, <1>4, <1>10, <2>1, <2>2, <2>3
<1>11. ASSUME status = "running", NEW ptr \in owned, NEW size \in Sizes, OwnedRealloc(ptr, size)
       PROVE  FramesInv'
  <2>1. CASE CanAlloc(heap, size)
    <3>1. PICK a, g : a = AllocOffset(heap, size) /\ g = HeapAlloc(heap, size)
      OBVIOUS
    <3>2. /\ heap' = HeapFree(g, ptr) /\ owned' = (own \ {ptr}) \cup {a}
          /\ frames' = fs /\ status' = status
      BY <1>2, <1>9, <1>11, <2>1, <3>1 DEF OwnedRealloc, OutOfMemory
    <3>3. TableInv(g) /\ a \notin live /\ LiveOffsets(g) = live \cup {a}
      BY <1>6, <2>1, <3>1
    <3>4. ptr \in live /\ ptr \in own
      BY <1>2, <1>9, TrackedIsLive
    <3>5. Tracked(g, ptr)
      BY <3>3, <3>4, TrackedIsLive
    <3>6. TableInv(heap') /\ LiveOffsets(heap') = (live \cup {a}) \ {ptr}
      BY <3>2, <3>3, <3>5, FreeKeepsTable, FreeOffsets
    <3>7. OneOwner(fs, own \cup {a}, live \cup {a})
      BY <1>3, <3>3, OwnMore
    <3>8. OneOwner(fs, (own \cup {a}) \ {ptr}, (live \cup {a}) \ {ptr})
      BY <3>4, <3>7, OwnLess
    <3>9. (own \cup {a}) \ {ptr} = (own \ {ptr}) \cup {a}
      BY <3>3, <3>4
    <3> QED BY <1>3, <1>4, <1>11, <3>2, <3>6, <3>8, <3>9
  <2>2. CASE ~ CanAlloc(heap, size)
    BY <1>5, <1>9, <1>11, <2>2 DEF OwnedRealloc, OutOfMemory, FramesThrow
  <2> QED BY <2>1, <2>2
<1>12. ASSUME status = "running"
       PROVE  /\ OneOwner(Front(fs), own, live \ ToSet(Last(fs))) /\ Front(fs) \in Seq(Allocas)
              /\ OneOwner(Append(Front(fs), <<>>), own, live \ ToSet(Last(fs)))
              /\ Append(Front(fs), <<>>) \in Seq(Allocas) /\ Append(Front(fs), <<>>) # <<>>
  <2>1. OneOwner(Front(fs), own, live \ ToSet(Last(fs))) /\ Front(fs) \in Seq(Allocas)
    BY <1>2, <1>3, <1>12, FrameLess, WithoutLast
  <2>2. <<>> \in Allocas
    BY DEF Allocas
  <2>3. Append(Front(fs), <<>>) \in Seq(Allocas) /\ Append(Front(fs), <<>>) # <<>>
    BY <1>3, <1>12, <2>2, WithLast
  <2> QED BY <1>2, <2>1, <2>3, FrameNone
<1>13. ASSUME status = "running", FreeAllocas(Append(Front(frames), <<>>), "running")
       PROVE  FramesInv'
  <2>1. /\ TableInv(heap') /\ LiveOffsets(heap') = live \ ToSet(Last(fs))
        /\ frames' = Append(Front(fs), <<>>) /\ status' = "running" /\ owned' = own
    BY <1>2, <1>13, FreeAllocasFrees
  <2> QED BY <1>4, <1>12, <1>13, <2>1
<1>14. ASSUME status = "running", Ret PROVE FramesInv'
  <2>1. PICK outcome : outcome = IF Len(frames) = 1 THEN "returned" ELSE "running"
    OBVIOUS
  <2>2. /\ TableInv(heap') /\ LiveOffsets(heap') = live \ ToSet(Last(fs))
        /\ frames' = Front(fs) /\ status' = outcome /\ owned' = own
    BY <1>2, <1>14, <2>1, FreeAllocasFrees DEF Ret
  <2>3. outcome = "running" => Front(fs) # <<>>
    <3>1. Len(fs) \in Nat \ {0} /\ Len(Front(fs)) = Len(fs) - 1
      BY <1>3, <1>14, WithoutLast
    <3>2. ASSUME Front(fs) = <<>> PROVE Len(fs) = 1
      <4>1. Len(Front(fs)) = 0
        BY <3>2
      <4> QED BY <3>1, <4>1
    <3> QED BY <1>2, <2>1, <3>2
  <2>4. outcome # "free of untracked pointer"
    BY <2>1
  <2> QED BY <1>4, <1>12, <1>14, <2>2, <2>3, <2>4
<1>15. ASSUME status = "running", Call PROVE FramesInv'
  <2>1. heap' = heap /\ owned' = own /\ status' = status /\ frames' = Append(fs, <<>>)
    BY <1>2, <1>15 DEF Call
  <2>2. OneOwner(Append(fs, <<>>), own, live)
    BY <1>2, <1>3, FrameNone
  <2>3. Append(fs, <<>>) \in Seq(Allocas) /\ Append(fs, <<>>) # <<>>
    <3>1. <<>> \in Allocas
      BY DEF Allocas
    <3> QED BY <1>3, <3>1, AppendProperties
  <2>4. TableInv(heap') /\ LiveOffsets(heap') = live
    BY <1>1, <1>2, <2>1
  <2> QED BY <1>4, <1>15, <2>1, <2>2, <2>3, <2>4
<1>16. CASE FramesNext
  <2>1. ASSUME Trap PROVE FramesInv'
    BY <1>5, <2>1 DEF Trap, FramesThrow
  <2> QED BY <1>7, <1>8, <1>10, <1>11, <1>13, <1>14, <1>15, <1>16, <2>1 DEF FramesNext, Stackfree, Tailcall
<1>17. CASE UNCHANGED framesVars
  BY <1>17 DEF framesVars, FramesInv, FreeingNeverTraps
<1> QED BY <1>16, <1>17
-----------------------------------------------------------------------------
(* No block has two owners and none is forgotten, however the calls, the   *)
(* allocas and the allocations of a program interleave.                    *)
THEOREM EachBlockHasItsOwner ==
  ASSUME SizesFit
  PROVE  FramesSpec => []BlocksHaveOneOwner
<1>1. FramesInv => BlocksHaveOneOwner
  BY OwnersAgree DEF FramesInv
<1>2. FramesInv /\ [FramesNext]_framesVars => FramesInv'
  BY FramesNextInv
<1> QED BY FramesInitInv, <1>1, <1>2, PTL DEF FramesSpec

(* freeAllocas never throws: no program makes a return trap.               *)
THEOREM ReturnsAlwaysFree ==
  ASSUME SizesFit
  PROVE  FramesSpec => []FreeingNeverTraps
<1>1. FramesInv => FreeingNeverTraps
  BY DEF FramesInv
<1>2. FramesInv /\ [FramesNext]_framesVars => FramesInv'
  BY FramesNextInv
<1> QED BY FramesInitInv, <1>1, <1>2, PTL DEF FramesSpec

(* What a callee does leaves the allocas of the frames below it alone.     *)
LEMMA BelowStays ==
  ASSUME SizesFit, FramesInv, [FramesNext]_framesVars
  PROVE  \A d \in 1 .. Len(frames) - 1 :
           d \in DOMAIN frames' /\ frames'[d] = frames[d]
<1>1. frames \in Seq(Allocas) /\ (status = "running" => frames # <<>>)
  BY DEF FramesInv
<1>2. PICK fs : fs = frames
  OBVIOUS
<1>3. fs \in Seq(Allocas) /\ (status = "running" => fs # <<>>) /\ Len(fs) \in Nat
  BY <1>1, <1>2
<1> SUFFICES ASSUME NEW d \in 1 .. Len(fs) - 1
             PROVE  d \in DOMAIN frames' /\ frames'[d] = fs[d]
  BY <1>2
<1>4. ASSUME frames' = fs PROVE d \in DOMAIN frames' /\ frames'[d] = fs[d]
  BY <1>3, <1>4
<1>5. ASSUME status = "running", NEW s \in Allocas, frames' = Append(Front(fs), s)
      PROVE  d \in DOMAIN frames' /\ frames'[d] = fs[d]
  <2>1. PICK gs : gs = Append(Front(fs), s)
    OBVIOUS
  <2>2. gs \in Seq(Allocas) /\ Len(gs) = Len(fs) /\ \A e \in 1 .. Len(fs) - 1 : gs[e] = fs[e]
    BY <1>3, <1>5, <2>1, WithLast
  <2>3. d \in DOMAIN gs
    BY <1>3, <2>2
  <2> QED BY <1>5, <2>1, <2>2, <2>3
<1>6. ASSUME status = "running", frames' = Front(fs)
      PROVE  d \in DOMAIN frames' /\ frames'[d] = fs[d]
  <2>1. PICK gs : gs = Front(fs)
    OBVIOUS
  <2>2. /\ gs \in Seq(Allocas) /\ Len(gs) = Len(fs) - 1
        /\ \A e \in 1 .. Len(fs) - 1 : gs[e] = fs[e]
    BY <1>3, <1>6, <2>1, WithoutLast
  <2>3. d \in DOMAIN gs
    BY <1>3, <2>2
  <2> QED BY <1>6, <2>1, <2>2, <2>3
<1>7. ASSUME frames' = Append(fs, <<>>) PROVE d \in DOMAIN frames' /\ frames'[d] = fs[d]
  <2>1. PICK gs : gs = Append(fs, <<>>)
    OBVIOUS
  <2>2. <<>> \in Allocas
    BY DEF Allocas
  <2>3. gs \in Seq(Allocas) /\ Len(gs) = Len(fs) + 1 /\ \A e \in 1 .. Len(fs) : gs[e] = fs[e]
    BY <1>3, <2>1, <2>2, AppendProperties
  <2>4. d \in DOMAIN gs
    BY <1>3, <2>3
  <2> QED BY <1>3, <1>7, <2>1, <2>3, <2>4
<1>8. ASSUME NEW size \in Sizes, OwnedAlloc(size) \/ Alloca(size), status = "running"
      PROVE  d \in DOMAIN frames' /\ frames'[d] = fs[d]
  <2>1. CASE frames' = frames
    BY <1>2, <1>4, <2>1
  <2>2. CASE frames' = Append(Front(frames), Append(allocas, AllocOffset(heap, size)))
    <3>1. Last(fs) \in Allocas
      BY <1>2, <1>3, <1>8, WithoutLast
    <3>2. AllocOffset(heap, size) \in Nat
      BY AllocOffsetIsAddress DEF FramesInv
    <3>3. PICK s : s = Append(Last(fs), AllocOffset(heap, size))
      OBVIOUS
    <3>4. s \in Allocas
      BY <1>2, <3>1, <3>2, <3>3, AppendProperties DEF Allocas
    <3> QED BY <1>2, <1>5, <1>8, <2>2, <3>3, <3>4 DEF allocas
  <2> QED BY <1>8, <2>1, <2>2 DEF OwnedAlloc, Alloca, OutOfMemory, FramesThrow
<1>9. ASSUME status = "running", FreeAllocas(Append(Front(frames), <<>>), "running")
      PROVE  d \in DOMAIN frames' /\ frames'[d] = fs[d]
  <2>1. frames' = Append(Front(fs), <<>>)
    BY <1>2, <1>9, FreeAllocasFrees
  <2>2. <<>> \in Allocas
    BY DEF Allocas
  <2> QED BY <1>5, <1>9, <2>1, <2>2
<1>10. ASSUME status = "running", Ret
       PROVE  d \in DOMAIN frames' /\ frames'[d] = fs[d]
  <2>1. frames' = Front(fs)
    BY <1>2, <1>10, FreeAllocasFrees DEF Ret
  <2> QED BY <1>6, <1>10, <2>1
<1>11. ASSUME NEW ptr, OwnedFree(ptr) \/ (\E size \in Sizes : OwnedRealloc(ptr, size)) \/ Trap
       PROVE  d \in DOMAIN frames' /\ frames'[d] = fs[d]
  BY <1>2, <1>4, <1>11 DEF OwnedFree, OwnedRealloc, Trap, OutOfMemory, FramesThrow
<1>12. ASSUME Call PROVE d \in DOMAIN frames' /\ frames'[d] = fs[d]
  BY <1>2, <1>7, <1>12 DEF Call
<1>13. CASE FramesNext
  BY <1>8, <1>9, <1>10, <1>11, <1>12, <1>13 DEF FramesNext, Stackfree, Tailcall
<1>14. CASE UNCHANGED framesVars
  BY <1>2, <1>4, <1>14 DEF framesVars
<1> QED BY <1>13, <1>14

(* A call gives its caller the frame and the blocks back that it left.     *)
THEOREM CallersKeepAllocas ==
  ASSUME SizesFit
  PROVE  FramesSpec => CallersKeepTheirAllocas
<1>1. ASSUME FramesInv, [FramesNext]_framesVars
      PROVE  \A d \in 1 .. Len(frames) - 1 :
               /\ Len(frames') >= d => frames'[d] = frames[d]
               /\ \A o \in ToSet(frames[d]) : Tracked(heap', o)
  <2>1. FramesInv'
    BY <1>1, FramesNextInv
  <2>2. OneOwner(frames', owned', LiveOffsets(heap'))
    BY <2>1 DEF FramesInv, OneOwner, LiveOffsets, Live
  <2>3. ASSUME NEW d \in 1 .. Len(frames) - 1, NEW o \in ToSet(frames[d])
        PROVE  Tracked(heap', o)
    <3>1. d \in DOMAIN frames' /\ frames'[d] = frames[d]
      BY <1>1, BelowStays
    <3>2. PICK i \in DOMAIN frames[d] : frames[d][i] = o
      BY DEF ToSet
    <3>3. o \in LiveOffsets(heap')
      BY <2>2, <3>1, <3>2 DEF OneOwner
    <3> QED BY <3>3, TrackedIsLive
  <2> QED BY <1>1, <2>3, BelowStays
<1>2. FramesInv /\ [FramesNext]_framesVars => FramesInv'
  BY FramesNextInv
<1> QED BY FramesInitInv, <1>1, <1>2, PTL DEF FramesSpec, CallersKeepTheirAllocas
=============================================================================
