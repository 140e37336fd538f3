----------------------------- MODULE HeapBlocks -----------------------------
(***************************************************************************)
(* The block table of the interpreter's heap allocator: heapBlocks_ and    *)
(* heapBumpPtr_ of class Interpreter, and the functions that read and      *)
(* change them.  A heap is a record [blocks, bump]; every operator is a    *)
(* function of the heap it is given, so that the modules that allocate     *)
(* (Heap, CallFrames) can use several of them in one step, as heapRealloc  *)
(* and freeAllocas do.                                                     *)
(***************************************************************************)
EXTENDS Integers, SequencesExt

CONSTANTS
  MemSize,   (* kMemorySize, the number of bytes of memory_.               *)
  Word,      (* 2^64: offsets and sizes are uint64_t and wrap modulo Word. *)
  Sizes      (* The sizes and lengths a program asks for.                  *)

ASSUME MemAssumption == MemSize \in Nat \ {0} /\ Word \in Nat /\ MemSize < Word

U64 == 0 .. Word - 1

ASSUME SizesAssumption == Sizes \subseteq U64

(* What Heap and CallFrames both have of an Interpreter.                   *)
VARIABLES
  heap,      (* heapBlocks_ and heapBumpPtr_                               *)
  status     (* "running", "returned", or what the RuntimeError said       *)

Block == [offset : U64, size : U64, free : BOOLEAN]

NoHeap == [blocks |-> <<>>, bump |-> 0]

(* One past the last byte of a block. *)
BlockEnd(b) == b.offset + b.size

-----------------------------------------------------------------------------
(* heapAlloc *)

(* An allocation of no bytes takes one, so that no two blocks share an     *)
(* offset.                                                                 *)
RoundUp(size) == IF size = 0 THEN 1 ELSE size

FreeFits(h, size) ==
  {i \in DOMAIN h.blocks : h.blocks[i].free /\ h.blocks[i].size >= size}

First(S) == CHOOSE i \in S : \A j \in S : i <= j

(* The i-th block is taken; what it has beyond size bytes becomes a free   *)
(* block of its own, inserted right after it.                              *)
(* Fault: the taken block keeps its old size. *)
TakenWhole(b, size) == [offset |-> b.offset, size |-> b.size, free |-> FALSE]

Taken(b, size) == [offset |-> b.offset, size |-> size, free |-> FALSE]

(* Fault: the subtraction is the wrong way round. *)
LeftoverNegative(b, size) ==
  [offset |-> b.offset + size, size |-> size - b.size, free |-> TRUE]

Leftover(b, size) == [offset |-> b.offset + size, size |-> b.size - size, free |-> TRUE]

(* Fault: what is left of the block is forgotten. *)
CarveForgetsRest(h, i, size) ==
  [blocks |-> ReplaceAt(h.blocks, i, Taken(h.blocks[i], size)), bump |-> h.bump]

Carve(h, i, size) ==
  LET b     == h.blocks[i]
      taken == ReplaceAt(h.blocks, i, Taken(b, size))
  IN  [blocks |-> IF b.size > size THEN InsertAt(taken, i + 1, Leftover(b, size)) ELSE taken,
       bump   |-> h.bump]

(* The sum is a uint64_t: it wraps before it is compared with the size of  *)
(* the memory, and so does the pointer it advances.                        *)
BumpEnd(h, size) == (h.bump + size) % Word

BumpFits(h, size) == BumpEnd(h, size) <= MemSize

Extend(h, size) ==
  [blocks |-> Append(h.blocks, [offset |-> h.bump, size |-> size, free |-> FALSE]),
   bump   |-> BumpEnd(h, size)]

CanAlloc(h, size) == FreeFits(h, RoundUp(size)) # {} \/ BumpFits(h, RoundUp(size))

(* The heap after heapAlloc(size), and the offset it returns. *)
HeapAlloc(h, size) ==
  LET n == RoundUp(size)
  IN  IF FreeFits(h, n) # {} THEN Carve(h, First(FreeFits(h, n)), n) ELSE Extend(h, n)

AllocOffset(h, size) ==
  LET n == RoundUp(size)
  IN  IF FreeFits(h, n) # {} THEN h.blocks[First(FreeFits(h, n))].offset ELSE h.bump

-----------------------------------------------------------------------------
(* heapFree and heapBlockSize: the first live block at the offset.         *)

LiveAt(h, offset) ==
  {i \in DOMAIN h.blocks : h.blocks[i].offset = offset /\ ~ h.blocks[i].free}

Tracked(h, offset) == LiveAt(h, offset) # {}

(* Fault: a free block leaves the table. *)
HeapFreeErases(h, offset) ==
  [blocks |-> RemoveAt(h.blocks, First(LiveAt(h, offset))), bump |-> h.bump]

HeapFree(h, offset) ==
  [blocks |-> [h.blocks EXCEPT ![First(LiveAt(h, offset))].free = TRUE],
   bump   |-> h.bump]

HeapBlockSize(h, offset) == h.blocks[First(LiveAt(h, offset))].size

-----------------------------------------------------------------------------
(* What the table should be. *)

HeapType(h) == h \in [blocks : Seq(Block), bump : U64]

(* The blocks are in address order and leave no gap: from 0 to the bump    *)
(* pointer every byte belongs to exactly one block.                        *)
Tiled(h) ==
  /\ h.bump <= MemSize
  /\ h.blocks = <<>> => h.bump = 0
  /\ h.blocks # <<>> => /\ h.blocks[1].offset = 0
                        /\ BlockEnd(h.blocks[Len(h.blocks)]) = h.bump
  /\ \A i \in 1 .. Len(h.blocks) - 1 : BlockEnd(h.blocks[i]) = h.blocks[i + 1].offset
  /\ \A i, j \in DOMAIN h.blocks : i < j => BlockEnd(h.blocks[i]) <= h.blocks[j].offset
  /\ \A i \in DOMAIN h.blocks : h.blocks[i].size > 0

Live(h) == {i \in DOMAIN h.blocks : ~ h.blocks[i].free}

LiveOffsets(h) == {h.blocks[i].offset : i \in Live(h)}

(* No byte belongs to two live allocations, and none lies outside memory_. *)
LiveDisjoint(h) ==
  \A i, j \in Live(h) :
    /\ BlockEnd(h.blocks[i]) <= MemSize
    /\ i # j => \/ BlockEnd(h.blocks[i]) <= h.blocks[j].offset
                \/ BlockEnd(h.blocks[j]) <= h.blocks[i].offset
=============================================================================
