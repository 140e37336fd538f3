-------------------------------- MODULE Heap --------------------------------
(***************************************************************************)
(* The flat memory of a run and the allocator carved out of it: memory_,   *)
(* heapBlocks_ and heapBumpPtr_ of class Interpreter, and the instructions *)
(* that change them.  A program is any sequence of these instructions; an  *)
(* instruction that throws a RuntimeError ends the run.                    *)
(***************************************************************************)
EXTENDS HeapBlocks

CONSTANTS
  Byte,     (* The contents of a byte the runs tell apart; 0 is one of them. *)
  Pointers  (* The addresses a program uses, handed out to it or made up.    *)

(* An access whose end wraps around 2^64 passes the range check and is      *)
(* undefined behaviour from there on: programs with one are left out.      *)
ASSUME HeapAssumption ==
  /\ 0 \in Byte /\ Pointers \subseteq U64
  /\ \A ptr \in Pointers, size \in Sizes : ptr + size < Word

VARIABLE memory   (* memory_ *)

vars == <<heap, memory, status>>

Init ==
  /\ heap = NoHeap
  /\ memory = [a \in 0 .. MemSize - 1 |-> 0]
  /\ status = "running"

Running == status = "running" /\ UNCHANGED status

Throw(what) == status = "running" /\ status' = what /\ UNCHANGED <<heap, memory>>

-----------------------------------------------------------------------------
(* alloc, free, realloc *)

Alloc(size) ==
  \/ /\ CanAlloc(heap, size)
     /\ heap' = HeapAlloc(heap, size)
     /\ Running /\ UNCHANGED memory
  \/ /\ ~ CanAlloc(heap, size)
     /\ Throw("out of memory")

Free(ptr) ==
  \/ /\ Tracked(heap, ptr)
     /\ heap' = HeapFree(heap, ptr)
     /\ Running /\ UNCHANGED memory
  \/ /\ ~ Tracked(heap, ptr)
     /\ Throw("free of untracked pointer")

(* Fault: realloc copies the old size. *)
OldSize(m, n) == m

Smaller(m, n) == IF m < n THEN m ELSE n

CopyBytes(m, dst, src, n) ==
  [a \in DOMAIN m |-> IF a \in dst .. dst + n - 1 THEN m[a - dst + src] ELSE m[a]]

(* The new block is allocated while the old one is still live, so that     *)
(* heapRealloc never resizes in place; the old one is freed last.          *)
Realloc(ptr, size) ==
  \/ /\ Tracked(heap, ptr) /\ CanAlloc(heap, size)
     /\ LET copyLen == Smaller(HeapBlockSize(heap, ptr), size)
        IN  memory' = CopyBytes(memory, AllocOffset(heap, size), ptr, copyLen)
     /\ heap' = HeapFree(HeapAlloc(heap, size), ptr)
     /\ Running
  \/ /\ ~ Tracked(heap, ptr)
     /\ Throw("operation on untracked pointer")
  \/ /\ Tracked(heap, ptr) /\ ~ CanAlloc(heap, size)
     /\ Throw("out of memory")

-----------------------------------------------------------------------------
(* store, memset, memcpy and memmove: the allocator is not asked.          *)

InRange(addr, len) == (addr + len) % Word <= MemSize

(* store of a value whose bytes are all the same, and memset *)
MemSet(dst, byte, len) ==
  \/ /\ InRange(dst, len)
     /\ memory' = [a \in DOMAIN memory |->
                    IF a \in dst .. dst + len - 1 THEN byte ELSE memory[a]]
     /\ Running /\ UNCHANGED heap
  \/ /\ ~ InRange(dst, len)
     /\ Throw("out of bounds")

(* memmove, and memcpy between ranges that do not overlap *)
MemMove(dst, src, len) ==
  \/ /\ InRange(dst, len) /\ InRange(src, len)
     /\ memory' = CopyBytes(memory, dst, src, len)
     /\ Running /\ UNCHANGED heap
  \/ /\ ~ (InRange(dst, len) /\ InRange(src, len))
     /\ Throw("out of bounds")

Next ==
  \/ \E size \in Sizes : Alloc(size)
  \/ \E ptr \in Pointers : Free(ptr)
  \/ \E ptr \in Pointers, size \in Sizes : Realloc(ptr, size)
  \/ \E dst \in Pointers, byte \in Byte, len \in Sizes : MemSet(dst, byte, len)
  \/ \E dst, src \in Pointers, len \in Sizes : MemMove(dst, src, len)

Spec == Init /\ [][Next]_vars
-----------------------------------------------------------------------------
(* The heap, its memory and the outcome of the run have their types. *)
TypeOK ==
  /\ HeapType(heap)
  /\ memory \in [0 .. MemSize - 1 -> Byte]
  /\ status \in {"running", "out of memory", "free of untracked pointer",
                 "operation on untracked pointer", "out of bounds"}

(* The block table accounts for every byte below the bump pointer exactly  *)
(* once, in address order: neither first fit, nor the split of a block,    *)
(* nor free, nor realloc loses a byte or hands one out twice.              *)
HeapTiled == Tiled(heap)

(* No two live allocations share a byte and none leaves the memory.        *)
LiveAllocationsDisjoint == LiveDisjoint(heap)

(* Where a block starts, a block starts for the rest of the run: freed     *)
(* blocks are never coalesced and the bump pointer never comes back.       *)
Starts(h) == {h.blocks[i].offset : i \in DOMAIN h.blocks}
BlockStartsAreForever == [][Starts(heap) \subseteq Starts(heap)']_vars

(* "free/realloc/the mem* family on an address the allocator didn't hand   *)
(* out (or already freed) is a runtime error": a memset there ends the run.*)
MemSetNeedsAllocation ==
  [][\A dst \in Pointers, byte \in Byte, len \in Sizes :
       MemSet(dst, byte, len) /\ ~ Tracked(heap, dst) => status' # "running"]_vars

(* A program sees an allocation as bytes of its own: they change only when *)
(* it writes to them, and realloc takes them along.                        *)
ObjectAt(offset) ==
  [k \in 1 .. HeapBlockSize(heap, offset) |-> memory[offset + k - 1]]

objects == [o \in LiveOffsets(heap) |-> ObjectAt(o)]

Objects == INSTANCE HeapSpec WITH objects <- objects

ImplementsObjects == Objects!Spec
=============================================================================
