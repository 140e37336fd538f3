----------------------------- MODULE CallFrames -----------------------------
(***************************************************************************)
(* Frames and the heap they share.  alloca takes its block from the heap   *)
(* allocator and the frame that executed it gives it back when it is left, *)
(* among whatever its callees and callers allocate and free in between.    *)
(* A program here releases only what alloc or realloc returned to it and   *)
(* it has not released yet; one that throws a RuntimeError ends the run.   *)
(***************************************************************************)
EXTENDS HeapBlocks

CONSTANT MaxDepth   (* Bound: the calls that are active at once. *)

ASSUME FramesAssumption == MaxDepth \in Nat \ {0}

VARIABLES
  frames,     (* The allocas of the active frames, the running one last.     *)
  owned       (* History: what alloc and realloc returned, until released.   *)

framesVars == <<heap, frames, owned, status>>

FramesInit ==
  /\ heap = NoHeap
  /\ frames = <<<<>>>>
  /\ owned = {}
  /\ status = "running"

allocas == Last(frames)

FramesThrow(what) == status' = what /\ UNCHANGED <<heap, frames, owned>>
-----------------------------------------------------------------------------
(* alloc, free, realloc, alloca *)

OutOfMemory(size) == ~ CanAlloc(heap, size) /\ FramesThrow("out of memory")

OwnedAlloc(size) ==
  \/ /\ CanAlloc(heap, size)
     /\ heap' = HeapAlloc(heap, size)
     /\ owned' = owned \cup {AllocOffset(heap, size)}
     /\ UNCHANGED <<frames, status>>
  \/ OutOfMemory(size)

(* Fault: the frame does not note the block. *)
AllocaUnrecorded(size) ==
  \/ /\ CanAlloc(heap, size)
     /\ heap' = HeapAlloc(heap, size)
     /\ UNCHANGED <<frames, owned, status>>
  \/ OutOfMemory(size)

Alloca(size) ==
  \/ /\ CanAlloc(heap, size)
     /\ heap' = HeapAlloc(heap, size)
     /\ frames' = Append(Front(frames), Append(allocas, AllocOffset(heap, size)))
     /\ UNCHANGED <<owned, status>>
  \/ OutOfMemory(size)

OwnedFree(ptr) ==
  \/ /\ Tracked(heap, ptr)
     /\ heap' = HeapFree(heap, ptr)
     /\ owned' = owned \ {ptr}
     /\ UNCHANGED <<frames, status>>
  \/ /\ ~ Tracked(heap, ptr)
     /\ FramesThrow("free of untracked pointer")

OwnedRealloc(ptr, size) ==
  \/ /\ Tracked(heap, ptr) /\ CanAlloc(heap, size)
     /\ heap' = HeapFree(HeapAlloc(heap, size), ptr)
     /\ owned' = (owned \ {ptr}) \cup {AllocOffset(heap, size)}
     /\ UNCHANGED <<frames, status>>
  \/ /\ ~ Tracked(heap, ptr)
     /\ FramesThrow("operation on untracked pointer")
  \/ Tracked(heap, ptr) /\ OutOfMemory(size)

-----------------------------------------------------------------------------
(* freeAllocas: the last one first, up to one that is not live.            *)

FreeOne(offset, result) ==
  IF result.ok /\ Tracked(result.heap, offset)
  THEN [heap |-> HeapFree(result.heap, offset), ok |-> TRUE]
  ELSE [heap |-> result.heap, ok |-> FALSE]

(* Fault: the blocks of every frame are given back. *)
FreedOfAll == FoldRight(FreeOne, FlattenSeq(frames), [heap |-> heap, ok |-> TRUE])

Freed == FoldRight(FreeOne, allocas, [heap |-> heap, ok |-> TRUE])

(* The running frame gives its allocas back, and left are the active ones. *)
FreeAllocas(left, outcome) ==
  /\ heap' = Freed.heap
  /\ \/ Freed.ok /\ frames' = left /\ status' = outcome
     \/ ~ Freed.ok /\ UNCHANGED frames /\ status' = "free of untracked pointer"
  /\ UNCHANGED owned

(* Fault: the frame keeps its list of allocas. *)
StackfreeKeeps == FreeAllocas(frames, "running")

Stackfree == FreeAllocas(Append(Front(frames), <<>>), "running")

Call ==
  /\ Len(frames) < MaxDepth
  /\ frames' = Append(frames, <<>>)
  /\ UNCHANGED <<heap, owned, status>>

(* The callee starts once the caller's allocas are gone.                   *)
Tailcall == FreeAllocas(Append(Front(frames), <<>>), "running")

Ret == FreeAllocas(Front(frames), IF Len(frames) = 1 THEN "returned" ELSE "running")

(* Any other RuntimeError: a trap, an unknown callee, a branch to nowhere. *)
Trap == FramesThrow("trap")

FramesNext ==
  /\ status = "running"
  /\ \/ \E size \in Sizes : OwnedAlloc(size)
     \/ \E size \in Sizes : Alloca(size)
     \/ \E ptr \in owned : OwnedFree(ptr)
     \/ \E ptr \in owned, size \in Sizes : OwnedRealloc(ptr, size)
     \/ Stackfree
     \/ Call
     \/ Tailcall
     \/ Ret
     \/ Trap

FramesSpec == FramesInit /\ [][FramesNext]_framesVars
-----------------------------------------------------------------------------
(* The allocas and the heap blocks of a program never mix: each live block *)
(* belongs to one alloca of one active frame or to one allocation of the   *)
(* program, and every block one of them has is live.  So no frame gives    *)
(* back a block that is not its own, and none forgets one.                 *)
Held == UNION {ToSet(frames[d]) : d \in DOMAIN frames}

BlocksHaveOneOwner ==
  /\ \A d, e \in DOMAIN frames : \A i \in DOMAIN frames[d], j \in DOMAIN frames[e] :
       frames[d][i] = frames[e][j] => d = e /\ i = j
  /\ Held \cap owned = {}
  /\ Held \cup owned = LiveOffsets(heap)

(* A return, a tailcall or a stackfree finds every block it gives back.    *)
FreeingNeverTraps == status # "free of untracked pointer"

(* What a call returns to: while a frame is not the running one, its       *)
(* allocas stay its own and live, whatever runs above it.                  *)
CallersKeepTheirAllocas ==
  [][\A d \in 1 .. Len(frames) - 1 :
       /\ Len(frames') >= d => frames'[d] = frames[d]
       /\ \A o \in ToSet(frames[d]) : Tracked(heap', o)]_framesVars
=============================================================================
