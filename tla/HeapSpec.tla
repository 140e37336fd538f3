------------------------------ MODULE HeapSpec ------------------------------
(***************************************************************************)
(* What the heap promises a program: a set of objects, each an extent of   *)
(* memory that belongs to it alone and whose bytes only a write to them    *)
(* changes.  Nothing is said of where an object is placed.                 *)
(***************************************************************************)
EXTENDS Integers, Sequences

CONSTANTS
  MemSize,   (* The number of bytes of memory.            *)
  Byte,      (* The contents a byte may have.             *)
  Sizes      (* The sizes a program asks for or writes.   *)

VARIABLE objects   (* The bytes of each live object, by its address. *)

Address == 0 .. MemSize - 1

Extent(a, n) == a .. a + n - 1

(* An object of n bytes may be placed at a: all of it is memory, and no    *)
(* live object has a byte of it.                                           *)
Fresh(a, n) ==
  /\ Extent(a, n) \subseteq Address
  /\ \A o \in DOMAIN objects : Extent(o, Len(objects[o])) \cap Extent(a, n) = {}

With(f, a, v) == [x \in DOMAIN f \cup {a} |-> IF x = a THEN v ELSE f[x]]

Without(f, a) == [x \in DOMAIN f \ {a} |-> f[x]]

(* Even an object of no bytes has an address of its own. *)
Bytes(size) == IF size = 0 THEN 1 ELSE size
-----------------------------------------------------------------------------
Init == objects = [a \in {} |-> <<>>]

Allocate(size) ==
  \E a \in Address, v \in [1 .. Bytes(size) -> Byte] :
    /\ Fresh(a, Bytes(size))
    /\ objects' = With(objects, a, v)

Release(a) ==
  /\ a \in DOMAIN objects
  /\ objects' = Without(objects, a)

(* The object moves to bytes that were nobody's, its own included, and     *)
(* takes as much of its contents along as the new size holds.              *)
Resize(a, size) ==
  /\ a \in DOMAIN objects
  /\ \E b \in Address, v \in [1 .. Bytes(size) -> Byte] :
       /\ Fresh(b, Bytes(size))
       /\ \A k \in 1 .. size : k <= Len(objects[a]) => v[k] = objects[a][k]
       /\ objects' = With(Without(objects, a), b, v)

(* A write to n bytes from a on changes no byte outside them. *)
Write(a, n) ==
  \E w \in [1 .. n -> Byte] :
    objects' = [o \in DOMAIN objects |->
                 [k \in 1 .. Len(objects[o]) |->
                   IF o + k - 1 \in Extent(a, n) THEN w[o + k - a] ELSE objects[o][k]]]

Next ==
  \/ \E size \in Sizes : Allocate(size)
  \/ \E a \in Address : Release(a)
  \/ \E a \in Address, size \in Sizes : Resize(a, size)
  \/ \E a \in Address, n \in Sizes : Write(a, n)

Spec == Init /\ [][Next]_objects
=============================================================================
