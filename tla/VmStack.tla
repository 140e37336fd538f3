------------------------------ MODULE VmStack ------------------------------
(***************************************************************************)
(* The VM-wide stack of a run, stack_ and stackPointer_ of class           *)
(* Interpreter, with the flags each Frame keeps for itself and can save on *)
(* it.  A program is any sequence of the instructions below, in any        *)
(* functions; one that throws a RuntimeError ends the run.                 *)
(***************************************************************************)
EXTENDS Integers, Sequences

CONSTANTS
  StackSize,  (* kStackSize: the bytes of stack_.                            *)
  Sizes,      (* How many numbers a size_t has: 2^64.                        *)
  Values,     (* What a register may hold when it is pushed.                 *)
  PopTypes,   (* The types a program pops.                                   *)
  Positions,  (* The numbers a program gives setsp and stackrestore.         *)
  MaxDepth    (* Bound: the calls that are active at once.                   *)

Bytes1  == {"i8", "u8"}
Bytes2  == {"i16", "u16"}
Bytes4  == {"i32", "u32", "f32"}
Bytes8  == {"i64", "u64", "f64", "ptr"}
Bytes16 == {"i128", "u128", "v128"}

Type == Bytes1 \cup Bytes2 \cup Bytes4 \cup Bytes8 \cup Bytes16 \cup {"v256", "v512", "void"}

sizeOfType ==
  [t \in Type |-> CASE t \in Bytes1  -> 1
                    [] t \in Bytes2  -> 2
                    [] t \in Bytes4  -> 4
                    [] t \in Bytes8  -> 8
                    [] t \in Bytes16 -> 16
                    [] t = "v256"    -> 32
                    [] t = "v512"    -> 64
                    [] t = "void"    -> 0]

Byte == 0 .. 255

(* A Value: its dynamic type and the bytes of its union that type uses,    *)
(* the least significant first.                                            *)
IsValue(v) ==
  /\ v = [type |-> v.type, bytes |-> v.bytes]
  /\ v.type \in Type /\ v.bytes \in [1 .. sizeOfType[v.type] -> Byte]

ASSUME StackAssumption ==
  /\ StackSize \in Nat /\ MaxDepth \in Nat \ {0} /\ Sizes \in Nat /\ StackSize < Sizes
  /\ \A v \in Values : IsValue(v)
  /\ PopTypes \subseteq Type /\ Positions \subseteq Int

VARIABLES
  stack,         (* stack_                                                   *)
  stackPointer,  (* stackPointer_                                            *)
  frames,        (* The flags of the active frames, the running one last.    *)
  status,        (* "running", "returned", or what the RuntimeError said.    *)
  saved          (* History: where a pushf put which flags, while it lasts.  *)

vars == <<stack, stackPointer, frames, status, saved>>

Flags == [cmpFlag : -128 .. 127, carryFlag : BOOLEAN, overflowFlag : BOOLEAN]

(* What Frame() sets. *)
NewFrame == [cmpFlag |-> 0, carryFlag |-> FALSE, overflowFlag |-> FALSE]

Running == Len(frames)
flags == frames[Running]

Init ==
  /\ stack = [a \in 0 .. StackSize - 1 |-> 0]
  /\ stackPointer = StackSize
  /\ frames = <<NewFrame>>
  /\ status = "running"
  /\ saved = {}

Throw(what) ==
  /\ status' = what
  /\ UNCHANGED <<stack, stackPointer, frames, saved>>

(* A saved word lasts until the stack pointer passes above its first byte. *)
Lasting(sp) == {s \in saved : s.at >= sp}
-----------------------------------------------------------------------------
(* pushValue and popValue *)

Written(bytes, at) ==
  [a \in DOMAIN stack |-> IF a \in at .. at + Len(bytes) - 1 THEN bytes[a - at + 1] ELSE stack[a]]

(* Fault: the room is that of an empty stack. *)
PushFitsEmpty(bytes) == Len(bytes) <= StackSize

PushFits(bytes) == Len(bytes) <= stackPointer

(* Fault: the bytes are copied before the stack pointer moves. *)
pushValueLate(bytes) ==
  /\ PushFits(bytes)
  /\ stackPointer' = stackPointer - Len(bytes)
  /\ stack' = Written(bytes, stackPointer)

pushValue(bytes) ==
  /\ PushFits(bytes)
  /\ stackPointer' = stackPointer - Len(bytes)
  /\ stack' = Written(bytes, stackPointer - Len(bytes))

PopFits(type) == stackPointer + sizeOfType[type] <= StackSize

popValue(type) ==
  /\ PopFits(type)
  /\ stackPointer' = stackPointer + sizeOfType[type]
  /\ UNCHANGED stack

(* Fault: the bytes are read the other way round. *)
TopBytesReversed(type) ==
  [k \in 1 .. sizeOfType[type] |-> stack[stackPointer + sizeOfType[type] - k]]

TopBytes(type) == [k \in 1 .. sizeOfType[type] |-> stack[stackPointer + k - 1]]

Push(v) ==
  /\ status = "running"
  /\ \/ /\ pushValue(v.bytes)
        /\ saved' = Lasting(stackPointer')
        /\ UNCHANGED <<frames, status>>
     \/ ~ PushFits(v.bytes) /\ Throw("stack overflow")

Pop(type) ==
  /\ status = "running"
  /\ \/ /\ popValue(type)
        /\ saved' = Lasting(stackPointer')
        /\ UNCHANGED <<frames, status>>
     \/ ~ PopFits(type) /\ Throw("stack underflow")

-----------------------------------------------------------------------------
(* pushf and popf: an i32 with the compare flag in its low byte and the    *)
(* carry and overflow flags in bits 8 and 9.                               *)

Bit(b) == IF b THEN 1 ELSE 0

Packed(f) == <<f.cmpFlag % 256, Bit(f.carryFlag) + 2 * Bit(f.overflowFlag), 0, 0>>

(* Fault: the cast to signed char is missing. *)
PlainByte(byte) == byte

SignedChar(byte) == IF byte < 128 THEN byte ELSE byte - 256

Unpacked(word) ==
  [cmpFlag      |-> SignedChar(word[1]),
   carryFlag    |-> word[2] % 2 # 0,
   overflowFlag |-> (word[2] \div 2) % 2 # 0]

Pushf ==
  /\ status = "running"
  /\ \/ /\ pushValue(Packed(flags))
        /\ saved' = Lasting(stackPointer') \cup {[at |-> stackPointer', flags |-> flags]}
        /\ UNCHANGED <<frames, status>>
     \/ ~ PushFits(Packed(flags)) /\ Throw("stack overflow")

Popf ==
  /\ status = "running"
  /\ \/ /\ popValue("i32")
        /\ frames' = [frames EXCEPT ![Running] = Unpacked(TopBytes("i32"))]
        /\ saved' = Lasting(stackPointer')
        /\ UNCHANGED status
     \/ ~ PopFits("i32") /\ Throw("stack underflow")

(* setsp, stackrestore.  Of a number that is not negative only the bits of *)
(* a size_t are looked at.                                                 *)
InStack(sp) == sp >= 0 /\ sp % Sizes <= StackSize

Setsp(sp) ==
  /\ status = "running"
  /\ \/ /\ InStack(sp)
        /\ stackPointer' = sp % Sizes
        /\ saved' = Lasting(sp % Sizes)
        /\ UNCHANGED <<stack, frames, status>>
     \/ ~ InStack(sp) /\ Throw("stack pointer out of range")

-----------------------------------------------------------------------------
(* The instructions that write flags. *)

SetFlags(f) ==
  /\ status = "running"
  /\ frames' = [frames EXCEPT ![Running] = f]
  /\ UNCHANGED <<stack, stackPointer, status, saved>>

(* cmp, ucmp *)
Compare(r) == SetFlags([flags EXCEPT !.cmpFlag = r])

(* addc, subb *)
Carry(c) == SetFlags([flags EXCEPT !.carryFlag = c])

(* addo, subo, mulo, nego *)
Overflow(o) == SetFlags([flags EXCEPT !.overflowFlag = o])

(* clro *)
Clro == SetFlags([flags EXCEPT !.carryFlag = FALSE, !.overflowFlag = FALSE])

-----------------------------------------------------------------------------
(* call, tailcall, ret: flags belong to a frame, the stack to the run.     *)

Call ==
  /\ status = "running"
  /\ Running < MaxDepth
  /\ frames' = Append(frames, NewFrame)
  /\ UNCHANGED <<stack, stackPointer, status, saved>>

Tailcall == SetFlags(NewFrame)

Ret ==
  /\ status = "running"
  /\ \/ /\ Running > 1
        /\ frames' = SubSeq(frames, 1, Running - 1)
        /\ UNCHANGED <<stack, stackPointer, status, saved>>
     \/ Running = 1 /\ Throw("returned")

Next ==
  \/ \E v \in Values : Push(v)
  \/ \E t \in PopTypes : Pop(t)
  \/ Pushf
  \/ Popf
  \/ \E sp \in Positions : Setsp(sp)
  \/ \E r \in {-1, 0, 1} : Compare(r)
  \/ \E c \in BOOLEAN : Carry(c)
  \/ \E o \in BOOLEAN : Overflow(o)
  \/ Clro
  \/ Call
  \/ Tailcall
  \/ Ret

Spec == Init /\ [][Next]_vars
-----------------------------------------------------------------------------
(* The stack, its pointer and the flags of every frame have their types.   *)
TypeOK ==
  /\ stack \in [0 .. StackSize - 1 -> Byte]
  /\ stackPointer \in 0 .. StackSize
  /\ frames \in Seq(Flags) /\ Len(frames) \in 1 .. MaxDepth
  /\ status \in {"running", "returned", "stack overflow", "stack underflow",
                 "stack pointer out of range"}
  /\ \A s \in saved : s.at \in stackPointer .. StackSize - 4 /\ s.flags \in Flags

(* Until it is popped, the word a pushf wrote stays the flags of the frame *)
(* that executed it: no other push, call, return or move of the stack      *)
(* pointer touches it, and a popf there restores every flag.               *)
SavedFlagsIntact ==
  \A s \in saved : Unpacked([k \in 1 .. 4 |-> stack[s.at + k - 1]]) = s.flags
=============================================================================
