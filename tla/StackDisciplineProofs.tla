----------------------- MODULE StackDisciplineProofs -----------------------
(***************************************************************************)
(* For every stack size, every set of values and every depth of calls, the *)
(* stack pointer stays in the stack and a word a pushf wrote stays what it *)
(* was until it is popped; and a program that keeps to the discipline finds*)
(* on the stack what it pushed.                                            *)
(***************************************************************************)
EXTENDS StackDiscipline, SequenceTheorems, BasicLemmas, TLAPS

(* The flag word says every flag, the sign of the compare flag included.   *)
LEMMA UnpackedPacked ==
  ASSUME NEW f \in Flags
  PROVE  /\ Unpacked(Packed(f)) = f
         /\ Packed(f) \in Seq(Byte) /\ Len(Packed(f)) = 4
<1>1. /\ f = [cmpFlag |-> f.cmpFlag, carryFlag |-> f.carryFlag, overflowFlag |-> f.overflowFlag]
      /\ f.cmpFlag \in -128 .. 127 /\ f.carryFlag \in BOOLEAN /\ f.overflowFlag \in BOOLEAN
  BY DEF Flags
<1> DEFINE low  == f.cmpFlag % 256
           high == Bit(f.carryFlag) + 2 * Bit(f.overflowFlag)
<1>2. low \in 0 .. 255 /\ SignedChar(low) = f.cmpFlag
  BY <1>1 DEF SignedChar
<1>3. /\ high \in 0 .. 3
      /\ f.carryFlag = TRUE => high % 2 # 0
      /\ f.carryFlag = FALSE => high % 2 = 0
      /\ f.overflowFlag = TRUE => (high \div 2) % 2 # 0
      /\ f.overflowFlag = FALSE => (high \div 2) % 2 = 0
  <2>1. CASE f.carryFlag = TRUE /\ f.overflowFlag = TRUE
    <3>1. high = 3
      BY <2>1 DEF Bit
    <3> HIDE DEF high
    <3> QED BY <2>1, <3>1
  <2>2. CASE f.carryFlag = TRUE /\ f.overflowFlag = FALSE
    <3>1. high = 1
      BY <2>2 DEF Bit
    <3> HIDE DEF high
    <3> QED BY <2>2, <3>1
  <2>3. CASE f.carryFlag = FALSE /\ f.overflowFlag = TRUE
    <3>1. high = 2
      BY <2>3 DEF Bit
    <3> HIDE DEF high
    <3> QED BY <2>3, <3>1
  <2>4. CASE f.carryFlag = FALSE /\ f.overflowFlag = FALSE
    <3>1. high = 0
      BY <2>4 DEF Bit
    <3> HIDE DEF high
    <3> QED BY <2>4, <3>1
  <2> QED BY <1>1, <2>1, <2>2, <2>3, <2>4
<1>4. Packed(f) = <<low, high, 0, 0>>
  BY DEF Packed
<1> HIDE DEF low, high
<1>5. Packed(f)[1] = low /\ Packed(f)[2] = high
  BY <1>4
<1>6. Unpacked(Packed(f)) = f
  <2>1. /\ (high % 2 # 0) = f.carryFlag
        /\ ((high \div 2) % 2 # 0) = f.overflowFlag
    BY <1>1, <1>3, Zenon
  <2> QED BY <1>1, <1>2, <1>5, <2>1, Zenon DEF Unpacked
<1>7. low \in Byte /\ high \in Byte /\ 0 \in Byte
  BY <1>2, <1>3 DEF Byte
<1> QED BY <1>4, <1>6, <1>7
-----------------------------------------------------------------------------
IInv == TypeOK /\ SavedFlagsIntact

LEMMA SizeOfTypeIsNat ==
  ASSUME NEW t \in Type
  PROVE  sizeOfType[t] \in Nat
BY DEF sizeOfType, Type, Bytes1, Bytes2, Bytes4, Bytes8, Bytes16

(* A value and a flag word are bytes. *)
LEMMA ValueBytes ==
  ASSUME NEW v \in Values
  PROVE  v.bytes \in Seq(Byte)
<1>1. v.type \in Type /\ v.bytes \in [1 .. sizeOfType[v.type] -> Byte]
  BY StackAssumption DEF IsValue
<1> QED BY <1>1, SizeOfTypeIsNat

(* The parts of the type invariant, with the assumptions they need.        *)
LEMMA Types ==
  ASSUME TypeOK
  PROVE  /\ StackSize \in Nat /\ MaxDepth \in Nat \ {0}
         /\ stack \in [0 .. StackSize - 1 -> Byte]
         /\ stackPointer \in 0 .. StackSize /\ stackPointer \in Nat
         /\ frames \in Seq(Flags) /\ Len(frames) \in 1 .. MaxDepth
         /\ flags \in Flags
<1>1. StackSize \in Nat /\ MaxDepth \in Nat \ {0}
  BY StackAssumption
<1>2. stackPointer \in 0 .. StackSize
  BY DEF TypeOK
<1>3. stackPointer \in Nat
  BY <1>1, <1>2
<1>4. stack \in [0 .. StackSize - 1 -> Byte]
  BY DEF TypeOK
<1>5. frames \in Seq(Flags) /\ Len(frames) \in 1 .. MaxDepth
  BY DEF TypeOK
<1>6. flags \in Flags
  BY <1>1, <1>5 DEF flags, Running
<1> QED BY <1>1, <1>2, <1>3, <1>4, <1>5, <1>6

(* A push writes its bytes below the stack pointer, and nothing above it.  *)
LEMMA PushWrites ==
  ASSUME stack \in [0 .. StackSize - 1 -> Byte], stackPointer \in 0 .. StackSize,
         NEW bytes \in Seq(Byte), pushValue(bytes)
  PROVE  /\ stack' \in [0 .. StackSize - 1 -> Byte]
         /\ stackPointer' \in 0 .. StackSize /\ stackPointer' = stackPointer - Len(bytes)
         /\ \A a \in stackPointer .. StackSize - 1 : stack'[a] = stack[a]
         /\ \A k \in 1 .. Len(bytes) : stack'[stackPointer' + k - 1] = bytes[k]
<1>1. /\ stack \in [0 .. StackSize - 1 -> Byte] /\ stackPointer \in 0 .. StackSize
      /\ StackSize \in Nat /\ Len(bytes) \in Nat /\ Len(bytes) <= stackPointer
  <2>1. Len(bytes) <= stackPointer
    BY DEF pushValue, PushFits
  <2>2. Len(bytes) \in Nat
    OBVIOUS
  <2> QED BY <2>1, <2>2, StackAssumption
<1> DEFINE at == stackPointer - Len(bytes)
<1>2. /\ stackPointer' = at /\ at \in 0 .. StackSize
      /\ stack' = [a \in 0 .. StackSize - 1 |->
                     IF a \in at .. at + Len(bytes) - 1 THEN bytes[a - at + 1] ELSE stack[a]]
  BY <1>1 DEF pushValue, Written
<1>3. ASSUME NEW a \in stackPointer .. StackSize - 1 PROVE stack'[a] = stack[a]
  <2>1. a \in 0 .. StackSize - 1 /\ a \notin at .. at + Len(bytes) - 1
    BY <1>1
  <2> QED BY <1>2, <2>1
<1>4. ASSUME NEW k \in 1 .. Len(bytes) PROVE stack'[stackPointer' + k - 1] = bytes[k]
  <2>1. /\ at + k - 1 \in 0 .. StackSize - 1 /\ at + k - 1 \in at .. at + Len(bytes) - 1
        /\ (at + k - 1) - at + 1 = k
    BY <1>1
  <2> QED BY <1>2, <2>1
<1>5. \A a \in 0 .. StackSize - 1 :
        a \in at .. at + Len(bytes) - 1 => bytes[a - at + 1] \in Byte
  BY <1>1
<1>6. stack' \in [0 .. StackSize - 1 -> Byte]
  BY <1>1, <1>2, <1>5
<1> QED BY <1>1, <1>2, <1>3, <1>4, <1>6

(* A saved word above the new stack pointer is intact when no byte above   *)
(* the old one changed.                                                    *)
LEMMA LastingIntact ==
  ASSUME IInv, stackPointer' \in 0 .. StackSize,
         \A a \in stackPointer .. StackSize - 1 : stack'[a] = stack[a],
         NEW s \in Lasting(stackPointer')
  PROVE  /\ s.at \in stackPointer' .. StackSize - 4 /\ s.flags \in Flags
         /\ Unpacked([k \in 1 .. 4 |-> stack'[s.at + k - 1]]) = s.flags
<1>1. /\ s \in saved /\ s.at >= stackPointer' /\ s.at \in stackPointer .. StackSize - 4
      /\ s.flags \in Flags /\ stackPointer \in 0 .. StackSize /\ StackSize \in Nat
  BY StackAssumption DEF IInv, TypeOK, Lasting
<1>2. [k \in 1 .. 4 |-> stack'[s.at + k - 1]] = [k \in 1 .. 4 |-> stack[s.at + k - 1]]
  <2>1. \A k \in 1 .. 4 : s.at + k - 1 \in stackPointer .. StackSize - 1
    BY <1>1
  <2> QED BY <2>1
<1>3. Unpacked([k \in 1 .. 4 |-> stack[s.at + k - 1]]) = s.flags
  BY <1>1 DEF IInv, SavedFlagsIntact
<1> QED BY <1>1, <1>2, <1>3

(* What popf reads are flags. *)
LEMMA PopfReadsFlags ==
  ASSUME TypeOK, PopFits("i32")
  PROVE  Unpacked(TopBytes("i32")) \in Flags
<1>1. sizeOfType["i32"] = 4
  BY DEF sizeOfType, Type, Bytes1, Bytes2, Bytes4, Bytes8, Bytes16
<1>2. TopBytes("i32") = [k \in 1 .. 4 |-> stack[stackPointer + k - 1]]
  BY <1>1 DEF TopBytes
<1>3. stackPointer \in 0 .. StackSize - 4 /\ stack \in [0 .. StackSize - 1 -> Byte] /\ StackSize \in Nat
  <2>1. stackPointer + 4 <= StackSize
    BY <1>1 DEF PopFits
  <2> QED BY <2>1, Types
<1>4. TopBytes("i32")[1] \in 0 .. 255
  <2>1. TopBytes("i32")[1] = stack[stackPointer + 1 - 1]
    BY <1>2
  <2>2. stackPointer + 1 - 1 \in 0 .. StackSize - 1
    BY <1>3
  <2> QED BY <1>3, <2>1, <2>2 DEF Byte
<1>5. SignedChar(TopBytes("i32")[1]) \in -128 .. 127
  BY <1>4 DEF SignedChar
<1> QED BY <1>5 DEF Unpacked, Flags

LEMMA InitInv == Init => IInv
<1> SUFFICES ASSUME Init PROVE IInv
  OBVIOUS
<1>1. NewFrame \in Flags
  BY DEF NewFrame, Flags
<1>2. frames \in Seq(Flags) /\ Len(frames) = 1
  BY <1>1 DEF Init
<1> QED BY <1>2, StackAssumption DEF Init, IInv, TypeOK, SavedFlagsIntact, Byte

Statuses == {"running", "returned", "stack overflow", "stack underflow",
             "stack pointer out of range"}

(* What a step that keeps the invariant leaves: a stack whose saved words  *)
(* are those that last and, perhaps, one that is intact.                   *)
LEMMA StepInv ==
  ASSUME IInv,
         stack' \in [0 .. StackSize - 1 -> Byte], stackPointer' \in 0 .. StackSize,
         \A a \in stackPointer .. StackSize - 1 : stack'[a] = stack[a],
         frames' \in Seq(Flags), Len(frames') \in 1 .. MaxDepth, status' \in Statuses,
         saved' = Lasting(stackPointer')
  PROVE  IInv'
<1>1. \A s \in saved' : /\ s.at \in stackPointer' .. StackSize - 4 /\ s.flags \in Flags
                        /\ Unpacked([k \in 1 .. 4 |-> stack'[s.at + k - 1]]) = s.flags
  BY LastingIntact
<1> QED BY <1>1 DEF IInv, TypeOK, SavedFlagsIntact, Statuses

(* A step that leaves the stack and its pointer alone, and writes the      *)
(* flags of frames or ends the run.                                        *)
LEMMA FlagStepInv ==
  ASSUME IInv, UNCHANGED <<stack, stackPointer, saved>>,
         frames' \in Seq(Flags), Len(frames') \in 1 .. MaxDepth, status' \in Statuses
  PROVE  IInv'
<1>1. TypeOK
  BY DEF IInv
<1>2. saved' = Lasting(stackPointer')
  <2>1. \A s \in saved : s.at >= stackPointer
    <3>1. \A s \in saved : s.at \in stackPointer .. StackSize - 4
      BY <1>1 DEF TypeOK
    <3> QED BY <1>1, <3>1, Types
  <2> QED BY <2>1 DEF Lasting
<1> QED BY <1>1, <1>2, Types, StepInv

LEMMA ThrowInv ==
  ASSUME IInv, NEW what \in Statuses, Throw(what)
  PROVE  IInv'
<1>1. TypeOK
  BY DEF IInv
<1> QED BY <1>1, Types, FlagStepInv DEF Throw

LEMMA RunningWritten ==
  ASSUME TypeOK, NEW f \in Flags
  PROVE  /\ [frames EXCEPT ![Running] = f] \in Seq(Flags)
         /\ Len([frames EXCEPT ![Running] = f]) \in 1 .. MaxDepth
<1>1. frames \in Seq(Flags) /\ Len(frames) \in 1 .. MaxDepth /\ MaxDepth \in Nat
  BY Types
<1>2. Running \in 1 .. Len(frames)
  BY <1>1 DEF Running
<1> QED BY <1>1, <1>2, ExceptSeq

(* Writing the running frame's flags. *)
LEMMA SetFlagsInv ==
  ASSUME IInv, NEW f \in Flags, SetFlags(f)
  PROVE  IInv'
<1>1. TypeOK
  BY DEF IInv
<1>2. /\ frames' = [frames EXCEPT ![Running] = f] /\ status' = "running"
      /\ UNCHANGED <<stack, stackPointer, saved>>
  BY DEF SetFlags
<1>3. frames' \in Seq(Flags) /\ Len(frames') \in 1 .. MaxDepth
  BY <1>1, <1>2, RunningWritten
<1> QED BY <1>2, <1>3, FlagStepInv DEF Statuses

(* A flag instruction writes flags. *)
LEMMA FlagWrites ==
  ASSUME TypeOK
  PROVE  /\ \A r \in {-1, 0, 1} : [flags EXCEPT !.cmpFlag = r] \in Flags
         /\ \A c \in BOOLEAN : [flags EXCEPT !.carryFlag = c] \in Flags
         /\ \A o \in BOOLEAN : [flags EXCEPT !.overflowFlag = o] \in Flags
         /\ [flags EXCEPT !.carryFlag = FALSE, !.overflowFlag = FALSE] \in Flags
         /\ NewFrame \in Flags
<1>1. flags \in Flags
  BY Types
<1>2. ASSUME NEW r \in {-1, 0, 1} PROVE [flags EXCEPT !.cmpFlag = r] \in Flags
  <2>1. r \in -128 .. 127
    OBVIOUS
  <2> QED BY <1>1, <2>1, Zenon DEF Flags
<1>3. ASSUME NEW b \in BOOLEAN
      PROVE  /\ [flags EXCEPT !.carryFlag = b] \in Flags
             /\ [flags EXCEPT !.overflowFlag = b] \in Flags
  BY <1>1, Zenon DEF Flags
<1>4. [flags EXCEPT !.carryFlag = FALSE, !.overflowFlag = FALSE] \in Flags
  BY <1>1, Zenon DEF Flags
<1>5. NewFrame \in Flags
  BY DEF Flags, NewFrame
<1> QED BY <1>2, <1>3, <1>4, <1>5

LEMMA PushInv ==
  ASSUME IInv, NEW v \in Values, Push(v)
  PROVE  IInv'
<1>1. TypeOK
  BY DEF IInv
<1>2. CASE pushValue(v.bytes) /\ saved' = Lasting(stackPointer') /\ UNCHANGED <<frames, status>>
  <2>1. v.bytes \in Seq(Byte)
    BY ValueBytes
  <2>2. status' \in Statuses
    BY <1>2 DEF Push, Statuses
  <2> QED BY <1>1, <1>2, <2>1, <2>2, PushWrites, Types, StepInv
<1>3. CASE Throw("stack overflow")
  BY <1>3, ThrowInv DEF Statuses
<1> QED BY <1>2, <1>3 DEF Push

(* The word of a pushf is intact, whatever it was pushed over.             *)
LEMMA PushfInv ==
  ASSUME IInv, Pushf
  PROVE  IInv'
<1>1. TypeOK /\ flags \in Flags
  BY Types DEF IInv
<1>2. CASE /\ pushValue(Packed(flags)) /\ UNCHANGED <<frames, status>>
           /\ saved' = Lasting(stackPointer') \cup {[at |-> stackPointer', flags |-> flags]}
  <2>1. /\ Packed(flags) \in Seq(Byte) /\ Len(Packed(flags)) = 4
        /\ Unpacked(Packed(flags)) = flags
    BY <1>1, UnpackedPacked
  <2>2. /\ stack' \in [0 .. StackSize - 1 -> Byte]
        /\ stackPointer' \in 0 .. StackSize /\ stackPointer' = stackPointer - 4
        /\ \A a \in stackPointer .. StackSize - 1 : stack'[a] = stack[a]
        /\ \A k \in 1 .. 4 : stack'[stackPointer' + k - 1] = Packed(flags)[k]
    BY <1>1, <1>2, <2>1, Types, PushWrites
  <2>3. stackPointer' \in stackPointer' .. StackSize - 4
    BY <1>1, <2>2, Types
  <2>4. Unpacked([k \in 1 .. 4 |-> stack'[stackPointer' + k - 1]]) = flags
    <3> DEFINE read == [k \in 1 .. 4 |-> stack'[stackPointer' + k - 1]]
    <3>1. read[1] = Packed(flags)[1] /\ read[2] = Packed(flags)[2]
      BY <2>2
    <3> HIDE DEF read
    <3>2. Unpacked(read) = Unpacked(Packed(flags))
      BY <3>1 DEF Unpacked
    <3> QED BY <2>1, <3>2 DEF read
  <2>5. \A s \in saved' : /\ s.at \in stackPointer' .. StackSize - 4 /\ s.flags \in Flags
                          /\ Unpacked([k \in 1 .. 4 |-> stack'[s.at + k - 1]]) = s.flags
    <3> TAKE s \in saved'
    <3>1. CASE s \in Lasting(stackPointer')
      BY <2>2, <3>1, LastingIntact
    <3>2. CASE s = [at |-> stackPointer', flags |-> flags]
      <4>1. s.at = stackPointer' /\ s.flags = flags
        BY <3>2
      <4> QED BY <1>1, <2>3, <2>4, <4>1
    <3> QED BY <1>2, <3>1, <3>2
  <2>6. status' \in Statuses /\ frames' \in Seq(Flags) /\ Len(frames') \in 1 .. MaxDepth
    BY <1>1, <1>2, Types DEF Pushf, Statuses
  <2> QED BY <2>2, <2>5, <2>6 DEF IInv, TypeOK, SavedFlagsIntact, Statuses
<1>3. CASE Throw("stack overflow")
  BY <1>3, ThrowInv DEF Statuses
<1> QED BY <1>2, <1>3 DEF Pushf

LEMMA PopInv ==
  ASSUME IInv, NEW t \in PopTypes, Pop(t)
  PROVE  IInv'
<1>1. TypeOK
  BY DEF IInv
<1>2. CASE popValue(t) /\ saved' = Lasting(stackPointer') /\ UNCHANGED <<frames, status>>
  <2>1. sizeOfType[t] \in Nat
    BY StackAssumption, SizeOfTypeIsNat
  <2>2. /\ stackPointer + sizeOfType[t] <= StackSize /\ stack' = stack
        /\ stackPointer' = stackPointer + sizeOfType[t]
    BY <1>2 DEF popValue, PopFits
  <2>3. stackPointer' \in 0 .. StackSize
    BY <1>1, <2>1, <2>2, Types
  <2>4. status' \in Statuses
    BY <1>2 DEF Pop, Statuses
  <2> QED BY <1>1, <1>2, <2>2, <2>3, <2>4, Types, StepInv
<1>3. CASE Throw("stack underflow")
  BY <1>3, ThrowInv DEF Statuses
<1> QED BY <1>2, <1>3 DEF Pop

LEMMA PopfInv ==
  ASSUME IInv, Popf
  PROVE  IInv'
<1>1. TypeOK
  BY DEF IInv
<1>2. CASE /\ popValue("i32") /\ saved' = Lasting(stackPointer') /\ UNCHANGED status
           /\ frames' = [frames EXCEPT ![Running] = Unpacked(TopBytes("i32"))]
  <2>1. /\ stackPointer + sizeOfType["i32"] <= StackSize /\ stack' = stack
        /\ stackPointer' = stackPointer + sizeOfType["i32"]
    BY <1>2 DEF popValue, PopFits
  <2>2. sizeOfType["i32"] = 4
    BY DEF sizeOfType, Type, Bytes1, Bytes2, Bytes4, Bytes8, Bytes16
  <2>3. stackPointer' \in 0 .. StackSize
    BY <1>1, <2>1, <2>2, Types
  <2>4. status' \in Statuses
    BY <1>2 DEF Popf, Statuses
  <2>5. Unpacked(TopBytes("i32")) \in Flags
    BY <1>1, <1>2, PopfReadsFlags DEF popValue
  <2>6. frames' \in Seq(Flags) /\ Len(frames') \in 1 .. MaxDepth
    BY <1>1, <1>2, <2>5, RunningWritten
  <2> QED BY <1>1, <1>2, <2>1, <2>3, <2>4, <2>6, Types, StepInv
<1>3. CASE Throw("stack underflow")
  BY <1>3, ThrowInv DEF Statuses
<1> QED BY <1>2, <1>3 DEF Popf

LEMMA SetspInv ==
  ASSUME IInv, NEW sp \in Positions, Setsp(sp)
  PROVE  IInv'
<1>1. TypeOK
  BY DEF IInv
<1>2. CASE /\ InStack(sp) /\ stackPointer' = sp % Sizes /\ saved' = Lasting(sp % Sizes)
           /\ UNCHANGED <<stack, frames, status>>
  <2>1. status' \in Statuses
    BY <1>2 DEF Setsp, Statuses
  <2>2. PICK at : at = sp % Sizes /\ at \in 0 .. StackSize
    <3>1. sp \in Int /\ Sizes \in Nat \ {0} /\ StackSize \in Nat
      BY StackAssumption
    <3>2. sp % Sizes \in 0 .. Sizes - 1
      BY <3>1, DivMod
    <3> QED BY <1>2, <3>1, <3>2 DEF InStack
  <2> QED BY <1>1, <1>2, <2>1, <2>2, Types, StepInv
<1>3. CASE Throw("stack pointer out of range")
  BY <1>3, ThrowInv DEF Statuses
<1> QED BY <1>2, <1>3 DEF Setsp

LEMMA CallInv ==
  ASSUME IInv, Call
  PROVE  IInv'
<1>1. TypeOK /\ NewFrame \in Flags
  BY FlagWrites DEF IInv
<1>2. /\ Running < MaxDepth /\ frames' = Append(frames, NewFrame) /\ status' = "running"
      /\ UNCHANGED <<stack, stackPointer, saved>>
  BY DEF Call
<1>3. frames' \in Seq(Flags) /\ Len(frames') \in 1 .. MaxDepth
  BY <1>1, <1>2, Types DEF Running
<1> QED BY <1>2, <1>3, FlagStepInv DEF Statuses

LEMMA RetInv ==
  ASSUME IInv, Ret
  PROVE  IInv'
<1>1. TypeOK
  BY DEF IInv
<1>2. CASE /\ Running > 1 /\ frames' = SubSeq(frames, 1, Running - 1)
           /\ UNCHANGED <<stack, stackPointer, status, saved>>
  <2>1. frames' \in Seq(Flags) /\ Len(frames') \in 1 .. MaxDepth
    BY <1>1, <1>2, Types DEF Running
  <2>2. status' \in Statuses
    BY <1>2 DEF Ret, Statuses
  <2> QED BY <1>2, <2>1, <2>2, FlagStepInv
<1>3. CASE Throw("returned")
  BY <1>3, ThrowInv DEF Statuses
<1> QED BY <1>2, <1>3 DEF Ret

LEMMA NextInv == IInv /\ [Next]_vars => IInv'
<1> SUFFICES ASSUME IInv, [Next]_vars PROVE IInv'
  OBVIOUS
<1> TypeOK
  BY DEF IInv
<1>1. ASSUME NEW v \in Values, Push(v) PROVE IInv'
  BY <1>1, PushInv
<1>2. ASSUME NEW t \in PopTypes, Pop(t) PROVE IInv'
  BY <1>2, PopInv
<1>3. CASE Pushf
  BY <1>3, PushfInv
<1>4. CASE Popf
  BY <1>4, PopfInv
<1>5. ASSUME NEW sp \in Positions, Setsp(sp) PROVE IInv'
  BY <1>5, SetspInv
<1>6. ASSUME NEW r \in {-1, 0, 1}, Compare(r) PROVE IInv'
  BY <1>6, FlagWrites, SetFlagsInv DEF Compare
<1>7. ASSUME NEW c \in BOOLEAN, Carry(c) PROVE IInv'
  BY <1>7, FlagWrites, SetFlagsInv DEF Carry
<1>8. ASSUME NEW o \in BOOLEAN, Overflow(o) PROVE IInv'
  BY <1>8, FlagWrites, SetFlagsInv DEF Overflow
<1>9. CASE Clro
  BY <1>9, FlagWrites, SetFlagsInv DEF Clro
<1>10. CASE Call
  BY <1>10, CallInv
<1>11. CASE Tailcall
  BY <1>11, FlagWrites, SetFlagsInv DEF Tailcall
<1>12. CASE Ret
  BY <1>12, RetInv
<1>13. CASE UNCHANGED vars
  <2>1. status' \in Statuses
    BY <1>13 DEF vars, TypeOK, Statuses
  <2> QED BY <1>13, <2>1, Types, FlagStepInv DEF vars
<1> QED BY <1>1, <1>2, <1>3, <1>4, <1>5, <1>6, <1>7, <1>8, <1>9, <1>10, <1>11, <1>12, <1>13
        DEF Next

LEMMA InvHolds == Spec => []IInv
<1>1. Init => IInv
  BY InitInv
<1>2. IInv /\ [Next]_vars => IInv'
  BY NextInv
<1> QED BY <1>1, <1>2, PTL DEF Spec

(* The stack pointer never leaves the stack and every frame's flags are    *)
(* flags, whatever a program pushes, pops, restores or calls.              *)
THEOREM TypeCorrect == Spec => []TypeOK
<1>1. IInv => TypeOK
  BY DEF IInv
<1> QED BY <1>1, InvHolds, PTL

(* The word a pushf put on the stack stays those flags until it is popped. *)
THEOREM SavedFlagsStay == Spec => []SavedFlagsIntact
<1>1. IInv => SavedFlagsIntact
  BY DEF IInv
<1> QED BY <1>1, InvHolds, PTL
-----------------------------------------------------------------------------
(* Each push names the type of the value it pushes.                        *)
Typed == \A p \in Pushes : p.suffix = p.value.type

Bytes == Seq(Byte)

-----------------------------------------------------------------------------
(* The bytes of a sequence of pushes, one push after the other.            *)

PushBytes(ps, k) == FlattenSeq([i \in 1 .. k |-> ps[i].value.bytes])

(* f[i] is the bytes of the i first of n pushes.                           *)
IsFlat(ps, n, f) ==
  f = [i \in 1 .. n |-> IF i = 1 THEN ps[i].value.bytes ELSE f[i - 1] \o ps[i].value.bytes]

LEMMA FlatExists ==
  ASSUME NEW ps, NEW n \in Nat
  PROVE  \E f : IsFlat(ps, n, f)
<1> DEFINE Has == {k \in Nat : \E f : IsFlat(ps, k, f)}
<1>1. 0 \in Has
  <2> DEFINE none == [i \in 1 .. 0 |-> <<>>]
  <2>1. none = [i \in 1 .. 0 |-> IF i = 1 THEN ps[i].value.bytes ELSE none[i - 1] \o ps[i].value.bytes]
    OBVIOUS
  <2>2. IsFlat(ps, 0, none)
    BY <2>1 DEF IsFlat
  <2> QED BY <2>2
<1>2. ASSUME NEW k \in Nat, k \in Has PROVE k + 1 \in Has
  <2>1. PICK f : IsFlat(ps, k, f)
    BY <1>2
  <2>2. \A i \in 1 .. k :
          f[i] = IF i = 1 THEN ps[i].value.bytes ELSE f[i - 1] \o ps[i].value.bytes
    BY <2>1 DEF IsFlat
  <2> DEFINE more == [i \in 1 .. k + 1 |->
                       IF i = 1 THEN ps[i].value.bytes ELSE f[i - 1] \o ps[i].value.bytes]
  <2>3. \A i \in 1 .. k : more[i] = f[i]
    BY <2>2
  <2>4. \A i \in 1 .. k + 1 : i # 1 => i - 1 \in 1 .. k
    OBVIOUS
  <2>5. \A i \in 1 .. k + 1 :
          more[i] = IF i = 1 THEN ps[i].value.bytes ELSE more[i - 1] \o ps[i].value.bytes
    BY <2>3, <2>4
  <2>6. IsFlat(ps, k + 1, more)
    BY <2>5 DEF IsFlat
  <2> QED BY <2>6
<1> HIDE DEF Has
<1>3. n \in Has
  BY <1>1, <1>2, SetInduction
<1> QED BY <1>3 DEF Has

(* Bytes flattened further do not change those flattened before.           *)
LEMMA FlatsAgree ==
  ASSUME NEW ps, NEW n \in Nat, NEW m \in Nat, NEW f, NEW g, IsFlat(ps, n, f), IsFlat(ps, m, g),
         NEW k \in Nat, 1 <= k, k <= n, k <= m
  PROVE  f[k] = g[k]
<1> DEFINE Same == {i \in 1 .. k : f[i] = g[i]}
<1>1. /\ \A i \in 1 .. n : f[i] = IF i = 1 THEN ps[i].value.bytes ELSE f[i - 1] \o ps[i].value.bytes
      /\ \A i \in 1 .. m : g[i] = IF i = 1 THEN ps[i].value.bytes ELSE g[i - 1] \o ps[i].value.bytes
  BY DEF IsFlat
<1>2. 1 \in Same
  <2>1. 1 \in 1 .. n /\ 1 \in 1 .. m
    OBVIOUS
  <2> QED BY <1>1, <2>1
<1>3. ASSUME NEW i \in 1 .. k - 1, i \in Same PROVE i + 1 \in Same
  <2>1. i + 1 \in 1 .. n /\ i + 1 \in 1 .. m /\ i + 1 # 1 /\ (i + 1) - 1 = i /\ i + 1 \in 1 .. k
    OBVIOUS
  <2>2. f[i + 1] = f[i] \o ps[i + 1].value.bytes
    BY <1>1, <2>1
  <2>3. g[i + 1] = g[i] \o ps[i + 1].value.bytes
    BY <1>1, <2>1
  <2> QED BY <1>3, <2>1, <2>2, <2>3
<1> HIDE DEF Same
<1>4. 1 .. k \subseteq Same
  <2>1. 1 \in Int /\ k \in Int
    OBVIOUS
  <2> QED BY <1>2, <1>3, <2>1, IntervalInduction
<1> QED BY <1>4 DEF Same

LEMMA FlatOfPushes ==
  ASSUME NEW ps, NEW k \in Nat \ {0}
  PROVE  \E f : IsFlat(ps, k, f) /\ PushBytes(ps, k) = f[k]
<1>1. PICK s : s = [i \in 1 .. k |-> ps[i].value.bytes]
  OBVIOUS
<1>2. Len(s) = k /\ DOMAIN s = 1 .. k /\ \A i \in 1 .. k : s[i] = ps[i].value.bytes
  BY <1>1
<1> DEFINE flatten == CHOOSE f : f = [i \in 1 .. k |-> IF i = 1 THEN s[i] ELSE f[i - 1] \o s[i]]
<1>3. FlattenSeq(s) = flatten[k]
  BY <1>2 DEF FlattenSeq
<1>4. \E f : f = [i \in 1 .. k |-> IF i = 1 THEN s[i] ELSE f[i - 1] \o s[i]]
  <2>1. PICK f : IsFlat(ps, k, f)
    BY FlatExists
  <2>2. f = [i \in 1 .. k |-> IF i = 1 THEN s[i] ELSE f[i - 1] \o s[i]]
    BY <1>2, <2>1 DEF IsFlat
  <2> QED BY <2>2
<1>5. flatten = [i \in 1 .. k |-> IF i = 1 THEN s[i] ELSE flatten[i - 1] \o s[i]]
  BY <1>4
<1> HIDE DEF flatten
<1>6. IsFlat(ps, k, flatten)
  BY <1>2, <1>5 DEF IsFlat
<1> QED BY <1>1, <1>3, <1>6 DEF PushBytes

(* One more push adds its bytes at the end.                                *)
LEMMA PushBytesStep ==
  ASSUME NEW ps, \A i \in DOMAIN ps : ps[i].value.bytes \in Bytes, NEW k \in Nat, k + 1 \in DOMAIN ps
  PROVE  /\ PushBytes(ps, 0) = <<>>
         /\ PushBytes(ps, k + 1) = PushBytes(ps, k) \o ps[k + 1].value.bytes
<1>1. PushBytes(ps, 0) = <<>>
  <2>1. [i \in 1 .. 0 |-> ps[i].value.bytes] = <<>>
    OBVIOUS
  <2>2. FlattenSeq(<<>>) = <<>>
    BY DEF FlattenSeq
  <2> QED BY <2>1, <2>2 DEF PushBytes
<1>2. PICK f : IsFlat(ps, k + 1, f) /\ PushBytes(ps, k + 1) = f[k + 1]
  BY FlatOfPushes
<1>3. \A i \in 1 .. k + 1 : f[i] = IF i = 1 THEN ps[i].value.bytes ELSE f[i - 1] \o ps[i].value.bytes
  BY <1>2 DEF IsFlat
<1>4. CASE k = 0
  <2>1. f[1] = ps[1].value.bytes
    BY <1>3, <1>4
  <2>2. <<>> \o ps[1].value.bytes = ps[1].value.bytes
    BY <1>4, ConcatEmptySeq DEF Bytes
  <2>3. k + 1 = 1 /\ PushBytes(ps, k) = <<>>
    BY <1>1, <1>4
  <2>4. PushBytes(ps, k + 1) = ps[1].value.bytes
    BY <1>2, <2>1, <2>3
  <2> QED BY <1>1, <2>2, <2>3, <2>4
<1>5. CASE k # 0
  <2>1. PICK g : IsFlat(ps, k, g) /\ PushBytes(ps, k) = g[k]
    BY <1>5, FlatOfPushes
  <2>2. f[k] = g[k]
    <3>1. k + 1 \in Nat /\ 1 <= k /\ k <= k + 1 /\ k <= k
      BY <1>5
    <3> QED BY <1>2, <2>1, <3>1, FlatsAgree
  <2>3. f[k + 1] = f[k] \o ps[k + 1].value.bytes
    <3>1. k + 1 \in 1 .. k + 1 /\ k + 1 # 1 /\ (k + 1) - 1 = k
      BY <1>5
    <3> QED BY <1>3, <3>1
  <2> QED BY <1>1, <1>2, <2>1, <2>2, <2>3
<1> QED BY <1>1, <1>4, <1>5

LEMMA PushBytesAreBytes ==
  ASSUME NEW ps, NEW n \in Nat, DOMAIN ps = 1 .. n, \A i \in 1 .. n : ps[i].value.bytes \in Bytes
  PROVE  \A k \in 0 .. n : PushBytes(ps, k) \in Bytes
<1> DEFINE Fine == {k \in 0 .. n : PushBytes(ps, k) \in Bytes}
<1>1. 0 \in Fine
  <2>1. PushBytes(ps, 0) = <<>>
    <3>1. [i \in 1 .. 0 |-> ps[i].value.bytes] = <<>>
      OBVIOUS
    <3>2. FlattenSeq(<<>>) = <<>>
      BY DEF FlattenSeq
    <3> QED BY <3>1, <3>2 DEF PushBytes
  <2>2. <<>> \in Bytes
    BY DEF Bytes
  <2> QED BY <2>1, <2>2
<1>2. ASSUME NEW k \in 0 .. n - 1, k \in Fine PROVE k + 1 \in Fine
  <2>1. k \in Nat /\ k + 1 \in DOMAIN ps /\ k + 1 \in 0 .. n /\ k + 1 \in 1 .. n
    OBVIOUS
  <2>2. PushBytes(ps, k + 1) = PushBytes(ps, k) \o ps[k + 1].value.bytes
    BY <2>1, PushBytesStep
  <2>3. PushBytes(ps, k) \in Bytes /\ ps[k + 1].value.bytes \in Bytes
    BY <1>2, <2>1
  <2>4. PushBytes(ps, k) \o ps[k + 1].value.bytes \in Bytes
    BY <2>3, ConcatProperties DEF Bytes
  <2> QED BY <2>1, <2>2, <2>4
<1> HIDE DEF Fine
<1>3. 0 .. n \subseteq Fine
  <2>1. 0 \in Int /\ n \in Int
    OBVIOUS
  <2> QED BY <1>1, <1>2, <2>1, IntervalInduction
<1> QED BY <1>3 DEF Fine

(* The bytes of the pushes are those of the first k and of the others.     *)
LEMMA PushBytesSplit ==
  ASSUME NEW ps, NEW n \in Nat, DOMAIN ps = 1 .. n, \A i \in 1 .. n : ps[i].value.bytes \in Bytes,
         NEW k \in 0 .. n,
         NEW qs, DOMAIN qs = 1 .. n - k, \A i \in 1 .. n - k : qs[i] = ps[k + i]
  PROVE  PushBytes(ps, n) = PushBytes(ps, k) \o PushBytes(qs, n - k)
<1> DEFINE Splits == {j \in 0 .. n - k : PushBytes(ps, k + j) = PushBytes(ps, k) \o PushBytes(qs, j)}
<1>0. /\ n - k \in Nat
      /\ \A i \in 1 .. n - k : k + i \in 1 .. n
      /\ \A i \in 1 .. n - k : qs[i].value.bytes \in Bytes
  <2>1. n - k \in Nat
    OBVIOUS
  <2>2. ASSUME NEW i \in 1 .. n - k
        PROVE  k + i \in 1 .. n /\ qs[i].value.bytes \in Bytes
    <3>1. k + i \in 1 .. n
      OBVIOUS
    <3>2. qs[i].value.bytes = ps[k + i].value.bytes
      OBVIOUS
    <3> QED BY <3>1, <3>2
  <2> QED BY <2>1, <2>2
<1>1. PushBytes(ps, k) \in Bytes /\ \A j \in 0 .. n - k : PushBytes(qs, j) \in Bytes
  <2>1. \A j \in 0 .. n - k : PushBytes(qs, j) \in Bytes
    <3>1. PICK m : m = n - k
      OBVIOUS
    <3>2. m \in Nat /\ DOMAIN qs = 1 .. m /\ \A i \in 1 .. m : qs[i].value.bytes \in Bytes
      BY <1>0, <3>1
    <3>3. \A j \in 0 .. m : PushBytes(qs, j) \in Bytes
      BY <3>2, PushBytesAreBytes
    <3> QED BY <3>1, <3>3
  <2> QED BY <2>1, PushBytesAreBytes
<1>2. 0 \in Splits
  <2>1. PushBytes(qs, 0) = <<>>
    <3>1. [i \in 1 .. 0 |-> qs[i].value.bytes] = <<>>
      OBVIOUS
    <3>2. FlattenSeq(<<>>) = <<>>
      BY DEF FlattenSeq
    <3> QED BY <3>1, <3>2 DEF PushBytes
  <2>2. PushBytes(ps, k) \o <<>> = PushBytes(ps, k)
    BY <1>1, ConcatEmptySeq DEF Bytes
  <2>3. k + 0 = k /\ 0 \in 0 .. n - k
    BY <1>0
  <2> QED BY <2>1, <2>2, <2>3
<1>3. ASSUME NEW j \in 0 .. (n - k) - 1, j \in Splits PROVE j + 1 \in Splits
  <2>1. /\ j \in Nat /\ j + 1 \in DOMAIN qs /\ k + j \in Nat /\ (k + j) + 1 \in DOMAIN ps
        /\ (k + j) + 1 = k + (j + 1) /\ j + 1 \in 1 .. n - k /\ j \in 0 .. n - k
        /\ j + 1 \in 0 .. n - k
    OBVIOUS
  <2>2. PICK b : b = ps[k + (j + 1)].value.bytes /\ b = qs[j + 1].value.bytes
    BY <2>1
  <2>3. PushBytes(ps, (k + j) + 1) = PushBytes(ps, k + j) \o b
    <3>1. \A i \in DOMAIN ps : ps[i].value.bytes \in Bytes
      OBVIOUS
    <3>2. PICK x : x = k + j
      OBVIOUS
    <3>3. x \in Nat /\ x + 1 \in DOMAIN ps /\ b = ps[x + 1].value.bytes
      BY <2>1, <2>2, <3>2
    <3>4. PushBytes(ps, x + 1) = PushBytes(ps, x) \o ps[x + 1].value.bytes
      BY <3>1, <3>3, PushBytesStep
    <3> QED BY <3>2, <3>3, <3>4
  <2>4. PushBytes(qs, j + 1) = PushBytes(qs, j) \o b
    <3>1. \A i \in DOMAIN qs : qs[i].value.bytes \in Bytes
      BY <1>0
    <3> QED BY <2>1, <2>2, <3>1, PushBytesStep
  <2>5. PICK x, y : x = PushBytes(ps, k) /\ y = PushBytes(qs, j)
    OBVIOUS
  <2>6. x \in Bytes /\ y \in Bytes /\ b \in Bytes
    BY <1>0, <1>1, <2>1, <2>2, <2>5
  <2>7. (x \o y) \o b = x \o (y \o b)
    BY SMTT(30), <2>6, ConcatAssociative DEF Bytes
  <2>8. PushBytes(ps, k + j) = x \o y
    BY <1>3, <2>5
  <2>9. PushBytes(ps, k + (j + 1)) = x \o PushBytes(qs, j + 1)
    BY <2>1, <2>3, <2>4, <2>5, <2>7, <2>8
  <2> QED BY <2>1, <2>5, <2>9
<1> HIDE DEF Splits
<1>4. 0 .. n - k \subseteq Splits
  <2>1. 0 \in Int /\ n - k \in Int
    OBVIOUS
  <2> QED BY <1>2, <1>3, <2>1, IntervalInduction
<1>5. n - k \in Splits /\ k + (n - k) = n
  BY <1>0, <1>4
<1> QED BY <1>5 DEF Splits
-----------------------------------------------------------------------------
(* What is on the stack.                                                   *)

Contents(st, sp) == [k \in 1 .. StackSize - sp |-> st[sp + k - 1]]

IsStack(st, sp) == st \in [0 .. StackSize - 1 -> Byte] /\ sp \in 0 .. StackSize

LEMMA ContentsAreBytes ==
  ASSUME NEW st, NEW sp, IsStack(st, sp)
  PROVE  /\ StackSize - sp \in Nat /\ StackSize \in Nat /\ sp \in Nat
         /\ Contents(st, sp) \in Bytes /\ Len(Contents(st, sp)) = StackSize - sp
<1>1. PICK n \in Nat : n = StackSize - sp
  BY StackAssumption DEF IsStack
<1>2. \A k \in 1 .. n : sp + k - 1 \in 0 .. StackSize - 1
  BY <1>1, StackAssumption DEF IsStack
<1>3. PICK c : c = [k \in 1 .. n |-> st[sp + k - 1]]
  OBVIOUS
<1>4. c \in [1 .. n -> Byte]
  BY <1>2, <1>3 DEF IsStack
<1>5. c \in Seq(Byte) /\ Len(c) = n
  BY <1>4
<1>6. c = Contents(st, sp)
  BY <1>1, <1>3 DEF Contents
<1> QED BY <1>1, <1>5, <1>6, StackAssumption DEF IsStack, Bytes

(* Bytes written right below the stack pointer come before those there.    *)
PutOnTop(st, sp, b, st2, sp2) ==
  /\ IsStack(st, sp) /\ IsStack(st2, sp2) /\ b \in Bytes /\ sp2 = sp - Len(b)
  /\ \A a \in sp .. StackSize - 1 : st2[a] = st[a]
  /\ \A k \in 1 .. Len(b) : st2[sp2 + k - 1] = b[k]

LEMMA ContentsGrow ==
  ASSUME NEW st, NEW sp, NEW b, NEW st2, NEW sp2, PutOnTop(st, sp, b, st2, sp2)
  PROVE  Contents(st2, sp2) = b \o Contents(st, sp)
<1>0. /\ IsStack(st, sp) /\ IsStack(st2, sp2) /\ b \in Bytes /\ sp2 = sp - Len(b)
      /\ \A a \in sp .. StackSize - 1 : st2[a] = st[a]
      /\ \A k \in 1 .. Len(b) : st2[sp2 + k - 1] = b[k]
  BY DEF PutOnTop
<1>1. PICK l, c, d : l = Len(b) /\ c = Contents(st, sp) /\ d = Contents(st2, sp2)
  OBVIOUS
<1>2. /\ c \in Bytes /\ d \in Bytes /\ l \in Nat /\ Len(c) = StackSize - sp /\ Len(d) = l + Len(c)
      /\ sp \in Nat /\ sp2 \in Nat /\ StackSize \in Nat /\ sp <= StackSize /\ sp2 = sp - l
  <2>1. c \in Bytes /\ Len(c) = StackSize - sp /\ sp \in Nat /\ StackSize \in Nat /\ StackSize - sp \in Nat
    BY <1>0, <1>1, ContentsAreBytes
  <2>2. d \in Bytes /\ Len(d) = StackSize - sp2 /\ sp2 \in Nat
    BY <1>0, <1>1, ContentsAreBytes
  <2>3. l \in Nat
    BY <1>0, <1>1 DEF Bytes
  <2> QED BY <1>0, <1>1, <2>1, <2>2, <2>3
<1>3. /\ b \o c \in Bytes /\ Len(b \o c) = l + Len(c)
      /\ \A i \in 1 .. l + Len(c) : (b \o c)[i] = IF i <= l THEN b[i] ELSE c[i - l]
  BY ZenonT(40), <1>0, <1>1, <1>2, ConcatProperties DEF Bytes
<1>4. ASSUME NEW i \in 1 .. l + Len(c) PROVE d[i] = (b \o c)[i]
  <2>1. d[i] = st2[sp2 + i - 1]
    BY <1>1, <1>2 DEF Contents
  <2>2. CASE i <= l
    <3>1. i \in 1 .. Len(b)
      BY <1>1, <1>2, <2>2
    <3> QED BY <1>0, <1>3, <2>1, <2>2, <3>1
  <2>3. CASE i > l
    <3>1. /\ sp2 + i - 1 \in sp .. StackSize - 1 /\ i - l \in 1 .. StackSize - sp
          /\ sp2 + i - 1 = sp + (i - l) - 1 /\ ~ (i <= l)
      <4>1. PICK m \in Nat : m = Len(c) /\ m = StackSize - sp
        BY <1>2
      <4>2. i \in 1 .. l + m
        BY <4>1
      <4>3. PICK x \in 1 .. m : x = i - l /\ i = l + x
        BY <1>2, <2>3, <4>1, <4>2
      <4>4. sp2 + i - 1 = sp + x - 1
        BY <1>2, <4>3
      <4>5. sp + x - 1 \in sp .. StackSize - 1
        BY <1>2, <4>1, <4>3
      <4>6. ~ (i <= l)
        BY <1>2, <4>3
      <4> QED BY <4>1, <4>3, <4>4, <4>5, <4>6
    <3>2. c[i - l] = st[sp + (i - l) - 1]
      BY <1>1, <3>1 DEF Contents
    <3> QED BY <1>0, <1>3, <2>1, <3>1, <3>2
  <2>4. i <= l \/ i > l
    <3>1. PICK m \in Nat : m = Len(c)
      BY <1>2
    <3>2. i \in 1 .. l + m
      BY <3>1
    <3> QED BY <1>2, <3>1, <3>2
  <2> QED BY <2>2, <2>3, <2>4
<1>5. d = b \o c
  BY <1>2, <1>3, <1>4, SeqEqual DEF Bytes
<1> QED BY <1>1, <1>5

(* The stack holds b and, below it, c.                                     *)
Holds(st, sp, b, c) ==
  IsStack(st, sp) /\ b \in Bytes /\ c \in Bytes /\ Contents(st, sp) = b \o c

(* When the stack starts with b, moving the pointer past it leaves the rest.*)
LEMMA ContentsShrink ==
  ASSUME NEW st, NEW sp, NEW b, NEW c, Holds(st, sp, b, c)
  PROVE  /\ Len(b) \in Nat /\ IsStack(st, sp + Len(b)) /\ Contents(st, sp + Len(b)) = c
         /\ \A k \in 1 .. Len(b) : st[sp + k - 1] = b[k]
<1>0. IsStack(st, sp) /\ b \in Bytes /\ c \in Bytes /\ Contents(st, sp) = b \o c
  BY DEF Holds
<1>1. PICK l, all : l = Len(b) /\ all = Contents(st, sp)
  OBVIOUS
<1>2. /\ all \in Bytes /\ Len(all) = StackSize - sp /\ sp \in Nat /\ StackSize \in Nat
      /\ StackSize - sp \in Nat
  BY <1>0, <1>1, ContentsAreBytes
<1>3. /\ l \in Nat /\ Len(c) \in Nat /\ Len(all) = l + Len(c)
      /\ \A i \in 1 .. l + Len(c) : all[i] = IF i <= l THEN b[i] ELSE c[i - l]
  <2>1. l \in Nat /\ Len(c) \in Nat
    BY <1>0, <1>1 DEF Bytes
  <2> QED BY <1>0, <1>1, <2>1, ConcatProperties DEF Bytes
<1>4. sp + l \in 0 .. StackSize /\ StackSize - (sp + l) = Len(c)
  BY <1>2, <1>3
<1>5. \A i \in 1 .. l + Len(c) : all[i] = st[sp + i - 1]
  BY <1>1, <1>2, <1>3 DEF Contents
<1>6. ASSUME NEW k \in 1 .. l PROVE st[sp + k - 1] = b[k]
  <2>1. k \in 1 .. l + Len(c) /\ k <= l
    BY <1>3
  <2> QED BY <1>3, <1>5, <2>1
<1>7. IsStack(st, sp + l)
  BY <1>0, <1>4 DEF IsStack
<1>8. PICK rest : rest = Contents(st, sp + l)
  OBVIOUS
<1>9. rest \in Bytes /\ Len(rest) = Len(c)
  BY <1>4, <1>7, <1>8, ContentsAreBytes
<1>10. ASSUME NEW i \in 1 .. Len(rest) PROVE rest[i] = c[i]
  <2>1. rest[i] = st[(sp + l) + i - 1]
    BY <1>4, <1>8, <1>9 DEF Contents
  <2>2. l + i \in 1 .. l + Len(c) /\ ~ (l + i <= l) /\ (l + i) - l = i
        /\ sp + (l + i) - 1 = (sp + l) + i - 1
    BY <1>2, <1>3, <1>9
  <2> QED BY <1>3, <1>5, <2>1, <2>2
<1>11. rest = c
  BY <1>0, <1>9, <1>10, SeqEqual DEF Bytes
<1> QED BY <1>1, <1>3, <1>6, <1>7, <1>8, <1>11
-----------------------------------------------------------------------------
(* The inductive invariant: beside what StackHoldsPushed says, the history *)
(* is one of pushes of this program and the stack pointer is in the stack. *)
DInv ==
  /\ IsStack(stack, stackPointer)
  /\ pushed \in Seq(Pushes)
  /\ PushBytes(pushed, Len(pushed)) = Contents(stack, stackPointer)

LEMMA BytesOfPushes == \A k : BytesOf(k) = PushBytes(pushed, k)
BY DEF BytesOf, PushBytes

LEMMA PushesHaveBytes ==
  ASSUME NEW p \in Pushes
  PROVE  p.value \in Values /\ p.value.bytes \in Bytes
BY PushAssumption, ValueBytes DEF Bytes

(* The pushes on the stack, the first k of them and the others.            *)
LEMMA SplitPushed ==
  ASSUME DInv, NEW k \in 0 .. Len(pushed)
  PROVE  LET others == SubSeq(pushed, k + 1, Len(pushed)) IN
         /\ PushBytes(pushed, k) \in Bytes /\ PushBytes(others, Len(others)) \in Bytes
         /\ others \in Seq(Pushes) /\ Len(others) = Len(pushed) - k
         /\ Contents(stack, stackPointer) = PushBytes(pushed, k) \o PushBytes(others, Len(others))
<1>1. PICK ps, n, qs, m : /\ ps = pushed /\ n = Len(ps) /\ qs = SubSeq(ps, k + 1, n)
                          /\ m = n - k
  OBVIOUS
<1>2. /\ ps \in Seq(Pushes) /\ n \in Nat /\ DOMAIN ps = 1 .. n /\ k \in 0 .. n /\ m \in Nat
      /\ \A i \in 1 .. n : ps[i] \in Pushes
  BY <1>1 DEF DInv
<1>3. qs \in Seq(Pushes) /\ Len(qs) = m /\ DOMAIN qs = 1 .. m /\ \A i \in 1 .. m : qs[i] = ps[k + i]
  <2>1. /\ k + 1 \in Int /\ n \in Int /\ \A i \in k + 1 .. n : ps[i] \in Pushes
    BY <1>2
  <2>2. /\ qs \in Seq(Pushes)
        /\ Len(qs) = IF k + 1 <= n THEN n - (k + 1) + 1 ELSE 0
        /\ \A i \in 1 .. n - (k + 1) + 1 : qs[i] = ps[(k + 1) + i - 1]
    BY <1>1, <2>1, SubSeqProperties
  <2>3. Len(qs) = m /\ n - (k + 1) + 1 = m /\ \A i \in 1 .. m : (k + 1) + i - 1 = k + i
    BY <1>1, <1>2, <2>2
  <2> QED BY <2>2, <2>3
<1>4. /\ \A i \in 1 .. n : ps[i].value.bytes \in Bytes
      /\ \A i \in 1 .. m : qs[i].value.bytes \in Bytes
  BY <1>2, <1>3, PushesHaveBytes
<1>5. PushBytes(ps, k) \in Bytes
  BY <1>2, <1>4, PushBytesAreBytes
<1>6. PushBytes(qs, m) \in Bytes
  <2>1. \A j \in 0 .. m : PushBytes(qs, j) \in Bytes
    BY <1>2, <1>3, <1>4, PushBytesAreBytes
  <2> QED BY <1>2, <2>1
<1>7. PushBytes(ps, n) = PushBytes(ps, k) \o PushBytes(qs, m)
  <2>1. DOMAIN qs = 1 .. n - k /\ \A i \in 1 .. n - k : qs[i] = ps[k + i]
    BY <1>1, <1>3
  <2>2. PushBytes(ps, n) = PushBytes(ps, k) \o PushBytes(qs, n - k)
    BY <1>2, <1>4, <2>1, PushBytesSplit
  <2> QED BY <1>1, <2>2
<1> QED BY <1>1, <1>3, <1>5, <1>6, <1>7 DEF DInv

LEMMA FirstPushBytes ==
  ASSUME NEW ps \in Seq(Pushes), ps # <<>>
  PROVE  PushBytes(ps, 1) = ps[1].value.bytes /\ ps[1] \in Pushes
<1>1. 1 \in DOMAIN ps /\ \A i \in DOMAIN ps : ps[i] \in Pushes
  OBVIOUS
<1>2. \A i \in DOMAIN ps : ps[i].value.bytes \in Bytes
  BY <1>1, PushesHaveBytes
<1>3. PICK z \in Nat : z = 0 /\ z + 1 = 1
  OBVIOUS
<1>4. PushBytes(ps, 1) = <<>> \o ps[1].value.bytes
  <2>1. z + 1 \in DOMAIN ps
    BY <1>1, <1>3
  <2>2. PushBytes(ps, 0) = <<>> /\ PushBytes(ps, z + 1) = PushBytes(ps, z) \o ps[z + 1].value.bytes
    BY <1>2, <2>1, PushBytesStep
  <2> QED BY <1>3, <2>2
<1>5. <<>> \o ps[1].value.bytes = ps[1].value.bytes
  BY <1>1, <1>2, ConcatEmptySeq DEF Bytes
<1> QED BY <1>1, <1>4, <1>5

(* A push brings the bytes of its operand, in front of the others.         *)
LEMMA DisciplinedPushInv ==
  ASSUME DInv, NEW p \in Pushes, DisciplinedPush(p)
  PROVE  DInv'
<1>1. PICK b : b = p.value.bytes
  OBVIOUS
<1>2. b \in Bytes
  BY <1>1, PushesHaveBytes
<1>3. CASE pushValue(b) /\ status' = "running"
  <2>1. pushed' = <<p>> \o pushed
    BY <1>3 DEF DisciplinedPush, Keeps
  <2>2. /\ stack' \in [0 .. StackSize - 1 -> Byte]
        /\ stackPointer' \in 0 .. StackSize /\ stackPointer' = stackPointer - Len(b)
        /\ \A a \in stackPointer .. StackSize - 1 : stack'[a] = stack[a]
        /\ \A k \in 1 .. Len(b) : stack'[stackPointer' + k - 1] = b[k]
    BY <1>2, <1>3, PushWrites DEF DInv, IsStack, Bytes
  <2>3. PICK st, sp, st2, sp2 : /\ st = stack /\ sp = stackPointer
                                /\ st2 = stack' /\ sp2 = stackPointer'
    OBVIOUS
  <2>4. IsStack(st, sp) /\ IsStack(st2, sp2)
    BY <2>2, <2>3 DEF DInv, IsStack
  <2>5. Contents(st2, sp2) = b \o Contents(st, sp)
    <3>1. PutOnTop(st, sp, b, st2, sp2)
      BY <1>2, <2>2, <2>3, <2>4 DEF PutOnTop
    <3> QED BY <3>1, ContentsGrow
  <2>6. PICK ps, n, qs : ps = pushed /\ n = Len(ps) /\ qs = <<p>> \o ps
    OBVIOUS
  <2>7. ps \in Seq(Pushes) /\ n \in Nat /\ DOMAIN ps = 1 .. n
    BY <2>6 DEF DInv
  <2>8. /\ qs \in Seq(Pushes) /\ Len(qs) = n + 1 /\ DOMAIN qs = 1 .. n + 1 /\ qs # <<>>
        /\ qs[1] = p /\ \A i \in 1 .. n : ps[i] = qs[1 + i]
    <3>1. <<p>> \in Seq(Pushes) /\ Len(<<p>>) = 1 /\ <<p>>[1] = p
      OBVIOUS
    <3>2. /\ qs \in Seq(Pushes) /\ Len(qs) = 1 + n
          /\ \A i \in 1 .. 1 + n : qs[i] = IF i <= 1 THEN <<p>>[i] ELSE ps[i - 1]
      BY <2>6, <2>7, <3>1, ConcatProperties
    <3>3. DOMAIN qs = 1 .. n + 1 /\ qs # <<>> /\ 1 + n = n + 1
      BY <2>7, <3>2
    <3>4. qs[1] = p
      BY <2>7, <3>1, <3>2
    <3>5. ASSUME NEW i \in 1 .. n PROVE ps[i] = qs[1 + i]
      <4>1. 1 + i \in 1 .. 1 + n /\ ~ (1 + i <= 1) /\ (1 + i) - 1 = i
        BY <2>7
      <4> QED BY <3>2, <4>1
    <3> QED BY <3>2, <3>3, <3>4, <3>5
  <2>9. PushBytes(qs, n + 1) = b \o PushBytes(ps, n)
    <3>1. PICK m : m = n + 1
      OBVIOUS
    <3>2. \A i \in 1 .. m : qs[i].value.bytes \in Bytes
      <4>1. \A i \in 1 .. m : qs[i] \in Pushes
        BY <2>7, <2>8, <3>1
      <4> QED BY <4>1, PushesHaveBytes
    <3>3. m \in Nat /\ 1 \in 0 .. m /\ m - 1 = n /\ DOMAIN qs = 1 .. m
      BY <2>7, <2>8, <3>1
    <3>4. /\ DOMAIN ps = 1 .. m - 1 /\ \A i \in 1 .. m - 1 : ps[i] = qs[1 + i]
      BY <2>7, <2>8, <3>3
    <3>5. PushBytes(qs, m) = PushBytes(qs, 1) \o PushBytes(ps, m - 1)
      BY ZenonT(40), <3>2, <3>3, <3>4, PushBytesSplit
    <3>6. PushBytes(qs, 1) = b
      BY <1>1, <2>8, FirstPushBytes
    <3> QED BY <3>1, <3>3, <3>5, <3>6
  <2>10. PushBytes(ps, n) = Contents(st, sp)
    BY <2>3, <2>6 DEF DInv
  <2>11. pushed' = qs
    BY <2>1, <2>6
  <2>12. PushBytes(qs, Len(qs)) = Contents(st2, sp2)
    BY <2>5, <2>8, <2>9, <2>10
  <2> QED BY <2>3, <2>4, <2>8, <2>11, <2>12 DEF DInv, Contents, PushBytes, IsStack
<1>4. CASE Throw("stack overflow")
  <2>1. UNCHANGED <<stack, stackPointer, pushed>>
    BY <1>4 DEF DisciplinedPush, Throw, Keeps
  <2> QED BY <2>1 DEF DInv, Contents, PushBytes, IsStack
<1> QED BY <1>1, <1>3, <1>4 DEF DisciplinedPush, Push

(* A pop or a setsp takes the first k pushes off.                          *)
LEMMA TakeOff ==
  ASSUME DInv, NEW k \in 0 .. Len(pushed), stack' = stack,
         stackPointer' = stackPointer + Len(PushBytes(pushed, k)),
         pushed' = SubSeq(pushed, k + 1, Len(pushed))
  PROVE  DInv'
<1>1. PICK st, sp, b, qs, c : /\ st = stack /\ sp = stackPointer /\ b = PushBytes(pushed, k)
                              /\ qs = SubSeq(pushed, k + 1, Len(pushed)) /\ c = PushBytes(qs, Len(qs))
  OBVIOUS
<1>2. b \in Bytes /\ c \in Bytes /\ qs \in Seq(Pushes) /\ Contents(st, sp) = b \o c
  BY <1>1, SplitPushed
<1>3. IsStack(st, sp)
  BY <1>1 DEF DInv
<1>4. IsStack(st, sp + Len(b)) /\ Contents(st, sp + Len(b)) = c
  <2>1. Holds(st, sp, b, c)
    BY <1>2, <1>3 DEF Holds
  <2> QED BY <2>1, ContentsShrink
<1>5. stack' = st /\ stackPointer' = sp + Len(b) /\ pushed' = qs
  BY <1>1
<1> QED BY <1>1, <1>2, <1>4, <1>5 DEF DInv, Contents, PushBytes, IsStack

LEMMA KeepInv ==
  ASSUME DInv, UNCHANGED <<stack, stackPointer, pushed>>
  PROVE  DInv'
BY DEF DInv, Contents, PushBytes, IsStack

(* What a pop finds on top is what the last push put there.                *)
LEMMA PopFinds ==
  ASSUME Typed, DInv, DisciplinedPop
  PROVE  LET p == Head(pushed) IN
         /\ p \in Pushes /\ PopFits(p.suffix) /\ TopBytes(p.suffix) = p.value.bytes
         /\ PushBytes(pushed, 1) = p.value.bytes /\ sizeOfType[p.suffix] = Len(p.value.bytes)
         /\ 1 \in 0 .. Len(pushed) /\ Tail(pushed) = SubSeq(pushed, 1 + 1, Len(pushed))
<1>1. PICK ps, p, b, n, st, sp : /\ ps = pushed /\ p = Head(ps) /\ b = p.value.bytes
                                 /\ n = sizeOfType[p.suffix] /\ st = stack /\ sp = stackPointer
  OBVIOUS
<1>2. ps \in Seq(Pushes) /\ ps # <<>> /\ IsStack(st, sp)
  BY <1>1 DEF DInv, DisciplinedPop
<1>3. p = ps[1] /\ 1 \in 0 .. Len(ps) /\ Tail(ps) = SubSeq(ps, 1 + 1, Len(ps))
  <2>1. Tail(ps) = SubSeq(ps, 2, Len(ps))
    BY <1>2, TailIsSubSeq
  <2> QED BY <1>1, <1>2, <2>1
<1>4. PushBytes(ps, 1) = b /\ p \in Pushes
  BY <1>1, <1>2, <1>3, FirstPushBytes
<1>5. n \in Nat /\ b \in [1 .. n -> Byte] /\ b \in Bytes
  <2>1. p.value \in Values /\ p.suffix = p.value.type
    BY <1>4, PushAssumption DEF Typed
  <2>2. p.value.type \in Type /\ b \in [1 .. n -> Byte]
    BY <1>1, <2>1, StackAssumption DEF IsValue
  <2> QED BY <1>1, <1>4, <2>1, <2>2, SizeOfTypeIsNat, PushesHaveBytes
<1>6. Len(b) = n
  BY <1>5
<1>7. PICK c \in Bytes : Contents(st, sp) = b \o c
  BY <1>1, <1>3, <1>4, SplitPushed
<1>8. IsStack(st, sp + n) /\ \A k \in 1 .. n : st[sp + k - 1] = b[k]
  <2>1. Holds(st, sp, b, c)
    BY <1>2, <1>5, <1>7 DEF Holds
  <2>2. IsStack(st, sp + Len(b)) /\ \A k \in 1 .. Len(b) : st[sp + k - 1] = b[k]
    BY <2>1, ContentsShrink
  <2> QED BY <1>6, <2>2
<1>9. sp + n <= StackSize
  BY <1>8, StackAssumption DEF IsStack
<1>10. [k \in 1 .. n |-> st[sp + k - 1]] = b
  BY <1>5, <1>8
<1> QED BY <1>1, <1>3, <1>4, <1>6, <1>9, <1>10 DEF PopFits, TopBytes

LEMMA DisciplinedPopInv ==
  ASSUME Typed, DInv, DisciplinedPop
  PROVE  DInv'
<1>1. PICK p : p = Head(pushed)
  OBVIOUS
<1>2. /\ PopFits(p.suffix) /\ PushBytes(pushed, 1) = p.value.bytes
      /\ sizeOfType[p.suffix] = Len(p.value.bytes)
      /\ 1 \in 0 .. Len(pushed) /\ Tail(pushed) = SubSeq(pushed, 1 + 1, Len(pushed))
  BY <1>1, PopFinds
<1>3. /\ stack' = stack /\ stackPointer' = stackPointer + sizeOfType[p.suffix]
      /\ status' = "running" /\ pushed' = Tail(pushed)
  BY <1>1, <1>2 DEF DisciplinedPop, Pop, popValue, Keeps
<1>4. stackPointer' = stackPointer + Len(PushBytes(pushed, 1))
  BY <1>2, <1>3
<1>5. pushed' = SubSeq(pushed, 1 + 1, Len(pushed))
  BY <1>2, <1>3
<1> QED BY <1>2, <1>3, <1>4, <1>5, TakeOff

LEMMA DisciplinedRestoreInv ==
  ASSUME DInv, NEW k \in 1 .. Len(pushed), DisciplinedRestore(k)
  PROVE  DInv'
<1>1. PICK sp : sp = stackPointer + Len(PushBytes(pushed, k))
  OBVIOUS
<1>2. k \in 0 .. Len(pushed)
  BY DEF DInv
<1>3. Setsp(sp) /\ pushed' = IF Keeps THEN SubSeq(pushed, k + 1, Len(pushed)) ELSE pushed
  BY <1>1, BytesOfPushes DEF DisciplinedRestore
<1>4. CASE stackPointer' = sp % Sizes /\ stack' = stack /\ status' = "running"
  <2>1. pushed' = SubSeq(pushed, k + 1, Len(pushed))
    BY <1>3, <1>4 DEF Keeps
  <2>2. sp % Sizes = sp
    <3>1. PICK top, others : /\ top = PushBytes(pushed, k)
                             /\ others = SubSeq(pushed, k + 1, Len(pushed))
      OBVIOUS
    <3>2. PICK rest : rest = PushBytes(others, Len(others))
      OBVIOUS
    <3>3. top \in Bytes /\ rest \in Bytes /\ Contents(stack, stackPointer) = top \o rest
      BY <1>2, <3>1, <3>2, SplitPushed
    <3>4. Len(top) \in Nat /\ Len(rest) \in Nat /\ Len(top \o rest) = Len(top) + Len(rest)
      BY <3>3 DEF Bytes
    <3>5. Len(Contents(stack, stackPointer)) = StackSize - stackPointer
      BY ContentsAreBytes DEF DInv
    <3>6. StackSize \in Nat /\ Sizes \in Nat /\ StackSize < Sizes /\ stackPointer \in 0 .. StackSize
      BY StackAssumption DEF DInv, IsStack
    <3>7. sp \in 0 .. Sizes - 1
      BY <1>1, <3>1, <3>3, <3>4, <3>5, <3>6
    <3>8. Sizes \in Nat \ {0}
      BY <3>6
    <3> QED BY <3>7, <3>8, SMT
  <2> QED BY <1>1, <1>2, <1>4, <2>1, <2>2, TakeOff
<1>5. CASE Throw("stack pointer out of range")
  BY <1>3, <1>5, KeepInv DEF Throw, Keeps
<1> QED BY <1>3, <1>4, <1>5 DEF Setsp

LEMMA DisciplinedNextInv ==
  ASSUME Typed, DInv, [DisciplinedNext]_disciplinedVars
  PROVE  DInv'
<1>1. CASE DisciplinedCall
  BY <1>1, KeepInv DEF DisciplinedCall, Call, Tailcall, SetFlags, Ret, Throw
<1>2. CASE UNCHANGED disciplinedVars
  BY <1>2, KeepInv DEF disciplinedVars, vars
<1>3. CASE DisciplinedNext
  BY <1>1, <1>3, DisciplinedPushInv, DisciplinedPopInv, DisciplinedRestoreInv DEF DisciplinedNext
<1> QED BY <1>2, <1>3

LEMMA DisciplinedInitInv == DisciplinedInit => DInv
<1> SUFFICES ASSUME DisciplinedInit PROVE DInv
  OBVIOUS
<1>1. /\ stack = [a \in 0 .. StackSize - 1 |-> 0] /\ stackPointer = StackSize /\ pushed = <<>>
  BY DEF DisciplinedInit, Init
<1>2. IsStack(stack, stackPointer)
  BY <1>1, StackAssumption DEF IsStack, Byte
<1>3. Contents(stack, stackPointer) = <<>>
  <2>1. 1 .. StackSize - stackPointer = {}
    BY <1>1, StackAssumption
  <2> QED BY <2>1 DEF Contents
<1>4. PushBytes(pushed, Len(pushed)) = <<>>
  <2>1. Len(pushed) = 0 /\ [i \in 1 .. 0 |-> pushed[i].value.bytes] = <<>>
    BY <1>1
  <2>2. FlattenSeq(<<>>) = <<>>
    BY DEF FlattenSeq
  <2> QED BY <2>1, <2>2 DEF PushBytes
<1>5. pushed \in Seq(Pushes)
  BY <1>1
<1> QED BY <1>2, <1>3, <1>4, <1>5 DEF DInv
-----------------------------------------------------------------------------
(* "pops the top value": whatever the pushes, calls and restores between,  *)
(* the stack holds what was pushed and not popped yet and nothing else.    *)
THEOREM StackIsWhatWasPushed ==
  ASSUME Typed
  PROVE  DisciplinedSpec => []StackHoldsPushed
<1>1. DInv => StackHoldsPushed
  BY BytesOfPushes DEF DInv, StackHoldsPushed, Contents
<1>2. DInv /\ [DisciplinedNext]_disciplinedVars => DInv'
  BY DisciplinedNextInv
<1> QED BY DisciplinedInitInv, <1>1, <1>2, PTL DEF DisciplinedSpec

(* A pop.T writes to its register the Value of the push.T it answers.      *)
THEOREM PopsReturnPushes ==
  ASSUME Typed
  PROVE  DisciplinedSpec => PopReturnsPushed
<1>1. ASSUME DInv, [DisciplinedNext]_disciplinedVars, DisciplinedPop, Keeps
      PROVE  popped' = Head(pushed).value
  <2>1. PICK p : p = Head(pushed)
    OBVIOUS
  <2>2. p \in Pushes /\ TopBytes(p.suffix) = p.value.bytes
    BY <1>1, <2>1, PopFinds
  <2>3. popped' = [type |-> p.suffix, bytes |-> TopBytes(p.suffix)]
    BY <1>1, <2>1 DEF DisciplinedPop
  <2>4. p.value \in Values /\ p.suffix = p.value.type
    BY <2>2, PushAssumption DEF Typed
  <2>5. p.value = [type |-> p.value.type, bytes |-> p.value.bytes]
    BY <2>4, StackAssumption DEF IsValue
  <2> QED BY <2>1, <2>2, <2>3, <2>4, <2>5
<1>2. DInv /\ [DisciplinedNext]_disciplinedVars => DInv'
  BY DisciplinedNextInv
<1>3. DInv /\ [DisciplinedNext]_disciplinedVars
        => (DisciplinedPop /\ Keeps => popped' = Head(pushed).value)
  BY <1>1
<1> QED BY DisciplinedInitInv, <1>2, <1>3, PTL DEF DisciplinedSpec, PopReturnsPushed
=============================================================================
