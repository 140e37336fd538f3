---------------------------- MODULE Interpreter -----------------------------
(***************************************************************************)
(* Interpreter::call, uasm run: the control flow of a program, its calls,  *)
(* its conditions and the arithmetic that feeds them, and the values it    *)
(* keeps in memory.  Each call has a frame with registers and flags of its *)
(* own; the memory is one for all.  The heap and the VM stack are in Heap, *)
(* CallFrames and VmStack, the other integer instructions in IntegerUnit,  *)
(* text in TextUnit, vectors in VectorUnit; floats are left out.           *)
(*                                                                         *)
(* An operand has a kind, "reg", "imm" or "sym", and its register, number  *)
(* or name in .is.  Functions, blocks and instructions count from 1.       *)
(***************************************************************************)
EXTENDS IntegerOps

CONSTANTS
  Regs,      (* The registers the programs name.                             *)
  MaxCalls,  (* Bound: the calls the host's own stack has room for.          *)
  MemorySize (* The bytes of memory_: 2^20.                                  *)

ASSUME InterpreterAssumption ==
  /\ Regs \subseteq Nat /\ MaxCalls \in Nat \ {0}
  /\ {"i32", "i64", "ptr"} \subseteq DOMAIN Width
  /\ MemorySize \in Nat /\ MemorySize < 2^Width["ptr"]

VARIABLES
  program,   (* program_, which no instruction changes.                      *)
  frames,    (* The active calls, the running one last.                      *)
  memory,    (* The byte at each address.                                    *)
  result     (* What run() returned or threw.                                *)

vars == <<program, frames, memory, result>>

NoDest == -1
Pending == [kind |-> "pending"]

frame == Last(frames)
fn == program.functions[frame.fn]
block == fn.blocks[frame.block]
instr == block.instructions[frame.at]

Executing == result = Pending /\ frames # <<>>

Throw(what) ==
  /\ result' = [kind |-> "threw", what |-> what]
  /\ UNCHANGED <<program, frames, memory>>

At(ops) ==
  Executing /\ frame.at <= Len(block.instructions) /\ instr.op \in ops

(* The set instructions, and the comparisons, signed and unsigned, of two  *)
(* operands: into a register, or as a branch.                              *)
SetOps == {"seteq", "setne", "setlt", "setgt", "setle", "setge"}
CompareOps == {"cmpeq", "cmpne", "cmplt", "cmpgt", "cmple", "cmpge"}
CompareBranches == {"breq", "brne", "brlt", "brgt", "brle", "brge"}
UnsignedCompares == {"ucmplt", "ucmpgt", "ucmple", "ucmpge"}
UnsignedBranches == {"ubrlt", "ubrgt", "ubrle", "ubrge"}

FlagBranches == {"beq", "bne", "blt", "bgt", "ble", "bge"}
CarryBranches == {"bcarry", "bncarry", "bovf", "bnovf"}

NoOps ==
  {"nop", "breakpoint", "assume", "prefetch", "hint", "dbgloc", "trace", "probe", "noopt", "sideeffect"}

ReadsNone ==
  NoOps \cup SetOps \cup FlagBranches \cup CarryBranches
    \cup {"jmp", "setc", "setnc", "seto", "clro", "poison", "retvoid", "trap", "unreachable", "abort"}

(* The operands an instruction reads as values: a name there is an error.  *)
ReadOperands ==
  CASE instr.op \in {"call", "tailcall"} -> 2 .. Len(instr.operands)
    [] instr.op \in {"switch", "brz", "brnz"} -> {1}
    [] instr.op \in CompareBranches \cup UnsignedBranches -> {1, 2}
    [] instr.op \in ReadsNone -> {}
    [] OTHER -> DOMAIN instr.operands

ReadsSymbol == \E k \in ReadOperands : instr.operands[k].kind = "sym"

readOperand(k, type) ==
  LET operand == instr.operands[k]
  IN  IF operand.kind = "reg" THEN frame.regs[operand.is] ELSE fromInt128(type, operand.is)

Replace(f) == frames' = Append(Front(frames), f) /\ UNCHANGED <<program, result>>

Become(f) == Replace(f) /\ UNCHANGED memory

Continue(f) == Become([f EXCEPT !.at = @ + 1])

Writes(v) == Continue([frame EXCEPT !.regs[instr.dest] = v])

operand(k) == readOperand(k, instr.type).num

SymbolRead ==
  /\ Executing /\ frame.at <= Len(block.instructions)
  /\ instr.op \notin {"call", "tailcall"} /\ ReadsSymbol
  /\ Throw("symbol used as a value")
-----------------------------------------------------------------------------
(* mov copies a value with its dynamic type, and so do expect and freeze;  *)
(* the others make a value of the type of the instruction.                 *)

Mov == At({"mov", "expect", "freeze"}) /\ ~ ReadsSymbol /\ Writes(readOperand(1, instr.type))

Poison == At({"poison"}) /\ Writes(fromInt128(instr.type, 0))

Arith ==
  /\ At(BasicOps) /\ ~ ReadsSymbol
  /\ IF basicRefused(instr.op, instr.type, operand(1), operand(2))
     THEN Throw("arithmetic")
     ELSE Writes(fromInt128(instr.type, basic(instr.op, instr.type, operand(1), operand(2))))

Nop == At(NoOps) /\ Continue(frame)

AssertNonzero ==
  /\ At({"assert"}) /\ ~ ReadsSymbol
  /\ IF operand(1) = 0 THEN Throw("assertion failed") ELSE Continue(frame)
-----------------------------------------------------------------------------
(* The flags of a frame, and what reads them.                              *)

compare(x, y) == IF x < y THEN -1 ELSE IF x > y THEN 1 ELSE 0

unsignedCompare(type, x, y) == compare(unsignedOf(x, type), unsignedOf(y, type))

Cmp ==
  /\ At({"cmp"}) /\ ~ ReadsSymbol
  /\ Continue([frame EXCEPT !.cmpFlag = compare(operand(1), operand(2))])

Carrying ==
  /\ At({"addc", "subb"}) /\ ~ ReadsSymbol
  /\ LET ux == unsignedOf(operand(1), instr.type)
         uy == unsignedOf(operand(2), instr.type)
         c == IF frame.carryFlag THEN 1 ELSE 0
         r == IF instr.op = "addc" THEN addc(instr.type, ux, uy, c) ELSE subb(instr.type, ux, uy, c)
     IN  Continue([frame EXCEPT !.carryFlag = r.carry, !.regs[instr.dest] = fromInt128(instr.type, r.num)])

Overflowing ==
  /\ At(OverflowOps) /\ ~ ReadsSymbol
  /\ LET r == computeWithOverflow(instr.op, instr.type, operand(1), operand(2))
     IN  IF overflowRefused(instr.op, instr.type, operand(1), operand(2))
         THEN Throw("checked arithmetic")
         ELSE Continue([frame EXCEPT !.overflowFlag = r.over,
                                     !.regs[instr.dest] = fromInt128(instr.type, r.num)])

Clro == At({"clro"}) /\ Continue([frame EXCEPT !.overflowFlag = FALSE, !.carryFlag = FALSE])

(* Fault: brle is brlt. *)
compareResultStrict(op, flag) ==
  CASE op \in {"seteq", "cmpeq", "breq"} -> flag = 0
    [] op \in {"setne", "cmpne", "brne"} -> flag # 0
    [] op \in {"setlt", "cmplt", "brlt", "ucmplt", "ubrlt", "brle"} -> flag < 0
    [] op \in {"setgt", "cmpgt", "brgt", "ucmpgt", "ubrgt"} -> flag > 0
    [] op \in {"setle", "cmple", "ucmple", "ubrle"} -> flag <= 0
    [] op \in {"setge", "cmpge", "brge", "ucmpge", "ubrge"} -> flag >= 0

compareResult(op, flag) ==
  CASE op \in {"seteq", "cmpeq", "breq"} -> flag = 0
    [] op \in {"setne", "cmpne", "brne"} -> flag # 0
    [] op \in {"setlt", "cmplt", "brlt", "ucmplt", "ubrlt"} -> flag < 0
    [] op \in {"setgt", "cmpgt", "brgt", "ucmpgt", "ubrgt"} -> flag > 0
    [] op \in {"setle", "cmple", "brle", "ucmple", "ubrle"} -> flag <= 0
    [] op \in {"setge", "cmpge", "brge", "ucmpge", "ubrge"} -> flag >= 0

makeBool(b) == fromInt128("i32", IF b THEN 1 ELSE 0)

SetFromFlag ==
  \/ At(SetOps) /\ Writes(makeBool(compareResult(instr.op, frame.cmpFlag)))
  \/ At({"setc"}) /\ Writes(makeBool(frame.carryFlag))
  \/ At({"setnc"}) /\ Writes(makeBool(~ frame.carryFlag))
  \/ At({"seto"}) /\ Writes(fromInt128(instr.type, IF frame.overflowFlag THEN 1 ELSE 0))

(* Whether the two operands are as the instruction asks. *)
Compares ==
  compareResult(instr.op, IF instr.op \in UnsignedCompares \cup UnsignedBranches
                          THEN unsignedCompare(instr.type, operand(1), operand(2))
                          ELSE compare(operand(1), operand(2)))

SetFromOperands ==
  /\ At(CompareOps \cup UnsignedCompares \cup {"seteqz", "setnez"}) /\ ~ ReadsSymbol
  /\ \/ At(CompareOps \cup UnsignedCompares) /\ Writes(makeBool(Compares))
     \/ At({"seteqz"}) /\ Writes(makeBool(operand(1) = 0))
     \/ At({"setnez"}) /\ Writes(makeBool(operand(1) # 0))

Select ==
  /\ At({"select"}) /\ ~ ReadsSymbol
  /\ Writes(readOperand(IF readOperand(1, "i32").num # 0 THEN 2 ELSE 3, instr.type))
-----------------------------------------------------------------------------
(* Conversions.  The bits of a value are as many as its own type has; the  *)
(* others of the union are 0.                                              *)

BitsOfType(type) == IF type = "void" THEN 0 ELSE Width[type]
sizeOfType(type) == BitsOfType(type) \div ByteBits

bits(v) == AsUnsigned(v.num, BitsOfType(v.type))

bitcast(type, from, b) ==
  fromInt128(type, AsUnsigned(b, IF BitsOfType(from) < Width[type] THEN BitsOfType(from) ELSE Width[type]))

Convert ==
  /\ At({"convert", "cast", "bitconv", "sext", "zext", "itrunc"}) /\ ~ ReadsSymbol
  /\ LET v == readOperand(1, instr.type)
     IN  Writes(CASE instr.op = "convert" -> fromInt128(instr.type, v.num)
                  [] instr.op = "cast"    -> bitcast(instr.type, v.type, bits(v))
                  [] instr.op = "bitconv" -> bitcast(instr.type2, instr.type, bits(v))
                  [] instr.op = "sext"    -> fromInt128(instr.type2, widening("sext", instr.type, v.num, 0))
                  [] OTHER -> fromInt128(instr.type2, widening("zext", instr.type, v.num, 0)))
-----------------------------------------------------------------------------
(* Pointers: the low bits of whatever value the operand has.               *)

pointer(k) == AsUnsigned(bits(readOperand(k, "ptr")), Width["ptr"])

(* getelementptr may have three operands: its offset is 0 then.            *)
Pointer ==
  /\ At(PointerOps) /\ ~ ReadsSymbol
  /\ LET n == [k \in 1 .. 4 |->
                 IF k \notin DOMAIN instr.operands THEN 0
                 ELSE IF k = 1 \/ instr.op = "ptrdiff" THEN pointer(k) ELSE readOperand(k, "i64").num]
     IN  IF pointerRefused(instr.op, n) THEN Throw("alignment")
         ELSE Writes(fromInt128(IF instr.op = "ptrdiff" THEN instr.type ELSE "ptr", pointerOp(instr.op, n)))

PointerNumber ==
  \/ At({"ptrtoint"}) /\ ~ ReadsSymbol /\ Writes(fromInt128(instr.type, pointer(1)))
  \/ At({"inttoptr"}) /\ ~ ReadsSymbol /\ Writes(fromInt128("ptr", operand(1)))

ComparePointers ==
  /\ At({"ptreq", "ptrne", "ptrlt", "ptrgt", "ptrisnull"}) /\ ~ ReadsSymbol
  /\ Writes(makeBool(CASE instr.op = "ptreq" -> pointer(1) = pointer(2)
                       [] instr.op = "ptrne" -> pointer(1) # pointer(2)
                       [] instr.op = "ptrlt" -> pointer(1) < pointer(2)
                       [] instr.op = "ptrgt" -> pointer(1) > pointer(2)
                       [] instr.op = "ptrisnull" -> pointer(1) = 0))
-----------------------------------------------------------------------------
(* Loads and stores.  A load reads a value of the type of the instruction; *)
(* a store writes the bytes of the value, which may be of another type.    *)

FieldLoads == {"fieldload", "loadv", "loadu"}
FieldStores == {"fieldstore", "storev", "storeu"}
Loads == FieldLoads \cup {"load", "arrayload"}
Stores == FieldStores \cup {"store", "arraystore"}

Offset ==
  CASE instr.op \in {"arrayload", "arraystore"} -> readOperand(2, "i64").num * sizeOfType(instr.type)
    [] \/ instr.op \in FieldLoads /\ Len(instr.operands) > 1
       \/ instr.op \in FieldStores /\ Len(instr.operands) > 2 -> readOperand(2, "i64").num
    [] OTHER -> 0

Address == AsUnsigned(pointer(1) + Offset, Width["ptr"])

(* An access that ends past the last address wraps, and passes the check:  *)
(* what the host makes of it is not defined, and nothing is said after it. *)
OutOfBounds(size) == AsUnsigned(Address + size, Width["ptr"]) > MemorySize
Inside(size) == Address + size <= MemorySize

Refused(size) ==
  \/ OutOfBounds(size) /\ Throw("out of bounds")
  \/ /\ ~ OutOfBounds(size) /\ ~ Inside(size)
     /\ result' = [kind |-> "undefined"]
     /\ UNCHANGED <<program, frames, memory>>

loadValue(addr, type) ==
  fromInt128(type, MapThenSumSet(LAMBDA b : memory[addr + b] * 2^(b * ByteBits), 0 .. sizeOfType(type) - 1))

(* Fault: as many bytes as the type of the instruction has. *)
storeCut(addr, v) ==
  [a \in DOMAIN memory |->
     IF a - addr \in 0 .. sizeOfType(instr.type) - 1 THEN Byte(bits(v), a - addr, ByteBits) ELSE memory[a]]

storeValue(addr, v) ==
  [a \in DOMAIN memory |->
     IF a - addr \in 0 .. sizeOfType(v.type) - 1 THEN Byte(bits(v), a - addr, ByteBits) ELSE memory[a]]

LoadValue ==
  /\ At(Loads) /\ ~ ReadsSymbol
  /\ \/ Refused(sizeOfType(instr.type))
     \/ Inside(sizeOfType(instr.type)) /\ Writes(loadValue(Address, instr.type))

StoredValue == readOperand(Len(instr.operands), instr.type)

StoreValue ==
  /\ At(Stores) /\ ~ ReadsSymbol
  /\ \/ Refused(sizeOfType(StoredValue.type))
     \/ /\ Inside(sizeOfType(StoredValue.type))
        /\ memory' = storeValue(Address, StoredValue)
        /\ Replace([frame EXCEPT !.at = @ + 1])
-----------------------------------------------------------------------------
(* Jumps.  The last block of a label is the one it names.                  *)

Labelled(label) == {b \in DOMAIN fn.blocks : fn.blocks[b].label = label}

JumpTo(label) ==
  IF Labelled(label) = {} THEN Throw("branch to unknown block")
  ELSE Become([frame EXCEPT !.block = Max(Labelled(label)), !.at = 1])

shouldBranch(op, flag) ==
  CASE op = "beq" -> flag = 0
    [] op = "bne" -> flag # 0
    [] op = "blt" -> flag < 0
    [] op = "bgt" -> flag > 0
    [] op = "ble" -> flag <= 0
    [] op = "bge" -> flag >= 0

Jmp == At({"jmp"}) /\ JumpTo(instr.operands[1].is)

(* A branch names its block last. *)
BranchIf(taken) ==
  \/ taken /\ JumpTo(Last(instr.operands).is)
  \/ ~ taken /\ Continue(frame)

Branch == At(FlagBranches) /\ BranchIf(shouldBranch(instr.op, frame.cmpFlag))

BranchOnCarry ==
  /\ At(CarryBranches)
  /\ BranchIf(CASE instr.op = "bcarry"  -> frame.carryFlag
                [] instr.op = "bncarry" -> ~ frame.carryFlag
                [] instr.op = "bovf"    -> frame.overflowFlag
                [] instr.op = "bnovf"   -> ~ frame.overflowFlag)

BranchOnOperands ==
  /\ At(CompareBranches \cup UnsignedBranches \cup {"brz", "brnz"}) /\ ~ ReadsSymbol
  /\ \/ At(CompareBranches \cup UnsignedBranches) /\ BranchIf(Compares)
     \/ At({"brz"}) /\ BranchIf(operand(1) = 0)
     \/ At({"brnz"}) /\ BranchIf(operand(1) # 0)

(* The first label is for every number that has no case of its own.        *)
Switch ==
  /\ At({"switch"}) /\ ~ ReadsSymbol
  /\ LET n == operand(1)
         cases == Len(instr.operands) - 2
     IN  JumpTo(instr.operands[IF BadIndex(n, cases) THEN 2 ELSE SizeT(n) + 3].is)

Trap == At({"trap", "unreachable", "abort"}) /\ Throw(instr.op)

FellOff ==
  /\ Executing /\ frame.at = Len(block.instructions) + 1
  /\ Throw("fell off the end of a block")
-----------------------------------------------------------------------------
(* Calls.  A tailcall is a call whose result the frame below returns: it   *)
(* stays on the host's stack, and only waits.                              *)

NewFrame(f, args) ==
  [fn |-> f, block |-> 1, at |-> 1, cmpFlag |-> 0, carryFlag |-> FALSE,
   overflowFlag |-> FALSE, waits |-> FALSE,
   regs |-> [r \in Regs |-> IF r < Len(args) THEN args[r + 1] ELSE NewValue]]

(* call(): below it the calls that are active.                             *)
call(p, f, args, below) ==
  CASE Len(args) # Len(p.functions[f].params) -> Throw("wrong number of arguments")
    [] p.functions[f].blocks = <<>> -> Throw("function has no blocks")
    [] OTHER -> /\ Len(below) < MaxCalls
                /\ frames' = Append(below, NewFrame(f, args))
                /\ UNCHANGED <<program, memory, result>>

Functions(p, name) == {f \in DOMAIN p.functions : p.functions[f].name = name}

callArgs == [k \in 1 .. Len(instr.operands) - 1 |-> readOperand(k + 1, "i64")]

CallNamed(below) ==
  CASE Functions(program, instr.operands[1].is) = {} -> Throw("call to unknown function")
    [] ReadsSymbol -> Throw("symbol used as a value")
    [] OTHER -> call(program, Max(Functions(program, instr.operands[1].is)), callArgs, below)

Call == At({"call"}) /\ CallNamed(frames)

Tailcall ==
  At({"tailcall"}) /\ CallNamed(Append(Front(frames), [frame EXCEPT !.waits = TRUE]))

Callindirect ==
  /\ At({"callindirect"}) /\ ~ ReadsSymbol
  /\ LET index == readOperand(1, "i64").num
     IN  IF BadIndex(index, Len(program.functions))
         THEN Throw("callindirect out of range")
         ELSE call(program, SizeT(index) + 1, callArgs, frames)

(* The call a frame is at: where its result goes.                          *)
CallOf(f) == program.functions[f.fn].blocks[f.block].instructions[f.at]

Received(f, v) ==
  LET d == CallOf(f).dest
  IN  [f EXCEPT !.at = @ + 1, !.regs = IF d = NoDest THEN @ ELSE [@ EXCEPT ![d] = v]]

(* A value returns through the frames that only wait.                      *)
Callers == {d \in 1 .. Len(frames) - 1 : ~ frames[d].waits}

Return(v) ==
  \/ /\ Callers = {}
     /\ frames' = <<>>
     /\ result' = [kind |-> "value", value |-> v]
     /\ UNCHANGED <<program, memory>>
  \/ /\ Callers # {}
     /\ frames' = Append(SubSeq(frames, 1, Max(Callers) - 1), Received(frames[Max(Callers)], v))
     /\ UNCHANGED <<program, memory, result>>

Ret == At({"ret"}) /\ ~ ReadsSymbol /\ Return(readOperand(1, instr.type))

RetVoid == At({"retvoid"}) /\ Return(VoidValue)
-----------------------------------------------------------------------------
(* run() of a program that was loaded. *)
Run(args) ==
  /\ result = Pending /\ frames = <<>>
  /\ call(program, program.entryIndex, args, <<>>)

Step ==
  \/ Mov \/ Poison \/ Arith \/ Nop \/ AssertNonzero
  \/ Cmp \/ Carrying \/ Overflowing \/ Clro \/ SetFromFlag \/ SetFromOperands \/ Select
  \/ Jmp \/ Branch \/ BranchOnCarry \/ BranchOnOperands \/ Switch \/ Trap \/ FellOff
  \/ Convert \/ Pointer \/ PointerNumber \/ ComparePointers \/ LoadValue \/ StoreValue
  \/ Call \/ Tailcall \/ Callindirect \/ Ret \/ RetVoid
  \/ SymbolRead
=============================================================================
