---------------------------- MODULE Arm64Encoder -----------------------------
(***************************************************************************)
(* arm64CompileFunction: the words a function is compiled to, and the      *)
(* image the linked functions make.  Every virtual register has a slot of  *)
(* the frame; branches are patched when the whole function is emitted, and *)
(* calls when the program is.                                              *)
(***************************************************************************)
EXTENDS CodeImage

CONSTANTS ArgRegs, ChunkBits, CondRange, FieldRange

NoDest == -1
Scratch0 == 9
Scratch1 == 10
Scratch2 == 11

(* emitLoadImm64: movz and three movk.                                     *)
LoadImm64(rd, imm) ==
  [k \in 1 .. 4 |-> [op  |-> IF k = 1 THEN "movz" ELSE "movk", rd |-> rd, hw |-> k - 1,
                     imm |-> (imm \div 2^(ChunkBits * (k - 1))) % 2^ChunkBits]]

(* The slot is put where its field is, and what does not fit runs into the *)
(* bits above: the first of them tells a load from a store, and with more  *)
(* it is another instruction.                                              *)
SlotAccess(op, rt, slot) ==
  <<[op   |-> CASE slot < FieldRange -> op
                [] FieldRange <= slot /\ slot < 2 * FieldRange -> "ldr"
                [] OTHER -> "other",
     rt   |-> rt,
     slot |-> slot % FieldRange]>>

Ldr(rt, slot) == SlotAccess("ldr", rt, slot)
Str(rt, slot) == SlotAccess("str", rt, slot)

LoadOperand(rd, operand) ==
  IF operand.kind = "reg" THEN Ldr(rd, operand.is) ELSE LoadImm64(rd, operand.is)

(* Fault: bge and bgt have each other's condition.                         *)
condCodeMixed ==
  [beq |-> 0, bne |-> 1, bge |-> 12, blt |-> 11, bgt |-> 10, ble |-> 13]

condCode ==
  [beq |-> 0, bne |-> 1, bge |-> 10, blt |-> 11, bgt |-> 12, ble |-> 13]

AluOp == [add |-> "add", sub |-> "sub", mul |-> "mul", div |-> "sdiv"]

NativeOps ==
  {"mov", "cmp", "jmp", "call", "ret", "retvoid"} \cup DOMAIN condCode \cup DOMAIN AluOp

Instructions(fn) == FlattenSeq([b \in DOMAIN fn.blocks |-> fn.blocks[b].instructions])

(* arm64IsSupported, for integer types and without syscalls.               *)
Supported(fn) == \A i \in ToSet(Instructions(fn)) : i.op \in NativeOps

(* The operands that are loaded, and the label or callee of the others.    *)
Loaded(i) ==
  CASE i.op = "call" -> 2 .. Min({Len(i.operands), ArgRegs + 1})
    [] i.op \in {"jmp"} \cup DOMAIN condCode -> {}
    [] OTHER -> DOMAIN i.operands

Labels(fn) == {fn.blocks[b].label : b \in DOMAIN fn.blocks}

Compilable(fn) ==
  /\ Supported(fn)
  /\ \A i \in ToSet(Instructions(fn)) :
       /\ \A k \in Loaded(i) : i.operands[k].kind # "sym"
       /\ i.op \in {"jmp"} \cup DOMAIN condCode => i.operands[1].is \in Labels(fn)
-----------------------------------------------------------------------------
(* The frame: a slot for each register up to the highest the function      *)
(* names, rounded up to 16 bytes.                                          *)
MaxReg(fn) ==
  Max({Len(fn.params)} \cup
      UNION {{i.dest + 1} \cup {i.operands[k].is + 1 :
                k \in {o \in DOMAIN i.operands : i.operands[o].kind = "reg"}} :
             i \in ToSet(Instructions(fn))})

FrameWords(fn) == 2 * ((MaxReg(fn) + 1) \div 2)

FrameSize(fn) == 8 * FrameWords(fn)

(* Neither moves sp when the frame is empty.  A size that does not fit its *)
(* field runs into the bits above: the first of them shifts the field by   *)
(* its own length, and with more it is another instruction.                *)
MoveSp(op, fn) ==
  LET size == FrameSize(fn)
      Move(words) == <<[op |-> op, words |-> words]>>
  IN  CASE size = 0 -> <<>>
        [] 0 < size /\ size < FieldRange -> Move(FrameWords(fn))
        [] FieldRange <= size /\ size < 2 * FieldRange ->
             Move(((size - FieldRange) * FieldRange) \div 8)
        [] OTHER -> <<[op |-> "other"]>>

Prologue(fn) ==
  <<[op |-> "stp"]>> \o MoveSp("subsp", fn)
    \o FlattenSeq([p \in 1 .. Min({Len(fn.params), ArgRegs}) |-> Str(p - 1, p - 1)])

(* Fault: the registers are restored before the frame is given up.         *)
EpilogueLate(fn) == <<[op |-> "ldp"]>> \o MoveSp("addsp", fn) \o <<[op |-> "ret"]>>

Epilogue(fn) == MoveSp("addsp", fn) \o <<[op |-> "ldp"], [op |-> "ret"]>>

Emitted(fn, i) ==
  CASE i.op = "mov" -> LoadOperand(Scratch0, i.operands[1]) \o Str(Scratch0, i.dest)
    [] i.op \in DOMAIN AluOp ->
         LoadOperand(Scratch0, i.operands[1]) \o LoadOperand(Scratch1, i.operands[2])
           \o <<[op |-> AluOp[i.op], rd |-> Scratch2, rn |-> Scratch0, rm |-> Scratch1]>>
           \o Str(Scratch2, i.dest)
    [] i.op = "cmp" ->
         LoadOperand(Scratch0, i.operands[1]) \o LoadOperand(Scratch1, i.operands[2])
           \o <<[op |-> "cmp", rn |-> Scratch0, rm |-> Scratch1]>>
    [] i.op = "jmp" -> <<[op |-> "b", label |-> i.operands[1].is]>>
    [] i.op \in DOMAIN condCode ->
         <<[op |-> "b.cond", cond |-> condCode[i.op], label |-> i.operands[1].is]>>
    [] i.op = "call" ->
         FlattenSeq([a \in 1 .. Min({Len(i.operands) - 1, ArgRegs}) |->
                       LoadOperand(a - 1, i.operands[a + 1])])
           \o <<[op |-> "bl", callee |-> i.operands[1].is]>>
           \o (IF i.dest = NoDest THEN <<>> ELSE Str(0, i.dest))
    [] i.op = "ret" -> LoadOperand(0, i.operands[1]) \o Epilogue(fn)
    [] i.op = "retvoid" -> Epilogue(fn)

(* The prologue and the blocks, one after the other.                       *)
Parts(fn) ==
  <<Prologue(fn)>> \o
    [b \in DOMAIN fn.blocks |->
       FlattenSeq([k \in DOMAIN fn.blocks[b].instructions |->
                     Emitted(fn, fn.blocks[b].instructions[k])])]

(* blockOffsets: the last block of a label is the one it names.            *)
BlockOffset(fn, parts, label) ==
  LET b == Max({c \in DOMAIN fn.blocks : fn.blocks[c].label = label})
  IN  Len(FlattenSeq(SubSeq(parts, 1, b)))

(* Fault: the distance is counted from the instruction after the branch.   *)
PatchedNext(w, to, at) ==
  CASE w.op = "b"      -> [op |-> "b", imm |-> (to - at - 1) % ImmRange]
    [] w.op = "b.cond" -> [op |-> "b.cond", cond |-> w.cond, imm |-> (to - at - 1) % CondRange]

(* pendingBranches: the distance from the branch to its block.             *)
Patched(w, to, at) ==
  CASE w.op = "b"      -> [op |-> "b", imm |-> (to - at) % ImmRange]
    [] w.op = "b.cond" -> [op |-> "b.cond", cond |-> w.cond, imm |-> (to - at) % CondRange]

arm64CompileFunction(fn) ==
  LET parts == Parts(fn)
      words == FlattenSeq(parts)
  IN  [name  |-> fn.name,
       size  |-> Len(words),
       calls |-> [bl \in {k \in DOMAIN words : words[k].op = "bl"} |->
                    [at |-> bl - 1, callee |-> words[bl].callee]],
       words |-> [k \in DOMAIN words |->
                    IF words[k].op \in {"b", "b.cond"}
                    THEN Patched(words[k], BlockOffset(fn, parts, words[k].label), k - 1)
                    ELSE words[k]]]

-----------------------------------------------------------------------------
(* compileProgram *)

Failed(why) == [ok |-> FALSE, error |-> why]

compileProgram(program) ==
  IF \E f \in DOMAIN program.functions : ~ Compilable(program.functions[f])
  THEN Failed("not supported")
  ELSE LET compiled == [f \in DOMAIN program.functions |-> arm64CompileFunction(program.functions[f])]
           words == FlattenSeq([f \in DOMAIN compiled |-> compiled[f].words])
           entry == program.functions[program.entryIndex].name
       IN  IF ~ Resolved(compiled) THEN Failed("unresolved function")
           ELSE LET linked == LinkedCode(compiled, entry)
                IN  [ok    |-> TRUE,
                     entry |-> linked.entryOffset,
                     code  |-> [a \in 0 .. Len(words) - 1 |->
                                  IF words[a + 1].op # "bl" THEN words[a + 1]
                                  ELSE [op |-> "bl", imm |-> (CHOOSE b \in linked.branches :
                                                                b.at = a).imm26]]]
=============================================================================
