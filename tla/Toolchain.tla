----------------------------- MODULE Toolchain ------------------------------
(***************************************************************************)
(* The way of a program through the toolchain: uasm compile links its      *)
(* objects, uasm run interprets it, and uasm run --jit compiles it for the *)
(* host, an arm64 Mac, and calls it there with the same arguments.  Each   *)
(* function is compiled as compileProgram does; ParallelCodegen is about   *)
(* the threads that do it.                                                 *)
(***************************************************************************)
EXTENDS Interpreter

CONSTANTS
  Inputs,      (* The objects of programs, with the arguments of a run, and  *)
               (* the relation they ask for, in so many ways.                *)
  Fills,       (* What the host's stack may hold before native code runs.    *)
  ArgRegs,     (* The registers that pass arguments: 8.                      *)
  ChunkBits,   (* The bits a movz or movk sets: 16.                          *)
  ImmRange,    (* The values of the offset field of b and bl: 2^26.          *)
  CondRange,   (* The values of the offset field of b.cond: 2^19.            *)
  FieldRange,  (* The values of the immediate field of sub, ldr, str: 2^12.  *)
  StackWords   (* The words the host's stack has room for.                   *)

ASSUME ToolchainAssumption ==
  /\ ArgRegs \in 1 .. 8 /\ ChunkBits \in Nat \ {0}
  /\ ImmRange \in Nat \ {0} /\ CondRange \in Nat \ {0} /\ FieldRange \in Nat \ {0}
  /\ StackWords \in Nat /\ StackWords % 2 = 0
  /\ Width["i64"] = 4 * ChunkBits

(* The parser makes vectors: of functions, their parameters and blocks, of *)
(* instructions and of operands.                                           *)
IsVector(s) == Len(s) \in Nat /\ s = [k \in 1 .. Len(s) |-> s[k]]

HasCode(f) ==
  /\ IsVector(f.params) /\ IsVector(f.blocks)
  /\ \A b \in DOMAIN f.blocks :
       /\ IsVector(f.blocks[b].instructions)
       /\ \A i \in ToSet(f.blocks[b].instructions) : IsVector(i.operands)

ASSUME InputsAssumption ==
  \A i \in Inputs :
    /\ IsVector(i.objects)
    /\ \A o \in DOMAIN i.objects :
         IsVector(i.objects[o]) /\ \A f \in DOMAIN i.objects[o] : HasCode(i.objects[o][f])

(* What the interpreter computes on: numbers of the types there are, or     *)
(* nothing.                                                                *)
Value == [type : DOMAIN Width \cup {"void"}, num : Int]

(* How many operands an instruction reads, at least, to make its value.    *)
OperandsRead(op) ==
  CASE op \in {"select", "getelementptr", "arraystore"} -> 3
    [] op \in (BasicOps \ {"not", "neg", "abs"}) \cup (OverflowOps \ {"nego"}) \cup {"addc", "subb"}
               \cup (PointerOps \ {"getelementptr"}) \cup FieldStores \cup {"store", "arrayload", "cmp"} -> 2
    [] op \in {"not", "neg", "abs", "nego", "mov", "expect", "freeze", "convert", "cast", "bitconv", "sext", "zext",
               "itrunc", "ptrtoint", "inttoptr", "ret"} \cup FieldLoads \cup {"load"} -> 1
    [] OTHER -> 0

InstructionFits(i) ==
  /\ i.type \in DOMAIN Width
  /\ i.op \in {"bitconv", "sext", "zext", "itrunc"} => i.type2 \in DOMAIN Width
  /\ i.dest \in Regs \cup {NoDest}
  /\ i.op \in Loads \cup {"mov", "add", "sub", "mul", "div"} => i.dest \in Regs
  /\ Len(i.operands) >= OperandsRead(i.op)
  /\ \A k \in DOMAIN i.operands :
       \/ i.operands[k].kind = "reg" /\ i.operands[k].is \in Regs
       \/ i.operands[k].kind = "imm" /\ i.operands[k].is \in Int
       \/ i.operands[k].kind = "sym"

(* The values and instructions that are modelled: integers, instructions   *)
(* with the operands they read and with registers frames have.             *)
InputsFit ==
  \A i \in Inputs :
    /\ IsVector(i.args) /\ \A k \in DOMAIN i.args : i.args[k] \in Value
    /\ \A o \in DOMAIN i.objects : \A f \in DOMAIN i.objects[o] :
         \A b \in DOMAIN i.objects[o][f].blocks :
           \A instruction \in ToSet(i.objects[o][f].blocks[b].instructions) : InstructionFits(instruction)

VARIABLES
  input,                               (* The objects and the arguments.     *)
  stage,                               (* How far the program has come.      *)
  plain,                               (* History: see Plain.                *)
  fresh,                               (* History: see Plain.                *)
  stores,                              (* History: what was stored where.    *)
  code, x, sp, pc, nzv, mem, cpu       (* The processor.                     *)

Objects == INSTANCE Linker
Backend == INSTANCE Arm64Encoder
Processor == INSTANCE Arm64

machine == <<code, x, sp, pc, nzv, mem, cpu>>
history == <<plain, fresh, stores>>
all == <<vars, input, stage, history, machine>>

Init ==
  /\ input \in Inputs
  /\ stage = "compile"
  /\ program = [functions |-> <<>>, entryIndex |-> 0]
  /\ frames = <<>> /\ result = Pending
  /\ memory = [a \in 0 .. MemorySize - 1 |-> 0]
  /\ plain = TRUE /\ fresh = FALSE /\ stores = <<>>
  /\ code = [a \in {} |-> [op |-> "none"]]
  /\ \E fill \in Fills : Processor!Idle(fill)

(* uasm compile *)
Compile ==
  /\ stage = "compile"
  /\ LET linked == Objects!link(input.objects)
     IN  \/ linked.ok /\ program' = linked.program /\ stage' = "load"
         \/ ~ linked.ok /\ stage' = linked.error /\ UNCHANGED program
  /\ UNCHANGED <<input, frames, memory, result, history, machine>>
-----------------------------------------------------------------------------
(* uasm run.  A run is plain while it stays in what ISA.md, section 11,    *)
(* says native code is for: signed 64-bit integers, as many arguments as   *)
(* there are registers for them, and no branch but on a cmp the same frame *)
(* has executed since its last call.                                       *)

IsPlain(v) == v.type = "i64"

PlainOperands ==
  \A k \in ReadOperands :
    instr.operands[k].kind = "reg" => IsPlain(frame.regs[instr.operands[k].is])

Typed == instr.op \in {"mov", "add", "sub", "mul", "div", "mod", "cmp", "ret"}

Plain ==
  CASE Typed -> instr.type = "i64" /\ PlainOperands
    [] instr.op \in {"beq", "bne", "blt", "bgt", "ble", "bge"} -> fresh
    [] instr.op = "call" -> PlainOperands /\ Len(callArgs) <= ArgRegs
    [] OTHER -> TRUE

Fresh ==
  CASE instr.op = "cmp" -> TRUE
    [] instr.op \in {"call", "ret", "retvoid"} -> FALSE
    [] OTHER -> fresh

Load ==
  /\ stage = "load"
  /\ Run(input.args)
  /\ stage' = "run"
  /\ plain' = (Len(input.args) <= ArgRegs /\ \A k \in DOMAIN input.args : IsPlain(input.args[k]))
  /\ UNCHANGED <<input, fresh, stores, machine>>

Interpret ==
  /\ stage = "run"
  /\ Step
  /\ IF result' = Pending \/ result'.kind = "value"
     THEN plain' = (plain /\ Plain) /\ fresh' = Fresh
     ELSE UNCHANGED <<plain, fresh>>
  /\ stores' = IF At(Stores) /\ result' = Pending
               THEN Append(stores, [at |-> Address, value |-> StoredValue]) ELSE stores
  /\ UNCHANGED <<input, stage, machine>>
-----------------------------------------------------------------------------
(* uasm run --jit *)

argv ==
  [a \in 1 .. ArgRegs |->
     IF a <= Len(input.args) THEN Processor!Signed64(input.args[a].num) ELSE 0]

Jit ==
  /\ stage = "run" /\ result # Pending
  /\ LET compiled == Backend!compileProgram(program)
     IN  \/ /\ compiled.ok
            /\ Processor!Enter(compiled.code, compiled.entry, argv)
            /\ stage' = "native"
         \/ ~ compiled.ok /\ stage' = compiled.error /\ UNCHANGED machine
  /\ UNCHANGED <<vars, input, history>>

Execute ==
  /\ stage = "native"
  /\ Processor!Step
  /\ UNCHANGED <<vars, input, stage, history>>

returnType == program.functions[program.entryIndex].returnType

(* What runJit makes of x0.                                                *)
nativeResult ==
  IF returnType = "void" THEN VoidValue ELSE fromInt128(returnType, Processor!Signed64(x[0]))

Next == Compile \/ Load \/ Interpret \/ Jit \/ Execute

(* The processor executes what it is given.                                *)
Spec == Init /\ [][Next]_all /\ WF_all(Execute)
-----------------------------------------------------------------------------
(* Native code that a branch spans: 128 MB of a program, and 1 MB of a     *)
(* function.  The encoder does not look.                                   *)
BranchesReach ==
  \A i \in Inputs :
    LET linked == Objects!link(i.objects)
        fns == linked.program.functions
        compiled == [f \in DOMAIN fns |-> Backend!arm64CompileFunction(fns[f])]
    IN  linked.ok /\ (\A f \in DOMAIN fns : Backend!Compilable(fns[f])) =>
          /\ 2 * Backend!Start(compiled, Len(compiled) + 1) < ImmRange
          /\ \A f \in DOMAIN fns : 2 * compiled[f].size < CondRange

(* Frames whose size its field holds: less than 4096 bytes, 510 registers. *)
FramesReach ==
  \A i \in Inputs :
    LET linked == Objects!link(i.objects)
        fns == linked.program.functions
    IN  linked.ok /\ (\A f \in DOMAIN fns : Backend!Compilable(fns[f])) =>
          \A f \in DOMAIN fns : Backend!FrameSize(fns[f]) < FieldRange

(* What link() let through calls functions the program has: neither uasm   *)
(* run nor uasm run --jit meets a call it cannot resolve.  link() does not *)
(* look at tailcalls, which only uasm run has.                             *)
LinkedCallsResolve ==
  /\ result = [kind |-> "threw", what |-> "call to unknown function"] => instr.op = "tailcall"
  /\ stage # "unresolved function"

(* Plain returns a value of the entry's type: a run native code has to     *)
(* reproduce.                                                              *)
Reproducible ==
  plain /\ result.kind = "value" /\ result.value.type = returnType

(* Native code returns what the interpreter returned.                      *)
NativeAgrees ==
  Reproducible /\ cpu \in {"returned", "fault"} =>
    cpu = "returned" /\ nativeResult = result.value

(* It does return: no branch or call of it leads where it does not end.    *)
NativeReturns ==
  (stage = "native" /\ Reproducible) ~> (cpu = "returned")

(* Native code is for what it computes right: a program it is not for is   *)
(* rejected.                                                               *)
AcceptedMeansFaithful ==
  result.kind = "value" /\ cpu \in {"returned", "fault"} =>
    cpu = "returned" /\ nativeResult = result.value

(* No block of the program ends without leaving it.                        *)
NoFallThrough ==
  \A f \in DOMAIN program.functions :
    LET blocks == program.functions[f].blocks
    IN  blocks # <<>> /\ \A b \in DOMAIN blocks :
          /\ blocks[b].instructions # <<>>
          /\ Last(blocks[b].instructions).op \in {"jmp", "ret", "retvoid"}

(* Whatever the program computes, right or wrong, native code leaves the   *)
(* host as it was: the stack aligned to 16 bytes at every instruction, the *)
(* host's own stack and frame pointers back when it returns, and nothing   *)
(* executed but its own instructions.                                      *)
HostLeftIntact ==
  NoFallThrough =>
    /\ sp % 2 = 0
    /\ cpu = "returned" => sp = StackWords /\ x[Processor!Fp] = Processor!HostFp
    /\ cpu = "running" => pc \in DOMAIN code \cup {Processor!HostPc}

Related(rel, a, b) ==
  CASE rel = "eq" -> a = b
    [] rel = "ne" -> a # b
    [] rel = "lt" -> a < b
    [] rel = "gt" -> a > b
    [] rel = "le" -> a <= b
    [] rel = "ge" -> a >= b

(* Every way a program has to ask for a relation gives the answer of the   *)
(* integers, so that they all agree: the flag of a cmp, an addc or an addo *)
(* read by a set instruction or a branch, also after a call that set its   *)
(* own, and the comparisons of two operands.  The program counts those that*)
(* say yes.                                                                *)
ConditionsAgree ==
  LET asks == input.asks
  IN  asks.votes > 0 /\ result # Pending =>
        result = [kind  |-> "value",
                  value |-> fromInt128("i64", IF Related(asks.rel, asks.x, asks.y) THEN asks.votes ELSE 0)]

(* The byte that the last store over an address left there.                *)
StoredAt(a) ==
  LET Over(k) == a - stores[k].at \in 0 .. sizeOfType(stores[k].value.type) - 1
      over == {k \in DOMAIN stores : Over(k)}
      last == stores[Max(over)]
  IN  IF over = {} THEN 0 ELSE Byte(bits(last.value), a - last.at, ByteBits)

(* A load gives the number whose bytes the last stores left, wherever in a *)
(* value it begins, whatever their types, forms of address and functions.  *)
LoadsReadStores ==
  [][At(Loads) /\ stage = "run" /\ result' = Pending =>
       \A b \in 0 .. sizeOfType(instr.type) - 1 :
         /\ frame'.regs[instr.dest].type = instr.type
         /\ Byte(frame'.regs[instr.dest].num, b, ByteBits) = StoredAt(Address + b)]_all
=============================================================================
