-------------------------------- MODULE Arm64 --------------------------------
(***************************************************************************)
(* The processor that executes native code: the instructions the encoder   *)
(* emits, the registers they name and the stack the host lends them.       *)
(* Addresses of code count instructions, addresses of memory 8-byte words; *)
(* a register holds any number, and an instruction takes it modulo a word. *)
(***************************************************************************)
EXTENDS Values

CONSTANTS
  ArgRegs,     (* The registers that pass arguments, x0..x7: 8.              *)
  ChunkBits,   (* The bits a movz or movk sets, a quarter of a word: 16.     *)
  ImmRange,    (* The values of the offset field of b and bl: 2^26.          *)
  CondRange,   (* The values of the offset field of b.cond: 2^19.            *)
  StackWords   (* The words of the host's stack below its caller's frame.    *)

WordBits == 4 * ChunkBits
Unsigned64(n) == AsUnsigned(n, WordBits)
Signed64(n) == AsSigned(n, WordBits)

Scratch0 == 9
Scratch1 == 10
Scratch2 == 11
Fp == 29
Lr == 30
XRegs == 0 .. ArgRegs - 1 \cup {Scratch0, Scratch1, Scratch2, Fp, Lr}

(* Where the code returns to, and the frame pointer of its caller.         *)
HostPc == -1
HostFp == -2

VARIABLES
  code,   (* The instructions, by address.                                   *)
  x,      (* x0..x30                                                         *)
  sp,     (* The stack pointer.                                              *)
  pc,     (* The address of the next instruction.                            *)
  nzv,    (* The condition flags; C is of no use to signed conditions.       *)
  mem,    (* The words of the stack.                                         *)
  cpu     (* "idle", "running", "returned" or "fault"                        *)

registers == <<x, sp, pc, nzv, mem, cpu>>

word == code[pc]
Decoded == cpu = "running" /\ pc \in DOMAIN code

(* What an instruction reads or writes of the stack.                       *)
Touched ==
  CASE word.op \in {"ldr", "str"} -> {sp + word.slot}
    [] word.op = "stp" -> {sp - 2, sp - 1}
    [] word.op = "ldp" -> {sp, sp + 1}
    [] OTHER -> {}

At(ops) == Decoded /\ word.op \in ops /\ Touched \subseteq DOMAIN mem

Set(r, v) ==
  /\ x' = [x EXCEPT ![r] = v]
  /\ pc' = pc + 1
  /\ UNCHANGED <<code, sp, nzv, mem, cpu>>

Shifted(imm, hw) == imm * 2^(ChunkBits * hw)

Chunk(n, hw) == (Unsigned64(n) \div 2^(ChunkBits * hw)) % 2^ChunkBits

Movz == At({"movz"}) /\ Set(word.rd, Shifted(word.imm, word.hw))

Movk ==
  /\ At({"movk"})
  /\ Set(word.rd, Unsigned64(x[word.rd]) - Shifted(Chunk(x[word.rd], word.hw), word.hw)
                    + Shifted(word.imm, word.hw))

(* sdiv gives 0 for a division by zero.                                    *)
Alu ==
  /\ At({"add", "sub", "mul", "sdiv"})
  /\ LET n == Signed64(x[word.rn])
         m == Signed64(x[word.rm])
     IN  Set(word.rd, Unsigned64(CASE word.op = "add" -> n + m
                                   [] word.op = "sub" -> n - m
                                   [] word.op = "mul" -> n * m
                                   [] m = 0 -> 0
                                   [] OTHER -> Quotient(n, m)))

Cmp ==
  /\ At({"cmp"})
  /\ LET d == Signed64(x[word.rn]) - Signed64(x[word.rm])
     IN  nzv' = [n |-> Signed64(d) < 0, z |-> d = 0, v |-> Signed64(d) # d]
  /\ pc' = pc + 1
  /\ UNCHANGED <<code, x, sp, mem, cpu>>

Ldr == At({"ldr"}) /\ Set(word.rt, mem[sp + word.slot])

Str ==
  /\ At({"str"})
  /\ mem' = [mem EXCEPT ![sp + word.slot] = x[word.rt]]
  /\ pc' = pc + 1
  /\ UNCHANGED <<code, x, sp, nzv, cpu>>

(* stp x29, x30, [sp, #-16]! and ldp x29, x30, [sp], #16                   *)
Stp ==
  /\ At({"stp"})
  /\ mem' = [mem EXCEPT ![sp - 2] = x[Fp], ![sp - 1] = x[Lr]]
  /\ sp' = sp - 2 /\ pc' = pc + 1
  /\ UNCHANGED <<code, x, nzv, cpu>>

Ldp ==
  /\ At({"ldp"})
  /\ x' = [x EXCEPT ![Fp] = mem[sp], ![Lr] = mem[sp + 1]]
  /\ sp' = sp + 2 /\ pc' = pc + 1
  /\ UNCHANGED <<code, nzv, mem, cpu>>

MoveSp ==
  /\ At({"subsp", "addsp"})
  /\ sp' = sp + (IF word.op = "addsp" THEN word.words ELSE - word.words)
  /\ pc' = pc + 1
  /\ UNCHANGED <<code, x, nzv, mem, cpu>>

(* An offset field holds a signed number of instructions.                  *)
Offset(imm, range) == IF 2 * imm < range THEN imm ELSE imm - range

Holds(cond) ==
  CASE cond =  0 -> nzv.z
    [] cond =  1 -> ~ nzv.z
    [] cond = 10 -> nzv.n = nzv.v
    [] cond = 11 -> nzv.n # nzv.v
    [] cond = 12 -> ~ nzv.z /\ nzv.n = nzv.v
    [] cond = 13 -> nzv.z \/ nzv.n # nzv.v

Goto(target) == pc' = target /\ UNCHANGED <<code, sp, nzv, mem, cpu>>

Branch ==
  \/ At({"b"}) /\ Goto(pc + Offset(word.imm, ImmRange)) /\ UNCHANGED x
  \/ /\ At({"b.cond"})
     /\ Goto(IF Holds(word.cond) THEN pc + Offset(word.imm, CondRange) ELSE pc + 1)
     /\ UNCHANGED x
  \/ /\ At({"bl"})
     /\ Goto(pc + Offset(word.imm, ImmRange))
     /\ x' = [x EXCEPT ![Lr] = pc + 1]
  \/ At({"ret"}) /\ Goto(x[Lr]) /\ UNCHANGED x

Stop(how) == cpu' = how /\ UNCHANGED <<code, x, sp, pc, nzv, mem>>

(* The host has the result.                                                *)
Returned == cpu = "running" /\ pc = HostPc /\ Stop("returned")

(* "other" stands for the instructions the encoder does not mean to emit:  *)
(* what they do is left out.                                               *)
Fault ==
  \/ cpu = "running" /\ pc \notin DOMAIN code \cup {HostPc} /\ Stop("fault")
  \/ Decoded /\ (word.op = "other" \/ ~ Touched \subseteq DOMAIN mem) /\ Stop("fault")

Step ==
  \/ Movz \/ Movk \/ Alu \/ Cmp \/ Ldr \/ Str \/ Stp \/ Ldp \/ MoveSp \/ Branch
  \/ Returned \/ Fault

-----------------------------------------------------------------------------
(* The stack of the host, whose words may hold anything.                   *)
Idle(fill) ==
  /\ x = [r \in XRegs |-> 0]
  /\ sp = StackWords /\ pc = HostPc
  /\ nzv = [n |-> FALSE, z |-> FALSE, v |-> FALSE]
  /\ mem = [a \in 0 .. StackWords - 1 |-> fill]
  /\ cpu = "idle"

(* A call of the host with its arguments.                                  *)
Enter(image, at, argv) ==
  /\ code' = image
  /\ x' = [r \in XRegs |-> CASE r = Fp -> HostFp
                             [] r = Lr -> HostPc
                             [] r \in 0 .. ArgRegs - 1 -> argv[r + 1]
                             [] OTHER -> x[r]]
  /\ pc' = at /\ cpu' = "running"
  /\ UNCHANGED <<sp, nzv, mem>>
=============================================================================
