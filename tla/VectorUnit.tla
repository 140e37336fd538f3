----------------------------- MODULE VectorUnit -----------------------------
(***************************************************************************)
(* Interpreter::call while it runs a few vector instructions of one width  *)
(* and lane type, one after the other until one throws.  Registers that    *)
(* hold vectors and those that hold numbers are listed apart, and the flat *)
(* memory is accessed lane by lane.                                        *)
(***************************************************************************)
EXTENDS VectorOps

CONSTANTS
  VectorMemory,    (* memory_.size().                                        *)
  VectorBytes,     (* What the memory holds at first.                        *)
  VectorCodes,     (* Widths, lane types and sequences of instructions.      *)
  VectorBanks(_)   (* Of one of these: vectors and numbers the registers may *)
                   (* hold.                                                  *)

VARIABLES vjob, vectors, numbers, vmemory, pc, vthrew

vectorVars == <<vjob, vectors, numbers, vmemory, pc, vthrew>>

VectorInit ==
  \E c \in VectorCodes : \E bank \in VectorBanks(c) :
    /\ vjob = [width |-> c[1], lane |-> c[2], code |-> c[3], vectors |-> bank[1], numbers |-> bank[2]]
    /\ vectors = bank[1] /\ numbers = bank[2] /\ vmemory = VectorBytes
    /\ pc = 1 /\ vthrew = FALSE

lane == vjob.lane
nlanes == vectorLaneCount(vjob.width, lane)
perGroup == vectorLaneCount("v128", lane)
code == vjob.code

(* Forms of access: an address is first, then a mask word, if any, and the *)
(* vector to store is last.                                                *)
WordMasked == {"vloadk", "vexpandload", "vstorek", "vcompressstore", "vgatherk", "vscatterk"}
LaneMasked == {"vmaskload", "vmaskstore"}
Packing == {"vexpandload", "vcompressstore"}
Indexed == {"vgather", "vscatter", "vgatherk", "vscatterk"}

LoadOps == {"vload", "vloadsplat", "vloadk", "vexpandload", "vmaskload", "vgather", "vgatherk"}
StoreOps == {"vstore", "vstorek", "vcompressstore", "vmaskstore", "vscatter", "vscatterk"}

(* An operand is <<"v", k>>, <<"n", k>> or the immediate <<"i", number>>,  *)
(* which is cut to the lane type, or that of an address or a mask word.    *)
immediateType(instr, k) ==
  IF instr.op \notin LoadOps \cup StoreOps THEN lane ELSE IF k = 1 THEN "ptr" ELSE "i64"

readOperand(vs, ns, instr, k) ==
  LET operand == instr.in[k]
  IN  CASE operand[1] = "v" -> vs[operand[2]]
        [] operand[1] = "n" -> ns[operand[2]]
        [] operand[1] = "i" -> Number(immediateType(instr, k), operand[2])

readOperands(vs, ns, instr) == [k \in DOMAIN instr.in |-> readOperand(vs, ns, instr, k)]

vop == code[pc].op
args == readOperands(vectors, numbers, code[pc])

Issuing(ops) == pc <= Len(code) /\ ~ vthrew /\ vop \in ops

VectorThrows == vthrew' = TRUE /\ UNCHANGED <<vjob, vectors, numbers, vmemory, pc>>

Sets(v) ==
  /\ vectors' = [vectors EXCEPT ![code[pc].dest] = v]
  /\ pc' = pc + 1
  /\ UNCHANGED <<vjob, numbers, vmemory, vthrew>>

SetsNumber(type, n) ==
  /\ numbers' = [numbers EXCEPT ![code[pc].dest] = Number(type, n)]
  /\ pc' = pc + 1
  /\ UNCHANGED <<vjob, vectors, vmemory, vthrew>>
-----------------------------------------------------------------------------
Lanewise ==
  /\ Issuing(LanewiseOps)
  /\ IF \E i \in 0 .. nlanes - 1 : laneRefused(vop, lane, args, i) THEN VectorThrows
     ELSE Sets(Vector(lane, nlanes, LAMBDA i : Number(lane, lanewise(vop, lane, args, i))))

Masked ==
  /\ Issuing(DOMAIN MaskedOps)
  /\ IF maskedRefused(vop, lane, nlanes, args) THEN VectorThrows ELSE Sets(vectorComputeMasked(vop, lane, nlanes, args))

(* vinsert128 keeps what its first operand has beyond the width.           *)
Move ==
  /\ Issuing(MoveOps)
  /\ IF moveRefused(vop, nlanes, perGroup, args) THEN VectorThrows
     ELSE LET r == Vector(lane, nlanes, LAMBDA i : moved(vop, lane, nlanes, perGroup, args, i))
          IN  Sets(IF vop = "vinsert128" THEN [i \in Lanes(lane) |-> IF i < nlanes THEN r[i] ELSE args[1][i]] ELSE r)

OneLane ==
  /\ Issuing(OneLaneOps)
  /\ IF oneLaneRefused(vop, nlanes, args) THEN VectorThrows ELSE Sets(oneLane(vop, lane, nlanes, args))

Compress == Issuing(CompressOps) /\ Sets(compressed(vop, lane, nlanes, args))

Parts == Issuing(PartOps) /\ Sets(parts(vop, lane, nlanes, args))

KMask ==
  /\ Issuing(KMaskOps)
  /\ IF kmaskRefused(vop, nlanes, args) THEN VectorThrows ELSE SetsNumber("i64", kmask(vop, nlanes, args))

(* kcvtmask takes the lanes that are not 0 into a mask.                    *)
ToMask == Issuing({"kcvtmask"}) /\ SetsNumber("i64", MaskOf({i \in 0 .. nlanes - 1 : args[1][i] # 0}))

KNumber == Issuing(KNumberOps) /\ SetsNumber("i32", knumber(vop, nlanes, args))

Test == Issuing(TestOps) /\ SetsNumber("i32", laneTest(vop, lane, nlanes, args[1]))

Reduce ==
  /\ Issuing(ReduceOps)
  /\ IF reduceRefused(vop, nlanes, args) THEN VectorThrows ELSE SetsNumber(lane, reduced(vop, nlanes, args))
-----------------------------------------------------------------------------
(* Memory. *)

laneBytes == bitWidth(lane) \div ByteBits

(* The lanes an access takes part with.                                    *)
touched(o, x) ==
  CASE o \in WordMasked -> Chosen(x[2], nlanes)
    [] o \in LaneMasked -> {i \in 0 .. nlanes - 1 : x[2][i] # 0}
    [] OTHER -> 0 .. nlanes - 1

(* Fault: a packed access leaves room for the lanes it skips. *)
placeUnpacked(o, x, i) ==
  AsUnsigned(
    x[1] + laneBytes * (CASE o \in Indexed -> x[IF o \in WordMasked THEN 3 ELSE 2][i] [] OTHER -> i),
    Width["ptr"])

(* Where in memory the lane i is. *)
place(o, x, i) ==
  AsUnsigned(
    x[1] + laneBytes *
      (CASE o \in Indexed -> x[IF o \in WordMasked THEN 3 ELSE 2][i]
         [] o \in Packing -> Below(touched(o, x), i)
         [] o = "vloadsplat" -> 0
         [] OTHER -> i),
    Width["ptr"])

outside(o, x, i) == place(o, x, i) + laneBytes > VectorMemory

(* The end of a lane passes 2^64: checkRange takes it for an end in the    *)
(* memory, or near 0.                                                      *)
Wraps(o, x) == \E i \in touched(o, x) : place(o, x, i) + laneBytes >= 2^Width["ptr"]

laneAt(m, at) ==
  Number(lane, MapThenSumSet(LAMBDA k : m[at + k] * 2^(k * ByteBits), 0 .. laneBytes - 1))

withLane(m, at, x) ==
  [b \in DOMAIN m |->
     IF b \in at .. at + laneBytes - 1 THEN Byte(unsignedOf(x, lane), b - at, ByteBits) ELSE m[b]]

Load ==
  /\ Issuing(LoadOps) /\ ~ Wraps(vop, args)
  /\ LET S == touched(vop, args)
     IN  IF \E i \in S : outside(vop, args, i) THEN VectorThrows
         ELSE Sets(Vector(lane, nlanes, LAMBDA i : IF i \in S THEN laneAt(vmemory, place(vop, args, i)) ELSE 0))

(* Each lane is checked when it is stored: one that is out of range throws *)
(* when those before it are in memory.  vstore checks them all at first.   *)
(* Fault: a store goes on after a lane that is out of range. *)
StorePast ==
  /\ Issuing(StoreOps) /\ ~ Wraps(vop, args)
  /\ LET S == touched(vop, args)
     IN  /\ vmemory' = FoldLeft(
                LAMBDA m, i : IF i \notin S \/ outside(vop, args, i) THEN m
                              ELSE withLane(m, place(vop, args, i), args[Len(args)][i]),
                vmemory, UpTo(nlanes))
         /\ vthrew' = \E i \in S : outside(vop, args, i)
         /\ pc' = IF vthrew' THEN pc ELSE pc + 1
  /\ UNCHANGED <<vjob, vectors, numbers>>

Store ==
  /\ Issuing(StoreOps) /\ ~ Wraps(vop, args)
  /\ LET S == touched(vop, args)
         bad == {i \in S : outside(vop, args, i)}
         done == CASE bad = {} -> S
                   [] bad # {} /\ vop = "vstore" -> {}
                   [] OTHER -> {i \in S : i < Min(bad)}
     IN  /\ vmemory' = FoldLeft(
                LAMBDA m, i : IF i \in done THEN withLane(m, place(vop, args, i), args[Len(args)][i]) ELSE m,
                vmemory, UpTo(nlanes))
         /\ vthrew' = (bad # {})
         /\ pc' = IF bad = {} THEN pc + 1 ELSE pc
  /\ UNCHANGED <<vjob, vectors, numbers>>

(* The access goes on where the end that checkRange computes is in range,  *)
(* to what the host has around the memory: a load finds any number there,  *)
(* and of a store the bytes that are in the memory are seen here.  vload   *)
(* and vstore check the whole vector at once.                              *)
NumbersOf(t) ==
  IF t \in Unsigned THEN 0 .. unsignedMaxOfWidth(t) ELSE signedMinOfWidth(t) .. signedMaxOfWidth(t)

WholeVector == {"vload", "vstore"}

refusedLanes(o, x) ==
  {i \in touched(o, x) :
     SizeT(IF o \in WholeVector THEN x[1] + nlanes * laneBytes ELSE place(o, x, i) + laneBytes) > VectorMemory}

withLaneAround(m, at, x) ==
  [b \in DOMAIN m |->
     IF SizeT(b - at) < laneBytes THEN Byte(unsignedOf(x, lane), SizeT(b - at), ByteBits) ELSE m[b]]

LoadAstray ==
  /\ Issuing(LoadOps) /\ Wraps(vop, args)
  /\ LET S == touched(vop, args)
         astray == {place(vop, args, i) : i \in {j \in S : outside(vop, args, j)}}
     IN  IF refusedLanes(vop, args) # {} THEN VectorThrows
         ELSE \E found \in [astray -> NumbersOf(lane)] :
                Sets(Vector(lane, nlanes, LAMBDA i :
                       LET at == place(vop, args, i)
                       IN  IF i \notin S THEN 0 ELSE IF at \in astray THEN found[at] ELSE laneAt(vmemory, at)))

StoreAstray ==
  /\ Issuing(StoreOps) /\ Wraps(vop, args)
  /\ LET bad == refusedLanes(vop, args)
         done == {i \in touched(vop, args) : \A j \in bad : i < j}
     IN  /\ vmemory' = FoldLeft(
                LAMBDA m, i : IF i \in done THEN withLaneAround(m, place(vop, args, i), args[Len(args)][i]) ELSE m,
                vmemory, UpTo(nlanes))
         /\ vthrew' = (bad # {})
         /\ pc' = IF bad = {} THEN pc + 1 ELSE pc
  /\ UNCHANGED <<vjob, vectors, numbers>>

VectorNext ==
  \/ Lanewise \/ Masked \/ Move \/ OneLane \/ Compress \/ Parts \/ KMask \/ ToMask \/ KNumber \/ Test
  \/ Reduce \/ Load \/ Store \/ LoadAstray \/ StoreAstray

VectorSpec == VectorInit /\ [][VectorNext]_vectorVars
-----------------------------------------------------------------------------
(* What the instructions are given.  An operand names a vector or a number *)
(* of the bank that a job begins with, or is a number itself.              *)
VectorsOf(type) == [Lanes(type) -> NumbersOf(type)]

GivesVector(bank, operand) == operand[1] = "v" /\ operand[2] \in DOMAIN bank[1]
GivesNumber(bank, operand) ==
  \/ operand[1] = "n" /\ operand[2] \in DOMAIN bank[2]
  \/ operand[1] = "i" /\ operand[2] \in Int

(* The vectors a lanewise instruction computes with. *)
Operated(o) == IF o \in LaneUnaryOps THEN 1 ELSE IF o \in LaneTernaryOps THEN 3 ELSE 2

OperandsFit(instr, bank) ==
  LET o == instr.op
      in == instr.in
      AreVectors(S) == \A k \in S : k \in DOMAIN in /\ GivesVector(bank, in[k])
      AreNumbers(S) == \A k \in S : k \in DOMAIN in /\ GivesNumber(bank, in[k])
  IN  /\ in \in Seq(Range(in))
      /\ o \in LanewiseOps \ {"vternlog"} => AreVectors(1 .. Len(in)) /\ Len(in) >= Operated(o)
      /\ o \in DOMAIN MaskedOps =>
           AreNumbers({1}) /\ AreVectors(2 .. Len(in)) /\ Len(in) > Operated(MaskedOps[o])
      /\ o \in LoadOps \cup StoreOps => AreNumbers({1})
      /\ o \in WordMasked => AreNumbers({2})
      /\ o \in LaneMasked => AreVectors({2})
      /\ o \in Indexed => AreVectors({IF o \in WordMasked THEN 3 ELSE 2})
      /\ o \in StoreOps => AreVectors({Len(in)})
      /\ o \in LanewiseOps \cup DOMAIN MaskedOps \cup LoadOps => instr.dest \in DOMAIN bank[1]

(* What the theorems about one instruction take for granted: registers that*)
(* hold vectors of the lane type and numbers, operands of the kinds that   *)
(* the instruction takes, and lanes of whole bytes.                        *)
VectorsFit ==
  /\ {"ptr", "i64"} \subseteq DOMAIN Width /\ "v512" \in DOMAIN VectorWidth
  /\ VectorWidth \in [DOMAIN VectorWidth -> Nat]
  /\ \A w \in DOMAIN VectorWidth : VectorWidth[w] <= VectorWidth["v512"]
  /\ VectorMemory \in Nat /\ VectorBytes \in [0 .. VectorMemory - 1 -> 0 .. 2^ByteBits - 1]
  /\ \A c \in VectorCodes :
       /\ c[1] \in DOMAIN VectorWidth /\ c[2] \in DOMAIN Width /\ Width[c[2]] % ByteBits = 0
       /\ \A bank \in VectorBanks(c) :
            /\ bank[1] \in [DOMAIN bank[1] -> VectorsOf(c[2])] /\ bank[2] \in [DOMAIN bank[2] -> Int]
            /\ Len(c[3]) = 1 => OperandsFit(c[3][1], bank)

(* A sum of unsigned lanes as long as Int128 wraps before it is compared,  *)
(* and so does a difference of bits in all of them.                        *)
SumsFit == \A c \in VectorCodes : ~ isSignedLane(c[2]) => Width[c[2]] < Wide

(* The masks and numbers a mask instruction computes with. *)
MasksRead(o) ==
  IF o \in {"kset", "kclr", "vlen"} THEN 0
  ELSE IF o \in {"kmov", "knot", "kcount", "kfirst", "klast", "kvalid"} THEN 1 ELSE 2

(* A mask word has a bit for each lane, and an i32 a number for all of     *)
(* them; the instructions on masks have their operands.                    *)
MasksFit ==
  /\ {"i32", "i64"} \subseteq DOMAIN Width /\ Width["i32"] > 1
  /\ \A c \in VectorCodes : \A bank \in VectorBanks(c) :
       LET instr == c[3][1]
           in == instr.in
           n == vectorLaneCount(c[1], c[2])
       IN  Len(c[3]) = 1 =>
             /\ instr.op \in KMaskOps \cup {"kcvtmask"} => n <= Width["i64"]
             /\ instr.op \in KNumberOps \cup TestOps => n < 2^(Width["i32"] - 1)
             /\ instr.op \in KMaskOps \cup KNumberOps =>
                  \A k \in 1 .. MasksRead(instr.op) : k \in DOMAIN in /\ GivesNumber(bank, in[k])
             /\ instr.op \in TestOps \cup {"kcvtmask"} => 1 \in DOMAIN in /\ GivesVector(bank, in[1])
             /\ instr.op \in KMaskOps \cup KNumberOps \cup TestOps \cup {"kcvtmask"} => instr.dest \in DOMAIN bank[2]
-----------------------------------------------------------------------------
(* What the only instruction of a job did, and to what.                    *)

Single == Len(code) = 1 /\ (pc = 2 \/ vthrew)
only == code[1]
had == readOperands(vjob.vectors, vjob.numbers, only)
result == vectors[only.dest]
LaneIds == 0 .. nlanes - 1

(* What the interpreter's scalar instructions give for one lane, and       *)
(* whether they throw.                                                     *)
AsScalar ==
  [vadd |-> "add", vsub |-> "sub", vmul |-> "mul", vdiv |-> "div", vhadd |-> "add", vhsub |-> "sub",
   vmulwide |-> "mul", vmin |-> "min", vfmin |-> "min", vmax |-> "max", vfmax |-> "max", vand |-> "and",
   vor |-> "or", vxor |-> "xor", vandnot |-> "andnot", vavg |-> "uavg", vabsdiff |-> "absdiff",
   vshl |-> "shl", vshlv |-> "shl", vshr |-> "shr", vshrv |-> "shr", vsar |-> "sar", vsarv |-> "sar",
   vrotl |-> "rotl", vrotlv |-> "rotl", vrotr |-> "rotr", vrotrv |-> "rotr",
   vabs |-> "abs", vneg |-> "neg", vnot |-> "not", vsqrt |-> "isqrt", vpopcount |-> "popcount",
   vpopcntv |-> "popcount", vclz |-> "clz", vlzcntv |-> "clz", vctz |-> "ctz", vbswap |-> "bswap",
   vsignbit |-> "msbmask", vclamp |-> "clamp", vmla |-> "mla", vmaddwide |-> "mla", vmls |-> "mls",
   vbitselect |-> "bitselect"]

BySign ==
  [vaddsat |-> <<"addsat", "uaddsat">>, vsubsat |-> <<"subsat", "usubsat">>, vmulhi |-> <<"mulhi", "umulhi">>]

scalarName(o) == IF o \in DOMAIN BySign THEN BySign[o][IF isSignedLane(lane) THEN 1 ELSE 2] ELSE AsScalar[o]

(* shl and shr throw for an amount of 2^64 + k where the others, and the   *)
(* vector's shifts, go on with k: they are given k.                        *)
Amount(o, y) == IF scalarName(o) \in {"shl", "shr"} /\ y >= 0 THEN SizeT(y) ELSE y

(* shr is arithmetic on signed types, vshr on no lane type. *)
scalar(o, x, y, z) ==
  LET s == scalarName(o)
  IN  CASE s = "shr" -> basic(s, lane, unsignedOf(x, lane), Amount(o, y))
        [] s \in BasicOps \ {"shr"} -> basic(s, lane, x, Amount(o, y))
        [] s \in BitUnaryOps -> bitUnary(s, lane, x)
        [] s \in IntUnaryOps -> intUnaryExt(s, lane, x)
        [] s \in BitBinaryOps -> bitBinary(s, lane, x, y)
        [] s \in IntBinaryOps -> intBinaryExt(s, lane, x, y)
        [] s \in SaturatingOps -> saturatingOp(s, lane, x, y)
        [] s \in TernaryOps -> ternary(s, lane, x, y, z)
        [] s \in FieldOps -> field(s, lane, <<x, y, z>>)

scalarRefused(o, x, y) ==
  LET s == scalarName(o)
  IN  \/ s \in BasicOps /\ basicRefused(s, lane, x, Amount(o, y))
      \/ s \in IntUnaryOps /\ intUnaryRefused(s, lane, x)
      \/ s \in BitBinaryOps /\ bitBinaryRefused(s, lane, x, y)
      \/ s \in IntBinaryOps /\ intBinaryRefused(s, lane, x, y)

HasScalar == DOMAIN AsScalar \cup DOMAIN BySign

(* The operand k of one lane, or 0 if there are fewer. *)
piece(ops, k, i) == IF k \in DOMAIN ops THEN ops[k][i] ELSE 0

scalarLane(o, ops, i) == Number(lane, scalar(o, piece(ops, 1, i), piece(ops, 2, i), piece(ops, 3, i)))
scalarThrows(o, ops, i) == scalarRefused(o, piece(ops, 1, i), piece(ops, 2, i))

(* A lanewise instruction gives on every lane what the scalar instruction  *)
(* of the same name gives a register of the lane type, and throws if and   *)
(* only if that would on some lane: vector_ops.cpp (laneBinary, laneUnary, *)
(* vectorCompute) and interpreter.cpp (arith, bitwise, intBinaryExt,       *)
(* saturatingOp ...) each have their own code for it; a shift is by the    *)
(* amount that is left when it is cut to size_t.  A comparison gives       *)
(* the lane of ones or of zeros that the sign or the borrow of the         *)
(* difference says, and a ternlog the table of its bits.                   *)
ComparedAs(o, x, y) ==
  LET below(p, q) == subb(lane, unsignedOf(p, lane), unsignedOf(q, lane), 0).carry
      less(p, q) == basic("max", lane, p, q) # p
  IN  CASE o = "vcmpeq" -> basic("xor", lane, x, y) = 0
        [] o = "vcmpne" -> basic("xor", lane, x, y) # 0
        [] o = "vcmplt" -> less(x, y)
        [] o = "vcmpgt" -> less(y, x)
        [] o = "vcmple" -> ~ less(y, x)
        [] o = "vcmpge" -> ~ less(x, y)
        [] o = "vucmplt" -> below(x, y)
        [] o = "vucmpgt" -> below(y, x)
        [] o = "vucmple" -> ~ below(y, x)
        [] o = "vucmpge" -> ~ below(x, y)

LanesAreScalars ==
  /\ Single /\ only.op \in HasScalar =>
       /\ vthrew = (\E i \in LaneIds : scalarThrows(only.op, had, i))
       /\ ~ vthrew => \A i \in LaneIds : result[i] = scalarLane(only.op, had, i)
  /\ Single /\ only.op \in CompareOps =>
       \A i \in LaneIds : result[i] = IF ComparedAs(only.op, had[1][i], had[2][i]) THEN allOnes(lane) ELSE 0

(* A masked instruction computes the lanes its mask selects as the scalar  *)
(* instruction would, throws only for one of these, and keeps or clears    *)
(* the others.  A masked, indexed or packed access changes no byte of      *)
(* memory but those of the lanes it selects; when it throws, the lanes     *)
(* before the first that is out of range are in memory, whole, and no      *)
(* other.  A load fills the lanes it selects and clears the others         *)
(* (vectorComputeMasked, Opcode::VStorek, VScatterk, VMaskstore,           *)
(* VCompressstore, VLoadk).  An access that passes the end of the addresses*)
(* goes astray, and nothing is said of it.                                 *)
SelectedLanes == Chosen(had[1], nlanes)

MaskedArithmetic ==
  LET ops == Tail(had)
      base == BaseOp(only.op, had)
  IN  /\ vthrew = (\E i \in SelectedLanes : scalarThrows(base, ops, i))
      /\ ~ vthrew =>
           \A i \in LaneIds :
             result[i] = IF i \in SelectedLanes THEN scalarLane(base, ops, i)
                         ELSE IF only.op \in Zeroing THEN 0 ELSE ops[1][i]

(* The lanes a store has written: all, or those before the first outside.  *)
Cells(i) == LET p == place(only.op, had, i) IN p .. p + laneBytes - 1
Selected == touched(only.op, had)
Inside(i) == Cells(i) \subseteq 0 .. VectorMemory - 1
Written ==
  IF only.op = "vstore" THEN {i \in Selected : \A j \in Selected : Inside(j)}
  ELSE {i \in Selected : \A j \in Selected : j <= i => Inside(j)}

(* Later lanes overwrite earlier ones. *)
StoredBytes ==
  \A p \in 0 .. VectorMemory - 1 :
    LET S == {i \in Written : p \in Cells(i)}
    IN  vmemory[p] = IF S = {} THEN VectorBytes[p]
                     ELSE LET i == Max(S)
                          IN  Byte(unsignedOf(had[Len(had)][i], lane), p - place(only.op, had, i), ByteBits)

MaskedLanesOnly ==
  /\ Single /\ only.op \in DOMAIN MaskedOps => MaskedArithmetic
  /\ Single /\ only.op \in StoreOps /\ ~ Wraps(only.op, had) =>
       StoredBytes /\ vthrew = (\E i \in Selected : ~ Inside(i))
  /\ Single /\ only.op \in LoadOps /\ ~ Wraps(only.op, had) =>
       /\ vthrew = (\E i \in Selected : ~ Inside(i))
       /\ ~ vthrew =>
            \A i \in LaneIds :
              \A k \in 0 .. laneBytes - 1 :
                Byte(unsignedOf(result[i], lane), k, ByteBits)
                  = IF i \in Selected THEN VectorBytes[place(only.op, had, i) + k] ELSE 0
-----------------------------------------------------------------------------
(* Codes of several instructions.  They find vectors in the registers 1 and*)
(* 2, a permutation of the lanes in 3 and its inverse in 4, shift amounts  *)
(* in 7, and an address, a mask, a count of lanes, the lanes left and an   *)
(* index, which may be outside, in the numbers 1 to 4 and 7.               *)

v(k) == <<"v", k>>
num(k) == <<"n", k>>
imm(k) == <<"i", k>>
Ins(o, in, d) == <<[op |-> o, in |-> in, dest |-> d]>>

address == num(1)
mask == num(2)
count == num(3)
index == num(7)

(* Codes that end with what the register 1 holds in the register 5.  The   *)
(* one with 128-bit groups is for a v256.                                  *)
RoundTrips ==
  LET Twice(o) == Ins(o, <<v(1)>>, 5) \o Ins(o, <<v(5)>>, 5)
      Undo(o, o2, with) == Ins(o, <<v(1), with>>, 5) \o Ins(o2, <<v(5), with>>, 5)
  IN  {Twice(o) : o \in {"vreverse", "vswaphalves", "vnot", "vneg", "vbswap"}}
        \cup {Undo("vrotl", "vrotr", v(7)), Undo("vrotlv", "vrotrv", v(7)), Undo("vadd", "vsub", v(2)),
              Undo("vxor", "vxor", v(2))}
        \cup
        {Ins("vstore", <<address, v(1)>>, 5) \o Ins("vload", <<address>>, 5),
         Ins("vrotate", <<v(1), count>>, 5) \o Ins("vrotate", <<v(5), num(4)>>, 5),
         Ins("vlohalf", <<v(1)>>, 5) \o Ins("vhihalf", <<v(1)>>, 6) \o Ins("vcombine", <<v(5), v(6)>>, 5),
         Ins("vunpacklo", <<v(1), v(2)>>, 5) \o Ins("vunpackhi", <<v(1), v(2)>>, 6) \o Ins("vunzip", <<v(5), v(6)>>, 5),
         Ins("vwidenlo", <<v(1)>>, 5) \o Ins("vwidenhi", <<v(1)>>, 6) \o Ins("vnarrow", <<v(5), v(6)>>, 5),
         Ins("vpermvar", <<v(1), v(3)>>, 5) \o Ins("vpermvar", <<v(5), v(4)>>, 5),
         Ins("valign", <<v(1), v(2), count>>, 5) \o Ins("valign", <<v(2), v(1), count>>, 6)
           \o Ins("valign", <<v(6), v(5), num(4)>>, 5),
         Ins("vextract128", <<v(1), imm(0)>>, 5) \o Ins("vextract128", <<v(1), imm(1)>>, 6)
           \o Ins("vinsert128", <<v(5), imm(1), v(6)>>, 5),
         Ins("vextract128", <<v(1), index>>, 5) \o Ins("vinsert128", <<v(1), index, v(5)>>, 5),
         Ins("vextract", <<v(1), index>>, 5) \o Ins("vinsert", <<v(1), index, num(5)>>, 5),
         Ins("vcompress", <<v(1), mask>>, 5) \o Ins("vexpand", <<v(5), mask>>, 5)
           \o Ins("knot", <<mask>>, 5) \o Ins("vcompress", <<v(1), num(5)>>, 6) \o Ins("vexpand", <<v(6), num(5)>>, 6)
           \o Ins("vor", <<v(5), v(6)>>, 5),
         Ins("vcompressstore", <<address, mask, v(1)>>, 5) \o Ins("vexpandload", <<address, mask>>, 5)
           \o Ins("knot", <<mask>>, 5) \o Ins("vcompressstore", <<address, num(5), v(1)>>, 6)
           \o Ins("vexpandload", <<address, num(5)>>, 6) \o Ins("vor", <<v(5), v(6)>>, 5),
         Ins("vscatter", <<address, v(3), v(1)>>, 5) \o Ins("vgather", <<address, v(3)>>, 5)}

(* Codes that end with the same in the vectors 5 and 6, and the numbers,   *)
(* if they began so: 5 and 6 hold the table of a selection.  They are for  *)
(* four lanes or more: vreduce4 of fewer is 0.                             *)
Dual(o, o2) ==
  Ins("vnot", <<v(1)>>, 7) \o Ins(o, <<v(1)>>, 5) \o Ins(o2, <<v(7)>>, 6) \o Ins("vsplat", <<num(5)>>, 5)
    \o Ins("vsplat", <<num(6)>>, 6) \o Ins("vnot", <<v(6)>>, 6) \o Ins("vextract", <<v(6), imm(0)>>, 6)

Distributes(reduce, o) ==
  Ins(reduce, <<v(1)>>, 5) \o Ins(reduce, <<v(2)>>, 6) \o Ins("vsplat", <<num(5)>>, 5) \o Ins("vsplat", <<num(6)>>, 6)
    \o Ins(o, <<v(5), v(6)>>, 5) \o Ins("vextract", <<v(5), imm(0)>>, 5)
    \o Ins(o, <<v(1), v(2)>>, 7) \o Ins(reduce, <<v(7)>>, 6) \o Ins("vsplat", <<num(6)>>, 6)

TwoWays ==
  {Ins("vshiftin", <<v(1), num(5)>>, 5) \o Ins("vsplat", <<num(5)>>, 6) \o Ins("valign", <<v(1), v(6), imm(1)>>, 6),
   Ins("vzero", <<>>, 6) \o Ins("vshiftout", <<v(1)>>, 5) \o Ins("vreverse", <<v(1)>>, 7)
     \o Ins("valign", <<v(7), v(6), imm(1)>>, 7) \o Ins("vreverse", <<v(7)>>, 6),
   Ins("vextract", <<v(1), index>>, 5) \o Ins("vsplat", <<num(5)>>, 5) \o Ins("vdupelem", <<v(1), index>>, 6)
     \o Ins("vextract", <<v(6), imm(0)>>, 6),
   Ins("vload", <<address>>, 5) \o Ins("vdupelem", <<v(5), imm(0)>>, 5) \o Ins("vloadsplat", <<address>>, 6),
   Ins("viota", <<>>, 7) \o Ins("vload", <<address>>, 5) \o Ins("vgather", <<address, v(7)>>, 6),
   Ins("viota", <<>>, 7) \o Ins("vloadk", <<address, mask>>, 5) \o Ins("vgatherk", <<address, mask, v(7)>>, 6),
   Ins("kcvtmask", <<v(2)>>, 5) \o Ins("vloadk", <<address, num(5)>>, 5) \o Ins("vmaskload", <<address, v(2)>>, 6)
     \o Ins("kmov", <<num(5)>>, 6),
   Ins("vcompress", <<v(1), mask>>, 5) \o Ins("vzero", <<>>, 6) \o Ins("vstore", <<address, v(6)>>, 6)
     \o Ins("vcompressstore", <<address, mask, v(1)>>, 6) \o Ins("vload", <<address>>, 6),
   Ins("vshuffle", <<v(1), v(3)>>, 5) \o Ins("vpermvar", <<v(1), v(3)>>, 6),
   Ins("viota", <<>>, 7) \o Ins("vsplat", <<count>>, 6) \o Ins("vadd", <<v(7), v(6)>>, 7)
     \o Ins("vshuffle", <<v(1), v(2), v(7)>>, 5) \o Ins("valign", <<v(1), v(2), count>>, 6),
   Ins("vcmplt", <<v(1), v(2)>>, 7) \o Ins("vselect", <<v(7), v(1), v(2)>>, 5) \o Ins("vmin", <<v(1), v(2)>>, 6),
   Ins("vmin", <<v(1), v(2)>>, 5) \o Ins("vmin", <<v(5), v(7)>>, 5) \o Ins("vmin3", <<v(1), v(2), v(7)>>, 6),
   Ins("vmax", <<v(1), v(2)>>, 5) \o Ins("vmax", <<v(5), v(7)>>, 5) \o Ins("vmax3", <<v(1), v(2), v(7)>>, 6),
   Ins("vsignselect", <<v(1), v(2), v(7)>>, 5) \o Ins("vsignbit", <<v(7)>>, 6)
     \o Ins("vbitselect", <<v(2), v(1), v(6)>>, 6),
   Ins("vternlog", <<v(1), v(2), v(7), num(6)>>, 5) \o Ins("vbitselect", <<v(1), v(2), v(7)>>, 6),
   Ins("vones", <<>>, 6) \o Ins("vsplat", <<imm(1)>>, 7) \o Ins("vshr", <<v(6), v(7)>>, 7)
     \o Ins("vmin", <<v(1), v(7)>>, 5) \o Ins("vmin", <<v(2), v(7)>>, 6) \o Ins("vnarrow", <<v(5), v(6)>>, 6)
     \o Ins("vpacks", <<v(1), v(2)>>, 5),
   Ins("vzero", <<>>, 7) \o Ins("vmax", <<v(1), v(7)>>, 5) \o Ins("vnarrow", <<v(5), v(5)>>, 5)
     \o Ins("vpacku", <<v(1)>>, 6),
   Ins("vwiden256", <<v(1)>>, 5) \o Ins("vnarrow256", <<v(5)>>, 5) \o Ins("vlohalf", <<v(5)>>, 5)
     \o Ins("vlohalf", <<v(1)>>, 6),
   Ins("vzip", <<v(1), v(2)>>, 5) \o Ins("vextend", <<v(1)>>, 6) \o Ins("vunzip", <<v(5), v(2)>>, 5)
     \o Ins("vunzip", <<v(6), v(2)>>, 6),
   Ins("vbroadcast128", <<v(1)>>, 5) \o Ins("vperm128", <<v(1), imm(0)>>, 6),
   Ins("vinterleave128", <<v(1), v(2)>>, 5) \o Ins("vextract128", <<v(5), imm(1)>>, 5)
     \o Ins("vextract128", <<v(2), imm(0)>>, 6),
   Ins("vswaphalves", <<v(1)>>, 5) \o Ins("vlohalf", <<v(1)>>, 6) \o Ins("vhihalf", <<v(1)>>, 7)
     \o Ins("vconcat", <<v(7), v(6)>>, 6),
   Ins("vabsdiff", <<v(1), v(2)>>, 7) \o Ins("vreduceadd", <<v(7)>>, 5) \o Ins("vsad", <<v(1), v(2)>>, 7)
     \o Ins("vsum", <<v(7)>>, 6),
   Ins("vmul", <<v(1), v(2)>>, 7) \o Ins("vreduceadd", <<v(7)>>, 5) \o Ins("vdot", <<v(1), v(2)>>, 6),
   Ins("vreduce2", <<v(1)>>, 5) \o Ins("vreduce2", <<v(5)>>, 5) \o Ins("vreduce4", <<v(1)>>, 6),
   Ins("vreduce4", <<v(1)>>, 7) \o Ins("vsum", <<v(1)>>, 5) \o Ins("vsum", <<v(7)>>, 6),
   Dual("vreduceand", "vreduceor"), Dual("vreducemin", "vreducemax"),
   Distributes("vreducemul", "vmul"), Distributes("vreducexor", "vxor"),
   Ins("vswizzle", <<v(1), v(3)>>, 5) \o Ins("vshuffle", <<v(1), v(1), v(3)>>, 6),
   Ins("vsplat", <<num(5)>>, 7) \o Ins("vinsert", <<v(1), imm(0), num(5)>>, 5) \o Ins("viota", <<>>, 6)
     \o Ins("vselect", <<v(6), v(1), v(7)>>, 6),
   Ins("vdupelem", <<v(1), imm(0)>>, 5) \o Ins("vdupelem", <<v(2), imm(0)>>, 6) \o Ins("vconcat", <<v(5), v(6)>>, 6)
     \o Ins("vextract", <<v(1), imm(1)>>, 5) \o Ins("vinsert", <<v(6), imm(0), num(5)>>, 6)
     \o Ins("vshufi", <<v(1), v(2), imm(1)>>, 5) \o Ins("vextract", <<v(5), imm(0)>>, 6)}

(* Lanes that share an index: the last of them is in memory.  The word of  *)
(* a lane has no room for more lanes than the lane has bits.               *)
Conflicting ==
  Ins("vconflict", <<v(2)>>, 5) \o Ins("vscatter", <<address, v(2), v(1)>>, 6) \o Ins("vgather", <<address, v(2)>>, 6)

WordsHoldLanes == nlanes - 1 <= bitWidth(lane)

Finished == pc > Len(code)

(* An index is taken for the lane, or the first lane of the group of 16    *)
(* bytes, that it is modulo 2^64: only one that is none of these throws.   *)
LaneIndices == {"vextract", "vinsert", "vdupelem"}
GroupIndices == {"vextract128", "vinsert128"}

GoodIndex(k) ==
  LET at == readOperand(vjob.vectors, vjob.numbers, code[k], 2)
      Same(m, n) == (m - n) % 2^Width["ptr"] = 0
  IN  at >= 0 /\ IF code[k].op \in LaneIndices THEN \E i \in LaneIds : Same(at, i)
                 ELSE \E g \in 0 .. nlanes \div perGroup - 1 : Same(at * perGroup, g * perGroup)

HasIndex(k) == code[k].op \in LaneIndices \cup GroupIndices

OnlyIndicesThrow ==
  code \in RoundTrips \cup TwoWays \cup {Conflicting} =>
    /\ vthrew => HasIndex(pc) /\ ~ GoodIndex(pc)
    /\ \A k \in 1 .. pc - 1 : HasIndex(k) => GoodIndex(k)

(* Lanes that are moved, packed or stored and then moved, unpacked or      *)
(* loaded back are the lanes they were; and where two sequences of         *)
(* instructions do the same, they leave the same vector and the same       *)
(* number.  After a scatter each place holds the last lane that was sent to*)
(* it, which is the one vconflict finds no later lane in conflict with.    *)
(* None of these codes throws but for an index outside of the vector       *)
(* (vectorCompute, vectorComputeWide, Opcode::VScatter).                   *)
LanesComeBack ==
  /\ OnlyIndicesThrow
  /\ Finished /\ code \in RoundTrips => \A i \in LaneIds : vectors[5][i] = vjob.vectors[1][i]
  /\ Finished /\ code \in TwoWays =>
       numbers[5] = numbers[6] /\ \A i \in LaneIds : vectors[5][i] = vectors[6][i]
  /\ Finished /\ code = Conflicting /\ WordsHoldLanes =>
       \A i \in LaneIds :
         LET later == {j \in LaneIds : maskBit(vectors[5][j], i)}
         IN  vectors[6][i] = vjob.vectors[1][IF later = {} THEN i ELSE Max(later)]

(* A mask word is the set of the lanes whose bits are set, whatever its    *)
(* other bits: the mask instructions are the algebra of these sets and     *)
(* clear the bits above the lanes, and what they count, find or test is    *)
(* what the set has.  The masks that vectors are turned into have the lanes*)
(* that the tests of the vector count (vectorComputeWide).                 *)
SetOf(o, A, B) ==
  CASE o = "kset" -> LaneIds
    [] o = "kclr" -> {}
    [] o = "kmov" -> A
    [] o = "knot" -> LaneIds \ A
    [] o = "kand" -> A \cap B
    [] o = "kor" -> A \cup B
    [] o = "kxor" -> (A \ B) \cup (B \ A)
    [] o = "kandn" -> B \ A
    [] o = "kxnor" -> (A \cap B) \cup (LaneIds \ (A \cup B))

(* The number an instruction wrote, the lanes whose bits it has, and the   *)
(* lanes that its operands select.                                         *)
written == numbers[only.dest]
WrittenSet == {i \in 0 .. Width["i64"] - 1 : maskBit(written, i)}
FirstSet == Chosen(had[1], nlanes)
SecondSet == Chosen(had[2], nlanes)
TrueLanes == {i \in LaneIds : had[1][i] # 0}

MovedUp(S, k) == {i + k : i \in S}
MovedDown(S, k) == {i - k : i \in {j \in S : j >= k}}
LowHalf == 0 .. nlanes \div 2 - 1

MasksCombine ==
  /\ only.op \in {"kset", "kclr", "kmov", "knot", "kand", "kor", "kxor", "kandn", "kxnor"} =>
       WrittenSet = SetOf(only.op, FirstSet, SecondSet)
  /\ only.op = "kshiftl" => WrittenSet = MovedUp(FirstSet, SizeT(had[2])) \cap LaneIds
  /\ only.op = "kshiftr" => WrittenSet = MovedDown(FirstSet, SizeT(had[2]))
  /\ only.op = "kunpack" =>
       WrittenSet = (FirstSet \cap LowHalf) \cup MovedUp(SecondSet \cap LowHalf, nlanes \div 2)
  /\ only.op = "kcvtmask" => WrittenSet = TrueLanes

MasksCount ==
  /\ only.op = "ktest" => written = Truth(FirstSet \cap SecondSet # {})
  /\ only.op = "kortest" => written = Truth(FirstSet # {} \/ SecondSet # {})
  /\ only.op = "kcount" => written = Cardinality(FirstSet)
  /\ only.op = "kfirst" =>
       IF FirstSet = {} THEN written = -1 ELSE written \in FirstSet /\ \A i \in FirstSet : written <= i
  /\ only.op = "klast" =>
       IF FirstSet = {} THEN written = -1 ELSE written \in FirstSet /\ \A i \in FirstSet : i <= written

LanesCount ==
  /\ only.op = "vcountones" => written = Cardinality(TrueLanes)
  /\ only.op = "vbitmask" =>
       \A i \in LaneIds : i < Width["i32"] => (maskBit(written, i) <=> laneSignBit(had[1][i], lane))
  /\ only.op = "vanytrue" => written = Truth(\E i \in LaneIds : had[1][i] # 0)
  /\ only.op = "valltrue" => written = Truth(\A i \in LaneIds : had[1][i] # 0)
  /\ only.op = "vtestz" => written = Truth(\A i \in LaneIds : had[1][i] = 0)

MasksAreSets == Single /\ ~ vthrew => MasksCombine /\ MasksCount /\ LanesCount
=============================================================================
