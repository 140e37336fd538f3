------------------------------ MODULE UoFormat ------------------------------
(***************************************************************************)
(* The .uo format as format/serializer.cpp writes and reads it, byte for   *)
(* byte.  A Program is a sequence of functions and an entry index; names   *)
(* and labels are byte strings, the fixed fields of an instruction are     *)
(* its nine-byte head, and an operand is its kind with the bytes of its    *)
(* register number, immediate or symbol; a label is written as a symbol,   *)
(* and the parser makes none.                                              *)
(***************************************************************************)
EXTENDS Parsing

Magic    == <<85, 65, 83, 77, 33, 48>>   (* "UASM!0" *)
Sentinel == <<255, 255, 255, 255>>
Version  == 1

SymbolKind == 3

(* A Program as the parser makes it, a bool being 0 or 1.  Counts and      *)
(* lengths are uint32_t; here they stay below 2^16.  A count of operands   *)
(* or parameters is written as one byte whatever it is.  The fifth byte of *)
(* a head is hasDest.                                                      *)
Byte  == 0 .. 255
Bytes(n) == {s \in Seq(Byte) : Len(s) = n}
Fewer(n, S) == {s \in Seq(S) : Len(s) < n}
Limit == 65536

Text == Fewer(Limit, Byte)
Operand ==
  [kind : {0}, data : Bytes(4)] \cup [kind : {1, 2}, data : Bytes(8)]
    \cup [kind : {SymbolKind}, data : Text]
Fields == {b \in Bytes(9) : b[5] \in {0, 1}}
Instruction == [head : Fields, operands : Fewer(256, Operand)]
Block == [label : Text, code : Fewer(Limit, Instruction)]
Function ==
  [name : Text, module : Text, isExported : {0, 1}, params : Fewer(256, Byte),
   returnType : Byte, blocks : Fewer(Limit, Block)]
Program == [functions : Fewer(Limit, Function), entryIndex : 0 .. Limit - 1]
-----------------------------------------------------------------------------
(* Writer. *)

u8(v)  == <<v % 256>>
u32(v) == <<v % 256, v \div 256, 0, 0>>
str(s) == u32(Len(s)) \o s

All(items, write(_)) == FlattenSeq([i \in DOMAIN items |-> write(items[i])])

writeData(op) == IF op.kind = SymbolKind THEN str(op.data) ELSE op.data
writeOperand(op) == u8(op.kind) \o writeData(op)

writeInstruction(instr) ==
  instr.head \o u8(Len(instr.operands)) \o All(instr.operands, writeOperand)

writeBlock(block) ==
  str(block.label) \o u32(Len(block.code)) \o All(block.code, writeInstruction)

writeFunction(fn) ==
  str(fn.name) \o str(fn.module) \o u8(fn.isExported)
  \o u8(Len(fn.params)) \o All(fn.params, u8)
  \o u8(fn.returnType)
  \o u32(Len(fn.blocks)) \o All(fn.blocks, writeBlock)

Encoded(program) ==
  Magic \o Sentinel \o u32(Version)
  \o u32(Len(program.functions)) \o All(program.functions, writeFunction)
  \o u32(program.entryIndex)

-----------------------------------------------------------------------------
(* Reader.  Each step takes the file and a position.                       *)

(* The bytes asked for are there.                                          *)
need(file, pos, len) ==
  IF pos + len - 1 > Len(file) THEN Failure
  ELSE Read(SubSeq(file, pos, pos + len - 1), pos + len)

bool(b) == IF b = 0 THEN 0 ELSE 1

readU8(file, pos) == Then(need(file, pos, 1), LAMBDA b, p : Read(b[1], p))

(* A number of 2^16 or more counts more things than a file here can hold.  *)
readU32(file, pos) ==
  Then(need(file, pos, 4), LAMBDA b, p :
    Read(IF b[3] + b[4] > 0 THEN Limit ELSE b[1] + 256 * b[2], p))

readStr(file, pos) == Then(readU32(file, pos), LAMBDA len, p : need(file, p, len))

(* count times read, a reader at each place, one after the other.  Each    *)
(* takes a byte or more, so that a count larger than the file fails as one *)
(* just larger does.                                                       *)
Places(file) == 1 .. Len(file) + 1

Repeat(file, count, read, pos) ==
  LET most == IF count <= Len(file) THEN count ELSE Len(file) + 1
      sofar[k \in 0 .. most] ==
        IF k = 0 THEN Read(<<>>, pos)
        ELSE Then(sofar[k - 1], LAMBDA items, p :
               Then(read[p], LAMBDA item, q : Read(Append(items, item), q)))
  IN  sofar[most]

readData(file, kind, pos) ==
  IF kind = 0 THEN need(file, pos, 4)
  ELSE IF kind < SymbolKind THEN need(file, pos, 8)
  ELSE readStr(file, pos)

readOperand(file, pos) ==
  Then(readU8(file, pos), LAMBDA kind, p :
    IF kind > SymbolKind THEN Failure
    ELSE Then(readData(file, kind, p), LAMBDA data, q : Read([kind |-> kind, data |-> data], q)))

(* Version 0 has a one-byte opcode and no second type.                     *)
(* Fault: the opcode has one byte in every version. *)
readShortHead(file, version, pos) ==
  Then(need(file, pos, 7), LAMBDA b, p :
    Read(<<b[1], 0, b[2], b[2], bool(b[3])>> \o SubSeq(b, 4, 7), p))

readHead(file, version, pos) ==
  IF version >= 1
  THEN Then(need(file, pos, 9), LAMBDA b, p : Read([b EXCEPT ![5] = bool(@)], p))
  ELSE Then(need(file, pos, 7), LAMBDA b, p :
         Read(<<b[1], 0, b[2], b[2], bool(b[3])>> \o SubSeq(b, 4, 7), p))

readInstruction(file, version, pos) ==
  Then(readHead(file, version, pos), LAMBDA head, p :
    Then(readU8(file, p), LAMBDA count, q :
      Then(Repeat(file, count, [at \in Places(file) |-> readOperand(file, at)], q), LAMBDA operands, z :
        Read([head |-> head, operands |-> operands], z))))

readBlock(file, version, pos) ==
  Then(readStr(file, pos), LAMBDA label, p :
    Then(readU32(file, p), LAMBDA count, q :
      Then(Repeat(file, count, [at \in Places(file) |-> readInstruction(file, version, at)], q),
           LAMBDA code, z : Read([label |-> label, code |-> code], z))))

readFunction(file, version, pos) ==
  Then(readStr(file, pos), LAMBDA name, p1 :
  Then(readStr(file, p1), LAMBDA module, p2 :
  Then(readU8(file, p2), LAMBDA isExported, p3 :
  Then(readU8(file, p3), LAMBDA paramCount, p4 :
  Then(Repeat(file, paramCount, [at \in Places(file) |-> readU8(file, at)], p4), LAMBDA params, p5 :
  Then(readU8(file, p5), LAMBDA returnType, p6 :
  Then(readU32(file, p6), LAMBDA count, p7 :
  Then(Repeat(file, count, [at \in Places(file) |-> readBlock(file, version, at)], p7), LAMBDA blocks, p8 :
    Read([name |-> name, module |-> module, isExported |-> bool(isExported), params |-> params,
          returnType |-> returnType, blocks |-> blocks], p8)))))))))

(* Fault: without an entry index the entry is the first function. *)
readProgramOrFirst(file, version, pos) ==
  Then(readU32(file, pos), LAMBDA count, p :
  Then(Repeat(file, count, [at \in Places(file) |-> readFunction(file, version, at)], p), LAMBDA functions, q :
    Read([functions |-> functions,
          entryIndex |-> IF q > Len(file) THEN 0 ELSE file[q]], q)))

readProgram(file, version, pos) ==
  Then(readU32(file, pos), LAMBDA count, p :
  Then(Repeat(file, count, [at \in Places(file) |-> readFunction(file, version, at)], p), LAMBDA functions, q :
  Then(readU32(file, q), LAMBDA entryIndex, z :
    Read([functions |-> functions, entryIndex |-> entryIndex], z))))

(* A file with room for a version after the magic may have one: the        *)
(* sentinel says so, and a newer version than this one is refused.         *)
HasVersion(file) ==
  /\ Len(file) >= Len(Magic) + 8
  /\ SubSeq(file, Len(Magic) + 1, Len(Magic) + 4) = Sentinel

Decoded(file) ==
  IF Len(file) < Len(Magic) \/ SubSeq(file, 1, Len(Magic)) # Magic THEN Failure
  ELSE IF ~ HasVersion(file) THEN readProgram(file, 0, Len(Magic) + 1)
  ELSE Then(readU32(file, Len(Magic) + 5), LAMBDA version, p :
         IF version > Version THEN Failure ELSE readProgram(file, version, p))
=============================================================================
