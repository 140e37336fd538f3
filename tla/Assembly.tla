------------------------------ MODULE Assembly ------------------------------
(***************************************************************************)
(* Assembly text, as frontend/lexer.cpp and frontend/parser.cpp read it    *)
(* and format/disassemble.cpp writes it.  A text is the sequence of its    *)
(* tokens, each with its kind and what it says; a character no token       *)
(* begins with is the token Odd.  The opcodes are one of every shape that  *)
(* the flags and extensions of include/uasm/opcodes.def tell apart.        *)
(***************************************************************************)
EXTENDS Parsing

CONSTANT Printed(_)   (* The tokens a floating-point number is printed as. *)

Types == {"void", "i32", "i64", "f64", "v128", "v256", "v512"}

(* The extension a type needs, or an instruction, if it needs one.         *)
TypeExtension(t) ==
  CASE t = "v128" -> {"simd128"} [] t = "v256" -> {"simd256"} [] t = "v512" -> {"simd512"}
    [] OTHER -> {}

Shape(flags_, ext_) == [flags |-> flags_, ext |-> ext_]
OpcodeTable ==
  [mov          |-> Shape({"suffix", "dest"}, {}),
   cmp          |-> Shape({"suffix"}, {}),
   sext         |-> Shape({"suffix", "suffix2", "dest"}, {}),
   beq          |-> Shape({}, {}),
   call         |-> Shape({}, {}),
   callindirect |-> Shape({"suffix", "dest"}, {}),
   ret          |-> Shape({"suffix"}, {}),
   retvoid      |-> Shape({"no operands"}, {}),
   trap         |-> Shape({"no operands"}, {}),
   vsplat       |-> Shape({"suffix", "suffix2", "dest"}, {"simd128"}),
   vstore       |-> Shape({"suffix", "suffix2"}, {"simd128"}),
   vlohalf      |-> Shape({"suffix", "suffix2", "dest"}, {"simd256"}),
   kset         |-> Shape({"suffix", "suffix2", "dest"}, {"simd512"})]

Takes(op, flag) == flag \in OpcodeTable[op].flags

(* Ret and RetVoid have one name, and the table finds Ret by it.           *)
opcodeName(op) == IF op = "retvoid" THEN "ret" ELSE op
Mnemonics == DOMAIN OpcodeTable \ {"retvoid"}

NoDest == "none"
-----------------------------------------------------------------------------
(* Tokens. *)
End == <<"end", "">>
Odd == <<"odd", "">>

(* lex: a text with a character that begins no token has no tokens.        *)
Lexed(text) == Odd \notin ToSet(text)

Cur(text, pos) == IF pos > Len(text) THEN End ELSE text[pos]
check(text, pos, kind) == Cur(text, pos)[1] = kind
checkSign(text, pos, sign) == Cur(text, pos) = <<"sign", sign>>

expectAny(text, pos, kind) ==
  IF check(text, pos, kind) THEN Read(Cur(text, pos)[2], pos + 1) ELSE Failure

expectIdent(text, pos, word) ==
  IF Cur(text, pos) = <<"ident", word>> THEN Read(word, pos + 1) ELSE Failure

expectSign(text, pos, sign) ==
  IF checkSign(text, pos, sign) THEN Read(sign, pos + 1) ELSE Failure

expectType(text, pos) ==
  Then(expectAny(text, pos, "ident"), LAMBDA t, p : IF t \in Types THEN Read(t, p) ELSE Failure)
-----------------------------------------------------------------------------
(* Instructions. *)

isOperandStart(text, pos) == Cur(text, pos)[1] \in {"reg", "int", "float", "ident", "param"}

(* A parameter's name stands for the register it is bound to.              *)
parseOperand(text, pos, params) ==
  LET t == Cur(text, pos)
  IN  CASE t[1] = "param" ->
             IF t[2] \in DOMAIN params THEN Read([kind |-> "reg", is |-> params[t[2]]], pos + 1) ELSE Failure
        [] t[1] = "ident" -> Read([kind |-> "symbol", is |-> t[2]], pos + 1)
        [] t[1] \in {"reg", "int", "float"} -> Read([kind |-> t[1], is |-> t[2]], pos + 1)
        [] OTHER -> Failure

(* An instruction may go without operands, however many it needs to run.   *)
parseOperands(text, pos, params) ==
  IF ~ isOperandStart(text, pos) THEN Read(<<>>, pos)
  ELSE Then(parseOperand(text, pos, params), LAMBDA first, p :
         While(Read(<<first>>, p),
               LAMBDA q : checkSign(text, q, ","),
               LAMBDA q : parseOperand(text, q + 1, params), Len(text) + 1))

(* The first operand is the destination, of a call the second one.         *)
WithDest(instr, operands, at) ==
  IF Len(operands) < at THEN Read([instr EXCEPT !.operands = operands], 0)
  ELSE IF operands[at].kind # "reg" THEN Failure
  ELSE Read([instr EXCEPT !.dest = operands[at].is, !.operands = RemoveAt(operands, at)], 0)

WithOperands(instr, operands) ==
  IF Takes(instr.op, "dest") THEN WithDest(instr, operands, 1)
  ELSE IF instr.op # "call" THEN Read([instr EXCEPT !.operands = operands], 0)
  ELSE IF operands = <<>> \/ operands[1].kind # "symbol" THEN Failure
  ELSE WithDest(instr, operands, 2)

Suffix(text, pos, taken, default) ==
  IF taken THEN Then(expectSign(text, pos, "."), LAMBDA dot, p : expectType(text, p)) ELSE Read(default, pos)

(* The opcode and the types, which must all be enabled. *)
(* Fault: the second type is not looked at. *)
parseHeadOfFirst(text, pos, op, enabled) ==
  Then(Suffix(text, pos, Takes(op, "suffix"), "i32"), LAMBDA type, p :
  Then(Suffix(text, p, Takes(op, "suffix2"), type), LAMBDA type2, q :
    IF OpcodeTable[op].ext \cup TypeExtension(type) \subseteq enabled
    THEN Read([op |-> op, type |-> type, type2 |-> type2, dest |-> NoDest, operands |-> <<>>], q)
    ELSE Failure))

parseHead(text, pos, op, enabled) ==
  Then(Suffix(text, pos, Takes(op, "suffix"), "i32"), LAMBDA type, p :
  Then(Suffix(text, p, Takes(op, "suffix2"), type), LAMBDA type2, q :
    IF OpcodeTable[op].ext \cup TypeExtension(type) \cup TypeExtension(type2) \subseteq enabled
    THEN Read([op |-> op, type |-> type, type2 |-> type2, dest |-> NoDest, operands |-> <<>>], q)
    ELSE Failure))

RetVoid == [op |-> "retvoid", type |-> "i32", type2 |-> "i32", dest |-> NoDest, operands |-> <<>>]

parseInstruction(text, pos, params, enabled) ==
  Then(expectAny(text, pos, "ident"), LAMBDA name, p :
    CASE name = "ret" /\ ~ checkSign(text, p, ".") -> Read(RetVoid, p)
      [] name \notin Mnemonics -> Failure
      [] OTHER ->
           Then(parseHead(text, p, name, enabled), LAMBDA instr, q :
             IF Takes(name, "no operands") THEN Read(instr, q)
             ELSE Then(parseOperands(text, q, params), LAMBDA operands, z :
                    Then(WithOperands(instr, operands), LAMBDA whole, any : Read(whole, z)))))
-----------------------------------------------------------------------------
(* Blocks, functions and modules. *)

(* A name before a colon is the label of the next block.                   *)
isBlockTerminator(text, pos) == checkSign(text, pos + 1, ":")

parseBlock(text, pos, params, enabled) ==
  Then(expectAny(text, pos, "ident"), LAMBDA label, p1 :
  Then(expectSign(text, p1, ":"), LAMBDA colon, p2 :
  Then(While(Read(<<>>, p2),
             LAMBDA q : check(text, q, "ident") /\ ~ isBlockTerminator(text, q),
             LAMBDA q : parseInstruction(text, q, params, enabled), Len(text) + 1),
       LAMBDA code, p3 : Read([label |-> label, instructions |-> code], p3))))

parseParam(text, pos) ==
  Then(expectAny(text, pos, "ident"), LAMBDA name, p1 :
  Then(expectSign(text, p1, ":"), LAMBDA colon, p2 :
  Then(expectType(text, p2), LAMBDA type, p3 : Read([name |-> name, type |-> type], p3))))

parseParams(text, pos) ==
  IF checkSign(text, pos, ")") THEN Read(<<>>, pos)
  ELSE Then(parseParam(text, pos), LAMBDA first, p :
         While(Read(<<first>>, p), LAMBDA q : checkSign(text, q, ","),
               LAMBDA q : parseParam(text, q + 1), Len(text) + 1))

(* The registers of the parameters; of two with one name, the last one's.  *)
currentParams(params) ==
  [n \in {params[i].name : i \in DOMAIN params} |->
     "r" \o ToString(Max({i \in DOMAIN params : params[i].name = n}) - 1)]

Blocks(text, pos, params, enabled) ==
  Then(expectSign(text, pos, "{"), LAMBDA brace, p1 :
  Then(While(Read(<<>>, p1), LAMBDA q : ~ checkSign(text, q, "}"),
             LAMBDA q : parseBlock(text, q, currentParams(params), enabled), Len(text) + 1),
       LAMBDA blocks, p2 : Then(expectSign(text, p2, "}"), LAMBDA end, p3 : Read(blocks, p3))))

parseFunction(text, pos, module, enabled) ==
  LET exported == Cur(text, pos) = <<"ident", "export">>
  IN  Then(expectIdent(text, IF exported THEN pos + 1 ELSE pos, "func"), LAMBDA func, p1 :
      Then(expectAny(text, p1, "ident"), LAMBDA name, p2 :
      Then(expectSign(text, p2, "("), LAMBDA open, p3 :
      Then(parseParams(text, p3), LAMBDA params, p4 :
      Then(expectSign(text, p4, ")"), LAMBDA close, p5 :
      Then(expectSign(text, p5, "->"), LAMBDA arrow, p6 :
      Then(expectType(text, p6), LAMBDA returnType, p7 :
      Then(Blocks(text, p7, params, enabled), LAMBDA blocks, p8 :
        Read([name |-> name, module |-> module, isExported |-> exported,
              params |-> [i \in DOMAIN params |-> params[i].type],
              returnType |-> returnType, blocks |-> blocks], p8)))))))))

(* One module, and functions up to the end of the text.                    *)
parseModule(text, enabled) ==
  IF ~ Lexed(text) THEN Failure
  ELSE Then(expectIdent(text, 1, "module"), LAMBDA word, p1 :
       Then(expectAny(text, p1, "ident"), LAMBDA module, p2 :
         While(Read(<<>>, p2), LAMBDA q : ~ check(text, q, "end"),
               LAMBDA q : parseFunction(text, q, module, enabled), Len(text) + 1)))
-----------------------------------------------------------------------------
(* The disassembler. *)
Ident(word) == <<<<"ident", word>>>>
Sign(sign) == <<<<"sign", sign>>>>

writeOperand(op) ==
  CASE op.kind = "symbol" -> Ident(op.is)
    [] op.kind = "float"  -> Printed(op.is)
    [] OTHER              -> <<<<op.kind, op.is>>>>

(* Items with commas between them. *)
Listed(items) ==
  FlattenSeq([i \in DOMAIN items |-> IF i = 1 THEN items[i] ELSE Sign(",") \o items[i]])

(* The destination is printed first, of a call after the name called.      *)
(* Fault: it is printed first, of a call too. *)
writeOperandsDestFirst(instr) ==
  Listed((IF instr.dest = NoDest THEN <<>> ELSE << << <<"reg", instr.dest>> >> >>)
           \o [i \in DOMAIN instr.operands |-> writeOperand(instr.operands[i])])

writeOperands(instr) ==
  LET items == [i \in DOMAIN instr.operands |-> writeOperand(instr.operands[i])]
      at    == IF instr.op = "call" /\ items # <<>> THEN 2 ELSE 1
  IN  Listed(IF instr.dest = NoDest THEN items ELSE InsertAt(items, at, << <<"reg", instr.dest>> >>))

writeInstruction(instr) ==
  Ident(opcodeName(instr.op))
    \o (IF Takes(instr.op, "suffix") THEN Sign(".") \o Ident(instr.type) ELSE <<>>)
    \o (IF Takes(instr.op, "suffix2") THEN Sign(".") \o Ident(instr.type2) ELSE <<>>)
    \o writeOperands(instr)

writeBlock(block) ==
  Ident(block.label) \o Sign(":")
    \o FlattenSeq([i \in DOMAIN block.instructions |-> writeInstruction(block.instructions[i])])

(* A .uo file has no parameter names.                                      *)
ParamName(i) == "p" \o ToString(i - 1)

writeFunction(fn) ==
  (IF fn.isExported THEN Ident("export") ELSE <<>>) \o Ident("func") \o Ident(fn.name)
    \o Sign("(") \o Listed([i \in DOMAIN fn.params |-> Ident(ParamName(i)) \o Sign(":") \o Ident(fn.params[i])])
    \o Sign(")") \o Sign("->") \o Ident(fn.returnType) \o Sign("{")
    \o FlattenSeq([i \in DOMAIN fn.blocks |-> writeBlock(fn.blocks[i])]) \o Sign("}")

(* The functions of a module together, and the modules in the order in     *)
(* which they come first.                                                  *)
ModulesOf(fns) == FoldLeft(LAMBDA names, f : IF Contains(names, f.module) THEN names ELSE Append(names, f.module), <<>>, fns)

disassemble(fns) ==
  LET names == ModulesOf(fns)
      Section(name) == SelectSeq(fns, LAMBDA f : f.module = name)
  IN  FlattenSeq([m \in DOMAIN names |->
        Ident("module") \o Ident(names[m])
          \o FlattenSeq([i \in DOMAIN Section(names[m]) |-> writeFunction(Section(names[m])[i])])])
=============================================================================
