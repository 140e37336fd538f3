------------------------------ MODULE MCUoFile ------------------------------
(* Programs for TLC: none, one or two of four functions, one of which has  *)
(* every kind of operand, several blocks and parameters, and the others    *)
(* nothing where a name, a parameter or a block may be.                    *)
EXTENDS UoFile

Reg(r)  == [kind |-> 0, data |-> <<r, 0, 0, 0>>]
Imm(v)  == [kind |-> 1, data |-> <<v, 0, 0, 0, 0, 0, 0, 0>>]
Flt     == [kind |-> 2, data |-> <<0, 0, 0, 0, 0, 0, 240, 63>>]
Sym(c)  == [kind |-> 3, data |-> <<c, c>>]

Instr(opcode, operands) ==
  [head |-> <<opcode, 1, 3, 3, 1, 0, 0, 0, 0>>, operands |-> operands]

Fn(name, params, blocks) ==
  [name |-> name, module |-> <<109>>, isExported |-> 1, params |-> params,
   returnType |-> 3, blocks |-> blocks]

Labelled(label, code) == [label |-> label, code |-> code]

Empty  == Fn(<<102>>, <<>>, <<>>)
Plain  == Fn(<<102>>, <<>>, <<Labelled(<<101>>, <<Instr(2, <<>>)>>)>>)
Caller == Fn(<<102, 103>>, <<3, 13>>,
             <<Labelled(<<101>>, <<Instr(4, <<Reg(1), Imm(7)>>), Instr(5, <<Flt>>)>>),
               Labelled(<<>>, <<Instr(6, <<Sym(97), Reg(0)>>)>>)>>)
Hollow == Fn(<<>>, <<0>>, <<Labelled(<<0>>, <<>>)>>)

MCPrograms ==
  {[functions |-> fns, entryIndex |-> e] :
     fns \in BoundedSeq({Empty, Plain, Caller, Hollow}, 2), e \in {0, 1}}

(* What the proofs about files assume holds of these.                      *)
ASSUME FitAssumption == CountsFit
=============================================================================
