----------------------------- MODULE CodeImage -----------------------------
(***************************************************************************)
(* linkCompiledFunctions: the code of the functions is laid out in program *)
(* order and every call is patched with the distance to its callee.        *)
(* Addresses count instruction words.                                      *)
(***************************************************************************)
EXTENDS Integers, SequencesExt

CONSTANT ImmRange   (* 2^26: the values of the offset field of a branch.     *)

ASSUME ImmAssumption == ImmRange \in Nat \ {0}

(* A CompiledFunction has a name, its number of words and its callFixups;  *)
(* until a worker assigns it, it is empty.                                 *)
NotCompiled == [name |-> "", size |-> 0, calls |-> <<>>]

Start(compiled, i) == FoldLeft(LAMBDA sum, f : sum + f.size, 0, SubSeq(compiled, 1, i - 1))

Named(compiled, name) == {i \in DOMAIN compiled : compiled[i].name = name}

(* The name of a later function replaces that of an earlier one.           *)
functionStart(compiled, name) == Start(compiled, Max(Named(compiled, name)))

Resolved(compiled) ==
  \A i \in DOMAIN compiled : \A k \in DOMAIN compiled[i].calls :
    Named(compiled, compiled[i].calls[k].callee) # {}

(* The patched word: the distance in the low 26 bits.                      *)
(* Fault: the distance is counted from the start of the caller.            *)
BranchFromStart(compiled, i, call) ==
  LET base == functionStart(compiled, compiled[i].name)
  IN  [at |-> base + call.at, imm26 |-> (functionStart(compiled, call.callee) - base) % ImmRange]

Branch(compiled, i, call) ==
  LET at == functionStart(compiled, compiled[i].name) + call.at
  IN  [at |-> at, imm26 |-> (functionStart(compiled, call.callee) - at) % ImmRange]

LinkedCode(compiled, entry) ==
  [branches    |-> UNION {{Branch(compiled, i, compiled[i].calls[k]) :
                             k \in DOMAIN compiled[i].calls} : i \in DOMAIN compiled},
   entryOffset |-> functionStart(compiled, entry)]

-----------------------------------------------------------------------------
(* Where the processor goes from a branch: the field is signed.            *)
Target(b) == b.at + (IF 2 * b.imm26 < ImmRange THEN b.imm26 ELSE b.imm26 - ImmRange)

(* Each call that was compiled is, where its function was laid out, a      *)
(* branch to the first word of a function of the callee's name.            *)
CallsLand(compiled, code) ==
  \A i \in DOMAIN compiled : \A k \in DOMAIN compiled[i].calls :
    LET call == compiled[i].calls[k]
    IN  \E b \in code.branches :
          /\ b.at = Start(compiled, i) + call.at
          /\ \E j \in Named(compiled, call.callee) : Target(b) = Start(compiled, j)
=============================================================================
