-------------------------- MODULE StackDiscipline --------------------------
(***************************************************************************)
(* Programs that use the VM stack the way spec/ISA.md describes it: what a *)
(* push.T put there a pop.T takes off, the last one first, and setsp only  *)
(* goes back to where the stack pointer was before some of the pushes.     *)
(* The flags are left out: pushf and popf are a push.i32 and a pop.i32.    *)
(***************************************************************************)
EXTENDS VmStack, SequencesExt

CONSTANT
  Pushes   (* The pushes of a program: a type suffix and the Value that the  *)
           (* operand holds, whose type is its own.                          *)

ASSUME PushAssumption ==
  \A p \in Pushes : p.suffix \in Type /\ p.value \in Values

VARIABLES
  pushed,  (* History: the pushes not popped yet, the last one first.        *)
  popped   (* The Value the last pop wrote to its register.                  *)

disciplinedVars == <<vars, pushed, popped>>

NoValue == [type |-> "void", bytes |-> <<>>]

DisciplinedInit == Init /\ pushed = <<>> /\ popped = NoValue

Keeps == status' = "running"

DisciplinedPush(p) ==
  /\ Push(p.value)
  /\ pushed' = IF Keeps THEN <<p>> \o pushed ELSE pushed
  /\ UNCHANGED popped

DisciplinedPop ==
  /\ pushed # <<>>
  /\ Pop(Head(pushed).suffix)
  /\ pushed' = IF Keeps THEN Tail(pushed) ELSE pushed
  /\ popped' = IF Keeps
               THEN [type |-> Head(pushed).suffix, bytes |-> TopBytes(Head(pushed).suffix)]
               ELSE popped

(* The bytes of the first k pushes that are still on the stack. *)
BytesOf(k) == FlattenSeq([i \in 1 .. k |-> pushed[i].value.bytes])

DisciplinedRestore(k) ==
  /\ Setsp(stackPointer + Len(BytesOf(k)))
  /\ pushed' = IF Keeps THEN SubSeq(pushed, k + 1, Len(pushed)) ELSE pushed
  /\ UNCHANGED popped

DisciplinedCall == (Call \/ Tailcall \/ Ret) /\ UNCHANGED <<pushed, popped>>

DisciplinedNext ==
  \/ \E p \in Pushes : DisciplinedPush(p)
  \/ DisciplinedPop
  \/ \E k \in 1 .. Len(pushed) : DisciplinedRestore(k)
  \/ DisciplinedCall

DisciplinedSpec == DisciplinedInit /\ [][DisciplinedNext]_disciplinedVars
-----------------------------------------------------------------------------
(* "pops the top value": the stack holds the values that were pushed and   *)
(* not popped yet, the last one on top, and nothing else.                  *)
StackHoldsPushed ==
  BytesOf(Len(pushed)) =
    [k \in 1 .. StackSize - stackPointer |-> stack[stackPointer + k - 1]]

(* A pop returns the Value of the push it is matched with.                 *)
PopReturnsPushed ==
  [][DisciplinedPop /\ Keeps => popped' = Head(pushed).value]_disciplinedVars
=============================================================================
