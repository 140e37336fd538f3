---------------------------- MODULE CodegenSpec ----------------------------
(***************************************************************************)
(* What compiling a program promises, whatever the number of threads: the  *)
(* code compileProgram makes when every function is in the native subset   *)
(* and every call resolves, and otherwise an error that names a culprit.   *)
(***************************************************************************)
EXTENDS CodeImage

CONSTANT MayTerminate   (* May the host refuse a thread, which ends the process? *)

VARIABLES program, outcome

Pending == [kind |-> "pending"]

Unsupported == {i \in DOMAIN program.functions : ~ program.functions[i].supported}

Code == [i \in DOMAIN program.functions |-> program.functions[i].code]

Init == outcome = Pending

Succeed ==
  /\ Unsupported = {} /\ Resolved(Code)
  /\ outcome' = [kind |-> "code", code |-> LinkedCode(Code, program.entry)]

Reject ==
  \/ \E i \in Unsupported : outcome' = [kind |-> "unsupported", function |-> i]
  \/ /\ Unsupported = {} /\ ~ Resolved(Code)
     /\ outcome' = [kind |-> "unresolved"]

Terminate == MayTerminate /\ outcome' = [kind |-> "terminated"]

Next ==
  /\ outcome = Pending
  /\ Succeed \/ Reject \/ Terminate
  /\ UNCHANGED program

Spec == Init /\ [][Next]_<<program, outcome>>
=============================================================================
