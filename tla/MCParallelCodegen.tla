------------------------- MODULE MCParallelCodegen -------------------------
(* Programs of one to four functions for TLC.  Any of them may be outside  *)
(* the native subset; they call forward, backward and themselves, and one  *)
(* may call a function the program does not have.                          *)
EXTENDS ParallelCodegen

Names == <<"main", "f", "g", "h">>
Sizes == <<3, 1, 2, 2>>

CallsOf(i, k, missing) ==
  IF i = 1 THEN <<[at |-> 1, callee |-> Names[k]], [at |-> 2, callee |-> "main"]>>
  ELSE IF i = k THEN <<[at |-> 0, callee |-> IF missing THEN "absent" ELSE "main"]>>
  ELSE <<>>

Program(k, supported, missing) ==
  [functions |-> [i \in 1 .. k |->
     [supported |-> supported[i],
      code |-> [name |-> Names[i], size |-> Sizes[i], calls |-> CallsOf(i, k, missing)]]],
   entry |-> Names[k]]

MCPrograms ==
  UNION {{Program(k, supported, missing) :
            supported \in [1 .. k -> BOOLEAN], missing \in BOOLEAN} : k \in {1, 2, 4}}

(* What the proof that calls reach their callees assumes holds of these.   *)
ASSUME FitAssumption == ProgramsFit
=============================================================================
