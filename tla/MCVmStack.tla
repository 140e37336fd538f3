----------------------------- MODULE MCVmStack -----------------------------
(* An instance of VmStack for TLC: five bytes of stack, which hold one     *)
(* flag word and a byte, two-byte values, and a call.                      *)
EXTENDS VmStack

MCValues == {[type |-> "i16", bytes |-> <<255, 0>>]}
MCPopTypes == {"i8"}
MCPositions == {-1, 1, 5, 6, 257, 262}
=============================================================================
