------------------------- MODULE MCStackDiscipline -------------------------
(* Instances of StackDiscipline for TLC: programs that push each value     *)
(* with the suffix of its own type.                                        *)
EXTENDS StackDiscipline

Short == [type |-> "i16", bytes |-> <<1, 0>>]
Char  == [type |-> "i8", bytes |-> <<255>>]
Wide  == [type |-> "i32", bytes |-> <<2, 0, 1, 0>>]

MCValues == {Short, Char, Wide}

TypedPushes == {[suffix |-> v.type, value |-> v] : v \in MCValues}
=============================================================================
