------------------------------- MODULE Linker -------------------------------
(***************************************************************************)
(* link(): one program from the objects of its source files, or the        *)
(* LinkError they have.                                                    *)
(***************************************************************************)
EXTENDS Integers, SequencesExt

Instructions(f) == FlattenSeq([b \in DOMAIN f.blocks |-> f.blocks[b].instructions])

(* The functions of the objects, in their order.                           *)
Merged(objects) == FlattenSeq(objects)

Defining(fns, name) == {i \in DOMAIN fns : fns[i].name = name}

Duplicated(fns) == \E i \in DOMAIN fns : Cardinality(Defining(fns, fns[i].name)) > 1

(* Fault: the first block of a function is looked at, and no other.        *)
CallsOfEntry(f) ==
  {i \in UNION {ToSet(f.blocks[b].instructions) : b \in DOMAIN f.blocks \cap {1}} : i.op = "call"}

(* Only call is looked at, not tailcall. *)
CallsOf(f) == {i \in ToSet(Instructions(f)) : i.op = "call"}

Unresolved(fns) ==
  \E i \in DOMAIN fns : \E c \in CallsOf(fns[i]) : Defining(fns, c.operands[1].is) = {}

Refused(why) == [ok |-> FALSE, error |-> why]

link(objects) ==
  LET fns == Merged(objects)
  IN  CASE Duplicated(fns) -> Refused("duplicate function definition")
        [] Unresolved(fns) -> Refused("unresolved call")
        [] Defining(fns, "main") = {} -> Refused("no main")
        [] \E i \in Defining(fns, "main") : ~ fns[i].isExported -> Refused("main is not exported")
        [] OTHER -> [ok |-> TRUE,
                     program |-> [functions  |-> fns,
                                  entryIndex |-> CHOOSE i \in DOMAIN fns : fns[i].name = "main"]]
=============================================================================
