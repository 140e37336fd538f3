------------------------------ MODULE Parsing -------------------------------
(***************************************************************************)
(* Readers.  Each takes a position in what is read, and gives what it read *)
(* there and the position after it, or fails: an exception in the code,    *)
(* which gives up everything read so far.                                  *)
(***************************************************************************)
EXTENDS Integers, SequencesExt

Read(value, pos) == [ok |-> TRUE, value |-> value, pos |-> pos]
Failure == [ok |-> FALSE]

(* What is read next is made of what was read so far.                      *)
Then(r, next(_, _)) == IF r.ok THEN next(r.value, r.pos) ELSE Failure

(* Items after those read so far, while there are more.  Each takes a      *)
(* place or more, and last is the place after everything there is to read. *)
While(sofar, more(_), read(_), last) ==
  LET Items[p \in 1 .. last] ==
        IF ~ more(p) THEN Read(<<>>, p)
        ELSE Then(read(p), LAMBDA item, q :
               Then(Items[q], LAMBDA items, z : Read(<<item>> \o items, z)))
  IN  Then(sofar, LAMBDA first, p : Then(Items[p], LAMBDA items, q : Read(first \o items, q)))
=============================================================================
