------------------------------- MODULE UoFile -------------------------------
(***************************************************************************)
(* The .uo file that uasm compile -o writes and uasm run, dump and build   *)
(* read.  writeUo truncates the file and hands its bytes to an output      *)
(* stream, which passes them on to the file when its buffer is full and,   *)
(* last, when it is destroyed.  The process may die or the disk fill up at *)
(* any byte.  A reader may come at any moment: readUo takes what is there. *)
(***************************************************************************)
EXTENDS UoFormat

CONSTANT Programs   (* The programs that are compiled to the file. *)

(* No count is larger than the field it is written to, which writeUo does  *)
(* not check.                                                              *)
CountsFit == Programs \subseteq Program

VARIABLES
  file,      (* The bytes in the file; a missing file reads as an empty one.  *)
  program,   (* What the last writer was given.                               *)
  writer,    (* "none", "writing", or "closing": writeUo has seen no error.   *)
  report     (* What uasm compile told its user last.                         *)

vars == <<file, program, writer, report>>

Init ==
  /\ file = <<>>
  /\ program \in Programs
  /\ writer = "none"
  /\ report = "nothing"

(* The stream is opened, which empties the file. *)
Open(p) ==
  /\ writer = "none"
  /\ program' = p
  /\ file' = <<>>
  /\ writer' = "writing"
  /\ report' = "nothing"

Rest == SubSeq(Encoded(program), Len(file) + 1, Len(Encoded(program)))

(* Some bytes that were in the buffer reach the file. *)
Flush ==
  /\ writer # "none"
  /\ Rest # <<>>
  /\ file' = Append(file, Head(Rest))
  /\ UNCHANGED <<program, writer, report>>

(* Every byte was handed over and the stream is good: writeUo returns.     *)
Check ==
  /\ writer = "writing"
  /\ writer' = "closing"
  /\ UNCHANGED <<file, program, report>>

Close ==
  /\ writer = "closing"
  /\ Rest = <<>>
  /\ writer' = "none"
  /\ report' = "compiled"
  /\ UNCHANGED <<file, program>>

(* The disk has no room for the rest.  A stream that is being written to   *)
(* turns bad and writeUo throws; one that is being destroyed tells no one. *)
DiskFull ==
  /\ writer # "none"
  /\ Rest # <<>>
  /\ writer' = "none"
  /\ report' = IF writer = "writing" THEN "failed" ELSE "compiled"
  /\ UNCHANGED <<file, program>>

Crash ==
  /\ writer # "none"
  /\ writer' = "none"
  /\ UNCHANGED <<file, program, report>>

Next ==
  \/ \E p \in Programs : Open(p)
  \/ Flush
  \/ Check
  \/ Close
  \/ DiskFull
  \/ Crash

Spec == Init /\ [][Next]_vars
-----------------------------------------------------------------------------
(* A reader never takes a part of a file for a program: wherever a writer  *)
(* stopped or is, readUo refuses the file unless all of it is there.       *)
OnlyWholeFilesRead ==
  Decoded(file).ok => file = Encoded(program)

(* And all of it reads as the program that was compiled.                   *)
WholeFilesReadBack ==
  file = Encoded(program) => Decoded(file).ok /\ Decoded(file).value = program

(* "Each stage of the toolchain reports failure": when uasm compile says   *)
(* that it compiled, its output is there to be run.                        *)
SuccessMeansWritten == report = "compiled" => Decoded(file).ok
=============================================================================
