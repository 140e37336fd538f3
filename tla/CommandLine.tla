---------------------------- MODULE CommandLine -----------------------------
(***************************************************************************)
(* uasm compile and uasm dump, on files that their user may edit while     *)
(* they run.  A compile expands its patterns one after the other, reads    *)
(* and parses one file after the other, links what it has, and writes the  *)
(* output last; whatever fails on the way ends it.  UoFile is about how    *)
(* the output is written; here it is there at once.                        *)
(***************************************************************************)
EXTENDS Assembly, Globbing

CONSTANT
  Projects   (* The sources of a project, its compiles, and its edits.       *)

VARIABLES
  project,   (* One of them.                                                 *)
  sources,   (* The text of each source file that there is.                  *)
  output,    (* The functions in the .uo file; none while there is no file.  *)
  command,   (* What runs, and what it has found so far.                     *)
  ended,     (* History: the compile that ended last.                        *)
  had,       (* History: what each file was since it began.                  *)
  left       (* The commands and the edits that are left.                    *)

commandVars == <<project, sources, output, command, ended, had, left>>

Object == INSTANCE Linker

Extensions == {"simd128", "simd256", "simd512"}

Idle == [step |-> "idle"]
None == [args |-> [patterns |-> <<>>, flags |-> <<>>], ok |-> FALSE]
Gone == <<>>   (* What a file is that is not there.                          *)

CommandInit ==
  /\ project \in Projects
  /\ sources = project.sources
  /\ output = <<>>
  /\ command = Idle
  /\ ended = None
  /\ had = [f \in {} |-> {}]
  /\ left = project.left
-----------------------------------------------------------------------------
(* parseExtensionFlag, one flag after the other.  Core is always enabled.  *)
Enabled(flags) ==
  FoldLeft(LAMBDA set, f :
             CASE f.flag = "enable-all" -> Extensions
               [] f.flag = "enable"     -> set \cup {f.ext}
               [] f.flag = "disable"    -> set \ {f.ext},
           {}, flags)

UnknownFlag(flags) ==
  \E i \in DOMAIN flags : flags[i].flag # "enable-all" /\ flags[i].ext \notin Extensions \cup {"core"}

Ends(args, ok_) == command' = Idle /\ ended' = [args |-> args, ok |-> ok_]

(* The arguments of uasm compile are looked at before any file is.         *)
Compile(args) ==
  /\ command = Idle /\ left.commands > 0
  /\ left' = [left EXCEPT !.commands = @ - 1]
  /\ had' = [f \in DOMAIN sources |-> {sources[f]}]
  /\ IF args.patterns = <<>> \/ UnknownFlag(args.flags) THEN Ends(args, FALSE)
     ELSE /\ command' = [step |-> "expand", args |-> args, todo |-> args.patterns, files |-> <<>>, objects |-> <<>>]
          /\ ended' = None
  /\ UNCHANGED <<project, sources, output>>

(* Fault: the files are read as the patterns name them. *)
ExpandUnsorted ==
  LET found == expandGlob(Head(command.todo), DOMAIN sources)
      files == command.files \o Sorted(found)
  IN  /\ command.step = "expand"
      /\ IF found = {} THEN Ends(command.args, FALSE)
         ELSE /\ command' = IF Len(command.todo) > 1 THEN [command EXCEPT !.files = files, !.todo = Tail(@)]
                            ELSE [command EXCEPT !.step = "read", !.files = files, !.todo = files]
              /\ UNCHANGED ended
      /\ UNCHANGED <<project, sources, output, had, left>>

(* The next pattern.  A pattern for no file is an error.  After the last   *)
(* pattern the files are sorted, and each is there once.                   *)
Expand ==
  LET found == expandGlob(Head(command.todo), DOMAIN sources)
      files == command.files \o Sorted(found)
  IN  /\ command.step = "expand"
      /\ IF found = {} THEN Ends(command.args, FALSE)
         ELSE /\ command' = IF Len(command.todo) > 1 THEN [command EXCEPT !.files = files, !.todo = Tail(@)]
                            ELSE [command EXCEPT !.step = "read", !.files = files, !.todo = Sorted(ToSet(files))]
              /\ UNCHANGED ended
      /\ UNCHANGED <<project, sources, output, had, left>>

(* readFile and parseModule for the next file. *)
ReadSource ==
  LET f      == Resolved(Head(command.todo))
      parsed == IF f \in DOMAIN sources THEN parseModule(sources[f], Enabled(command.args.flags)) ELSE Failure
  IN  /\ command.step = "read" /\ command.todo # <<>>
      /\ IF ~ parsed.ok THEN Ends(command.args, FALSE)
         ELSE /\ command' = [command EXCEPT !.todo = Tail(@), !.objects = Append(@, parsed.value)]
              /\ UNCHANGED ended
      /\ UNCHANGED <<project, sources, output, had, left>>

(* link, and writeUo if there is a program. *)
Link ==
  LET linked == Object!link(command.objects)
  IN  /\ command.step = "read" /\ command.todo = <<>>
      /\ Ends(command.args, linked.ok)
      /\ output' = IF linked.ok THEN linked.program.functions ELSE output
      /\ UNCHANGED <<project, sources, had, left>>

(* uasm dump, and its output kept in the file f. *)
Dump(f) ==
  /\ command = Idle /\ output # <<>> /\ left.commands > 0
  /\ left' = [left EXCEPT !.commands = @ - 1]
  /\ sources' = [g \in DOMAIN sources \cup {f} |-> IF g = f THEN disassemble(output) ELSE sources[g]]
  /\ UNCHANGED <<project, output, command, ended, had>>

(* The user writes or removes a file, at any moment. *)
Edit(f, text) ==
  /\ left.edits > 0
  /\ left' = [left EXCEPT !.edits = @ - 1]
  /\ sources' = IF text = Gone THEN [g \in DOMAIN sources \ {f} |-> sources[g]]
                ELSE [g \in DOMAIN sources \cup {f} |-> IF g = f THEN text ELSE sources[g]]
  /\ had' = IF command = Idle THEN had
            ELSE [g \in DOMAIN had \cup {f} |->
                    (IF g \in DOMAIN had THEN had[g] ELSE {Gone}) \cup (IF g = f THEN {text} ELSE {})]
  /\ UNCHANGED <<project, output, command, ended>>

CommandNext ==
  \/ \E args \in project.compiles : Compile(args)
  \/ Expand
  \/ ReadSource
  \/ Link
  \/ \E f \in project.dumps : Dump(f)
  \/ \E f \in DOMAIN project.texts : \E text \in project.texts[f] : Edit(f, text)
-----------------------------------------------------------------------------
(* What a pattern is for, as README.md says: a star stands for characters  *)
(* of one segment, two of them for any.  Ends: how much of the path the    *)
(* first characters of the pattern may stand for.                          *)
Doubled(pattern, i) ==
  \/ i > 1 /\ pattern[i - 1] = "*"
  \/ i < Len(pattern) /\ pattern[i + 1] = "*"

Covers(pattern, path) ==
  LET Reach[i \in 0 .. Len(pattern)] ==
        IF i = 0 THEN {0}
        ELSE IF pattern[i] = "*"
        THEN {e \in 0 .. Len(path) : \E s \in Reach[i - 1] :
                s <= e /\ (Doubled(pattern, i) \/ "/" \notin ToSet(SubSeq(path, s + 1, e)))}
        ELSE {e \in 1 .. Len(path) : e - 1 \in Reach[i - 1] /\ path[e] = pattern[i]}
  IN  Len(path) \in Reach[Len(pattern)]

HasStar(pattern) == "*" \in ToSet(pattern)

(* Patterns with stars before a slash or two of them after a name are read *)
(* otherwise.                                                              *)
Plain(pattern) ==
  \A i \in DOMAIN pattern : pattern[i] = "*" =>
    /\ LastSlash(pattern) < i
    /\ Doubled(pattern, i) => i <= LastSlash(pattern) + 2

(* The paths, as the compiler spells them. *)
Meant(pattern, files) ==
  IF ~ HasStar(pattern) THEN {pattern}
  ELSE {IF LastSlash(Resolved(pattern)) = 0 THEN <<".", "/">> \o f ELSE f :
          f \in {g \in files : endsWithUasm(g) /\ Covers(Resolved(pattern), g)}}

(* What a compile makes of texts that do not change. *)
Build(args, texts) ==
  LET files  == {f \in DOMAIN texts : texts[f] # Gone}
      meant  == {Meant(args.patterns[i], files) : i \in DOMAIN args.patterns}
      order  == Sorted(UNION meant)
      parsed == [i \in DOMAIN order |->
                   IF Resolved(order[i]) \in files
                   THEN parseModule(texts[Resolved(order[i])], Enabled(args.flags)) ELSE Failure]
  IN  IF {} \in meant \/ meant = {} \/ UnknownFlag(args.flags) \/ \E i \in DOMAIN order : ~ parsed[i].ok
      THEN Failure
      ELSE Object!link([i \in DOMAIN order |-> parsed[i].value])

Histories == {t \in [DOMAIN had -> UNION Range(had)] : \A f \in DOMAIN had : t[f] \in had[f]}

(* A compile makes of its sources what it is defined to: neither the order *)
(* of the patterns nor a file that two of them name matters.  When files   *)
(* are edited meanwhile, its output is made of a text that each of them    *)
(* had while it ran.                                                       *)
BuildIsTheSources ==
  ended # None /\ (\A i \in DOMAIN ended.args.patterns : Plain(ended.args.patterns[i])) =>
    /\ ended.ok =>
         \E texts \in Histories :
           LET b == Build(ended.args, texts) IN b.ok /\ b.program.functions = output
    /\ (\A f \in DOMAIN had : Cardinality(had[f]) = 1) =>
         \A texts \in Histories : ended.ok = Build(ended.args, texts).ok
-----------------------------------------------------------------------------
InstructionsIn(fns) == UNION {ToSet(Object!Instructions(fns[i])) : i \in DOMAIN fns}

Needs(fns) ==
  UNION {OpcodeTable[i.op].ext \cup TypeExtension(i.type) \cup TypeExtension(i.type2) : i \in InstructionsIn(fns)}

(* The flags decide about a text by the instructions in it and nothing     *)
(* else: it is refused when an extension they need is not enabled, and     *)
(* more extensions never change what it means (tests/run.sh, gating).      *)
GatesAreExact ==
  command = Idle /\ ended = None =>
    \A f \in DOMAIN sources :
      LET whole == parseModule(sources[f], Extensions)
          needs == IF whole.ok THEN Needs(whole.value) ELSE {}
      IN  \A enabled \in SUBSET Extensions :
            parseModule(sources[f], enabled) = IF needs \subseteq enabled THEN whole ELSE Failure

(* A number without a fraction is printed as an integer. *)
AsPrinted(op) ==
  IF op.kind = "float" THEN [kind |-> Printed(op.is)[1][1], is |-> Printed(op.is)[1][2]] ELSE op

PrintedProgram(fns) ==
  [i \in DOMAIN fns |-> [fns[i] EXCEPT !.blocks = [b \in DOMAIN @ |->
     [@[b] EXCEPT !.instructions = [k \in DOMAIN @ |-> [@[k] EXCEPT !.operands =
        [o \in DOMAIN @ |-> AsPrinted(@[o])]]]]]]]

(* The numbers of an exponent are printed as several tokens. *)
HasExponent(fns) ==
  \E i \in InstructionsIn(fns) : \E o \in ToSet(i.operands) : o.kind = "float" /\ Len(Printed(o.is)) > 1

(* What uasm dump prints of a program of one module assembles to the same  *)
(* program (tests/run.sh, roundtrip), unless a number in it is printed     *)
(* with an exponent, which the lexer does not know.                        *)
Reassembles ==
  output # <<>> /\ Len(ModulesOf(output)) = 1 /\ ~ HasExponent(output) =>
    LET again == parseModule(disassemble(output), Extensions)
    IN  again.ok /\ again.value = PrintedProgram(output)
=============================================================================
