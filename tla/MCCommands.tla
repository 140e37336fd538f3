----------------------------- MODULE MCCommands -----------------------------
(* Files: the .uo file and the command line that writes it, and the files  *)
(* of a program's own calls.  Here one of them from each initial state.    *)
EXTENDS MCUoFile, Syscalls

CONSTANTS Projects, Printed(_)

VARIABLES project, sources, output, command, ended, had, left

Line == INSTANCE CommandLine
lineVars == <<project, sources, output, command, ended, had, left>>

NoProject == [texts |-> <<>>, compiles |-> {}, dumps |-> {}]
NoLine ==
  project = NoProject /\ sources = <<>> /\ output = <<>> /\ command = Line!Idle /\ ended = Line!None
    /\ had = <<>> /\ left = [commands |-> 0, edits |-> 0]
NoFile == file = <<>> /\ program = [functions |-> <<>>, entryIndex |-> 0] /\ writer = "none" /\ report = "unused"

NoHost == hosts = <<>> /\ results = <<>> /\ portable = FALSE /\ calls = 0

CommandsInit ==
  \/ Init /\ NoLine /\ NoHost
  \/ Line!CommandInit /\ NoFile /\ NoHost
  \/ HostsInit /\ NoFile /\ NoLine

CommandsNext ==
  \/ report # "unused" /\ Next /\ UNCHANGED <<lineVars, hostVars>>
  \/ Line!CommandNext /\ UNCHANGED <<vars, hostVars>>
  \/ HostsNext /\ UNCHANGED <<vars, lineVars>>

CommandsSpec == CommandsInit /\ [][CommandsNext]_<<vars, lineVars, hostVars>>

(* Output is made of what the patterns mean (CommandLine). *)
BuildIsTheSources == Line!BuildIsTheSources

(* Extensions decide by the instructions (CommandLine). *)
GatesAreExact == Line!GatesAreExact

(* Dumps assemble to what was dumped (CommandLine). *)
Reassembles == Line!Reassembles
-----------------------------------------------------------------------------
MCPrinted(f) ==
  CASE f = "2.0" -> <<<<"int", "2">>>>
    [] f = "1000000.0" -> <<<<"int", "1">>, <<"ident", "e">>, <<"odd", "">>>>
    [] OTHER -> <<<<"float", f>>>>

(* The text of a file that is not there, and a descriptor that is not open.*)
NoText == <<>>
NotOpen == [node |-> 0, pos |-> 0, flags |-> {}]

(* Texts, line by line. *)
W(word) == <<<<"ident", word>>>>
S(sign) == <<<<"sign", sign>>>>
R(reg) == <<<<"reg", reg>>>>
N(int) == <<<<"int", int>>>>
F(float) == <<<<"float", float>>>>
P(param) == <<<<"param", param>>>>
Op(name, types) == W(name) \o FlattenSeq([i \in DOMAIN types |-> S(".") \o W(types[i])])
Args(items) == FlattenSeq([i \in DOMAIN items |-> IF i = 1 THEN items[i] ELSE S(",") \o items[i]])

MainFunction == W("export") \o W("func") \o W("main") \o S("(") \o S(")") \o S("->") \o W("i32") \o S("{") \o W("start") \o S(":")
OfTwo(a, b) ==
  W("export") \o W("func") \o W("main") \o S("(") \o W(a) \o S(":") \o W("i32") \o S(",") \o W(b) \o S(":") \o W("v128")
    \o S(")") \o S("->") \o W("void") \o S("{") \o W("ret") \o S(":")

Lines ==
  {Op("mov", <<"i32">>) \o Args(<<P("a"), R("r1")>>), Op("mov", <<"f64">>) \o Args(<<R("r2"), F("2.0")>>),
   Op("mov", <<"f64">>) \o Args(<<R("r2"), F("0.5")>>), Op("mov", <<"f64">>) \o Args(<<R("r2"), F("1000000.0")>>),
   Op("mov", <<"v256">>) \o Args(<<R("r1"), R("r0")>>), Op("mov", <<"i32">>) \o Args(<<N("1"), R("r0")>>),
   Op("cmp", <<"i32">>) \o Args(<<R("r1"), N("-1")>>), Op("cmp", <<"i32">>), Op("beq", <<>>) \o W("start"),
   Op("sext", <<"i64", "i32">>) \o Args(<<R("r0"), R("r1")>>), Op("call", <<>>) \o W("main"),
   Op("call", <<>>) \o Args(<<W("main"), R("r3"), N("7"), P("b")>>), Op("call", <<>>) \o Args(<<W("main"), N("7")>>),
   Op("call", <<>>) \o Args(<<W("g"), R("r3")>>), Op("callindirect", <<"i32">>) \o Args(<<R("r1"), R("r2"), N("3")>>),
   Op("ret", <<"i32">>) \o R("r1"), W("ret"), W("trap"), W("end") \o S(":"), W("end"),
   Op("vsplat", <<"v128", "i32">>) \o Args(<<R("r1"), R("r0")>>), Op("vsplat", <<"v128", "v512">>) \o Args(<<R("r1"), R("r0")>>),
   Op("vstore", <<"v256", "i32">>) \o Args(<<R("r1"), R("r0")>>), Op("vlohalf", <<"v128", "i32">>) \o R("r1"),
   Op("kset", <<"i64", "i32">>) \o R("r1"), S("}"), S(","), <<<<"odd", "">>>>,
   S("}") \o W("func") \o W("g") \o S("(") \o W("a") \o S(":") \o W("f64") \o S(")") \o S("->") \o W("void") \o S("{")}

A == <<"a", "U">>
B == <<"b", "U">>
SA == <<"s", "/", "a", "U">>
STA == <<"s", "/", "t", "/", "b", "U">>
SB == <<"s", "/", "b">>

Flag(f, e) == [flag |-> f, ext |-> e]
AllOn == <<Flag("enable-all", "")>>
C(ps, fs) == [patterns |-> ps, flags |-> fs]

NoTexts == [f \in {} |-> {}]

(* One file of any two lines. *)
OneFile(text) ==
  [sources  |-> [f \in {A} |-> text], texts |-> NoTexts, dumps |-> {},
   compiles |-> {C(<<A>>, AllOn)}, left |-> [commands |-> 1, edits |-> 0]]

Typed == {W("module") \o W("m") \o h \o l1 \o l2 \o S("}") : h \in {MainFunction, OfTwo("a", "b"), OfTwo("a", "a")}, l1 \in Lines, l2 \in Lines}

(* Several files. *)
Helper(module, name) ==
  W("module") \o W(module) \o W("func") \o W(name) \o S("(") \o S(")") \o S("->") \o W("void") \o S("{") \o S("}")
MainText(module) == W("module") \o W(module) \o MainFunction \o Op("call", <<>>) \o W("g") \o W("ret") \o S("}")
VectorText == W("module") \o W("v") \o MainFunction \o Op("vlohalf", <<"v128", "i32">>) \o Args(<<R("r1"), R("r0")>>) \o S("}")

St == <<"*">>
Compiles ==
  {C(ps, <<>>) : ps \in {<<A, SA>>, <<SA, A, SA>>, << <<"*", "U">> >>, << <<"*", "*", "U">> >>, << <<"s", "/", "*">>, A>>,
                         << <<"s", "/", "*", "*">>, <<"*", "a", "U">> >>, <<A, <<"s", "/", "*", "a", "*">> >>,
                         << <<"b", "*", "U">>, A>>, << <<"*", "/", "a", "U">> >>, << <<".", "/", "*", "*", "a", "U">> >>,
                         << <<"s", "/", "b", "*", "*", "U">>, A>>, << <<"t", "/", "*">>, A>>, <<A, <<"*", "U">> >>, <<>>}}
  \cup {C(<<A>>, fs) : fs \in {<<Flag("enable", "simd256")>>, <<Flag("enable", "simd256"), Flag("disable", "simd256")>>,
                               AllOn \o <<Flag("disable", "simd128")>>, <<Flag("disable", "core")>>, <<Flag("enable", "gpu"), Flag("enable", "simd9")>>}}

Tree ==
  [texts |-> (A :> {MainText("m"), VectorText, NoText} @@ SA :> {Helper("m", "g"), Helper("n", "h"), NoText}
                @@ STA :> {Helper("n", "g"), NoText}),
   dumps |-> {B}, compiles |-> Compiles, left |-> [commands |-> 2, edits |-> 2]]

Several ==
  {Tree @@ [sources |-> src] :
     src \in {A :> MainText("m") @@ SA :> Helper("n", "g") @@ SB :> Helper("o", "x"),
              A :> MainText("m") @@ SA :> Helper("m", "h") @@ STA :> Helper("n", "g"),
              A :> VectorText @@ STA :> Helper("v", "g")}}

MCProjects == {OneFile(t) : t \in Typed} \cup Several
-----------------------------------------------------------------------------
(* A memory of three names and a buffer, and calls with addresses of them, *)
(* within and outside.                                                     *)
World(names_, disk_, value, open) ==
  [mem |-> <<97, 0, 98, 0, 100, 0, 7, 10, 7>>, names |-> names_, dirs |-> {3}, data |-> <<<<65, 13>>, <<13, 26>>, <<>>>>,
   disk |-> disk_, fds |-> 3 :> [node |-> open, pos |-> 0, flags |-> {}] @@ 4 :> NotOpen, env |-> <<97>> :> value,
   args |-> << <<117>>, <<97>> >>, dir |-> <<>>]

MCWorlds ==
  {World(<<97>> :> 1 @@ <<100>> :> 3, 3, <<5, 6>>, 1), World(<<97>> :> 1 @@ <<98>> :> 2 @@ <<100>> :> 3, 9, <<>>, 0)}

(* They are programs and hosts that can be.                                *)
ASSUME HostsAssumption == HostsFit

Call0(id_, x, y, z) == [id |-> id_, a0 |-> x, a1 |-> y, a2 |-> z]
Fds == {3, 4}
Names == {0, 2, 4}

MCCalls ==
  {Call0("open", n, fl, 0) : n \in {0, 2}, fl \in {{}, {512, 32768}}}
    \cup {Call0("open", 2, {64}, 0), Call0("open", 2, {32768}, 0), Call0("open", 2, {256, 512}, 0)}
    \cup {Call0("write", fd, 6, l) : fd \in Fds, l \in {0, 3}} \cup {Call0("write", 3, 7, 3)}
    \cup {Call0("read", fd, at, 3) : fd \in Fds, at \in {2, 6}} \cup {Call0("read", 3, 6, 1), Call0("read", 3, 6, 4)}
    \cup {Call0(i, fd, 0, 0) : i \in {"close", "file_size"}, fd \in Fds}
    \cup {Call0("seek", 3, 0, 0), Call0("seek", 3, -1, 1), Call0("seek", 3, -1, 2), Call0("seek", 4, 0, 2)}
    \cup {Call0(i, n, 0, 0) : i \in {"remove_file", "mkdir", "rmdir"}, n \in Names}
    \cup {Call0(i, n, 0, 0) : i \in {"file_exists", "file_is_dir"}, n \in {4, 9}}
    \cup {Call0(i, n, m, 0) : i \in {"rename_file", "copy_file"}, n \in {0, 2}, m \in Names} \cup {Call0("copy_file", 4, 2, 0)} \cup {Call0("rename_file", 4, 9, 0)}
    \cup {Call0("setenv", 2, m, 0) : m \in {1, 2}} \cup {Call0("getenv", n, 6, l) : n \in {0, 2}, l \in {2, 3}}
    \cup {Call0("dir_open", -1, 0, 0), Call0("argc", 0, 0, 0), Call0("argv", 1, 6, 1), Call0("argv", 2, 6, 3)}
=============================================================================
