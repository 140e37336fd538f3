---------------------------- MODULE MCToolchain -----------------------------
(* Programs for TLC: a byte is one bit, so that an i32 has two, an i64 four*)
(* and an i128 eight; two argument registers, and functions in one or two  *)
(* objects.                                                                *)
EXTENDS Toolchain

MCWidth ==
  [i8 |-> 1, u8 |-> 1, i32 |-> 2, u32 |-> 2, i64 |-> 4, u64 |-> 4, ptr |-> 4, i128 |-> 8]

R(r) == [kind |-> "reg", is |-> r]
N(n) == [kind |-> "imm", is |-> n]
S(s) == [kind |-> "sym", is |-> s]

I(op, type, dest, operands) == [op |-> op, type |-> type, dest |-> dest, operands |-> operands]

mov(d, a)        == I("mov", "i64", d, <<a>>)
ari(op, d, a, b) == I(op, "i64", d, <<a, b>>)
cmp(a, b)        == I("cmp", "i64", NoDest, <<a, b>>)
to(op, label)    == I(op, "i32", NoDest, <<S(label)>>)
ret(a)           == I("ret", "i64", NoDest, <<a>>)
retvoid          == I("retvoid", "i32", NoDest, <<>>)
invoke(d, f, args) == I("call", "i32", d, <<S(f)>> \o args)

B(label, instructions) == [label |-> label, instructions |-> instructions]

F(name, exported, n, type, blocks) ==
  [name |-> name, isExported |-> exported, params |-> [p \in 1 .. n |-> "i64"],
   returnType |-> type, blocks |-> blocks]

main(n, blocks) == F("main", TRUE, n, "i64", blocks)

Asking(objects, args, asks) ==
  [objects |-> objects, args |-> [k \in DOMAIN args |-> fromInt128("i64", args[k])], asks |-> asks]

In(objects, args) == Asking(objects, args, [rel |-> "eq", x |-> 0, y |-> 0, votes |-> 0])

Arguments == {-8, -1, 0, 3, 7}

(* One operation, one comparison and one branch, for pairs of numbers that *)
(* wrap, divide by zero or compare where a subtraction overflows.          *)
Straight ==
  {In(<<<<main(2, <<B("entry", <<ari(op, 2, R(0), R(1)), cmp(R(0), N(c)), to(branch, "yes"), ret(R(2))>>),
                    B("yes", <<ari("sub", 1, R(2), N(1)), ret(R(1))>>)>>)>>>>, <<a, b>>) :
     op \in {"add", "sub", "mul", "div"}, branch \in FlagBranches,
     a \in Arguments, b \in {-8, -1, 0, 3}, c \in {-8, 1}}

(* A loop, and a recursion through two objects that needs its registers    *)
(* after the calls.                                                        *)
Loop ==
  {In(<<<<main(2, <<B("entry", <<mov(2, N(0)), to("jmp", "test")>>),
                    B("test", <<cmp(R(0), N(0)), to(branch, "done"), to("jmp", "body")>>),
                    B("body", <<ari("add", 2, R(2), R(1)), ari("sub", 0, R(0), N(1)), to("jmp", "test")>>),
                    B("done", <<ret(R(2))>>)>>)>>>>, <<a, b>>) :
     branch \in FlagBranches, a \in {0, 2}, b \in {-3, 5}}

sum == F("sum", FALSE, 1, "i64",
         <<B("entry", <<cmp(R(0), N(0)), to("beq", "zero"), to("jmp", "more")>>),
           B("zero", <<ret(N(0))>>),
           B("more", <<ari("sub", 1, R(0), N(1)), invoke(2, "sum", <<R(1)>>), ari("add", 3, R(0), R(2)),
                       ret(R(3))>>)>>)

Recursion == {In(<<<<sum>>, <<main(1, <<B("entry", <<invoke(0, "sum", <<R(0)>>), ret(R(0))>>)>>)>>>>, <<a>>) :
                a \in {0, 1, 2, 3}}

(* A branch after a call, on the cmp before it.                            *)
Flags ==
  {In(<<<<main(2, <<B("entry", <<cmp(R(0), R(1)), invoke(2, "f", <<R(0)>>), to(branch, "yes"), ret(N(1))>>),
                    B("yes", <<ret(N(2))>>)>>)>>,
        <<F("f", FALSE, 1, "i64", <<B("entry", <<cmp(R(0), N(2)), ret(R(0))>>)>>)>>>>, <<a, b>>) :
     branch \in {"blt", "beq"}, a \in {1, 2}, b \in {1, 2}}

(* A main of one block, alone or with functions of another object.         *)
Simple(instructions, more, args) ==
  In(<<<<main(Len(args), <<B("entry", instructions)>>)>>, more>>, args)

nothing(n)  == F("g", FALSE, n, "void", <<B("entry", <<retvoid>>)>>)
deeper      == F("g", FALSE, 1, "i64",
                 <<B("entry", <<I("tailcall", "i32", NoDest, <<S("h"), R(0)>>)>>)>>)
last        == F("h", FALSE, 1, "i64", <<B("entry", <<ari("mul", 0, R(0), N(3)), ret(R(0))>>)>>)

(* Results that are not there, arguments that do not fit, other types.     *)
Unusual ==
  {Simple(<<invoke(2, "g", <<R(0)>>), ret(R(0))>>, <<nothing(1)>>, <<3>>),
   Simple(<<invoke(NoDest, "g", <<>>), retvoid>>, <<nothing(0)>>, <<>>),
   Simple(<<invoke(2, "g", <<R(0)>>), ret(R(2))>>, <<nothing(1)>>, <<3>>),
   Simple(<<invoke(2, "g", <<R(0)>>), ret(R(2))>>, <<nothing(2)>>, <<3>>),
   Simple(<<invoke(2, "g", <<R(0), N(1), N(2)>>), ret(N(0))>>, <<nothing(3)>>, <<1>>),
   Simple(<<I("add", "i32", 1, <<R(0), N(3)>>), ret(R(1))>>, <<>>, <<1>>),
   Simple(<<I("div", "u64", 1, <<R(0), N(2)>>), ret(R(1))>>, <<>>, <<7>>),
   Simple(<<ret(R(3))>>, <<>>, <<>>),
   In(<<<<main(2, <<B("entry", <<ret(R(0))>>)>>)>>>>, <<1>>)}

(* Into register 2 an i128 that a size_t cuts to the argument.             *)
Widened(w) ==
  <<I("shl", "i128", 2, <<N(w), N(4)>>), I("add", "i128", 2, <<R(2), R(0)>>)>>

(* What only the interpreter has.                                          *)
Interpreted ==
  {Simple(<<invoke(1, "g", <<R(0)>>), ari("add", 1, R(1), R(0)), ret(R(1))>>, <<deeper, last>>, <<2>>),
   Simple(<<invoke(1, "g", <<R(0)>>), ret(R(1))>>, <<deeper>>, <<2>>),
   Simple(<<I("tailcall", "i32", NoDest, <<S("h"), S("h")>>)>>, <<last>>, <<2>>),
   Simple(<<ari("mod", 1, R(0), N(3)), ret(R(1))>>, <<>>, <<-8>>),
   Simple(<<I("nop", "i32", NoDest, <<>>), ret(S("main"))>>, <<>>, <<>>),
   Simple(<<I("trap", "i32", NoDest, <<>>)>>, <<>>, <<>>),
   In(<<<<main(0, <<>>)>>>>, <<>>)}
  \cup {Simple(Widened(w) \o <<I("callindirect", "i64", 1, <<R(2), R(0)>>), ret(R(1))>>, <<last>>, <<a>>) :
           a \in {-1, 1, 2}, w \in {0, 1}}
  \cup {In(<<<<main(1, <<B("entry", Widened(w) \o
                                      <<I("switch", "i64", NoDest, <<R(2), S("c"), S("b"), S("c")>>)>>),
                         B("b", <<ret(N(1))>>), B("c", <<ret(N(2))>>), B("b", <<ret(N(3))>>)>>)>>>>, <<a>>) :
          a \in {-1, 0, 1, 2}, w \in {0, 1}}

(* Programs that ask whether two numbers are related in several ways, each *)
(* of which ends with a branch to a block that counts a yes in register 3. *)
(* A callee in between changes every flag of its own.                      *)
Asks == <<"entry", "n2", "n3", "n4", "n5", "n6", "n7", "n8">>
Yes == <<"y1", "y2", "y3", "y4", "y5", "y6", "y7">>

V(op, type, d, a, b) == I(op, type, d, <<a, b>>)
set(op, d) == I(op, "i64", d, <<>>)
IfOperands(op, type) == I(op, type, NoDest, <<R(0), R(1)>>)
IfZero(op) == I(op, "i64", NoDest, <<R(4)>>)
IfFlag(op) == I(op, "i32", NoDest, <<>>)

Poll(ways) ==
  main(2, FlattenSeq([k \in DOMAIN ways |->
            <<B(Asks[k], Front(ways[k]) \o <<[Last(ways[k]) EXCEPT !.operands = @ \o <<S(Yes[k])>>],
                                           to("jmp", Asks[k + 1])>>),
              B(Yes[k], <<ari("add", 3, R(3), N(1)), to("jmp", Asks[k + 1])>>)>>])
          \o <<B(Asks[Len(ways) + 1], <<ari("add", 3, R(3), N(0)), ret(R(3))>>)>>)

disturb ==
  F("f", FALSE, 1, "i64",
    <<B("entry", <<cmp(R(0), N(2)), V("subb", "u64", 1, N(0), R(0)), V("uaddo", "u64", 1, R(0), N(-1)),
                   ret(R(0))>>)>>)
elsewhere == invoke(4, "f", <<R(0)>>)

Polled(ways, rel, left, right, a, b) ==
  Asking(<<<<Poll(ways), disturb>>>>, <<a, b>>, [rel |-> rel, x |-> left, y |-> right, votes |-> Len(ways)])

SignedForms ==
  [eq |-> <<"seteq", "beq", "cmpeq", "breq">>, ne |-> <<"setne", "bne", "cmpne", "brne">>,
   lt |-> <<"setlt", "blt", "cmplt", "brlt">>, gt |-> <<"setgt", "bgt", "cmpgt", "brgt">>,
   le |-> <<"setle", "ble", "cmple", "brle">>, ge |-> <<"setge", "bge", "cmpge", "brge">>]

UnsignedForms ==
  [lt |-> <<"ucmplt", "ubrlt">>, gt |-> <<"ucmpgt", "ubrgt">>, le |-> <<"ucmple", "ubrle">>,
   ge |-> <<"ucmpge", "ubrge">>]

SignedPolls ==
  {LET f == SignedForms[rel]
       compared == V(f[3], "i64", 4, R(0), R(1))
   IN  Polled(<<<<cmp(R(0), R(1)), elsewhere, set(f[1], 4), IfZero("brnz")>>,
                <<IfFlag(f[2])>>,
                <<compared, I("select", "i64", 4, <<R(4), R(4), N(0)>>), IfZero("brnz")>>,
                <<IfOperands(f[4], "i64")>>,
                <<compared, I("seteqz", "i32", 4, <<R(4)>>), IfZero("brz")>>,
                <<compared, I("setnez", "i32", 4, <<R(4)>>), IfZero("brnz")>>>>, rel, a, b, a, b) :
     rel \in DOMAIN SignedForms, a \in Arguments, b \in Arguments}

(* A register keeps the sign of its i64 until an instruction makes it u64. *)
Made64(r) == V("add", "u64", r, R(r), N(0))
Word4(n) == AsUnsigned(n, 4)

UnsignedPolls ==
  {LET f == SignedForms[rel]
       u == UnsignedForms[rel]
   IN  Polled(<<<<V(u[1], "u64", 4, R(0), R(1)), IfZero("brnz")>>,
                <<IfOperands(u[2], "u64")>>,
                <<Made64(0), Made64(1), V("cmp", "u64", NoDest, R(0), R(1)), set(f[1], 4), IfZero("brnz")>>,
                <<IfFlag(f[2])>>,
                <<IfOperands(f[4], "i64")>>>>, rel, Word4(a), Word4(b), a, b) :
     rel \in DOMAIN UnsignedForms, a \in Arguments, b \in Arguments}

(* Did a sum carry?  The second addc must not see the carry of the first.  *)
plus(op, type) == V(op, type, 2, R(0), R(1))

Carried(a, b) ==
  Polled(<<<<plus("addc", "u64"), elsewhere, set("setc", 4), IfZero("brnz")>>,
           <<IfFlag("bcarry")>>,
           <<set("setnc", 4), IfZero("brz")>>,
           <<set("clro", NoDest), plus("addc", "u64"), IfFlag("bcarry")>>,
           <<plus("uaddo", "u64"), elsewhere, set("seto", 4), IfZero("brnz")>>,
           <<IfFlag("bovf")>>,
           <<V("ucmplt", "u64", 4, R(2), R(0)), IfZero("brnz")>>>>, "gt", Word4(a) + Word4(b), 15, a, b)

Fitted(a, b) ==
  Polled(<<<<plus("addc", "u64"), elsewhere, IfFlag("bncarry")>>,
           <<set("setnc", 4), IfZero("brnz")>>,
           <<plus("uaddo", "u64"), elsewhere, IfFlag("bnovf")>>>>, "le", Word4(a) + Word4(b), 15, a, b)

Borrowed(a, b) ==
  Polled(<<<<plus("subb", "u64"), elsewhere, IfFlag("bcarry")>>,
           <<plus("usubo", "u64"), elsewhere, IfFlag("bovf")>>,
           <<IfOperands("ubrlt", "u64")>>>>, "lt", Word4(a), Word4(b), a, b)

(* Did a signed sum overflow?  If it is below a although b is not negative,*)
(* or the other way round.                                                 *)
Overflowed(a, b) ==
  Polled(<<<<plus("addo", "i64"), elsewhere, set("seto", 4), IfZero("brnz")>>,
           <<IfFlag("bovf")>>,
           <<V("cmplt", "i64", 4, R(2), R(0)), V("cmplt", "i64", 2, R(1), N(0)),
             I("brne", "i64", NoDest, <<R(4), R(2)>>)>>>>, "ne", a + b, AsSigned(a + b, 4), a, b)

FlagPolls ==
  UNION {{Carried(a, b), Fitted(a, b), Borrowed(a, b), Overflowed(a, b)} : a \in Arguments, b \in Arguments}

(* Conversions and pointers, each against another way to the same number.  *)
Via(op, from, type2, d, a) == [op |-> op, type |-> from, type2 |-> type2, dest |-> d, operands |-> <<a>>]
as(op, type, d, a) == I(op, type, d, <<a>>)
same == I("breq", "i64", NoDest, <<R(2), R(4)>>)

ConversionPolls ==
  {Polled(<<<<V("store", "i64", NoDest, N(0), R(0)), as("load", t, 2, N(0)), as("cast", t, 4, R(0)), same>>,
            <<as("convert", t, 2, R(0)), as("cast", "i128", 2, R(2)), V("store", t, NoDest, N(0), R(2)),
              as("load", "i128", 4, N(0)), same>>,
            <<Via("bitconv", "i64", t, 2, R(0)), as("cast", t, 4, R(0)), same>>,
            <<as("convert", t, 2, R(0)), Via("sext", t, "i64", 2, R(2)), Via("sext", t, "i64", 4, R(0)), same>>,
            <<Via("zext", t, "i128", 2, R(0)), V("and", "i128", 4, R(0), N(2^MCWidth[t] - 1)), same>>,
            <<Via("itrunc", "i64", t, 2, R(0)), as("convert", t, 4, R(0)), same>>>>, "eq", 0, 0, a, 0) :
     t \in {"i8", "u8", "i32", "u32", "i64"}, a \in Arguments}

PointerPolls(a, b) ==
  {Polled(<<<<V("ptrlt", "ptr", 4, R(0), R(1)), IfZero("brnz")>>,
            <<V("ptrgt", "ptr", 4, R(1), R(0)), IfZero("brnz")>>,
            <<as("ptrtoint", "i128", 2, R(0)), as("ptrtoint", "i128", 4, R(1)),
              I("brlt", "i128", NoDest, <<R(2), R(4)>>)>>,
            <<as("inttoptr", "i64", 2, R(0)), as("inttoptr", "i64", 4, R(1)),
              I("ubrlt", "ptr", NoDest, <<R(2), R(4)>>)>>,
            <<V("ptrdiff", "i128", 4, R(1), R(0)), V("cmpgt", "i128", 4, R(4), N(0)), IfZero("brnz")>>>>,
          "lt", Word4(a), Word4(b), a, b),
   Polled(<<<<V("ptreq", "ptr", 4, R(0), R(1)), IfZero("brnz")>>,
            <<V("ptrne", "ptr", 4, R(0), R(1)), IfZero("brz")>>,
            <<V("ptrsub", "ptr", 4, R(0), R(1)), as("ptrisnull", "ptr", 4, R(4)), IfZero("brnz")>>,
            <<V("ptrdiff", "i64", 4, R(0), R(1)), V("ptradd", "ptr", 4, R(4), R(1)), as("convert", "i64", 4, R(4)),
              I("breq", "i64", NoDest, <<R(4), R(1)>>)>>>>, "eq", a, b, a, b)}
-----------------------------------------------------------------------------
(* Stores that overlap, and loads of every length that begin anywhere in   *)
(* them; the second in a function of its own.                              *)
access(op, type, d, operands) == I(op, type, d, operands)

Overlapping ==
  {Simple(<<as("convert", t, 0, R(0)), access("store", "i64", NoDest, <<N(p), R(0)>>),
            access("call", "i32", NoDest, <<S("put"), N(q), R(1)>>),
            as("load", "i8", 2, N(q)), as("load", "i32", 2, N(p)), as("load", "u32", 2, N(q - 1)),
            as("load", "i64", 2, N(p + 1)), as("load", "i64", 2, N(q)), as("load", "i128", 2, N(0)), ret(R(2))>>,
          <<F("put", FALSE, 2, "void",
              <<B("entry", <<as("convert", t2, 1, R(1)), access("store", "i8", NoDest, <<R(0), R(1)>>), retvoid>>)>>)>>,
          <<a, -a - 1>>) :
     t \in {"u8", "i32", "i64"}, t2 \in {"i8", "u32", "i64"}, p \in {0, 3}, q \in {1, 3, 4}, a \in {-6, 5}}

(* Arrays and fields: an element stored as an i64 runs into the next.      *)
Elements ==
  {Simple(<<as("convert", t, 0, R(0)), access("arraystore", "i32", NoDest, <<N(base), N(i), R(0)>>),
            access("arraystore", "i32", NoDest, <<N(base), N(1), N(1)>>),
            access("fieldstore", "i8", NoDest, <<N(base), N(4), R(0)>>),
            access("storev", "u8", NoDest, <<N(0), N(1)>>),
            access("arrayload", "i32", 2, <<N(base), N(0)>>), access("arrayload", "i32", 3, <<N(base), N(1)>>),
            access("loadu", "i64", 2, <<N(base), N(i)>>), access("loadv", "i8", 3, <<N(base)>>),
            access("fieldload", "i32", 3, <<N(base + 2), N(-2)>>), ret(R(3))>>, <<>>, <<a>>) :
     t \in {"i32", "i64"}, base \in {0, 1}, i \in {0, 1, 2}, a \in {-6, 5}}

(* Ends outside the memory, at its last byte, and past the last address.   *)
Edges ==
  {Simple(<<access("store", "i64", NoDest, <<R(0), R(0)>>), as("load", "i32", 2, R(0)), ret(R(2))>>, <<>>, <<a>>) :
     a \in {-8, -1, -2, 4, 5, 7}}
  \cup {Simple(<<as("load", t, 2, R(0)), ret(R(2))>>, <<>>, <<a>>) : a \in {-8, -1, 6, 7}, t \in {"i32", "i8"}}
  \cup {Simple(<<access("getelementptr", "ptr", 2, <<R(0), R(1), N(2)>>), access("getelementptr", "ptr", 3, <<R(2), N(-1), N(2), N(1)>>),
                 access("ptralign", "ptr", 3, <<R(3), R(1)>>), as("load", "i32", 2, R(3)), ret(R(2))>>, <<>>, <<a, b>>) :
          a \in {-3, 2}, b \in {0, 3}}

(* The others that only the interpreter has, and what they refuse. *)
Others ==
  {Simple(<<I("and", "i64", 1, <<R(0), N(6)>>), I("freeze", "i64", 2, <<R(1)>>),
            I("poison", "i64", 3, <<>>), I("or", "i64", 2, <<R(2), R(3)>>), ret(R(2))>>, <<>>, <<a>>) : a \in {-1, 5}}
  \cup {Simple(<<I("assert", "i64", NoDest, <<R(0)>>), I("shl", "i64", 1, <<N(1), R(0)>>), ret(R(1))>>, <<>>, <<a>>) :
          a \in {-1, 0, 2, 4}}
  \cup {Simple(<<I("shlo", "i64", 1, <<N(1), R(0)>>), ret(R(1))>>, <<>>, <<4>>),
         Simple(<<I("brz", "i64", NoDest, <<S("main"), S("entry")>>), retvoid>>, <<>>, <<>>)}

(* What neither link() nor the parser accepts, and what it does not see.   *)
Wrong ==
  {Simple(<<to("jmp", "nowhere")>>, <<>>, <<>>),
   Simple(<<mov(1, R(0)), cmp(R(1), N(0)), to("beq", "entry")>>, <<nothing(0)>>, <<1>>),
   Simple(<<invoke(1, "f", <<>>), retvoid>>, <<>>, <<>>),
   In(<<<<main(0, <<B("entry", <<to("jmp", "b")>>), B("b", <<invoke(1, "f", <<>>), retvoid>>)>>)>>>>, <<>>),
   Simple(<<retvoid>>, <<main(0, <<>>)>>, <<>>),
   In(<<<<last>>>>, <<>>),
   In(<<<<F("main", FALSE, 0, "i64", <<B("entry", <<ret(N(1))>>)>>)>>>>, <<>>)}

MCInputs ==
  Straight \cup Loop \cup Recursion \cup Flags \cup Unusual \cup Interpreted \cup Wrong
    \cup SignedPolls \cup UnsignedPolls \cup FlagPolls \cup ConversionPolls
    \cup UNION {PointerPolls(a, b) : a \in Arguments, b \in Arguments}
    \cup Overlapping \cup Elements \cup Edges \cup Others

(* The programs are such as the theorems are about.                        *)
ASSUME InputsFitAssumption ==
  InputsFit /\ BranchesReach /\ FramesReach
=============================================================================
