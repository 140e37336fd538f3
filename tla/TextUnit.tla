------------------------------ MODULE TextUnit ------------------------------
(***************************************************************************)
(* Interpreter::call while it runs buffer, text and UTF-8 instructions on  *)
(* the flat memory, one after the other until one throws.                  *)
(***************************************************************************)
EXTENDS ByteStrings

CONSTANTS
  Memories,      (* What the memory may hold at first.                       *)
  Programs(_)    (* Of a memory: sequences of instructions, an opcode and    *)
                 (* the numbers of its operands each.                        *)

VARIABLES program, memory, log   (* log: what each instruction found and gave.*)

textVars == <<program, memory, log>>

TextInit ==
  \E m \in Memories : \E p \in Programs(m) : program = p /\ memory = m /\ log = <<>>

Instr == program[Len(log) + 1]
n(k) == Instr.n[k]

Running(ops) ==
  /\ Len(log) < Len(program) /\ Instr.op \in ops
  /\ \A k \in DOMAIN log : ~ log[k].threw

Do(r) ==
  /\ memory' = r.memory
  /\ log' = Append(log, [before |-> memory, num |-> r.num, threw |-> r.threw])
  /\ UNCHANGED program
-----------------------------------------------------------------------------
SearchBuffer ==
  /\ Running({"memchr", "memrchr", "memcount", "memfind", "memeq"})
  /\ Do(CASE Instr.op = "memchr"   -> memchr(memory, n(1), n(2), n(3))
          [] Instr.op = "memrchr"  -> memrchr(memory, n(1), n(2), n(3))
          [] Instr.op = "memcount" -> memcount(memory, n(1), n(2), n(3))
          [] Instr.op = "memfind"  -> memfind(memory, n(1), n(2), n(3), n(4))
          [] Instr.op = "memeq"    -> memeq(memory, n(1), n(2), n(3)))

WriteBuffer ==
  /\ Running({"memzero", "memswap", "memrev"})
  /\ Do(CASE Instr.op = "memzero" -> memzero(memory, n(1), n(2))
          [] Instr.op = "memswap" -> memswap(memory, n(1), n(2), n(3))
          [] Instr.op = "memrev"  -> memrev(memory, n(1), n(2)))

SearchText ==
  /\ Running({"strlen", "strnlen", "strchr", "strrchr", "strstr", "strspn", "strcspn", "strpbrk"})
  /\ Do(CASE Instr.op = "strlen"  -> strlen(memory, n(1))
          [] Instr.op = "strnlen" -> strnlen(memory, n(1), n(2))
          [] Instr.op = "strchr"  -> strchr(memory, n(1), n(2))
          [] Instr.op = "strrchr" -> strrchr(memory, n(1), n(2))
          [] Instr.op = "strstr"  -> strstr(memory, n(1), n(2))
          [] Instr.op = "strspn"  -> strspn(memory, n(1), n(2))
          [] Instr.op = "strcspn" -> strcspn(memory, n(1), n(2))
          [] Instr.op = "strpbrk" -> strpbrk(memory, n(1), n(2)))

(* How many bytes are compared or copied at most. *)
Bounded == {"strncmp", "strncpy", "strncat"}
Limit(instr) == IF instr.op \in Bounded THEN instr.n[3] ELSE MemorySize

CompareTexts ==
  /\ Running({"strcmp", "strncmp", "strcasecmp"})
  /\ Do(compareText(memory, n(1), n(2), Limit(Instr), Instr.op = "strcasecmp"))

CopyTexts ==
  \/ Running({"strcpy", "strncpy"}) /\ Do(copyText(memory, n(1), n(2), Limit(Instr)))
  \/ Running({"strcat", "strncat"}) /\ Do(appendText(memory, n(1), n(2), Limit(Instr)))

RewriteText ==
  \/ Running({"strrev"}) /\ Do(strrev(memory, n(1)))
  \/ Running({"strupper", "strlower"}) /\ Do(changeCase(Instr.op, memory, n(1)))

Utf8 ==
  /\ Running({"utf8decode", "utf8encode", "utf8len", "utf8valid"})
  /\ Do(CASE Instr.op = "utf8decode" -> utf8decode(memory, n(1))
          [] Instr.op = "utf8encode" -> utf8encode(memory, n(1), n(2))
          [] Instr.op = "utf8len"    -> utf8len(memory, n(1))
          [] Instr.op = "utf8valid"  -> utf8valid(memory, n(1), n(2)))

TextNext ==
  \/ SearchBuffer \/ WriteBuffer \/ SearchText \/ CompareTexts \/ CopyTexts \/ RewriteText \/ Utf8

TextSpec == TextInit /\ [][TextNext]_textVars
-----------------------------------------------------------------------------
(* What the last instruction did. *)

Did(ops) == log # <<>> /\ program[Len(log)].op \in ops
done == program[Len(log)]
o(k) == done.n[k]
gave == log[Len(log)]
m0 == gave.before

Piece(m, s, len) == [k \in 1 .. len |-> m[s + k - 1]]

(* A text, up to the end of the memory if nothing ends it. *)
Text(m, s) ==
  Piece(m, s, IF s >= MemorySize THEN 0
              ELSE IF Terminated(m, s) THEN stringLength(m, s) ELSE MemorySize - s)

Prefix(x, len) == SubSeq(x, 1, IF len < Len(x) THEN len ELSE Len(x))

(* x comes first in the order of texts. *)
Before(x, y) ==
  \E k \in 1 .. Len(y) :
    /\ k <= Len(x) + 1 /\ Prefix(x, k - 1) = Prefix(y, k - 1)
    /\ k <= Len(x) => x[k] < y[k]

(* Where x begins in the sequence h that lies at the address s. *)
Occurrences(h, x, s) == {s + i : i \in {j \in 0 .. Len(h) - Len(x) : SubSeq(h, j + 1, j + Len(x)) = x}}
FirstOr0(S) == IF S = {} THEN 0 ELSE Min(S)
LastOr0(S) == IF S = {} THEN 0 ELSE Max(S)

Members(x) == {x[k] : k \in DOMAIN x}

Searches ==
  {"memchr", "memrchr", "memcount", "memfind", "memeq", "strlen", "strnlen", "strchr", "strrchr", "strstr", "strspn",
   "strcspn", "strpbrk", "strcmp", "strncmp", "strcasecmp"}

(* The bytes from s on that a comparison may look at: up to a 0, which is  *)
(* one of them, or to the end of the memory.                               *)
Compared(s) ==
  LET x == IF Terminated(m0, s) THEN Append(Text(m0, s), 0) ELSE Text(m0, s)
  IN  [k \in DOMAIN x |-> IF done.op = "strcasecmp" THEN Lower(x[k]) ELSE x[k]]

(* A buffer that is not in the memory, a text without an end, for strnlen  *)
(* one without an end among its first bytes, or a comparison that comes to *)
(* the end of the memory before it comes to its limit, to a 0 or to bytes  *)
(* that differ.                                                            *)
NotThere ==
  CASE done.op \in {"memchr", "memrchr", "memcount"} -> o(1) + o(2) > MemorySize
    [] done.op = "memfind" -> o(1) + o(2) > MemorySize \/ o(3) + o(4) > MemorySize
    [] done.op = "memeq" -> o(1) + o(3) > MemorySize \/ o(2) + o(3) > MemorySize
    [] done.op \in {"strlen", "strchr", "strrchr"} -> ~ Terminated(m0, o(1))
    [] done.op = "strnlen" -> ~ Terminated(m0, o(1)) \/ Len(Text(m0, o(1))) >= o(2)
    [] done.op \in {"strstr", "strspn", "strcspn", "strpbrk"} -> ~ Terminated(m0, o(1)) \/ ~ Terminated(m0, o(2))
    [] done.op \in {"strcmp", "strncmp", "strcasecmp"} ->
         LET x == Compared(o(1))
             y == Compared(o(2))
             len == Min({Len(x), Len(y)})
         IN  len < Limit(done) /\ Prefix(x, len) = Prefix(y, len) /\ 0 \notin Members(Prefix(x, len))

(* A search, a comparison or a span gives what the texts, taken as         *)
(* sequences of bytes up to their 0, have as answer, and throws only where *)
(* a buffer or the end of a text is not there (Opcode::Memfind, Strcmp,    *)
(* Strstr, Strspn, stringLength, checkRange).  That nothing was found is   *)
(* the answer 0, as it is of what is found at the address 0.               *)
SearchesReadTexts ==
  /\ Did(Searches) => (gave.threw <=> NotThere)
  /\ Did(Searches) /\ ~ gave.threw =>
       /\ Did({"memchr"}) => gave.num = FirstOr0(Occurrences(Piece(m0, o(1), o(2)), <<o(3)>>, o(1)))
       /\ Did({"memrchr"}) => gave.num = LastOr0(Occurrences(Piece(m0, o(1), o(2)), <<o(3)>>, o(1)))
       /\ Did({"memcount"}) => gave.num = Cardinality(Occurrences(Piece(m0, o(1), o(2)), <<o(3)>>, 0))
       /\ Did({"memfind"}) =>
            gave.num = FirstOr0(Occurrences(Piece(m0, o(1), o(2)), Piece(m0, o(3), o(4)), o(1)))
       /\ Did({"memeq"}) => gave.num = 1 <=> Piece(m0, o(1), o(3)) = Piece(m0, o(2), o(3))
       /\ Did({"strlen"}) => gave.num = Len(Text(m0, o(1)))
       /\ Did({"strnlen"}) => gave.num = Len(Text(m0, o(1))) /\ gave.num < o(2)
       /\ Did({"strchr"}) => gave.num = FirstOr0(Occurrences(Append(Text(m0, o(1)), 0), <<o(2)>>, o(1)))
       /\ Did({"strrchr"}) => gave.num = LastOr0(Occurrences(Append(Text(m0, o(1)), 0), <<o(2)>>, o(1)))
       /\ Did({"strstr"}) => gave.num = FirstOr0(Occurrences(Text(m0, o(1)), Text(m0, o(2)), o(1)))
       /\ Did({"strspn", "strcspn"}) =>
            LET x == Text(m0, o(1))
                Stops(k) == (x[k] \in Members(Text(m0, o(2)))) = (done.op = "strcspn")
            IN  /\ gave.num <= Len(x) /\ \A k \in 1 .. gave.num : ~ Stops(k)
                /\ gave.num < Len(x) => Stops(gave.num + 1)
       /\ Did({"strpbrk"}) =>
            gave.num = FirstOr0(UNION {Occurrences(Text(m0, o(1)), <<c>>, o(1)) : c \in Members(Text(m0, o(2)))})
       /\ Did({"strcmp", "strncmp", "strcasecmp"}) =>
            LET Folded(x) == [k \in DOMAIN x |-> IF done.op = "strcasecmp" THEN Lower(x[k]) ELSE x[k]]
                x == Folded(Prefix(Text(m0, o(1)), Limit(done)))
                y == Folded(Prefix(Text(m0, o(2)), Limit(done)))
            IN  gave.num = IF Before(x, y) THEN -1 ELSE IF Before(y, x) THEN 1 ELSE 0

(* Apart from the addresses from at on, the memory is what it was. *)
OnlyAt(at, len) == \A i \in Address \ (at .. at + len - 1) : memory[i] = m0[i]

Holds(at, x) == at + Len(x) <= MemorySize /\ Piece(memory, at, Len(x)) = x /\ OnlyAt(at, Len(x))

(* A copy leaves its source's text, or the first n bytes of it, and a 0    *)
(* behind it, and nothing else changes; it throws only if there is no room *)
(* or no end.  A copy into the source's own bytes from behind repeats what *)
(* lies between: it never meets the 0 and, if it has no limit, always      *)
(* throws (Opcode::Strcpy).                                                *)
Copied ==
  LET src == o(2)
      at == o(1) + (IF done.op \in {"strcat", "strncat"} THEN Len(Text(m0, o(1))) ELSE 0)
      x == Prefix(Text(m0, src), Limit(done))
      ends == Terminated(m0, src) \/ Limit(done) <= Len(Text(m0, src))
      reads == IF Limit(done) <= Len(x) THEN Limit(done) ELSE Len(x) + 1
      repeats == src < at /\ at < src + reads
      pattern == [k \in 1 .. Limit(done) |-> m0[src + ((k - 1) % (at - src))]]
  IN  IF done.op \in {"strcat", "strncat"} /\ ~ Terminated(m0, o(1)) THEN gave.threw
      ELSE IF repeats
      THEN IF done.op \in Bounded /\ at + Limit(done) < MemorySize
           THEN ~ gave.threw /\ Holds(at, Append(pattern, 0)) ELSE gave.threw
      ELSE IF ends /\ at + Len(x) < MemorySize
      THEN ~ gave.threw /\ Holds(at, Append(x, 0)) ELSE gave.threw

(* Rewriting in place keeps every byte outside and permutes, clears or     *)
(* folds the ones inside.                                                  *)
Disjoint == o(1) + o(3) <= o(2) \/ o(2) + o(3) <= o(1)

CopiesAreWhole ==
  /\ Did({"strcpy", "strncpy", "strcat", "strncat"}) => Copied
  /\ Did({"memswap"}) /\ ~ gave.threw /\ Disjoint =>
       /\ Piece(memory, o(1), o(3)) = Piece(m0, o(2), o(3))
       /\ Piece(memory, o(2), o(3)) = Piece(m0, o(1), o(3))
       /\ \A i \in Address \ (o(1) .. o(1) + o(3) - 1 \cup o(2) .. o(2) + o(3) - 1) : memory[i] = m0[i]
  /\ Did({"memzero"}) /\ ~ gave.threw => Holds(o(1), [k \in 1 .. o(2) |-> 0])
  /\ Did({"memrev", "strrev"}) /\ ~ gave.threw =>
       LET len == IF done.op = "memrev" THEN o(2) ELSE Len(Text(m0, o(1)))
       IN  Holds(o(1), [k \in 1 .. len |-> m0[o(1) + len - k]])
  /\ Did({"strupper", "strlower"}) /\ ~ gave.threw =>
       LET x == Text(memory, o(1))
       IN  /\ OnlyAt(o(1), Len(x)) /\ Len(x) = Len(Text(m0, o(1)))
           /\ \A k \in DOMAIN x :
                /\ Lower(x[k]) = Lower(m0[o(1) + k - 1])
                /\ x[k] \notin IF done.op = "strupper" THEN 97 .. 122 ELSE 65 .. 90

(* The bytes from p, len of them, decoded one code point after another; -1 *)
(* if they are not.                                                        *)
Decoded(m, p, len) ==
  LET count[i \in Nat] ==
        IF i = len THEN 0
        ELSE IF utf8decode(m, p + i).threw THEN -1
        ELSE IF i + Extra(m[p + i]) + 1 > len THEN -1
        ELSE LET rest == count[i + Extra(m[p + i]) + 1] IN IF rest < 0 THEN -1 ELSE rest + 1
  IN  count[0]

(* What utf8encode wrote, utf8decode reads back, for every number below    *)
(* 2^21 and no other; what utf8decode reads would be encoded in as many    *)
(* bytes or fewer; and utf8valid and utf8len agree with utf8decode on every*)
(* sequence of bytes.                                                      *)
Utf8Agrees ==
  ~ (log # <<>> /\ gave.threw) =>
    /\ Did({"utf8encode"}) =>
         /\ OnlyAt(o(1), gave.num)
         /\ (utf8decode(memory, o(1)).num = o(2)) = (o(2) < 2^21)
         /\ o(2) < 2^21 => Decoded(memory, o(1), gave.num) = 1
    /\ Did({"utf8decode"}) => Len(Encoded(gave.num)) <= Extra(m0[o(1)]) + 1
    /\ Did({"utf8valid"}) => gave.num = 1 <=> Decoded(m0, o(1), o(2)) >= 0
    /\ Did({"utf8len"}) =>
         LET d == Decoded(m0, o(1), Len(Text(m0, o(1)))) IN d >= 0 => gave.num = d
=============================================================================
