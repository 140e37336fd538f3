--------------------------- MODULE MCInstructions ---------------------------
(* The interpreter runs integer instructions on registers, text            *)
(* instructions on memory or vector instructions on both; here one kind or *)
(* another from each initial state.  The memory of a text has five bytes.  *)
EXTENDS MCIntegerUnit, TextUnit, MCVectorUnit

allVars == <<vars, textVars, vectorVars>>

NoJob == [op |-> "add", type |-> "i32", type2 |-> "i32", carry |-> FALSE, operands |-> <<>>]
NoVectors == [width |-> "v128", lane |-> "i32", code |-> <<>>, vectors |-> <<>>, numbers |-> <<>>]

NoInteger == job = NoJob /\ results = <<>> /\ carryFlag = FALSE /\ overflowFlag = FALSE
NoText == program = <<>> /\ memory = <<>> /\ log = <<>>
NoVector ==
  vjob = NoVectors /\ vectors = <<>> /\ numbers = <<>> /\ vmemory = <<>> /\ pc = 1 /\ vthrew = FALSE

InstructionsInit ==
  \/ Init /\ NoText /\ NoVector
  \/ TextInit /\ NoInteger /\ NoVector
  \/ VectorInit /\ NoInteger /\ NoText

InstructionsNext ==
  \/ Next /\ UNCHANGED <<textVars, vectorVars>>
  \/ TextNext /\ UNCHANGED <<vars, vectorVars>>
  \/ VectorNext /\ UNCHANGED <<vars, textVars>>

InstructionsSpec == InstructionsInit /\ [][InstructionsNext]_allVars
-----------------------------------------------------------------------------
(* Texts of A, a and 0, and UTF-8 of every form, whole, overlong and broken.*)
Texts == [0 .. 4 -> {0, 65, 97}]
Codes ==
  {[i \in 0 .. 4 |-> w[i + 1]] : w \in
     {<<65, 195, 169, 226, 0>>, <<226, 130, 172, 65, 0>>, <<240, 159, 152, 128, 0>>, <<192, 128, 0, 0, 0>>,
      <<224, 128, 169, 0, 65>>, <<128, 65, 248, 0, 195>>, <<240, 128, 128, 128, 195>>, <<247, 191, 191, 191, 65>>,
      <<195, 65, 169, 0, 226>>, <<65, 91, 96, 122, 0>>, <<64, 90, 97, 123, 0>>}}

MCMemories == Texts \cup Codes

CodePoints ==
  {0, 65, 127, 128, 2047, 2048, 55296, 65535, 65536, 128512, 1114111, 1114112, 2^21 - 1, 2^21, 2^22, 2^22 + 8364, 2^30}

I(op_, n_) == <<[op |-> op_, n |-> n_]>>

OnCodes ==
  {I("utf8encode", <<p, c_>>) : p \in 0 .. 4, c_ \in CodePoints}
    \cup {I("utf8decode", <<p>>) : p \in 0 .. 5} \cup {I("utf8len", <<p>>) : p \in 0 .. 5}
    \cup {I("utf8valid", <<p, l>>) : p \in 0 .. 5, l \in 0 .. 5}
    \cup {I(o_, <<p>>) : o_ \in {"strupper", "strlower", "strrev"}, p \in 0 .. 5}

OnTexts ==
  {I(o_, <<p>>) : o_ \in {"strlen", "strrev", "strupper", "strlower"}, p \in {0, 1, 4, 5}}
    \cup {I(o_, <<p, q>>) : o_ \in {"strstr", "strspn", "strcspn", "strpbrk", "strcmp", "strcasecmp", "strcpy", "strcat"},
                           p \in 0 .. 4, q \in 0 .. 4}
    \cup {I(o_, <<p, q, l>>) : o_ \in {"strncmp", "strncpy", "strncat"}, p \in 0 .. 4, q \in 0 .. 2, l \in 0 .. 3}
    \cup {I(o_, <<p, l>>) : o_ \in {"strnlen", "memzero", "memrev"}, p \in 0 .. 3, l \in {0, 1, 2, 5}}
    \cup {I(o_, <<p, 65>>) : o_ \in {"strchr", "strrchr"}, p \in 0 .. 4}
    \cup {I("strchr", <<p, 0>>) : p \in 0 .. 4}
    \cup {I(o_, <<p, l, 65>>) : o_ \in {"memchr", "memrchr", "memcount"}, p \in 0 .. 3, l \in {0, 2, 3}}
    \cup {I("memfind", <<p, l, q, k>>) : p \in 0 .. 2, l \in {3, 4}, q \in {0, 3, 4}, k \in 0 .. 2}
    \cup {I(o_, <<p, q, l>>) : o_ \in {"memswap", "memeq"}, p \in 0 .. 2, q \in 1 .. 4, l \in 0 .. 2}

(* Two instructions in a row: a copy and a copy of the copy. *)
Twice == {I("strcpy", <<p, q>>) \o I("strcat", <<q, p>>) : p \in 0 .. 4, q \in 0 .. 2}

MCPrograms(m) == IF m \in Codes THEN OnCodes ELSE OnTexts \cup Twice
=============================================================================
