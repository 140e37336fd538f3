---------------------------- MODULE ByteStrings -----------------------------
(***************************************************************************)
(* The buffer, text and UTF-8 instructions of Interpreter::call, as        *)
(* functions of the flat memory m and their operands.  A text is the bytes *)
(* from an address up to the next 0.  Left out: the cut of a result to the *)
(* type of the instruction, taken to hold every address of the memory, and *)
(* a range whose end passes 2^64, which checkRange lets through and the    *)
(* host does not define.                                                   *)
(***************************************************************************)
EXTENDS Integers, Sequences, FiniteSetsExt

CONSTANT MemorySize   (* memory_.size().                                     *)

ASSUME ByteStringsAssumption == MemorySize \in Nat

Address == 0 .. MemorySize - 1
ByteValue == 0 .. 255
Memory == [Address -> ByteValue]

Gives(m, n) == [memory |-> m, num |-> n, threw |-> FALSE]
Writes(m) == Gives(m, 0)
Throws(m) == [memory |-> m, num |-> 0, threw |-> TRUE]

(* checkRange throws. *)
OutOfRange(addr, len) == addr + len > MemorySize

(* Where a search stopped.  Not found is 0, which is an address as well. *)
Found(m, places) == Gives(m, IF places = {} THEN 0 ELSE Min(places))
-----------------------------------------------------------------------------
(* Buffers. *)

memchr(m, buf, len, c) ==
  IF OutOfRange(buf, len) THEN Throws(m)
  ELSE Found(m, {i \in buf .. buf + len - 1 : m[i] = c})

memrchr(m, buf, len, c) ==
  LET places == {i \in buf .. buf + len - 1 : m[i] = c}
  IN  IF OutOfRange(buf, len) THEN Throws(m)
      ELSE Gives(m, IF places = {} THEN 0 ELSE Max(places))

memcount(m, buf, len, c) ==
  IF OutOfRange(buf, len) THEN Throws(m)
  ELSE Gives(m, Cardinality({i \in buf .. buf + len - 1 : m[i] = c}))

(* memcmp of the host gives 0. *)
SameBytes(m, x, y, len) == \A i \in 0 .. len - 1 : m[x + i] = m[y + i]

Matches(m, hay, hlen, needle, nlen) ==
  {p \in hay .. hay + hlen - nlen : SameBytes(m, p, needle, nlen)}

memfind(m, hay, hlen, needle, nlen) ==
  IF OutOfRange(hay, hlen) \/ OutOfRange(needle, nlen) THEN Throws(m)
  ELSE Found(m, Matches(m, hay, hlen, needle, nlen))

memeq(m, x, y, len) ==
  IF OutOfRange(x, len) \/ OutOfRange(y, len) THEN Throws(m)
  ELSE Gives(m, IF SameBytes(m, x, y, len) THEN 1 ELSE 0)

memzero(m, buf, len) ==
  IF OutOfRange(buf, len) THEN Throws(m)
  ELSE Writes([i \in Address |-> IF i \in buf .. buf + len - 1 THEN 0 ELSE m[i]])

Swap(m, i, j) == [m EXCEPT ![i] = m[j], ![j] = m[i]]

memswap(m, x, y, len) ==
  LET loop[k \in Memory, i \in Nat] == IF i = len THEN k ELSE loop[Swap(k, x + i, y + i), i + 1]
  IN  IF OutOfRange(x, len) \/ OutOfRange(y, len) THEN Throws(m) ELSE Writes(loop[m, 0])

Reversed(m, buf, len) ==
  LET loop[k \in Memory, i \in Nat] ==
        IF 2 * i + 1 < len THEN loop[Swap(k, buf + i, buf + len - 1 - i), i + 1] ELSE k
  IN  loop[m, 0]

memrev(m, buf, len) == IF OutOfRange(buf, len) THEN Throws(m) ELSE Writes(Reversed(m, buf, len))
-----------------------------------------------------------------------------
(* Texts. *)

(* The terminators before cap.  stringLength throws when there is none.    *)
Zeros(m, s, cap) == {i \in s .. (IF cap > MemorySize THEN MemorySize ELSE cap) - 1 : m[i] = 0}
Terminated(m, s) == Zeros(m, s, MemorySize) # {}
stringLength(m, s) == Min(Zeros(m, s, MemorySize)) - s

strlen(m, s) == IF Terminated(m, s) THEN Gives(m, stringLength(m, s)) ELSE Throws(m)

(* A text of n bytes or more is unterminated. *)
strnlen(m, s, n) ==
  IF Zeros(m, s, s + n) = {} THEN Throws(m) ELSE Gives(m, Min(Zeros(m, s, s + n)) - s)

Lower(c) == IF c \in 65 .. 90 THEN c + 32 ELSE c
Upper(c) == IF c \in 97 .. 122 THEN c - 32 ELSE c

(* strcmp, strncmp and strcasecmp: Char is Lower or the byte itself. *)
compareText(m, x, y, n, fold) ==
  LET Char(i) == IF fold THEN Lower(m[i]) ELSE m[i]
      loop[i \in Nat] ==
        IF i = n THEN Gives(m, 0)
        ELSE IF OutOfRange(x + i, 1) \/ OutOfRange(y + i, 1) THEN Throws(m)
        ELSE IF Char(x + i) # Char(y + i) THEN Gives(m, IF Char(x + i) < Char(y + i) THEN -1 ELSE 1)
        ELSE IF Char(x + i) = 0 THEN Gives(m, 0)
        ELSE loop[i + 1]
  IN  loop[0]

(* Fault: no terminator after n bytes. *)
copyUnterminated(m, at, src, n) ==
  LET loop[k \in Memory, i \in Nat] ==
        IF i = n THEN Writes(k)
        ELSE IF OutOfRange(src + i, 1) \/ OutOfRange(at + i, 1) THEN Throws(k)
        ELSE LET next == [k EXCEPT ![at + i] = k[src + i]]
             IN  IF k[src + i] = 0 THEN Writes(next) ELSE loop[next, i + 1]
  IN  loop[m, 0]

(* strcpy and the rest: byte by byte from the memory as it is then, and a  *)
(* terminator after the n-th.                                              *)
copyText(m, at, src, n) ==
  LET loop[k \in Memory, i \in Nat] ==
        IF i = n THEN IF OutOfRange(at + n, 1) THEN Throws(k) ELSE Writes([k EXCEPT ![at + n] = 0])
        ELSE IF OutOfRange(src + i, 1) \/ OutOfRange(at + i, 1) THEN Throws(k)
        ELSE LET next == [k EXCEPT ![at + i] = k[src + i]]
             IN  IF k[src + i] = 0 THEN Writes(next) ELSE loop[next, i + 1]
  IN  loop[m, 0]

appendText(m, dst, src, n) ==
  IF Terminated(m, dst) THEN copyText(m, dst + stringLength(m, dst), src, n) ELSE Throws(m)

TextPlaces(m, s, c) == {i \in s .. s + stringLength(m, s) : m[i] = c}

strchr(m, s, c) == IF Terminated(m, s) THEN Found(m, TextPlaces(m, s, c)) ELSE Throws(m)

strrchr(m, s, c) ==
  IF ~ Terminated(m, s) THEN Throws(m)
  ELSE Gives(m, IF TextPlaces(m, s, c) = {} THEN 0 ELSE Max(TextPlaces(m, s, c)))

strstr(m, h, needle) ==
  IF ~ Terminated(m, h) \/ ~ Terminated(m, needle) THEN Throws(m)
  ELSE Found(m, Matches(m, h, stringLength(m, h), needle, stringLength(m, needle)))

(* Fault: the last byte of the text is not looked at. *)
firstStopShort(m, s, set, member) ==
  LET Members == {m[set + j] : j \in 0 .. stringLength(m, set) - 1}
      stops == {i \in 0 .. stringLength(m, s) - 2 : (m[s + i] \in Members) = member}
  IN  Min(stops \cup {stringLength(m, s)})

(* The first byte of a text that is, or is not, in the set of another.     *)
firstStop(m, s, set, member) ==
  LET Members == {m[set + j] : j \in 0 .. stringLength(m, set) - 1}
      stops == {i \in 0 .. stringLength(m, s) - 1 : (m[s + i] \in Members) = member}
  IN  Min(stops \cup {stringLength(m, s)})

strspn(m, s, set) ==
  IF Terminated(m, s) /\ Terminated(m, set) THEN Gives(m, firstStop(m, s, set, FALSE)) ELSE Throws(m)

strcspn(m, s, set) ==
  IF Terminated(m, s) /\ Terminated(m, set) THEN Gives(m, firstStop(m, s, set, TRUE)) ELSE Throws(m)

strpbrk(m, s, set) ==
  IF ~ Terminated(m, s) \/ ~ Terminated(m, set) THEN Throws(m)
  ELSE LET i == firstStop(m, s, set, TRUE) IN Gives(m, IF i < stringLength(m, s) THEN s + i ELSE 0)

strrev(m, s) == IF Terminated(m, s) THEN Writes(Reversed(m, s, stringLength(m, s))) ELSE Throws(m)

changeCase(op, m, s) ==
  LET Changed(c) == IF op = "strupper" THEN Upper(c) ELSE Lower(c)
  IN  IF ~ Terminated(m, s) THEN Throws(m)
      ELSE Writes([i \in Address |-> IF i \in s .. s + stringLength(m, s) - 1 THEN Changed(m[i]) ELSE m[i]])
-----------------------------------------------------------------------------
(* UTF-8. *)

(* The continuation bytes a lead byte asks for. *)
IsLead(c) == c < 128 \/ c \div 32 = 6 \/ c \div 16 = 14 \/ c \div 8 = 30
Extra(c) ==
  CASE c < 128 -> 0 [] c \div 32 = 6 -> 1 [] c \div 16 = 14 -> 2 [] c \div 8 = 30 -> 3

Continues(c) == c \div 64 = 2

utf8decode(m, p) ==
  LET extra == Extra(m[p])
      lead == IF extra = 0 THEN m[p] ELSE m[p] % 2^(6 - extra)
      cp[k \in Nat] == IF k = 0 THEN lead ELSE (64 * cp[k - 1]) + (m[p + k] % 64)
  IN  IF OutOfRange(p, 1) THEN Throws(m)
      ELSE IF ~ IsLead(m[p]) \/ OutOfRange(p, extra + 1) THEN Throws(m)
      ELSE IF \E k \in 1 .. extra : ~ Continues(m[p + k]) THEN Throws(m)
      ELSE Gives(m, cp[extra])

(* Fault: the last two bytes of four swapped. *)
EncodedSwapped(cp) ==
  LET Low6(k) == 128 + ((cp \div 64^k) % 64)
  IN  CASE cp < 128               -> <<cp>>
        [] cp \in 128 .. 2047     -> <<192 + cp \div 64, Low6(0)>>
        [] cp \in 2048 .. 65535   -> <<224 + cp \div 4096, Low6(1), Low6(0)>>
        [] cp > 65535             -> <<240 + ((cp \div 64^3) % 16), Low6(2), Low6(0), Low6(1)>>

Encoded(cp) ==
  LET Low6(k) == 128 + ((cp \div 64^k) % 64)
  IN  CASE cp < 128               -> <<cp>>
        [] cp \in 128 .. 2047     -> <<192 + cp \div 64, Low6(0)>>
        [] cp \in 2048 .. 65535   -> <<224 + cp \div 4096, Low6(1), Low6(0)>>
        [] cp > 65535             -> <<240 + ((cp \div 64^3) % 16), Low6(2), Low6(1), Low6(0)>>

utf8encode(m, p, cp) ==
  LET n == Len(Encoded(cp))
  IN  IF OutOfRange(p, n) THEN Throws(m)
      ELSE Gives([i \in Address |-> IF i \in p .. p + n - 1 THEN Encoded(cp)[i - p + 1] ELSE m[i]], n)

utf8len(m, p) ==
  IF ~ Terminated(m, p) THEN Throws(m)
  ELSE Gives(m, Cardinality({i \in p .. p + stringLength(m, p) - 1 : ~ Continues(m[i])}))

utf8valid(m, p, len) ==
  LET valid[i \in Nat] ==
        IF i >= len THEN TRUE
        ELSE /\ IsLead(m[p + i])
             /\ i + Extra(m[p + i]) < len
             /\ \A k \in 1 .. Extra(m[p + i]) : Continues(m[p + i + k])
             /\ valid[i + Extra(m[p + i]) + 1]
  IN  IF OutOfRange(p, len) THEN Throws(m) ELSE Gives(m, IF valid[0] THEN 1 ELSE 0)
=============================================================================
