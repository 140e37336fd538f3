------------------------------ MODULE Globbing ------------------------------
(***************************************************************************)
(* util/glob.cpp: the files a pattern of uasm compile stands for.  A path  *)
(* is the sequence of its characters, the suffix .uasm being one of them,  *)
(* "U".                                                                    *)
(***************************************************************************)
EXTENDS Integers, SequencesExt

(* The bytes in the order in which std::sort puts them: a suffix begins    *)
(* with a dot.                                                             *)
Rank == [c \in {".", "U", "/", "*", "a", "b", "s", "t"} |->
           CASE c = "*" -> 0 [] c = "." -> 1 [] c = "U" -> 2 [] c = "/" -> 3
             [] c = "a" -> 4 [] c = "b" -> 5 [] c = "s" -> 6 [] c = "t" -> 7]

Before(p, q) ==
  \/ IsStrictPrefix(p, q)
  \/ \E i \in 1 .. Min({Len(p), Len(q)}) :
       Rank[p[i]] < Rank[q[i]] /\ SubSeq(p, 1, i - 1) = SubSeq(q, 1, i - 1)

(* std::sort and std::unique. *)
Sorted(paths) ==
  [i \in 1 .. Cardinality(paths) |->
     CHOOSE p \in paths : Cardinality({q \in paths : Before(q, p)}) = i - 1]
-----------------------------------------------------------------------------
(* One step of matchSegment at p of the pattern and n of the name.  After  *)
(* a mismatch the last star takes one character more.                      *)
MatchStep(pattern, name, s) ==
  LET at == IF s.p > Len(pattern) THEN "end" ELSE pattern[s.p]
  IN  CASE s.n > Len(name) -> s
        [] at = "*" -> [p |-> s.p + 1, n |-> s.n, starP |-> s.p, starN |-> s.n]
        [] at = name[s.n] -> [s EXCEPT !.p = @ + 1, !.n = @ + 1]
        [] s.starP > 0 -> [s EXCEPT !.p = s.starP + 1, !.n = s.starN + 1, !.starN = @ + 1]
        [] OTHER -> s

matchSegment(pattern, name) ==
  LET last == FoldLeft(LAMBDA s, i : MatchStep(pattern, name, s),
                       [p |-> 1, n |-> 1, starP |-> 0, starN |-> 0],
                       [i \in 1 .. (Len(pattern) + 1) * (Len(name) + 1) |-> i])
  IN  last.n > Len(name) /\ \A i \in last.p .. Len(pattern) : pattern[i] = "*"
-----------------------------------------------------------------------------
LastSlash(path) == Max({0} \cup {i \in DOMAIN path : path[i] = "/"})
Directory(path) == SubSeq(path, 1, LastSlash(path) - 1)
baseName(path)  == SubSeq(path, LastSlash(path) + 1, Len(path))

IsRecursive(pattern) == \E i \in 2 .. Len(pattern) : pattern[i] = "*" /\ pattern[i - 1] = "*"
BeforeStars(pattern) ==
  SubSeq(pattern, 1, Min({i \in 2 .. Len(pattern) : pattern[i] = "*" /\ pattern[i - 1] = "*"}) - 2)

(* The directory a pattern is about, and the pattern for names in it.  Two *)
(* stars are one in it: to match, they stand for the same.                 *)
Root(pattern) ==
  LET path == IF IsRecursive(pattern) THEN BeforeStars(pattern) ELSE pattern
  IN  IF LastSlash(path) > 1 THEN Directory(path)
      ELSE IF LastSlash(path) = 1 /\ ~ IsRecursive(pattern) THEN <<"/">> ELSE <<".">>
namePattern(pattern) ==
  SubSeq(pattern, LastSlash(IF IsRecursive(pattern) THEN BeforeStars(pattern) ELSE pattern) + 1, Len(pattern))

(* The name the system knows a path by. *)
Resolved(path) == IF Len(path) > 1 /\ SubSeq(path, 1, 2) = <<".", "/">> THEN SubSeq(path, 3, Len(path)) ELSE path

(* platformListFilesIn and platformListFilesRecursive. *)
Listing(root, files, recursively) ==
  LET Under(f) == IF root = <<".">> THEN <<".", "/">> \o f ELSE f
  IN  {Under(f) : f \in {g \in files :
         IF recursively THEN IsStrictPrefix(root \o <<"/">>, Under(g)) ELSE Directory(Under(g)) = root}}

endsWithUasm(path) == path # <<>> /\ Last(path) = "U"

(* expandGlob: the paths, or none when that is an error.                   *)
expandGlob(pattern, files) ==
  IF "*" \notin ToSet(pattern) THEN {pattern}
  ELSE {f \in Listing(Root(pattern), files, IsRecursive(pattern)) :
          endsWithUasm(f) /\ matchSegment(namePattern(pattern), baseName(f))}
=============================================================================
