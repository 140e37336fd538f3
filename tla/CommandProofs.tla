---------------------------- MODULE CommandProofs ----------------------------
(***************************************************************************)
(* That a program which meets none of the differences Portable names       *)
(* cannot tell a posix host from a Windows one, whatever the calls, the    *)
(* files, the bytes and the memory.  The inductive invariant has the two   *)
(* worlds equal and well formed: a call is then performed alike            *)
(* (PerformedAlike), and what it leaves is a world again (PerformedKeeps), *)
(* one lemma for each thing a call does to a world.                        *)
(***************************************************************************)
EXTENDS Syscalls, BasicLemmas, TLAPS

(* The room on a disk, the sum over the files in use, is a number: the     *)
(* files are finitely many, as the nodes are.                              *)
LEMMA RoomIsInteger ==
  ASSUME NEW w, IsWorld(w)
  PROVE  Room(w) \in Int
<1> DEFINE S == Live(w)
           g == [node \in S |-> Len(w.data[node])]
           Summed(it) == it = [s \in SUBSET S |->
                                 IF s = {} THEN 0
                                 ELSE LET x == CHOOSE x \in s : TRUE IN Len(w.data[x]) + it[s \ {x}]]
           sum == CHOOSE it : Summed(it)
<1>1. S \subseteq DOMAIN w.data
  <2>1. ASSUME NEW x \in S PROVE x \in DOMAIN w.data
    <3>1. x \in Range(w.names) \/ ((\E fd \in DOMAIN w.fds : x = w.fds[fd].node) /\ x # 0)
      BY DEF Live
    <3>2. CASE x \in Range(w.names)
      BY <3>2 DEF Range, IsWorld
    <3>3. CASE (\E fd \in DOMAIN w.fds : x = w.fds[fd].node) /\ x # 0
      BY <3>3 DEF Closed, IsWorld
    <3> QED BY <3>1, <3>2, <3>3
  <2> QED BY <2>1
<1>2. DOMAIN w.data = 1 .. Len(w.data) /\ Len(w.data) \in Nat /\ \A node \in DOMAIN w.data : Len(w.data[node]) \in Nat
  <2>1. w.data \in Seq(Seq(Octets))
    BY DEF IsWorld
  <2>2. ASSUME NEW node \in DOMAIN w.data PROVE Len(w.data[node]) \in Nat
    <3>1. w.data[node] \in Seq(Octets)
      BY <2>1
    <3> QED BY <3>1
  <2> QED BY <2>1, <2>2
<1>3. IsFiniteSet(S)
  <2>1. IsFiniteSet(1 .. Len(w.data))
    BY <1>2, FS_Interval
  <2> QED BY <1>1, <1>2, <2>1, FS_Subset
<1>4. g \in [S -> Nat]
  BY <1>1, <1>2
<1> HIDE DEF S
<1>5. ASSUME NEW it PROVE IsSetSum(it, g, S) <=> Summed(it)
  <2>1. ASSUME NEW s \in SUBSET S, s # {} PROVE g[FirstTaken(s)] = Len(w.data[CHOOSE x \in s : TRUE])
    BY <2>1 DEF FirstTaken
  <2> QED BY <2>1 DEF IsSetSum, FirstTaken
<1>6. \E it : Summed(it)
  <2> HIDE DEF g, Summed
  <2>1. PICK it : IsSetSum(it, g, S)
    BY <1>3, SetSumExists
  <2> QED BY <2>1, <1>5
<1>7. Summed(sum)
  BY <1>6
<1>8. Room(w) = w.disk - sum[S]
  BY DEF Room, MapThenSumSet, MapThenFoldSet, S
<1> HIDE DEF sum, g, Summed
<1>9. sum[S] \in Nat
  BY <1>3, <1>4, <1>5, <1>7, SetSumIsNatural
<1>10. w.disk \in Int
  BY DEF IsWorld
<1> QED BY <1>8, <1>9, <1>10
-----------------------------------------------------------------------------
(* What a world is made of, part by part.                                  *)
LEMMA WorldParts ==
  ASSUME NEW w, IsWorld(w)
  PROVE  /\ w.data \in Seq(Seq(Octets)) /\ DOMAIN w.data = 1 .. Len(w.data) /\ Len(w.data) \in Nat
         /\ \A node \in DOMAIN w.data : w.data[node] \in Seq(Octets) /\ Len(w.data[node]) \in Nat
         /\ \A name \in DOMAIN w.names : w.names[name] \in DOMAIN w.data
         /\ \A fd \in DOMAIN w.fds : IsFd(w, fd) =>
              /\ w.fds[fd] = [node |-> w.fds[fd].node, pos |-> w.fds[fd].pos, flags |-> w.fds[fd].flags]
              /\ w.fds[fd].node \in DOMAIN w.data /\ w.fds[fd].node # 0 /\ w.fds[fd].pos \in Nat
              /\ w.fds[fd].flags \in SUBSET Nat
<1>1. w.data \in Seq(Seq(Octets)) /\ DOMAIN w.data = 1 .. Len(w.data) /\ Len(w.data) \in Nat
  BY DEF IsWorld
<1>2. ASSUME NEW node \in DOMAIN w.data PROVE w.data[node] \in Seq(Octets) /\ Len(w.data[node]) \in Nat
  <2>1. w.data[node] \in Seq(Octets)
    BY <1>1
  <2> QED BY <2>1
<1>3. \A name \in DOMAIN w.names : w.names[name] \in DOMAIN w.data
  BY DEF IsWorld
<1>4. ASSUME NEW fd \in DOMAIN w.fds, IsFd(w, fd)
      PROVE  /\ w.fds[fd] = [node |-> w.fds[fd].node, pos |-> w.fds[fd].pos, flags |-> w.fds[fd].flags]
             /\ w.fds[fd].node \in DOMAIN w.data /\ w.fds[fd].node # 0 /\ w.fds[fd].pos \in Nat
             /\ w.fds[fd].flags \in SUBSET Nat
  <2>1. w.fds[fd] \in [node : DOMAIN w.data, pos : Nat, flags : SUBSET Nat]
    BY <1>4 DEF IsWorld, IsFd
  <2> QED BY <2>1, <1>1
<1> QED BY <1>1, <1>2, <1>3, <1>4

(* file_size: fstat, and a seek to the end and back, give the same size    *)
(* and leave the descriptor where it was.                                  *)
LEMMA SizesAgree ==
  ASSUME NEW w, IsWorld(w), NEW fd
  PROVE  FileSize("posix", w, fd) = FileSize("windows", w, fd)
<1>1. CASE ~ IsFd(w, fd)
  BY <1>1 DEF FileSize
<1>2. CASE IsFd(w, fd)
  <2> DEFINE node == w.fds[fd].node
             pos == w.fds[fd].pos
             flags == w.fds[fd].flags
             size == Len(w.data[node])
             far == [w EXCEPT !.fds[fd].pos = size]
  <2>1. /\ fd \in DOMAIN w.fds /\ w.fds[fd] = [node |-> node, pos |-> pos, flags |-> flags]
        /\ node \in DOMAIN w.data /\ node # 0 /\ pos \in Nat /\ size \in Nat
    BY <1>2, WorldParts DEF IsFd
  <2>2. size + 0 = size /\ ~ (size < 0) /\ pos + 0 = pos /\ 0 + pos = pos /\ ~ (pos < 0) /\ 0 + size = size
    BY <2>1
  <2>3. Seek(w, fd, 0, 2) = Answer(far, size)
    BY <1>2, <2>1, <2>2 DEF Seek
  <2>w. w = [mem |-> w.mem, names |-> w.names, dirs |-> w.dirs, data |-> w.data, disk |-> w.disk,
          fds |-> w.fds, env |-> w.env, args |-> w.args, dir |-> w.dir]
    BY DEF IsWorld
  <2>4. far.fds = [w.fds EXCEPT ![fd].pos = size] /\ far = [w EXCEPT !.fds = far.fds]
    BY <2>w
  <2>f. w.fds = [x \in DOMAIN w.fds |-> w.fds[x]]
    BY DEF IsWorld
  <2>5. far.fds[fd] = [node |-> node, pos |-> size, flags |-> flags] /\ fd \in DOMAIN far.fds
    BY <2>1, <2>4
  <2>6. IsFd(far, fd)
    BY <2>1, <2>5 DEF IsFd, Closed
  <2>7. [far.fds EXCEPT ![fd].pos = pos] = w.fds
    BY <2>1, <2>4, <2>f
  <2>8. [far EXCEPT !.fds[fd].pos = pos] = w
    BY <2>7, <2>4, <2>w
  <2> HIDE DEF far, pos, size, node, flags
  <2>9. Seek(far, fd, pos, 0) = Answer(w, pos)
    BY <2>2, <2>6, <2>8 DEF Seek
  <2>10. Answer(far, size).world = far /\ Answer(far, size).result = size /\ Answer(w, pos).world = w
    BY DEF Answer
  <2>11. FileSize("posix", w, fd) = Answer(w, size)
    BY <1>2 DEF FileSize, size, node
  <2>12. FileSize("windows", w, fd) = Answer(w, size)
    BY <1>2, <2>3, <2>9, <2>10 DEF FileSize, pos
  <2> QED BY <2>11, <2>12
<1> QED BY <1>1, <1>2

(* The lesser and the greater of two numbers.                              *)
LEMMA OfTwo ==
  ASSUME NEW a \in Int, NEW b \in Int
  PROVE  /\ Min({a, b}) = (IF a <= b THEN a ELSE b) /\ Min({a, b}) \in Int
         /\ Max({a, b}) = (IF a <= b THEN b ELSE a) /\ Max({a, b}) \in Int
<1> DEFINE S == {a, b}
<1>1. \E x \in S : \A y \in S : x <= y
  BY SMT
<1>2. \E x \in S : \A y \in S : x >= y
  BY SMT
<1>3. Min(S) \in S /\ \A y \in S : Min(S) <= y
  BY <1>1 DEF Min
<1>4. Max(S) \in S /\ \A y \in S : Max(S) >= y
  BY <1>2 DEF Max
<1>5. Min(S) \in Int /\ Max(S) \in Int /\ Min(S) <= a /\ Min(S) <= b /\ Max(S) >= a /\ Max(S) >= b
  BY <1>3, <1>4
<1>6. (Min(S) = a \/ Min(S) = b) /\ (Max(S) = a \/ Max(S) = b)
  BY <1>3, <1>4
<1> HIDE DEF S
<1>7. Min(S) = (IF a <= b THEN a ELSE b) /\ Max(S) = (IF a <= b THEN b ELSE a)
  BY <1>5, <1>6
<1> QED BY <1>5, <1>7 DEF S

(* A new file's node is the next one.                                      *)
LEMMA NewNodeIsNext ==
  ASSUME NEW w, IsWorld(w)
  PROVE  NewNode(w) = Len(w.data) + 1
<1> DEFINE S == {0} \cup DOMAIN w.data
<1>1. DOMAIN w.data = 1 .. Len(w.data) /\ Len(w.data) \in Nat
  BY WorldParts
<1>2. Len(w.data) \in S /\ \A y \in S : Len(w.data) >= y
  BY <1>1
<1>3. S \subseteq Nat
  BY <1>1
<1> HIDE DEF S
<1>4. Max(S) \in S /\ \A y \in S : Max(S) >= y
  BY <1>2 DEF Max
<1>5. Max(S) = Len(w.data)
  <2>1. Max(S) \in Nat /\ Max(S) >= Len(w.data) /\ Len(w.data) >= Max(S) /\ Len(w.data) \in Nat
    BY <1>1, <1>2, <1>3, <1>4
  <2> QED BY <2>1
<1> QED BY <1>5 DEF NewNode, S

(* A world with other contents.                                           *)
With(w, mem_, names_, dirs_, data_, fds_, env_) ==
  [mem |-> mem_, names |-> names_, dirs |-> dirs_, data |-> data_, disk |-> w.disk,
   fds |-> fds_, env |-> env_, args |-> w.args, dir |-> w.dir]

NodesApart(names_) == \A a, b \in DOMAIN names_ : names_[a] = names_[b] => a = b

(* A world with other contents, well formed, is a world.                   *)
LEMMA WithIsWorld ==
  ASSUME NEW w, IsWorld(w), NEW mem \in Seq(Octets), NEW names, NEW dirs, NEW data \in Seq(Seq(Octets)), NEW fds, NEW env,
         names \in [DOMAIN names -> DOMAIN data], NodesApart(names),
         DOMAIN fds \subseteq Nat, fds \in [DOMAIN fds -> [node : DOMAIN data, pos : Nat, flags : SUBSET Nat] \cup {Closed}],
         env \in [DOMAIN env -> Seq(Octets)]
  PROVE  IsWorld(With(w, mem, names, dirs, data, fds, env))
<1> DEFINE v == With(w, mem, names, dirs, data, fds, env)
<1>1. /\ v.mem = mem /\ v.names = names /\ v.dirs = dirs /\ v.data = data /\ v.disk = w.disk
      /\ v.fds = fds /\ v.env = env /\ v.args = w.args /\ v.dir = w.dir
      /\ v = [mem |-> v.mem, names |-> v.names, dirs |-> v.dirs, data |-> v.data, disk |-> v.disk,
              fds |-> v.fds, env |-> v.env, args |-> v.args, dir |-> v.dir]
  BY DEF With
<1>2. w.args \in Seq(Seq(Octets)) /\ w.disk \in Int
  BY DEF IsWorld
<1> HIDE DEF v
<1>3. IsWorld(v)
  BY <1>1, <1>2 DEF IsWorld, NodesApart
<1> QED BY <1>3 DEF v

(* A world is what its parts make.                                         *)
LEMMA WithItself ==
  ASSUME NEW w, IsWorld(w)
  PROVE  /\ w = With(w, w.mem, w.names, w.dirs, w.data, w.fds, w.env)
         /\ w.mem \in Seq(Octets) /\ w.names \in [DOMAIN w.names -> DOMAIN w.data] /\ NodesApart(w.names)
         /\ DOMAIN w.fds \subseteq Nat /\ w.fds \in [DOMAIN w.fds -> [node : DOMAIN w.data, pos : Nat, flags : SUBSET Nat] \cup {Closed}]
         /\ w.env \in [DOMAIN w.env -> Seq(Octets)]
BY DEF IsWorld, With, NodesApart

(* A node more: the others keep their bytes.                               *)
LEMMA DataGrow ==
  ASSUME NEW data \in Seq(Seq(Octets)), NEW bytes \in Seq(Octets)
  PROVE  /\ Put(data, Len(data) + 1, bytes) = Append(data, bytes)
         /\ Append(data, bytes) \in Seq(Seq(Octets)) /\ DOMAIN Append(data, bytes) = DOMAIN data \cup {Len(data) + 1}
         /\ \A i \in DOMAIN data : Append(data, bytes)[i] = data[i]
         /\ Append(data, bytes)[Len(data) + 1] = bytes
<1>1. DOMAIN data = 1 .. Len(data) /\ Len(data) \in Nat /\ 1 .. Len(data) + 1 = 1 .. Len(data) \cup {Len(data) + 1}
  OBVIOUS
<1>2. /\ Append(data, bytes) \in Seq(Seq(Octets)) /\ Len(Append(data, bytes)) = Len(data) + 1
      /\ DOMAIN Append(data, bytes) = 1 .. Len(data) + 1
      /\ Append(data, bytes) = [i \in 1 .. Len(data) + 1 |-> Append(data, bytes)[i]]
  <2>1. Append(data, bytes) \in Seq(Seq(Octets)) /\ Len(Append(data, bytes)) = Len(data) + 1
    OBVIOUS
  <2> DEFINE more == Append(data, bytes)
  <2> HIDE DEF more
  <2>2. more \in Seq(Seq(Octets)) => DOMAIN more = 1 .. Len(more) /\ more = [i \in 1 .. Len(more) |-> more[i]]
    OBVIOUS
  <2> QED BY <2>1, <2>2 DEF more
<1>3. \A i \in 1 .. Len(data) + 1 : Append(data, bytes)[i] = IF i = Len(data) + 1 THEN bytes ELSE data[i]
  OBVIOUS
<1>4. Put(data, Len(data) + 1, bytes) = [i \in 1 .. Len(data) + 1 |-> IF i = Len(data) + 1 THEN bytes ELSE data[i]]
  BY <1>1 DEF Put
<1>5. Put(data, Len(data) + 1, bytes) = Append(data, bytes)
  BY <1>2, <1>3, <1>4
<1>6. \A i \in DOMAIN data : i \in 1 .. Len(data) + 1 /\ i # Len(data) + 1
  BY <1>1
<1>7. Len(data) + 1 \in 1 .. Len(data) + 1
  BY <1>1
<1>8. Append(data, bytes) \in Seq(Seq(Octets)) /\ DOMAIN Append(data, bytes) = DOMAIN data \cup {Len(data) + 1}
  BY <1>1, <1>2
<1> QED BY <1>3, <1>5, <1>6, <1>7, <1>8

(* A file that is made or emptied: the names and contents of the others    *)
(* stay, and so do the descriptors.                                        *)
LEMMA MadeFile ==
  ASSUME NEW w, IsWorld(w), NEW name, NEW bytes \in Seq(Octets), NEW v, v = WithFile(w, name, bytes)
  PROVE  /\ IsWorld(v)
         /\ name \in DOMAIN v.names
         /\ v.fds = w.fds /\ v = With(w, w.mem, v.names, w.dirs, v.data, w.fds, w.env)
         /\ \A other \in DOMAIN w.names \ {name} :
              other \in DOMAIN v.names /\ v.names[other] = w.names[other] /\ v.data[v.names[other]] = w.data[w.names[other]]
<1>0. /\ w = With(w, w.mem, w.names, w.dirs, w.data, w.fds, w.env)
      /\ w.data \in Seq(Seq(Octets)) /\ DOMAIN w.data = 1 .. Len(w.data) /\ Len(w.data) \in Nat
      /\ \A n \in DOMAIN w.names : w.names[n] \in DOMAIN w.data
  BY WithItself, WorldParts
<1>1. CASE Exists(w, name)
  <2> DEFINE node == w.names[name]
             data == [w.data EXCEPT ![node] = bytes]
  <2>1. v = [w EXCEPT !.data = data]
    BY <1>1 DEF WithFile
  <2>2. v = With(w, w.mem, w.names, w.dirs, data, w.fds, w.env) /\ v.names = w.names /\ v.data = data /\ v.fds = w.fds
    BY <1>0, <2>1 DEF With
  <2>3. name \in DOMAIN w.names /\ node \in DOMAIN w.data
    BY <1>0, <1>1 DEF Exists
  <2>4. data \in Seq(Seq(Octets)) /\ DOMAIN data = DOMAIN w.data
    BY <1>0, <2>3
  <2>5. \A i \in DOMAIN w.data \ {node} : data[i] = w.data[i]
    BY <2>3
  <2> HIDE DEF data, node
  <2>6. IsWorld(v)
    <3>1. w.names \in [DOMAIN w.names -> DOMAIN data] /\ w.fds \in [DOMAIN w.fds -> [node : DOMAIN data, pos : Nat, flags : SUBSET Nat] \cup {Closed}]
      BY <2>4, WithItself
    <3>2. /\ w.mem \in Seq(Octets) /\ NodesApart(w.names) /\ DOMAIN w.fds \subseteq Nat
          /\ w.env \in [DOMAIN w.env -> Seq(Octets)]
      BY WithItself
    <3> QED BY <2>2, <2>4, <3>1, <3>2, WithIsWorld
  <2>7. \A other \in DOMAIN w.names \ {name} : w.names[other] \in DOMAIN w.data \ {node}
    BY <1>0, <2>3, WithItself DEF node, NodesApart
  <2> QED BY <2>2, <2>3, <2>5, <2>6, <2>7
<1>2. CASE ~ Exists(w, name)
  <2> DEFINE node == Len(w.data) + 1
             data == Append(w.data, bytes)
             names == Put(w.names, name, node)
  <2>1. v = [w EXCEPT !.data = data, !.names = names]
    <3>1. NewNode(w) = node /\ Put(w.data, node, bytes) = data
      BY <1>0, NewNodeIsNext, DataGrow
    <3> HIDE DEF node, data
    <3> QED BY <1>2, <3>1 DEF WithFile
  <2>2. v = With(w, w.mem, names, w.dirs, data, w.fds, w.env) /\ v.names = names /\ v.data = data /\ v.fds = w.fds
    BY <1>0, <2>1 DEF With
  <2>3. name \notin DOMAIN w.names /\ node \notin DOMAIN w.data
    BY <1>0, <1>2 DEF Exists
  <2>4. data \in Seq(Seq(Octets)) /\ DOMAIN data = DOMAIN w.data \cup {node} /\ \A i \in DOMAIN w.data : data[i] = w.data[i]
    BY <1>0, DataGrow
  <2>5. DOMAIN names = DOMAIN w.names \cup {name} /\ names[name] = node /\ \A other \in DOMAIN w.names : names[other] = w.names[other]
    BY <2>3 DEF Put
  <2>6. names \in [DOMAIN names -> DOMAIN data]
    BY <1>0, <2>4, <2>5 DEF Put
  <2> HIDE DEF data, node, names
  <2>7. NodesApart(names)
    BY <1>0, <2>3, <2>5, WithItself DEF NodesApart
  <2>8. w.fds \in [DOMAIN w.fds -> [node : DOMAIN data, pos : Nat, flags : SUBSET Nat] \cup {Closed}]
    BY <2>4, WithItself
  <2>9. IsWorld(v)
    <3>1. /\ w.mem \in Seq(Octets) /\ DOMAIN w.fds \subseteq Nat
          /\ w.env \in [DOMAIN w.env -> Seq(Octets)]
      BY WithItself
    <3>2. IsWorld(With(w, w.mem, names, w.dirs, data, w.fds, w.env))
      BY <2>4, <2>6, <2>7, <2>8, <3>1, WithIsWorld
    <3> QED BY <2>2, <3>2
  <2> QED BY <1>0, <2>2, <2>4, <2>5, <2>9
<1> QED BY <1>1, <1>2

(* copy_file: posix empties the target first and reads the source then,    *)
(* Windows copies at once; a source that is another file, with room for    *)
(* its bytes, is copied alike.                                             *)
LEMMA CopiesAgree ==
  ASSUME NEW w, IsWorld(w), NEW src, NEW dst,
         Exists(w, src) /\ ~ IsDir(w, dst) =>
           /\ IsFile(w, src) /\ src # dst /\ ~ IsOpen(w, src) /\ (Exists(w, dst) => ~ IsOpen(w, dst))
           /\ Len(Contents(w, src)) <= Room(WithFile(w, dst, <<>>))
  PROVE  CopyFile("posix", w, src, dst) = CopyFile("windows", w, src, dst)
<1>1. CASE ~ Exists(w, src) \/ IsDir(w, dst)
  BY <1>1 DEF CopyFile
<1>2. CASE Exists(w, src) /\ ~ IsDir(w, dst)
  <2> DEFINE emptied == WithFile(w, dst, <<>>)
             bytes == Contents(w, src)
  <2>1. ~ InUse("posix", w, src) /\ ~ InUse("windows", w, src) /\ ~ InUse("posix", w, dst)
        /\ ~ (Exists(w, dst) /\ InUse("windows", w, dst))
    BY <1>2 DEF InUse
  <2>2. Contents(emptied, src) = bytes
    <3>1. <<>> \in Seq(Octets) /\ src \in DOMAIN w.names \ {dst}
      BY <1>2 DEF Exists
    <3>2. emptied.data[emptied.names[src]] = w.data[w.names[src]]
      <4>1. ASSUME NEW none \in Seq(Octets), NEW v, v = WithFile(w, dst, none)
            PROVE  \A other \in DOMAIN w.names \ {dst} : v.data[v.names[other]] = w.data[w.names[other]]
        BY <4>1, MadeFile
      <4> QED BY <3>1, <4>1
    <3> QED BY <3>2 DEF Contents
  <2>3. bytes \in Seq(Octets) /\ Len(bytes) \in Nat
    BY <1>2, WorldParts DEF Contents, Exists
  <2>4. Fitting(emptied, bytes) = bytes
    <3>1. IsWorld(emptied)
      <4>1. <<>> \in Seq(Octets)
        OBVIOUS
      <4> QED BY <4>1, MadeFile
    <3>2. Room(emptied) \in Int /\ Len(bytes) <= Room(emptied)
      BY <1>2, <3>1, RoomIsInteger
    <3> DEFINE both == {Len(bytes), Room(emptied)}
    <3>3. Min(both) = Len(bytes)
      BY <2>3, <3>2, OfTwo
    <3> HIDE DEF emptied, bytes
    <3>4. SubSeq(bytes, 1, Len(bytes)) = bytes
      BY <2>3
    <3> QED BY <3>3, <3>4 DEF Fitting
  <2>5. ~ (Len(bytes) < Len(bytes))
    BY <2>3
  <2>6. src # dst /\ ~ IsDir(w, src)
    BY <1>2 DEF IsFile, IsDir
  <2> HIDE DEF emptied, bytes
  <2>7. CopyFile("posix", w, src, dst) = Answer(WithFile(emptied, dst, bytes), 0)
    BY <1>2, <2>1, <2>2, <2>4 DEF CopyFile, emptied
  <2>8. CopyFile("windows", w, src, dst) = Answer(WithFile(emptied, dst, bytes), 0)
    BY <1>2, <2>1, <2>4, <2>5, <2>6 DEF CopyFile, emptied, bytes
  <2> QED BY <2>7, <2>8
<1> QED BY <1>1, <1>2
-----------------------------------------------------------------------------
(* open: the bits that make a file are not set, or the file is there, and  *)
(* nothing is cut from its end.                                            *)
LEMMA OpensAgree ==
  ASSUME NEW w, NEW name, NEW flags,
         O_CREAT["posix"] \notin flags, Exists(w, name) \/ O_CREAT["windows"] \notin flags,
         Exists(w, name) /\ {O_TRUNC, O_BINARY} \cap flags = {} => ~ EndsInCtrlZ(w, name)
  PROVE  OpenFile("posix", w, name, flags) = OpenFile("windows", w, name, flags)
<1>1. ~ TextMode("posix", flags) /\ (TextMode("windows", flags) <=> O_BINARY \notin flags)
  BY DEF TextMode
<1>2. IsFile(w, name) => Exists(w, name)
  BY DEF IsFile
<1>3. ~ Exists(w, name) => O_CREAT["posix"] \notin flags /\ O_CREAT["windows"] \notin flags
  OBVIOUS
<1>4. IsFile(w, name) /\ O_TRUNC \notin flags => ~ (TextMode("windows", flags) /\ EndsInCtrlZ(w, name))
  <2> SUFFICES ASSUME IsFile(w, name), O_TRUNC \notin flags, O_BINARY \notin flags PROVE ~ EndsInCtrlZ(w, name)
    BY <1>1
  <2>1. {O_TRUNC, O_BINARY} \cap flags = {}
    OBVIOUS
  <2> QED BY <1>2, <2>1
<1> QED BY <1>1, <1>3, <1>4 DEF OpenFile

(* write and read: no byte is translated.                                  *)
LEMMA TransfersAgree ==
  ASSUME NEW w, NEW fd
  PROVE  /\ \A bytes : ~ Translates("windows", w, fd, bytes, {LF}) =>
              WriteFile("posix", w, fd, bytes) = WriteFile("windows", w, fd, bytes)
         /\ \A at, len : (IsFd(w, fd) => ~ Translates("windows", w, fd, Unread(w, fd, len), {CR, CtrlZ})) =>
              ReadFile("posix", w, fd, at, len) = ReadFile("windows", w, fd, at, len)
<1>1. \A bytes, marks : ~ Translates("posix", w, fd, bytes, marks)
  BY DEF Translates, TextMode
<1>2. ASSUME NEW bytes, ~ Translates("windows", w, fd, bytes, {LF})
      PROVE  WriteFile("posix", w, fd, bytes) = WriteFile("windows", w, fd, bytes)
  BY <1>1, <1>2 DEF WriteFile
<1>3. ASSUME NEW at, NEW len, IsFd(w, fd) => ~ Translates("windows", w, fd, Unread(w, fd, len), {CR, CtrlZ})
      PROVE  ReadFile("posix", w, fd, at, len) = ReadFile("windows", w, fd, at, len)
  BY <1>1, <1>3 DEF ReadFile
<1> QED BY <1>2, <1>3

(* A portable call does the same on both hosts.                            *)
LEMMA PerformedAlike ==
  ASSUME NEW w, IsWorld(w), NEW c, IsCall(c), Portable(w, c)
  PROVE  platformSyscall("posix", w, c) = platformSyscall("windows", w, c)
<1>1. CASE ~ Reachable(w, c)
  <2>1. c.id # "dir_open"
    BY <1>1 DEF Portable
  <2> QED BY <1>1, <2>1 DEF platformSyscall
<1>2. CASE Reachable(w, c)
  <2> DEFINE first == TextAt(w, c.a0)
             second == TextAt(w, c.a1)
  <2> SUFFICES Performed("posix", w, c) = Performed("windows", w, c)
    BY <1>2 DEF platformSyscall
  <2>1. CASE c.id = "file_size"
    <3>1. FileSize("posix", w, c.a0) = FileSize("windows", w, c.a0)
      BY SizesAgree
    <3> QED BY <2>1, <3>1 DEF Performed
  <2>2. CASE c.id = "remove_file"
    <3>1. IsFile(w, first) => ~ IsOpen(w, first)
      BY <1>2, <2>2 DEF Portable
    <3>2. RemoveFile("posix", w, first) = RemoveFile("windows", w, first)
      BY <3>1 DEF RemoveFile, InUse
    <3> QED BY <2>2, <3>2 DEF Performed
  <2>3. CASE c.id = "rename_file"
    <3>1. Exists(w, first) => ~ IsOpen(w, first) /\ (Exists(w, second) => first = second)
      BY <1>2, <2>3 DEF Portable
    <3>2. RenameFile("posix", w, first, second) = RenameFile("windows", w, first, second)
      BY <3>1 DEF RenameFile, InUse
    <3> QED BY <2>3, <3>2 DEF Performed
  <2>4. CASE c.id = "copy_file"
    <3>1. Exists(w, first) /\ ~ IsDir(w, second) =>
            /\ IsFile(w, first) /\ first # second /\ ~ IsOpen(w, first) /\ (Exists(w, second) => ~ IsOpen(w, second))
            /\ Len(Contents(w, first)) <= Room(WithFile(w, second, <<>>))
      BY <1>2, <2>4 DEF Portable
    <3>2. CopyFile("posix", w, first, second) = CopyFile("windows", w, first, second)
      BY <3>1, CopiesAgree
    <3> QED BY <2>4, <3>2 DEF Performed
  <2>5. CASE c.id = "getenv"
    <3>1. first \in DOMAIN w.env => Len(w.env[first]) \in 1 .. c.a2 - 1
      BY <1>2, <2>5 DEF Portable
    <3>2. c.a2 \in Int
      BY <2>5 DEF IsCall, Buffer
    <3>3. first \in DOMAIN w.env => w.env[first] # <<>> /\ Len(w.env[first]) < c.a2
      BY <3>1, <3>2
    <3>4. GetEnv("posix", w, first, c.a1, c.a2) = GetEnv("windows", w, first, c.a1, c.a2)
      BY <3>3 DEF GetEnv
    <3> QED BY <2>5, <3>4 DEF Performed
  <2>6. CASE c.id \in {"dir_open", "dir_read"}
    BY <1>2, <2>6 DEF Portable
  <2>7. CASE c.id \in {"close", "seek", "mkdir", "rmdir", "file_exists", "file_is_dir", "setenv", "argc", "argv"}
    BY <2>7 DEF Performed
  <2>8. CASE c.id = "open"
    <3>1. /\ O_CREAT["posix"] \notin c.a1
          /\ Exists(w, first) \/ O_CREAT["windows"] \notin c.a1
          /\ Exists(w, first) /\ {O_TRUNC, O_BINARY} \cap c.a1 = {} => ~ EndsInCtrlZ(w, first)
      BY <1>2, <2>8 DEF Portable
    <3>2. OpenFile("posix", w, first, c.a1) = OpenFile("windows", w, first, c.a1)
      BY <3>1, OpensAgree
    <3> QED BY <2>8, <3>2 DEF Performed
  <2>9. CASE c.id = "write"
    <3>1. PICK bytes : bytes = SubSeq(w.mem, c.a1 + 1, c.a1 + c.a2)
      OBVIOUS
    <3>2. ~ Translates("windows", w, c.a0, bytes, {LF})
      BY <1>2, <2>9, <3>1 DEF Portable
    <3>3. WriteFile("posix", w, c.a0, bytes) = WriteFile("windows", w, c.a0, bytes)
      BY <3>2, TransfersAgree
    <3> QED BY <2>9, <3>1, <3>3 DEF Performed
  <2>10. CASE c.id = "read"
    <3>1. IsFd(w, c.a0) => ~ Translates("windows", w, c.a0, Unread(w, c.a0, c.a2), {CR, CtrlZ})
      BY <1>2, <2>10 DEF Portable
    <3>2. ReadFile("posix", w, c.a0, c.a1, c.a2) = ReadFile("windows", w, c.a0, c.a1, c.a2)
      BY <3>1, TransfersAgree
    <3> QED BY <2>10, <3>2 DEF Performed
  <2>11. c.id \in Ids
    BY DEF IsCall
  <2> QED BY <2>1, <2>2, <2>3, <2>4, <2>5, <2>6, <2>7, <2>8, <2>9, <2>10, <2>11 DEF Ids
<1> QED BY <1>1, <1>2
-----------------------------------------------------------------------------
(* A part of a text is a text.                                             *)
LEMMA PartOfText ==
  ASSUME NEW s \in Seq(Octets), NEW m \in Nat \ {0}, NEW n \in Int, n <= Len(s)
  PROVE  SubSeq(s, m, n) \in Seq(Octets) /\ Len(SubSeq(s, m, n)) = IF m <= n THEN n - m + 1 ELSE 0
<1>1. CASE m <= n
  OBVIOUS
<1>2. CASE ~ (m <= n)
  <2>1. SubSeq(s, m, n) = <<>>
    BY <1>2
  <2> QED BY <1>2, <2>1
<1> QED BY <1>1, <1>2

(* What the memory holds up to a zero byte is a text.                      *)
LEMMA TextIsText ==
  ASSUME NEW w, IsWorld(w), NEW at, cstrAt(w, at), Whole(w, at)
  PROVE  TextAt(w, at) \in Seq(Octets)
<1> DEFINE zeros == {i \in at + 1 .. Len(w.mem) : w.mem[i] = 0}
<1>1. w.mem \in Seq(Octets) /\ Len(w.mem) \in Nat /\ at \in Nat
  BY WithItself DEF cstrAt
<1>2. zeros \in SUBSET Nat /\ zeros # {} /\ \A z \in zeros : z <= Len(w.mem)
  BY <1>1 DEF Whole
<1>3. TextAt(w, at) = SubSeq(w.mem, at + 1, Min(zeros) - 1)
  BY DEF TextAt
<1> HIDE DEF zeros
<1>4. \E m \in zeros : \A n \in zeros : m <= n
  BY <1>2, LeastElement
<1>5. Min(zeros) \in zeros
  BY <1>4 DEF Min
<1>6. Min(zeros) - 1 \in Int /\ Min(zeros) - 1 <= Len(w.mem) /\ at + 1 \in Nat \ {0}
  <2>1. Min(zeros) \in Nat /\ Min(zeros) <= Len(w.mem)
    BY <1>2, <1>5
  <2> QED BY <1>1, <2>1
<1> QED BY <1>1, <1>3, <1>6, PartOfText

(* The first bytes of a text are one.                                      *)
LEMMA CutText ==
  ASSUME NEW s \in Seq(Octets), NEW n \in Int
  PROVE  /\ SubSeq(s, 1, Min({Len(s), n})) \in Seq(Octets)
         /\ Len(SubSeq(s, 1, Min({Len(s), n}))) \in Nat
<1>1. Len(s) \in Nat
  OBVIOUS
<1> DEFINE k == Min({Len(s), n})
<1>2. k \in Int /\ k <= Len(s)
  BY <1>1, OfTwo
<1> HIDE DEF k
<1>3. SubSeq(s, 1, k) \in Seq(Octets) /\ Len(SubSeq(s, 1, k)) = IF 1 <= k THEN k - 1 + 1 ELSE 0
  BY <1>2, PartOfText
<1>4. Len(SubSeq(s, 1, k)) \in Nat
  BY <1>3
<1> QED BY <1>3, <1>4 DEF k

(* A text written into the memory leaves a world.                          *)
LEMMA StoredText ==
  ASSUME NEW w, IsWorld(w), NEW at \in Int, NEW bytes \in Seq(Octets)
  PROVE  /\ IsWorld(Stored(w, at, bytes))
         /\ Stored(w, at, bytes).fds = w.fds
<1> DEFINE mem == [i \in DOMAIN w.mem |-> IF i - at \in DOMAIN bytes THEN bytes[i - at] ELSE w.mem[i]]
<1>0. w.mem \in Seq(Octets) /\ DOMAIN w.mem = 1 .. Len(w.mem) /\ Len(w.mem) \in Nat
  BY DEF IsWorld
<1>1. \A i \in DOMAIN w.mem : mem[i] \in Octets
  <2>1. \A i \in DOMAIN w.mem : w.mem[i] \in Octets
    BY <1>0
  <2>2. \A i \in DOMAIN bytes : bytes[i] \in Octets
    OBVIOUS
  <2> QED BY <2>1, <2>2
<1>2. mem \in Seq(Octets)
  <2>1. mem \in [1 .. Len(w.mem) -> Octets]
    BY <1>0, <1>1
  <2> HIDE DEF mem
  <2> QED BY <1>0, <2>1
<1>3. w = With(w, w.mem, w.names, w.dirs, w.data, w.fds, w.env)
  BY WithItself
<1>4. Stored(w, at, bytes) = [w EXCEPT !.mem = mem]
  BY <1>3 DEF Stored, With
<1> HIDE DEF mem
<1>5. Stored(w, at, bytes) = With(w, mem, w.names, w.dirs, w.data, w.fds, w.env)
  BY <1>3, <1>4 DEF With
<1>6. IsWorld(With(w, mem, w.names, w.dirs, w.data, w.fds, w.env))
  <2>1. w.data \in Seq(Seq(Octets))
    BY WorldParts
  <2> QED BY <1>2, <2>1, WithItself, WithIsWorld
<1> QED BY <1>5, <1>6 DEF With
-----------------------------------------------------------------------------
(* The descriptors, changed at one of them. *)
LEMMA FdsIsWorld ==
  ASSUME NEW w, IsWorld(w), NEW fd \in DOMAIN w.fds, NEW f \in [node : DOMAIN w.data, pos : Nat, flags : SUBSET Nat] \cup {Closed}
  PROVE  IsWorld([w EXCEPT !.fds[fd] = f])
<1> DEFINE fds == [w.fds EXCEPT ![fd] = f]
<1>1. w = With(w, w.mem, w.names, w.dirs, w.data, w.fds, w.env)
  BY WithItself
<1>2. [w EXCEPT !.fds[fd] = f] = With(w, w.mem, w.names, w.dirs, w.data, fds, w.env)
  BY <1>1 DEF With
<1>3. fds \in [DOMAIN fds -> [node : DOMAIN w.data, pos : Nat, flags : SUBSET Nat] \cup {Closed}] /\ DOMAIN fds = DOMAIN w.fds
  BY WithItself
<1> HIDE DEF fds
<1>4. w.data \in Seq(Seq(Octets)) /\ DOMAIN fds \subseteq Nat
  BY <1>3, WorldParts, WithItself
<1>5. IsWorld(With(w, w.mem, w.names, w.dirs, w.data, fds, w.env))
  BY <1>3, <1>4, WithItself, WithIsWorld
<1> QED BY <1>2, <1>5

(* seek leaves a world: a position before the file is refused.             *)
LEMMA SeekKeeps ==
  ASSUME NEW w, IsWorld(w), NEW fd, NEW offset \in Int, NEW whence
  PROVE  IsWorld(Seek(w, fd, offset, whence).world)
<1> DEFINE base == CASE whence = 0 -> 0 [] whence = 1 -> w.fds[fd].pos [] whence = 2 -> Len(w.data[w.fds[fd].node])
<1>1. CASE ~ IsFd(w, fd) \/ whence \notin 0 .. 2 \/ base + offset < 0
  BY <1>1 DEF Seek, Fails, Answer
<1>2. CASE IsFd(w, fd) /\ whence \in 0 .. 2 /\ ~ (base + offset < 0)
  <2>1. fd \in DOMAIN w.fds /\ w.fds[fd] = [node |-> w.fds[fd].node, pos |-> w.fds[fd].pos, flags |-> w.fds[fd].flags]
        /\ w.fds[fd].flags \in SUBSET Nat
        /\ w.fds[fd].node \in DOMAIN w.data /\ w.fds[fd].pos \in Nat /\ Len(w.data[w.fds[fd].node]) \in Nat
    BY <1>2, WorldParts DEF IsFd
  <2>2. base \in Nat
    BY <1>2, <2>1
  <2>3. base + offset \in Nat
    <3>1. ~ (base + offset < 0)
      BY <1>2
    <3> HIDE DEF base
    <3> QED BY <2>2, <3>1
  <2>4. Seek(w, fd, offset, whence) = Answer([w EXCEPT !.fds[fd].pos = base + offset], base + offset)
    BY <1>2 DEF Seek
  <2> HIDE DEF base
  <2> DEFINE f == [node |-> w.fds[fd].node, pos |-> base + offset, flags |-> w.fds[fd].flags]
  <2>5. f \in [node : DOMAIN w.data, pos : Nat, flags : SUBSET Nat]
    BY <2>1, <2>3
  <2>6. [w.fds[fd] EXCEPT !.pos = base + offset] = f
    BY <2>1
  <2>7. [w EXCEPT !.fds[fd].pos = base + offset] = [w EXCEPT !.fds[fd] = f]
    BY <2>6
  <2> QED BY <2>1, <2>4, <2>5, <2>7, FdsIsWorld DEF Answer
<1> QED BY <1>1, <1>2

(* A posix open leaves a world, with a file it makes or empties and a      *)
(* descriptor of its node.                                                 *)
LEMMA OpenKeeps ==
  ASSUME NEW w, IsWorld(w), NEW name, NEW flags \in SUBSET Nat
  PROVE  IsWorld(OpenFile("posix", w, name, flags).world)
<1> DEFINE free == {fd \in DOMAIN w.fds : w.fds[fd] = Closed}
           made == IF IsFile(w, name) /\ O_TRUNC \notin flags THEN w ELSE WithFile(w, name, <<>>)
           fails == IsDir(w, name) \/ free = {} \/ (~ Exists(w, name) /\ O_CREAT["posix"] \notin flags)
<1>1. CASE fails
  BY <1>1 DEF OpenFile, Fails, Answer
<1>2. CASE ~ fails
  <2>1. IsWorld(made) /\ made.fds = w.fds /\ name \in DOMAIN made.names
    <3>1. <<>> \in Seq(Octets)
      OBVIOUS
    <3>2. CASE IsFile(w, name) /\ O_TRUNC \notin flags
      BY <3>2 DEF IsFile, Exists
    <3>3. ASSUME NEW none \in Seq(Octets), NEW v, v = WithFile(w, name, none)
          PROVE  IsWorld(v) /\ v.fds = w.fds /\ name \in DOMAIN v.names
      BY <3>3, MadeFile
    <3> QED BY <3>1, <3>2, <3>3
  <2> DEFINE f == [node |-> made.names[name], pos |-> 0, flags |-> flags]
  <2>2. OpenFile("posix", w, name, flags) = Answer([made EXCEPT !.fds[Min(free)] = f], Min(free))
    <3>1. ~ TextMode("posix", flags)
      BY DEF TextMode
    <3> QED BY <1>2, <3>1 DEF OpenFile
  <2>3. Min(free) \in free
    <3>1. free \in SUBSET Nat /\ free # {}
      BY <1>2, WithItself
    <3> HIDE DEF free
    <3>2. \E m \in free : \A n \in free : m <= n
      BY <3>1, LeastElement
    <3> QED BY <3>2 DEF Min
  <2>4. Min(free) \in DOMAIN made.fds
    BY <2>1, <2>3
  <2> HIDE DEF free, made
  <2>5. f \in [node : DOMAIN made.data, pos : Nat, flags : SUBSET Nat]
    BY <2>1, WorldParts
  <2> QED BY <2>1, <2>2, <2>4, <2>5, FdsIsWorld DEF Answer
<1> QED BY <1>1, <1>2

(* What a write makes of a file's bytes, and what a read finds in them.    *)
LEMMA WrittenText ==
  ASSUME NEW old \in Seq(Octets), NEW pos \in Nat, NEW fitting \in Seq(Octets), NEW end, end = pos + Len(fitting)
  PROVE  /\ end \in Nat
         /\ [i \in 1 .. Max({end, Len(old)}) |->
               IF i \in pos + 1 .. end THEN fitting[i - pos] ELSE IF i <= Len(old) THEN old[i] ELSE 0] \in Seq(Octets)
<1>0. Len(old) \in Nat /\ Len(fitting) \in Nat /\ end \in Nat
  OBVIOUS
<1> DEFINE size == Max({end, Len(old)})
<1>1. size \in Nat
  <2>0. ASSUME NEW a \in Int, NEW b \in Int PROVE Max({a, b}) \in Int /\ (Max({a, b}) = a \/ Max({a, b}) = b)
    BY OfTwo
  <2>1. size \in Int /\ (size = end \/ size = Len(old))
    BY <1>0, <2>0
  <2> QED BY <1>0, <2>1
<1> HIDE DEF size
<1> DEFINE new == [i \in 1 .. size |-> IF i \in pos + 1 .. end THEN fitting[i - pos] ELSE IF i <= Len(old) THEN old[i] ELSE 0]
<1>2. ASSUME NEW i \in 1 .. size PROVE new[i] \in Octets
  <2>1. CASE i \in pos + 1 .. end
    <3>1. i - pos \in 1 .. Len(fitting)
      BY <1>0, <2>1
    <3>2. fitting[i - pos] \in Octets
      BY <3>1
    <3> QED BY <2>1, <3>2
  <2>2. CASE i \notin pos + 1 .. end /\ i <= Len(old)
    <3>1. old[i] \in Octets
      BY <2>2
    <3> QED BY <2>2, <3>1
  <2>3. CASE i \notin pos + 1 .. end /\ ~ (i <= Len(old))
    <3>1. new[i] = 0
      BY <2>3
    <3> QED BY <3>1 DEF Octets
  <2> QED BY <2>1, <2>2, <2>3
<1>3. new \in [1 .. size -> Octets]
  BY <1>2
<1> HIDE DEF new
<1>4. new \in Seq(Octets)
  BY <1>1, <1>3
<1> QED BY <1>0, <1>4 DEF new, size

(* What a read takes of a text is a text, as long as a number.             *)
LEMMA ReadText ==
  ASSUME NEW text \in Seq(Octets), NEW pos \in Nat, NEW len \in Int
  PROVE  /\ SubSeq(text, pos + 1, Min({pos + len, Len(text)})) \in Seq(Octets)
         /\ Len(SubSeq(text, pos + 1, Min({pos + len, Len(text)}))) \in Nat
<1> DEFINE k == Min({pos + len, Len(text)})
<1>1. k \in Int /\ k <= Len(text) /\ pos + 1 \in Nat \ {0}
  BY OfTwo
<1> HIDE DEF k
<1>2. SubSeq(text, pos + 1, k) \in Seq(Octets)
  BY <1>1, PartOfText
<1>3. Len(SubSeq(text, pos + 1, k)) \in Nat
  BY <1>2
<1> QED BY <1>2, <1>3 DEF k

(* A write of the bytes as they are leaves a world, with as many of them as*)
(* the disk has room for.                                                  *)
LEMMA WriteKeeps ==
  ASSUME NEW w, IsWorld(w), NEW fd, NEW bytes \in Seq(Octets)
  PROVE  IsWorld(WriteBytes(w, fd, bytes).world)
<1> DEFINE f == w.fds[fd]
           old == w.data[f.node]
           room == Max({Room(w) + Len(old) - f.pos, 0})
           fitting == SubSeq(bytes, 1, Min({Len(bytes), room}))
           end == f.pos + Len(fitting)
           new == [i \in 1 .. Max({end, Len(old)}) |->
                     IF i \in f.pos + 1 .. end THEN fitting[i - f.pos] ELSE IF i <= Len(old) THEN old[i] ELSE 0]
<1>1. CASE ~ IsFd(w, fd) \/ (fitting = <<>> /\ bytes # <<>>)
  BY <1>1 DEF WriteBytes, Fails, Answer
<1>2. CASE IsFd(w, fd) /\ bytes = <<>>
  BY <1>2 DEF WriteBytes, Fails, Answer
<1>3. CASE IsFd(w, fd) /\ fitting # <<>> /\ bytes # <<>>
  <2>1. fd \in DOMAIN w.fds /\ f = [node |-> f.node, pos |-> f.pos, flags |-> f.flags]
        /\ f.node \in DOMAIN w.data /\ f.pos \in Nat /\ f.flags \in SUBSET Nat
        /\ old \in Seq(Octets) /\ Len(old) \in Nat
    BY <1>3, WorldParts DEF IsFd
  <2>2. WriteBytes(w, fd, bytes).world = [w EXCEPT !.data[f.node] = new, !.fds[fd].pos = end]
    BY <1>3 DEF WriteBytes, Answer
  <2> DEFINE node == f.node
             pos == f.pos
             flags == f.flags
             v == [w EXCEPT !.data[node] = new]
             data == [w.data EXCEPT ![node] = new]
             g == [node |-> node, pos |-> end, flags |-> flags]
  <2>3. fitting \in Seq(Octets)
    <3> HIDE DEF old, f
    <3>1. Room(w) + Len(old) - f.pos \in Int
      BY <2>1, RoomIsInteger
    <3>2. room \in Int
      BY <3>1, OfTwo, 0 \in Int
    <3> HIDE DEF room
    <3> QED BY <3>2, CutText
  <2>4. end \in Nat /\ new \in Seq(Octets)
    <3> HIDE DEF fitting, old, f
    <3> QED BY <2>1, <2>3, WrittenText
  <2>5. [w.fds[fd] EXCEPT !.pos = end] = g
    <3>1. w.fds[fd] = [node |-> node, pos |-> pos, flags |-> flags]
      BY <2>1
    <3> HIDE DEF end, node, pos, flags
    <3> QED BY <3>1
  <2>6. node \in DOMAIN w.data /\ flags \in SUBSET Nat
    BY <2>1
  <2>7. WriteBytes(w, fd, bytes).world = [w EXCEPT !.data[node] = new, !.fds[fd].pos = end]
    BY <2>2
  <2> HIDE DEF new, end, node, pos, flags, old, room, fitting, f
  <2>8. w = With(w, w.mem, w.names, w.dirs, w.data, w.fds, w.env) /\ w.data \in Seq(Seq(Octets))
    BY WithItself, WorldParts
  <2>9. v = With(w, w.mem, w.names, w.dirs, data, w.fds, w.env) /\ v.fds = w.fds /\ v.data = data
    <3>1. v = [w EXCEPT !.data = data]
      OBVIOUS
    <3> HIDE DEF v, data
    <3> QED BY <2>8, <3>1 DEF With
  <2>10. data \in Seq(Seq(Octets)) /\ DOMAIN data = DOMAIN w.data
    BY <2>4, <2>6, <2>8
  <2>11. [w EXCEPT !.data[node] = new, !.fds[fd].pos = end] = [v EXCEPT !.fds[fd] = g]
    BY <2>5, <2>9
  <2> HIDE DEF v, data
  <2>12. IsWorld(v)
    <3>1. w.names \in [DOMAIN w.names -> DOMAIN data] /\ w.fds \in [DOMAIN w.fds -> [node : DOMAIN data, pos : Nat, flags : SUBSET Nat] \cup {Closed}]
      BY <2>10, WithItself
    <3>2. IsWorld(With(w, w.mem, w.names, w.dirs, data, w.fds, w.env))
      BY <2>10, <3>1, WithItself, WithIsWorld
    <3> QED BY <2>9, <3>2
  <2>13. g \in [node : DOMAIN v.data, pos : Nat, flags : SUBSET Nat] /\ fd \in DOMAIN v.fds
    BY <2>1, <2>4, <2>6, <2>9, <2>10
  <2> HIDE DEF g
  <2>14. IsWorld([v EXCEPT !.fds[fd] = g])
    BY <2>12, <2>13, FdsIsWorld
  <2> QED BY <2>7, <2>11, <2>14
<1> QED BY <1>1, <1>2, <1>3

(* A posix read leaves a world: the bytes are in the memory and the position is    *)
(* after them.                                                             *)
LEMMA ReadKeeps ==
  ASSUME NEW w, IsWorld(w), NEW fd, NEW at \in Int, NEW len \in Int
  PROVE  IsWorld(ReadFile("posix", w, fd, at, len).world)
<1> DEFINE f == w.fds[fd]
           bytes == SubSeq(w.data[f.node], f.pos + 1, Min({f.pos + len, Len(w.data[f.node])}))
           v == Stored(w, at, bytes)
<1>1. CASE ~ IsFd(w, fd)
  BY <1>1 DEF ReadFile, Fails, Answer
<1>2. CASE IsFd(w, fd)
  <2>1. fd \in DOMAIN w.fds /\ f = [node |-> f.node, pos |-> f.pos, flags |-> f.flags]
        /\ f.node \in DOMAIN w.data /\ f.pos \in Nat /\ f.flags \in SUBSET Nat
        /\ w.data[f.node] \in Seq(Octets)
    BY <1>2, WorldParts DEF IsFd
  <2>2. bytes \in Seq(Octets) /\ Len(bytes) \in Nat
    BY <2>1, ReadText
  <2>3. ReadFile("posix", w, fd, at, len).world = [v EXCEPT !.fds[fd].pos = @ + Len(bytes)]
    <3>1. ~ Translates("posix", w, fd, Unread(w, fd, len), {CR, CtrlZ})
      BY DEF Translates, TextMode
    <3>2. ReadFile("posix", w, fd, at, len) = Given(w, fd, at, Unread(w, fd, len), Len(Unread(w, fd, len)))
      BY <1>2, <3>1 DEF ReadFile
    <3>3. Unread(w, fd, len) = bytes
      BY DEF Unread
    <3> HIDE DEF bytes
    <3> QED BY <3>2, <3>3 DEF Given, Answer
  <2> HIDE DEF bytes
  <2>4. IsWorld(v) /\ v.fds = w.fds
    BY <2>2, StoredText
  <2> DEFINE node == f.node
             pos == f.pos
             flags == f.flags
             g == [node |-> node, pos |-> pos + Len(bytes), flags |-> flags]
  <2>5. v.data = w.data
    BY <2>4, WithItself DEF Stored, With
  <2> HIDE DEF v
  <2>6. w.fds[fd] = [node |-> node, pos |-> pos, flags |-> flags] /\ node \in DOMAIN w.data /\ pos \in Nat
        /\ flags \in SUBSET Nat
    BY <2>1
  <2> HIDE DEF node, pos, flags, f
  <2>7. [v EXCEPT !.fds[fd].pos = @ + Len(bytes)] = [v EXCEPT !.fds[fd] = g]
    BY <2>4, <2>6
  <2>8. g \in [node : DOMAIN v.data, pos : Nat, flags : SUBSET Nat] /\ fd \in DOMAIN v.fds
    BY <2>1, <2>2, <2>4, <2>5, <2>6
  <2> HIDE DEF g
  <2> QED BY <2>3, <2>4, <2>7, <2>8, FdsIsWorld
<1> QED BY <1>1, <1>2

(* The names, changed so that no node has two, leave a world.              *)
LEMMA NamesKeep ==
  ASSUME NEW w, IsWorld(w), NEW names, names \in [DOMAIN names -> DOMAIN w.data], NodesApart(names)
  PROVE  IsWorld([w EXCEPT !.names = names])
<1>1. [w EXCEPT !.names = names] = With(w, w.mem, names, w.dirs, w.data, w.fds, w.env)
  BY WithItself DEF With
<1>2. IsWorld(With(w, w.mem, names, w.dirs, w.data, w.fds, w.env))
  <2>1. w.data \in Seq(Seq(Octets))
    BY WorldParts
  <2> QED BY <2>1, WithItself, WithIsWorld
<1> QED BY <1>1, <1>2

(* A name removed leaves a world.                                          *)
LEMMA RemoveKeeps ==
  ASSUME NEW w, IsWorld(w), NEW name
  PROVE  IsWorld([w EXCEPT !.names = Without(@, name)])
<1> DEFINE names == Without(w.names, name)
<1>0. w.names \in [DOMAIN w.names -> DOMAIN w.data] /\ NodesApart(w.names)
  BY WithItself
<1>1. DOMAIN names = DOMAIN w.names \ {name} /\ \A n \in DOMAIN names : names[n] = w.names[n]
  BY DEF Without
<1>2. names \in [DOMAIN names -> DOMAIN w.data]
  BY <1>0, <1>1 DEF Without
<1>3. NodesApart(names)
  BY <1>0, <1>1 DEF NodesApart
<1> HIDE DEF names
<1>4. IsWorld([w EXCEPT !.names = names])
  BY <1>2, <1>3, NamesKeep
<1> QED BY <1>4 DEF names

(* A name that is given to the node of another leaves a world.             *)
LEMMA RenameKeeps ==
  ASSUME NEW w, IsWorld(w), NEW old \in DOMAIN w.names, NEW new
  PROVE  IsWorld([w EXCEPT !.names = Put(Without(@, old), new, w.names[old])])
<1> DEFINE rest == Without(w.names, old)
           names == Put(rest, new, w.names[old])
<1>0. w.names \in [DOMAIN w.names -> DOMAIN w.data] /\ NodesApart(w.names)
  BY WithItself
<1>1. DOMAIN rest = DOMAIN w.names \ {old} /\ \A n \in DOMAIN rest : rest[n] = w.names[n]
  BY DEF Without
<1> HIDE DEF rest
<1>2. /\ DOMAIN names = DOMAIN rest \cup {new} /\ names[new] = w.names[old]
      /\ \A n \in DOMAIN rest : n # new => names[n] = w.names[n]
  BY <1>1 DEF Put
<1>3. names \in [DOMAIN names -> DOMAIN w.data]
  <2>1. ASSUME NEW n \in DOMAIN names PROVE names[n] \in DOMAIN w.data
    BY <1>0, <1>1, <1>2
  <2>2. names = [n \in DOMAIN names |-> names[n]]
    BY DEF Put
  <2> HIDE DEF names
  <2> QED BY <2>1, <2>2
<1>4. NodesApart(names)
  <2> HIDE DEF names
  <2>1. \A n \in DOMAIN names : n # new => n \in DOMAIN w.names /\ n # old /\ names[n] = w.names[n]
    BY <1>1, <1>2
  <2>2. \A n \in DOMAIN w.names : n # old => w.names[n] # w.names[old]
    BY <1>0 DEF NodesApart
  <2> QED BY <1>0, <1>2, <2>1, <2>2 DEF NodesApart
<1>5. IsWorld([w EXCEPT !.names = names])
  <2> HIDE DEF names
  <2> QED BY <1>3, <1>4, NamesKeep
<1> QED BY <1>5 DEF rest

(* mkdir leaves a world.                                                   *)
LEMMA MkdirKeeps ==
  ASSUME NEW w, IsWorld(w), NEW name
  PROVE  IsWorld(Mkdir(w, name).world)
<1>1. CASE Exists(w, name)
  BY <1>1 DEF Mkdir, Fails, Answer
<1>2. CASE ~ Exists(w, name)
  <2> DEFINE v == WithFile(w, name, <<>>)
             dirs == v.dirs \cup {v.names[name]}
  <2>1. IsWorld(v)
    <3>1. ASSUME NEW none \in Seq(Octets), NEW u, u = WithFile(w, name, none) PROVE IsWorld(u)
      BY <3>1, MadeFile
    <3>2. <<>> \in Seq(Octets)
      OBVIOUS
    <3> QED BY <3>1, <3>2
  <2>2. Mkdir(w, name).world = [v EXCEPT !.dirs = dirs]
    BY <1>2 DEF Mkdir, Answer
  <2> HIDE DEF v, dirs
  <2>3. [v EXCEPT !.dirs = dirs] = With(v, v.mem, v.names, dirs, v.data, v.fds, v.env)
    <3>1. v = With(v, v.mem, v.names, v.dirs, v.data, v.fds, v.env)
      BY <2>1, WithItself
    <3> QED BY <3>1 DEF With
  <2>4. IsWorld(With(v, v.mem, v.names, dirs, v.data, v.fds, v.env))
    <3>1. v.data \in Seq(Seq(Octets))
      BY <2>1, WorldParts
    <3> QED BY <2>1, <3>1, WithItself, WithIsWorld
  <2> QED BY <2>2, <2>3, <2>4
<1> QED BY <1>1, <1>2

(* copy_file leaves a world.                                               *)
LEMMA CopyKeeps ==
  ASSUME NEW w, IsWorld(w), NEW src, NEW dst
  PROVE  IsWorld(CopyFile("posix", w, src, dst).world)
<1> DEFINE emptied == WithFile(w, dst, <<>>)
           bytes == Contents(emptied, src)
<1>1. CASE ~ Exists(w, src) \/ IsDir(w, dst)
  BY <1>1 DEF CopyFile, Fails, Answer
<1>2. CASE Exists(w, src) /\ ~ IsDir(w, dst)
  <2>1. CopyFile("posix", w, src, dst).world = WithFile(emptied, dst, Fitting(emptied, bytes))
    BY <1>2 DEF CopyFile, InUse, Answer
  <2>2. IsWorld(emptied) /\ src \in DOMAIN emptied.names
    <3>1. ASSUME NEW none \in Seq(Octets), NEW u, u = WithFile(w, dst, none)
          PROVE  IsWorld(u) /\ src \in DOMAIN u.names
      <4>1. dst \in DOMAIN u.names /\ \A other \in DOMAIN w.names \ {dst} : other \in DOMAIN u.names
        BY <3>1, MadeFile
      <4>2. IsWorld(u)
        BY <3>1, MadeFile
      <4> QED BY <1>2, <4>1, <4>2 DEF Exists
    <3>2. <<>> \in Seq(Octets)
      OBVIOUS
    <3> QED BY <3>1, <3>2
  <2> HIDE DEF emptied
  <2>3. bytes \in Seq(Octets)
    BY <2>2, WorldParts DEF Contents
  <2> HIDE DEF bytes
  <2>4. Fitting(emptied, bytes) \in Seq(Octets)
    BY <2>2, <2>3, RoomIsInteger, CutText DEF Fitting
  <2> QED BY <2>1, <2>2, <2>4, MadeFile
<1> QED BY <1>1, <1>2

(* A text given back in the buffer of the program leaves a world.          *)
LEMMA ResultKeeps ==
  ASSUME NEW w, IsWorld(w), NEW at \in Int, NEW len \in Int, NEW text \in Seq(Octets)
  PROVE  IsWorld(writeResult(w, at, len, text).world)
<1> DEFINE n == Min({Len(text), len})
           part == SubSeq(text, 1, n)
<1>1. part \in Seq(Octets) /\ part \o <<0>> \in Seq(Octets)
  <2>1. part \in Seq(Octets)
    BY CutText
  <2> HIDE DEF part
  <2>2. <<0>> \in Seq(Octets)
    BY DEF Octets
  <2> QED BY <2>1, <2>2
<1>2. writeResult(w, at, len, text).world = Stored(w, at, part \o <<0>>) \/ writeResult(w, at, len, text).world = Stored(w, at, part)
  BY DEF writeResult, Answer
<1> HIDE DEF part
<1> QED BY <1>1, <1>2, StoredText

(* setenv leaves a world.                                                  *)
LEMMA EnvKeeps ==
  ASSUME NEW w, IsWorld(w), NEW name, NEW value \in Seq(Octets)
  PROVE  IsWorld([w EXCEPT !.env = Put(@, name, value)])
<1> DEFINE env == Put(w.env, name, value)
<1>1. env \in [DOMAIN env -> Seq(Octets)]
  BY WithItself DEF Put
<1> HIDE DEF env
<1>2. [w EXCEPT !.env = env] = With(w, w.mem, w.names, w.dirs, w.data, w.fds, env)
  BY WithItself DEF With
<1>3. IsWorld(With(w, w.mem, w.names, w.dirs, w.data, w.fds, env))
  <2>1. w.data \in Seq(Seq(Octets))
    BY WorldParts
  <2> QED BY <1>1, <2>1, WithItself, WithIsWorld
<1> QED BY <1>2, <1>3 DEF env

(* Every portable call leaves a world.                                     *)
LEMMA PerformedKeeps ==
  ASSUME NEW w, IsWorld(w), NEW c, IsCall(c), Modelled(w, c), Portable(w, c)
  PROVE  IsWorld(platformSyscall("posix", w, c).world)
<1>1. CASE ~ Reachable(w, c)
  BY <1>1 DEF platformSyscall, Answer
<1>2. CASE Reachable(w, c)
  <2> DEFINE first == TextAt(w, c.a0)
             second == TextAt(w, c.a1)
  <2> SUFFICES IsWorld(Performed("posix", w, c).world)
    BY <1>2 DEF platformSyscall
  <2>0. w.mem \in Seq(Octets) /\ Len(w.mem) \in Nat
    BY WithItself
  <2>1. CASE c.id = "write"
    <3>1. c.a1 \in Int /\ c.a2 \in Int /\ bufAt(w, c.a1, c.a2)
      BY <1>2, <2>1 DEF IsCall, Buffer, Reachable
    <3>2. SubSeq(w.mem, c.a1 + 1, c.a1 + c.a2) \in Seq(Octets)
      <4>1. c.a1 + 1 \in Nat \ {0} /\ c.a1 + c.a2 \in Int /\ c.a1 + c.a2 <= Len(w.mem)
        BY <2>0, <3>1 DEF bufAt
      <4> QED BY <2>0, <4>1, PartOfText
    <3>3. PICK bytes \in Seq(Octets) : bytes = SubSeq(w.mem, c.a1 + 1, c.a1 + c.a2)
      BY <3>2
    <3>4. WriteFile("posix", w, c.a0, bytes) = WriteBytes(w, c.a0, bytes)
      BY DEF WriteFile, Translates, TextMode
    <3>5. IsWorld(WriteBytes(w, c.a0, bytes).world)
      BY WriteKeeps
    <3> QED BY <2>1, <3>3, <3>4, <3>5 DEF Performed
  <2>2. CASE c.id = "read"
    <3>1. c.a1 \in Int /\ c.a2 \in Int
      BY <2>2 DEF IsCall, Buffer
    <3>2. IsWorld(ReadFile("posix", w, c.a0, c.a1, c.a2).world)
      BY <3>1, ReadKeeps
    <3> QED BY <2>2, <3>2 DEF Performed
  <2>3. CASE c.id = "open"
    <3>1. IsWorld(OpenFile("posix", w, first, c.a1).world)
      BY <2>3, OpenKeeps DEF IsCall
    <3> QED BY <2>3, <3>1 DEF Performed
  <2>4. CASE c.id = "close"
    <3>1. IsFd(w, c.a0) => IsWorld([w EXCEPT !.fds[c.a0] = Closed])
      BY FdsIsWorld DEF IsFd
    <3> QED BY <2>4, <3>1 DEF Performed, Answer, Fails
  <2>5. CASE c.id = "seek"
    <3>1. IsWorld(Seek(w, c.a0, c.a1, c.a2).world)
      BY <2>5, SeekKeeps DEF IsCall
    <3> QED BY <2>5, <3>1 DEF Performed
  <2>6. CASE c.id = "file_size"
    BY <2>6 DEF Performed, FileSize, Answer, Fails
  <2>7. CASE c.id = "remove_file"
    <3>1. IsWorld(RemoveFile("posix", w, first).world)
      BY RemoveKeeps DEF RemoveFile, Answer, Fails
    <3> QED BY <2>7, <3>1 DEF Performed
  <2>8. CASE c.id = "rename_file"
    <3>1. IsWorld(RenameFile("posix", w, first, second).world)
      BY RenameKeeps DEF RenameFile, Answer, Fails, Exists
    <3> QED BY <2>8, <3>1 DEF Performed
  <2>9. CASE c.id = "mkdir"
    <3>1. IsWorld(Mkdir(w, first).world)
      BY MkdirKeeps
    <3> QED BY <2>9, <3>1 DEF Performed
  <2>10. CASE c.id = "rmdir"
    <3>1. IsWorld(Rmdir(w, first).world)
      BY RemoveKeeps DEF Rmdir, Answer, Fails
    <3> QED BY <2>10, <3>1 DEF Performed
  <2>11. CASE c.id = "copy_file"
    <3>1. IsWorld(CopyFile("posix", w, first, second).world)
      BY CopyKeeps
    <3> QED BY <2>11, <3>1 DEF Performed
  <2>12. CASE c.id = "getenv"
    <3>1. c.a1 \in Int /\ c.a2 \in Int
      BY <2>12 DEF IsCall, Buffer
    <3>2. first \in DOMAIN w.env => IsWorld(writeResult(w, c.a1, c.a2, w.env[first]).world)
      <4>1. first \in DOMAIN w.env => w.env[first] \in Seq(Octets)
        BY WithItself
      <4> HIDE DEF first
      <4> QED BY <3>1, <4>1, ResultKeeps
    <3>3. IsWorld(GetEnv("posix", w, first, c.a1, c.a2).world)
      <4> HIDE DEF first
      <4> QED BY <3>2 DEF GetEnv, Answer, Fails
    <3> QED BY <2>12, <3>3 DEF Performed
  <2>13. CASE c.id = "setenv"
    <3>1. Paths(c.id) = 2
      BY <2>13 DEF Paths
    <3>2. cstrAt(w, c.a1) /\ Whole(w, c.a1)
      BY <1>2, <3>1 DEF Modelled, Reachable
    <3>3. second \in Seq(Octets)
      BY <3>2, TextIsText
    <3>4. IsWorld([w EXCEPT !.env = Put(@, first, second)])
      <4> HIDE DEF first, second
      <4> QED BY <3>3, EnvKeeps
    <3> QED BY <2>13, <3>4 DEF Performed, Answer
  <2>14. CASE c.id \in {"dir_open", "dir_read"}
    BY <1>2, <2>14 DEF Portable
  <2>15. CASE c.id \in {"file_exists", "file_is_dir", "argc"}
    BY <2>15 DEF Performed, Answer
  <2>16. CASE c.id = "argv"
    <3> DEFINE text == IF c.a0 + 1 \in DOMAIN w.args THEN w.args[c.a0 + 1] ELSE <<>>
    <3>1. c.a1 \in Int /\ c.a2 \in Int
      BY <2>16 DEF IsCall, Buffer
    <3>2. text \in Seq(Octets)
      <4>1. w.args \in Seq(Seq(Octets)) /\ <<>> \in Seq(Octets)
        BY DEF IsWorld
      <4> QED BY <4>1
    <3>3. Performed("posix", w, c) = writeResult(w, c.a1, c.a2, text)
      BY <2>16 DEF Performed
    <3> HIDE DEF text
    <3> QED BY <3>1, <3>2, <3>3, ResultKeeps
  <2>17. c.id \in Ids
    BY DEF IsCall
  <2> QED BY <2>1, <2>2, <2>3, <2>4, <2>5, <2>6, <2>7, <2>8, <2>9, <2>10, <2>11, <2>12, <2>13, <2>14, <2>15, <2>16, <2>17
          DEF Ids
<1> QED BY <1>1, <1>2
-----------------------------------------------------------------------------
(* The inductive invariant.                                                *)
HostsInv ==
  portable => results["posix"] = results["windows"] /\ hosts["posix"] = hosts["windows"] /\ IsWorld(hosts["posix"])

(* A call keeps the worlds equal and well formed: it is performed alike on *)
(* equal worlds, while all calls before it were portable.                  *)
LEMMA HostsStep ==
  ASSUME HostsFit, HostsInv, [HostsNext]_hostVars
  PROVE  HostsInv'
<1>1. CASE UNCHANGED hostVars
  BY <1>1 DEF HostsInv, hostVars
<1>2. ASSUME NEW c \in Calls, Call(c) PROVE HostsInv'
  <2> DEFINE w == hosts["posix"]
             done == [h \in Hosts |-> platformSyscall(h, hosts[h], c)]
  <2>1. IsWorld(w) /\ hosts["windows"] = w /\ IsCall(c)
    BY <1>2 DEF HostsInv, Call, HostsFit
  <2>2. "posix" \in Hosts /\ "windows" \in Hosts
    BY DEF Hosts
  <2>3. Modelled(w, c)
    BY <1>2, <2>2 DEF Call
  <2>4. /\ hosts' = [h \in Hosts |-> done[h].world] /\ results' = [h \in Hosts |-> done[h].result]
        /\ portable' = Portable(w, c)
    BY <1>2 DEF Call
  <2>5. done["posix"] = platformSyscall("posix", w, c) /\ done["windows"] = platformSyscall("windows", w, c)
    BY <2>1, <2>2
  <2> HIDE DEF done, w
  <2>6. Portable(w, c) => done["posix"] = done["windows"] /\ IsWorld(done["posix"].world)
    BY <2>1, <2>3, <2>5, PerformedAlike, PerformedKeeps
  <2> QED BY <2>2, <2>4, <2>6 DEF HostsInv
<1> QED BY <1>1, <1>2 DEF HostsNext

(* The hosts begin alike.                                                  *)
LEMMA HostsStart ==
  ASSUME HostsFit, HostsInit
  PROVE  HostsInv
BY DEF HostsFit, HostsInit, HostsInv, Hosts

(* While a program meets none of the differences between the hosts, its    *)
(* calls return the same on both and leave the same memory and files       *)
(* (platformSyscall): for every world, every file and every sequence of    *)
(* calls.                                                                  *)
THEOREM HostsIndistinguishable ==
  ASSUME HostsFit
  PROVE  HostsSpec => []HostsAgree
<1>1. HostsInit => HostsInv
  BY HostsStart
<1>2. HostsInv /\ [HostsNext]_hostVars => HostsInv'
  BY HostsStep
<1>3. HostsInv => HostsAgree
  BY DEF HostsInv, HostsAgree
<1> QED BY <1>1, <1>2, <1>3, PTL DEF HostsSpec
=============================================================================
