------------------------------ MODULE Syscalls ------------------------------
(***************************************************************************)
(* The calls of syscall.T that go to the host's files, directories and     *)
(* environment, as vm/posix/syscall.cpp and vm/windows/syscall.cpp make    *)
(* them.  spec/ISA.md, section 12, says that an id means the same on every *)
(* host: here a program makes the same calls on a host of either kind, one *)
(* after the other.  What the hosts do is modelled as far as these calls   *)
(* can tell: one directory of files of a few bytes, on a disk with little  *)
(* room, and no other program that changes it.                             *)
(***************************************************************************)
EXTENDS Integers, SequencesExt

CONSTANTS
  Calls,       (* The calls a program may make, with their arguments.        *)
  Worlds,      (* What memory, files and environment may be at first.        *)
  MaxCalls     (* How many calls a program makes.                            *)

VARIABLES
  hosts,       (* The program's memory and the host's state, by host.        *)
  results,     (* What the last call returned, by host.                      *)
  portable,    (* History: no call met what the hosts are known to treat     *)
               (* otherwise, see Portable.                                   *)
  calls        (* How many calls were made.                                  *)

hostVars == <<hosts, results, portable, calls>>

Hosts == {"posix", "windows"}
Closed == [node |-> 0, pos |-> 0, flags |-> {}]
Dot == <<46>>

Answer(w, r) == [world |-> w, result |-> r]
Fails(w) == Answer(w, -1)

Put(f, key, value) == [k \in DOMAIN f \cup {key} |-> IF k = key THEN value ELSE f[k]]
Without(f, key) == [k \in DOMAIN f \ {key} |-> f[k]]
-----------------------------------------------------------------------------
(* Arguments.  A text is read to its 0; one that runs out of the memory is *)
(* not modelled.                                                           *)

bufAt(w, at, len) == at >= 0 /\ len >= 0 /\ at + len <= Len(w.mem)
cstrAt(w, at) == at \in 0 .. Len(w.mem) - 1

TextAt(w, at) ==
  LET zero == Min({i \in at + 1 .. Len(w.mem) : w.mem[i] = 0}) IN SubSeq(w.mem, at + 1, zero - 1)

Stored(w, at, bytes) ==
  [w EXCEPT !.mem = [i \in DOMAIN @ |-> IF i - at \in DOMAIN bytes THEN bytes[i - at] ELSE @[i]]]

(* As much of a result as the buffer holds, and a 0 if there is room.      *)
writeResult(w, at, len, text) ==
  LET n == Min({Len(text), len})
  IN  Answer(Stored(w, at, IF n < len THEN SubSeq(text, 1, n) \o <<0>> ELSE SubSeq(text, 1, n)), n)
-----------------------------------------------------------------------------
(* Files: names are of nodes, and a node is there while a name or a        *)
(* descriptor is.  A directory has no bytes.                               *)

Exists(w, name) == name \in DOMAIN w.names
IsDir(w, name) == Exists(w, name) /\ w.names[name] \in w.dirs
IsFile(w, name) == Exists(w, name) /\ w.names[name] \notin w.dirs
IsOpen(w, name) == \E fd \in DOMAIN w.fds : w.fds[fd].node = w.names[name]
Contents(w, name) == w.data[w.names[name]]
NewNode(w) == Max({0} \cup DOMAIN w.data) + 1

WithFile(w, name, bytes) ==
  IF Exists(w, name) THEN [w EXCEPT !.data[w.names[name]] = bytes]
  ELSE [w EXCEPT !.data = Put(@, NewNode(w), bytes), !.names = Put(@, name, NewNode(w))]

(* The room the nodes leave on the disk, and what of some bytes has room.  *)
Live(w) == (Range(w.names) \cup {w.fds[fd].node : fd \in DOMAIN w.fds}) \ {0}
Room(w) == w.disk - MapThenSumSet(LAMBDA node : Len(w.data[node]), Live(w))
Fitting(w, bytes) == SubSeq(bytes, 1, Min({Len(bytes), Room(w)}))

(* The flags of open are a number that goes to the host as it is: the set  *)
(* of its bits, besides O_RDWR, which is 2 everywhere.  Here posix is      *)
(* Linux.  It has no binary mode: the bit is O_LARGEFILE there and does    *)
(* nothing, and so does Windows' bit for O_CREAT, which is O_NOCTTY.  The  *)
(* bit of Linux for O_CREAT tells Windows to remove the file when it is    *)
(* closed, which is not modelled.                                          *)
O_CREAT == [posix |-> 64, windows |-> 256]
O_TRUNC == 512
O_BINARY == 32768

LF == 10
CR == 13
CtrlZ == 26

(* Windows ends lines of a text by CR LF, and a text by Ctrl-Z.            *)
TextMode(host, flags) == host = "windows" /\ O_BINARY \notin flags
EndsInCtrlZ(w, name) == Contents(w, name) # <<>> /\ Last(Contents(w, name)) = CtrlZ

(* open for reading and writing; in text mode it removes a last Ctrl-Z.    *)
OpenFile(host, w, name, flags) ==
  LET free == {fd \in DOMAIN w.fds : w.fds[fd] = Closed}
      made == IF ~ IsFile(w, name) \/ O_TRUNC \in flags THEN WithFile(w, name, <<>>)
              ELSE IF TextMode(host, flags) /\ EndsInCtrlZ(w, name) THEN WithFile(w, name, Front(Contents(w, name)))
              ELSE w
  IN  IF IsDir(w, name) \/ free = {} \/ (~ Exists(w, name) /\ O_CREAT[host] \notin flags) THEN Fails(w)
      ELSE Answer([made EXCEPT !.fds[Min(free)] = [node |-> made.names[name], pos |-> 0, flags |-> flags]], Min(free))

IsFd(w, fd) == fd \in DOMAIN w.fds /\ w.fds[fd] # Closed

(* Whether some bytes go through a descriptor otherwise than they are.     *)
Translates(host, w, fd, bytes, marks) ==
  IsFd(w, fd) /\ TextMode(host, w.fds[fd].flags) /\ \E i \in DOMAIN bytes : bytes[i] \in marks

WriteBytes(w, fd, bytes) ==
  LET f       == w.fds[fd]
      old     == w.data[f.node]
      fitting == SubSeq(bytes, 1, Min({Len(bytes), Max({Room(w) + Len(old) - f.pos, 0})}))
      end     == f.pos + Len(fitting)
      new     == [i \in 1 .. Max({end, Len(old)}) |->
                    IF i \in f.pos + 1 .. end THEN fitting[i - f.pos] ELSE IF i <= Len(old) THEN old[i] ELSE 0]
  IN  IF ~ IsFd(w, fd) \/ (fitting = <<>> /\ bytes # <<>>) THEN Fails(w)
      ELSE IF bytes = <<>> THEN Answer(w, 0)
      ELSE Answer([w EXCEPT !.data[f.node] = new, !.fds[fd].pos = end], Len(fitting))

(* In text mode LF is written as CR LF; the CRs are not counted.           *)
WriteFile(host, w, fd, bytes) ==
  LET lines   == {i \in DOMAIN bytes : bytes[i] = LF}
      written == WriteBytes(w, fd, FlattenSeq([i \in DOMAIN bytes |-> IF i \in lines THEN <<CR, LF>> ELSE <<bytes[i]>>]))
  IN  IF ~ Translates(host, w, fd, bytes, {LF}) THEN WriteBytes(w, fd, bytes)
      ELSE IF written.result = -1 THEN written
      ELSE Answer(written.world, written.result - Cardinality(lines))

Unread(w, fd, len) ==
  LET f == w.fds[fd] IN SubSeq(w.data[f.node], f.pos + 1, Min({f.pos + len, Len(w.data[f.node])}))

Given(w, fd, at, bytes, taken) ==
  Answer([Stored(w, at, bytes) EXCEPT !.fds[fd].pos = @ + taken], Len(bytes))

(* In text mode CR LF is read as LF, and what comes from a Ctrl-Z on is    *)
(* left out.  That later reads end there too is not modelled.              *)
ReadFile(host, w, fd, at, len) ==
  LET bytes == Unread(w, fd, len)
      after == Unread(w, fd, len + 1)
      stop  == Min({i \in DOMAIN bytes : bytes[i] = CtrlZ} \cup {Len(bytes) + 1})
      ends  == {i \in 1 .. stop - 1 : bytes[i] = CR /\ i + 1 \in DOMAIN after /\ after[i + 1] = LF}
      text  == FlattenSeq([i \in 1 .. stop - 1 |-> IF i \in ends THEN <<>> ELSE <<bytes[i]>>])
  IN  IF ~ IsFd(w, fd) THEN Fails(w)
      ELSE IF ~ Translates(host, w, fd, bytes, {CR, CtrlZ}) THEN Given(w, fd, at, bytes, Len(bytes))
      ELSE IF bytes = <<CR>> /\ ends # {} THEN Given(w, fd, at, <<LF>>, 2)
      ELSE Given(w, fd, at, text, Len(bytes))

(* Seek from the start (0), from here (1) or from the end (2). *)
Seek(w, fd, offset, whence) ==
  LET base == CASE whence = 0 -> 0 [] whence = 1 -> w.fds[fd].pos [] whence = 2 -> Len(w.data[w.fds[fd].node])
  IN  IF ~ IsFd(w, fd) \/ whence \notin 0 .. 2 \/ base + offset < 0 THEN Fails(w)
      ELSE Answer([w EXCEPT !.fds[fd].pos = base + offset], base + offset)
-----------------------------------------------------------------------------
(* The calls whose code is a different one on each host.                   *)

(* fstat, or a walk to the end and back. *)
(* Fault: and the way back is forgotten. *)
FileSizeAtEnd(host, w, fd) ==
  IF ~ IsFd(w, fd) THEN Fails(w)
  ELSE IF host = "posix" THEN Answer(w, Len(w.data[w.fds[fd].node]))
  ELSE Seek(w, fd, 0, 2)

FileSize(host, w, fd) ==
  IF ~ IsFd(w, fd) THEN Fails(w)
  ELSE IF host = "posix" THEN Answer(w, Len(w.data[w.fds[fd].node]))
  ELSE LET end == Seek(w, fd, 0, 2)
       IN  Answer(Seek(end.world, fd, w.fds[fd].pos, 0).world, end.result)

(* Windows removes, renames and copies no file that is open.               *)
InUse(host, w, name) == host = "windows" /\ IsOpen(w, name)

RemoveFile(host, w, name) ==
  IF ~ IsFile(w, name) \/ InUse(host, w, name) THEN Fails(w)
  ELSE Answer([w EXCEPT !.names = Without(@, name)], 0)

(* rename replaces a file, MoveFileA replaces nothing.                     *)
RenameFile(host, w, old, new) ==
  IF \/ ~ Exists(w, old) \/ InUse(host, w, old)
     \/ Exists(w, new) /\ new # old /\ (host = "windows" \/ IsDir(w, new) # IsDir(w, old))
  THEN Fails(w)
  ELSE Answer([w EXCEPT !.names = Put(Without(@, old), new, w.names[old])], 0)

Mkdir(w, name) ==
  IF Exists(w, name) THEN Fails(w)
  ELSE LET made == WithFile(w, name, <<>>) IN Answer([made EXCEPT !.dirs = @ \cup {made.names[name]}], 0)

Rmdir(w, name) ==
  IF ~ IsDir(w, name) THEN Fails(w) ELSE Answer([w EXCEPT !.names = Without(@, name)], 0)

(* posix: the destination is made or emptied, and gets what there is room  *)
(* for; nothing looks at what fread, fwrite and fclose return.  A file     *)
(* copied to itself is empty before it is read, and a directory has        *)
(* nothing to read.  CopyFileA copies all or fails.                        *)
CopyFile(host, w, src, dst) ==
  LET emptied == WithFile(w, dst, <<>>)
      bytes   == IF host = "posix" THEN Contents(emptied, src) ELSE Contents(w, src)
  IN  IF ~ Exists(w, src) \/ IsDir(w, dst) \/ InUse(host, w, src) \/ (Exists(w, dst) /\ InUse(host, w, dst)) THEN Fails(w)
      ELSE IF host = "posix" THEN Answer(WithFile(emptied, dst, Fitting(emptied, bytes)), 0)
      ELSE IF src = dst \/ IsDir(w, src) \/ Len(Fitting(emptied, bytes)) < Len(bytes) THEN Fails(w)
      ELSE Answer(WithFile(emptied, dst, bytes), 0)

(* posix cuts a value to the buffer; Windows says how much one needs, and  *)
(* an empty value is like none.                                            *)
GetEnv(host, w, name, at, len) ==
  LET value == w.env[name]
  IN  IF name \notin DOMAIN w.env \/ (host = "windows" /\ value = <<>>) THEN Fails(w)
      ELSE IF host = "posix" \/ Len(value) < len THEN writeResult(w, at, len, value)
      ELSE Answer(w, Len(value) + 1)

(* The entries of a directory; FindFirstFileA reads one that DirOpen drops.*)
Entries(w) == <<Dot>> \o SetToSeq(DOMAIN w.names)
DirOpen(host, w, name) ==
  IF name # Dot THEN Answer(w, 0)
  ELSE Answer([w EXCEPT !.dir = IF host = "posix" THEN Entries(w) ELSE Tail(Entries(w))], 1)

DirRead(w, at, len) ==
  IF w.dir = <<>> THEN Answer(w, 0)
  ELSE writeResult([w EXCEPT !.dir = Tail(@)], at, len, Head(w.dir))
-----------------------------------------------------------------------------
(* platformSyscall.  An argument that points outside the memory is a       *)
(* failure, or "no" for the two questions.                                 *)

Paths(id) ==
  CASE id \in {"rename_file", "copy_file", "setenv"} -> 2
    [] id \in {"open", "remove_file", "mkdir", "rmdir", "file_exists", "file_is_dir", "getenv", "dir_open"} -> 1
    [] OTHER -> 0

(* Where the buffer is, and how long it says it is. *)
Buffer(c) == IF c.id \in {"write", "read", "getenv", "dir_read", "argv"} THEN <<c.a1, c.a2>> ELSE <<0, 0>>

Reachable(w, c) ==
  /\ bufAt(w, Buffer(c)[1], Buffer(c)[2])
  /\ Paths(c.id) >= 1 => cstrAt(w, c.a0)
  /\ Paths(c.id) = 2 => cstrAt(w, c.a1)

Performed(host, w, c) ==
  CASE c.id = "write"       -> WriteFile(host, w, c.a0, SubSeq(w.mem, c.a1 + 1, c.a1 + c.a2))
    [] c.id = "read"        -> ReadFile(host, w, c.a0, c.a1, c.a2)
    [] c.id = "open"        -> OpenFile(host, w, TextAt(w, c.a0), c.a1)
    [] c.id = "close"       -> IF IsFd(w, c.a0) THEN Answer([w EXCEPT !.fds[c.a0] = Closed], 0) ELSE Fails(w)
    [] c.id = "seek"        -> Seek(w, c.a0, c.a1, c.a2)
    [] c.id = "file_size"   -> FileSize(host, w, c.a0)
    [] c.id = "remove_file" -> RemoveFile(host, w, TextAt(w, c.a0))
    [] c.id = "rename_file" -> RenameFile(host, w, TextAt(w, c.a0), TextAt(w, c.a1))
    [] c.id = "mkdir"       -> Mkdir(w, TextAt(w, c.a0))
    [] c.id = "rmdir"       -> Rmdir(w, TextAt(w, c.a0))
    [] c.id = "file_exists" -> Answer(w, IF Exists(w, TextAt(w, c.a0)) THEN 1 ELSE 0)
    [] c.id = "file_is_dir" -> Answer(w, IF IsDir(w, TextAt(w, c.a0)) THEN 1 ELSE 0)
    [] c.id = "copy_file"   -> CopyFile(host, w, TextAt(w, c.a0), TextAt(w, c.a1))
    [] c.id = "getenv"      -> GetEnv(host, w, TextAt(w, c.a0), c.a1, c.a2)
    [] c.id = "setenv"      -> Answer([w EXCEPT !.env = Put(@, TextAt(w, c.a0), TextAt(w, c.a1))], 0)
    [] c.id = "dir_open"    -> DirOpen(host, w, TextAt(w, c.a0))
    [] c.id = "dir_read"    -> DirRead(w, c.a1, c.a2)
    [] c.id = "argc"        -> Answer(w, Len(w.args))
    [] c.id = "argv"        -> writeResult(w, c.a1, c.a2, IF c.a0 + 1 \in DOMAIN w.args THEN w.args[c.a0 + 1] ELSE <<>>)

platformSyscall(host, w, c) ==
  IF Reachable(w, c) THEN Performed(host, w, c)
  ELSE Answer(w, IF c.id \in {"file_exists", "file_is_dir"} \/ (host = "windows" /\ c.id = "dir_open") THEN 0 ELSE -1)
-----------------------------------------------------------------------------
(* A text that runs out of the memory, and a directory opened as a file,   *)
(* are not modelled.                                                       *)
Whole(w, at) == \E i \in at + 1 .. Len(w.mem) : w.mem[i] = 0

Modelled(w, c) ==
  Reachable(w, c) =>
    /\ Paths(c.id) >= 1 => Whole(w, c.a0)
    /\ Paths(c.id) = 2 => Whole(w, c.a1)
    /\ c.id = "open" => ~ IsDir(w, TextAt(w, c.a0))

(* What the hosts treat otherwise: a file in use, a file in the way of a   *)
(* rename, a copy of a directory, of a file to itself or for which there   *)
(* is no room, a value that does not fit or is empty, what a directory     *)
(* lists first, flags of open that make a file, and the ends of lines and  *)
(* of texts in a file that was not opened with O_BINARY.                   *)
Portable(w, c) ==
  IF ~ Reachable(w, c) THEN c.id # "dir_open"
  ELSE LET first == TextAt(w, c.a0)  second == TextAt(w, c.a1)
       IN  CASE c.id = "remove_file" -> IsFile(w, first) => ~ IsOpen(w, first)
             [] c.id = "rename_file" ->
                  Exists(w, first) => ~ IsOpen(w, first) /\ (Exists(w, second) => first = second)
             [] c.id = "copy_file" ->
                  Exists(w, first) /\ ~ IsDir(w, second) =>
                    /\ IsFile(w, first) /\ first # second /\ ~ IsOpen(w, first) /\ (Exists(w, second) => ~ IsOpen(w, second))
                    /\ Len(Contents(w, first)) <= Room(WithFile(w, second, <<>>))
             [] c.id = "getenv" -> first \in DOMAIN w.env => Len(w.env[first]) \in 1 .. c.a2 - 1
             [] c.id \in {"dir_open", "dir_read"} -> FALSE
             [] c.id = "open" ->
                  /\ O_CREAT["posix"] \notin c.a1
                  /\ Exists(w, first) \/ O_CREAT["windows"] \notin c.a1
                  /\ Exists(w, first) /\ {O_TRUNC, O_BINARY} \cap c.a1 = {} => ~ EndsInCtrlZ(w, first)
             [] c.id = "write" ->
                  ~ Translates("windows", w, c.a0, SubSeq(w.mem, c.a1 + 1, c.a1 + c.a2), {LF})
             [] c.id = "read" -> IsFd(w, c.a0) => ~ Translates("windows", w, c.a0, Unread(w, c.a0, c.a2), {CR, CtrlZ})
             [] OTHER -> TRUE

HostsInit ==
  /\ \E w \in Worlds : hosts = [h \in Hosts |-> w]
  /\ results = [h \in Hosts |-> 0]
  /\ portable = TRUE
  /\ calls = 0

(* syscall.T *)
Call(c) ==
  LET done == [h \in Hosts |-> platformSyscall(h, hosts[h], c)]
  IN  /\ portable /\ calls < MaxCalls
      /\ \A h \in Hosts : Modelled(hosts[h], c)
      /\ hosts' = [h \in Hosts |-> done[h].world]
      /\ results' = [h \in Hosts |-> done[h].result]
      /\ portable' = Portable(hosts["posix"], c)
      /\ calls' = calls + 1

HostsNext == \E c \in Calls : Call(c)

HostsSpec == HostsInit /\ [][HostsNext]_hostVars
-----------------------------------------------------------------------------
(* What a world is: nodes are numbered, a node has one name or none, and a *)
(* descriptor is closed or of a node.                                      *)
Octets == 0 .. 255

IsWorld(w) ==
  /\ w = [mem |-> w.mem, names |-> w.names, dirs |-> w.dirs, data |-> w.data, disk |-> w.disk,
          fds |-> w.fds, env |-> w.env, args |-> w.args, dir |-> w.dir]
  /\ w.mem \in Seq(Octets) /\ w.args \in Seq(Seq(Octets)) /\ w.disk \in Int
  /\ w.env \in [DOMAIN w.env -> Seq(Octets)]
  /\ w.data \in Seq(Seq(Octets))
  /\ w.names \in [DOMAIN w.names -> DOMAIN w.data]
  /\ \A a, b \in DOMAIN w.names : w.names[a] = w.names[b] => a = b
  /\ DOMAIN w.fds \subseteq Nat
  /\ w.fds \in [DOMAIN w.fds -> [node : DOMAIN w.data, pos : Nat, flags : SUBSET Nat] \cup {Closed}]

(* What a call is. *)
Ids ==
  {"write", "read", "open", "close", "seek", "file_size", "remove_file", "rename_file", "mkdir", "rmdir", "file_exists",
   "file_is_dir", "copy_file", "getenv", "setenv", "dir_open", "dir_read", "argc", "argv"}

IsCall(c) ==
  /\ c.id \in Ids /\ Buffer(c) \in Int \X Int
  /\ (c.id = "seek" => c.a1 \in Int) /\ (c.id = "open" => c.a1 \in SUBSET Nat)

(* Programs and hosts that can be. *)
HostsFit == (\A w \in Worlds : IsWorld(w)) /\ (\A c \in Calls : IsCall(c))
-----------------------------------------------------------------------------
(* "A single ID number that means the same thing regardless of which of    *)
(* the platforms it runs on": a program that meets none of the differences *)
(* cannot tell the hosts apart, by what its calls return, what they leave  *)
(* in its memory, or what is in the files.                                 *)
HostsAgree ==
  portable => results["posix"] = results["windows"] /\ hosts["posix"] = hosts["windows"]
=============================================================================
