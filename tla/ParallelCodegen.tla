-------------------------- MODULE ParallelCodegen --------------------------
(***************************************************************************)
(* compileProgramParallel: uasm run -j n compiles the functions of a       *)
(* program on n threads, worker t the functions t, t + n, t + 2n...  The   *)
(* calling thread starts the workers, joins them, looks for an error and   *)
(* links what they made.  Workers and functions are counted from 1.        *)
(***************************************************************************)
EXTENDS CodeImage

CONSTANTS
  Programs,   (* The programs compiled: functions, and the entry's name.     *)
  Requests,   (* The numbers of threads asked for.                           *)
  MaySpawn    (* May starting a thread fail?                                 *)

IsFunction(f) ==
  /\ f.supported \in BOOLEAN
  /\ f.code.size \in Nat

ASSUME CodegenAssumption ==
  /\ \A p \in Programs :
       /\ Len(p.functions) \in Nat \ {0} /\ DOMAIN p.functions = 1 .. Len(p.functions)
       /\ \A i \in DOMAIN p.functions : IsFunction(p.functions[i])
       /\ \E i \in DOMAIN p.functions : p.functions[i].code.name = p.entry
  /\ Requests \subseteq Int
  /\ MaySpawn \in SUBSET {"started", "refused"} /\ "started" \in MaySpawn

(* The programs link() hands over, whose functions have names of their own *)
(* and calls inside them, as long as a branch spans their code: 128 MB.    *)
ProgramsFit ==
  \A p \in Programs :
    LET code == [i \in DOMAIN p.functions |-> p.functions[i].code]
    IN  /\ \A i, j \in DOMAIN code : code[i].name = code[j].name => i = j
        /\ \A i \in DOMAIN code : \A k \in DOMAIN code[i].calls :
             code[i].calls[k].at \in 0 .. code[i].size - 1
        /\ 2 * Start(code, Len(code) + 1) < ImmRange

VARIABLES
  program,    (* The program, which no one changes.                          *)
  threads,    (* The workers there will be.                                  *)
  main,       (* Where the calling thread is.                                *)
  joined,     (* The workers it has started (main = "start") or joined.      *)
  worker,     (* "unborn", "running" or "exited"                             *)
  next,       (* i of each worker's loop; of the caller's when there is none.*)
  compiled,   (* compiled, shared by all                                     *)
  errors,     (* errors: the last error of each worker; 0 is none            *)
  outcome     (* What the call returned or threw.                            *)

vars == <<program, threads, main, joined, worker, next, compiled, errors, outcome>>

n == Len(program.functions)
Workers == 1 .. threads

Pending == [kind |-> "pending"]

(* At least one thread, and no more than there are functions.              *)
Clamped(request, functions) ==
  IF request < 1 THEN 1 ELSE IF request > functions THEN functions ELSE request

Init ==
  /\ program \in Programs
  /\ \E request \in Requests : threads = Clamped(request, n)
  /\ main = IF threads > 1 THEN "start" ELSE "compile"
  /\ joined = 0
  /\ worker = [t \in Workers |-> "unborn"]
  /\ next = [t \in Workers |-> t]
  /\ compiled = [i \in 1 .. n |-> NotCompiled]
  /\ errors = [t \in Workers |-> 0]
  /\ outcome = Pending
-----------------------------------------------------------------------------
(* A worker: an error is kept, and the loop goes on.                       *)

compileFunction(i) == compiled' = [compiled EXCEPT ![i] = program.functions[i].code]

(* Faults: every worker goes to the next function; or stays where it is.   *)
NextFunction(i) == i + 1
SameFunction(i) == i

Stride(i) == i + threads

Compile(t) ==
  /\ worker[t] = "running" /\ main # "gone"
  /\ next[t] <= n
  /\ LET i == next[t]
     IN  \/ program.functions[i].supported /\ compileFunction(i) /\ UNCHANGED errors
         \/ /\ ~ program.functions[i].supported
            /\ errors' = [errors EXCEPT ![t] = i] /\ UNCHANGED compiled
  /\ next' = [next EXCEPT ![t] = Stride(@)]
  /\ UNCHANGED <<program, threads, main, joined, worker, outcome>>

Exit(t) ==
  /\ worker[t] = "running" /\ main # "gone"
  /\ next[t] > n
  /\ worker' = [worker EXCEPT ![t] = "exited"]
  /\ UNCHANGED <<program, threads, main, joined, next, compiled, errors, outcome>>

-----------------------------------------------------------------------------
(* The calling thread *)

Finish(result) == main' = "gone" /\ outcome' = result

(* A thread the host refuses unwinds a vector of joinable threads, which   *)
(* calls std::terminate.                                                   *)
StartWorker ==
  /\ main = "start"
  /\ \/ /\ "started" \in MaySpawn
        /\ worker' = [worker EXCEPT ![joined + 1] = "running"]
        /\ IF joined + 1 = threads THEN main' = "join" /\ joined' = 0
                                   ELSE joined' = joined + 1 /\ UNCHANGED main
        /\ UNCHANGED outcome
     \/ /\ "refused" \in MaySpawn
        /\ Finish([kind |-> "terminated"])
        /\ UNCHANGED <<worker, joined>>
  /\ UNCHANGED <<program, threads, next, compiled, errors>>

Join ==
  /\ main = "join"
  /\ worker[joined + 1] = "exited"
  /\ joined' = joined + 1
  /\ main' = IF joined + 1 = threads THEN "check" ELSE main
  /\ UNCHANGED <<program, threads, worker, next, compiled, errors, outcome>>

(* Fault: only the first worker's error is looked at. *)
FirstFailed == {t \in {1} : errors[t] # 0}

Failed == {t \in Workers : errors[t] # 0}

(* The error of the first worker that has one is thrown.                   *)
Check ==
  /\ main = "check"
  /\ \/ Failed # {} /\ Finish([kind |-> "unsupported", function |-> errors[Min(Failed)]])
     \/ Failed = {} /\ main' = "link" /\ UNCHANGED outcome
  /\ UNCHANGED <<program, threads, joined, worker, next, compiled, errors>>

(* With one thread the caller compiles them itself, up to an error.        *)
CompileHere ==
  /\ main = "compile"
  /\ LET i == next[1]
     IN  \/ /\ program.functions[i].supported
            /\ compileFunction(i)
            /\ main' = IF i = n THEN "link" ELSE main
            /\ next' = [next EXCEPT ![1] = i + 1]
            /\ UNCHANGED outcome
         \/ /\ ~ program.functions[i].supported
            /\ Finish([kind |-> "unsupported", function |-> i])
            /\ UNCHANGED <<compiled, next>>
  /\ UNCHANGED <<program, threads, joined, worker, errors>>

Link ==
  /\ main = "link"
  /\ \/ /\ Resolved(compiled)
        /\ Finish([kind |-> "code", code |-> LinkedCode(compiled, program.entry)])
     \/ ~ Resolved(compiled) /\ Finish([kind |-> "unresolved"])
  /\ UNCHANGED <<program, threads, joined, worker, next, compiled, errors>>

Caller == StartWorker \/ Join \/ Check \/ CompileHere \/ Link

Next == Caller \/ \E t \in Workers : Compile(t) \/ Exit(t)

(* Every thread that can run is run by the host in the end.                *)
Fairness ==
  /\ WF_vars(Caller)
  /\ \A t \in 1 .. Max(Requests \cup {1}) :
       WF_vars(t \in Workers /\ (Compile(t) \/ Exit(t)))

Spec == Init /\ [][Next]_vars /\ Fairness
-----------------------------------------------------------------------------
(* compiled and errors need no lock: no two workers are ever at the same   *)
(* function, and the caller reads them only once every worker has exited.  *)
NoDataRace ==
  /\ \A t, u \in Workers : t # u /\ next[t] <= n => next[t] # next[u]
  /\ main \in {"check", "link"} =>
       \A t \in Workers : worker[t] = IF threads > 1 THEN "exited" ELSE "unborn"

(* Threads make no difference: the call returns what compileProgram does,  *)
(* or throws an error that compiling one of the functions raises.          *)
Compilation == INSTANCE CodegenSpec WITH MayTerminate <- "refused" \in MaySpawn

ImplementsCompileProgram == Compilation!Spec

(* In the code that is returned every call reaches its callee.             *)
CallsReachCallees ==
  outcome.kind = "code" => CallsLand(compiled, outcome.code)

(* The call returns or throws, whatever the functions and the threads.     *)
Terminates == <>(outcome # Pending)
=============================================================================
