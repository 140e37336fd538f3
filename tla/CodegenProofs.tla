--------------------------- MODULE CodegenProofs ---------------------------
(***************************************************************************)
(* compileProgramParallel for every program and number of threads: its     *)
(* workers never meet at a function, and the call does what compileProgram *)
(* does on one thread.                                                     *)
(***************************************************************************)
EXTENDS ParallelCodegen, BasicLemmas, TLAPS

(* The functions of worker t.                                              *)
Mine(t, i) == \E k \in Nat : i = t + k * threads

-----------------------------------------------------------------------------
(* Strides keep their distance.                                            *)
LEMMA ProductOrder ==
  ASSUME NEW a \in Int, NEW b \in Int, NEW T \in Nat \ {0}, a < b
  PROVE  a * T + T <= b * T
<1> DEFINE d == b - a - 1
<1>1. d \in Nat
  OBVIOUS
<1>2. d * T \in Nat
  BY <1>1
<1>3. b * T = a * T + T + d * T
  OBVIOUS
<1> HIDE DEF d
<1>4. a * T \in Int
  OBVIOUS
<1> QED BY <1>2, <1>3, <1>4

(* Two workers have no function in common.                                 *)
LEMMA StridesDisjoint ==
  ASSUME NEW T \in Nat \ {0}, NEW t \in 1 .. T, NEW u \in 1 .. T,
         NEW j \in Nat, NEW k \in Nat, t + j * T = u + k * T
  PROVE  t = u
<1>1. j * T \in Int /\ k * T \in Int
  OBVIOUS
<1>2. CASE j < k
  <2>1. j * T + T <= k * T
    BY <1>2, ProductOrder
  <2> QED BY <1>1, <2>1
<1>3. CASE k < j
  <2>1. k * T + T <= j * T
    BY <1>3, ProductOrder
  <2> QED BY <1>1, <2>1
<1> QED BY <1>1, <1>2, <1>3

(* Every function has a worker.                                            *)
LEMMA StridesCover ==
  ASSUME NEW T \in Nat \ {0}, NEW i \in Nat \ {0}
  PROVE  \E t \in 1 .. T, k \in Nat : i = t + k * T
<1> DEFINE Covered == {d \in Nat : \E t \in 1 .. T, k \in Nat : d + 1 = t + k * T}
<1>1. 0 \in Covered
  <2>1. 1 \in 1 .. T /\ 0 + 1 = 1 + 0 * T
    OBVIOUS
  <2> QED BY <2>1
<1>2. ASSUME NEW d \in Nat, d \in Covered PROVE d + 1 \in Covered
  <2>1. PICK t \in 1 .. T, k \in Nat : d + 1 = t + k * T
    BY <1>2
  <2>2. k * T \in Nat /\ (k + 1) * T = k * T + T
    OBVIOUS
  <2>3. CASE t < T
    <3>1. t + 1 \in 1 .. T /\ (d + 1) + 1 = (t + 1) + k * T
      BY <2>1, <2>2, <2>3
    <3>2. \E u \in 1 .. T, m \in Nat : (d + 1) + 1 = u + m * T
      <4> USE <3>1
      <4> WITNESS t + 1 \in 1 .. T, k \in Nat
      <4> QED OBVIOUS
    <3> QED BY <3>2
  <2>4. CASE t = T
    <3>1. 1 \in 1 .. T /\ k + 1 \in Nat /\ (d + 1) + 1 = 1 + (k + 1) * T
      BY <2>1, <2>2, <2>4
    <3>2. \E u \in 1 .. T, m \in Nat : (d + 1) + 1 = u + m * T
      <4> USE <3>1
      <4> WITNESS 1 \in 1 .. T, k + 1 \in Nat
      <4> QED OBVIOUS
    <3> QED BY <3>2
  <2> QED BY <2>3, <2>4
<1> HIDE DEF Covered
<1>3. i - 1 \in Covered
  BY <1>1, <1>2, SetInduction
<1> QED BY <1>3 DEF Covered
-----------------------------------------------------------------------------
(* Function i is compiled, as what it is.                                  *)
Done(i) == program.functions[i].supported /\ compiled[i] = program.functions[i].code

Unsupported == Compilation!Unsupported

TypeInv ==
  /\ program \in Programs
  /\ threads \in 1 .. n
  /\ main \in {"start", "join", "check", "compile", "link", "gone"}
  /\ joined \in 0 .. threads
  /\ worker \in [Workers -> {"unborn", "running", "exited"}]
  /\ next \in [Workers -> Nat]
  /\ compiled = [i \in 1 .. n |-> compiled[i]]
  /\ errors \in [Workers -> {0} \cup Unsupported]

(* Where the caller is, and what it may rely on there.                     *)
CallerInv ==
  /\ threads = 1 => main \in {"compile", "link", "gone"} /\ worker[1] = "unborn"
  /\ threads > 1 => main # "compile"
  /\ main \in {"start", "join"} => joined < threads
  /\ main = "join" => \A t \in 1 .. joined : worker[t] = "exited"
  /\ main \in {"check", "link"} /\ threads > 1 => \A t \in Workers : worker[t] = "exited"
  /\ main = "compile" => next[1] \in 1 .. n /\ \A i \in 1 .. next[1] - 1 : Done(i)
  /\ main = "link" => \A i \in 1 .. n : Done(i)

(* A worker has gone through its functions in order and has compiled each, *)
(* or has an error.                                                        *)
WorkerInv ==
  threads > 1 =>
    \A t \in Workers :
      /\ Mine(t, next[t])
      /\ \A i \in 1 .. n : Mine(t, i) /\ i < next[t] => Done(i) \/ errors[t] # 0
      /\ worker[t] = "exited" => next[t] > n

(* What is returned is the code of every function.                         *)
OutcomeInv ==
  /\ main # "gone" => outcome = Pending
  /\ outcome.kind = "code" =>
       /\ main = "gone" /\ Resolved(compiled) /\ \A i \in 1 .. n : Done(i)
       /\ outcome.code = LinkedCode(compiled, program.entry)

IInv == TypeInv /\ CallerInv /\ WorkerInv /\ OutcomeInv

(* The caller is in the list of a program, which has functions.            *)
LEMMA ProgramShape ==
  ASSUME TypeInv
  PROVE  /\ n \in Nat \ {0} /\ DOMAIN program.functions = 1 .. n
         /\ threads \in Nat \ {0} /\ threads <= n
         /\ Unsupported = {i \in 1 .. n : ~ program.functions[i].supported}
         /\ Unsupported \subseteq Nat \ {0}
<1>1. n \in Nat \ {0} /\ DOMAIN program.functions = 1 .. n
  BY CodegenAssumption DEF TypeInv, n
<1>2. Unsupported = {i \in 1 .. n : ~ program.functions[i].supported}
  BY <1>1 DEF Unsupported, Compilation!Unsupported
<1> QED BY <1>1, <1>2 DEF TypeInv

(* One thread or more, and no more than functions.                         *)
LEMMA InitInv == Init => IInv
<1> SUFFICES ASSUME Init PROVE IInv
  OBVIOUS
<1>1. n \in Nat \ {0} /\ DOMAIN program.functions = 1 .. n
  BY CodegenAssumption DEF Init, n
<1>2. threads \in 1 .. n
  <2>1. PICK request \in Requests : threads = Clamped(request, n)
    BY DEF Init
  <2>2. request \in Int
    BY CodegenAssumption
  <2> QED BY <1>1, <2>1, <2>2 DEF Clamped
<1>3. TypeInv
  BY <1>1, <1>2 DEF Init, TypeInv, Workers
<1>4. CallerInv
  BY <1>1, <1>2 DEF Init, CallerInv, Workers
<1>5. WorkerInv
  <2> SUFFICES ASSUME NEW t \in Workers
               PROVE  /\ Mine(t, next[t])
                      /\ \A i \in 1 .. n : Mine(t, i) => ~ (i < next[t])
                      /\ worker[t] # "exited"
    BY DEF WorkerInv
  <2>1. next[t] = t /\ t \in 1 .. threads /\ worker[t] = "unborn"
    BY DEF Init, Workers
  <2>2. Mine(t, t)
    <3>1. t = t + 0 * threads
      BY <1>1, <1>2, <2>1
    <3> QED BY <3>1 DEF Mine
  <2>3. ASSUME NEW i \in 1 .. n, Mine(t, i) PROVE ~ (i < t)
    <3>1. PICK k \in Nat : i = t + k * threads
      BY <2>3 DEF Mine
    <3>2. k * threads \in Nat
      BY <1>1, <1>2
    <3> QED BY <1>2, <2>1, <3>1, <3>2
  <2> QED BY <2>1, <2>2, <2>3
<1>6. OutcomeInv
  BY <1>2 DEF Init, OutcomeInv, Pending
<1> QED BY <1>3, <1>4, <1>5, <1>6 DEF IInv
-----------------------------------------------------------------------------
(* The compiled functions stay compiled.                                   *)
LEMMA DoneStays ==
  ASSUME TypeInv, NEW i \in 1 .. n, Done(i), UNCHANGED program,
         compiled' = compiled \/ \E j \in 1 .. n : compileFunction(j)
  PROVE  Done(i)'
<1>1. compiled'[i] = program.functions[i].code
  BY DEF Done, TypeInv, compileFunction
<1> QED BY <1>1 DEF Done

(* A worker compiles its next function or notes that it cannot.            *)
LEMMA CompileInv ==
  ASSUME IInv, NEW t \in Workers, Compile(t)
  PROVE  IInv'
<1> DEFINE i == next[t]
<1>1. /\ TypeInv /\ CallerInv /\ WorkerInv /\ OutcomeInv
      /\ n \in Nat \ {0} /\ DOMAIN program.functions = 1 .. n
      /\ threads \in Nat \ {0} /\ threads <= n
      /\ Unsupported = {j \in 1 .. n : ~ program.functions[j].supported}
  BY ProgramShape DEF IInv
<1>2. /\ worker[t] = "running" /\ main # "gone" /\ i <= n
      /\ next' = [next EXCEPT ![t] = i + threads]
      /\ \/ program.functions[i].supported /\ compileFunction(i) /\ UNCHANGED errors
         \/ /\ ~ program.functions[i].supported
            /\ errors' = [errors EXCEPT ![t] = i] /\ UNCHANGED compiled
      /\ UNCHANGED <<program, threads, main, joined, worker, outcome>>
  BY DEF Compile, Stride
<1>3. n' = n /\ Workers' = Workers /\ Unsupported' = Unsupported
  BY <1>2 DEF n, Workers, Unsupported, Compilation!Unsupported
<1>4. threads > 1
  BY <1>1, <1>2 DEF CallerInv, Workers
<1>5. next \in [Workers -> Nat] /\ Mine(t, i) /\ i \in 1 .. n
  <2>1. next \in [Workers -> Nat] /\ Mine(t, i)
    BY <1>1, <1>4 DEF TypeInv, WorkerInv
  <2>2. PICK k \in Nat : i = t + k * threads
    BY <2>1 DEF Mine
  <2>3. t \in Nat \ {0} /\ k * threads \in Nat
    BY <1>1 DEF Workers
  <2> QED BY <1>2, <2>1, <2>2, <2>3
<1>6. TypeInv'
  <2>1. errors' \in [Workers -> {0} \cup Unsupported]
    BY <1>1, <1>2, <1>5 DEF TypeInv
  <2>2. next' \in [Workers -> Nat]
    BY <1>1, <1>2, <1>5
  <2>3. compiled' = [j \in 1 .. n |-> compiled'[j]]
    BY <1>1, <1>2 DEF TypeInv, compileFunction
  <2> QED BY <1>1, <1>2, <1>3, <2>1, <2>2, <2>3 DEF TypeInv
<1>7. ASSUME NEW j \in 1 .. n, Done(j) PROVE Done(j)'
  BY <1>1, <1>2, <1>5, <1>7, DoneStays
<1>8. CallerInv'
  <2>1. main # "compile"
    BY <1>1, <1>4 DEF CallerInv
  <2> QED BY <1>1, <1>2, <1>3, <1>4, <1>7, <2>1 DEF CallerInv
<1>9. WorkerInv'
  <2> SUFFICES ASSUME NEW u \in Workers
               PROVE  /\ Mine(u, next'[u])
                      /\ \A j \in 1 .. n : Mine(u, j) /\ j < next'[u] => Done(j)' \/ errors'[u] # 0
                      /\ worker[u] = "exited" => next'[u] > n
    BY <1>2, <1>3 DEF WorkerInv, Mine
  <2>1. CASE u # t
    <3>1. next'[u] = next[u] /\ errors'[u] = errors[u]
      BY <1>1, <1>2, <1>5, <2>1 DEF TypeInv
    <3> QED BY <1>1, <1>4, <1>7, <3>1 DEF WorkerInv
  <2>2. CASE u = t
    <3>1. next'[t] = i + threads
      BY <1>2, <1>5
    <3>2. PICK k \in Nat : i = t + k * threads
      BY <1>5 DEF Mine
    <3>3. t \in Nat /\ k * threads \in Nat /\ (k + 1) * threads = k * threads + threads
      BY <1>1 DEF Workers
    <3>4. Mine(t, next'[t])
      <4>1. k + 1 \in Nat /\ next'[t] = t + (k + 1) * threads
        BY <1>1, <3>1, <3>2, <3>3
      <4> QED BY <4>1 DEF Mine
    <3>5. ASSUME NEW j \in 1 .. n, Mine(t, j), j < next'[t]
          PROVE  Done(j)' \/ errors'[t] # 0
      <4>1. CASE j < i
        <5>1. Done(j) \/ errors[t] # 0
          BY <1>1, <1>4, <3>5, <4>1 DEF WorkerInv
        <5>2. errors[t] # 0 => errors'[t] # 0
          BY <1>1, <1>2, <1>5 DEF TypeInv
        <5> QED BY <1>7, <5>1, <5>2
      <4>2. CASE j = i
        <5>1. CASE program.functions[i].supported
          BY <1>1, <1>2, <1>5, <4>2, <5>1 DEF Done, compileFunction, TypeInv
        <5>2. CASE ~ program.functions[i].supported
          BY <1>1, <1>2, <1>5, <5>2 DEF TypeInv
        <5> QED BY <5>1, <5>2
      <4>3. CASE j > i
        <5>1. PICK m \in Nat : j = t + m * threads
          BY <3>5 DEF Mine
        <5>2. m * threads \in Nat
          BY <1>1
        <5>3. k < m
          <6>1. CASE m < k
            <7>1. m * threads + threads <= k * threads
              BY <1>1, <6>1, ProductOrder
            <7> QED BY <1>1, <3>2, <3>3, <4>3, <5>1, <5>2, <7>1
          <6>2. CASE m = k
            BY <3>2, <3>3, <4>3, <5>1, <6>2
          <6> QED BY <6>1, <6>2
        <5>4. k * threads + threads <= m * threads
          BY <1>1, <5>3, ProductOrder
        <5> QED BY SMTT(30), <1>1, <3>1, <3>2, <3>3, <3>5, <5>1, <5>2, <5>4
      <4> QED BY <1>5, <4>1, <4>2, <4>3
    <3>6. worker[t] # "exited"
      BY <1>2
    <3> QED BY <2>2, <3>4, <3>5, <3>6
  <2> QED BY <2>1, <2>2
<1>10. OutcomeInv'
  BY <1>1, <1>2 DEF OutcomeInv
<1> QED BY <1>6, <1>8, <1>9, <1>10 DEF IInv

(* A worker ends once its functions are behind it.                         *)
LEMMA ExitInv ==
  ASSUME IInv, NEW t \in Workers, Exit(t)
  PROVE  IInv'
<1>1. /\ TypeInv /\ CallerInv /\ WorkerInv /\ OutcomeInv
      /\ n \in Nat \ {0} /\ threads \in Nat \ {0}
  BY ProgramShape DEF IInv
<1>2. /\ worker[t] = "running" /\ next[t] > n
      /\ worker' = [worker EXCEPT ![t] = "exited"]
      /\ UNCHANGED <<program, threads, main, joined, next, compiled, errors, outcome>>
  BY DEF Exit
<1>3. n' = n /\ Workers' = Workers /\ Unsupported' = Unsupported
  BY <1>2 DEF n, Workers, Unsupported, Compilation!Unsupported
<1>4. \A i : Done(i)' <=> Done(i)
  BY <1>2 DEF Done
<1>5. TypeInv'
  BY <1>1, <1>2, <1>3 DEF TypeInv
<1>6. CallerInv'
  <2>1. threads > 1 /\ worker \in [Workers -> {"unborn", "running", "exited"}]
    BY <1>1, <1>2 DEF CallerInv, TypeInv, Workers
  <2>2. \A u \in Workers : worker[u] = "exited" => worker'[u] = "exited"
    BY <1>2, <2>1
  <2>3. joined \in 0 .. threads /\ 1 .. joined \subseteq Workers
    BY <1>1 DEF TypeInv, Workers
  <2> QED BY <1>1, <1>2, <1>3, <1>4, <2>1, <2>2, <2>3 DEF CallerInv
<1>7. WorkerInv'
  BY <1>1, <1>2, <1>3, <1>4 DEF WorkerInv, Mine, TypeInv
<1>8. OutcomeInv'
  BY <1>1, <1>2, <1>3, <1>4 DEF OutcomeInv
<1> QED BY <1>5, <1>6, <1>7, <1>8 DEF IInv

(* A worker starts, or the process ends for want of one.                   *)
LEMMA StartWorkerInv ==
  ASSUME IInv, StartWorker
  PROVE  IInv'
<1>1. /\ TypeInv /\ CallerInv /\ WorkerInv /\ OutcomeInv
      /\ n \in Nat \ {0} /\ threads \in Nat \ {0}
  BY ProgramShape DEF IInv
<1>2. main = "start" /\ UNCHANGED <<program, threads, next, compiled, errors>>
  BY DEF StartWorker
<1>3. n' = n /\ Workers' = Workers /\ Unsupported' = Unsupported
  BY <1>2 DEF n, Workers, Unsupported, Compilation!Unsupported
<1>4. \A i : Done(i)' <=> Done(i)
  BY <1>2 DEF Done
<1>5. threads > 1 /\ joined \in 0 .. threads - 1
  BY <1>1, <1>2 DEF CallerInv, TypeInv
<1>6. CASE worker' = worker /\ joined' = joined /\ Finish([kind |-> "terminated"])
  BY <1>1, <1>2, <1>3, <1>4, <1>5, <1>6
     DEF IInv, TypeInv, CallerInv, WorkerInv, OutcomeInv, Finish, Mine
<1>7. CASE /\ worker' = [worker EXCEPT ![joined + 1] = "running"]
           /\ IF joined + 1 = threads THEN main' = "join" /\ joined' = 0
                                      ELSE joined' = joined + 1 /\ UNCHANGED main
           /\ UNCHANGED outcome
  <2>1. joined + 1 \in Workers /\ joined' \in 0 .. threads - 1 /\ main' \in {"start", "join"}
    <3>1. joined \in Nat /\ threads \in Nat /\ joined + 1 <= threads
      BY <1>1, <1>5
    <3>2. CASE joined + 1 = threads
      BY <1>2, <1>7, <3>1, <3>2 DEF Workers
    <3>3. CASE joined + 1 # threads
      BY <1>2, <1>7, <3>1, <3>3 DEF Workers
    <3> QED BY <3>2, <3>3
  <2>2. TypeInv'
    BY <1>1, <1>2, <1>3, <1>5, <1>7, <2>1 DEF TypeInv
  <2>3. CallerInv'
    <3>1. main' = "join" => joined' = 0
      BY <1>2, <1>7
    <3>2. main' = "join" => \A t \in 1 .. joined' : worker'[t] = "exited"
      BY <3>1
    <3>3. joined' < threads /\ threads # 1
      BY <1>1, <1>5, <2>1
    <3> QED BY <1>2, <2>1, <3>2, <3>3 DEF CallerInv
  <2>4. WorkerInv'
    <3>1. \A t \in Workers : worker'[t] = "exited" => worker[t] = "exited"
      BY <1>1, <1>7, <2>1 DEF TypeInv
    <3> QED BY <1>1, <1>2, <1>3, <1>4, <3>1 DEF WorkerInv, Mine
  <2>5. OutcomeInv'
    BY <1>1, <1>2, <1>7, <2>1 DEF OutcomeInv, Pending
  <2> QED BY <2>2, <2>3, <2>4, <2>5 DEF IInv
<1> QED BY <1>6, <1>7 DEF StartWorker

(* The caller has waited for one worker more.                              *)
LEMMA JoinInv ==
  ASSUME IInv, Join
  PROVE  IInv'
<1>1. /\ TypeInv /\ CallerInv /\ WorkerInv /\ OutcomeInv
      /\ n \in Nat \ {0} /\ threads \in Nat \ {0}
  BY ProgramShape DEF IInv
<1>2. /\ main = "join" /\ worker[joined + 1] = "exited" /\ joined' = joined + 1
      /\ main' = IF joined + 1 = threads THEN "check" ELSE main
      /\ UNCHANGED <<program, threads, worker, next, compiled, errors, outcome>>
  BY DEF Join
<1>3. n' = n /\ Workers' = Workers /\ Unsupported' = Unsupported
  BY <1>2 DEF n, Workers, Unsupported, Compilation!Unsupported
<1>4. \A i : Done(i)' <=> Done(i)
  BY <1>2 DEF Done
<1>5. threads > 1 /\ joined \in 0 .. threads - 1
  BY <1>1, <1>2 DEF CallerInv, TypeInv
<1>6. \A t \in 1 .. joined' : worker[t] = "exited"
  BY <1>1, <1>2, <1>5 DEF CallerInv
<1>7. TypeInv'
  BY <1>1, <1>2, <1>3, <1>5 DEF TypeInv
<1>8. CallerInv'
  <2>1. CASE joined + 1 = threads
    <3>1. main' = "check" /\ \A t \in Workers : worker'[t] = "exited"
      BY <1>2, <1>6, <2>1 DEF Workers
    <3> QED BY <1>2, <1>3, <1>5, <3>1 DEF CallerInv
  <2>2. CASE joined + 1 # threads
    <3>1. main' = "join" /\ joined' < threads
      BY <1>1, <1>2, <1>5, <2>2
    <3> QED BY <1>2, <1>3, <1>5, <1>6, <3>1 DEF CallerInv
  <2> QED BY <2>1, <2>2
<1>9. WorkerInv' /\ OutcomeInv'
  BY <1>1, <1>2, <1>3, <1>4 DEF WorkerInv, OutcomeInv, Mine, Pending
<1> QED BY <1>7, <1>8, <1>9 DEF IInv

(* No worker has an error, so that every function was compiled; or one has.*)
LEMMA CheckInv ==
  ASSUME IInv, Check
  PROVE  IInv'
<1>1. /\ TypeInv /\ CallerInv /\ WorkerInv /\ OutcomeInv
      /\ n \in Nat \ {0} /\ threads \in Nat \ {0} /\ Unsupported \subseteq Nat \ {0}
  BY ProgramShape DEF IInv
<1>2. main = "check" /\ UNCHANGED <<program, threads, joined, worker, next, compiled, errors>>
  BY DEF Check
<1>3. n' = n /\ Workers' = Workers /\ Unsupported' = Unsupported
  BY <1>2 DEF n, Workers, Unsupported, Compilation!Unsupported
<1>4. \A i : Done(i)' <=> Done(i)
  BY <1>2 DEF Done
<1>5. threads > 1 /\ \A t \in Workers : worker[t] = "exited"
  BY <1>1, <1>2 DEF CallerInv
<1>6. main' \in {"link", "gone"} /\ TypeInv' /\ WorkerInv'
  BY <1>1, <1>2, <1>3, <1>4 DEF TypeInv, WorkerInv, Check, Finish, Mine
<1>7. ASSUME Failed = {}, NEW i \in 1 .. n PROVE Done(i)
  <2>1. PICK t \in 1 .. threads, k \in Nat : i = t + k * threads
    <3>1. i \in Nat \ {0}
      BY <1>1
    <3> QED BY <1>1, <3>1, StridesCover
  <2>2. t \in Workers /\ Mine(t, i)
    BY <2>1 DEF Workers, Mine
  <2>3. errors[t] = 0 /\ next[t] > n /\ next[t] \in Nat
    BY <1>1, <1>5, <1>7, <2>2 DEF Failed, WorkerInv, TypeInv
  <2>4. i < next[t]
    BY <1>1, <2>3
  <2> QED BY <1>1, <1>5, <2>2, <2>3, <2>4 DEF WorkerInv
<1>8. CallerInv'
  BY <1>2, <1>3, <1>4, <1>5, <1>6, <1>7 DEF CallerInv, Check, Finish
<1>9. OutcomeInv'
  <2>1. CASE Failed # {}
    BY <1>2, <2>1 DEF Check, Finish, OutcomeInv
  <2>2. CASE Failed = {}
    BY <1>1, <1>2, <2>2 DEF Check, OutcomeInv, Pending
  <2> QED BY <2>1, <2>2
<1> QED BY <1>6, <1>8, <1>9 DEF IInv

(* The caller, alone, compiles its next function.                          *)
LEMMA CompileHereInv ==
  ASSUME IInv, CompileHere
  PROVE  IInv'
<1> DEFINE i == next[1]
<1>1. /\ TypeInv /\ CallerInv /\ WorkerInv /\ OutcomeInv
      /\ n \in Nat \ {0} /\ threads \in Nat \ {0}
  BY ProgramShape DEF IInv
<1>2. main = "compile" /\ UNCHANGED <<program, threads, joined, worker, errors>>
  BY DEF CompileHere
<1>3. n' = n /\ Workers' = Workers /\ Unsupported' = Unsupported
  BY <1>2 DEF n, Workers, Unsupported, Compilation!Unsupported
<1>4. /\ ~ (threads > 1) /\ threads = 1 /\ 1 \in Workers /\ i \in 1 .. n
      /\ \A j \in 1 .. i - 1 : Done(j)
  BY <1>1, <1>2 DEF CallerInv, Workers
<1>5. CASE /\ program.functions[i].supported /\ compileFunction(i)
           /\ main' = IF i = n THEN "link" ELSE main
           /\ next' = [next EXCEPT ![1] = i + 1]
           /\ UNCHANGED outcome
  <2>1. TypeInv'
    <3>1. next' \in [Workers -> Nat]
      BY <1>1, <1>4, <1>5 DEF TypeInv
    <3>2. compiled' = [j \in 1 .. n |-> compiled'[j]]
      BY <1>1, <1>5 DEF TypeInv, compileFunction
    <3> QED BY <1>1, <1>2, <1>3, <1>5, <3>1, <3>2 DEF TypeInv
  <2>2. ASSUME NEW j \in 1 .. i PROVE Done(j)'
    <3>1. CASE j = i
      BY <1>1, <1>2, <1>4, <1>5, <3>1 DEF Done, compileFunction, TypeInv
    <3>2. CASE j # i
      <4>1. j \in 1 .. n /\ Done(j)
        BY <1>1, <1>4, <3>2
      <4> QED BY <1>1, <1>2, <1>4, <1>5, <4>1, DoneStays
    <3> QED BY <3>1, <3>2
  <2>3. next'[1] = i + 1
    BY <1>1, <1>4, <1>5 DEF TypeInv
  <2>4. CallerInv'
    BY <1>1, <1>2, <1>3, <1>4, <1>5, <2>2, <2>3 DEF CallerInv
  <2>5. WorkerInv' /\ OutcomeInv'
    BY <1>1, <1>2, <1>3, <1>4, <1>5 DEF WorkerInv, OutcomeInv, Pending
  <2> QED BY <2>1, <2>4, <2>5 DEF IInv
<1>6. CASE /\ Finish([kind |-> "unsupported", function |-> i])
           /\ UNCHANGED <<compiled, next>>
  BY <1>1, <1>2, <1>3, <1>4, <1>6
     DEF IInv, TypeInv, CallerInv, WorkerInv, OutcomeInv, Finish
<1> QED BY <1>5, <1>6 DEF CompileHere

(* The code is linked, or a call has no callee.                            *)
LEMMA LinkInv ==
  ASSUME IInv, Link
  PROVE  IInv'
<1>1. /\ TypeInv /\ CallerInv /\ WorkerInv /\ OutcomeInv
      /\ n \in Nat \ {0} /\ threads \in Nat \ {0}
  BY ProgramShape DEF IInv
<1>2. main = "link" /\ UNCHANGED <<program, threads, joined, worker, next, compiled, errors>>
  BY DEF Link
<1>3. n' = n /\ Workers' = Workers /\ Unsupported' = Unsupported
  BY <1>2 DEF n, Workers, Unsupported, Compilation!Unsupported
<1>4. \A i : Done(i)' <=> Done(i)
  BY <1>2 DEF Done
<1>5. main' = "gone"
  BY DEF Link, Finish
<1>6. TypeInv' /\ CallerInv' /\ WorkerInv'
  BY <1>1, <1>2, <1>3, <1>4, <1>5 DEF TypeInv, CallerInv, WorkerInv, Mine
<1>7. OutcomeInv'
  BY <1>1, <1>2, <1>3, <1>4 DEF Link, Finish, OutcomeInv, CallerInv
<1> QED BY <1>6, <1>7 DEF IInv

LEMMA NextInv == IInv /\ [Next]_vars => IInv'
<1> SUFFICES ASSUME IInv, [Next]_vars PROVE IInv'
  OBVIOUS
<1>1. CASE Next
  BY <1>1, CompileInv, ExitInv, StartWorkerInv, JoinInv, CheckInv, CompileHereInv, LinkInv
     DEF Next, Caller
<1>2. CASE UNCHANGED vars
  BY ZenonT(40), <1>2 DEF vars, IInv, TypeInv, CallerInv, WorkerInv, OutcomeInv, Mine, Done, n, Workers,
              Unsupported, Compilation!Unsupported, Pending
<1> QED BY <1>1, <1>2
-----------------------------------------------------------------------------
(* No two workers are ever at the same function, and the caller reads what *)
(* they made only when every one of them has exited: compiled and errors   *)
(* need no lock, however many threads and functions there are.             *)
THEOREM NeverRaces == Spec => []NoDataRace
<1>1. IInv => NoDataRace
  <2> SUFFICES ASSUME IInv PROVE NoDataRace
    OBVIOUS
  <2>1. /\ TypeInv /\ CallerInv /\ WorkerInv
        /\ threads \in Nat \ {0} /\ n \in Nat
    BY ProgramShape DEF IInv
  <2>2. ASSUME NEW t \in Workers, NEW u \in Workers, next[t] = next[u]
        PROVE  t = u
    <3>1. CASE threads = 1
      BY <3>1 DEF Workers
    <3>2. CASE threads > 1
      <4>1. PICK j \in Nat : next[t] = t + j * threads
        BY <2>1, <3>2 DEF WorkerInv, Mine
      <4>2. PICK k \in Nat : next[u] = u + k * threads
        BY <2>1, <3>2 DEF WorkerInv, Mine
      <4> QED BY <2>1, <2>2, <4>1, <4>2, StridesDisjoint DEF Workers
    <3> QED BY <2>1, <3>1, <3>2
  <2>3. ASSUME main \in {"check", "link"}, NEW t \in Workers
        PROVE  worker[t] = IF threads > 1 THEN "exited" ELSE "unborn"
    <3>1. CASE threads > 1
      BY <2>1, <2>3, <3>1 DEF CallerInv
    <3>2. CASE threads = 1
      BY <2>1, <3>2 DEF CallerInv, Workers
    <3> QED BY <2>1, <3>1, <3>2
  <2> QED BY <2>2, <2>3 DEF NoDataRace
<1> QED BY InitInv, NextInv, <1>1, PTL DEF Spec

(* Once every function is compiled, the compiled functions are those of    *)
(* the program.                                                            *)
LEMMA AllDone ==
  ASSUME TypeInv, \A i \in 1 .. n : Done(i)
  PROVE  compiled = Compilation!Code /\ Unsupported = {}
<1>1. DOMAIN program.functions = 1 .. n /\ Unsupported = {i \in 1 .. n : ~ program.functions[i].supported}
  BY ProgramShape
<1>2. compiled = [i \in 1 .. n |-> compiled[i]]
  BY DEF TypeInv
<1>3. \A i \in 1 .. n : compiled[i] = program.functions[i].code
  BY DEF Done
<1>4. compiled = [i \in 1 .. n |-> program.functions[i].code]
  BY <1>2, <1>3
<1> QED BY <1>1, <1>4 DEF Compilation!Code, Done

(* Both levels speak of the same linker.                                   *)
LEMMA SameLinker ==
  ASSUME NEW code, NEW entry
  PROVE  /\ Resolved(code) <=> Compilation!Resolved(code)
         /\ LinkedCode(code, entry) = Compilation!LinkedCode(code, entry)
<1>1. ASSUME NEW name PROVE Named(code, name) = Compilation!Named(code, name)
  BY DEF Named, Compilation!Named
<1>2. ASSUME NEW i PROVE Start(code, i) = Compilation!Start(code, i)
  BY DEF Start, Compilation!Start, FoldLeft, Compilation!FoldLeft,
         MapThenFoldSet, Compilation!MapThenFoldSet, Max, Compilation!Max
<1>3. ASSUME NEW name PROVE functionStart(code, name) = Compilation!functionStart(code, name)
  <2>1. \A S : Max(S) = Compilation!Max(S)
    BY DEF Max, Compilation!Max
  <2> QED BY <1>1, <1>2, <2>1 DEF functionStart, Compilation!functionStart
<1>4. ASSUME NEW i, NEW call PROVE Branch(code, i, call) = Compilation!Branch(code, i, call)
  BY <1>3 DEF Branch, Compilation!Branch
<1>5. Resolved(code) <=> Compilation!Resolved(code)
  BY <1>1 DEF Resolved, Compilation!Resolved
<1>6. LinkedCode(code, entry) = Compilation!LinkedCode(code, entry)
  BY <1>3, <1>4 DEF LinkedCode, Compilation!LinkedCode
<1> QED BY <1>5, <1>6

(* Every step of the threads is one of compileProgram, or none.            *)
LEMMA StepImplements ==
  ASSUME IInv, [Next]_vars
  PROVE  [Compilation!Next]_<<program, outcome>>
<1>1. /\ TypeInv /\ CallerInv /\ WorkerInv /\ OutcomeInv
      /\ n \in Nat \ {0} /\ threads \in Nat \ {0}
      /\ Unsupported = {i \in 1 .. n : ~ program.functions[i].supported}
      /\ Unsupported \subseteq Nat \ {0}
  BY ProgramShape DEF IInv
<1>2. main # "gone" => outcome = Compilation!Pending
  BY <1>1 DEF OutcomeInv, Pending, Compilation!Pending
<1>3. CASE StartWorker
  <2>1. CASE UNCHANGED outcome
    BY <1>3, <2>1 DEF StartWorker
  <2>2. CASE "refused" \in MaySpawn /\ Finish([kind |-> "terminated"])
    <3>1. Compilation!Terminate
      BY <2>2 DEF Finish, Compilation!Terminate
    <3> QED BY <1>2, <1>3, <3>1 DEF StartWorker, Compilation!Next
  <2> QED BY <1>3, <2>1, <2>2 DEF StartWorker
<1>4. CASE Check
  <2>1. CASE Failed = {}
    BY <1>4, <2>1 DEF Check
  <2>2. CASE Failed # {}
    <3>1. Failed \in SUBSET Nat
      BY <1>1 DEF Failed, Workers
    <3>2. Min(Failed) \in Failed
      BY <2>2, <3>1, LeastElement DEF Min
    <3>3. errors[Min(Failed)] \in Unsupported
      BY <1>1, <3>2 DEF Failed, TypeInv
    <3>4. outcome' = [kind |-> "unsupported", function |-> errors[Min(Failed)]]
      BY <1>4, <2>2 DEF Check, Finish
    <3>5. Compilation!Reject
      BY <3>3, <3>4 DEF Compilation!Reject, Unsupported
    <3> QED BY <1>2, <1>4, <3>5 DEF Check, Compilation!Next
  <2> QED BY <2>1, <2>2
<1>5. CASE CompileHere
  <2>1. CASE UNCHANGED outcome
    BY <1>5, <2>1 DEF CompileHere
  <2>2. CASE /\ ~ program.functions[next[1]].supported
             /\ Finish([kind |-> "unsupported", function |-> next[1]])
    <3>1. main = "compile" /\ UNCHANGED program
      BY <1>5 DEF CompileHere
    <3>2. next[1] \in Unsupported
      BY <1>1, <2>2, <3>1 DEF CallerInv
    <3>3. Compilation!Reject
      BY <2>2, <3>2 DEF Finish, Compilation!Reject, Unsupported
    <3> QED BY <1>2, <3>1, <3>3 DEF Compilation!Next
  <2> QED BY <1>5, <2>1, <2>2 DEF CompileHere
<1>6. CASE Link
  <2>1. main = "link" /\ UNCHANGED program
    BY <1>6 DEF Link
  <2>2. compiled = Compilation!Code /\ Unsupported = {}
    BY <1>1, <2>1, AllDone DEF CallerInv
  <2>3. CASE Resolved(compiled)
    <3>1. Compilation!Succeed
      BY <1>6, <2>2, <2>3, SameLinker DEF Link, Finish, Compilation!Succeed, Unsupported
    <3> QED BY <1>2, <2>1, <3>1 DEF Compilation!Next
  <2>4. CASE ~ Resolved(compiled)
    <3>1. Compilation!Reject
      BY <1>6, <2>2, <2>4, SameLinker DEF Link, Finish, Compilation!Reject, Unsupported
    <3> QED BY <1>2, <2>1, <3>1 DEF Compilation!Next
  <2> QED BY <2>3, <2>4
<1>7. CASE Join \/ (\E t \in Workers : Compile(t) \/ Exit(t)) \/ UNCHANGED vars
  BY <1>7 DEF Join, Compile, Exit, vars
<1> QED BY <1>3, <1>4, <1>5, <1>6, <1>7 DEF Next, Caller

(* Threads make no difference: with any number of them the call returns    *)
(* the code that compileProgram makes of the same program, or throws an    *)
(* error that names one of its functions.                                  *)
THEOREM ThreadsMakeNoDifference == Spec => ImplementsCompileProgram
<1>1. Init => Compilation!Init
  BY DEF Init, Pending, Compilation!Init, Compilation!Pending
<1>2. IInv /\ [Next]_vars => [Compilation!Next]_<<program, outcome>>
  BY StepImplements
<1> QED BY InitInv, NextInv, <1>1, <1>2, PTL DEF Spec, ImplementsCompileProgram, Compilation!Spec
-----------------------------------------------------------------------------
(* The layout: a function starts where the one before it ends.             *)
LEMMA StartIsStart == \A laid, i : Start(laid, i) = StartOf(laid, i)
BY DEF Start, StartOf

(* The 26 bits of the branch hold any distance within the code.            *)
LEMMA BranchReaches ==
  ASSUME NEW at \in Nat, NEW to \in Nat, NEW end \in Nat,
         at <= end, to <= end, 2 * end < ImmRange
  PROVE  Target([at |-> at, imm26 |-> (to - at) % ImmRange]) = to
<1>1. ImmRange \in Nat \ {0}
  BY ImmAssumption
<1>2. CASE to >= at
  <2>1. (to - at) % ImmRange = to - at
    BY <1>1, <1>2
  <2> QED BY <1>1, <1>2, <2>1 DEF Target
<1>3. CASE to < at
  <2>1. (to - at) % ImmRange = to - at + ImmRange
    BY <1>1, <1>3
  <2> QED BY <1>1, <1>3, <2>1 DEF Target
<1> QED BY <1>2, <1>3

(* In the code that is returned every call is a branch to the start of the *)
(* function it names, for every program whose code a branch spans.         *)
THEOREM CallsAlwaysLand ==
  ASSUME ProgramsFit
  PROVE  Spec => []CallsReachCallees
<1>1. IInv => CallsReachCallees
  <2> SUFFICES ASSUME IInv, outcome.kind = "code" PROVE CallsLand(compiled, outcome.code)
    BY DEF CallsReachCallees
  <2>1. /\ TypeInv /\ n \in Nat \ {0} /\ DOMAIN program.functions = 1 .. n
        /\ Resolved(compiled) /\ outcome.code = LinkedCode(compiled, program.entry)
        /\ compiled = Compilation!Code
    BY ProgramShape, AllDone DEF IInv, OutcomeInv
  <2>2. compiled = [i \in DOMAIN program.functions |-> program.functions[i].code]
    BY <2>1 DEF Compilation!Code
  <2>3. Len(compiled) = n /\ DOMAIN compiled = 1 .. n
    BY <2>1, <2>2
  <2>4. /\ \A i, j \in 1 .. n : compiled[i].name = compiled[j].name => i = j
        /\ \A i \in 1 .. n : \A k \in DOMAIN compiled[i].calls :
             compiled[i].calls[k].at \in 0 .. compiled[i].size - 1
        /\ 2 * Start(compiled, n + 1) < ImmRange
    <3>1. program \in Programs
      BY <2>1 DEF TypeInv
    <3> DEFINE code == [i \in DOMAIN program.functions |-> program.functions[i].code]
    <3>2. /\ \A i, j \in DOMAIN code : code[i].name = code[j].name => i = j
          /\ \A i \in DOMAIN code : \A k \in DOMAIN code[i].calls :
               code[i].calls[k].at \in 0 .. code[i].size - 1
          /\ 2 * Start(code, Len(code) + 1) < ImmRange
      BY <3>1 DEF ProgramsFit
    <3>3. code = compiled
      BY <2>2
    <3> HIDE DEF code
    <3> QED BY <2>3, <3>2, <3>3
  <2>5. Sized(compiled)
    BY <2>1, <2>2, <2>3, CodegenAssumption DEF Sized, TypeInv, IsFunction
  <2>6. ASSUME NEW i \in 1 .. n
        PROVE  functionStart(compiled, compiled[i].name) = Start(compiled, i)
    <3>1. Named(compiled, compiled[i].name) = {i}
      BY <2>3, <2>4 DEF Named
    <3>2. Max({i}) = i
      <4>1. {i} \in SUBSET (1 .. n) /\ {i} # {}
        OBVIOUS
      <4> QED BY <2>1, <4>1, MaxOfFinite
    <3> QED BY <3>1, <3>2 DEF functionStart
  <2>7. SUFFICES ASSUME NEW i \in 1 .. n, NEW k \in DOMAIN compiled[i].calls
                 PROVE  \E b \in outcome.code.branches :
                          /\ b.at = Start(compiled, i) + compiled[i].calls[k].at
                          /\ \E j \in Named(compiled, compiled[i].calls[k].callee) :
                               Target(b) = Start(compiled, j)
    BY <2>3 DEF CallsLand
  <2> DEFINE call == compiled[i].calls[k]
             b == Branch(compiled, i, call)
             at == Start(compiled, i) + call.at
             end == Start(compiled, n + 1)
  <2>8. PICK j \in 1 .. n : compiled[j].name = call.callee
    BY <2>1, <2>3 DEF Resolved, Named
  <2>9. b = [at |-> at, imm26 |-> (Start(compiled, j) - at) % ImmRange]
    BY <2>6, <2>8 DEF Branch
  <2>10. b \in outcome.code.branches
    BY <2>1, <2>3 DEF LinkedCode
  <2>11. at \in Nat /\ at <= end /\ Start(compiled, j) \in Nat /\ Start(compiled, j) <= end /\ end \in Nat
    <3>1. /\ Start(compiled, i) \in Nat /\ Start(compiled, i) + compiled[i].size <= end
          /\ Start(compiled, j) \in Nat /\ Start(compiled, j) + compiled[j].size <= end
          /\ end \in Nat
      BY <2>3, <2>5, StartsAreInside, StartIsStart
    <3>2. call.at \in 0 .. compiled[i].size - 1 /\ compiled[i].size \in Nat /\ compiled[j].size \in Nat
      BY <2>3, <2>4, <2>5 DEF Sized
    <3> HIDE DEF end, call
    <3> QED BY <3>1, <3>2
  <2>12. Target(b) = Start(compiled, j)
    BY <2>4, <2>9, <2>11, BranchReaches
  <2>13. b.at = at /\ j \in Named(compiled, call.callee)
    BY <2>3, <2>8, <2>9 DEF Named
  <2> QED BY <2>10, <2>12, <2>13
<1> QED BY InitInv, NextInv, <1>1, PTL DEF Spec
=============================================================================
