-------------------------- MODULE SnaThreadsProofs --------------------------
(***************************************************************************)
(* The thread pool of SnaThreads for any number of threads: the one        *)
(* condition variable of a thread is enough, the pool is ready between two *)
(* calls, and it keeps the promises of SnaParallel.  IInv is the inductive *)
(* invariant: what is true of the X server's loop (MainInv), and of each   *)
(* thread (WaitInv, GoneInv, and AliveInv while no one is being killed).   *)
(***************************************************************************)
EXTENDS SnaThreads, TLAPS

Parked == {"start", "check", "sleep"}
Faulted == {"fault", "trap", "trap2", "dead"}

\* Where the X server is in sna_threads_wait, and in a call that uses threads.
Waiting == {"wait", "lock", "while", "sleep", "arg"}
Threaded == Waiting \cup {"run", "cancel", "join"}
Alive == max_threads > 0 /\ main.pc \notin {"cancel", "join"}

\* How far a thread is with what func and arg say.
Phase(n) ==
  \/ func[n] = "NULL" /\ arg[n] = "NULL" /\ pc[n] \in Parked
  \/ func[n] = "draw" /\ arg[n] = "band"
     /\ pc[n] \in Parked \cup {"draw", "drawn", "finish", "fault", "trap"}
  \/ func[n] = "draw" /\ arg[n] = "NULL" /\ pc[n] = "finish2"
  \/ func[n] = "draw" /\ arg[n] = "sig" /\ pc[n] = "trap2"
  \/ func[n] = "NULL" /\ arg[n] = "sig" /\ pc[n] = "dead"

\* The X server has not given it anything yet, or has seen it finish.
Unused(n) ==
  \/ main.pc \in {"idle", "alone", "put"}
  \/ main.pc = "run" /\ n >= main.n
  \/ main.pc \in Waiting /\ n < main.n

\* Its band is still to be given to it, it is about to draw it, or it faulted.
Pending(n) ==
  \/ main.pc = "run" /\ n >= main.n
  \/ func[n] = "draw" /\ pc[n] \in Parked \cup {"draw"}
  \/ pc[n] \in Faulted

MainInv ==
  /\ main.pc \in {"lock", "while", "sleep", "arg", "cancel"} => main.n <= N
  /\ main.pc \in Threaded => main.used >= 1 /\ max_threads > 0
  /\ main.pc \in {"alone", "put"} => main.used = 0
  /\ main.pc = "put" => todo = {} \/ fault
  /\ main.pc \in Waiting => 0 \notin todo
  /\ main.pc \in {"cancel", "join"} => fault
  /\ todo \subseteq 0..main.used
  /\ fault /\ main.pc \in Waiting \cup {"run"} => \E n \in Worker : pc[n] \in Faulted

\* Each sleeps on the condition variable for a reason, and not for the same.
WaitInv(n) ==
  /\ "worker" \in waiting[n] => func[n] = "NULL" /\ pc[n] = "sleep"
  /\ "main" \in waiting[n] => func[n] # "NULL" /\ main.pc = "sleep" /\ main.n = n

\* Nothing is drawn by what is left of the pool.
GoneInv(n) ==
  /\ max_threads = 0 => pc[n] = "dead" \/ (func[n] = "NULL" /\ pc[n] \in Parked)
  /\ main.pc = "join" /\ n < main.n => pc[n] = "dead"

AliveInv(n) ==
  /\ ~cancelled[n]
  /\ Phase(n)
  /\ Unused(n) => func[n] = "NULL" /\ arg[n] = "NULL"
  /\ main.pc = "arg" /\ main.n = n => func[n] = "NULL"
  /\ pc[n] \in Faulted => fault
  /\ n \in todo /\ main.pc \in Waiting \cup {"run"} => Pending(n)

IInv ==
  /\ TypeOK /\ MainInv
  /\ \A n \in Worker : WaitInv(n) /\ GoneInv(n)
  /\ Alive => \A n \in Worker : AliveInv(n)

-----------------------------------------------------------------------------
(* One lemma for the initial states, then one for each side.                 *)

USE NAssumption DEF Worker

\* Everybody is parked, or was never created.
LEMMA InitInv == Init => IInv
<1> SUFFICES ASSUME Init PROVE IInv OBVIOUS
<1>1. pc \in [Worker -> {"start", "dead"}] /\ main = [pc |-> "idle", n |-> 1, used |-> 0]
  BY DEF Init
<1>2. TypeOK
  <2>2. /\ func \in [Worker -> {"NULL", "draw"}] /\ arg \in [Worker -> {"NULL", "band", "sig"}]
        /\ mutex \in [Worker -> {"free", "main", "worker"}]
        /\ waiting \in [Worker -> SUBSET {"main", "worker"}]
        /\ cancelled \in [Worker -> BOOLEAN]
    BY DEF Init
  <2>3. max_threads \in {0, N + 1} /\ todo \subseteq 0..N /\ fault \in BOOLEAN BY DEF Init
  <2>4. main \in [pc : {"idle"}, n : 1..(N + 1), used : 0..N] BY <1>1
  <2> QED BY <1>1, <2>2, <2>3, <2>4 DEF TypeOK
<1>3. MainInv BY <1>1 DEF Init, MainInv, Threaded, Waiting
<1>4. \A n \in Worker : WaitInv(n) /\ GoneInv(n) BY <1>1 DEF Init, WaitInv, GoneInv, Parked
<1>5. Alive => \A n \in Worker : AliveInv(n)
  BY <1>1 DEF Init, Alive, AliveInv, Phase, Unused, Parked, Faulted, Waiting
<1> QED BY <1>2, <1>3, <1>4, <1>5 DEF IInv

\* A signal takes at most who waits off the condition variable, and everybody
\* if only one waits.
LEMMA SignalWakes ==
  ASSUME TypeOK, NEW n \in Worker, Signal(n)
  PROVE  /\ waiting' \in [Worker -> SUBSET {"main", "worker"}]
         /\ \A m \in Worker \ {n} : waiting'[m] = waiting[m]
         /\ waiting'[n] \subseteq waiting[n]
         /\ "main" \notin waiting[n] \/ "worker" \notin waiting[n] => waiting'[n] = {}
<1>1. CASE waiting[n] = {} BY <1>1 DEF TypeOK, Signal
<1>2. CASE waiting[n] # {}
  <2>1. PICK who \in waiting[n] : waiting' = [waiting EXCEPT ![n] = @ \ {who}]
    BY <1>2 DEF Signal
  <2>2. waiting[n] \ {who} \subseteq {"main", "worker"} BY DEF TypeOK
  <2> QED BY <2>1, <2>2 DEF TypeOK
<1> QED BY <1>1, <1>2

\* What a thread does touches nothing of the X server's nor of other threads.
LEMMA WorkerLocal ==
  ASSUME TypeOK, NEW n \in Worker, WorkerStep(n) \/ WorkerFaults(n) \/ Spurious(n)
  PROVE  /\ TypeOK'
         /\ main' = main /\ max_threads' = max_threads /\ cancelled' = cancelled
         /\ todo' \in {todo, todo \ {n}} /\ fault' \in {fault, TRUE}
         /\ \A m \in Worker \ {n} : /\ pc'[m] = pc[m] /\ func'[m] = func[m]
                                    /\ arg'[m] = arg[m] /\ waiting'[m] = waiting[m]
<1> DEFINE Pc == {"start", "check", "sleep", "draw", "drawn", "finish", "finish2", "fault",
                  "trap", "trap2", "dead"}
           Others(f, g) == \A m \in Worker \ {n} : g[m] = f[m]
           Rest == UNCHANGED <<max_threads, cancelled, main, todo, fault>>
<1>a. ASSUME NEW p \in Pc, pc' = [pc EXCEPT ![n] = p]
      PROVE  pc' \in [Worker -> Pc] /\ Others(pc, pc')
  BY <1>a DEF TypeOK
<1>b. ASSUME NEW w \in {"free", "main", "worker"}, mutex' = [mutex EXCEPT ![n] = w]
      PROVE  mutex' \in [Worker -> {"free", "main", "worker"}]
  BY <1>b DEF TypeOK
<1>c. ASSUME Signal(n) \/ UNCHANGED waiting
      PROVE  waiting' \in [Worker -> SUBSET {"main", "worker"}] /\ Others(waiting, waiting')
  <2>1. CASE UNCHANGED waiting BY <2>1 DEF TypeOK
  <2>2. CASE Signal(n) BY <2>2, SignalWakes
  <2> QED BY <1>c, <2>1, <2>2
<1>d. ASSUME func' = [func EXCEPT ![n] = "NULL"] \/ UNCHANGED func
      PROVE  func' \in [Worker -> {"NULL", "draw"}] /\ Others(func, func')
  BY <1>d DEF TypeOK
<1>e. ASSUME NEW v \in {"NULL", "sig"}, arg' = [arg EXCEPT ![n] = v] \/ UNCHANGED arg
      PROVE  arg' \in [Worker -> {"NULL", "band", "sig"}] /\ Others(arg, arg')
  BY <1>e DEF TypeOK
<1>1. CASE WorkerLocks(n)
  <2>1. mutex' = [mutex EXCEPT ![n] = "worker"] /\ UNCHANGED <<func, arg, waiting>> /\ Rest
    BY <1>1 DEF WorkerLocks, Take
  <2>2. PICK p \in Pc : pc' = [pc EXCEPT ![n] = p] BY <1>1 DEF WorkerLocks, Go
  <2> QED BY <1>a, <1>b, <2>1, <2>2 DEF TypeOK
<1>2. CASE WorkerSleeps(n) BY <1>2 DEF TypeOK, WorkerSleeps, Sleep, Leave, Go
<1>3. CASE WorkerWakes(n) BY <1>3 DEF TypeOK, WorkerWakes, Take, Go
<1>4. CASE WorkerCancelled(n)
  <2>1. /\ waiting' = [waiting EXCEPT ![n] = @ \ {"worker"}] /\ UNCHANGED <<func, arg>> /\ Rest
        /\ pc' = [pc EXCEPT ![n] = "dead"]
        /\ mutex' = mutex \/ mutex' = [mutex EXCEPT ![n] = "worker"]
    BY <1>4 DEF WorkerCancelled, Take, Go
  <2>2. waiting' \in [Worker -> SUBSET {"main", "worker"}] /\ Others(waiting, waiting')
    BY <2>1 DEF TypeOK
  <2>3. mutex' \in [Worker -> {"free", "main", "worker"}] BY <1>b, <2>1 DEF TypeOK
  <2>4. pc' \in [Worker -> Pc] /\ Others(pc, pc') BY <1>a, <2>1
  <2> QED BY <2>1, <2>2, <2>3, <2>4 DEF TypeOK
<1>5. CASE WorkerTakes(n) BY <1>5 DEF TypeOK, WorkerTakes, Leave, Go
<1>6. CASE WorkerDraws(n) BY <1>6 DEF TypeOK, WorkerDraws, Go, shared
<1>7. CASE WorkerFinishes(n)
  <2>1. waiting' \in [Worker -> SUBSET {"main", "worker"}] /\ Others(waiting, waiting')
    BY <1>7, <1>c DEF WorkerFinishes
  <2>2. PICK p \in Pc : pc' = [pc EXCEPT ![n] = p] BY <1>7 DEF WorkerFinishes, Go
  <2>3. \/ arg' = [arg EXCEPT ![n] = "NULL"] /\ UNCHANGED func
        \/ func' = [func EXCEPT ![n] = "NULL"] /\ UNCHANGED arg
    BY <1>7 DEF WorkerFinishes
  <2>4. func' \in [Worker -> {"NULL", "draw"}] /\ Others(func, func') BY <1>d, <2>3
  <2>5. arg' \in [Worker -> {"NULL", "band", "sig"}] /\ Others(arg, arg') BY <1>e, <2>3
  <2>6. UNCHANGED mutex /\ Rest BY <1>7 DEF WorkerFinishes
  <2> QED BY <1>a, <2>1, <2>2, <2>4, <2>5, <2>6 DEF TypeOK
<1>8. CASE WorkerTraps(n)
  <2>1. waiting' \in [Worker -> SUBSET {"main", "worker"}] /\ Others(waiting, waiting')
    BY <1>8, <1>c DEF WorkerTraps
  <2>2. PICK p \in Pc : pc' = [pc EXCEPT ![n] = p] BY <1>8 DEF WorkerTraps, Go
  <2>3. \/ arg' = [arg EXCEPT ![n] = "sig"] /\ UNCHANGED func
        \/ func' = [func EXCEPT ![n] = "NULL"] /\ UNCHANGED arg
    BY <1>8 DEF WorkerTraps
  <2>4. func' \in [Worker -> {"NULL", "draw"}] /\ Others(func, func') BY <1>d, <2>3
  <2>5. arg' \in [Worker -> {"NULL", "band", "sig"}] /\ Others(arg, arg') BY <1>e, <2>3
  <2>6. mutex' = mutex \/ mutex' = [mutex EXCEPT ![n] = "free"] BY <1>8 DEF WorkerTraps, Leave
  <2>7. mutex' \in [Worker -> {"free", "main", "worker"}] BY <1>b, <2>6 DEF TypeOK
  <2>8. Rest BY <1>8 DEF WorkerTraps
  <2> QED BY <1>a, <2>1, <2>2, <2>4, <2>5, <2>7, <2>8 DEF TypeOK
<1>9. CASE WorkerFaults(n) BY <1>9 DEF TypeOK, WorkerFaults, Go, shared
<1>10. CASE Spurious(n) BY <1>10 DEF TypeOK, Spurious
<1> QED BY <1>1, <1>2, <1>3, <1>4, <1>5, <1>6, <1>7, <1>8, <1>9, <1>10 DEF WorkerStep

\* The invariant of the thread that makes a step.
LEMMA WorkerSelf ==
  ASSUME IInv, NEW n \in Worker, WorkerStep(n) \/ WorkerFaults(n) \/ Spurious(n)
  PROVE  WaitInv(n)' /\ GoneInv(n)' /\ (Alive => AliveInv(n)')
<1>1. TypeOK /\ WaitInv(n) /\ GoneInv(n) /\ (Alive => AliveInv(n)) BY DEF IInv
<1>2. main' = main /\ max_threads' = max_threads /\ cancelled' = cancelled
  BY <1>1, WorkerLocal
<1> USE <1>1, <1>2 DEF TypeOK, WaitInv, GoneInv, AliveInv, Phase, Unused, Pending, Parked,
                       Faulted, Waiting, Go
<1>3. CASE WorkerLocks(n) BY <1>3 DEF WorkerLocks
<1>4. CASE WorkerSleeps(n) BY <1>4 DEF WorkerSleeps, Sleep
<1>5. CASE WorkerWakes(n) BY <1>5 DEF WorkerWakes
<1>6. CASE WorkerCancelled(n) BY <1>6 DEF WorkerCancelled
<1>7. CASE WorkerTakes(n) BY <1>7 DEF WorkerTakes
<1>8. CASE WorkerDraws(n) BY <1>8 DEF WorkerDraws, shared
<1>9. CASE WorkerFinishes(n)
  <2>1. CASE pc[n] = "finish" BY <1>9, <2>1 DEF WorkerFinishes
  <2>2. CASE pc[n] = "finish2" /\ Signal(n)
    <3>1. waiting'[n] = {} BY <2>2, SignalWakes
    <3> QED BY <1>9, <2>2, <3>1 DEF WorkerFinishes
  <2> QED BY <1>9, <2>1, <2>2 DEF WorkerFinishes
<1>10. CASE WorkerTraps(n)
  <2>1. CASE pc[n] = "trap" BY <1>10, <2>1 DEF WorkerTraps
  <2>2. CASE pc[n] = "trap2" /\ Signal(n)
    <3>1. waiting'[n] = {} BY <2>2, SignalWakes
    <3> QED BY <1>10, <2>2, <3>1 DEF WorkerTraps
  <2> QED BY <1>10, <2>1, <2>2 DEF WorkerTraps
<1>11. CASE WorkerFaults(n) BY <1>11 DEF WorkerFaults, shared
<1>12. CASE Spurious(n) BY <1>12 DEF Spurious
<1> QED BY <1>3, <1>4, <1>5, <1>6, <1>7, <1>8, <1>9, <1>10, <1>11, <1>12 DEF WorkerStep

\* A thread that faults says so, and a fault is not forgotten.
LEMMA FaultKept ==
  ASSUME IInv, NEW n \in Worker, WorkerStep(n) \/ WorkerFaults(n) \/ Spurious(n)
  PROVE  /\ \A m \in Worker : pc[m] \in Faulted => pc'[m] \in Faulted
         /\ fault' => fault \/ pc'[n] \in Faulted
<1> USE DEF IInv, TypeOK, Faulted, Go, WorkerStep
<1>1. CASE WorkerFaults(n) BY <1>1 DEF WorkerFaults
<1>2. CASE WorkerLocks(n) BY <1>2 DEF WorkerLocks
<1>3. CASE WorkerTraps(n) BY <1>3 DEF WorkerTraps
<1>4. CASE WorkerDraws(n) BY <1>4 DEF WorkerDraws
<1>5. CASE WorkerSleeps(n) \/ WorkerWakes(n) \/ WorkerCancelled(n)
  BY <1>5 DEF WorkerSleeps, WorkerWakes, WorkerCancelled
<1>6. CASE WorkerTakes(n) \/ WorkerFinishes(n) \/ Spurious(n)
  BY <1>6 DEF WorkerTakes, WorkerFinishes, Spurious
<1> QED BY <1>1, <1>2, <1>3, <1>4, <1>5, <1>6

\* The steps of the threads preserve the invariant.
LEMMA WorkerInv ==
  ASSUME IInv, NEW n \in Worker, WorkerStep(n) \/ WorkerFaults(n) \/ Spurious(n)
  PROVE  IInv'
<1>1. /\ TypeOK'
      /\ main' = main /\ max_threads' = max_threads /\ cancelled' = cancelled
      /\ todo' \in {todo, todo \ {n}} /\ fault' \in {fault, TRUE}
      /\ \A m \in Worker \ {n} : /\ pc'[m] = pc[m] /\ func'[m] = func[m]
                                 /\ arg'[m] = arg[m] /\ waiting'[m] = waiting[m]
  BY WorkerLocal DEF IInv
<1>2. MainInv'
  <2>1. MainInv BY DEF IInv
  <2>2. fault' /\ main.pc \in Waiting \cup {"run"} => \E m \in Worker : pc'[m] \in Faulted
    BY <2>1, FaultKept DEF MainInv
  <2>3. todo' \subseteq todo BY <1>1
  <2>4. fault => fault' BY <1>1
  <2> HIDE DEF Worker
  <2> QED BY <1>1, <2>1, <2>2, <2>3, <2>4 DEF MainInv
<1>3. ASSUME NEW m \in Worker \ {n}
      PROVE  WaitInv(m)' /\ GoneInv(m)' /\ (Alive => AliveInv(m)')
  <2>1. WaitInv(m) /\ GoneInv(m) /\ (Alive => AliveInv(m)) BY DEF IInv
  <2>2. WaitInv(m)' /\ GoneInv(m)' BY <1>1, <1>3, <2>1 DEF WaitInv, GoneInv, Parked
  <2>3. ASSUME Alive PROVE AliveInv(m)'
    BY <1>1, <1>3, <2>1, <2>3 DEF AliveInv, Phase, Unused, Pending, Parked, Faulted, Waiting
  <2> QED BY <2>2, <2>3
<1>4. Alive' = Alive BY <1>1 DEF Alive
<1> QED BY <1>1, <1>2, <1>3, <1>4, WorkerSelf DEF IInv

-----------------------------------------------------------------------------
(* The X server.                                                             *)


\* Where a step takes the X server.
Pcs == {"idle", "alone", "put", "run", "wait", "lock", "while", "sleep", "arg", "cancel", "join"}
MovesTo(p, i) == main' = [pc |-> p, n |-> i, used |-> main.used]

\* The record main, field by field.
LEMMA MainFields ==
  ASSUME TypeOK PROVE main.pc \in Pcs /\ main.n \in 1..(N + 1) /\ main.used \in 0..N
  BY DEF TypeOK, Pcs

\* The next value of main, for each of the actions of the X server.
LEMMA MainMoves ==
  ASSUME TypeOK
  PROVE  /\ Run => MovesTo("run", main.n + 1)
         /\ Own => MovesTo(IF main.pc = "alone" THEN "put" ELSE "wait", 1)
         /\ OwnFaults => MovesTo(IF main.pc = "alone" THEN "put" ELSE "cancel", 1)
         /\ Returned => MovesTo("idle", main.n)
         /\ WaitPeeks => MovesTo(IF func[main.n] = "NULL" THEN "arg" ELSE "lock", main.n)
         /\ WaitLocks \/ WaitWakes => MovesTo("while", main.n)
         /\ WaitSleeps => MovesTo("sleep", main.n)
         /\ WaitUnlocks => MovesTo("arg", main.n)
         /\ WaitChecks => IF arg[main.n] = "NULL" THEN MovesTo("wait", main.n + 1)
                                                 ELSE MovesTo("cancel", 1)
         /\ WaitReturns \/ KillReturns => MovesTo("idle", 1)
         /\ KillCancels => IF main.n = N THEN MovesTo("join", 1) ELSE MovesTo("cancel", main.n + 1)
         /\ KillJoins => MovesTo("join", main.n + 1)
<1>1. main \in [pc : Pcs, n : 1..(N + 1), used : 0..N] BY DEF TypeOK, Pcs
<1> USE <1>1 DEF MovesTo, At, Goto, Turn
<1>2. Run => MovesTo("run", main.n + 1) BY DEF Run
<1>3. Own => MovesTo(IF main.pc = "alone" THEN "put" ELSE "wait", 1) BY DEF Own
<1>4. OwnFaults => MovesTo(IF main.pc = "alone" THEN "put" ELSE "cancel", 1) BY DEF OwnFaults
<1>5. Returned => MovesTo("idle", main.n) BY DEF Returned
<1>6. WaitPeeks => MovesTo(IF func[main.n] = "NULL" THEN "arg" ELSE "lock", main.n) BY DEF WaitPeeks
<1>7. WaitLocks \/ WaitWakes => MovesTo("while", main.n) BY DEF WaitLocks, WaitWakes
<1>8. WaitSleeps => MovesTo("sleep", main.n) BY DEF WaitSleeps
<1>9. WaitUnlocks => MovesTo("arg", main.n) BY DEF WaitUnlocks
<1>10. WaitChecks => IF arg[main.n] = "NULL" THEN MovesTo("wait", main.n + 1)
                                             ELSE MovesTo("cancel", 1)
  BY DEF WaitChecks
<1>11. WaitReturns \/ KillReturns => MovesTo("idle", 1) BY DEF WaitReturns, KillReturns
<1>12. KillCancels => IF main.n = N THEN MovesTo("join", 1) ELSE MovesTo("cancel", main.n + 1)
  BY DEF KillCancels
<1>13. KillJoins => MovesTo("join", main.n + 1) BY DEF KillJoins
<1> QED BY <1>2, <1>3, <1>4, <1>5, <1>6, <1>7, <1>8, <1>9, <1>10, <1>11, <1>12, <1>13

\* The types, and the program counters of the threads, which it leaves alone.
LEMMA MainTypes ==
  ASSUME IInv, MainStep \/ OwnFaults
  PROVE  TypeOK' /\ pc' = pc
<1>1. TypeOK /\ MainInv BY DEF IInv
<1>2. main.pc \in Pcs /\ main.n \in 1..(N + 1) /\ main.used \in 0..N BY <1>1, MainFields
<1> DEFINE Struct == [pc : Pcs, n : 1..(N + 1), used : 0..N]
<1> USE <1>2 DEF MovesTo, Pcs, At
<1>3. CASE Run
  <2>1. main.n \in Worker BY <1>3 DEF Run
  <2>2. waiting' \in [Worker -> SUBSET {"main", "worker"}]
    BY <1>1, <1>3, <2>1, SignalWakes DEF Run
  <2>3. main' \in Struct BY <1>1, <1>3, <2>1, MainMoves
  <2>4. func' \in [Worker -> {"NULL", "draw"}] /\ arg' \in [Worker -> {"NULL", "band", "sig"}]
    BY <1>1, <1>3, <2>1 DEF Run, TypeOK
  <2>5. UNCHANGED <<max_threads, mutex, cancelled, pc, todo, fault>> BY <1>3 DEF Run
  <2> QED BY <1>1, <2>2, <2>3, <2>4, <2>5 DEF TypeOK
<1>4. CASE Own \/ OwnFaults \/ Returned
  <2>1. main' \in Struct BY <1>1, <1>4, MainMoves
  <2>2. UNCHANGED <<shared, pc>> /\ todo' \subseteq todo
    BY <1>4 DEF Own, OwnFaults, Returned
  <2>3. fault' = fault \/ fault' = TRUE BY <1>4 DEF Own, OwnFaults, Returned
  <2> QED BY <1>1, <2>1, <2>2, <2>3 DEF shared, TypeOK
<1>5. CASE WaitPeeks \/ WaitReturns
  <2>1. main' \in Struct BY <1>1, <1>5, MainMoves
  <2> QED BY <1>1, <1>5, <2>1 DEF WaitPeeks, WaitReturns, shared, TypeOK
<1>6. CASE WaitChecks
  <2>1. main.n \in 1..N BY <1>1, <1>6 DEF MainInv, WaitChecks
  <2>2. main' \in Struct BY <1>1, <1>6, <2>1, MainMoves
  <2> QED BY <1>1, <1>6, <2>2 DEF WaitChecks, shared, TypeOK
<1>7. CASE WaitLocks \/ WaitWakes
  <2>1. main' \in Struct BY <1>1, <1>7, MainMoves
  <2>2. mutex' = [mutex EXCEPT ![main.n] = "main"]
        /\ UNCHANGED <<max_threads, func, arg, waiting, cancelled, pc, todo, fault>>
    BY <1>7 DEF WaitLocks, WaitWakes, Take
  <2>3. mutex' \in [Worker -> {"free", "main", "worker"}] BY <1>1, <2>2 DEF TypeOK
  <2> QED BY <1>1, <2>1, <2>2, <2>3 DEF TypeOK
<1>8. CASE WaitSleeps
  <2>1. main' \in Struct BY <1>1, <1>8, MainMoves
  <2>2. mutex' = [mutex EXCEPT ![main.n] = "free"]
        /\ waiting' = [waiting EXCEPT ![main.n] = @ \cup {"main"}]
        /\ UNCHANGED <<max_threads, func, arg, cancelled, pc, todo, fault>>
    BY <1>8 DEF WaitSleeps, Sleep, Leave
  <2>3. mutex' \in [Worker -> {"free", "main", "worker"}] BY <1>1, <2>2 DEF TypeOK
  <2>4. waiting' \in [Worker -> SUBSET {"main", "worker"}] BY <1>1, <2>2 DEF TypeOK
  <2> QED BY <1>1, <2>1, <2>2, <2>3, <2>4 DEF TypeOK
<1>9. CASE WaitUnlocks
  <2>1. main' \in Struct BY <1>1, <1>9, MainMoves
  <2> QED BY <1>1, <1>9, <2>1 DEF WaitUnlocks, Leave, TypeOK
<1>10. CASE KillCancels
  <2>1. main.n \in 1..N BY <1>10 DEF KillCancels
  <2>2. main' \in Struct BY <1>1, <1>10, <2>1, MainMoves
  <2> QED BY <1>1, <1>10, <2>2 DEF KillCancels, TypeOK
<1>11. CASE KillJoins
  <2>1. main.n \in 1..N BY <1>11 DEF KillJoins
  <2>2. main' \in Struct BY <1>1, <1>11, <2>1, MainMoves
  <2> QED BY <1>1, <1>11, <2>2 DEF KillJoins, shared, TypeOK
<1>12. CASE KillReturns
  <2>1. main' \in Struct BY <1>1, <1>12, MainMoves
  <2> QED BY <1>1, <1>12, <2>1 DEF KillReturns, TypeOK
<1> QED BY <1>3, <1>4, <1>5, <1>6, <1>7, <1>8, <1>9, <1>10, <1>11, <1>12 DEF MainStep

\* The signal of sna_threads_run finds the thread alone.
LEMMA RunSignals == ASSUME IInv, Run PROVE main.n \in Worker /\ waiting'[main.n] = {}
<1>1. main.n \in Worker BY MainFields DEF IInv, Run
<1>2. "main" \notin waiting[main.n] BY <1>1 DEF IInv, WaitInv, Run, At
<1> QED BY <1>1, <1>2, SignalWakes DEF IInv, Run

\* A call begins with every thread parked, so that a fault before it is history.
LEMMA CallInv == ASSUME IInv, NEW k \in 0..N, Call(k) PROVE IInv'
<1> DEFINE here == IF k = 0 THEN "alone" ELSE "run"
<1>1. TypeOK /\ MainInv BY DEF IInv
<1>2. /\ main.pc = "idle" /\ (k > 0 => max_threads > 0)
      /\ main' = [pc |-> here, n |-> 1, used |-> k] /\ todo' = 0..k /\ fault' = FALSE
      /\ UNCHANGED <<max_threads, func, arg, mutex, waiting, cancelled, pc>>
  BY DEF Call, At, shared
<1>3. main'.pc = here /\ main'.n = 1 /\ main'.used = k BY <1>2
<1>4. main' \in [pc : Pcs, n : 1..(N + 1), used : 0..N] BY <1>2 DEF Pcs
<1>5. TypeOK'
  <2>1. todo' \subseteq 0..N
    <3>1. todo' = 0..k BY <1>2
    <3> QED BY <3>1
  <2>2. fault' \in BOOLEAN BY <1>2
  <2> QED BY <1>1, <1>2, <1>4, <2>1, <2>2 DEF TypeOK, Pcs
<1>6. MainInv' BY <1>1, <1>2, <1>3 DEF TypeOK, MainInv, Threaded, Waiting
<1>7. ASSUME NEW m \in Worker PROVE WaitInv(m)' /\ GoneInv(m)'
  BY <1>2, <1>3 DEF IInv, WaitInv, GoneInv
<1>8. ASSUME NEW m \in Worker, Alive' PROVE AliveInv(m)'
  <2>1. AliveInv(m) BY <1>2, <1>8 DEF IInv, Alive
  <2>2. func[m] = "NULL" /\ arg[m] = "NULL" /\ pc[m] \in Parked
    BY <1>2, <2>1 DEF AliveInv, Unused, Phase
  <2> QED BY <1>2, <1>3, <2>1, <2>2 DEF AliveInv, Unused, Phase, Pending, Parked, Faulted, Waiting
<1> QED BY <1>5, <1>6, <1>7, <1>8 DEF IInv

\* sna_threads_run gives a band to a thread that has none.
LEMMA RunInv == ASSUME IInv, Run PROVE IInv'
<1>1. TypeOK /\ MainInv BY DEF IInv
<1>2. TypeOK' /\ pc' = pc BY MainTypes DEF MainStep
<1>3. main.n \in Worker /\ waiting'[main.n] = {} BY RunSignals
<1>4. main'.pc = "run" /\ main'.n = main.n + 1 /\ main'.used = main.used
  BY <1>1, MainMoves DEF MovesTo
<1>5. /\ main.pc = "run" /\ main.n <= main.used
      /\ func' = [func EXCEPT ![main.n] = "draw"] /\ arg' = [arg EXCEPT ![main.n] = "band"]
      /\ UNCHANGED <<max_threads, mutex, cancelled, todo, fault>>
  BY DEF Run, At
<1>6. MainInv' BY <1>1, <1>2, <1>4, <1>5 DEF MainInv, Threaded, Waiting
<1>7. ASSUME NEW m \in Worker PROVE WaitInv(m)' /\ GoneInv(m)'
  <2>1. WaitInv(m) /\ GoneInv(m) BY DEF IInv
  <2>2. GoneInv(m)' BY <1>1, <1>4, <1>5 DEF GoneInv, MainInv, Threaded
  <2>3. CASE m = main.n BY <1>3, <2>2, <2>3 DEF WaitInv
  <2>4. CASE m # main.n
    <3>1. waiting'[m] = waiting[m] BY <1>1, <1>3, <2>4, SignalWakes DEF Run
    <3>2. func'[m] = func[m] BY <1>1, <1>5, <2>4 DEF TypeOK
    <3> QED BY <1>2, <1>5, <2>1, <2>2, <3>1, <3>2 DEF WaitInv
  <2> QED BY <2>3, <2>4
<1>8. ASSUME NEW m \in Worker, Alive' PROVE AliveInv(m)'
  <2>1. AliveInv(m) BY <1>5, <1>8 DEF IInv, Alive
  <2>2. CASE m = main.n
    <3>1. pc[m] \in Parked /\ ~cancelled[m] BY <1>5, <2>1, <2>2 DEF AliveInv, Unused, Phase
    <3>2. func'[m] = "draw" /\ arg'[m] = "band" BY <1>1, <1>5, <2>2 DEF TypeOK
    <3> QED BY <1>2, <1>4, <1>5, <2>2, <3>1, <3>2
        DEF AliveInv, Unused, Phase, Pending, Parked, Faulted, Waiting
  <2>3. CASE m # main.n
    <3>1. func'[m] = func[m] /\ arg'[m] = arg[m] BY <1>1, <1>5, <2>3 DEF TypeOK
    <3>2. m >= main.n + 1 <=> m >= main.n BY <1>3, <2>3
    <3> QED BY <1>2, <1>4, <1>5, <2>1, <3>1, <3>2
        DEF AliveInv, Unused, Phase, Pending, Faulted, Waiting
  <2> QED BY <2>2, <2>3
<1> QED BY <1>2, <1>6, <1>7, <1>8 DEF IInv

\* The X server draws its own band after it has given away the others.
LEMMA OwnInv == ASSUME IInv, Own \/ OwnFaults \/ Returned PROVE IInv'
<1>1. TypeOK /\ MainInv BY DEF IInv
<1>2. TypeOK' /\ pc' = pc BY MainTypes DEF MainStep
<1>3. /\ main'.used = main.used
      /\ UNCHANGED <<max_threads, func, arg, mutex, waiting, cancelled>>
  <2>1. CASE Own BY <1>1, <2>1, MainMoves DEF MovesTo, Own, shared
  <2>2. CASE OwnFaults BY <1>1, <2>2, MainMoves DEF MovesTo, OwnFaults, shared
  <2>3. CASE Returned BY <1>1, <2>3, MainMoves DEF MovesTo, Returned, shared
  <2> QED BY <2>1, <2>2, <2>3
<1>4. \/ /\ main.pc = "alone" /\ main'.pc = "put"
         /\ (todo' = todo \ {0} /\ fault' = fault) \/ (todo' = todo /\ fault')
      \/ /\ main.pc = "run" /\ main.n > main.used
         /\ main'.pc = "wait" /\ main'.n = 1 /\ todo' = todo \ {0} /\ fault' = fault
      \/ main.pc = "run" /\ main'.pc = "cancel" /\ main'.n = 1 /\ todo' = todo /\ fault'
      \/ main.pc = "put" /\ main'.pc = "idle" /\ todo' = todo /\ fault' = fault
  <2>1. CASE Own BY <1>1, <2>1, MainMoves DEF MovesTo, Own, Turn, At
  <2>2. CASE OwnFaults BY <1>1, <2>2, MainMoves DEF MovesTo, OwnFaults, Turn, At
  <2>3. CASE Returned BY <1>1, <2>3, MainMoves DEF MovesTo, Returned, At
  <2> QED BY <2>1, <2>2, <2>3
<1>5. MainInv'
  <2>1. main.pc = "alone" => todo \ {0} = {} BY <1>1, MainFields DEF MainInv
  <2>2. 0 \notin todo \ {0} /\ todo' \subseteq todo BY <1>4
  <2>3. todo' \subseteq 0..main'.used BY <1>1, <1>3, <2>2 DEF MainInv
  <2> USE <1>1, <1>2, <1>3, <1>4, <2>3 DEF MainInv, Threaded, Waiting
  <2>4. CASE main.pc = "alone"
    <3>1. (todo' = {} \/ fault') /\ main'.pc = "put" BY <1>4, <2>1, <2>4
    <3> QED BY <2>4, <3>1
  <2>5. CASE main.pc = "run" BY <2>2, <2>5
  <2>6. CASE main.pc = "put" BY <2>6
  <2> QED BY <2>4, <2>5, <2>6
<1>6. ASSUME NEW m \in Worker PROVE WaitInv(m)' /\ GoneInv(m)'
  BY <1>2, <1>3, <1>4 DEF IInv, WaitInv, GoneInv
<1>7. ASSUME NEW m \in Worker, Alive' PROVE AliveInv(m)'
  <2>1. AliveInv(m) BY <1>3, <1>4, <1>7 DEF IInv, Alive
  <2>2. main.n \in 1..(N + 1) /\ main.used \in 0..N BY <1>1, MainFields
  <2>3. m \in todo' => m \in todo /\ m <= main.used BY <1>1, <1>4, <2>2 DEF MainInv
  <2> QED BY <1>2, <1>3, <1>4, <2>1, <2>2, <2>3
      DEF AliveInv, Unused, Phase, Pending, Parked, Faulted, Waiting
<1> QED BY <1>2, <1>5, <1>6, <1>7 DEF IInv

\* sna_threads_wait, up to where it knows that func is NULL: it only sleeps while
\* func is not.
LEMMA WaitsInv ==
  ASSUME IInv, WaitPeeks \/ WaitLocks \/ WaitSleeps \/ WaitWakes \/ WaitUnlocks
  PROVE  IInv'
<1>1. TypeOK /\ MainInv BY DEF IInv
<1>2. TypeOK' /\ pc' = pc BY MainTypes DEF MainStep
<1>3. main.n \in Worker BY <1>1, MainFields
      DEF MainInv, WaitPeeks, WaitLocks, WaitSleeps, WaitWakes, WaitUnlocks, At
<1>4. /\ main.pc \in Waiting \ {"arg"} /\ main'.pc \in Waiting
      /\ main'.n = main.n /\ main'.used = main.used
      /\ UNCHANGED <<max_threads, func, arg, cancelled, todo, fault>>
  BY <1>1, MainMoves DEF MovesTo, WaitPeeks, WaitLocks, WaitSleeps, WaitWakes, WaitUnlocks, At,
                         shared, Waiting
<1>5. main'.pc = "arg" => func[main.n] = "NULL"
  BY <1>1, MainMoves DEF MovesTo, WaitPeeks, WaitLocks, WaitSleeps, WaitWakes, WaitUnlocks, At
<1>6. /\ \/ waiting' = waiting
         \/ /\ waiting' = [waiting EXCEPT ![main.n] = @ \cup {"main"}]
            /\ main'.pc = "sleep" /\ func[main.n] # "NULL"
      /\ main.pc = "sleep" => "main" \notin waiting[main.n]
  <2>1. CASE WaitSleeps BY <1>1, <2>1, MainMoves DEF MovesTo, WaitSleeps, Sleep, At
  <2>2. CASE WaitPeeks \/ WaitLocks \/ WaitWakes \/ WaitUnlocks
    BY <2>2 DEF WaitPeeks, WaitLocks, WaitWakes, WaitUnlocks, At, shared
  <2> QED BY <2>1, <2>2
<1>7. MainInv' BY <1>1, <1>2, <1>3, <1>4 DEF MainInv, Threaded, Waiting
<1>8. ASSUME NEW m \in Worker PROVE WaitInv(m)' /\ GoneInv(m)'
  <2>1. WaitInv(m) /\ GoneInv(m) BY DEF IInv
  <2>2. \/ waiting'[m] = waiting[m]
        \/ /\ waiting'[m] = waiting[m] \cup {"main"}
           /\ m = main.n /\ main'.pc = "sleep" /\ func[m] # "NULL"
    BY <1>1, <1>6 DEF TypeOK
  <2> QED BY <1>2, <1>4, <1>6, <2>1, <2>2 DEF WaitInv, GoneInv, Waiting
<1>9. ASSUME NEW m \in Worker, Alive' PROVE AliveInv(m)'
  <2>1. AliveInv(m) BY <1>4, <1>9 DEF IInv, Alive, Waiting
  <2> QED BY <1>2, <1>4, <1>5, <2>1 DEF AliveInv, Unused, Phase, Pending, Waiting
<1> QED BY <1>2, <1>7, <1>8, <1>9 DEF IInv

\* Once func is NULL, arg tells a thread that finished from one that died.
LEMMA ChecksInv == ASSUME IInv, WaitChecks \/ WaitReturns PROVE IInv'
<1>1. TypeOK /\ MainInv BY DEF IInv
<1>2. TypeOK' /\ pc' = pc BY MainTypes DEF MainStep
<1>3. main.n \in 1..(N + 1) /\ main.pc \in {"arg", "wait"} /\ main'.used = main.used
      /\ UNCHANGED <<max_threads, func, arg, waiting, cancelled, todo, fault>>
  BY <1>1, MainFields, MainMoves DEF MovesTo, WaitChecks, WaitReturns, At, shared
<1>4. \/ main.pc = "arg" /\ arg[main.n] = "NULL" /\ main'.pc = "wait" /\ main'.n = main.n + 1
      \/ main.pc = "arg" /\ arg[main.n] # "NULL" /\ main'.pc = "cancel" /\ main'.n = 1
      \/ main.pc = "wait" /\ main.n = N + 1 /\ main'.pc = "idle" /\ main'.n = 1
  BY <1>1, <1>3, MainMoves DEF MovesTo, WaitChecks, WaitReturns, At
<1>5. Alive BY <1>1, <1>3 DEF Alive, MainInv, Threaded, Waiting
<1>6. main'.pc = "cancel" => fault
  <2>1. CASE main'.pc = "cancel"
    <3>1. main.n \in Worker /\ main.pc = "arg" BY <1>1, <1>3, <1>4, <2>1 DEF MainInv
    <3> QED BY <1>4, <1>5, <2>1, <3>1 DEF IInv, AliveInv, Phase, Faulted
  <2> QED BY <2>1
<1>7. MainInv' BY <1>1, <1>2, <1>3, <1>4, <1>6 DEF MainInv, Threaded, Waiting
<1>8. ASSUME NEW m \in Worker PROVE WaitInv(m)' /\ GoneInv(m)'
  BY <1>2, <1>3, <1>4 DEF IInv, WaitInv, GoneInv
<1>9. ASSUME NEW m \in Worker, Alive' PROVE AliveInv(m)'
  <2>1. AliveInv(m) BY <1>5 DEF IInv
  <2>2. main'.pc # "cancel" BY <1>9 DEF Alive
  <2> QED BY <1>2, <1>3, <1>4, <2>1, <2>2 DEF AliveInv, Unused, Phase, Pending, Waiting
<1> QED BY <1>2, <1>7, <1>8, <1>9 DEF IInv

\* sna_threads_kill leaves only threads that are dead.
LEMMA KillInv == ASSUME IInv, KillCancels \/ KillJoins \/ KillReturns PROVE IInv'
<1>1. TypeOK /\ MainInv BY DEF IInv
<1>2. TypeOK' /\ pc' = pc BY MainTypes DEF MainStep
<1>3. /\ main.n \in 1..(N + 1) /\ main.pc \in {"cancel", "join"} /\ main'.used = main.used
      /\ UNCHANGED <<func, arg, waiting, todo, fault>>
  BY <1>1, MainFields, MainMoves DEF MovesTo, KillCancels, KillJoins, KillReturns, At, shared
<1>4. \/ /\ main.pc = "cancel" /\ max_threads' = max_threads
         /\ (main'.pc = "join" /\ main'.n = 1) \/ (main'.pc = "cancel" /\ main'.n \in 1..N)
      \/ /\ main.pc = "join" /\ pc[main.n] = "dead" /\ max_threads' = max_threads
         /\ main.n <= N /\ main'.pc = "join" /\ main'.n = main.n + 1
      \/ main.pc = "join" /\ main.n = N + 1 /\ main'.pc = "idle" /\ max_threads' = 0
  <2>1. CASE KillCancels BY <1>1, <1>3, <2>1, MainMoves DEF MovesTo, KillCancels, At
  <2>2. CASE KillJoins BY <1>1, <1>3, <2>2, MainMoves DEF MovesTo, KillJoins, At, shared
  <2>3. CASE KillReturns BY <1>1, <1>3, <2>3, MainMoves DEF MovesTo, KillReturns, At
  <2> QED BY <2>1, <2>2, <2>3
<1>5. MainInv' BY <1>1, <1>2, <1>3, <1>4 DEF MainInv, Threaded, Waiting
<1>6. ASSUME NEW m \in Worker PROVE WaitInv(m)' /\ GoneInv(m)'
  BY <1>2, <1>3, <1>4 DEF IInv, WaitInv, GoneInv
<1>7. ~Alive' BY <1>4 DEF Alive
<1> QED BY <1>2, <1>5, <1>6, <1>7 DEF IInv

-----------------------------------------------------------------------------
(* The theorems.                                                             *)

\* IInv is inductive.
THEOREM Invariance == Spec => []IInv
<1>1. Init => IInv BY InitInv
<1>2. IInv /\ [Next]_vars => IInv'
  <2> SUFFICES ASSUME IInv, [Next]_vars PROVE IInv' OBVIOUS
  <2>1. CASE UNCHANGED vars
    BY <2>1 DEF vars, IInv, TypeOK, MainInv, WaitInv, GoneInv, Alive, AliveInv, Phase, Unused,
                Pending
  <2>2. CASE Next
    BY <2>2, WorkerInv, CallInv, RunInv, OwnInv, WaitsInv, ChecksInv, KillInv DEF Next, MainStep
  <2> QED BY <2>1, <2>2
<1> QED BY <1>1, <1>2, PTL DEF Spec

\* TypeOK, for any number of threads.
THEOREM TypeCorrect == Spec => []TypeOK
<1>1. IInv => TypeOK BY DEF IInv
<1> QED BY <1>1, Invariance, PTL

\* SignalEnough, for any number of threads: the X server and a thread never
\* sleep on the same condition variable, so that a signal cannot miss its mark.
THEOREM SignalsReach == Spec => []SignalEnough
<1>1. IInv => SignalEnough BY DEF IInv, WaitInv, TypeOK, SignalEnough
<1> QED BY <1>1, Invariance, PTL

\* PoolReady: no thread still has a band, or died unseen, when a call has returned.
THEOREM PoolIsReady == Spec => []PoolReady
<1>1. IInv => PoolReady
  BY DEF IInv, Alive, AliveInv, Phase, Unused, Parked, PoolReady, At
<1> QED BY <1>1, Invariance, PTL

-----------------------------------------------------------------------------
(* The refinement.                                                           *)

\* What a thread does is drawing, a fault, or nothing to the operation; and it
\* draws or faults only while the X server is in the call.
LEMMA WorkerMaps ==
  ASSUME IInv, NEW n \in Worker, WorkerStep(n) \/ WorkerFaults(n) \/ Spurious(n)
  PROVE  [Parallel!Next]_Parallel!vars
<1>1. main' = main /\ max_threads' = max_threads BY WorkerLocal DEF IInv
<1>2. pc[n] = "draw" => main.pc # "idle"
  <2>1. ASSUME main.pc = "idle", max_threads > 0 PROVE pc[n] \in Parked
    BY <2>1 DEF IInv, Alive, AliveInv, Unused, Phase
  <2>2. ASSUME max_threads = 0 PROVE pc[n] # "draw" BY <2>2 DEF IInv, GoneInv, Parked
  <2>3. max_threads = 0 \/ max_threads > 0 BY DEF IInv, TypeOK
  <2> QED BY <2>1, <2>2, <2>3 DEF Parked
<1>3. CASE WorkerDraws(n)
  <2>1. pc[n] = "draw" /\ todo' = todo \ {n} /\ fault' = fault BY <1>3 DEF WorkerDraws, Go
  <2>2. CASE n \in todo
    <3>1. Parallel!Draw(n) BY <1>1, <1>2, <2>1, <2>2 DEF Parallel!Draw, At
    <3>2. n \in 0..(N + 1 - 1) OBVIOUS
    <3> QED BY <3>1, <3>2 DEF Parallel!Next
  <2>3. CASE n \notin todo
    <3>1. todo' = todo BY <2>1, <2>3
    <3> QED BY <1>1, <2>1, <3>1 DEF Parallel!vars, At
  <2> QED BY <2>2, <2>3
<1>4. CASE WorkerFaults(n)
  <2>1. Parallel!Fault BY <1>1, <1>2, <1>4 DEF WorkerFaults, Go, Parallel!Fault, At
  <2> QED BY <2>1 DEF Parallel!Next
<1>5. CASE UNCHANGED <<main, max_threads, todo, fault>> BY <1>5 DEF Parallel!vars, At
<1> QED BY <1>3, <1>4, <1>5
    DEF WorkerStep, WorkerLocks, WorkerSleeps, WorkerWakes, WorkerCancelled, WorkerTakes,
        WorkerFinishes, WorkerTraps, Spurious

\* A call with k threads is one with k + 1 bands.
LEMMA CallMaps == ASSUME IInv, NEW k \in 0..N, Call(k) PROVE Parallel!Next
<1>1. main.pc = "idle" /\ (k > 0 => max_threads > 0) /\ todo' = 0..k /\ fault' = FALSE
      /\ max_threads' = max_threads
      /\ main' = [pc |-> IF k = 0 THEN "alone" ELSE "run", n |-> 1, used |-> k]
  BY DEF Call, At, shared
<1>2. main'.pc # "idle" /\ main'.used = k BY <1>1
<1>3. k + 1 \in 1..(N + 1) /\ 0..(k + 1 - 1) = 0..k /\ (k + 1 > 1 => k > 0) OBVIOUS
<1>4. Parallel!Call(k + 1) BY <1>1, <1>2, <1>3 DEF Parallel!Call, At
<1> QED BY <1>3, <1>4 DEF Parallel!Next

\* The X server draws its band, or faults.
LEMMA OwnMaps == ASSUME IInv, Own \/ OwnFaults PROVE [Parallel!Next]_Parallel!vars
<1>1. TypeOK BY DEF IInv
<1>2. main.pc # "idle" /\ main'.pc # "idle" /\ main'.used = main.used /\ max_threads' = max_threads
  <2>1. CASE Own BY <1>1, <2>1, MainMoves DEF MovesTo, Own, Turn, At, shared
  <2>2. CASE OwnFaults BY <1>1, <2>2, MainMoves DEF MovesTo, OwnFaults, Turn, At, shared
  <2> QED BY <2>1, <2>2
<1>3. CASE OwnFaults
  <2>1. Parallel!Fault BY <1>2, <1>3 DEF OwnFaults, Parallel!Fault, At
  <2> QED BY <2>1 DEF Parallel!Next
<1>4. CASE Own /\ 0 \in todo
  <2>1. Parallel!Draw(0) BY <1>2, <1>4 DEF Own, Parallel!Draw, At
  <2>2. 0 \in 0..(N + 1 - 1) OBVIOUS
  <2> QED BY <2>1, <2>2 DEF Parallel!Next
<1>5. CASE Own /\ 0 \notin todo
  <2>1. todo' = todo /\ fault' = fault BY <1>5 DEF Own
  <2> QED BY <1>2, <2>1 DEF Parallel!vars, At
<1> QED BY <1>3, <1>4, <1>5

\* When the call returns, the bands are drawn, or the pool is given up after a
\* fault.  A fault of a thread shows in arg, so that WaitReturns does not miss it.
LEMMA ReturnMaps == ASSUME IInv, Returned \/ WaitReturns \/ KillReturns PROVE Parallel!Next
<1>1. TypeOK /\ MainInv BY DEF IInv
<1>2. main.pc # "idle" /\ main'.pc = "idle" /\ main'.used = main.used
      /\ todo' = todo /\ fault' = fault
  <2>1. CASE Returned BY <1>1, <2>1, MainMoves DEF MovesTo, Returned, At
  <2>2. CASE WaitReturns BY <1>1, <2>2, MainMoves DEF MovesTo, WaitReturns, At
  <2>3. CASE KillReturns BY <1>1, <2>3, MainMoves DEF MovesTo, KillReturns, At
  <2> QED BY <2>1, <2>2, <2>3
<1>3. (todo = {} \/ fault) /\ (max_threads' > 0 <=> max_threads > 0 /\ (fault => main.used + 1 = 1))
  <2>1. CASE Returned BY <1>1, <2>1 DEF MainInv, Returned, At, shared
  <2>2. CASE WaitReturns
    <3>1. main.pc = "wait" /\ main.n > N /\ max_threads' = max_threads
      BY <2>2 DEF WaitReturns, At, shared
    <3>2. ASSUME NEW n \in Worker PROVE func[n] = "NULL" /\ pc[n] \in Parked /\ AliveInv(n)
      <4>1. Alive BY <1>1, <3>1 DEF MainInv, Threaded, Waiting, Alive
      <4>2. AliveInv(n) BY <4>1 DEF IInv
      <4>3. n < main.n BY <1>1, <3>1, MainFields
      <4>4. func[n] = "NULL" /\ arg[n] = "NULL"
        BY <3>1, <4>2, <4>3 DEF AliveInv, Unused, Waiting
      <4> QED BY <4>2, <4>4 DEF AliveInv, Phase
    <3>3. ~fault BY <1>1, <3>1, <3>2 DEF MainInv, Waiting, Parked, Faulted
    <3>4. todo = {}
      <4>1. \A n \in Worker : n \notin todo
        BY <3>1, <3>2 DEF AliveInv, Pending, Waiting, Parked, Faulted
      <4>2. 0 \notin todo /\ todo \subseteq 0..N BY <1>1, <3>1 DEF TypeOK, MainInv, Waiting
      <4> QED BY <4>1, <4>2
    <3> QED BY <3>1, <3>3, <3>4
  <2>3. CASE KillReturns
    <3>1. main.pc = "join" /\ max_threads' = 0 BY <2>3 DEF KillReturns, At
    <3>2. fault /\ main.used >= 1 BY <1>1, <3>1 DEF MainInv, Threaded
    <3> QED BY <1>1, <3>1, <3>2, MainFields
  <2> QED BY <2>1, <2>2, <2>3
<1>4. Parallel!Return BY <1>2, <1>3 DEF Parallel!Return, At
<1> QED BY <1>4 DEF Parallel!Next

\* Its other steps are nothing to the operation.
LEMMA OtherMaps ==
  ASSUME IInv,
         \/ Run \/ WaitPeeks \/ WaitLocks \/ WaitSleeps \/ WaitWakes \/ WaitUnlocks
         \/ WaitChecks \/ KillCancels \/ KillJoins
  PROVE  UNCHANGED Parallel!vars
<1>1. TypeOK BY DEF IInv
<1>2. main.pc # "idle" /\ main'.pc # "idle" /\ main'.used = main.used
      /\ UNCHANGED <<max_threads, todo, fault>>
  <2>1. CASE Run BY <1>1, <2>1, MainMoves DEF MovesTo, Run, At
  <2>2. CASE WaitPeeks BY <1>1, <2>2, MainMoves DEF MovesTo, WaitPeeks, At, shared
  <2>3. CASE WaitLocks \/ WaitSleeps \/ WaitWakes \/ WaitUnlocks
    BY <1>1, <2>3, MainMoves DEF MovesTo, WaitLocks, WaitSleeps, WaitWakes, WaitUnlocks, At
  <2>4. CASE WaitChecks BY <1>1, <2>4, MainMoves DEF MovesTo, WaitChecks, At, shared
  <2>5. CASE KillCancels BY <1>1, <2>5, MainMoves DEF MovesTo, KillCancels, At
  <2>6. CASE KillJoins BY <1>1, <2>6, MainMoves DEF MovesTo, KillJoins, At, shared
  <2> QED BY <2>1, <2>2, <2>3, <2>4, <2>5, <2>6
<1> QED BY <1>2 DEF Parallel!vars, At

\* Implements, for any number of threads: a call returns when its bands are
\* drawn, or after a fault; nothing is drawn later; and a pool in which somebody
\* faulted is not used again.
THEOREM PoolImplements == Spec => Implements
<1>1. Init => Parallel!Init
  <2> SUFFICES ASSUME Init PROVE Parallel!Init OBVIOUS
  <2>1. main.pc = "idle" /\ main.used = 0 BY DEF Init
  <2> QED BY <2>1 DEF Init, Parallel!Init, At
<1>2. IInv /\ [Next]_vars => [Parallel!Next]_Parallel!vars
  <2> SUFFICES ASSUME IInv, [Next]_vars PROVE [Parallel!Next]_Parallel!vars OBVIOUS
  <2>1. CASE UNCHANGED vars BY <2>1 DEF vars, Parallel!vars, At
  <2>2. CASE Next
    BY <2>2, WorkerMaps, CallMaps, OwnMaps, ReturnMaps, OtherMaps DEF Next, MainStep
  <2> QED BY <2>1, <2>2
<1> QED BY <1>1, <1>2, Invariance, PTL DEF Spec, Implements, Parallel!Spec
=============================================================================
