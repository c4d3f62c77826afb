----------------------------- MODULE SnaThreads -----------------------------
(***************************************************************************)
(* The thread pool of sna_threads.c, used by one operation after the       *)
(* other: the X server hands a band to each of some threads, draws the     *)
(* last band itself, and waits; a thread, or the X server, that faults     *)
(* (SIGBUS while it draws) takes the pool down.                            *)
(*                                                                         *)
(* An action is a step between two accesses to what the threads share:     *)
(* mutex, condition variable, func and arg of struct thread.  The stores   *)
(* and the unlocked loads of func and arg happen in program order.         *)
(***************************************************************************)
EXTENDS Integers, FiniteSets

CONSTANT N          \* threads besides the X server: max_threads - 1
ASSUME NAssumption == N \in Nat \ {0}

VARIABLES
  max_threads,      \* 0 once the pool is gone
  func, arg,        \* of each struct thread
  mutex,            \* who holds it
  waiting,          \* who sleeps on its condition variable
  cancelled,        \* pthread_cancel was called
  pc,               \* where the thread is in __run__ or sna_threads_trap
  main,             \* where the X server is: pc, its loop variable n, and the
                    \* threads it uses in this call
  todo, fault       \* history: the bands not drawn, 0 is the X server's own;
                    \* somebody faulted in this call

vars == <<max_threads, func, arg, mutex, waiting, cancelled, pc, main, todo, fault>>
shared == <<max_threads, func, arg, mutex, waiting, cancelled>>

Worker == 1..N

TypeOK ==
  /\ max_threads \in {0, N + 1}
  /\ func \in [Worker -> {"NULL", "draw"}]
  /\ arg \in [Worker -> {"NULL", "band", "sig"}]
  /\ mutex \in [Worker -> {"free", "main", "worker"}]
  /\ waiting \in [Worker -> SUBSET {"main", "worker"}]
  /\ cancelled \in [Worker -> BOOLEAN]
  /\ pc \in [Worker -> {"start", "check", "sleep", "draw", "drawn", "finish",
                        "finish2", "fault", "trap", "trap2", "dead"}]
  /\ main \in [pc : {"idle", "alone", "put", "run", "wait", "lock", "while", "sleep",
                     "arg", "cancel", "join"}, n : 1..(N + 1), used : 0..N]
  /\ todo \subseteq 0..N /\ fault \in BOOLEAN

Go(n, from, to) == pc[n] = from /\ pc' = [pc EXCEPT ![n] = to]
At(here) == main.pc = here
Goto(there) == main' = [main EXCEPT !.pc = there]

Take(n, who) == mutex[n] = "free" /\ mutex' = [mutex EXCEPT ![n] = who]
Leave(n) == mutex' = [mutex EXCEPT ![n] = "free"]
Sleep(n, who) == Leave(n) /\ waiting' = [waiting EXCEPT ![n] = @ \cup {who}]

\* pthread_cond_signal wakes one of those that wait.
Signal(n) ==
  IF waiting[n] = {} THEN UNCHANGED waiting
  ELSE \E who \in waiting[n] : waiting' = [waiting EXCEPT ![n] = @ \ {who}]

-----------------------------------------------------------------------------
(* A thread of the pool: __run__.                                            *)

WorkerLocks(n) ==
  /\ Take(n, "worker")
  /\ Go(n, "start", "check") \/ Go(n, "drawn", "finish") \/ Go(n, "fault", "trap")
  /\ UNCHANGED <<max_threads, func, arg, waiting, cancelled, main, todo, fault>>

\* pthread_cond_wait while func is NULL.
WorkerSleeps(n) ==
  /\ Go(n, "check", "sleep") /\ func[n] = "NULL" /\ ~cancelled[n]
  /\ Sleep(n, "worker")
  /\ UNCHANGED <<max_threads, func, arg, cancelled, main, todo, fault>>

WorkerWakes(n) ==
  /\ Go(n, "sleep", "check") /\ "worker" \notin waiting[n]
  /\ Take(n, "worker")
  /\ UNCHANGED <<max_threads, func, arg, waiting, cancelled, main, todo, fault>>

\* pthread_cond_wait is the only cancellation point: a thread that is about to
\* wait, or waits, dies with the mutex in its hands.
WorkerCancelled(n) ==
  /\ cancelled[n]
  /\ \/ Go(n, "check", "dead") /\ func[n] = "NULL" /\ UNCHANGED mutex
     \/ Go(n, "sleep", "dead") /\ Take(n, "worker")
  /\ waiting' = [waiting EXCEPT ![n] = @ \ {"worker"}]
  /\ UNCHANGED <<max_threads, func, arg, cancelled, main, todo, fault>>

WorkerTakes(n) ==
  /\ Go(n, "check", "draw") /\ func[n] # "NULL"
  /\ Leave(n)
  /\ UNCHANGED <<max_threads, func, arg, waiting, cancelled, main, todo, fault>>

\* t->func(t->arg), or SIGBUS while it draws.
WorkerDraws(n) ==
  /\ Go(n, "draw", "drawn")
  /\ todo' = todo \ {n}
  /\ UNCHANGED <<shared, main, fault>>

WorkerFaults(n) ==
  /\ Go(n, "draw", "fault")
  /\ fault' = TRUE
  /\ UNCHANGED <<shared, main, todo>>

\* Mutant: the X server is not told.
WorkerFinishesQuietly(n) ==
  /\ UNCHANGED waiting
  /\ \/ Go(n, "finish", "finish2") /\ arg' = [arg EXCEPT ![n] = "NULL"] /\ UNCHANGED func
     \/ Go(n, "finish2", "check") /\ func' = [func EXCEPT ![n] = "NULL"] /\ UNCHANGED arg
  /\ UNCHANGED <<max_threads, mutex, cancelled, main, todo, fault>>

\* t->arg = NULL, then t->func = NULL and the signal; the mutex is kept.
WorkerFinishes(n) ==
  /\ \/ /\ Go(n, "finish", "finish2")
        /\ arg' = [arg EXCEPT ![n] = "NULL"]
        /\ UNCHANGED <<func, waiting>>
     \/ /\ Go(n, "finish2", "check")
        /\ func' = [func EXCEPT ![n] = "NULL"]
        /\ Signal(n)
        /\ UNCHANGED arg
  /\ UNCHANGED <<max_threads, mutex, cancelled, main, todo, fault>>

\* sna_threads_trap in the thread that faulted: it leaves the signal in arg.
WorkerTraps(n) ==
  /\ \/ /\ Go(n, "trap", "trap2")
        /\ arg' = [arg EXCEPT ![n] = "sig"]
        /\ UNCHANGED <<func, waiting, mutex>>
     \/ /\ Go(n, "trap2", "dead")
        /\ func' = [func EXCEPT ![n] = "NULL"]
        /\ Signal(n) /\ Leave(n)
        /\ UNCHANGED arg
  /\ UNCHANGED <<max_threads, cancelled, main, todo, fault>>

WorkerStep(n) ==
  \/ WorkerLocks(n) \/ WorkerSleeps(n) \/ WorkerWakes(n) \/ WorkerCancelled(n)
  \/ WorkerTakes(n) \/ WorkerDraws(n) \/ WorkerFinishes(n) \/ WorkerTraps(n)

-----------------------------------------------------------------------------
(* The X server: sna_image_composite, which calls sna_threads_run and        *)
(* sna_threads_wait, or sna_threads_kill if it faults itself.                *)

\* sna_use_threads: k other threads, none if the pool is gone.
Call(k) ==
  /\ At("idle") /\ (k > 0 => max_threads > 0)
  /\ main' = [pc |-> IF k = 0 THEN "alone" ELSE "run", n |-> 1, used |-> k]
  /\ todo' = 0..k /\ fault' = FALSE
  /\ UNCHANGED <<shared, pc>>

\* Mutant: sna_threads_run does not wake the thread.
RunQuietly ==
  /\ At("run") /\ main.n <= main.used /\ mutex[main.n] = "free"
  /\ func' = [func EXCEPT ![main.n] = "draw"] /\ arg' = [arg EXCEPT ![main.n] = "band"]
  /\ main' = [main EXCEPT !.n = @ + 1]
  /\ UNCHANGED <<max_threads, mutex, waiting, cancelled, pc, todo, fault>>

\* sna_threads_run, from lock to unlock.
Run ==
  /\ At("run") /\ main.n <= main.used
  /\ mutex[main.n] = "free"
  /\ func' = [func EXCEPT ![main.n] = "draw"]
  /\ arg' = [arg EXCEPT ![main.n] = "band"]
  /\ Signal(main.n)
  /\ main' = [main EXCEPT !.n = @ + 1]
  /\ UNCHANGED <<max_threads, mutex, cancelled, pc, todo, fault>>

\* The X server comes to its own band: the last, or the only one.
Turn == At("alone") \/ (At("run") /\ main.n > main.used)

Own ==
  /\ Turn
  /\ main' = [main EXCEPT !.pc = IF @ = "alone" THEN "put" ELSE "wait", !.n = 1]
  /\ todo' = todo \ {0}
  /\ UNCHANGED <<shared, pc, fault>>

\* It faults: sigtrap_handler jumps back to sigtrap_get, and the pool is killed
\* if there are other threads in this call.
OwnFaults ==
  /\ Turn
  /\ main' = [main EXCEPT !.pc = IF @ = "alone" THEN "put" ELSE "cancel", !.n = 1]
  /\ fault' = TRUE
  /\ UNCHANGED <<shared, pc, todo>>

Returned ==
  /\ At("put") /\ Goto("idle")
  /\ UNCHANGED <<shared, pc, todo, fault>>

\* sna_threads_wait: func is looked at without the mutex at first.
WaitPeeks ==
  /\ At("wait") /\ main.n <= N
  /\ Goto(IF func[main.n] = "NULL" THEN "arg" ELSE "lock")
  /\ UNCHANGED <<shared, pc, todo, fault>>

WaitLocks ==
  /\ At("lock") /\ Goto("while")
  /\ Take(main.n, "main")
  /\ UNCHANGED <<max_threads, func, arg, waiting, cancelled, pc, todo, fault>>

WaitSleeps ==
  /\ At("while") /\ func[main.n] # "NULL" /\ Goto("sleep")
  /\ Sleep(main.n, "main")
  /\ UNCHANGED <<max_threads, func, arg, cancelled, pc, todo, fault>>

WaitWakes ==
  /\ At("sleep") /\ "main" \notin waiting[main.n] /\ Goto("while")
  /\ Take(main.n, "main")
  /\ UNCHANGED <<max_threads, func, arg, waiting, cancelled, pc, todo, fault>>

WaitUnlocks ==
  /\ At("while") /\ func[main.n] = "NULL" /\ Goto("arg")
  /\ Leave(main.n)
  /\ UNCHANGED <<max_threads, func, arg, waiting, cancelled, pc, todo, fault>>

\* Mutant: nobody looks whether the thread died.
WaitIgnoresArg ==
  /\ At("arg") /\ main' = [main EXCEPT !.pc = "wait", !.n = @ + 1]
  /\ UNCHANGED <<shared, pc, todo, fault>>

\* arg is looked at without the mutex: it is not NULL if the thread died.
WaitChecks ==
  /\ At("arg")
  /\ main' = IF arg[main.n] = "NULL" THEN [main EXCEPT !.pc = "wait", !.n = @ + 1]
                                     ELSE [main EXCEPT !.pc = "cancel", !.n = 1]
  /\ UNCHANGED <<shared, pc, todo, fault>>

WaitReturns ==
  /\ At("wait") /\ main.n > N
  /\ main' = [main EXCEPT !.pc = "idle", !.n = 1]
  /\ UNCHANGED <<shared, pc, todo, fault>>

\* sna_threads_kill: cancel all, join all.
KillCancels ==
  /\ At("cancel") /\ main.n <= N
  /\ cancelled' = [cancelled EXCEPT ![main.n] = TRUE]
  /\ main' = [main EXCEPT !.pc = IF main.n = N THEN "join" ELSE "cancel",
                          !.n = IF main.n = N THEN 1 ELSE main.n + 1]
  /\ UNCHANGED <<max_threads, func, arg, mutex, waiting, pc, todo, fault>>

\* Mutant: the threads are detached instead.
KillDetaches ==
  /\ At("join") /\ main' = [main EXCEPT !.n = @ + 1] /\ main.n <= N
  /\ UNCHANGED <<shared, pc, todo, fault>>

KillJoins ==
  /\ At("join") /\ main.n <= N /\ pc[main.n] = "dead"
  /\ main' = [main EXCEPT !.n = @ + 1]
  /\ UNCHANGED <<shared, pc, todo, fault>>

KillReturns ==
  /\ At("join") /\ main.n > N
  /\ main' = [main EXCEPT !.pc = "idle", !.n = 1]
  /\ max_threads' = 0
  /\ UNCHANGED <<func, arg, mutex, waiting, cancelled, pc, todo, fault>>

MainStep ==
  \/ Run \/ Own \/ Returned \/ WaitPeeks \/ WaitLocks \/ WaitSleeps \/ WaitWakes
  \/ WaitUnlocks \/ WaitChecks \/ WaitReturns
  \/ KillCancels \/ KillJoins \/ KillReturns

-----------------------------------------------------------------------------
\* pthread_cond_wait may return without a signal (external).
Spurious(n) ==
  /\ \E who \in waiting[n] : waiting' = [waiting EXCEPT ![n] = @ \ {who}]
  /\ UNCHANGED <<max_threads, func, arg, mutex, cancelled, pc, main, todo, fault>>

\* sna_threads_init; if thread number m + 1 cannot be created it bails out, and
\* those before it stay behind, unused.
Init ==
  /\ \/ max_threads = N + 1 /\ pc = [n \in Worker |-> "start"]
     \/ /\ max_threads = 0
        /\ \E m \in 0..(N - 1) : pc = [n \in Worker |-> IF n <= m THEN "start" ELSE "dead"]
  /\ func = [n \in Worker |-> "NULL"] /\ arg = [n \in Worker |-> "NULL"]
  /\ mutex = [n \in Worker |-> "free"] /\ waiting = [n \in Worker |-> {}]
  /\ cancelled = [n \in Worker |-> FALSE]
  /\ main = [pc |-> "idle", n |-> 1, used |-> 0]
  /\ todo = {} /\ fault = FALSE

Next ==
  \/ \E n \in Worker : WorkerStep(n) \/ WorkerFaults(n) \/ Spurious(n)
  \/ \E k \in 0..N : Call(k)
  \/ MainStep \/ OwnFaults

Spec == Init /\ [][Next]_vars

\* The scheduler and the mutexes starve no thread, and drawing takes finite time.
FairSpec == Spec /\ SF_vars(MainStep) /\ \A n \in Worker : SF_vars(WorkerStep(n))

-----------------------------------------------------------------------------
\* Between two calls every thread of the pool is there and has nothing to do:
\* assert(threads[id].func == NULL) in sna_threads_run, and the band on the
\* stack of the last call is not used any more.
PoolReady ==
  At("idle") /\ max_threads > 0 =>
    \A n \in Worker : /\ func[n] = "NULL" /\ arg[n] = "NULL"
                      /\ pc[n] \in {"start", "check", "sleep"}

\* The X server and the thread share one condition variable, and signal it
\* instead of broadcasting: they never wait for each other at the same time.
SignalEnough == \A n \in Worker : waiting[n] # {"main", "worker"}

\* A call returns, whoever faults meanwhile.
Returns == ~At("idle") ~> At("idle")

\* The pool keeps the promises of SnaParallel.
Parallel == INSTANCE SnaParallel WITH
  Bands <- N + 1, busy <- ~At("idle"), size <- main.used + 1, pool <- max_threads > 0
Implements == Parallel!Spec
=============================================================================
