---------------------------- MODULE SnaParallel -----------------------------
(***************************************************************************)
(* What the thread pool of sna_threads.c promises to the operations that   *)
(* use it: an operation is cut into bands; the bands are drawn, in any     *)
(* order, before the call returns and never after it; only a fault         *)
(* (SIGBUS) may leave some undrawn, and then the pool is not used again.   *)
(***************************************************************************)
EXTENDS Integers

CONSTANT Bands      \* the largest number of bands

VARIABLES
  busy,             \* the X server is inside of a call
  size,             \* bands of the present, or of the last, call
  todo,             \* bands not drawn
  fault,            \* somebody faulted in this call
  pool              \* there are threads

vars == <<busy, size, todo, fault, pool>>

Call(k) ==
  /\ ~busy /\ (k > 1 => pool)
  /\ busy' = TRUE /\ size' = k /\ todo' = 0..(k - 1) /\ fault' = FALSE
  /\ UNCHANGED pool

Draw(b) ==
  /\ busy /\ b \in todo
  /\ todo' = todo \ {b}
  /\ UNCHANGED <<busy, size, fault, pool>>

Fault ==
  /\ busy
  /\ fault' = TRUE
  /\ UNCHANGED <<busy, size, todo, pool>>

Return ==
  /\ busy /\ (todo = {} \/ fault)
  /\ busy' = FALSE
  /\ pool' = (pool /\ (fault => size = 1))
  /\ UNCHANGED <<size, todo, fault>>

Init == busy = FALSE /\ size = 1 /\ todo = {} /\ fault = FALSE /\ pool \in BOOLEAN

Next ==
  \/ \E k \in 1..Bands : Call(k)
  \/ \E b \in 0..(Bands - 1) : Draw(b)
  \/ Fault \/ Return

Spec == Init /\ [][Next]_vars
=============================================================================
