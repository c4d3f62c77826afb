------------------------------ MODULE SnaBands ------------------------------
(***************************************************************************)
(* How a large operation is cut into horizontal bands, one for each thread *)
(* of the pool of sna_threads.c: the number of threads it is worth, the    *)
(* bands of the other threads, and the band the X server draws itself.     *)
(* sna_image_composite and the span converters of sna_trapezoids*.c round  *)
(* in one way ("composite"), composite_unaligned_boxes_inplace of          *)
(* sna_trapezoids_boxes.c in another ("boxes").  Rows count from the top   *)
(* of the destination.                                                     *)
(***************************************************************************)
EXTENDS Integers, FiniteSets

CONSTANTS
  Cores,        \* values of max_threads (num_cores), for each way of rounding
  Widths,       \* widths and
  Heights,      \* heights of the operation
  Threshold     \* rows worth a thread: 32 in sna_image_composite

ASSUME SizesAssumption ==
  /\ DOMAIN Cores \subseteq {"composite", "boxes"} /\ \A s \in DOMAIN Cores : Cores[s] \subseteq Nat
  /\ Widths \subseteq Nat \ {0} /\ Heights \subseteq Nat
  /\ Threshold \in Nat \ {0}

VARIABLES
  split,                        \* how the caller rounds: "composite" or "boxes"
  max_threads, width, height,   \* the operation
  num_threads, dy,              \* how it is cut
  n, y,                         \* the loop over the threads
  bands,                        \* <<first row, rows>> handed out so far
  done

vars == <<split, max_threads, width, height, num_threads, dy, n, y, bands, done>>
operation == <<split, max_threads, width, height>>

Smaller(a, b) == IF a < b THEN a ELSE b

sna_use_threads(max, w, h0) ==
  LET h == IF w < 128 THEN h0 \div (128 \div w) ELSE h0
      num == (h * max) \div Threshold - 1
  IN IF max <= 0 \/ h0 <= 1 \/ num <= 0 THEN 1 ELSE Smaller(Smaller(num, max), h)

CeilDiv(a, b) == (a + b - 1) \div b

\* The threads that get a band of rows of their own, of the num there are.
Used(num, rows, h) ==
  CASE split = "composite" -> IF (num - 1) * rows >= h THEN num - 1 ELSE num
    [] split = "boxes" -> CeilDiv(h, rows)

Init ==
  /\ split \in DOMAIN Cores /\ max_threads \in Cores[split] /\ width \in Widths /\ height \in Heights
  /\ LET num == sna_use_threads(max_threads, width, height)
     IN IF num <= 1
        THEN num_threads = 1 /\ dy = height
        ELSE dy = CeilDiv(height, num) /\ num_threads = Used(num, dy, height)
  /\ n = 1 /\ y = 0 /\ bands = {} /\ done = FALSE

\* Mutant: the last row of a band is the first of the next one.
DispatchOverlapping ==
  /\ ~done /\ n < num_threads
  /\ bands' = bands \cup {<<y, dy>>}
  /\ y' = y + dy - 1 /\ n' = n + 1
  /\ UNCHANGED <<operation, num_threads, dy, done>>

\* sna_threads_run(n, ...) of the next band.
Dispatch ==
  /\ ~done /\ n < num_threads
  /\ bands' = bands \cup {<<y, dy>>}
  /\ y' = y + dy /\ n' = n + 1
  /\ UNCHANGED <<operation, num_threads, dy, done>>

\* The band of the X server; its height is stored in a uint16_t.
Remainder == IF y + dy > height \/ split = "boxes" THEN height - y ELSE dy

Own ==
  /\ ~done /\ n >= num_threads
  /\ bands' = bands \cup {<<y, Remainder % 65536>>}
  /\ done' = TRUE
  /\ UNCHANGED <<operation, num_threads, dy, n, y>>

Next == Dispatch \/ Own
Spec == Init /\ [][Next]_vars

-----------------------------------------------------------------------------
Rows(band) == band[1]..(band[1] + band[2] - 1)

\* The threads draw every row of the operation, and no row outside of it.
BandsCover == done => UNION {Rows(b) : b \in bands} = 0..(height - 1)

\* No two threads draw the same row: they blend, so a row drawn twice is wrong,
\* and they write to memory without a lock.
BandsDisjoint == \A a, b \in bands : a # b => Rows(a) \cap Rows(b) = {}

\* The bands tile the operation.
BandsTile == BandsCover /\ BandsDisjoint

=============================================================================
