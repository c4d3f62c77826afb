------------------------------ MODULE SnaLists ------------------------------
(***************************************************************************)
(* The lists that SNA and the kernel keep in the order of arrival, from    *)
(* the middle of which elements are taken out.                             *)
(***************************************************************************)
EXTENDS Integers, Sequences

\* What is left of q, in its order, without the elements of S.
Without(q, S) ==
  LET rest[n \in 0..Len(q)] ==
        CASE n = 0 -> <<>> [] n > 0 /\ q[n] \in S -> rest[n - 1]
          [] OTHER -> Append(rest[n - 1], q[n])
  IN rest[Len(q)]
=============================================================================
