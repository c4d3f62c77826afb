---------------------------- MODULE MCSnaThreads ----------------------------
(* Instances of SnaThreads.  The threads are numbered, and visited in that   *)
(* order, so there is no symmetry between them.                              *)
EXTENDS SnaThreads
=============================================================================
