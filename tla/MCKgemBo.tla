------------------------------ MODULE MCKgemBo ------------------------------
(* Instances of KgemBo for TLC.  The bo that are neither large nor oversize  *)
(* are interchangeable.                                                      *)
EXTENDS KgemBo, TLC

Symmetry == Permutations(Bo \ (Large \cup Oversize))
=============================================================================
