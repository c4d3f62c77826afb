----------------------------- MODULE MCSnaBands -----------------------------
(* Instances of SnaBands: every height up to MaxHeight, so that every number *)
(* of rows per band and every remainder occurs.                              *)
EXTENDS SnaBands

CONSTANTS MaxCores, MaxBoxesCores, MaxHeight
MCCores == [s \in {"composite", "boxes"} |->
              IF s = "composite" THEN 0..MaxCores ELSE 0..MaxBoxesCores]
MCHeights == 1..MaxHeight
MCWidths == {16, 43, 100, 128}
=============================================================================
