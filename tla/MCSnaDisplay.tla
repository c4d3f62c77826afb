---------------------------- MODULE MCSnaDisplay -----------------------------
(* What goes on in the runs of SnaDisplay. *)
EXTENDS SnaDisplay
CONSTANTS b1, b2, b3, b4, b5, b6, b7
FlipsWorlds ==
  {{"tearfree", "vblanks"}, {"tearfree", "vblanks", "refuse"}, {"tearfree", "vblanks", "nomem"},
   {"tearfree", "modes"}, {"present", "vblanks"}, {"present", "vblanks", "refuse"},
   {"present", "modes"}}
TogetherWorlds == {{"tearfree", "vblanks", "present"}}
=============================================================================
