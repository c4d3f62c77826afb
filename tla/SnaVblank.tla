----------------------------- MODULE SnaVblank ------------------------------
(***************************************************************************)
(* What sna_present.c promises the Present extension: each event that is   *)
(* given to the driver is told back once, not with an earlier frame than   *)
(* the one that was asked for, nor one that is still to come.              *)
(***************************************************************************)
EXTENDS Integers, Sequences

CONSTANT Event
VARIABLES asked,    \* the frame an event waits for, or None
          told      \* how present_event_notify named it: "early", "due", "ahead"
events == <<asked, told>>

None == -1

Init == asked = [e \in Event |-> None] /\ told = [e \in Event |-> <<>>]

Give(e) ==
  /\ asked[e] = None /\ told[e] = <<>>
  /\ asked'[e] \in Nat
  /\ asked' = [asked EXCEPT ![e] = asked'[e]]
  /\ UNCHANGED told

Answer(e) ==
  /\ asked[e] # None
  /\ asked' = [asked EXCEPT ![e] = None]
  /\ told' = [told EXCEPT ![e] = <<"due">>]

\* A frame that has passed.
AnswerAtOnce(e) ==
  /\ asked[e] = None /\ told[e] = <<>>
  /\ told' = [told EXCEPT ![e] = <<"due">>]
  /\ UNCHANGED asked

Next == \E e \in Event : Give(e) \/ Answer(e) \/ AnswerAtOnce(e)

Spec == Init /\ [][Next]_events
=============================================================================
