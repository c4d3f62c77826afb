------------------------------ MODULE SnaDri2 -------------------------------
(***************************************************************************)
(* The swap chains of DRI2, sna_dri2.c, on one CRTC: the events that a     *)
(* SwapBuffers or a WaitMSC leaves behind, the chain of them that each     *)
(* window keeps, the page flip that is outstanding (flip_pending), and     *)
(* what the kernel was asked for on their behalf.                          *)
(*                                                                         *)
(* The X server has one thread, and a swap first reads what the kernel has *)
(* to say (has_pending_events), so that each handler is one step, and an   *)
(* event is taken when the kernel sends it.  Frames are not counted: a     *)
(* swap differs only in when it is due (Modes).  Which buffer is shown is  *)
(* left out.  KEEPALIVE is 1, USE_ASYNC_SWAP and SNA_HAS_ASYNC_FLIP 0, and *)
(* the server can triple buffer.                                           *)
(***************************************************************************)
EXTENDS Integers, Sequences, FiniteSets, SequencesExt, FiniteSetsExt, SnaLists

CONSTANTS
  Windows, Clients, None,
  Draws,          \* who draws to what: a set of <<client, window>>
  Full,           \* the window that covers the screen, for can_flip
  Events,         \* bound: struct sna_dri2_event at a time
  Modes,          \* when swaps are due, of {"async", "late", "next", "future"}
  Worlds,         \* what else goes on, see below: one of these sets of it
  TripleBuffer    \* Option "TripleBuffer"
ASSUME BoundsAssumption ==
  /\ Events \in Nat /\ None \notin Windows \cup Clients /\ Draws \subseteq Clients \X Windows
  /\ Full \in Windows /\ TripleBuffer \in BOOLEAN
  /\ Modes \subseteq {"async", "late", "next", "future"}

(* What may go on besides the swaps of clients that wait their turn:         *)
(*   "off"        the CRTC is switched off and on                            *)
(*   "fail"       the kernel refuses a flip                                  *)
(*   "restack"    a window comes to cover the screen or no longer does       *)
(*   "hidden"     a window is off the CRTC when it is swapped                *)
(*   "wait"       clients also call WaitMSC                                  *)
(*   "gone"       a client disconnects                                       *)
(*   "destroy"    a window is destroyed                                      *)
(*   "decouple"   a window is redirected (or no longer), which calls         *)
(*                decouple_window                                            *)
(*   "present"    the Present extension flips the CRTC too                   *)
(*   "impatient"  a client swaps while a swap of its is still to be taken up *)
(*                by the flip that is outstanding                            *)
Anything == {"off", "fail", "restack", "hidden", "wait", "gone", "destroy", "decouple",
             "present", "impatient"}
ASSUME WorldsAssumption == Worlds \subseteq SUBSET Anything

VARIABLES
  on,             \* the CRTC
  top,            \* the window that covers the screen, or None: see can_flip
  flip,           \* the page flip with the kernel: an event, Present or 0
  vblanks,        \* the events that the kernel has a vblank request of
  event,          \* the allocated events
  chain,          \* priv->chain of each window, in order
  flip_pending,   \* sna->dri2.flip_pending, or 0
  swaps, limit,   \* the server: swapsPending and swap_limit of each window
  blocked,        \* the server: clients in WaitMSC, and for which window
  gone,           \* clients and windows that are gone
  world           \* of Worlds

driver == <<event, chain, flip_pending, flip, vblanks>>
server == <<swaps, limit, blocked>>
vars == <<on, top, driver, server, gone, world>>

Info == 1..Events
Present == Events + 1

Type == {"WAITMSC", "SWAP", "SWAP_COMPLETE", "FLIP", "FLIP_THROTTLE", "FLIP_COMPLETE"}
SnaDri2Event ==
  [draw : Windows \cup {None}, client : Clients \cup {None}, type : Type,
   queued : BOOLEAN, signal : BOOLEAN, sync : BOOLEAN, pending : BOOLEAN,
   flip_continue : {"none", "FLIP_THROTTLE", "FLIP_COMPLETE"},
   after : 0..Events]   \* info->chain of an event that was taken out of its chain

TypeOK ==
  /\ on \in BOOLEAN /\ top \in Windows \cup {None}
  /\ flip \in 0..Present /\ vblanks \subseteq Info
  /\ DOMAIN event \subseteq Info /\ \A i \in DOMAIN event : event[i] \in SnaDri2Event
  /\ chain \in [Windows -> Seq(DOMAIN event)]
  /\ flip_pending \in {0} \cup DOMAIN event
  /\ swaps \in [Windows -> Int] /\ limit \in [Windows -> 1..3]
  /\ blocked \subseteq Clients \X Windows /\ gone \subseteq Clients \cup Windows
  /\ world \in Worlds

\* The state of the driver and the counts of the server, that a handler passes on.
State == [event |-> event, chain |-> chain, flip_pending |-> flip_pending, flip |-> flip,
          vblanks |-> vblanks, swaps |-> swaps, limit |-> limit]
Become(s) ==
  /\ event' = s.event /\ chain' = s.chain /\ flip_pending' = s.flip_pending
  /\ flip' = s.flip /\ vblanks' = s.vblanks
  /\ swaps' = s.swaps /\ limit' = s.limit

Init ==
  /\ world \in Worlds
  /\ on = TRUE /\ top = Full
  /\ flip = 0 /\ vblanks = {}
  /\ event = <<>> /\ chain = [w \in Windows |-> <<>>] /\ flip_pending = 0
  /\ swaps = [w \in Windows |-> 0] /\ limit = [w \in Windows |-> 1]
  /\ blocked = {} /\ gone = {}

-----------------------------------------------------------------------------
(* Events and their chain.                                                   *)

Fresh(s) ==
  LET spare == Info \ DOMAIN s.event IN {i \in spare : \A j \in spare : i <= j}

\* sna_dri2_add_event: it comes last in the chain of the window.
Blank(w, c) ==
  [draw |-> w, client |-> c, type |-> "WAITMSC", queued |-> FALSE, signal |-> FALSE,
   sync |-> FALSE, pending |-> FALSE, flip_continue |-> "none", after |-> 0]
AddEvent(s, i, info) ==
  [s EXCEPT !.event = [j \in DOMAIN @ \cup {i} |-> IF j = i THEN info ELSE @[j]],
            !.chain[info.draw] = Append(@, i)]

\* sna_dri2_remove_event
Remove1(s, i) == [s EXCEPT !.chain = [w \in Windows |-> Without(@[w], {i})]]

Successor(s, i) ==
  LET At == {j \in Info : \E w \in Windows : \E k \in 2..Len(s.chain[w]) :
                s.chain[w][k - 1] = i /\ s.chain[w][k] = j}
  IN IF At = {} THEN s.event[i].after ELSE CHOOSE j \in At : TRUE

\* sna_dri2_event_free
Free(s, i) ==
  [Remove1(s, i) EXCEPT !.event = [j \in DOMAIN @ \ {i} |-> @[j]],
                        !.flip_pending = IF @ = i THEN 0 ELSE @]

\* frame_swap_complete, which tells no one when the client is gone.
Told(s, info) ==
  IF info.client = None THEN s ELSE [s EXCEPT !.swaps[info.draw] = @ - 1]
Complete(s, i) == Told([s EXCEPT !.event[i].signal = FALSE], s.event[i])
\* Mutants: the client is told each time, or not at all.
CompleteAgain(s, i) == Complete(s, i)
CompleteUntold(s, i) == [s EXCEPT !.event[i].signal = FALSE]
CompleteSignal(s, i) == IF s.event[i].signal THEN Complete(s, i) ELSE s

\* sna_next_vblank and sna_wait_vblank
WaitVblank(s, i) == [s EXCEPT !.event[i].queued = TRUE, !.vblanks = @ \cup {i}]

\* The exchange or the copy of the buffers; a copy is waited for, frame by frame.
Blit(s, i) == [s EXCEPT !.event[i].type = "SWAP_COMPLETE"]

\* To wait for the frame after the blit, or, with the CRTC off, to be done.
BlitThenVblank(s, i) ==
  IF on THEN WaitVblank(Blit(s, i), i) ELSE Free(Complete(s, i), i)

\* chain_swap
ChainSwap(s, i) ==
  IF ~s.event[i].queued /\ s.event[i].type = "SWAP_COMPLETE"
  THEN BlitThenVblank(s, i) ELSE s

\* Mutant: the event behind is not begun.
FinishAlone(s, i) == Free(s, i)
\* The end of a handler: on to the event behind, and free this one.
Finish(s, i) ==
  LET next == Successor(s, i) IN
  IF next = 0 THEN Free(s, i) ELSE Free(ChainSwap(Remove1(s, i), next), i)

\* can_flip, and sna_dri2_flip when the kernel accepts.
CanFlip(w) == on /\ top = w
MayFlip(s, w) == CanFlip(w) /\ s.flip = 0
Flip(s, i) == [s EXCEPT !.event[i].queued = TRUE, !.flip = i, !.flip_pending = i]
\* A flip that is possible is made, unless the kernel refuses.
Tries(possible, made) == IF possible /\ "fail" \notin world THEN made ELSE made => possible

-----------------------------------------------------------------------------
(* sna_dri2_vblank_handler                                                   *)

\* The kernel sends an event of a vblank: info->queued is reset first.
Sent(i) == [State EXCEPT !.event[i].queued = FALSE, !.vblanks = @ \ {i}]
Vblank(i, type) == i \in vblanks /\ event[i].draw # None /\ event[i].type \in type

VblankGone(i) ==
  /\ i \in vblanks /\ event[i].draw = None
  /\ Become(Free(Sent(i), i))
  /\ UNCHANGED <<on, top, blocked, gone, world>>

\* The swap is due: it is flipped, or blitted and complete with the next frame.
VblankSwap(i) ==
  /\ Vblank(i, {"FLIP", "SWAP"})
  /\ \E flipped \in BOOLEAN :
       /\ Tries(event[i].type = "FLIP" /\ MayFlip(State, event[i].draw), flipped)
       /\ Become(IF flipped THEN Flip(Sent(i), i)
                 ELSE IF on THEN WaitVblank(Blit(Sent(i), i), i)
                 ELSE Finish(Complete(Sent(i), i), i))
  /\ UNCHANGED <<on, top, blocked, gone, world>>

\* The blit is complete, and so is the event, or the pending swap is next.
VblankComplete(i) ==
  /\ Vblank(i, {"SWAP_COMPLETE"})
  /\ LET s == CompleteSignal(Sent(i), i)
         again == [s EXCEPT !.event[i] = [@ EXCEPT !.pending = FALSE, !.signal = TRUE]]
     IN Become(IF ~event[i].pending THEN Finish(s, i)
               ELSE IF on THEN WaitVblank(again, i)
               ELSE Finish(Complete(again, i), i))
  /\ UNCHANGED <<on, top, blocked, gone, world>>

VblankMsc(i) ==
  /\ Vblank(i, {"WAITMSC"})
  /\ Become(Finish(Sent(i), i))
  /\ blocked' = blocked \ {<<event[i].client, event[i].draw>>}
  /\ UNCHANGED <<on, top, gone, world>>

-----------------------------------------------------------------------------
(* sna_dri2_flip_event                                                       *)

\* Mutant: the flip is still said to wait.
ChainFlipWaits(s, flipped) ==
  LET i == s.flip_pending IN
  IF i = 0 THEN s ELSE IF s.event[i].draw = None THEN Free(s, i)
  ELSE IF flipped THEN Flip(s, i) ELSE BlitThenVblank(s, i)
\* chain_flip: the flip that waited for this one.
ChainFlip(s, flipped) ==
  LET i == s.flip_pending
      t == [s EXCEPT !.flip_pending = 0] IN
  IF i = 0 THEN s
  ELSE IF s.event[i].draw = None THEN Free(t, i)
  ELSE IF flipped THEN Flip(t, i) ELSE BlitThenVblank(t, i)
WaitingMayFlip(s) == s.flip_pending # 0 /\ MayFlip(s, s.event[s.flip_pending].draw)

Flipped(i) ==
  [State EXCEPT !.event[i].queued = FALSE, !.flip = 0,
                !.flip_pending = IF @ = i THEN 0 ELSE @]

\* It is complete, as a swap.  Another flip waits, or it was not to continue.
FlipEventChain(i) ==
  /\ flip = i /\ i \in Info
  /\ event[i].type = "FLIP" \/ flip_pending \notin {0, i}
  /\ LET s == Free(CompleteSignal(Flipped(i), i), i) IN
     \E flipped \in BOOLEAN :
       /\ Tries(WaitingMayFlip(s), flipped)
       /\ Become(ChainFlip(s, flipped))
  /\ UNCHANGED <<on, top, blocked, gone, world>>

\* There was no swap since: sna_dri2_flip_keepalive gives up at once.
FlipEventLast(i) ==
  /\ flip = i /\ i \in Info
  /\ event[i].type # "FLIP" /\ flip_pending \in {0, i} /\ event[i].flip_continue = "none"
  /\ Become(Finish(CompleteSignal(Flipped(i), i), i))
  /\ UNCHANGED <<on, top, blocked, gone, world>>

\* sna_dri2_flip_continue: there was one.
FlipEventContinue(i) ==
  /\ flip = i /\ i \in Info
  /\ event[i].type # "FLIP" /\ flip_pending \in {0, i} /\ event[i].flip_continue # "none"
  /\ LET done == CompleteSignal(Flipped(i), i)
         s == [done EXCEPT !.event[i] =
                 [@ EXCEPT !.type = event[i].flip_continue, !.flip_continue = "none",
                           !.signal = event[i].flip_continue = "FLIP_THROTTLE"
                                      /\ event[i].draw # None]]
     IN \E flipped \in BOOLEAN :
          /\ Tries(on, flipped)
          /\ Become(IF flipped THEN Flip(s, i) ELSE Free(CompleteSignal(s, i), i))
  /\ UNCHANGED <<on, top, blocked, gone, world>>

-----------------------------------------------------------------------------
(* sna_dri2_schedule_swap                                                    *)

\* The server throttles a client by the window it draws to.
Requests(c, w) ==
  /\ <<c, w>> \in Draws /\ {c, w} \cap gone = {}
  /\ \A x \in Windows : <<c, x>> \notin blocked
Swaps(c, w) ==
  /\ Requests(c, w) /\ swaps[w] < limit[w]
  /\ "impatient" \notin world => \A i \in DOMAIN event :
                  event[i].draw = w => event[i].flip_continue # "FLIP_THROTTLE"
Swapping(w) == [State EXCEPT !.swaps[w] = @ + 1]

Swap(w, c, type) == [Blank(w, c) EXCEPT !.type = type, !.signal = TRUE]

\* schedule_flip for a window whose flip is outstanding: the flip continues.
SwapContinue(c, w, mode) ==
  /\ Swaps(c, w) /\ mode # "future" /\ CanFlip(w)
  /\ flip_pending # 0 /\ event[flip_pending].draw = w
  /\ LET i == flip_pending
         s == [Swapping(w) EXCEPT !.event[i].flip_continue =
                 IF mode = "next" THEN "FLIP_THROTTLE" ELSE "FLIP_COMPLETE"]
     IN Become(IF mode = "next" THEN s ELSE Told(s, event[i]))
  /\ UNCHANGED <<on, top, blocked, gone, world>>

\* The flip of another window is: this one waits for it, in its place.
SwapWait(c, w, mode) ==
  /\ Swaps(c, w) /\ mode # "future" /\ CanFlip(w)
  /\ flip_pending # 0 /\ event[flip_pending].draw # w
  /\ LET s == Swapping(w) IN
     \E i \in Fresh(s) :
       /\ Become([AddEvent(s, i, Swap(w, c, "FLIP")) EXCEPT !.flip_pending = i,
                                                            !.limit[w] = 1])
  /\ UNCHANGED <<on, top, blocked, gone, world>>

\* No swap flips but another user of the CRTC does: goto queue, where a second
\* event is made.
SwapQueue(c, w, mode) ==
  /\ Swaps(c, w) /\ mode # "future" /\ CanFlip(w)
  /\ flip_pending = 0 /\ flip # 0
  /\ LET s == Swapping(w) IN
     \E i \in Fresh(s) :
       LET t == AddEvent(s, i, [Blank(w, c) EXCEPT !.signal = TRUE]) IN
       \E j \in Fresh(t) :
         Become([WaitVblank(AddEvent(t, j, Swap(w, c, "FLIP")), j) EXCEPT !.limit[w] = 1])
  /\ UNCHANGED <<on, top, blocked, gone, world>>

\* The flip is made: use_triple_buffer.
SwapFlip(c, w, mode) ==
  /\ Swaps(c, w) /\ mode # "future" /\ MayFlip(State, w) /\ flip_pending = 0
  /\ LET s == Swapping(w)
         type == IF ~TripleBuffer THEN "FLIP"
                 ELSE IF mode = "async" THEN "FLIP_COMPLETE" ELSE "FLIP_THROTTLE"
     IN \E i \in Fresh(s) :
          /\ LET t == [Flip(AddEvent(s, i, Swap(w, c, type)), i)
                         EXCEPT !.limit[w] = IF type = "FLIP_THROTTLE" THEN 2 ELSE 1]
             IN Become(IF type = "FLIP_COMPLETE" THEN Complete(t, i) ELSE t)
  /\ UNCHANGED <<on, top, blocked, gone, world>>

\* It is due later: the kernel is asked for the frame before.
SwapLater(c, w) ==
  /\ Swaps(c, w) /\ on
  /\ LET s == Swapping(w) IN
     \E i \in Fresh(s) :
       /\ Become([WaitVblank(AddEvent(s, i, Swap(w, c, IF CanFlip(w) THEN "FLIP" ELSE "SWAP")), i)
                    EXCEPT !.limit[w] = 1])
  /\ UNCHANGED <<on, top, blocked, gone, world>>

\* sna_dri2_immediate_blit, of a window that cannot flip.
SwapBlit(c, w, mode) ==
  /\ Swaps(c, w) /\ mode # "future" /\ on
  /\ ~CanFlip(w) \/ ("fail" \in world /\ flip_pending = 0 /\ flip = 0)
  /\ LET s == Swapping(w)
         sync == mode = "next"
         most == IF sync THEN 2 ELSE 3
         info == [Swap(w, c, "SWAP_COMPLETE") EXCEPT !.sync = sync]
     IN IF chain[w] = <<>>
        THEN \E i \in Fresh(s) :
               /\ Become([WaitVblank(AddEvent(s, i, info), i)
                            EXCEPT !.limit[w] = most])
        ELSE LET h == Head(chain[w])
                 head == event[h]
                 elided == head.pending /\ (~sync \/ ~head.sync) IN
             IF head.type = "SWAP_COMPLETE" /\ (~head.pending \/ elided)
             THEN Become([(IF elided THEN Told(s, head) ELSE s)
                            EXCEPT !.event[h] = [@ EXCEPT !.pending = TRUE, !.sync = sync],
                                   !.limit[w] = most])
             ELSE \E i \in Fresh(s) :
                    /\ Become(AddEvent(s, i, info))
  /\ UNCHANGED <<on, top, blocked, gone, world>>

\* The window is not to be seen on the CRTC, or its buffers are out of date: the
\* swap is over with the next frame, or at once if others are before it.
SwapSkip(c, w) ==
  /\ "hidden" \in world
  /\ Swaps(c, w) /\ on /\ chain[w] = <<>>
  /\ LET s == Swapping(w) IN
     \E i \in Fresh(s) :
       /\ Become([WaitVblank(AddEvent(s, i, Swap(w, c, "SWAP_COMPLETE")), i)
                    EXCEPT !.limit[w] = 1])
  /\ UNCHANGED <<on, top, blocked, gone, world>>

\* sna_dri2_schedule_wait_msc, of a frame to come.
WaitMsc(c, w) ==
  /\ "wait" \in world /\ on /\ Requests(c, w)
  /\ \E i \in Fresh(State) :
       /\ Become(WaitVblank(AddEvent(State, i, Blank(w, c)), i))
  /\ blocked' = blocked \cup {<<c, w>>}
  /\ UNCHANGED <<on, top, gone, world>>

-----------------------------------------------------------------------------
(* Clients and windows that disappear.                                       *)

Orphan(info) ==
  [info EXCEPT !.draw = None, !.signal = FALSE, !.pending = FALSE]
\* Mutants: the flip that waits is not forgotten; or no event is kept.
KeepPending(s, orphans) ==
  LET dead == {i \in orphans : ~s.event[i].queued} IN
  [s EXCEPT !.event = [j \in DOMAIN @ \ dead |-> @[j]]]
KeepNone(s, orphans) ==
  [s EXCEPT !.event = [j \in DOMAIN @ \ orphans |-> @[j]],
            !.flip_pending = IF @ \in orphans THEN 0 ELSE @]
\* Events are freed that the kernel does not know.
Keep(s, orphans) ==
  LET dead == {i \in orphans : ~s.event[i].queued} IN
  [s EXCEPT !.event = [j \in DOMAIN @ \ dead |-> @[j]],
            !.flip_pending = IF @ \in dead THEN 0 ELSE @]

\* Mutant: the client's events are taken out the oldest first.
BehindOldest(c, i) ==
  IF event[i].draw = None THEN {}
  ELSE LET q == chain[event[i].draw] IN {k \in DOMAIN q : \E j \in 1..(k - 1) : q[j] = i}
\* What is chained behind an event when a client goes: it takes its events out, the
\* latest first.
Behind(c, i) ==
  IF event[i].draw = None THEN {}
  ELSE LET q == chain[event[i].draw] IN
       {k \in DOMAIN q : event[q[k]].client # c /\ \E j \in 1..(k - 1) : q[j] = i}
After(c, i) ==
  IF Behind(c, i) = {} THEN 0 ELSE chain[event[i].draw][Min(Behind(c, i))]

\* sna_dri2_client_gone
ClientGone(c) ==
  /\ "gone" \in world /\ c \in Clients \ gone
  /\ LET mine == {i \in DOMAIN event : event[i].client = c}
     IN Become(Keep([State EXCEPT
          !.chain = [w \in Windows |-> Without(@[w], mine)],
          !.event = [i \in DOMAIN @ |->
             IF i \in mine THEN [Orphan(@[i]) EXCEPT !.client = None, !.after = After(c, i)]
             ELSE @[i]]], mine))
  /\ blocked' = {b \in blocked : b[1] # c}
  /\ gone' = gone \cup {c}
  /\ UNCHANGED <<on, top, world>>

\* decouple_window
Total(f) ==
  LET sum[n \in 0..Events] == IF n = 0 THEN 0 ELSE sum[n - 1] + f[n] IN sum[Events]
Owes(info) == (IF info.signal THEN 1 ELSE 0) + (IF info.pending THEN 1 ELSE 0)
Uncoupled(w) ==
  Keep([State EXCEPT
          !.chain[w] = <<>>,
          !.event = [i \in DOMAIN @ |-> IF Contains(chain[w], i) THEN Orphan(@[i]) ELSE @[i]]],
       ToSet(chain[w]))

\* sna_dri2_destroy_window; the server lets a client go that waits for it.
DestroyWindow(w) ==
  /\ "destroy" \in world /\ w \in Windows \ gone
  /\ Become([Uncoupled(w) EXCEPT !.swaps[w] = 0])
  /\ top' = IF top = w THEN None ELSE top
  /\ blocked' = {b \in blocked : b[2] # w}
  /\ gone' = gone \cup {w}
  /\ UNCHANGED <<on, world>>

\* sna_set_window_pixmap: the window is redirected, or no longer is.
DecoupleWindow(w) ==
  /\ "decouple" \in world /\ w \in Windows \ gone
  /\ \A i \in DOMAIN event : event[i].draw # None   \* bound
  /\ Become([Uncoupled(w) EXCEPT !.swaps[w] =
       @ - Total([i \in Info |-> IF Contains(chain[w], i) THEN Owes(event[i]) ELSE 0])])
  /\ UNCHANGED <<on, top, blocked, gone, world>>

-----------------------------------------------------------------------------
(* The display (external).                                                   *)

SwitchCrtc ==
  /\ "off" \in world
  /\ on' = ~on
  /\ UNCHANGED <<top, driver, server, gone, world>>

Restack ==
  /\ "restack" \in world
  /\ top' \in (Windows \ gone) \cup {None}
  /\ UNCHANGED <<on, driver, server, gone, world>>

\* A flip of the Present extension.
PresentFlip ==
  /\ "present" \in world /\ on
  /\ flip \in {0, Present} /\ flip' = Present - flip
  /\ UNCHANGED <<on, top, event, chain, flip_pending, vblanks, server, gone, world>>
PresentFlipped ==
  /\ flip = Present /\ flip' = 0
  /\ UNCHANGED <<on, top, event, chain, flip_pending, vblanks, server, gone, world>>

VblankEvent(i) ==
  VblankGone(i) \/ VblankSwap(i) \/ VblankComplete(i) \/ VblankMsc(i)
FlipEvent == \E i \in Info : FlipEventChain(i) \/ FlipEventLast(i) \/ FlipEventContinue(i)

Request(c, w) ==
  \/ \E mode \in Modes :
       \/ SwapContinue(c, w, mode) \/ SwapWait(c, w, mode) \/ SwapQueue(c, w, mode)
       \/ SwapFlip(c, w, mode) \/ SwapBlit(c, w, mode)
  \/ "future" \in Modes /\ SwapLater(c, w)
  \/ SwapSkip(c, w) \/ WaitMsc(c, w)

Next ==
  \/ \E i \in Info : VblankEvent(i)
  \/ FlipEvent
  \/ \E c \in Clients, w \in Windows : Request(c, w)
  \/ \E c \in Clients : ClientGone(c)
  \/ \E w \in Windows : DestroyWindow(w) \/ DecoupleWindow(w)
  \/ SwitchCrtc \/ Restack \/ PresentFlip \/ PresentFlipped

Spec == Init /\ [][Next]_vars
FairSpec ==
  /\ Spec
  /\ \A i \in Info : WF_vars(VblankEvent(i))
  /\ WF_vars(FlipEvent) /\ WF_vars(PresentFlipped)

-----------------------------------------------------------------------------
(* Properties.                                                               *)

\* The completions that are due to the client for this event.
OwedFor(info) ==
  IF info.draw = None \/ info.client = None THEN 0
  ELSE Owes(info) + (IF info.flip_continue = "FLIP_THROTTLE" THEN 1 ELSE 0)
Owed(w) ==
  Total([i \in Info |->
           IF i \in DOMAIN event /\ event[i].draw = w THEN OwedFor(event[i]) ELSE 0])

Drawn(w) == w \notin gone /\ \A c \in Clients : <<c, w>> \in Draws => c \notin gone
\* What the code is known to lose completions by does not go on.
Calm ==
  Windows = {Full} /\ world \cap {"present", "decouple", "impatient"} = {}
\* Nor does what leaves an event behind in its chain.
Steady == Calm /\ ("restack" \in world => world \cap {"off", "fail"} = {})

(* The swaps that the server counts as pending for a window (it throttles the
   client by them) are those that an event of the driver will complete: none
   is lost when events are chained, merged into a pending one, taken up by the
   flip that is outstanding or dropped with the CRTC, and none is told twice. *)
SwapsCounted == Calm => \A w \in Windows : Drawn(w) => swaps[w] = Owed(w)

(* info->queued tells the truth: the events that are marked are those that the
   kernel holds a pointer to, each once, so that none is freed under it when a
   client or a window goes (2004, 1750, 1881 of sna_dri2.c rely on it). *)
KernelKnows ==
  /\ vblanks \cup ({flip} \ {0, Present}) = {i \in DOMAIN event : event[i].queued}
  /\ flip \notin vblanks

(* What waits in sna->dri2.flip_pending has a flip of DRI2 ahead of it, whose
   completion is all that will start it. *)
FlipAhead == flip_pending # 0 => flip \in Info

(* sna_dri2_client_gone leaves no event that still names a successor in the
   chain it was taken out of. *)
NoOrphanChain == \A i \in DOMAIN event : event[i].after = 0

(* As chain_swap's callers have it, a blit at the head of its chain waits for a
   vblank: sna_dri2_immediate_blit asserts it when it adds to the chain. *)
BlitHeadQueued ==
  \A w \in Windows : chain[w] # <<>> /\ event[Head(chain[w])].type = "SWAP_COMPLETE"
                     => event[Head(chain[w])].queued

(* Every event in a chain is with the kernel, waits for the flip, or is a blit
   behind another event that will start it: none is stranded by a handler that
   ends, or by a client or a window that goes. *)
NoneStranded == Steady =>
  \A w \in Windows : \A k \in DOMAIN chain[w] :
     LET i == chain[w][k] IN
       event[i].queued \/ flip_pending = i \/ (k > 1 /\ event[i].type = "SWAP_COMPLETE")

(* A client that has used up its swap limit may go on in the end, whatever its
   swaps turned into, as long as the kernel sends the events it was asked for. *)
Throttled(w) == swaps[w] >= limit[w]
Unblocks ==
  Throttled(Full) /\ Steady ~> ~Throttled(Full) \/ ~Drawn(Full)
=============================================================================
