---------------------------- MODULE SnaDisplay -----------------------------
(***************************************************************************)
(* Page flips and the DRM events of sna_display.c: sna_page_flip over all  *)
(* CRTCs on behalf of a client (Present here), the flips of TearFree       *)
(* (sna_mode_redisplay) with its two framebuffers, modes that are set      *)
(* while flips are outstanding, and sna_mode_wakeup, which reads events,   *)
(* defers those of vblanks while TearFree flips, and calls handlers that   *)
(* may call it again.                                                      *)
(*                                                                         *)
(* All CRTCs show the same framebuffer: none is transformed, none is       *)
(* overridden by a client, and asynchronous flips are not offered.         *)
(* mode_serial is compared with flip_serial only, so that whether the two  *)
(* are equal is all that is kept of them.  Damage is all or nothing.       *)
(***************************************************************************)
EXTENDS Integers, Sequences, FiniteSets, SequencesExt, FiniteSetsExt

CONSTANTS
  num_real_crtc,
  Bo,             \* framebuffers
  None,
  Vblanks,        \* bound: vblank events asked for
  Worlds          \* what goes on: one of these sets of it
ASSUME CrtcsAssumption == num_real_crtc \in Nat \ {0} /\ None \notin Bo
\* There is room for a framebuffer more than those of the screen and of all CRTCs.
ASSUME BoAssumption ==
  \A S \in SUBSET Bo : IsFiniteSet(S) /\ Cardinality(S) <= 2 * num_real_crtc + 2 => S # Bo

Crtcs == 1..num_real_crtc

(* What may go on:                                                           *)
(*   "tearfree"  Option "TearFree": the screen is drawn to and redisplayed   *)
(*   "vblanks"   vblank events are asked for                                 *)
(*   "present"   Present flips to its pixmaps                                *)
(*   "refuse"    the kernel refuses flips, or modes that replace them; with  *)
(*               TearFree, which it ends, neither of "present" and "modes"   *)
(*   "modes"     CRTCs are switched off and on, modes are set                *)
(*   "nomem"     realloc fails                                               *)
Anything == {"tearfree", "vblanks", "present", "refuse", "modes", "nomem"}

VARIABLES
  crtc,           \* struct sna_crtc: bo, flip_bo, the serials, flip_handler
  flip_active,    \* sna->mode.flip_active
  dirty,          \* sna->mode.dirty
  has_flip,       \* SNA_HAS_FLIP
  front, shadow,  \* the bo of the screen, and sna->mode.shadow
  shadow_enabled, \* sna->mode.shadow_enabled
  waits,          \* the move_to_gpu of the screen is wait_for_shadow
  damage,         \* sna->mode.shadow_damage is not empty
  image,          \* the framebuffers that hold what was last drawn
  shadow_events,  \* the deferred events
  stack,          \* the functions that are active, the innermost first
  client,         \* the flip of Present: "idle", "trying" or "flying"
  vblank,         \* what became of each vblank event
  shown, flying,  \* the kernel: what is shown and what is to be flipped to,
  queue,          \*   and the events to be read
  world           \* of Worlds

modes == <<crtc, flip_active, dirty, shadow, waits>>
screen == <<front, damage, image>>
clients == <<client, vblank>>
kernel == <<shown, flying, queue>>
vars == <<modes, screen, clients, kernel, has_flip, shadow_enabled, shadow_events, stack, world>>

Event == [type : {"vblank"}, of : Vblanks] \cup [type : {"flip"}, of : Crtcs]
VblankOf(v) == [type |-> "vblank", of |-> v]
FlipOf(c) == [type |-> "flip", of |-> c]

\* The functions that others run under: sna_mode_wakeup with the buffer it has read,
\* flush_events at its n, sna_present_flip as it polls, sna_page_flip that fails, and
\* sna_crtc_config_notify.
Frame ==
  [at : {"read"}, buffer : Seq(Event)] \cup [at : {"flush"}, n : Nat \ {0}]
  \cup [at : {"present", "failed", "notify"}]
Read == [at |-> "read", buffer |-> <<>>]
Flush(n) == [at |-> "flush", n |-> n]
PresentFlips == [at |-> "present"]
Failed == [at |-> "failed"]
Notify == [at |-> "notify"]
At(f) == stack # <<>> /\ Head(stack).at = f
Idle == stack = <<>>

SnaCrtc ==
  [bo : Bo \cup {None}, flip_bo : Bo \cup {None}, current : BOOLEAN,
   handler : {"shadow", "client", "none"}]

TypeOK ==
  /\ crtc \in [Crtcs -> SnaCrtc] /\ flip_active \in 0..Cardinality(Crtcs)
  /\ dirty \in BOOLEAN /\ has_flip \in BOOLEAN /\ front \in Bo /\ shadow \in (Bo \ {front}) \cup {None}
  /\ shadow_enabled \in BOOLEAN /\ waits \in BOOLEAN /\ damage \in BOOLEAN
  /\ image \subseteq Bo /\ \A k \in DOMAIN shadow_events : shadow_events[k] \in Vblanks
  /\ \A k \in DOMAIN stack : stack[k] \in Frame
  /\ client \in {"idle", "trying", "flying"}
  /\ vblank \in [Vblanks -> {"new", "asked", "sent", "told", "twice", "lost"}]
  /\ shown \in [Crtcs -> Bo \cup {None}] /\ flying \in [Crtcs -> Bo \cup {None}]
  /\ \A k \in DOMAIN queue : queue[k] \in Event
  /\ world \in Worlds

On(s) == {c \in Crtcs : s.crtc[c].bo # None}
TearFree == "tearfree" \in world

\* What sna_page_flip, sna_mode_redisplay and the setting of modes work on.
Display ==
  [crtc |-> crtc, flip_active |-> flip_active, dirty |-> dirty, shadow |-> shadow,
   shadow_enabled |-> shadow_enabled, waits |-> waits,
   shown |-> shown, flying |-> flying, queue |-> queue]
Become(s) ==
  /\ crtc' = s.crtc /\ flip_active' = s.flip_active /\ dirty' = s.dirty /\ shadow' = s.shadow
  /\ shadow_enabled' = s.shadow_enabled /\ waits' = s.waits
  /\ shown' = s.shown /\ flying' = s.flying /\ queue' = s.queue

\* The first CRTC modes are set; TearFree begins with its second framebuffer.
Init ==
  /\ world \in Worlds /\ world \subseteq Anything
  /\ {"tearfree", "refuse"} \subseteq world => world \cap {"present", "modes"} = {}
  /\ front = CHOOSE b \in Bo : TRUE
  /\ image = {front}
  /\ shadow = IF TearFree THEN CHOOSE b \in Bo : b # front ELSE None
  /\ crtc = [c \in Crtcs |->
       [bo |-> front, flip_bo |-> None, current |-> FALSE, handler |-> "none"]]
  /\ flip_active = 0 /\ dirty = FALSE /\ has_flip = TRUE
  /\ shadow_enabled = TearFree /\ waits = TearFree /\ damage = FALSE
  /\ shadow_events = <<>> /\ stack = <<>> /\ client = "idle"
  /\ vblank = [v \in Vblanks |-> "new"]
  /\ shown = [c \in Crtcs |-> front] /\ flying = [c \in Crtcs |-> None] /\ queue = <<>>

-----------------------------------------------------------------------------
(* The kernel (external).  A mode that is set ends the flip of its CRTC first. *)

KernelVblank(v) ==
  /\ vblank[v] = "asked"
  /\ vblank' = [vblank EXCEPT ![v] = "sent"] /\ queue' = Append(queue, VblankOf(v))
  /\ UNCHANGED <<modes, screen, client, shown, flying, has_flip, shadow_enabled, shadow_events, stack, world>>
KernelFlip(c) ==
  /\ flying[c] # None
  /\ shown' = [shown EXCEPT ![c] = flying[c]] /\ flying' = [flying EXCEPT ![c] = None]
  /\ queue' = Append(queue, FlipOf(c))
  /\ UNCHANGED <<modes, screen, clients, has_flip, shadow_enabled, shadow_events, stack, world>>

Ended(s, cs) ==
  LET ended[n \in 0..num_real_crtc] ==
        CASE n = 0 -> <<>> [] n > 0 /\ n \in cs /\ s.flying[n] # None -> Append(ended[n - 1], FlipOf(n))
          [] OTHER -> ended[n - 1]
  IN ended[num_real_crtc]
\* The CRTCs show the framebuffers of shows, one CRTC after the other.
SetCrtcs(s, shows) ==
  [s EXCEPT !.shown = [c \in Crtcs |-> IF c \in DOMAIN shows THEN shows[c] ELSE @[c]],
            !.flying = [c \in Crtcs |-> IF c \in DOMAIN shows THEN None ELSE @[c]],
            !.queue = @ \o Ended(s, DOMAIN shows)]

\* What is asked for by Present, outside of its handlers.
AskVblank(v) ==
  /\ "vblanks" \in world /\ Idle /\ vblank[v] = "new" /\ vblank' = [vblank EXCEPT ![v] = "asked"]
  /\ UNCHANGED <<modes, screen, kernel, client, has_flip, shadow_enabled, shadow_events, stack, world>>

-----------------------------------------------------------------------------
(* The setting of modes.                                                     *)

Attached(s, shows) ==
  SetCrtcs([s EXCEPT !.crtc = [c \in Crtcs |-> IF c \in DOMAIN shows
                                               THEN [@[c] EXCEPT !.bo = shows[c], !.current = FALSE]
                                               ELSE @[c]],
                     !.dirty = TRUE], shows)
\* __sna_crtc_set_mode, that succeeds: the screen is attached, with TearFree a second
\* framebuffer too, and what is in the screen is to be kept.
Attach(s) ==
  IF TearFree THEN [s EXCEPT !.waits = TRUE, !.shadow_enabled = @ \/ s.shadow = None] ELSE s
SetMode(s, c) == Attach(Attached(s, [d \in {c} |-> front]))

\* sna_crtc_disable; with the last CRTC TearFree ends, sna_mode_disable_shadow.
Detach(s) ==
  IF On(s) = {} THEN [s EXCEPT !.shadow = None, !.shadow_enabled = FALSE, !.waits = FALSE] ELSE s
Disable(s, cs) == Detach(Attached(s, [d \in cs |-> None]))

\* A framebuffer that is created: which one of those not in use does not matter.
Created(s) ==
  CHOOSE b \in Bo : b \notin {front, s.shadow} \cup {s.crtc[c].bo : c \in Crtcs}
                              \cup {s.crtc[c].flip_bo : c \in Crtcs}

CrtcOn(c) ==
  /\ "modes" \in world /\ Idle
  /\ LET s == SetMode(Display, c) IN
     Become([s EXCEPT !.shadow = IF TearFree /\ @ = None THEN Created(s) ELSE @])
  /\ UNCHANGED <<screen, clients, has_flip, shadow_events, stack, world>>
CrtcOff(c) ==
  /\ "modes" \in world /\ Idle /\ c \in On(Display)
  /\ Become(Disable(Display, {c}))
  /\ damage' = (damage /\ shadow' # None)
  /\ UNCHANGED <<clients, front, image, has_flip, shadow_events, stack, world>>

\* sna_crtc_config_notify, before anything is redisplayed.
ConfigNotify ==
  /\ Idle /\ dirty /\ stack' = <<Read, Notify>>
  /\ UNCHANGED <<modes, screen, clients, kernel, has_flip, shadow_enabled, shadow_events, world>>
ConfigNotified ==
  /\ At("notify") /\ has_flip' = TRUE /\ dirty' = FALSE /\ stack' = Tail(stack)
  /\ UNCHANGED <<crtc, flip_active, shadow, waits, screen, clients, kernel, shadow_enabled,
                 shadow_events, world>>

-----------------------------------------------------------------------------
(* sna_page_flip: the CRTCs do not depend on each other.                     *)

Flipped(s, cs, bo, handler) ==
  [s EXCEPT !.crtc = [c \in Crtcs |->
              IF c \in cs THEN [@[c] EXCEPT !.flip_bo = bo, !.current = TRUE, !.handler = handler]
              ELSE @[c]],
            !.flip_active = @ + Cardinality(cs),
            !.flying = [c \in Crtcs |-> IF c \in cs THEN bo ELSE @[c]]]
\* update_scanout: a mode that is set instead, sna_crtc_flip.
Replaced(s, cs, bo) ==
  SetCrtcs([s EXCEPT !.crtc = [c \in Crtcs |-> IF c \in cs THEN [@[c] EXCEPT !.bo = bo] ELSE @[c]]],
           [c \in cs |-> bo])

FlipAll(s, cs, fixup, bo) == Flipped(Replaced(s, fixup, bo), cs, bo, "client")
\* Mutant: the flips that were made are left alone.
RestoredNone(s, keep) == s
\* sna_mode_restore, that keeps some CRTCs on; the events are still to be read.
Restored(s, keep) ==
  LET t == Attached(s, [c \in On(s) |-> IF c \in keep THEN front ELSE None]) IN
  IF On(t) # {} THEN Attach(t) ELSE Detach(t)

\* At the end of sna_present_flip, with no flip outstanding.
Flips == At("present") /\ flip_active = 0
Refusing(cs) == IF "refuse" \in world THEN SUBSET cs ELSE {{}}

PageFlip(bo) ==
  /\ Flips /\ has_flip
  /\ \E fixup \in Refusing(On(Display)) : Become(FlipAll(Display, On(Display), fixup, bo))
  /\ client' = IF On(Display) = {} THEN "idle" ELSE "flying"
  /\ stack' = Tail(stack)
  /\ UNCHANGED <<screen, vblank, has_flip, shadow_events, world>>

\* The kernel is still busy with another flip, or takes neither the first CRTC's flip
\* nor a mode instead, though the CRTC shows something else.
PageFlipRefused(bo, gives_up) ==
  /\ Flips /\ has_flip /\ "refuse" \in world /\ On(Display) # {}
  /\ gives_up => crtc[Min(On(Display))].bo # bo
  /\ has_flip' = ~gives_up
  /\ stack' = Tail(stack)
  /\ UNCHANGED <<modes, screen, clients, kernel, shadow_enabled, shadow_events, world>>

\* A CRTC fails when the flips of others are made already, or its own mode was set:
\* all modes are set anew and the events of these flips are waited for.
PageFlipRestores(bo, c, half) ==
  /\ Flips /\ has_flip /\ "refuse" \in world /\ c \in On(Display)
  /\ LET before == {d \in On(Display) : d < c} IN
     /\ before # {} \/ half
     /\ \E fixup \in SUBSET before, keep \in SUBSET On(Display) :
          LET s == FlipAll(Display, before, fixup, bo) IN
          Become(Restored(IF half THEN Replaced(s, {c}, bo) ELSE s, keep))
  /\ client' = "trying"
  /\ stack' = <<Read, Failed>> \o Tail(stack)
  /\ UNCHANGED <<screen, vblank, has_flip, shadow_events, world>>

\* ... while there are any; then the caller frees what the flip was for.
RestoreAgain ==
  /\ At("failed") /\ flip_active > 0 /\ queue # <<>>
  /\ stack' = <<Read>> \o stack
  /\ UNCHANGED <<modes, screen, clients, kernel, has_flip, shadow_enabled, shadow_events, world>>
PageFlipFails ==
  /\ At("failed") /\ (flip_active = 0 \/ queue = <<>>)
  /\ has_flip' = FALSE /\ dirty' = FALSE
  /\ client' = IF client = "trying" THEN "idle" ELSE client
  /\ stack' = Tail(stack)
  /\ UNCHANGED <<crtc, flip_active, shadow, waits, screen, kernel, vblank, shadow_enabled,
                 shadow_events, world>>

-----------------------------------------------------------------------------
(* sna_present_flip and sna_present_unflip.                                  *)

\* Present flips to another pixmap, or to one that is shown.
Pixmaps == ({Created(Display)} \cup {crtc[c].bo : c \in Crtcs}) \ {front, shadow, None}
PresentRequest ==
  /\ "present" \in world /\ Idle /\ has_flip
  /\ stack' = <<PresentFlips>> /\ shadow_enabled' = FALSE
  /\ UNCHANGED <<modes, screen, clients, kernel, has_flip, shadow_events, world>>
PresentPolls ==
  /\ At("present") /\ flip_active > 0 /\ queue # <<>>
  /\ stack' = <<Read>> \o stack
  /\ UNCHANGED <<modes, screen, clients, kernel, has_flip, shadow_enabled, shadow_events, world>>
\* Flips are outstanding, or no longer possible: Present copies.
PresentCopies ==
  /\ At("present") /\ (~has_flip \/ (flip_active > 0 /\ queue = <<>>))
  /\ stack' = Tail(stack)
  /\ UNCHANGED <<modes, screen, clients, kernel, has_flip, shadow_enabled, shadow_events, world>>
\* With flips outstanding the unflip is left to the handler of the last.
PresentUnflip ==
  /\ "present" \in world /\ Idle /\ flip_active = 0 /\ has_flip
  /\ \E c \in On(Display) : crtc[c].bo # front
  /\ Become([FlipAll(Display, On(Display), {}, front) EXCEPT !.shadow_enabled = shadow # None])
  /\ client' = "flying"
  /\ UNCHANGED <<screen, vblank, has_flip, shadow_events, stack, world>>
\* reset_mode: flips are no longer possible, or the kernel refuses.
PresentResets ==
  /\ "present" \in world /\ Idle /\ flip_active = 0 /\ (~has_flip \/ "refuse" \in world)
  /\ \E c \in On(Display) : crtc[c].bo # front
  /\ Become([Restored(Display, On(Display)) EXCEPT !.shadow_enabled = shadow # None])
  /\ UNCHANGED <<screen, clients, has_flip, shadow_events, stack, world>>

-----------------------------------------------------------------------------
(* sna_mode_wakeup                                                           *)

Wakeup ==
  /\ Idle /\ queue # <<>> /\ stack' = <<Read>>
  /\ UNCHANGED <<modes, screen, clients, kernel, has_flip, shadow_enabled, shadow_events, world>>
\* The buffer has room for 32 events.
ReadEvents ==
  /\ At("read") /\ Head(stack).buffer = <<>> /\ queue # <<>>
  /\ stack' = <<[Head(stack) EXCEPT !.buffer = queue]>> \o Tail(stack) /\ queue' = <<>>
  /\ UNCHANGED <<modes, screen, clients, shown, flying, has_flip, shadow_enabled, shadow_events, world>>
Handling(e) ==
  /\ At("read") /\ Head(stack).buffer # <<>> /\ Head(Head(stack).buffer) = e
Handled == <<[Head(stack) EXCEPT !.buffer = Tail(@)]>> \o Tail(stack)

\* The handler of a vblank; Present may flip when it is told.
Told(v) == [vblank EXCEPT ![v] = IF @ = "told" THEN "twice" ELSE "told"]
Tell(v, after) ==
  /\ vblank' = Told(v)
  /\ \/ stack' = after /\ UNCHANGED shadow_enabled
     \/ /\ "present" \in world /\ has_flip /\ Len(after) <= 3   \* bound
        /\ stack' = <<PresentFlips>> \o after /\ shadow_enabled' = FALSE

Deferring == flip_active > 0 /\ shadow_enabled
HandleVblank(v) ==
  /\ Handling(VblankOf(v)) /\ ~Deferring
  /\ Tell(v, Handled)
  /\ UNCHANGED <<modes, screen, kernel, client, has_flip, shadow_events, world>>
DeferVblank(v) ==
  /\ Handling(VblankOf(v)) /\ Deferring
  /\ stack' = Handled
  /\ \/ shadow_events' = Append(shadow_events, v) /\ UNCHANGED vblank
     \/ /\ "nomem" \in world
        /\ vblank' = [vblank EXCEPT ![v] = "lost"] /\ UNCHANGED shadow_events
  /\ UNCHANGED <<modes, screen, kernel, client, has_flip, shadow_enabled, world>>

\* Mutant: a flip_bo that is no longer current is kept.
CompletedLate(info) ==
  IF info.current THEN [info EXCEPT !.bo = info.flip_bo, !.flip_bo = None] ELSE info
\* Mutant: whatever mode was set since.
CompletedAlways(info) == [info EXCEPT !.bo = info.flip_bo, !.flip_bo = None]
\* What was flipped to is what the CRTC shows, unless its mode was set since.
Completed(info) ==
  [info EXCEPT !.bo = IF info.current THEN info.flip_bo ELSE @, !.flip_bo = None]
HandleFlip(c) ==
  /\ Handling(FlipOf(c))
  /\ crtc' = [crtc EXCEPT ![c] = Completed(@)]
  /\ flip_active' = flip_active - 1
  \* The handler is called with the last: present_flip_handler ignores a flip that
  \* sna_page_flip has not accepted yet.
  /\ client' = IF flip_active = 1 /\ crtc[c].handler = "client" /\ client = "flying"
               THEN "idle" ELSE client
  /\ stack' = Handled
  /\ UNCHANGED <<dirty, screen, kernel, shadow, waits, vblank, has_flip, shadow_enabled, shadow_events, world>>

\* Mutant: deferred events are not flushed.
ReadOnly ==
  /\ At("read") /\ Head(stack).buffer = <<>> /\ queue = <<>>
  /\ stack' = Tail(stack)
  /\ UNCHANGED <<modes, screen, clients, kernel, has_flip, shadow_enabled, shadow_events, world>>
\* No more events: flush_events.
ReadDone ==
  /\ At("read") /\ Head(stack).buffer = <<>> /\ queue = <<>>
  /\ stack' = <<Flush(1)>> \o Tail(stack)
  /\ UNCHANGED <<modes, screen, clients, kernel, has_flip, shadow_enabled, shadow_events, world>>
FlushNext ==
  /\ At("flush") /\ Head(stack).n <= Len(shadow_events)
  /\ Tell(shadow_events[Head(stack).n], <<Flush(Head(stack).n + 1)>> \o Tail(stack))
  /\ UNCHANGED <<modes, screen, kernel, client, has_flip, shadow_events, world>>
FlushDone ==
  /\ At("flush") /\ Head(stack).n > Len(shadow_events)
  /\ shadow_events' = <<>> /\ stack' = Tail(stack)
  /\ UNCHANGED <<modes, screen, clients, kernel, has_flip, shadow_enabled, world>>

-----------------------------------------------------------------------------
(* TearFree: wait_for_shadow and sna_mode_redisplay.                         *)

Refs(b) ==
  1 + Cardinality({c \in Crtcs : crtc[c].bo = b}) + Cardinality({c \in Crtcs : crtc[c].flip_bo = b})

\* Mutant: a framebuffer that is still shown is drawn to.
BackbufferShared == IF ~waits \/ ~shadow_enabled THEN front ELSE shadow
\* The framebuffer that is drawn to next.
Backbuffer ==
  IF ~waits \/ ~shadow_enabled THEN front
  ELSE IF flip_active > 0 \/ Refs(shadow) > 1 THEN Created(Display)
  ELSE shadow

Draw ==
  /\ TearFree /\ Idle
  /\ front' = Backbuffer /\ image' = {Backbuffer}
  /\ shadow' = IF Backbuffer = front THEN shadow ELSE front
  /\ waits' = FALSE
  /\ damage' = (shadow # None)
  /\ UNCHANGED <<clients, kernel, crtc, flip_active, dirty, has_flip, shadow_enabled, shadow_events, stack, world>>

\* Mutant: also while flips are outstanding.
RedisplaysAnyway == Idle /\ ~dirty /\ shadow_enabled /\ damage
Redisplays == Idle /\ ~dirty /\ shadow_enabled /\ flip_active = 0 /\ damage

\* "No damage written to new scanout (backbuffer)".
RedisplaySkip ==
  /\ Redisplays /\ waits
  /\ damage' = FALSE
  /\ UNCHANGED <<modes, clients, kernel, front, image, has_flip, shadow_enabled, shadow_events, stack, world>>

\* One CRTC after the other is flipped, has its mode set instead, or is switched off.
Stale == {c \in On(Display) : crtc[c].bo # front}
Ways == IF "refuse" \in world THEN {"flip", "mode", "off"} ELSE {"flip"}
Redisplayed(cs, how) ==
  LET Those(way) == {c \in cs : how[c] = way}
      s == Flipped(Replaced(Display, Those("mode"), front), Those("flip"), front, "shadow")
  IN IF Those("off") = {} THEN s ELSE Disable(s, Those("off"))

RedisplayFlip ==
  /\ Redisplays /\ ~waits
  /\ \E how \in [Stale -> Ways] :
       /\ \A c \in Stale : how[c] = "off" => \E d \in Stale : d < c /\ how[d] = "flip"
       /\ LET s == Redisplayed(Stale, how) IN
          Become([s EXCEPT !.waits = @ \/ s.flip_active > 0])
  /\ damage' = FALSE
  /\ UNCHANGED <<clients, front, image, has_flip, shadow_events, stack, world>>

\* Mutant: the drawing is not copied.
RedisplayKeeps ==
  /\ Redisplays /\ ~waits /\ "refuse" \in world /\ Stale # {}
  /\ damage' = FALSE
  /\ UNCHANGED <<modes, clients, kernel, front, image, has_flip, shadow_enabled, shadow_events, stack, world>>
\* fixup_shadow: a CRTC fails before any is flipped, and the drawing is copied to what
\* the others show.
RedisplayCopy ==
  /\ Redisplays /\ ~waits /\ "refuse" \in world
  /\ \E c \in Stale :
       LET before == {d \in Stale : d < c} IN
       Become(Redisplayed(before, [d \in before |-> "mode"]))
  /\ image' = image \cup {shadow} /\ damage' = FALSE
  /\ UNCHANGED <<clients, front, has_flip, shadow_events, stack, world>>

-----------------------------------------------------------------------------
Kernel == (\E v \in Vblanks : KernelVblank(v)) \/ (\E c \in Crtcs : KernelFlip(c))
Dispatch ==
  \/ ReadEvents \/ ReadDone \/ FlushNext \/ FlushDone
  \/ \E v \in Vblanks : HandleVblank(v) \/ DeferVblank(v)
  \/ \E c \in Crtcs : HandleFlip(c)
  \/ PresentPolls \/ PresentCopies \/ RestoreAgain \/ PageFlipFails
  \/ ConfigNotified
  \/ \E bo \in Pixmaps :
       \/ PageFlip(bo)
       \/ \E c \in Crtcs, half \in BOOLEAN : PageFlipRestores(bo, c, half)
       \/ \E gives_up \in BOOLEAN : PageFlipRefused(bo, gives_up)
Redisplay == RedisplaySkip \/ RedisplayFlip \/ RedisplayCopy
Requests ==
  \/ \E v \in Vblanks : AskVblank(v)
  \/ PresentRequest \/ PresentUnflip \/ PresentResets \/ Draw
  \/ \E c \in Crtcs : CrtcOn(c) \/ CrtcOff(c)

Next == Kernel \/ Wakeup \/ ConfigNotify \/ Dispatch \/ Redisplay \/ Requests

Spec == Init /\ [][Next]_vars
FairSpec ==
  /\ Spec
  /\ \A c \in Crtcs : WF_vars(KernelFlip(c))
  /\ \A v \in Vblanks : WF_vars(KernelVblank(v))
  /\ SF_vars(Wakeup) /\ SF_vars(ConfigNotify) /\ WF_vars(Dispatch) /\ WF_vars(Redisplay)

-----------------------------------------------------------------------------
(* Properties.                                                               *)

Buffered == UNION {ToSet(stack[k].buffer) : k \in {k \in DOMAIN stack : stack[k].at = "read"}}
Coming(c) == FlipOf(c) \in ToSet(queue) \cup Buffered

\* mode.flip_active is the number of CRTCs with a flip_bo, and these are the CRTCs whose
\* flip the kernel still has to make or to tell of: no completion is waited for in vain
\* and none comes unexpected, whatever fails or has its mode set in between.
FlipsCounted ==
  /\ flip_active = Cardinality({c \in Crtcs : crtc[c].flip_bo # None})
  /\ \A c \in Crtcs : crtc[c].flip_bo # None <=> flying[c] # None \/ Coming(c)

\* The bo of a CRTC is the one the kernel shows, or will be as soon as the completion of
\* its flip is read: a late completion does not undo a mode that was set since.
CrtcShown == \A c \in Crtcs :
  shown[c] = IF Coming(c) /\ crtc[c].current THEN crtc[c].flip_bo ELSE crtc[c].bo

\* TearFree: what is drawn to is neither shown nor about to be, while flips are possible
\* and modes come and go.
DrawnHidden ==
  TearFree /\ world \cap {"present", "refuse"} = {} /\ shadow_enabled /\ ~waits =>
    \A c \in Crtcs : front \notin {shown[c], flying[c]}

\* A vblank event is handled once: its handler frees what user_data points to, and that
\* of DRI2 asserts info->queued (sna_dri2.c:2590).  With TearFree and Present together
\* flush_events is entered again by the handlers it calls.
ToldOnce == \A v \in Vblanks : vblank[v] # "twice"

\* While a flip of Present is outstanding on any CRTC the request it belongs to is still
\* there: sna_page_flip that fails on a later CRTC leaves no flip behind whose data the
\* caller frees.
FlipOwned ==
  (\E c \in Crtcs : crtc[c].flip_bo # None /\ crtc[c].handler = "client") => client # "idle"

\* Flips are completed and vblank events handled, though those of vblanks may be deferred
\* and only the last completion of a flip on several CRTCs is told of.
Completes ==
  /\ client = "flying" ~> client = "idle"
  /\ \A v \in Vblanks : vblank[v] = "asked" ~> vblank[v] \in {"told", "twice", "lost"}

\* TearFree: when drawing stops, all CRTCs come to show what was last drawn, though flips
\* are refused.  (A mode that is set between a drawing and its redisplay makes
\* RedisplaySkip forget the drawing on the other CRTCs.)
Updated ==
  TearFree /\ world \cap {"present", "modes"} = {} /\ <>[][~Draw]_vars =>
    <>[](\A c \in On(Display) : shown[c] \in image)
=============================================================================
