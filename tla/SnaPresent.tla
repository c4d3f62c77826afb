----------------------------- MODULE SnaPresent -----------------------------
(***************************************************************************)
(* The Present backend of SNA, sna_present.c, on one CRTC: the queue of    *)
(* the events that wait for a frame, of which the first is armed with the  *)
(* kernel or with a timer and hands on to the next; the page flips; and    *)
(* what is known of the CRTC's frame counter.                              *)
(*                                                                         *)
(* The X server has one thread: it is inside of sna_present.c (stack), or  *)
(* free to take a DRM event, a timer or a request.  A step of it is what   *)
(* it does between two system calls or notifications, so that frames pass  *)
(* in between.  In a notification the Present extension may call the       *)
(* driver again.                                                           *)
(***************************************************************************)
EXTENDS Integers, Sequences, FiniteSets, SequencesExt, SnaLists

CONSTANTS
  Events,       \* bound: event ids the Present extension hands out
  Infos,        \* bound: struct sna_present_event at a time, then malloc fails
  MaxMsc,       \* bound: the last frame
  CanFlip       \* SNA_HAS_FLIP; the kernel has no SNA_HAS_ASYNC_FLIP
ASSUME BoundsAssumption ==
  Events \in Nat /\ Infos \in Nat /\ MaxMsc \in Nat /\ CanFlip \in BOOLEAN

VARIABLES
  on, hw,                 \* the CRTC, and its frame counter in the kernel
  requests, fd,           \* vblank events asked of the kernel; events to be read
  flipping,               \* a page flip is with the kernel
  swap, vblanks,          \* sna_crtc: swap.msc, and the count CRTC_VBLANK
  info, queue,            \* the allocated infos; the vblank queue of the CRTC
  timers,                 \* infos that wait for sna_fake_vblank_handler
  flip,                   \* the info of the outstanding flip, or 0: flip_active
  unflip,                 \* sna->present.unflip, an event or 0
  stack,                  \* what the X server is at, innermost first
  given, shown,           \* the Present extension: its last event id; it flipped
  asked, told             \* history: see SnaVblank

kernel == <<on, hw, requests, fd, flipping>>
lists == <<info, queue, timers>>
client == <<given, shown>>
history == <<asked, told>>
vars == <<kernel, swap, vblanks, lists, flip, unflip, stack, client, history>>

Info == 1..Infos
Event == 1..Events      \* the extension numbers them
Msc == 0..(MaxMsc + 1)
None == -1

Vblank == [info : Info, msc : Msc]

Frame == [at : {"rearm", "complete", "keepalive", "flip", "flipend"},
          info : 0..Infos, msc : Msc, n : 0..Events, wrote : SUBSET Info]
At(place, i, msc) == [at |-> place, info |-> i, msc |-> msc, n |-> 0, wrote |-> {}]

TypeOK ==
  /\ on \in BOOLEAN /\ hw \in 0..MaxMsc /\ flipping \in BOOLEAN
  /\ requests \in Seq(Vblank) /\ fd \in Seq(Vblank)
  /\ swap \in Msc /\ vblanks \in Nat
  /\ DOMAIN info \subseteq Info
  /\ \A i \in DOMAIN info :
       info[i] \in [target : Msc, events : Seq(Event), queued : BOOLEAN, marked : BOOLEAN]
  /\ queue \in Seq(DOMAIN info) /\ timers \subseteq Info
  /\ flip \in 0..Infos /\ unflip \in 0..Events
  /\ stack \in Seq(Frame)
  /\ given \in 0..Events /\ shown \in BOOLEAN
  /\ asked \in [Event -> Msc \cup {None}] /\ told \in [Event -> Seq({"early", "due", "ahead"})]

Init ==
  /\ on = TRUE /\ hw = 0 /\ requests = <<>> /\ fd = <<>> /\ flipping = FALSE
  /\ swap = 0 /\ vblanks = 0
  /\ info = <<>> /\ queue = <<>> /\ timers = {}
  /\ flip = 0 /\ unflip = 0 /\ stack = <<>>
  /\ given = 0 /\ shown = FALSE
  /\ asked = [e \in Event |-> None] /\ told = [e \in Event |-> <<>>]

-----------------------------------------------------------------------------
(* The kernel (external).  Its queue is read in order through the DRM fd.    *)

\* Requests become events, with the number of the frame.
Sent(rs, msc) == fd \o [k \in DOMAIN rs |-> [rs[k] EXCEPT !.msc = msc]]

\* A frame: the vblank requests that are due are answered.
Tick ==
  /\ on /\ hw < MaxMsc
  /\ hw' = hw + 1
  /\ LET due == {r \in Vblank : r.msc <= hw + 1} IN
     /\ fd' = Sent(Without(requests, Vblank \ due), hw + 1)
     /\ requests' = Without(requests, due)
  /\ UNCHANGED <<on, flipping, swap, vblanks, lists, flip, unflip, stack, client, history>>

\* The flip is shown, at the latest when the CRTC is switched off.
FlipDone ==
  /\ flipping
  /\ flipping' = FALSE
  /\ fd' = Append(fd, [info |-> flip, msc |-> hw])
  /\ UNCHANGED <<on, hw, requests, swap, vblanks, lists, flip, unflip, stack, client, history>>

\* RandR or DPMS switch the CRTC.  Off, the kernel sends all requests early.
SwitchCrtc ==
  /\ stack = <<>>
  /\ on' = ~on
  /\ IF on
     THEN /\ fd' = Sent(requests, hw)
          /\ requests' = <<>>
     ELSE UNCHANGED <<fd, requests>>
  /\ UNCHANGED <<hw, flipping, swap, vblanks, lists, flip, unflip, stack, client, history>>

\* DRM_VBLANK_ABSOLUTE | DRM_VBLANK_EVENT: a frame that has passed is answered
\* at once.  The kernel refuses only when the CRTC is off.
WaitVblank(i, msc) ==
  /\ on
  /\ IF msc <= hw
     THEN fd' = Append(fd, [info |-> i, msc |-> hw]) /\ UNCHANGED requests
     ELSE requests' = Append(requests, [info |-> i, msc |-> msc]) /\ UNCHANGED fd
  /\ UNCHANGED <<on, hw, flipping>>

-----------------------------------------------------------------------------
(* Where the X server is.                                                    *)

top == IF stack = <<>> THEN At("idle", 0, 0) ELSE Head(stack)
Working(place) == top.at = place
Call(frame) == stack' = <<frame>> \o stack
Become(frame) == stack' = <<frame>> \o Tail(stack)
Leave == stack' = Tail(stack)

\* The Present extension has control: it handles a request, or a notification.
Extension ==
  top.at = "idle" \/ (top.at \in {"complete", "flip"} /\ top.n > 0)

\* present_event_notify.  While the CRTC is on, a frame that was not shown is
\* told ahead of time, but for one that is less than a millisecond away.
Judged(msc, target) ==
  CASE msc < target -> "early" [] on /\ msc > hw + 1 -> "ahead" [] OTHER -> "due"
Notify(e, msc) ==
  /\ asked' = [asked EXCEPT ![e] = None]
  /\ told' = [told EXCEPT ![e] = Append(@, Judged(msc, asked[e]))]

-----------------------------------------------------------------------------
(* The infos and their queue.                                                *)

\* info_alloc and info_free: the last one freed is the next one used.
Spare == Info \ DOMAIN info
Alloc(i) == i \in Spare /\ \A j \in Spare : i <= j
Freed(f, i) == [j \in DOMAIN f \ {i} |-> f[j]]
With(f, i, r) == [j \in DOMAIN f \cup {i} |-> IF j = i THEN r ELSE f[j]]

NewInfo(target, es, queued, marked) ==
  [target |-> target, events |-> es, queued |-> queued, marked |-> marked]

\* The queue is kept in the order of the frames, one info for each.
InQueue(msc) == {i \in DOMAIN info : Contains(queue, i) /\ info[i].target = msc}
Before(p, msc) ==
  /\ \A k \in 1..(p - 1) : info[queue[k]].target <= msc
  /\ p <= Len(queue) => msc < info[queue[p]].target
ListAdd(i, msc) ==
  \E p \in 1..(Len(queue) + 1) : Before(p, msc) /\ queue' = InsertAt(queue, p, i)

\* add_to_crtc_vblank: an event for the very next frame says that swap will be
\* brought up to date; the info is marked to take the count back.
AddToCrtc(i, delta, infos) ==
  /\ vblanks' = vblanks + (IF delta = 1 THEN 1 ELSE 0)
  /\ info' = [infos EXCEPT ![i].queued = TRUE, ![i].marked = (delta = 1)]

\* sna_present_queue sets info->queued when all it called is done: also of an
\* info that sna_fake_vblank completed and freed.
Written(infos, wrote) ==
  [j \in DOMAIN infos |-> [infos[j] EXCEPT !.queued = @ \/ j \in wrote]]

-----------------------------------------------------------------------------
(* vblank_complete.                                                          *)

\* Too early: sna_present_queue asks the kernel for the frame if it is near.
CompleteRequeue ==
  /\ Working("complete") /\ top.msc < info[top.info].target
  /\ info[top.info].target - top.msc <= 2
  /\ WaitVblank(top.info, info[top.info].target)
  /\ AddToCrtc(top.info, info[top.info].target - top.msc, Written(info, top.wrote))
  /\ Leave
  /\ UNCHANGED <<swap, queue, timers, flip, unflip, client, history>>

\* Far, or the CRTC is off: sna_fake_vblank sets a timer that ends a frame
\* before, or, if that is less than a millisecond away, completes at once.
CompleteFake ==
  /\ Working("complete") /\ top.msc < info[top.info].target
  /\ ~on \/ info[top.info].target - top.msc > 2
  /\ \/ /\ swap < info[top.info].target
        /\ timers' = timers \cup {top.info}
        /\ info' = Written(info, top.wrote \cup {top.info})
        /\ Leave
     \/ /\ info[top.info].target <= swap + 1
        /\ Become([top EXCEPT !.msc = IF swap < info[top.info].target
                                      THEN info[top.info].target ELSE swap,
                              !.wrote = @ \cup {top.info}])
        /\ UNCHANGED <<timers, info>>
  /\ UNCHANGED <<kernel, swap, vblanks, queue, flip, unflip, client, history>>

\* Mutant: an event of the kernel is taken for the one that was asked for.
CompleteNotifyEarly ==
  /\ Working("complete") /\ top.n < Len(info[top.info].events)
  /\ Notify(info[top.info].events[top.n + 1], top.msc)
  /\ Become([top EXCEPT !.n = @ + 1])
  /\ UNCHANGED <<kernel, swap, vblanks, lists, flip, unflip, client>>

\* An event of the info is told.
CompleteNotify ==
  /\ Working("complete")
  /\ info[top.info].target <= top.msc /\ top.n < Len(info[top.info].events)
  /\ Notify(info[top.info].events[top.n + 1], top.msc)
  /\ Become([top EXCEPT !.n = @ + 1])
  /\ UNCHANGED <<kernel, swap, vblanks, lists, flip, unflip, client>>

\* Mutants: the next info is taken though it is queued; or never.
CompleteNextQueued ==
  /\ Working("complete")
  /\ info[top.info].target <= top.msc /\ top.n = Len(info[top.info].events)
  /\ LET p == CHOOSE k \in DOMAIN queue : queue[k] = top.info IN
     /\ queue' = RemoveAt(queue, p)
     /\ info' = Freed(info, top.info)
     /\ IF p < Len(queue)
        THEN Become([top EXCEPT !.info = queue[p + 1], !.n = 0])
        ELSE Leave
  /\ UNCHANGED <<kernel, swap, vblanks, timers, flip, unflip, client, history>>

CompleteLast ==
  /\ Working("complete")
  /\ info[top.info].target <= top.msc /\ top.n = Len(info[top.info].events)
  /\ queue' = Remove(queue, top.info)
  /\ info' = Freed(info, top.info)
  /\ Leave
  /\ UNCHANGED <<kernel, swap, vblanks, timers, flip, unflip, client, history>>

\* All are: on to the next info, unless it is waited for by itself.
CompleteNext ==
  /\ Working("complete")
  /\ info[top.info].target <= top.msc /\ top.n = Len(info[top.info].events)
  /\ LET p == CHOOSE k \in DOMAIN queue : queue[k] = top.info
         rest == Freed(info, top.info) IN
     /\ queue' = RemoveAt(queue, p)
     /\ IF p < Len(queue) /\ ~info[queue[p + 1]].queued
        THEN /\ Become([top EXCEPT !.info = queue[p + 1], !.n = 0])
             /\ info' = rest
        ELSE /\ Leave
             /\ info' = Written(rest, top.wrote)
  /\ UNCHANGED <<kernel, swap, vblanks, timers, flip, unflip, client, history>>

-----------------------------------------------------------------------------
(* DRM events: sna_mode_wakeup.                                              *)

\* Mutant: the mark is not taken off.
VblankEventMarked ==
  /\ stack = <<>> /\ fd # <<>> /\ Head(fd).info # flip
  /\ vblanks' = vblanks - (IF info[Head(fd).info].marked THEN 1 ELSE 0)
  /\ Call(At("complete", Head(fd).info, Head(fd).msc))
  /\ swap' = Head(fd).msc
  /\ fd' = Tail(fd)
  /\ UNCHANGED <<on, hw, requests, flipping, lists, flip, unflip, client, history>>

\* sna_present_vblank_handler
VblankEvent ==
  /\ stack = <<>> /\ fd # <<>>
  /\ LET i == Head(fd).info IN
     /\ i # flip
     /\ vblanks' = vblanks - (IF info[i].marked THEN 1 ELSE 0)
     /\ info' = [info EXCEPT ![i].marked = FALSE]
     /\ Call(At("complete", i, Head(fd).msc))
  /\ swap' = Head(fd).msc
  /\ fd' = Tail(fd)
  /\ UNCHANGED <<on, hw, requests, flipping, queue, timers, flip, unflip, client, history>>

\* DRM_EVENT_FLIP_COMPLETE of the only CRTC.
FlipEvent ==
  /\ stack = <<>> /\ fd # <<>> /\ Head(fd).info = flip
  /\ swap' = Head(fd).msc
  /\ flip' = 0
  /\ Call(At("flip", flip, Head(fd).msc))
  /\ fd' = Tail(fd)
  /\ UNCHANGED <<on, hw, requests, flipping, vblanks, lists, unflip, client, history>>

\* present_flip_handler: the event is told, ...
FlipNotify ==
  /\ Working("flip") /\ top.n = 0
  /\ Notify(info[top.info].events[1], top.msc)
  /\ Become([top EXCEPT !.n = 1])
  /\ UNCHANGED <<kernel, swap, vblanks, lists, flip, unflip, client>>

\* Mutant: also for an unflip, which is not counted.
FlipClearUnflip ==
  /\ Working("flip") /\ top.n = 1
  /\ vblanks' = vblanks - 1
  /\ info' = [info EXCEPT ![top.info].marked = FALSE]
  /\ Become(At("flipend", top.info, 0))
  /\ UNCHANGED <<kernel, swap, queue, timers, flip, unflip, client, history>>

\* ... then the count is taken back, and kept alive if it was the last, ...
FlipClear ==
  /\ Working("flip") /\ top.n = 1
  /\ IF info[top.info].marked
     THEN /\ vblanks' = vblanks - 1
          /\ info' = [info EXCEPT ![top.info].marked = FALSE]
          /\ stack' = (IF vblanks = 1 THEN <<At("keepalive", 0, top.msc + 1)>> ELSE <<>>)
                       \o <<At("flipend", top.info, 0)>> \o Tail(stack)
     ELSE /\ Become(At("flipend", top.info, 0))
          /\ UNCHANGED <<vblanks, info>>
  /\ UNCHANGED <<kernel, swap, queue, timers, flip, unflip, client, history>>

\* sna_page_flip: with an event, which the handler gets.
PageFlip(i) == CanFlip /\ flip' = i /\ flipping' = TRUE

\* ... and an unflip that waited for the flip is done now: by another flip, or
\* it is told at once when that is not possible or not needed.
FlipEnd ==
  /\ Working("flipend") /\ unflip = 0
  /\ info' = Freed(info, top.info)
  /\ Leave
  /\ UNCHANGED <<kernel, swap, vblanks, queue, timers, flip, unflip, client, history>>

FlipEndUnflip ==
  /\ Working("flipend") /\ unflip # 0
  /\ unflip' = 0
  /\ \/ /\ Notify(unflip, swap)
        /\ info' = Freed(info, top.info)
        /\ UNCHANGED <<flip, flipping>>
     \/ /\ on
        /\ \E i \in Info :
             /\ Alloc(i)
             /\ PageFlip(i)
             /\ info' = Freed(With(info, i, NewInfo(0, <<unflip>>, FALSE, FALSE)), top.info)
        /\ UNCHANGED history
  /\ Leave
  /\ UNCHANGED <<on, hw, requests, fd, swap, vblanks, queue, timers, client>>

-----------------------------------------------------------------------------
(* Timers: sna_fake_vblank_handler.                                          *)

\* It asks for the frame; a CRTC that is off pretends that of the info.
TimerFires(i) ==
  /\ stack = <<>> /\ i \in timers
  /\ timers' = timers \ {i}
  /\ IF on
     THEN /\ swap' = hw
          /\ Call(At(IF hw < info[i].target THEN "rearm" ELSE "complete", i, hw))
     ELSE /\ Call(At("complete", i, info[i].target))
          /\ UNCHANGED swap
  /\ UNCHANGED <<kernel, vblanks, info, queue, flip, unflip, client, history>>

\* Mutant: the timer is not set again.
RearmOnce ==
  /\ Working("rearm")
  /\ LET delta == info[top.info].target - top.msc IN
     IF delta <= 2
     THEN WaitVblank(top.info, info[top.info].target) /\ AddToCrtc(top.info, delta, info)
     ELSE UNCHANGED <<kernel, vblanks, info>>
  /\ Leave
  /\ UNCHANGED <<swap, queue, timers, flip, unflip, client, history>>

\* Too early: the kernel is asked for the last two frames, or the timer again.
Rearm ==
  /\ Working("rearm")
  /\ LET delta == info[top.info].target - top.msc IN
     \/ /\ delta <= 2
        /\ WaitVblank(top.info, info[top.info].target)
        /\ AddToCrtc(top.info, delta, info)
        /\ UNCHANGED timers
     \/ /\ delta > 2
        /\ timers' = timers \cup {top.info}
        /\ UNCHANGED <<kernel, vblanks, info>>
  /\ Leave
  /\ UNCHANGED <<swap, queue, flip, unflip, client, history>>

-----------------------------------------------------------------------------
(* The calls of the Present extension.                                       *)

\* sna_present_get_ust_msc, when swap is not being kept up to date.
GetMsc ==
  /\ Extension /\ vblanks = 0 /\ on
  /\ swap' = hw
  /\ Call(At("keepalive", 0, hw + 1))
  /\ UNCHANGED <<kernel, vblanks, lists, flip, unflip, client, history>>

\* add_keepalive: an info without events for the next frame.
KeepAlive ==
  /\ Working("keepalive")
  /\ IF InQueue(top.msc) = {} /\ on /\ Spare # {}
     THEN \E i \in Info :
            /\ Alloc(i)
            /\ WaitVblank(i, top.msc)
            /\ info' = With(info, i, NewInfo(top.msc, <<>>, TRUE, TRUE))
            /\ ListAdd(i, top.msc)
            /\ vblanks' = vblanks + 1
     ELSE UNCHANGED <<kernel, info, queue, vblanks>>
  /\ Leave
  /\ UNCHANGED <<swap, timers, flip, unflip, client, history>>

Gives(e) == Extension /\ e = given + 1 /\ given' = e
Asks(e, msc) == asked' = [asked EXCEPT ![e] = msc] /\ UNCHANGED told
Answered(e, target) ==
  told' = [told EXCEPT ![e] = <<Judged(swap, target)>>] /\ UNCHANGED asked

\* sna_present_queue_vblank of a frame that has passed, ...
QueuePassed(e, msc) ==
  /\ on /\ msc < swap
  /\ Gives(e) /\ Answered(e, msc)
  /\ UNCHANGED <<kernel, swap, vblanks, lists, flip, unflip, stack, shown>>

\* ... that others wait for, ...
QueueAppend(e, msc) ==
  /\ on /\ swap <= msc
  /\ Gives(e) /\ Asks(e, msc)
  /\ \E i \in InQueue(msc) : info' = [info EXCEPT ![i].events = Append(@, e)]
  /\ UNCHANGED <<kernel, swap, vblanks, queue, timers, flip, unflip, stack, shown>>

\* ... that is after another one, ...
QueueBehind(e, msc) ==
  /\ on /\ swap <= msc /\ InQueue(msc) = {} /\ ~Before(1, msc)
  /\ Gives(e) /\ Asks(e, msc)
  /\ \E i \in Info : /\ Alloc(i)
                     /\ info' = With(info, i, NewInfo(msc, <<e>>, FALSE, FALSE))
                     /\ ListAdd(i, msc)
  /\ UNCHANGED <<kernel, swap, vblanks, timers, flip, unflip, stack, shown>>

\* ... and that is the next one: sna_present_queue.
QueueFirst(e, msc) ==
  /\ on /\ swap <= msc /\ InQueue(msc) = {} /\ Before(1, msc)
  /\ Gives(e) /\ Asks(e, msc)
  /\ \E i \in Info :
       /\ Alloc(i)
       /\ AddToCrtc(i, msc - swap, With(info, i, NewInfo(msc, <<e>>, FALSE, FALSE)))
       /\ ListAdd(i, msc)
       /\ IF msc - swap <= 2
          THEN WaitVblank(i, msc) /\ UNCHANGED timers
          ELSE timers' = timers \cup {i} /\ UNCHANGED kernel
  /\ UNCHANGED <<swap, flip, unflip, stack, shown>>

\* sna_present_flip; the extension has one flip, or unflip, at a time.
Flip(e) ==
  /\ on /\ flip = 0 /\ unflip = 0
  /\ Gives(e) /\ Asks(e, 0)
  /\ shown' = TRUE
  /\ \E i \in Info : /\ Alloc(i)
                     /\ PageFlip(i)
                     /\ info' = With(info, i, NewInfo(0, <<e>>, FALSE, TRUE))
  /\ vblanks' = vblanks + 1
  /\ UNCHANGED <<on, hw, requests, fd, swap, queue, timers, unflip, stack>>

\* sna_present_unflip: it is told at once, waits for the flip, or is a flip.  The
\* extension does not unflip what it flipped in the same notification.
Unflip(e) ==
  /\ shown /\ unflip = 0 /\ ~(Working("flip") /\ flip # 0)
  /\ Gives(e)
  /\ shown' = FALSE
  /\ \/ /\ ~on \/ flip = 0
        /\ Answered(e, 0)
        /\ UNCHANGED <<info, flip, flipping, unflip>>
     \/ /\ on /\ flip # 0
        /\ unflip' = e
        /\ Asks(e, 0)
        /\ UNCHANGED <<info, flip, flipping>>
     \/ /\ on /\ flip = 0
        /\ Asks(e, 0)
        /\ \E i \in Info : /\ Alloc(i)
                           /\ PageFlip(i)
                           /\ info' = With(info, i, NewInfo(0, <<e>>, FALSE, FALSE))
        /\ UNCHANGED unflip
  /\ UNCHANGED <<on, hw, requests, fd, swap, vblanks, queue, timers, stack>>

-----------------------------------------------------------------------------
Read == VblankEvent \/ FlipEvent
Work ==
  \/ CompleteRequeue \/ CompleteFake \/ CompleteNotify \/ CompleteNext
  \/ FlipNotify \/ FlipClear \/ FlipEnd \/ FlipEndUnflip
  \/ Rearm
Timer == \E i \in Info : TimerFires(i)
Request ==
  \/ GetMsc
  \/ \E e \in Event :
       \/ Flip(e) \/ Unflip(e)
       \/ \E msc \in 0..MaxMsc :
            \/ QueuePassed(e, msc) \/ QueueAppend(e, msc)
            \/ QueueBehind(e, msc) \/ QueueFirst(e, msc)

Next == Tick \/ FlipDone \/ SwitchCrtc \/ Read \/ Work \/ KeepAlive \/ Timer \/ Request

Spec == Init /\ [][Next]_vars

\* The display shows frames while it is on, if only now and then.  The X server
\* finishes what it began, the extension returns from its notifications; the DRM
\* fd and the timers are looked at in turn.
FairSpec ==
  /\ Spec
  /\ SF_vars(Tick) /\ WF_vars(FlipDone)
  /\ SF_vars(Work) /\ WF_vars(KeepAlive)
  /\ SF_vars(Read) /\ \A i \in Info : SF_vars(TimerFires(i))

-----------------------------------------------------------------------------
(* Properties.                                                               *)

\* What will see to an info: an event, a timer, or the X server at work.
InKernel(i) ==
  Cardinality({k \in DOMAIN requests : requests[k].info = i})
  + Cardinality({k \in DOMAIN fd : fd[k].info = i})
  + (IF flipping /\ flip = i THEN 1 ELSE 0)
AtWork(i) == Cardinality({k \in DOMAIN stack : stack[k].info = i})
Wakes(i) == InKernel(i) + AtWork(i) + (IF i \in timers THEN 1 ELSE 0)

\* Each info that is queued, and each flip, is woken by one thing, the others by
\* nothing but the one before; and nothing wakes an info that was freed.
OneWake ==
  \A i \in Info :
    CASE i \notin DOMAIN info -> Wakes(i) = 0
      [] i \in DOMAIN info /\ Contains(queue, i) /\ ~info[i].queued -> Wakes(i) = AtWork(i)
      [] OTHER -> Wakes(i) = 1

\* The queue is in the order of the frames, and its first info is queued
\* whenever the X server is not at work: the others wait for it.
HeadQueued ==
  /\ \A k \in 2..Len(queue) : info[queue[k - 1]].target < info[queue[k]].target
  /\ stack = <<>> /\ queue # <<>> => info[queue[1]].queued

\* While the count says that swap is kept up to date, the kernel has an event
\* for each.
CountKept ==
  /\ vblanks = Cardinality({i \in DOMAIN info : info[i].marked})
  /\ \A i \in DOMAIN info :
       info[i].marked =>
         InKernel(i) = 1 \/ \E k \in DOMAIN stack : stack[k].at = "flip" /\ stack[k].info = i

\* What the Present extension sees is SnaVblank: once, not early, not ahead.
Contract == INSTANCE SnaVblank
Implements == Contract!Spec

\* Each event that is given is told, whatever the CRTC and the extension do.
EveryTold == \A e \in Event : asked[e] # None ~> told[e] # <<>>

=============================================================================
