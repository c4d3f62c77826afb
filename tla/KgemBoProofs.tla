---------------------------- MODULE KgemBoProofs ----------------------------
(***************************************************************************)
(* Type correctness of KgemBo, and two facts about its bookkeeping, for    *)
(* every value of its constants.  Sound is the inductive invariant, stated *)
(* of a state k of struct kgem: every operator of KgemBo that stands for a *)
(* C function preserves it, one lemma each, and every action is made of    *)
(* those operators.                                                        *)
(***************************************************************************)
EXTENDS KgemBo, TLAPS, WellFoundedInduction

\* RetireArmed, FenceListed and the reference of a request on its batch bo,
\* of an arbitrary state of struct kgem.
Armed(k) == k.flushing # {} \/ Outstanding(k) # {} => k.need_retire
Fenced(k) == ~k.wedged => \A n \in Ring : k.fence[n] \in k.requests[n] \cup {NoFence}
BatchOwned(o) == o.batch => o.refcnt > 0
SoundBo == {o \in BoState : BatchOwned(o)}

Sound(k) ==
  /\ k \in Kgem
  /\ \A b \in Bo : k.bo[b] \in SoundBo
  /\ Armed(k)
  /\ Fenced(k)

IInv == Sound(kgem) /\ gpu \in Gpu

-----------------------------------------------------------------------------
(* Constants and the structs of bo.                                          *)

\* The values that the operators assign belong to the types of the fields.
LEMMA Values ==
  /\ {"none", "cpu", "gtt", "gpu"} \subseteq Domains
  /\ {"active", "inactive", "snoop", "scanout", "none", "freed"} \subseteq Lists
  /\ NoRq \in Rq /\ Foreign \in Rq /\ 1..(MaxReq + 1) \subseteq Rq
  BY BoundsAssumption DEF Domains, Lists, Caches, NoRq, Foreign, Rq

\* A struct that is not in use owes nothing to a request.
LEMMA FreedSound == Freed \in SoundBo
  BY Values DEF Freed, BoState, SoundBo, BatchOwned

\* A new bo has the reference of its creator.
LEMMA NewBoSound == NewBo \in SoundBo
<1>1. NewBo \in BoState BY FreedSound, Values DEF NewBo, BoState, SoundBo
<1>2. NewBo.refcnt = 1 BY DEF NewBo, Freed
<1> QED BY <1>1, <1>2 DEF SoundBo, BatchOwned

\* __kgem_bo_clear_busy touches no reference.
LEMMA ClearBusySound ==
  ASSUME NEW o \in SoundBo PROVE __kgem_bo_clear_busy(o) \in SoundBo
  BY Values DEF __kgem_bo_clear_busy, SoundBo, BoState, BatchOwned

\* kgem_bo_unclean touches no reference.
LEMMA UncleanSound ==
  ASSUME NEW o \in SoundBo PROVE kgem_bo_unclean(o) \in SoundBo
  BY Values DEF kgem_bo_unclean, SoundBo, BoState, BatchOwned

\* Whatever is kept or freed by the snoop cache is a sound struct.
LEMMA MoveToSnoopSound ==
  ASSUME NEW b, NEW o \in SoundBo PROVE kgem_bo_move_to_snoop(b, o) \in SoundBo
  BY Values, FreedSound DEF kgem_bo_move_to_snoop, SoundBo, BoState, BatchOwned

\* So is whatever kgem_bo_move_to_cache keeps or frees.
LEMMA MoveToCacheSound ==
  ASSUME NEW b, NEW o \in SoundBo PROVE kgem_bo_move_to_cache(b, o) \in SoundBo
<1>1. [o EXCEPT !.list = "scanout"] \in SoundBo BY Values DEF SoundBo, BoState, BatchOwned
<1>2. [o EXCEPT !.list = "inactive"] \in SoundBo BY Values DEF SoundBo, BoState, BatchOwned
<1>3. o.prime \in BOOLEAN /\ o.snoop \in BOOLEAN /\ o.scanout \in BOOLEAN
  BY DEF SoundBo, BoState
<1> QED BY <1>1, <1>2, <1>3, FreedSound, MoveToSnoopSound DEF kgem_bo_move_to_cache

\* An idle bo, released or not, stays sound.
LEMMA ReleaseSound ==
  ASSUME NEW b, NEW o \in SoundBo PROVE Release(b, o) \in SoundBo
  BY MoveToCacheSound DEF Release

\* A batch bo loses its mark together with the reference of its request.
LEMMA RetireBufferSound ==
  ASSUME NEW k, NEW g \in Gpu, NEW b, k.bo[b] \in SoundBo
  PROVE RetireBuffer(k, g, b) \in SoundBo
<1> DEFINE o == k.bo[b]
           idle == [o EXCEPT !.rq = NoRq, !.needs_flush = FALSE, !.domain = "none"]
<1>1. idle \in SoundBo /\ idle.refcnt = o.refcnt /\ idle.refcnt \in Nat
  BY Values DEF SoundBo, BoState, BatchOwned
<1>2. CASE o.batch
  <2>1. [idle EXCEPT !.refcnt = 0, !.batch = FALSE, !.list = "inactive"] \in SoundBo
    BY <1>1, Values DEF SoundBo, BoState, BatchOwned
  <2>2. ASSUME o.refcnt # 1
        PROVE  [idle EXCEPT !.refcnt = @ - 1, !.batch = FALSE] \in SoundBo
    <3>1. idle.refcnt - 1 \in Nat BY <1>1, <1>2, <2>2 DEF SoundBo, BatchOwned
    <3> QED BY <1>1, <3>1 DEF SoundBo, BoState, BatchOwned
  <2> QED BY <1>2, <2>1, <2>2 DEF RetireBuffer
<1>3. CASE ~o.batch /\ Flushes(k, g, b)
  <2>1. Written(g, b) \in BOOLEAN BY DEF Written
  <2>2. [o EXCEPT !.rq = Foreign, !.needs_flush = Written(g, b)] \in SoundBo
    BY <2>1, Values DEF SoundBo, BoState, BatchOwned
  <2> QED BY <1>3, <2>2 DEF RetireBuffer
<1>4. CASE ~o.batch /\ ~Flushes(k, g, b)
  BY <1>1, <1>4, ReleaseSound DEF RetireBuffer
<1> QED BY <1>2, <1>3, <1>4

-----------------------------------------------------------------------------
(* Functions of one struct kgem.                                             *)

\* A non-empty set of requests has a newest one, so Newest is defined.
LEMMA LargestRequest ==
  ASSUME NEW S \in SUBSET Req, S # {}
  PROVE  \E m \in S : \A s \in S : s <= m
<1> DEFINE T == {n \in Nat : \E s \in S : n = MaxReq - s}
<1>1. PICK s0 \in S : TRUE OBVIOUS
<1>2. MaxReq - s0 \in T BY BoundsAssumption DEF Req
<1>3. T \subseteq Nat /\ T # {} BY <1>2
<1>4. PICK t \in T : \A u \in T : ~ (<<u, t>> \in OpToRel(<, Nat))
  BY <1>3, NatLessThanWellFounded, WFMin
<1>5. \A u \in T : ~ (u < t) BY <1>3, <1>4 DEF OpToRel
<1>6. PICK m \in S : t = MaxReq - m OBVIOUS
<1>7. ASSUME NEW s \in S PROVE s <= m
  <2>1. MaxReq - s \in T BY BoundsAssumption DEF Req
  <2>2. ~ (MaxReq - s < MaxReq - m) BY <1>5, <1>6, <2>1
  <2>3. s \in Nat /\ m \in Nat /\ MaxReq \in Nat BY BoundsAssumption DEF Req
  <2> QED BY <2>2, <2>3
<1> QED BY <1>7

\* The bo of a sound state are sound, and make a function.
LEMMA SoundBos ==
  ASSUME NEW k, Sound(k)
  PROVE  k.bo \in [Bo -> SoundBo]
  BY DEF Sound, Kgem, SoundBo

\* Other values for the bo and for need_expire, fewer bo on the flushing list.
LEMMA QuietSound ==
  ASSUME NEW k, Sound(k), NEW bos \in [Bo -> SoundBo],
         NEW S, S \subseteq k.flushing, NEW e \in BOOLEAN
  PROVE  /\ Sound([k EXCEPT !.bo = bos, !.flushing = S])
         /\ Sound([k EXCEPT !.bo = bos, !.flushing = S, !.need_expire = e])
         /\ Sound([k EXCEPT !.bo = bos])
         /\ Sound([k EXCEPT !.need_expire = e])
<1> DEFINE k1 == [k EXCEPT !.bo = bos, !.flushing = S]
           k2 == [k EXCEPT !.bo = bos, !.flushing = S, !.need_expire = e]
           k3 == [k EXCEPT !.bo = bos]
           k4 == [k EXCEPT !.need_expire = e]
<1>1. k \in Kgem /\ S \in SUBSET Bo /\ bos \in [Bo -> BoState] BY DEF Sound, Kgem, SoundBo
<1>2. k1 \in Kgem /\ k2 \in Kgem /\ k3 \in Kgem /\ k4 \in Kgem
  BY <1>1 DEF Kgem
<1>3. \A b \in Bo : k1.bo[b] \in SoundBo /\ k2.bo[b] \in SoundBo /\ k3.bo[b] \in SoundBo /\ k4.bo[b] \in SoundBo
  BY <1>1 DEF Kgem, Sound
<1>4. Armed(k1) /\ Armed(k2) /\ Armed(k3) /\ Armed(k4)
  BY <1>1 DEF Kgem, Sound, Armed, Outstanding
<1>5. Fenced(k1) /\ Fenced(k2) /\ Fenced(k3) /\ Fenced(k4)
  BY <1>1 DEF Kgem, Sound, Fenced
<1> QED BY <1>2, <1>3, <1>4, <1>5 DEF Sound

\* New values for the bo; the flushing list only loses entries.
LEMMA UpdateSound ==
  ASSUME NEW k, Sound(k), NEW bos \in [Bo -> SoundBo], NEW S, S \subseteq k.flushing
  PROVE  Sound(Update(k, bos, S))
<1>1. StillFlushing(S, bos) \subseteq k.flushing BY DEF StillFlushing
<1> QED BY <1>1, QuietSound DEF Update

\* One bo replaced by a sound one.
LEMMA OneBoSound ==
  ASSUME NEW k, Sound(k), NEW b \in Bo, NEW o \in SoundBo
  PROVE  /\ Sound([k EXCEPT !.bo[b] = o])
         /\ Sound(Update(k, [k.bo EXCEPT ![b] = o], k.flushing))
<1>1. [k.bo EXCEPT ![b] = o] \in [Bo -> SoundBo] BY SoundBos
<1> QED BY <1>1, QuietSound, UpdateSound

\* Freeing bo leaves requests, fences and the timers alone.
LEMMA FreeAllSound ==
  ASSUME NEW k, Sound(k), NEW S PROVE Sound(FreeAll(k, S))
<1>1. [b \in Bo |-> IF b \in S THEN Freed ELSE k.bo[b]] \in [Bo -> SoundBo]
  BY SoundBos, FreedSound
<1> QED BY <1>1, UpdateSound DEF FreeAll

\* Retiring: requests leave their lists together with the fences that name them,
\* and what goes to the flushing list sets need_retire.
LEMMA RetireRqSound ==
  ASSUME NEW k, Sound(k), NEW g \in Gpu, NEW R
  PROVE  Sound(__kgem_retire_rq(k, g, R))
<1> DEFINE S == Buffers(k, R)
           F == {b \in S : ~k.bo[b].batch /\ Flushes(k, g, b)}
           bos == [b \in Bo |-> IF b \in S THEN RetireBuffer(k, g, b) ELSE k.bo[b]]
           unref == {b \in S \ F : bos[b].refcnt = 0}
           k1 == [k EXCEPT !.bo = bos,
               !.flushing = @ \cup F,
               !.requests = [n \in Ring |-> @[n] \ R],
               !.fence = [n \in Ring |-> IF @[n] \in R THEN NoFence ELSE @[n]],
               !.need_retire = @ \/ F # {},
               !.need_expire = @ \/ Cached(unref, bos)]
<1>1. k \in Kgem BY DEF Sound
<1>2. bos \in [Bo -> SoundBo] BY SoundBos, RetireBufferSound
<1>3. bos \in [Bo -> BoState] BY <1>2 DEF SoundBo
<1>4. F \in SUBSET Bo BY DEF Buffers
<1>5. Cached(unref, bos) \in BOOLEAN BY DEF Cached
<1>6. [n \in Ring |-> k.requests[n] \ R] \in [Ring -> SUBSET Req] BY <1>1 DEF Kgem
<1>7. [n \in Ring |-> IF k.fence[n] \in R THEN NoFence ELSE k.fence[n]] \in [Ring -> 0..MaxReq]
  BY <1>1, BoundsAssumption DEF Kgem, NoFence
<1> HIDE DEF S, F, bos, unref
<1>8. k1 \in Kgem BY <1>1, <1>3, <1>4, <1>5, <1>6, <1>7 DEF Kgem
<1>9. \A b \in Bo : k1.bo[b] \in SoundBo BY <1>1, <1>2 DEF Kgem
<1>10. Armed(k1)
  <2>1. Outstanding(k1) \subseteq Outstanding(k) BY <1>1 DEF Outstanding, Kgem
  <2>2. k1.flushing = k.flushing \cup F /\ k1.need_retire = (k.need_retire \/ F # {})
    BY <1>1 DEF Kgem
  <2> QED BY <2>1, <2>2 DEF Sound, Armed
<1>11. Fenced(k1)
  BY <1>1 DEF Sound, Fenced, Kgem
<1> QED BY <1>8, <1>9, <1>10, <1>11 DEF Sound, __kgem_retire_rq, S, F, bos, unref

\* The flushing list: the idle bo leave it and go to their caches.
LEMMA RetireFlushingSound ==
  ASSUME NEW k, Sound(k), NEW F PROVE Sound(kgem_retire__flushing(k, F))
<1> DEFINE bos == [b \in Bo |-> IF b \in F THEN Release(b, __kgem_bo_clear_busy(k.bo[b]))
                                           ELSE k.bo[b]]
           k1 == Update(k, bos, k.flushing)
           e == k1.need_expire \/ Cached({b \in F : bos[b].refcnt = 0}, bos)
<1>1. bos \in [Bo -> SoundBo] BY SoundBos, ClearBusySound, ReleaseSound
<1>2. Sound(k1) BY <1>1, UpdateSound
<1>3. e \in BOOLEAN BY DEF Cached
<1>4. Sound([k1 EXCEPT !.need_expire = e])
  BY <1>2, <1>3, QuietSound, SoundBos
<1> QED BY <1>4 DEF kgem_retire__flushing

\* Retiring the complete requests of both rings.
LEMMA RetireRequestsSound ==
  ASSUME NEW k, Sound(k), NEW g \in Gpu PROVE Sound(kgem_retire__requests(k, g))
  BY RetireRqSound DEF kgem_retire__requests

\* kgem_retire may clear need_retire: only when nothing is left to wait for.
LEMMA RetireSound ==
  ASSUME NEW k, Sound(k), NEW g \in Gpu, NEW F PROVE Sound(kgem_retire(k, g, F))
<1> DEFINE k1 == kgem_retire__requests(kgem_retire__flushing(k, F), g)
           a == k1.flushing # {} \/ Outstanding(k1) # {}
           k2 == [k1 EXCEPT !.need_retire = a]
<1>1. Sound(k1) BY RetireFlushingSound, RetireRequestsSound
<1> HIDE DEF k1
<1>2. k2 \in Kgem BY <1>1 DEF Sound, Kgem
<1>3. /\ k2.bo = k1.bo /\ k2.requests = k1.requests /\ k2.fence = k1.fence
      /\ k2.flushing = k1.flushing /\ k2.need_retire = a /\ k2.wedged = k1.wedged
  BY <1>1 DEF Sound, Kgem
<1>4. Armed(k2) BY <1>3 DEF Armed, Outstanding
<1>5. Fenced(k2) BY <1>1, <1>3 DEF Sound, Fenced
<1> QED BY <1>1, <1>2, <1>3, <1>4, <1>5 DEF Sound, kgem_retire, k1

\* When the ring is not idle its fence moves to its newest request, which is
\* newer than the old fence and therefore still there.
LEMMA RingIsIdleSound ==
  ASSUME NEW k, Sound(k), NEW g \in Gpu, NEW n \in Ring, k.requests[n] # {}
  PROVE  Sound(__kgem_ring_is_idle(k, g, n))
<1> DEFINE fence == k.fence[n]
           R == {r \in k.requests[n] : r <= fence}
           k1 == __kgem_retire_rq(k, g, R)
           newest == Newest(k, n)
           k2 == [k1 EXCEPT !.fence[n] = newest]
<1>1. k \in Kgem /\ k.requests[n] \in SUBSET Req /\ fence \in 0..MaxReq
  BY DEF Sound, Kgem
<1>2. newest \in k.requests[n] /\ \A s \in k.requests[n] : s <= newest
  BY <1>1, LargestRequest DEF Newest
<1>3. Sound(k1) BY RetireRqSound
<1>4. k1.requests[n] = k.requests[n] \ R /\ k1.wedged = k.wedged
  BY <1>1 DEF __kgem_retire_rq, Kgem
<1>5. CASE fence # NoFence /\ ~Done(k, g, fence)
  <2>1. __kgem_ring_is_idle(k, g, n) = k BY <1>5 DEF __kgem_ring_is_idle, RingIdle
  <2> QED BY <2>1
<1>6. CASE RingIdle(k, g, n)
  <2>1. __kgem_ring_is_idle(k, g, n) = __kgem_retire_rq(k, g, k.requests[n])
    BY <1>6 DEF __kgem_ring_is_idle, RingIdle
  <2> QED BY <2>1, RetireRqSound
<1>7. CASE (fence # NoFence => Done(k, g, fence)) /\ ~RingIdle(k, g, n)
  <2>1. __kgem_ring_is_idle(k, g, n) = k2 BY <1>7 DEF __kgem_ring_is_idle
  <2>2. ~Done(k, g, newest) BY <1>7 DEF RingIdle
  <2>3. newest # fence BY <1>1, <1>2, <1>7, <2>2, BoundsAssumption DEF Req, NoFence
  <2>4. fence \in k.requests[n] \cup {NoFence} \/ k.wedged BY DEF Sound, Fenced
  <2>5. k.wedged \/ newest \in k1.requests[n]
    <3>1. ASSUME ~k.wedged, newest \in R PROVE FALSE
      <4>1. newest <= fence /\ fence \in k.requests[n]
        BY <1>1, <1>2, <2>4, <3>1, BoundsAssumption DEF Req, NoFence
      <4>2. fence <= newest BY <1>2, <4>1
      <4> QED BY <1>1, <1>2, <2>3, <4>1, <4>2, BoundsAssumption DEF Req
    <3> QED BY <1>2, <1>4, <3>1
  <2>6. newest \in 0..MaxReq BY <1>1, <1>2, BoundsAssumption DEF Req
  <2> HIDE DEF k1, newest, fence
  <2>7. k2 \in Kgem BY <1>3, <2>6 DEF Sound, Kgem
  <2>8. /\ k2.bo = k1.bo /\ k2.requests = k1.requests /\ k2.flushing = k1.flushing
        /\ k2.need_retire = k1.need_retire /\ k2.wedged = k1.wedged
        /\ \A m \in Ring : k2.fence[m] = IF m = n THEN newest ELSE k1.fence[m]
    BY <1>3 DEF Sound, Kgem
  <2>9. Armed(k2) BY <1>3, <2>8 DEF Sound, Armed, Outstanding
  <2>10. Fenced(k2) BY <1>3, <1>4, <2>5, <2>8 DEF Sound, Fenced
  <2> QED BY <1>3, <2>1, <2>7, <2>8, <2>9, <2>10 DEF Sound
<1> QED BY <1>5, <1>6, <1>7

\* The ring that is asked has requests, also after the other one was retired.
LEMMA KgemRingIsIdleSound ==
  ASSUME NEW k, Sound(k), NEW g \in Gpu, NEW n \in Ring, NEW semaphore \in BOOLEAN
  PROVE  Sound(kgem_ring_is_idle(k, g, n, semaphore))
<1> DEFINE other == semaphore /\ k.requests[1 - n] # {}
           k1 == IF other THEN __kgem_ring_is_idle(k, g, 1 - n) ELSE k
<1>1. 1 - n \in Ring BY DEF Ring
<1>2. Sound(k1) BY <1>1, RingIsIdleSound
<1>3. k1.requests[n] # {} => Sound(__kgem_ring_is_idle(k1, g, n)) BY <1>2, RingIsIdleSound
<1> QED BY <1>2, <1>3 DEF kgem_ring_is_idle

\* Retiring the ring up to the request of one bo.
LEMMA RetireUptoSound ==
  ASSUME NEW k, Sound(k), NEW g \in Gpu, NEW b \in Bo
  PROVE  Sound(__kgem_retire_requests_upto(k, g, b))
<1>1. Sound(Update(k, [k.bo EXCEPT ![b] = __kgem_bo_clear_busy(@)], k.flushing))
  BY OneBoSound, SoundBos, ClearBusySound
<1> QED BY <1>1, RetireRqSound DEF __kgem_retire_requests_upto

\* kgem_bo_retire: the same, for a bo that has a request.
LEMMA BoRetireSound ==
  ASSUME NEW k, Sound(k), NEW g \in Gpu, NEW b \in Bo
  PROVE  Sound(kgem_bo_retire(k, g, b))
  BY RetireUptoSound DEF kgem_bo_retire

\* A query of one bo may retire its request.
LEMMA BoIsBusySound ==
  ASSUME NEW k, Sound(k), NEW g \in Gpu, NEW b \in Bo
  PROVE  Sound(__kgem_bo_is_busy(k, g, b))
  BY BoRetireSound DEF __kgem_bo_is_busy

\* Discarding the batch.
LEMMA ResetSound ==
  ASSUME NEW k, Sound(k), NEW g \in Gpu, NEW held
  PROVE  Sound(kgem_reset(k, g, held))
<1> DEFINE S == Buffers(k, {k.next})
           F == ResetFlushes(k, g)
           idle(b) == [__kgem_bo_clear_busy(k.bo[b]) EXCEPT !.exec = FALSE, !.write = FALSE]
           busy(b) == [k.bo[b] EXCEPT !.exec = FALSE, !.write = FALSE, !.rq = Foreign]
           bos == [b \in Bo |->
                CASE b \notin S -> k.bo[b]
                  [] b \in F -> busy(b)
                  [] b \in S \ F -> IF b \in held THEN idle(b) ELSE Release(b, idle(b))]
           k1 == [k EXCEPT !.bo = bos,
               !.flushing = @ \cup F,
               !.need_retire = @ \/ F # {},
               !.need_expire = @ \/ Cached({b \in S \ (F \cup held) : bos[b].refcnt = 0}, bos)]
<1>1. k \in Kgem BY DEF Sound
<1>2. F \subseteq S BY DEF ResetFlushes
<1>3. ASSUME NEW b \in Bo PROVE bos[b] \in SoundBo
  <2>1. k.bo[b] \in SoundBo /\ __kgem_bo_clear_busy(k.bo[b]) \in SoundBo
    BY ClearBusySound DEF Sound
  <2>2. idle(b) \in SoundBo BY <2>1 DEF SoundBo, BoState, BatchOwned
  <2>3. busy(b) \in SoundBo BY <2>1, Values DEF SoundBo, BoState, BatchOwned
  <2>4. Release(b, idle(b)) \in SoundBo BY <2>2, ReleaseSound
  <2> HIDE DEF S, F, idle, busy
  <2> QED BY <1>2, <2>1, <2>2, <2>3, <2>4
<1>4. F \in SUBSET Bo BY DEF ResetFlushes, Buffers
<1>5. bos \in [Bo -> BoState] BY <1>3 DEF SoundBo
<1>6. Cached({b \in S \ (F \cup held) : bos[b].refcnt = 0}, bos) \in BOOLEAN BY DEF Cached
<1> HIDE DEF S, F, bos
<1>7. k1 \in Kgem BY <1>1, <1>4, <1>5, <1>6 DEF Kgem
<1>8. \A b \in Bo : k1.bo[b] \in SoundBo BY <1>1, <1>3 DEF Kgem
<1>9. Armed(k1)
  <2>1. Outstanding(k1) = Outstanding(k) BY <1>1 DEF Outstanding, Kgem
  <2>2. k1.flushing = k.flushing \cup F /\ k1.need_retire = (k.need_retire \/ F # {})
    BY <1>1 DEF Kgem
  <2> QED BY <2>1, <2>2 DEF Sound, Armed
<1>10. Fenced(k1) BY <1>1 DEF Sound, Fenced, Kgem
<1> QED BY <1>7, <1>8, <1>9, <1>10 DEF Sound, kgem_reset, S, F, bos

\* Undoing a batch resets it, or does nothing.
LEMMA UndoSound ==
  ASSUME NEW k, Sound(k), NEW g \in Gpu, NEW S PROVE Sound(kgem_bo_undo(k, g, S))
  BY ResetSound DEF kgem_bo_undo

\* Submitting the batch.
LEMMA CreateBatchSound ==
  ASSUME NEW k, Sound(k), NEW c \in Bo PROVE Sound(kgem_create_batch(k, c))
<1> DEFINE o == IF k.bo[c].list = "freed" THEN NewBo ELSE k.bo[c]
           o1 == [o EXCEPT !.refcnt = 1, !.list = "none", !.batch = TRUE,
                           !.exec = TRUE, !.rq = k.next]
<1>1. o \in SoundBo BY NewBoSound DEF Sound
<1>2. k.next \in Rq BY Values DEF Sound, Kgem
<1> HIDE DEF o, o1
<1>3. "none" \in Lists BY Values
<1>4. o1 \in BoState BY <1>1, <1>2, <1>3 DEF o1, SoundBo, BoState
<1>5. o1.refcnt = 1 BY <1>1 DEF o1, SoundBo, BoState
<1>6. o1 \in SoundBo BY <1>4, <1>5 DEF SoundBo, BatchOwned
<1> USE DEF o, o1
<1> QED BY <1>6, OneBoSound DEF kgem_create_batch

\* A commit lists the request before a fence names it, and sets need_retire.
LEMMA CommitSound ==
  ASSUME NEW k, Sound(k), k.next <= MaxReq PROVE Sound(kgem_commit(k))
<1> DEFINE commit(o) == IF o.refcnt = 0 /\ ~o.reusable
                        THEN Freed
                        ELSE [o EXCEPT !.exec = FALSE, !.write = FALSE, !.domain = "gpu"]
           bos == [b \in Bo |-> IF b \in Buffers(k, {k.next}) THEN commit(k.bo[b]) ELSE k.bo[b]]
           k1 == kgem_commit(k)
<1>1. k \in Kgem /\ k.next \in Req /\ k.next + 1 \in 1..(MaxReq + 1) /\ k.next \in 0..MaxReq
  BY BoundsAssumption DEF Sound, Kgem, Req
<1>2. ASSUME NEW o \in SoundBo PROVE commit(o) \in SoundBo
  BY Values, FreedSound DEF SoundBo, BoState, BatchOwned
<1>3. bos \in [Bo -> SoundBo] BY <1>2, SoundBos
<1>4. bos \in [Bo -> BoState] BY <1>3 DEF SoundBo
<1> HIDE DEF bos
<1>5. k1 = [k EXCEPT !.bo = bos,
                     !.requests[k.ring] = @ \cup {k.next},
                     !.fence[k.ring] = IF @ = NoFence THEN k.next ELSE @,
                     !.need_retire = TRUE,
                     !.next = @ + 1]
  BY DEF kgem_commit, bos
<1> HIDE DEF k1
<1>6. k1 \in Kgem BY <1>1, <1>4, <1>5 DEF Kgem
<1>7. \A b \in Bo : k1.bo[b] \in SoundBo BY <1>1, <1>3, <1>5 DEF Kgem
<1>8. Armed(k1) BY <1>1, <1>5 DEF Kgem, Armed
<1>9. Fenced(k1) BY <1>1, <1>5 DEF Kgem, Sound, Fenced
<1> QED BY <1>6, <1>7, <1>8, <1>9 DEF Sound, k1

-----------------------------------------------------------------------------
(* The caches.                                                               *)

\* The struct that kgem_bo_destroy leaves, cached or freed.
LEMMA DestroySound ==
  ASSUME NEW g, NEW b, NEW o \in SoundBo, NEW keep
  PROVE  __kgem_bo_destroy(g, b, o, keep) \in SoundBo
<1> DEFINE discard == IF o.exec THEN o ELSE Freed
           idle == IF ~o.exec /\ o.rq # NoRq /\ ~Busy(g, b) THEN __kgem_bo_clear_busy(o) ELSE o
<1>1. discard \in SoundBo BY FreedSound
<1>2. idle \in SoundBo BY ClearBusySound
<1>3. [o EXCEPT !.list = "scanout"] \in SoundBo BY Values DEF SoundBo, BoState, BatchOwned
<1>4. kgem_bo_move_to_snoop(b, idle) \in SoundBo BY <1>2, MoveToSnoopSound
<1> HIDE DEF idle, discard
<1>5. [idle EXCEPT !.list = "active"] \in SoundBo /\ [idle EXCEPT !.list = "inactive"] \in SoundBo
  BY <1>2, Values DEF SoundBo, BoState, BatchOwned
<1>6. /\ o.prime \in BOOLEAN /\ o.snoop \in BOOLEAN /\ o.scanout \in BOOLEAN
      /\ o.reusable \in BOOLEAN
  BY DEF SoundBo, BoState
<1> QED BY <1>1, <1>2, <1>3, <1>4, <1>5, <1>6, FreedSound DEF __kgem_bo_destroy, idle, discard

\* Framebuffers go back to the ordinary caches.
LEMMA CleanScanoutSound ==
  ASSUME NEW k, Sound(k), NEW g, NEW S, NEW cached \in BOOLEAN
  PROVE  Sound(CleanScanout(k, g, S, cached))
<1> DEFINE clean(b) == [k.bo[b] EXCEPT !.scanout = FALSE, !.list = "none",
                                       !.reusable = HasLLC => cached]
           bos == [b \in Bo |-> IF b \in S THEN __kgem_bo_destroy(g, b, clean(b), FALSE)
                                           ELSE k.bo[b]]
           k1 == Update(k, bos, k.flushing)
<1>1. ASSUME NEW b \in Bo PROVE clean(b) \in SoundBo
  BY FlagsAssumption, Values DEF Sound, SoundBo, BoState, BatchOwned
<1>2. bos \in [Bo -> SoundBo] BY <1>1, DestroySound, SoundBos
<1>3. Sound(k1) BY <1>2, UpdateSound
<1>4. (k1.need_expire \/ Cached(S, bos)) \in BOOLEAN BY DEF Cached
<1>5. Sound([k1 EXCEPT !.need_expire = k1.need_expire \/ Cached(S, bos)])
  BY <1>3, <1>4, QuietSound, SoundBos
<1> QED BY <1>5 DEF CleanScanout

\* kgem_cleanup leaves the fences alone: they must have been cleared, or the
\* device be wedged, when it frees the requests.
LEMMA CleanupSound ==
  ASSUME NEW k, Sound(k), k.wedged \/ Outstanding(k) = {}
  PROVE  Sound(kgem_cleanup(k))
<1> DEFINE Drop(o) ==
             LET refcnt == IF o.batch THEN o.refcnt - 1 ELSE o.refcnt
             IN IF refcnt = 0 THEN Freed
                ELSE [__kgem_bo_clear_busy(o) EXCEPT !.refcnt = refcnt, !.batch = FALSE]
           S == Buffers(k, Outstanding(k))
           bos == [b \in Bo |-> 
                IF b \in S THEN Drop(k.bo[b])
                ELSE IF k.bo[b].list = "inactive" /\ b \notin Large THEN Freed ELSE k.bo[b]]
           k0 == Update(k, bos, k.flushing)
           k1 == [k0 EXCEPT !.requests = [n \in Ring |-> {}]]
<1>1. ASSUME NEW o \in SoundBo PROVE Drop(o) \in SoundBo
  <2> DEFINE refcnt == IF o.batch THEN o.refcnt - 1 ELSE o.refcnt
  <2>1. refcnt \in Nat BY DEF SoundBo, BoState, BatchOwned
  <2>2. __kgem_bo_clear_busy(o) \in SoundBo BY ClearBusySound
  <2> HIDE DEF refcnt
  <2>3. [__kgem_bo_clear_busy(o) EXCEPT !.refcnt = refcnt, !.batch = FALSE] \in SoundBo
    BY <2>1, <2>2 DEF SoundBo, BoState, BatchOwned
  <2> QED BY <2>3, FreedSound DEF refcnt
<1>2. bos \in [Bo -> SoundBo] BY <1>1, SoundBos, FreedSound
<1>3. Sound(k0) BY <1>2, UpdateSound
<1>4. k0.requests = k.requests /\ k0.wedged = k.wedged /\ k0.fence = k.fence
  BY DEF Update, Sound, Kgem
<1>5. k0.wedged \/ \A n \in Ring : k0.fence[n] = NoFence
  BY <1>3, <1>4 DEF Sound, Fenced, Outstanding
<1> HIDE DEF k0
<1>6. k1 \in Kgem BY <1>3 DEF Sound, Kgem
<1>7. \A b \in Bo : k1.bo[b] \in SoundBo BY <1>3 DEF Sound, Kgem
<1>8. Outstanding(k1) = {} BY <1>3 DEF Sound, Kgem, Outstanding
<1>9. Armed(k1) BY <1>3, <1>8 DEF Sound, Kgem, Armed
<1>10. Fenced(k1) BY <1>3, <1>5 DEF Sound, Kgem, Fenced
<1> QED BY <1>6, <1>7, <1>9, <1>10 DEF Sound, kgem_cleanup, k0

\* Nothing but a submission, a retirement or a clean-up changes the requests.
LEMMA KeepsRequests ==
  ASSUME NEW k, Sound(k), NEW bos, NEW S, NEW g, NEW cached
  PROVE  /\ Update(k, bos, S).requests = k.requests /\ Update(k, bos, S).wedged = k.wedged
         /\ FreeAll(k, S).requests = k.requests /\ FreeAll(k, S).wedged = k.wedged
         /\ CleanScanout(k, g, S, cached).requests = k.requests
         /\ CleanScanout(k, g, S, cached).wedged = k.wedged
<1>1. k \in Kgem BY DEF Sound
<1>2. \A f : Update(k, f, k.flushing).requests = k.requests /\ Update(k, f, k.flushing).wedged = k.wedged
  BY <1>1 DEF Kgem, Update
<1>3. Update(k, bos, S).requests = k.requests /\ Update(k, bos, S).wedged = k.wedged
  BY <1>1 DEF Kgem, Update
<1>4. FreeAll(k, S).requests = k.requests /\ FreeAll(k, S).wedged = k.wedged
  BY <1>2 DEF FreeAll
<1>5. \A f, e : /\ [Update(k, f, k.flushing) EXCEPT !.need_expire = e].requests = k.requests
                /\ [Update(k, f, k.flushing) EXCEPT !.need_expire = e].wedged = k.wedged
  BY <1>1 DEF Kgem, Update
<1>6. /\ CleanScanout(k, g, S, cached).requests = k.requests
      /\ CleanScanout(k, g, S, cached).wedged = k.wedged
  BY <1>5 DEF CleanScanout
<1> QED BY <1>3, <1>4, <1>6

\* Retiring R removes R from every ring and does not wedge the device.
LEMMA RetireRqKeeps ==
  ASSUME NEW k, Sound(k), NEW g, NEW R
  PROVE  /\ __kgem_retire_rq(k, g, R).requests = [n \in Ring |-> k.requests[n] \ R]
         /\ (__kgem_retire_rq(k, g, R).wedged <=> k.wedged)
  BY DEF __kgem_retire_rq, Sound, Kgem

\* Retiring does not number a new request.
LEMMA RetireRqKeepsNext ==
  ASSUME NEW k, Sound(k), NEW g, NEW R PROVE __kgem_retire_rq(k, g, R).next = k.next
  BY DEF __kgem_retire_rq, Sound, Kgem

\* kgem_retire adds no request.
LEMMA RetireKeeps ==
  ASSUME NEW k, Sound(k), NEW g, NEW F
  PROVE  /\ (kgem_retire(k, g, F).wedged <=> k.wedged)
         /\ Outstanding(k) = {} => Outstanding(kgem_retire(k, g, F)) = {}
<1> DEFINE k1 == kgem_retire__flushing(k, F)
           k2 == kgem_retire__requests(k1, g)
           k3 == kgem_retire(k, g, F)
<1>1. Sound(k1) BY RetireFlushingSound
<1>2. (k1.wedged <=> k.wedged) /\ k1.requests = k.requests
  BY DEF kgem_retire__flushing, Update, Sound, Kgem
<1> HIDE DEF k1
<1>3. (k2.wedged <=> k1.wedged) /\ \A n \in Ring : k2.requests[n] \subseteq k1.requests[n]
  <2>1. PICK R : k2 = __kgem_retire_rq(k1, g, R) BY DEF kgem_retire__requests
  <2>2. __kgem_retire_rq(k1, g, R).wedged <=> k1.wedged BY <1>1, RetireRqKeeps
  <2>3. __kgem_retire_rq(k1, g, R).requests = [n \in Ring |-> k1.requests[n] \ R]
    BY <1>1, RetireRqKeeps
  <2> HIDE DEF k2
  <2> QED BY <2>1, <2>2, <2>3
<1>4. k3 = [k2 EXCEPT !.need_retire = k2.flushing # {} \/ Outstanding(k2) # {}]
  BY DEF kgem_retire, k1
<1>5. (k3.wedged <=> k2.wedged) /\ k3.requests = k2.requests
  BY <1>4 DEF kgem_retire__requests, __kgem_retire_rq
<1> HIDE DEF k1, k2, k3
<1>6. k3.wedged <=> k.wedged BY <1>2, <1>3, <1>5
<1>7. Outstanding(k) = {} => Outstanding(k3) = {} BY <1>2, <1>3, <1>5 DEF Outstanding
<1> QED BY <1>6, <1>7 DEF k3

\* The expire timer plays no part in the invariant.
LEMMA NeedExpireSound ==
  ASSUME NEW k, Sound(k), NEW e \in BOOLEAN PROVE Sound([k EXCEPT !.need_expire = e])
  BY QuietSound, SoundBos

\* kgem_expire_cache calls kgem_cleanup only once the device is wedged.
LEMMA ExpireCacheSound ==
  ASSUME NEW k, Sound(k), NEW g \in Gpu, NEW V, NEW cached \in BOOLEAN, NEW X, NEW F, NEW E
  PROVE  Sound(kgem_expire_cache(k, g, V, cached, X, F, E))
<1> DEFINE k1 == FreeAll(k, InCache(k, "inactive") \cap Large)
           k2 == kgem_retire(FreeAll(CleanScanout(k1, g, V, cached), X), g, F)
           k3 == IF k.wedged THEN kgem_cleanup(k2) ELSE k2
           k4 == FreeAll(k3, E \cap InCache(k3, "inactive"))
           e == InCache(k4, "inactive") \ Large # {}
<1>1. Sound(k1) BY FreeAllSound
<1>2. Sound(CleanScanout(k1, g, V, cached)) BY <1>1, CleanScanoutSound
<1>3. Sound(FreeAll(CleanScanout(k1, g, V, cached), X)) BY <1>2, FreeAllSound
<1>4. Sound(k2) BY <1>3, RetireSound
<1>5. k2.wedged <=> k.wedged
  <2>1. k1.wedged = k.wedged BY KeepsRequests
  <2>2. CleanScanout(k1, g, V, cached).wedged = k1.wedged BY <1>1, KeepsRequests
  <2>3. FreeAll(CleanScanout(k1, g, V, cached), X).wedged = CleanScanout(k1, g, V, cached).wedged
    BY <1>2, KeepsRequests
  <2> QED BY <1>3, <2>1, <2>2, <2>3, RetireKeeps
<1> HIDE DEF k1, k2
<1>6. Sound(k3) BY <1>4, <1>5, CleanupSound
<1> HIDE DEF k3
<1>7. Sound(k4) BY <1>6, FreeAllSound
<1> HIDE DEF k4
<1>8. Sound([k4 EXCEPT !.need_expire = e]) BY <1>7, NeedExpireSound
<1> QED BY <1>8 DEF kgem_expire_cache, k1, k2, k3, k4

\* kgem_cleanup_cache retires every request before it calls kgem_cleanup.
LEMMA CleanupCacheSound ==
  ASSUME NEW k, Sound(k), NEW g \in Gpu, NEW F, NEW V, NEW cached \in BOOLEAN
  PROVE  Sound(kgem_cleanup_cache(k, g, F, V, cached))
<1> DEFINE k0 == __kgem_retire_rq(k, g, Outstanding(k))
           k1 == kgem_cleanup(kgem_retire(k0, g, F))
           k2 == CleanScanout(FreeAll(k1, InCache(k1, "inactive")), g, V, cached)
           k3 == FreeAll(k2, InCache(k2, "snoop"))
<1>1. Sound(k0) BY RetireRqSound
<1>2. Outstanding(k0) = {}
  <2>1. k0.requests = [n \in Ring |-> k.requests[n] \ Outstanding(k)] BY RetireRqKeeps
  <2>2. \A n \in Ring : k.requests[n] \ Outstanding(k) = {} BY DEF Outstanding
  <2> HIDE DEF k0
  <2>3. \A n \in Ring : k0.requests[n] = {} BY <2>1, <2>2
  <2> QED BY <2>3 DEF Outstanding
<1> HIDE DEF k0
<1>3. Sound(kgem_retire(k0, g, F)) BY <1>1, RetireSound
<1>4. Sound(k1) BY <1>1, <1>2, <1>3, RetireKeeps, CleanupSound
<1> HIDE DEF k1
<1>5. Sound(FreeAll(k1, InCache(k1, "inactive"))) BY <1>4, FreeAllSound
<1>6. Sound(k2) BY <1>5, CleanScanoutSound
<1> HIDE DEF k2
<1>7. Sound(k3) BY <1>6, FreeAllSound
<1> HIDE DEF k3
<1>8. Sound([k3 EXCEPT !.need_expire = FALSE]) BY <1>7, NeedExpireSound
<1> QED BY <1>4, <1>8 DEF kgem_cleanup_cache, k0, k1, k2, k3

-----------------------------------------------------------------------------
(* The kernel.                                                               *)

\* What the kernel knows, after requests have completed.
LEMMA CompletedType ==
  ASSUME NEW g \in Gpu, NEW C PROVE Completed(g, C) \in Gpu
<1>1. 0 \in Ring BY DEF Ring
<1> QED BY <1>1 DEF Gpu, Completed

\* What the kernel knows, after handles were closed.
LEMMA ClosedType ==
  ASSUME NEW g \in Gpu, NEW k PROVE Closed(g, k) \in Gpu
  BY DEF Gpu, Closed

\* What the kernel knows, after a submission within the bound MaxReq.
LEMMA ExecbufType ==
  ASSUME NEW g \in Gpu, NEW k \in Kgem, k.next <= MaxReq PROVE Execbuf(g, k) \in Gpu
<1>1. k.next \in Req /\ k.ring \in Ring BY BoundsAssumption DEF Kgem, Req
<1>2. ExecList(k) \in SUBSET Bo /\ {b \in Bo : k.bo[b].write} \in SUBSET Bo BY DEF ExecList
<1> QED BY <1>1, <1>2 DEF Gpu, Execbuf

\* What the kernel knows, after a wait for one bo.
LEMMA WaitType ==
  ASSUME NEW g \in Gpu, NEW b, NEW h \in WaitIdle(g, b) \cup WaitWritten(g, b)
  PROVE  h \in Gpu
<1>1. PICK C : h = [Completed(g, C) EXCEPT !.others = @ \ {b}]
  BY DEF WaitIdle, WaitWritten
<1>2. Completed(g, C) \in Gpu BY CompletedType
<1> HIDE DEF Gpu
<1>3. ASSUME NEW c \in Gpu PROVE [c EXCEPT !.others = @ \ {b}] \in Gpu BY DEF Gpu
<1> QED BY <1>1, <1>2, <1>3

\* The state after a call, the kernel's after its ioctls.
LEMMA StepSound ==
  ASSUME NEW k, Sound(k), NEW g \in Gpu, Step(k, g) PROVE IInv'
  BY ClosedType DEF Step, IInv

\* Only a submission numbers a new request.
LEMMA KeepsNext ==
  ASSUME NEW k, Sound(k), NEW S, NEW g \in Gpu, NEW F, NEW e
  PROVE  /\ FreeAll(k, S).next = k.next
         /\ kgem_cleanup(k).next = k.next
         /\ kgem_retire(k, g, F).next = k.next
         /\ [k EXCEPT !.need_expire = e].next = k.next
<1>1. k \in Kgem BY DEF Sound
<1>2. \A f : Update(k, f, k.flushing).next = k.next BY <1>1 DEF Kgem, Update
<1>3. \A f, a : /\ [Update(k, f, k.flushing) EXCEPT !.need_expire = a].next = k.next
                /\ [Update(k, f, k.flushing) EXCEPT !.requests = a].next = k.next
  BY <1>1 DEF Kgem, Update
<1>4. FreeAll(k, S).next = k.next BY <1>2 DEF FreeAll
<1>6. kgem_cleanup(k).next = k.next
  <2>1. \E f : kgem_cleanup(k) = [Update(k, f, k.flushing) EXCEPT !.requests = [n \in Ring |-> {}]]
    BY DEF kgem_cleanup
  <2> QED BY <1>3, <2>1
<1>8. kgem_retire(k, g, F).next = k.next
  <2>1. kgem_retire__flushing(k, F).next = k.next BY <1>3 DEF kgem_retire__flushing
  <2>2. Sound(kgem_retire__flushing(k, F)) BY RetireFlushingSound
  <2>3. ASSUME NEW k1, Sound(k1), NEW Q PROVE __kgem_retire_rq(k1, g, Q).next = k1.next
    BY <2>3, RetireRqKeepsNext
  <2>4. ASSUME NEW k1, Sound(k1), NEW a PROVE [k1 EXCEPT !.need_retire = a].next = k1.next
    BY <2>4 DEF Sound, Kgem
  <2> QED BY <2>1, <2>2, <2>3, <2>4, RetireRequestsSound DEF kgem_retire, kgem_retire__requests
<1>9. [k EXCEPT !.need_expire = e].next = k.next BY <1>1 DEF Kgem
<1> QED BY <1>4, <1>6, <1>8, <1>9

\* Cleaning up the framebuffers numbers no request.
LEMMA CleanScanoutKeepsNext ==
  ASSUME NEW k, Sound(k), NEW g, NEW S, NEW cached
  PROVE  CleanScanout(k, g, S, cached).next = k.next
  BY DEF CleanScanout, Update, Sound, Kgem

\* Nor does the expiry of the caches.
LEMMA ExpireCacheKeepsNext ==
  ASSUME NEW k, Sound(k), NEW g \in Gpu, NEW V, NEW cached \in BOOLEAN, NEW X, NEW F, NEW E
  PROVE  kgem_expire_cache(k, g, V, cached, X, F, E).next = k.next
<1> DEFINE k1 == FreeAll(k, InCache(k, "inactive") \cap Large)
           k2 == CleanScanout(k1, g, V, cached)
           k3 == FreeAll(k2, X)
           k4 == kgem_retire(k3, g, F)
           k5 == IF k.wedged THEN kgem_cleanup(k4) ELSE k4
           k6 == FreeAll(k5, E \cap InCache(k5, "inactive"))
<1>1. Sound(k1) /\ k1.next = k.next BY FreeAllSound, KeepsNext
<1> HIDE DEF k1
<1>2. Sound(k2) /\ k2.next = k1.next
  <2>1. Sound(k2) BY <1>1, CleanScanoutSound
  <2>2. k2.next = k1.next BY <1>1, CleanScanoutKeepsNext
  <2> QED BY <2>1, <2>2
<1>3. k2.wedged <=> k1.wedged BY <1>1, KeepsRequests
<1> HIDE DEF k2
<1>4. Sound(k3) /\ k3.next = k2.next /\ (k3.wedged <=> k2.wedged)
  BY <1>2, FreeAllSound, KeepsNext, KeepsRequests
<1> HIDE DEF k3
<1>5. Sound(k4) /\ k4.next = k3.next /\ (k4.wedged <=> k3.wedged)
  BY <1>4, RetireSound, KeepsNext, RetireKeeps
<1>6. k1.wedged <=> k.wedged BY KeepsRequests DEF k1
<1> HIDE DEF k4
<1>7. Sound(k5) /\ k5.next = k4.next BY <1>3, <1>4, <1>5, <1>6, CleanupSound, KeepsNext
<1> HIDE DEF k5
<1>8. Sound(k6) /\ k6.next = k5.next BY <1>7, FreeAllSound, KeepsNext
<1> HIDE DEF k6
<1>9. [k6 EXCEPT !.need_expire = InCache(k6, "inactive") \ Large # {}].next = k6.next
  BY <1>8, KeepsNext
<1>10. kgem_expire_cache(k, g, V, cached, X, F, E)
         = [k6 EXCEPT !.need_expire = InCache(k6, "inactive") \ Large # {}]
  BY DEF kgem_expire_cache, k1, k2, k3, k4, k5, k6
<1> QED BY <1>1, <1>2, <1>4, <1>5, <1>7, <1>8, <1>9, <1>10

\* Nor does their clean-up.
LEMMA CleanupCacheKeepsNext ==
  ASSUME NEW k, Sound(k), NEW g \in Gpu, NEW F, NEW V, NEW cached \in BOOLEAN
  PROVE  kgem_cleanup_cache(k, g, F, V, cached).next = k.next
<1> DEFINE k0 == __kgem_retire_rq(k, g, Outstanding(k))
           kr == kgem_retire(k0, g, F)
           k1 == kgem_cleanup(kr)
           k2 == FreeAll(k1, InCache(k1, "inactive"))
           k3 == CleanScanout(k2, g, V, cached)
           k4 == FreeAll(k3, InCache(k3, "snoop"))
<1>1. Sound(k0) /\ k0.next = k.next
  <2>1. Sound(k0) BY RetireRqSound
  <2>2. k0.next = k.next BY RetireRqKeepsNext
  <2> QED BY <2>1, <2>2
<1>2. Outstanding(k0) = {}
  <2>1. k0.requests = [n \in Ring |-> k.requests[n] \ Outstanding(k)] BY RetireRqKeeps
  <2>2. \A n \in Ring : k.requests[n] \ Outstanding(k) = {} BY DEF Outstanding
  <2> HIDE DEF k0
  <2>3. \A n \in Ring : k0.requests[n] = {} BY <2>1, <2>2
  <2> QED BY <2>3 DEF Outstanding
<1> HIDE DEF k0
<1>3. Sound(kr) /\ kr.next = k0.next /\ Outstanding(kr) = {}
  BY <1>1, <1>2, RetireSound, KeepsNext, RetireKeeps
<1> HIDE DEF kr
<1>4. Sound(k1) /\ k1.next = kr.next BY <1>3, CleanupSound, KeepsNext
<1> HIDE DEF k1
<1>5. Sound(k2) /\ k2.next = k1.next BY <1>4, FreeAllSound, KeepsNext
<1> HIDE DEF k2
<1>6. Sound(k3) /\ k3.next = k2.next
  <2>1. Sound(k3) BY <1>5, CleanScanoutSound
  <2>2. k3.next = k2.next BY <1>5, CleanScanoutKeepsNext
  <2> QED BY <2>1, <2>2
<1> HIDE DEF k3
<1>7. Sound(k4) /\ k4.next = k3.next BY <1>6, FreeAllSound, KeepsNext
<1> HIDE DEF k4
<1>8. [k4 EXCEPT !.need_expire = FALSE].next = k4.next BY <1>7, KeepsNext
<1>9. kgem_cleanup_cache(k, g, F, V, cached)
        = IF ~k1.need_expire THEN k1 ELSE [k4 EXCEPT !.need_expire = FALSE]
  BY DEF kgem_cleanup_cache, k0, kr, k1, k2, k3, k4
<1> QED BY <1>1, <1>3, <1>4, <1>5, <1>6, <1>7, <1>8, <1>9

\* set_caching either succeeds or fails.
LEMMA CacheableType ==
  ASSUME NEW k PROVE Cacheable(k) \subseteq BOOLEAN
  BY DEF Cacheable

\* What the expire timer and the clean-up leave behind.
LEMMA ExpiredSound ==
  ASSUME NEW k, Sound(k), NEW g \in Gpu, NEW p \in Expired(k, g)
  PROVE  Sound(p[1]) /\ p[1].next = k.next
<1>1. PICK V, cached, X, F, E :
             /\ cached \in Cacheable(k)
             /\ p = <<kgem_expire_cache(k, g, V, cached, X, F, E), E # {}>>
  BY DEF Expired
<1>2. p[1] = kgem_expire_cache(k, g, V, cached, X, F, E) BY <1>1
<1>3. cached \in BOOLEAN BY <1>1, CacheableType
<1> QED BY <1>2, <1>3, ExpireCacheSound, ExpireCacheKeepsNext

\* The same of the outcomes of the clean-up.
LEMMA CleanedUpSound ==
  ASSUME NEW k, Sound(k), NEW g \in Gpu, NEW c \in CleanedUp(k, g)
  PROVE  Sound(c) /\ c.next = k.next
<1>1. PICK F, V, cached : cached \in Cacheable(k) /\ c = kgem_cleanup_cache(k, g, F, V, cached)
  BY DEF CleanedUp
<1>2. cached \in BOOLEAN BY <1>1, CacheableType
<1> QED BY <1>1, <1>2, CleanupCacheSound, CleanupCacheKeepsNext

\* A search of the caches may retire, and numbers no request.
LEMMA SearchesSound ==
  ASSUME NEW k, Sound(k), NEW g \in Gpu, NEW s \in Searches(k, g)
  PROVE  Sound(s) /\ s.next = k.next
  BY KeepsNext, RetireSound DEF Searches

\* A bo handed to a client has one reference.
LEMMA HandedSound ==
  ASSUME NEW k, Sound(k), NEW b \in Bo, NEW o \in SoundBo PROVE Sound(Handed(k, b, o))
<1>1. "none" \in Lists BY Values
<1> DEFINE o1 == [o EXCEPT !.refcnt = 1, !.list = "none"]
<1>2. o1 \in BoState BY <1>1 DEF SoundBo, BoState
<1>3. o1.refcnt > 0 BY DEF SoundBo, BoState
<1> HIDE DEF o1
<1>4. o1 \in SoundBo BY <1>2, <1>3 DEF SoundBo, BatchOwned
<1> USE DEF o1
<1> QED BY <1>4, OneBoSound DEF Handed

\* The outcomes of a submission: a batch bo, execbuffer and the commit.
LEMMA SubmitSound ==
  ASSUME NEW k, Sound(k), NEW g \in Gpu, NEW p \in _kgem_submit(k, g)
  PROVE  Sound(p[1]) /\ p[2] \in Gpu
<1>1. ~(k.wedged \/ k.next > MaxReq) BY DEF _kgem_submit
<1>2. PICK s \in Searches(k, g), c \in Bo :
           p = <<kgem_commit(kgem_create_batch(s, c)),
                 Execbuf(Closed(g, s), kgem_create_batch(s, c))>>
  BY <1>1 DEF _kgem_submit, InCache
<1>3. Sound(s) /\ s.next = k.next BY SearchesSound
<1>4. Sound(kgem_create_batch(s, c)) BY <1>3, CreateBatchSound
<1>5. kgem_create_batch(s, c).next = s.next BY <1>3 DEF kgem_create_batch, Sound, Kgem
<1> HIDE DEF Searches
<1>6. k.next <= MaxReq BY <1>1, BoundsAssumption DEF Sound, Kgem
<1>7. Sound(kgem_commit(kgem_create_batch(s, c))) BY <1>3, <1>4, <1>5, <1>6, CommitSound
<1>8. Closed(g, s) \in Gpu BY ClosedType
<1>9. Execbuf(Closed(g, s), kgem_create_batch(s, c)) \in Gpu
  BY <1>3, <1>4, <1>5, <1>6, <1>8, ExecbufType DEF Sound
<1> QED BY <1>2, <1>7, <1>9

\* kgem_bo_submit submits only the batch of its bo.
LEMMA BoSubmitSound ==
  ASSUME NEW k, Sound(k), NEW g \in Gpu, NEW b, NEW p \in BoSubmit(k, g, b)
  PROVE  Sound(p[1]) /\ p[2] \in Gpu
  BY SubmitSound DEF BoSubmit

\* A bo the CPU waited for.
LEMMA SyncedSound ==
  ASSUME NEW k, Sound(k), NEW g \in Gpu, NEW b \in Bo, NEW domain \in {"cpu", "gtt"}
  PROVE  Sound(Synced(k, g, b, domain))
<1> DEFINE k0 == [k EXCEPT !.bo[b].needs_flush = FALSE]
           k1 == kgem_bo_retire(k0, g, b)
<1>1. [k.bo[b] EXCEPT !.needs_flush = FALSE] \in SoundBo
  BY DEF Sound, SoundBo, BoState, BatchOwned
<1>2. Sound([k EXCEPT !.bo[b] = [k.bo[b] EXCEPT !.needs_flush = FALSE]]) BY <1>1, OneBoSound
<1>3. k0 = [k EXCEPT !.bo[b] = [k.bo[b] EXCEPT !.needs_flush = FALSE]] BY DEF Sound, Kgem
<1>4. Sound(k1) BY <1>2, <1>3, BoRetireSound
<1> HIDE DEF k0, k1
<1>5. [k1.bo[b] EXCEPT !.domain = domain] \in SoundBo
  BY <1>4, Values DEF Sound, SoundBo, BoState, BatchOwned
<1>6. Sound([k1 EXCEPT !.bo[b] = [k1.bo[b] EXCEPT !.domain = domain]]) BY <1>4, <1>5, OneBoSound
<1>7. [k1 EXCEPT !.bo[b].domain = domain] = [k1 EXCEPT !.bo[b] = [k1.bo[b] EXCEPT !.domain = domain]]
  BY <1>4 DEF Sound, Kgem
<1> QED BY <1>6, <1>7 DEF Synced, k0, k1

-----------------------------------------------------------------------------
(* The specification.                                                        *)

\* The invariant holds when kgem_init returns.
LEMMA InitSound == Init => IInv
<1> SUFFICES ASSUME Init PROVE IInv OBVIOUS
<1>1. 0 \in Ring /\ NoFence \in 0..MaxReq /\ 1 \in 1..(MaxReq + 1)
  BY BoundsAssumption DEF Ring, NoFence
<1>2. kgem \in Kgem BY <1>1, FreedSound DEF Init, Kgem, SoundBo
<1>3. \A b \in Bo : kgem.bo[b] \in SoundBo BY FreedSound DEF Init
<1>4. Armed(kgem) BY DEF Init, Armed, Outstanding
<1>5. Fenced(kgem) BY DEF Init, Fenced
<1>6. gpu \in Gpu BY <1>1 DEF Init, Gpu
<1> QED BY <1>2, <1>3, <1>4, <1>5, <1>6 DEF IInv, Sound

\* The bo that the creating actions hand out are sound.
LEMMA MadeSound ==
  ASSUME NEW o \in SoundBo, NEW p \in MadeScanout(o) \cup MadeSnooped(o) PROVE p \in SoundBo
<1>1. [o EXCEPT !.scanout = TRUE, !.domain = "gtt"] \in SoundBo
  BY Values DEF SoundBo, BoState, BatchOwned
<1>2. [o EXCEPT !.snoop = TRUE] \in SoundBo BY DEF SoundBo, BoState, BatchOwned
<1> QED BY <1>1, <1>2 DEF MadeScanout, MadeSnooped

\* kgem_create_linear, kgem_create_2d and the import of foreign objects.
LEMMA CreateActions ==
  ASSUME IInv, NEW b \in Bo,
         \/ KgemCreate(b) \/ KgemReuseInactive(b) \/ KgemReuseActive(b) \/ KgemRetireActive(b)
         \/ KgemReuseSnoop(b) \/ KgemReuseScanout(b) \/ KgemImport(b) \/ KgemExport(b)
  PROVE  IInv'
<1>1. Sound(kgem) /\ gpu \in Gpu BY DEF IInv
<1>2. \A k \in Searched : Sound(k) BY <1>1, SearchesSound DEF Searched
<1>3. CASE KgemCreate(b)
  <2>1. PICK k \in Searched, o \in MadeScanout(NewBo) \cup MadeSnooped(NewBo) :
             Step(Handed(k, b, o), Closed(gpu, k))
    BY <1>3 DEF KgemCreate
  <2>2. Closed(gpu, k) \in Gpu BY <1>1, ClosedType
  <2> QED BY <1>1, <1>2, <2>1, <2>2, NewBoSound, MadeSound, HandedSound, StepSound
<1>4. CASE KgemReuseInactive(b)
  <2>1. PICK k \in Searched : \E o \in MadeScanout(k.bo[b]) \cup MadeSnooped(k.bo[b]) :
             Step(Handed(k, b, o), gpu)
    BY <1>4 DEF KgemReuseInactive
  <2>2. k.bo[b] \in SoundBo /\ Sound(k) BY <1>2 DEF Sound
  <2> QED BY <1>1, <2>1, <2>2, MadeSound, HandedSound, StepSound
<1>5. CASE KgemReuseActive(b)
  <2> DEFINE k == [kgem EXCEPT !.flushing = @ \ {b}]
  <2>1. k = [kgem EXCEPT !.bo = kgem.bo, !.flushing = kgem.flushing \ {b}]
    BY <1>1 DEF Sound, Kgem
  <2>2. Sound(k) BY <1>1, <2>1, QuietSound, SoundBos
  <2>3. kgem.bo[b] \in SoundBo BY <1>1 DEF Sound
  <2>4. Step(Handed(k, b, kgem.bo[b]), gpu) BY <1>5 DEF KgemReuseActive
  <2> QED BY <1>1, <2>2, <2>3, <2>4, HandedSound, StepSound
<1>6. CASE KgemRetireActive(b)
  <2>1. kgem.bo[b] \in SoundBo BY <1>1 DEF Sound
  <2>2. PICK o \in MadeScanout(__kgem_bo_clear_busy(kgem.bo[b])) : Step(Handed(kgem, b, o), gpu)
    BY <1>6 DEF KgemRetireActive
  <2> QED BY <1>1, <2>1, <2>2, ClearBusySound, MadeSound, HandedSound, StepSound
<1>7. CASE KgemReuseSnoop(b)
  <2>1. PICK k \in Searched : Step(Handed(k, b, k.bo[b]), gpu) BY <1>7 DEF KgemReuseSnoop
  <2>2. k.bo[b] \in SoundBo /\ Sound(k) BY <1>2 DEF Sound
  <2> QED BY <1>1, <2>1, <2>2, HandedSound, StepSound
<1>8. CASE KgemReuseScanout(b)
  <2>1. kgem.bo[b] \in SoundBo BY <1>1 DEF Sound
  <2> QED BY <1>1, <1>8, <2>1, HandedSound, StepSound DEF KgemReuseScanout
<1>9. CASE KgemImport(b)
  <2> DEFINE o == [NewBo EXCEPT !.prime = TRUE, !.reusable = FALSE, !.shared = TRUE,
                                !.domain = "none"]
  <2>1. o \in SoundBo BY NewBoSound, Values DEF SoundBo, BoState, BatchOwned
  <2>2. PICK p \in {kgem_bo_unclean(o)} \cup MadeForeign(o) : Step(Handed(kgem, b, p), gpu)
    BY <1>9 DEF KgemImport
  <2> HIDE DEF o
  <2>3. p \in SoundBo
    BY <2>1, <2>2, UncleanSound DEF MadeForeign, SoundBo, BoState, BatchOwned
  <2> QED BY <1>1, <2>2, <2>3, HandedSound, StepSound
<1>10. CASE KgemExport(b)
  <2> DEFINE o == [kgem.bo[b] EXCEPT !.reusable = FALSE, !.shared = TRUE]
  <2>1. o \in SoundBo BY <1>1 DEF Sound, SoundBo, BoState, BatchOwned
  <2>2. PICK p \in {kgem_bo_unclean(o), o} : Step([kgem EXCEPT !.bo[b] = p], gpu)
    BY <1>10 DEF KgemExport
  <2> HIDE DEF o
  <2>3. p \in SoundBo BY <2>1, <2>2, UncleanSound
  <2> QED BY <1>1, <2>2, <2>3, OneBoSound, StepSound
<1> QED BY <1>3, <1>4, <1>5, <1>6, <1>7, <1>8, <1>9, <1>10

\* Taking or dropping a reference that no request owns.
LEMMA ReferenceSound ==
  ASSUME NEW k, Sound(k), NEW b \in Bo, NEW r \in Nat, k.bo[b].batch => r > 0
  PROVE  Sound([k EXCEPT !.bo[b].refcnt = r])
<1>1. [k.bo[b] EXCEPT !.refcnt = r] \in SoundBo BY DEF Sound, SoundBo, BoState, BatchOwned
<1>2. Sound([k EXCEPT !.bo[b] = [k.bo[b] EXCEPT !.refcnt = r]]) BY <1>1, OneBoSound
<1>3. [k EXCEPT !.bo[b].refcnt = r] = [k EXCEPT !.bo[b] = [k.bo[b] EXCEPT !.refcnt = r]]
  BY DEF Sound, Kgem
<1> QED BY <1>2, <1>3

\* Dropping the last reference.
LEMMA UnreferencedSound ==
  ASSUME NEW k, Sound(k), gpu \in Gpu, NEW b \in Bo, NEW keep
  PROVE  Sound(Unreferenced(k, b, keep))
<1> DEFINE k1 == IF Recyclable(k.bo[b]) THEN kgem_bo_undo(k, gpu, {b}) ELSE k
           o1 == __kgem_bo_destroy(gpu, b, k1.bo[b], keep)
           k2 == Update(k1, [k1.bo EXCEPT ![b] = o1], k1.flushing)
           e == k2.need_expire \/ Cached({b}, [k1.bo EXCEPT ![b] = o1])
<1>1. Sound(k1) BY UndoSound
<1> HIDE DEF k1
<1>2. o1 \in SoundBo BY <1>1, DestroySound DEF Sound
<1> HIDE DEF o1
<1>3. Sound(k2) BY <1>1, <1>2, OneBoSound
<1>4. e \in BOOLEAN BY DEF Cached
<1> HIDE DEF k2
<1>5. Sound([k2 EXCEPT !.need_expire = e]) BY <1>3, <1>4, NeedExpireSound
<1> QED BY <1>5 DEF Unreferenced, k1, o1, k2

\* References, and the last one.
LEMMA ReferenceActions ==
  ASSUME IInv, NEW b \in Bo, KgemReference(b) \/ KgemReferenceFence(b) \/ KgemDestroy(b)
  PROVE  IInv'
<1>1. Sound(kgem) /\ gpu \in Gpu /\ kgem.bo[b].refcnt \in Nat
  BY DEF IInv, Sound, SoundBo, BoState
<1>2. CASE KgemReference(b) \/ KgemReferenceFence(b)
  <2>1. Step([kgem EXCEPT !.bo[b].refcnt = kgem.bo[b].refcnt + 1], gpu)
    BY <1>2 DEF KgemReference, KgemReferenceFence
  <2>2. kgem.bo[b].refcnt + 1 \in Nat /\ kgem.bo[b].refcnt + 1 > 0 BY <1>1
  <2>3. Sound([kgem EXCEPT !.bo[b].refcnt = kgem.bo[b].refcnt + 1])
    BY <1>1, <2>2, ReferenceSound
  <2> QED BY <1>1, <2>1, <2>3, StepSound
<1>3. CASE KgemDestroy(b)
  <2> DEFINE k == [kgem EXCEPT !.bo[b].refcnt = kgem.bo[b].refcnt - 1]
  <2>1. /\ kgem.bo[b].refcnt - 1 \in Nat
        /\ kgem.bo[b].batch => kgem.bo[b].refcnt - 1 > 0
    BY <1>1, <1>3 DEF KgemDestroy, Referenced
  <2>2. Sound(k) BY <1>1, <2>1, ReferenceSound
  <2>3. Step(k, gpu) \/ \E keep \in BOOLEAN : Step(Unreferenced(k, b, keep), gpu)
    BY <1>3 DEF KgemDestroy
  <2> HIDE DEF k
  <2> QED BY <1>1, <2>2, <2>3, UnreferencedSound, StepSound
<1> QED BY <1>2, <1>3

\* Building, submitting and discarding a batch.
LEMMA BatchActions ==
  ASSUME IInv,
         \/ \E b \in Bo, write \in BOOLEAN : KgemAddReloc(b, write)
         \/ \E b \in Bo, ring \in Ring : KgemSetMode(b, ring)
         \/ \E S \in SUBSET Bo : KgemUndo(S)
         \/ KgemSubmit \/ KgemSubmitRetries \/ KgemSubmitFails
  PROVE  IInv'
<1>1. Sound(kgem) /\ gpu \in Gpu BY DEF IInv
<1>2. \A k \in Searched : Sound(k) /\ k.next = kgem.next BY <1>1, SearchesSound DEF Searched
<1>3. ASSUME NEW b \in Bo, NEW write \in BOOLEAN, KgemAddReloc(b, write) PROVE IInv'
  <2> DEFINE o == kgem.bo[b]
             o1 == [o EXCEPT !.exec = TRUE, !.rq = kgem.next]
             o2 == IF write THEN [o1 EXCEPT !.write = TRUE, !.needs_flush = TRUE] ELSE o1
  <2>1. o \in SoundBo /\ kgem.next \in Rq BY <1>1, Values DEF Sound, Kgem
  <2> HIDE DEF o
  <2>2. o1 \in SoundBo BY <2>1 DEF SoundBo, BoState, BatchOwned
  <2> HIDE DEF o1
  <2>3. o2 \in SoundBo BY <2>2 DEF SoundBo, BoState, BatchOwned
  <2>4. Step(Update(kgem, [kgem.bo EXCEPT ![b] = o2], kgem.flushing), gpu)
    BY <1>3 DEF KgemAddReloc, o, o1
  <2> HIDE DEF o2
  <2> QED BY <1>1, <2>3, <2>4, OneBoSound, StepSound
<1>4. ASSUME NEW k, Sound(k), NEW ring \in Ring PROVE Sound([k EXCEPT !.ring = ring])
  <2> DEFINE k1 == [k EXCEPT !.ring = ring]
  <2>1. k1 \in Kgem BY <1>4 DEF Sound, Kgem
  <2>2. /\ k1.bo = k.bo /\ k1.requests = k.requests /\ k1.fence = k.fence
        /\ k1.flushing = k.flushing /\ (k1.need_retire <=> k.need_retire)
        /\ (k1.wedged <=> k.wedged)
    BY <1>4 DEF Sound, Kgem
  <2> HIDE DEF k1
  <2>3. Armed(k1) BY <1>4, <2>2 DEF Sound, Armed, Outstanding
  <2>4. Fenced(k1) BY <1>4, <2>2 DEF Sound, Fenced
  <2>5. Sound(k1) BY <1>4, <2>1, <2>2, <2>3, <2>4 DEF Sound
  <2> QED BY <2>5 DEF k1
<1>5. ASSUME NEW b \in Bo, NEW ring \in Ring, KgemSetMode(b, ring) PROVE IInv'
  <2>1. PICK semaphore \in BOOLEAN :
          \E k \in {kgem, kgem_ring_is_idle(kgem, gpu, kgem.ring, semaphore)} :
          \/ \E p \in _kgem_submit(k, gpu) : Step([p[1] EXCEPT !.ring = ring], p[2])
          \/ Step([k EXCEPT !.ring = ring], gpu)
    BY <1>5 DEF KgemSetMode
  <2> PICK k \in {kgem, kgem_ring_is_idle(kgem, gpu, kgem.ring, semaphore)} :
          \/ \E p \in _kgem_submit(k, gpu) : Step([p[1] EXCEPT !.ring = ring], p[2])
          \/ Step([k EXCEPT !.ring = ring], gpu)
    BY <2>1
  <2>2. kgem.ring \in Ring BY <1>1 DEF Sound, Kgem
  <2>3. Sound(k) BY <1>1, <2>1, <2>2, KgemRingIsIdleSound
  <2>4. \A p \in _kgem_submit(k, gpu) : Sound(p[1]) /\ p[2] \in Gpu BY <1>1, <2>3, SubmitSound
  <2> QED BY <1>1, <1>4, <2>1, <2>3, <2>4, StepSound
<1>6. ASSUME NEW S \in SUBSET Bo, KgemUndo(S) PROVE IInv'
  BY <1>1, <1>6, UndoSound, StepSound DEF KgemUndo
<1>7. CASE KgemSubmit
  <2>1. PICK p \in _kgem_submit(kgem, gpu) : Step(p[1], p[2]) BY <1>7 DEF KgemSubmit
  <2> QED BY <1>1, <2>1, SubmitSound, StepSound
<1>8. CASE KgemSubmitRetries
  <2> DEFINE done(h) == Completed(h, h.inflight)
             Retried(t, h) ==
               \E p \in Expired(t, h) :
                 \/ Step(kgem_commit(p[1]), Execbuf(h, p[1]))
                 \/ \E k1 \in CleanedUp(p[1], done(h)) : Step(kgem_commit(k1), Execbuf(done(h), k1))
  <2>1. PICK s \in Searched, c \in Bo :
          \E t \in Searches(kgem_create_batch(s, c), Closed(gpu, s)) : Retried(t, Closed(gpu, s))
    BY <1>8 DEF KgemSubmitRetries, InCache
  <2> DEFINE k == kgem_create_batch(s, c)
             h == Closed(gpu, s)
  <2>2. h \in Gpu /\ done(h) \in Gpu BY <1>1, ClosedType, CompletedType
  <2>3. Sound(k) BY <1>2, CreateBatchSound
  <2>4. k.next <= MaxReq
    <3>1. k.next = s.next BY <1>2 DEF kgem_create_batch, Sound, Kgem
    <3>2. kgem.next <= MaxReq BY <1>8 DEF KgemSubmitRetries
    <3> QED BY <1>2, <3>1, <3>2
  <2> HIDE DEF Retried, done, k, h
  <2>5. PICK t \in Searches(k, h) : Retried(t, h) BY <2>1 DEF k, h
  <2>t. Sound(t) /\ t.next <= MaxReq BY <2>2, <2>3, <2>4, <2>5, SearchesSound
  <2>p. PICK p \in Expired(t, h) :
            \/ Step(kgem_commit(p[1]), Execbuf(h, p[1]))
            \/ \E k1 \in CleanedUp(p[1], done(h)) : Step(kgem_commit(k1), Execbuf(done(h), k1))
    BY <2>5 DEF Retried
  <2>6. Sound(p[1]) /\ p[1].next <= MaxReq BY <2>2, <2>t, <2>p, ExpiredSound
  <2>7. ASSUME NEW k1, Sound(k1), k1.next <= MaxReq, NEW g \in Gpu,
               Step(kgem_commit(k1), Execbuf(g, k1))
        PROVE  IInv'
    <3>1. Sound(kgem_commit(k1)) BY <2>7, CommitSound
    <3>2. Execbuf(g, k1) \in Gpu BY <2>7, ExecbufType DEF Sound
    <3> QED BY <2>7, <3>1, <3>2, StepSound
  <2>8. ASSUME NEW k1 \in CleanedUp(p[1], done(h)) PROVE Sound(k1) /\ k1.next <= MaxReq
    BY <2>2, <2>6, CleanedUpSound
  <2> QED BY <2>2, <2>p, <2>6, <2>7, <2>8
<1>9. CASE KgemSubmitFails
  <2>0. PICK s \in Searched : \E k :
          /\ k = s \/ \E c \in Bo : k = kgem_create_batch(s, c)
          /\ Step(kgem_reset(kgem_cleanup([k EXCEPT !.wedged = TRUE]), Closed(gpu, s), {}), Closed(gpu, s))
    BY <1>9 DEF KgemSubmitFails, InCache
  <2>1. PICK k :
          /\ k = s \/ \E c \in Bo : k = kgem_create_batch(s, c)
          /\ Step(kgem_reset(kgem_cleanup([k EXCEPT !.wedged = TRUE]), Closed(gpu, s), {}), Closed(gpu, s))
    BY <2>0
  <2>c. Closed(gpu, s) \in Gpu BY <1>1, ClosedType
  <2> DEFINE k1 == [k EXCEPT !.wedged = TRUE]
  <2>2. Sound(k) BY <1>2, <2>1, CreateBatchSound
  <2>3. Sound(k1) /\ k1.wedged
    <3>1. k1 \in Kgem BY <2>2 DEF Sound, Kgem
    <3>2. /\ k1.bo = k.bo /\ k1.requests = k.requests
          /\ k1.flushing = k.flushing /\ (k1.need_retire <=> k.need_retire) /\ k1.wedged
      BY <2>2 DEF Sound, Kgem
    <3> HIDE DEF k1
    <3>3. Armed(k1) BY <2>2, <3>2 DEF Sound, Armed, Outstanding
    <3>4. Fenced(k1) BY <3>2 DEF Fenced
    <3> QED BY <2>2, <3>1, <3>2, <3>3, <3>4 DEF Sound
  <2> HIDE DEF k1
  <2>4. Sound(kgem_cleanup(k1)) BY <2>3, CleanupSound
  <2>5. Sound(kgem_reset(kgem_cleanup(k1), Closed(gpu, s), {})) BY <2>c, <2>4, ResetSound
  <2> QED BY <2>1, <2>c, <2>5, StepSound DEF k1
<1> QED BY <1>3, <1>5, <1>6, <1>7, <1>8, <1>9

\* A caller that only reads waits for the writers of a bo.
LEMMA ReadSyncedSound ==
  ASSUME NEW k, Sound(k), NEW g \in Gpu, NEW b \in Bo
  PROVE  Sound(ReadSynced(k, g, b))
<1> DEFINE k1 == [k EXCEPT !.bo[b].needs_flush = FALSE]
           k2 == IF k.bo[b].exec THEN k1 ELSE __kgem_bo_is_busy(k1, g, b)
<1>1. [k.bo[b] EXCEPT !.needs_flush = FALSE] \in SoundBo
  BY DEF Sound, SoundBo, BoState, BatchOwned
<1>2. k1 = [k EXCEPT !.bo[b] = [k.bo[b] EXCEPT !.needs_flush = FALSE]]
  BY DEF Sound, Kgem
<1>3. Sound(k1) BY <1>1, <1>2, OneBoSound
<1>4. ReadSynced(k, g, b) = [k2 EXCEPT !.bo[b].domain = "none"] BY DEF ReadSynced
<1> HIDE DEF k1
<1>5. Sound(k2) BY <1>3, BoIsBusySound
<1> HIDE DEF k2
<1> DEFINE o == [k2.bo[b] EXCEPT !.domain = "none"]
<1>6. o \in SoundBo BY <1>5, Values DEF Sound, SoundBo, BoState, BatchOwned
<1>7. ReadSynced(k, g, b) = [k2 EXCEPT !.bo[b] = o] BY <1>4, <1>5 DEF Sound, Kgem
<1> HIDE DEF o
<1>8. Sound([k2 EXCEPT !.bo[b] = o]) BY <1>5, <1>6, OneBoSound
<1> QED BY <1>7, <1>8

\* Asking and waiting for one bo.
LEMMA SyncActions ==
  ASSUME IInv, NEW b \in Bo,
         \/ KgemBoIsBusy(b) \/ KgemBoSyncRead(b) \/ KgemScanoutFlush(b) \/ KgemBoMarkBusy(b)
         \/ \E domain \in {"cpu", "gtt"} : KgemBoSync(b, domain)
  PROVE  IInv'
<1>1. Sound(kgem) /\ gpu \in Gpu BY DEF IInv
<1>2. CASE KgemBoIsBusy(b) BY <1>1, <1>2, BoIsBusySound, StepSound DEF KgemBoIsBusy
<1>3. ASSUME NEW domain \in {"cpu", "gtt"}, KgemBoSync(b, domain) PROVE IInv'
  <2>1. PICK p \in BoSubmit(kgem, gpu, b) :
          \/ Step(p[1], p[2])
          \/ \E g \in WaitIdle(p[2], b) : Step(Synced(p[1], g, b, domain), g)
    BY <1>3 DEF KgemBoSync
  <2>2. Sound(p[1]) /\ p[2] \in Gpu BY <1>1, BoSubmitSound
  <2>3. ASSUME NEW g \in WaitIdle(p[2], b), Step(Synced(p[1], g, b, domain), g) PROVE IInv'
    <3>1. g \in Gpu BY <2>2, WaitType
    <3> QED BY <2>2, <2>3, <3>1, SyncedSound, StepSound
  <2> QED BY <2>1, <2>2, <2>3, StepSound
<1>4. CASE KgemBoSyncRead(b)
  <2>1. PICK p \in BoSubmit(kgem, gpu, b) \cup {<<kgem, gpu>>} :
          \/ Step(p[1], p[2])
          \/ \E g \in WaitWritten(p[2], b) : Step(ReadSynced(p[1], g, b), g)
    BY <1>4 DEF KgemBoSyncRead
  <2>2. Sound(p[1]) /\ p[2] \in Gpu BY <1>1, BoSubmitSound
  <2>3. ASSUME NEW g \in WaitWritten(p[2], b), Step(ReadSynced(p[1], g, b), g) PROVE IInv'
    <3>1. g \in Gpu BY <2>2, WaitType
    <3> QED BY <2>2, <2>3, <3>1, ReadSyncedSound, StepSound
  <2> QED BY <2>1, <2>2, <2>3, StepSound
<1>5. CASE KgemScanoutFlush(b)
  <2>1. PICK p \in BoSubmit(kgem, gpu, b) :
          LET o == p[1].bo[b]
              o1 == IF o.rq # NoRq /\ ~Busy(p[2], b) THEN __kgem_bo_clear_busy(o) ELSE o
              o2 == [o1 EXCEPT !.domain = "none", !.needs_flush = FALSE]
          IN Step(Update(p[1], [p[1].bo EXCEPT ![b] = o2], p[1].flushing), p[2])
    BY <1>5 DEF KgemScanoutFlush
  <2> DEFINE o == p[1].bo[b]
             o1 == IF o.rq # NoRq /\ ~Busy(p[2], b) THEN __kgem_bo_clear_busy(o) ELSE o
             o2 == [o1 EXCEPT !.domain = "none", !.needs_flush = FALSE]
  <2>2. Sound(p[1]) /\ p[2] \in Gpu BY <1>1, BoSubmitSound
  <2>3. o1 \in SoundBo BY <2>2, ClearBusySound DEF Sound
  <2> HIDE DEF o1
  <2>4. o2 \in SoundBo BY <2>3, Values DEF SoundBo, BoState, BatchOwned
  <2> HIDE DEF o2
  <2>5. Step(Update(p[1], [p[1].bo EXCEPT ![b] = o2], p[1].flushing), p[2])
    BY <2>1 DEF o1, o2
  <2> QED BY <2>2, <2>4, <2>5, OneBoSound, StepSound
<1>6. CASE KgemBoMarkBusy(b)
  <2> DEFINE o == kgem.bo[b]
             busy == [o EXCEPT !.needs_flush = TRUE, !.rq = IF @ = NoRq THEN Foreign ELSE @]
             F == IF o.rq = NoRq THEN kgem.flushing \cup {b} ELSE kgem.flushing
             a == kgem.need_retire \/ o.rq = NoRq
             k == [kgem EXCEPT !.bo[b] = busy, !.flushing = F, !.need_retire = a]
  <2>1. o \in SoundBo BY <1>1 DEF Sound
  <2>2. busy \in SoundBo BY <2>1, Values DEF SoundBo, BoState, BatchOwned
  <2>3. CASE Busy(gpu, b)
    <3>1. Step(k, gpu) BY <1>6, <2>3 DEF KgemBoMarkBusy
    <3>2. F \in SUBSET Bo /\ a \in BOOLEAN BY <1>1 DEF Sound, Kgem
    <3>3. F # {} => kgem.flushing # {} \/ a OBVIOUS
    <3>4. kgem.need_retire => a OBVIOUS
    <3>5. busy \in BoState BY <2>2 DEF SoundBo
    <3> HIDE DEF busy, F, a
    <3>6. k \in Kgem BY <1>1, <3>2, <3>5 DEF Sound, Kgem
    <3>7. /\ \A c \in Bo : k.bo[c] = IF c = b THEN busy ELSE kgem.bo[c]
          /\ k.requests = kgem.requests /\ k.fence = kgem.fence
          /\ k.flushing = F /\ k.need_retire = a /\ (k.wedged <=> kgem.wedged)
      BY <1>1 DEF Sound, Kgem
    <3> HIDE DEF k
    <3>8. Armed(k) BY <1>1, <3>3, <3>4, <3>7 DEF Sound, Armed, Outstanding
    <3>9. Fenced(k) BY <1>1, <3>7 DEF Sound, Fenced
    <3>10. Sound(k) BY <1>1, <2>2, <3>6, <3>7, <3>8, <3>9 DEF Sound
    <3> QED BY <1>1, <3>1, <3>10, StepSound
  <2>4. CASE ~Busy(gpu, b)
    BY <1>1, <1>6, <2>1, <2>4, ClearBusySound, OneBoSound, StepSound DEF KgemBoMarkBusy
  <2> QED BY <2>3, <2>4
<1> QED BY <1>2, <1>3, <1>4, <1>5, <1>6

\* The timers, the block handler, the GPU and the other processes.
LEMMA BackgroundActions ==
  ASSUME IInv,
         \/ KgemRetire \/ KgemIsIdle \/ KgemExpire \/ KgemCleanupCache
         \/ \E r \in Req : GpuCompletes(r)
         \/ \E b \in Bo : OthersUse(b) \/ OthersFinish(b)
  PROVE  IInv'
<1>1. Sound(kgem) /\ gpu \in Gpu BY DEF IInv
<1>2. CASE KgemRetire BY <1>1, <1>2, RetireSound, StepSound DEF KgemRetire
<1>3. CASE KgemIsIdle
  <2>1. kgem.ring \in Ring BY <1>1 DEF Sound, Kgem
  <2> QED BY <1>1, <1>3, <2>1, KgemRingIsIdleSound, StepSound DEF KgemIsIdle
<1>4. CASE KgemExpire
  <2>1. PICK p \in Expired(kgem, gpu) : Step(p[1], gpu) BY <1>4 DEF KgemExpire
  <2> QED BY <1>1, <2>1, ExpiredSound, StepSound
<1>5. CASE KgemCleanupCache
  <2> DEFINE done == Completed(gpu, gpu.inflight)
  <2>1. PICK k \in CleanedUp(kgem, done) : Step(k, done) BY <1>5 DEF KgemCleanupCache
  <2>2. done \in Gpu BY <1>1, CompletedType
  <2> HIDE DEF done
  <2> QED BY <1>1, <2>1, <2>2, CleanedUpSound, StepSound
<1>6. ASSUME NEW r \in Req, GpuCompletes(r) PROVE IInv'
  <2>1. kgem' = kgem /\ gpu' = Completed(gpu, {r}) BY <1>6 DEF GpuCompletes
  <2> QED BY <1>1, <2>1, CompletedType DEF IInv
<1>7. ASSUME NEW b \in Bo, OthersUse(b) \/ OthersFinish(b) PROVE IInv'
  <2>1. kgem' = kgem /\ gpu' \in {[gpu EXCEPT !.others = @ \cup {b}], [gpu EXCEPT !.others = @ \ {b}]}
    BY <1>7 DEF OthersUse, OthersFinish
  <2>2. gpu' \in Gpu BY <1>1, <2>1 DEF Gpu
  <2> QED BY <1>1, <2>1, <2>2 DEF IInv
<1> QED BY <1>2, <1>3, <1>4, <1>5, <1>6, <1>7

\* Sound is inductive.
THEOREM Invariance == Spec => []IInv
<1>1. Init => IInv BY InitSound
<1>2. IInv /\ [Next]_vars => IInv'
  <2> SUFFICES ASSUME IInv, [Next]_vars PROVE IInv' OBVIOUS
  <2>1. CASE Next BY <2>1, CreateActions, ReferenceActions, BatchActions, SyncActions, BackgroundActions DEF Next
  <2>2. CASE UNCHANGED vars BY <2>2 DEF vars, IInv
  <2> QED BY <2>1, <2>2
<1> QED BY <1>1, <1>2, PTL DEF Spec

\* TypeOK, for every number of bo and of requests.
THEOREM TypeCorrect == Spec => []TypeOK
<1>1. IInv => TypeOK BY DEF IInv, Sound, TypeOK
<1> QED BY <1>1, Invariance, PTL

\* RetireArmed: whatever waits for the GPU, some caller will retire it.
THEOREM RetireAlwaysArmed == Spec => []RetireArmed
<1>1. IInv => RetireArmed BY DEF IInv, Sound, Armed, RetireArmed
<1> QED BY <1>1, Invariance, PTL

\* FenceListed: kgem->fence[] never names a request that has been freed.
THEOREM FencesListed == Spec => []FenceListed
<1>1. IInv => FenceListed BY DEF IInv, Sound, Fenced, FenceListed
<1> QED BY <1>1, Invariance, PTL
=============================================================================
