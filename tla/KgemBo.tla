------------------------------- MODULE KgemBo -------------------------------
(***************************************************************************)
(* The buffer-object life cycle of the SNA backend (kgem.c, kgem.h): which *)
(* list of struct kgem a buffer object (bo) sits on, which request it      *)
(* belongs to, how batches are built, submitted and retired, and when a    *)
(* bo may be handed out again.                                             *)
(*                                                                         *)
(* The X server is one thread: an action is one call into kgem.  Between   *)
(* two calls the GPU (variable gpu, with the i915 kernel driver in front   *)
(* of it) completes requests in its own time.  The C functions that other  *)
(* functions call are operators from one state of struct kgem to the next, *)
(* under their C names.                                                    *)
(*                                                                         *)
(* Sizes, tilings, mappings and time stamps are abstracted: whatever they  *)
(* would select (this bo of the cache and not that one, expired or not) is *)
(* a free choice.                                                          *)
(***************************************************************************)
EXTENDS Integers, FiniteSets

CONSTANTS
  Bo,             \* the structs kgem_bo that can exist at the same time
  Large,          \* those above NUM_CACHE_BUCKETS: large/large_inactive lists
  Oversize,       \* those kgem_bo_move_to_snoop considers too large to keep
  MaxReq,         \* bound: requests submitted in a behaviour
  MaxRef,         \* bound: references clients take on one bo
  MaxExec,        \* bound: bo of one batch (aperture and exec[] in the code)
  HasLLC,         \* kgem->has_llc
  OrderedReads,   \* does the kernel order two reads of a bo on two rings?
  Undo,           \* do clients discard the batch of a bo (kgem_bo_undo)?
  Kinds           \* what clients (and a full aperture) bring into this instance

ASSUME BoundsAssumption ==
  /\ MaxReq \in Nat \ {0} /\ MaxRef \in Nat \ {0} /\ MaxExec \in Nat \ {0}
  /\ Large \subseteq Bo /\ Oversize \subseteq Bo
ASSUME FlagsAssumption ==
  /\ HasLLC \in BOOLEAN /\ OrderedReads \in BOOLEAN /\ Undo \in BOOLEAN
  /\ Kinds \subseteq {"active", "scanout", "snoop", "foreign", "pressure", "fence"}

VARIABLES
  kgem,           \* struct kgem and every struct kgem_bo
  gpu             \* the requests the kernel has not completed

vars == <<kgem, gpu>>

Ring == {0, 1}    \* kgem->requests[]: 1 is KGEM_BLT, 0 every other ring
Req == 1..MaxReq  \* requests, numbered in the order of their submission

NoRq == 0         \* bo->rq == NULL
Foreign == -1     \* RQ(bo->rq) == (void *)kgem: busy, but on no request of ours
NoFence == 0      \* kgem->fence[ring] == NULL

Domains == {"none", "cpu", "gtt", "gpu"}
Caches == {"active", "inactive", "snoop", "scanout"}
Lists == Caches \cup {"none", "freed"}
Rq == {NoRq, Foreign} \cup (1..(MaxReq + 1))

(* struct kgem_bo.  list is the cache bo->list is linked into, "freed" for a *)
(* struct on no list and no longer in use; write is EXEC_OBJECT_WRITE of     *)
(* bo->exec; batch says that the bo is rq->bo of its request; shared that    *)
(* another process may hold the same object.                                 *)
BoState ==
  [refcnt : Nat, exec : BOOLEAN, write : BOOLEAN, rq : Rq,
   needs_flush : BOOLEAN, domain : Domains, list : Lists,
   reusable : BOOLEAN, scanout : BOOLEAN, snoop : BOOLEAN, prime : BOOLEAN,
   shared : BOOLEAN, batch : BOOLEAN]

Kgem ==
  [bo : [Bo -> BoState], flushing : SUBSET Bo, requests : [Ring -> SUBSET Req],
   fence : [Ring -> 0..MaxReq], next : 1..(MaxReq + 1), ring : Ring,
   need_retire : BOOLEAN, need_expire : BOOLEAN, wedged : BOOLEAN]

Gpu ==
  [inflight : SUBSET Req, ring : [Req -> Ring], uses : [Req -> SUBSET Bo],
   writes : [Req -> SUBSET Bo], others : SUBSET Bo]

\* A struct that is not in use.
Freed ==
  [refcnt |-> 0, exec |-> FALSE, write |-> FALSE, rq |-> NoRq,
   needs_flush |-> FALSE, domain |-> "none", list |-> "freed",
   reusable |-> FALSE, scanout |-> FALSE, snoop |-> FALSE, prime |-> FALSE,
   shared |-> FALSE, batch |-> FALSE]

\* __kgem_bo_init: a bo just created by the kernel.
NewBo ==
  [Freed EXCEPT !.refcnt = 1, !.domain = "cpu", !.list = "none", !.reusable = TRUE]

Alive(k) == {b \in Bo : k.bo[b].list # "freed"}
Outstanding(k) == UNION {k.requests[n] : n \in Ring}
ExecList(k) == {b \in Bo : k.bo[b].exec}

-----------------------------------------------------------------------------
(* What the kernel answers, and what it does with the GPU (external).        *)

\* DRM_IOCTL_I915_GEM_BUSY: some request, or another process, still uses b.
Busy(g, b) == b \in g.others \/ \E r \in g.inflight : b \in g.uses[r]

\* The low word of its answer: a write of b is still pending.
Written(g, b) == b \in g.others \/ \E r \in g.inflight : b \in g.writes[r]

\* Request r waits for the older request s: same ring, or a conflict on a bo.
After(g, r, s) ==
  \/ g.ring[r] = g.ring[s]
  \/ g.writes[r] \cap g.uses[s] # {}
  \/ g.uses[r] \cap g.writes[s] # {}
  \/ OrderedReads /\ g.uses[r] \cap g.uses[s] # {}

\* The sets of requests the GPU can have completed by some later moment.
Completions(g) ==
  {C \in SUBSET g.inflight :
     \A r \in C, s \in g.inflight \ C : s < r => ~After(g, r, s)}

Completed(g, C) ==
  [g EXCEPT !.inflight = @ \ C,
            !.ring = [r \in Req |-> IF r \in C THEN 0 ELSE @[r]],
            !.uses = [r \in Req |-> IF r \in C THEN {} ELSE @[r]],
            !.writes = [r \in Req |-> IF r \in C THEN {} ELSE @[r]]]

\* gem_close: the handles of freed structs name nothing any more.
Closed(g, k) ==
  [g EXCEPT !.uses = [r \in Req |-> @[r] \cap Alive(k)],
            !.writes = [r \in Req |-> @[r] \cap Alive(k)],
            !.others = @ \cap Alive(k)]

\* DRM_IOCTL_I915_GEM_EXECBUFFER2 for the batch of k.
Execbuf(g, k) ==
  [g EXCEPT !.inflight = @ \cup {k.next},
            !.ring[k.next] = k.ring,
            !.uses[k.next] = ExecList(k),
            !.writes[k.next] = {b \in Bo : k.bo[b].write}]

-----------------------------------------------------------------------------
(* One bo.                                                                   *)

__kgem_bo_clear_busy(o) ==
  [o EXCEPT !.rq = NoRq, !.domain = "none", !.needs_flush = FALSE]

kgem_bo_unclean(o) ==
  [o EXCEPT !.needs_flush = TRUE,
            !.rq = IF o.rq = NoRq THEN Foreign ELSE o.rq,
            !.domain = IF o.domain = "gpu" THEN "gpu" ELSE "none"]

kgem_bo_move_to_snoop(b, o) ==
  IF b \in Oversize THEN Freed ELSE [o EXCEPT !.list = "snoop"]

kgem_bo_move_to_cache(b, o) ==
  CASE o.prime -> Freed
    [] ~o.prime /\ o.snoop -> kgem_bo_move_to_snoop(b, o)
    [] ~o.prime /\ ~o.snoop /\ o.scanout -> [o EXCEPT !.list = "scanout"]
    [] ~o.prime /\ ~o.snoop /\ ~o.scanout ->
         IF o.reusable THEN [o EXCEPT !.list = "inactive"] ELSE Freed

\* Mutants: a referenced bo is cached; a bo stays in the active cache.
ReleaseHeld(b, o) == kgem_bo_move_to_cache(b, o)
\* An idle bo goes to its cache unless somebody still holds it.
Release(b, o) == IF o.refcnt > 0 THEN o ELSE kgem_bo_move_to_cache(b, o)

\* The flushing list after an update: clear_busy, free and reuse unlink a bo.
StillFlushing(S, bos) == {b \in S : bos[b].rq = Foreign}

\* kgem_bo_move_to_{inactive,scanout,snoop} set need_expire.
Cached(S, bos) == \E b \in S : bos[b].list \in {"inactive", "scanout", "snoop"}

\* The state after the structs become bos and the flushing list flushing.
Update(k, bos, flushing) ==
  [k EXCEPT !.bo = bos, !.flushing = StillFlushing(flushing, bos)]

-----------------------------------------------------------------------------
(* Retiring.                                                                 *)

\* The batch bo of request r is idle.
Done(k, g, r) == \A b \in Bo : k.bo[b].rq = r /\ k.bo[b].batch => ~Busy(g, b)

Buffers(k, R) == {b \in Bo : k.bo[b].rq \in R}

\* __kgem_bo_flush: b was written and is still busy: watch it by itself.
Flushes(k, g, b) == k.bo[b].needs_flush /\ Busy(g, b)

\* Mutants: each buffer loses a reference, as the batch bo does; a bo that a
\* client holds keeps its request; a batch bo is cached nowhere.
RetireUnreferences(k, g, b) == [k.bo[b] EXCEPT !.rq = NoRq, !.refcnt = @ - 1, !.batch = FALSE]
RetireLeaksBatch(k, g, b) ==
  LET idle == [k.bo[b] EXCEPT !.rq = NoRq, !.needs_flush = FALSE, !.domain = "none"]
  IN IF idle.batch THEN [idle EXCEPT !.refcnt = @ - 1, !.batch = FALSE] ELSE Release(b, idle)

\* What __kgem_retire_rq does with one buffer of the request.
RetireBuffer(k, g, b) ==
  LET o == k.bo[b]
      idle == [o EXCEPT !.rq = NoRq, !.needs_flush = FALSE, !.domain = "none"]
  IN CASE o.batch -> IF o.refcnt = 1
                     THEN [idle EXCEPT !.refcnt = 0, !.batch = FALSE, !.list = "inactive"]
                     ELSE [idle EXCEPT !.refcnt = @ - 1, !.batch = FALSE]
       [] ~o.batch /\ Flushes(k, g, b) ->
            [o EXCEPT !.rq = Foreign, !.needs_flush = Written(g, b)]
       [] ~o.batch /\ ~Flushes(k, g, b) -> Release(b, idle)

\* Mutants: __kgem_retire_rq forgets kgem->fence or need_expire.
Retiring(k, g, R, fence, expire) ==
  LET S == Buffers(k, R)
      F == {b \in S : ~k.bo[b].batch /\ Flushes(k, g, b)}
      bos == [b \in Bo |-> IF b \in S THEN RetireBuffer(k, g, b) ELSE k.bo[b]]
  IN [k EXCEPT !.bo = bos,
               !.flushing = @ \cup F,
               !.requests = [n \in Ring |-> @[n] \ R],
               !.fence = [n \in Ring |-> IF fence /\ @[n] \in R THEN NoFence ELSE @[n]],
               !.need_retire = @ \/ F # {},
               !.need_expire = @ \/ (expire /\ Cached({b \in S \ F : bos[b].refcnt = 0}, bos))]
RetireKeepsFence(k, g, R) == Retiring(k, g, R, FALSE, TRUE)
RetireUnexpired(k, g, R) == Retiring(k, g, R, TRUE, FALSE)

\* __kgem_retire_rq for each request of R, oldest first.
__kgem_retire_rq(k, g, R) ==
  LET S == Buffers(k, R)
      F == {b \in S : ~k.bo[b].batch /\ Flushes(k, g, b)}
      bos == [b \in Bo |-> IF b \in S THEN RetireBuffer(k, g, b) ELSE k.bo[b]]
      unref == {b \in S \ F : bos[b].refcnt = 0}
  IN [k EXCEPT !.bo = bos,
               !.flushing = @ \cup F,
               !.requests = [n \in Ring |-> @[n] \ R],
               !.fence = [n \in Ring |-> IF @[n] \in R THEN NoFence ELSE @[n]],
               !.need_retire = @ \/ F # {},
               !.need_expire = @ \/ Cached(unref, bos)]

\* The prefix of ring n that kgem_retire__requests_ring retires.
Retirable(k, g, n) ==
  {r \in k.requests[n] : \A s \in k.requests[n] : s <= r => Done(k, g, s)}

\* The scan of the flushing list stops at the first busy bo: it retires all of
\* the idle ones, or some of them if a busy one can come before the others.
FlushScans(k, g) ==
  LET idle == {b \in k.flushing : ~Busy(g, b)}
  IN IF idle = k.flushing THEN {idle} ELSE SUBSET idle

kgem_retire__flushing(k, F) ==
  LET bos == [b \in Bo |-> IF b \in F THEN Release(b, __kgem_bo_clear_busy(k.bo[b]))
                                      ELSE k.bo[b]]
  IN [Update(k, bos, k.flushing) EXCEPT
        !.need_expire = @ \/ Cached({b \in F : bos[b].refcnt = 0}, bos)]

kgem_retire__requests(k, g) ==
  __kgem_retire_rq(k, g, UNION {Retirable(k, g, n) : n \in Ring})

kgem_retire(k, g, F) ==
  LET k1 == kgem_retire__requests(kgem_retire__flushing(k, F), g)
  IN [k1 EXCEPT !.need_retire = k1.flushing # {} \/ Outstanding(k1) # {}]

RingOf(k, r) == {n \in Ring : r \in k.requests[n]}

Newest(k, n) == CHOOSE r \in k.requests[n] : \A s \in k.requests[n] : s <= r

\* The return value of __kgem_ring_is_idle, for a ring with requests.
RingIdle(k, g, n) ==
  /\ k.fence[n] # NoFence => Done(k, g, k.fence[n])
  /\ Done(k, g, Newest(k, n))

\* Its effect: retire up to the fence, then either everything, or move the fence.
__kgem_ring_is_idle(k, g, n) ==
  LET fence == k.fence[n]
      k1 == __kgem_retire_rq(k, g, {r \in k.requests[n] : r <= fence})
  IN CASE fence # NoFence /\ ~Done(k, g, fence) -> k
       [] RingIdle(k, g, n) -> __kgem_retire_rq(k, g, k.requests[n])
       [] (fence # NoFence => Done(k, g, fence)) /\ ~RingIdle(k, g, n) ->
            [k1 EXCEPT !.fence[n] = Newest(k, n)]

\* kgem_ring_is_idle: with needs_semaphore the other ring is asked first.
kgem_ring_is_idle(k, g, n, semaphore) ==
  LET other == semaphore /\ k.requests[1 - n] # {}
      k1 == IF other THEN __kgem_ring_is_idle(k, g, 1 - n) ELSE k
  IN IF k1.requests[n] = {} \/ (other /\ ~RingIdle(k, g, 1 - n))
     THEN k1
     ELSE __kgem_ring_is_idle(k1, g, n)

__kgem_retire_requests_upto(k, g, b) ==
  IF k.bo[b].rq = Foreign
  THEN Update(k, [k.bo EXCEPT ![b] = __kgem_bo_clear_busy(@)], k.flushing)
  ELSE __kgem_retire_rq(k, g, {r \in Outstanding(k) :
                                 /\ RingOf(k, r) = RingOf(k, k.bo[b].rq)
                                 /\ r <= k.bo[b].rq})

kgem_bo_retire(k, g, b) ==
  IF k.bo[b].rq = NoRq THEN k ELSE __kgem_retire_requests_upto(k, g, b)

\* Mutant: the kernel is not asked.
BoIsBusyUnasked(k, g, b) == IF k.bo[b].exec THEN k ELSE kgem_bo_retire(k, g, b)

__kgem_bo_is_busy(k, g, b) ==
  IF k.bo[b].exec \/ Busy(g, b) THEN k ELSE kgem_bo_retire(k, g, b)

-----------------------------------------------------------------------------
(* Discarding and submitting the batch.                                      *)

\* Mutant: a discarded bo is taken to be idle.
FlushesNothing(k, g) == {}

\* The buffers of the batch that go to the flushing list: earlier requests
\* still write them.
ResetFlushes(k, g) == {b \in Buffers(k, {k.next}) : Flushes(k, g, b)}

\* kgem_reset: forget the batch.  held are bo the caller keeps a reference on.
kgem_reset(k, g, held) ==
  LET S == Buffers(k, {k.next})
      F == ResetFlushes(k, g)
      idle(b) == [__kgem_bo_clear_busy(k.bo[b]) EXCEPT !.exec = FALSE, !.write = FALSE]
      bos == [b \in Bo |->
                CASE b \notin S -> k.bo[b]
                  [] b \in F -> [k.bo[b] EXCEPT !.exec = FALSE, !.write = FALSE, !.rq = Foreign]
                  [] b \in S \ F -> IF b \in held THEN idle(b) ELSE Release(b, idle(b))]
  IN [k EXCEPT !.bo = bos,
               !.flushing = @ \cup F,
               !.need_retire = @ \/ F # {},
               !.need_expire = @ \/ Cached({b \in S \ (F \cup held) : bos[b].refcnt = 0}, bos)]

\* kgem_bo_undo, kgem_bo_pair_undo: the batch holds S and nothing else.
kgem_bo_undo(k, g, S) == IF ExecList(k) = S THEN kgem_reset(k, g, S) ELSE k

\* Mutant: the request has no reference of its own on its batch bo.
BatchUnowned(k, c) ==
  LET o == IF k.bo[c].list = "freed" THEN NewBo ELSE k.bo[c]
  IN [k EXCEPT !.bo[c] = [o EXCEPT !.refcnt = 0, !.list = "none", !.batch = TRUE,
                                   !.exec = TRUE, !.rq = k.next]]

\* kgem_create_batch: rq->bo is an inactive bo or a new one, on the exec list.
kgem_create_batch(k, c) ==
  LET o == IF k.bo[c].list = "freed" THEN NewBo ELSE k.bo[c]
  IN [k EXCEPT !.bo[c] = [o EXCEPT !.refcnt = 1, !.list = "none", !.batch = TRUE,
                                   !.exec = TRUE, !.rq = k.next]]

\* Mutants: exec entries outlive the batch; the domain is not moved to the GPU;
\* need_retire is not set.
Committing(k, exec, domain, retire) ==
  LET commit(o) == IF o.refcnt = 0 /\ ~o.reusable THEN Freed
                   ELSE [o EXCEPT !.exec = exec /\ @, !.write = FALSE,
                                  !.domain = IF domain THEN "gpu" ELSE @]
  IN [k EXCEPT
        !.bo = [b \in Bo |-> IF b \in Buffers(k, {k.next}) THEN commit(k.bo[b]) ELSE k.bo[b]],
        !.requests[k.ring] = @ \cup {k.next},
        !.fence[k.ring] = IF @ = NoFence THEN k.next ELSE @,
        !.need_retire = @ \/ retire,
        !.next = @ + 1]
CommitKeepsExec(k) == Committing(k, TRUE, TRUE, TRUE)
CommitKeepsDomain(k) == Committing(k, FALSE, FALSE, TRUE)
CommitUnarmed(k) == Committing(k, FALSE, TRUE, FALSE)

\* kgem_commit, after the kernel accepted the batch, and the kgem_reset after it.
kgem_commit(k) ==
  LET commit(o) == IF o.refcnt = 0 /\ ~o.reusable
                   THEN Freed
                   ELSE [o EXCEPT !.exec = FALSE, !.write = FALSE, !.domain = "gpu"]
  IN [k EXCEPT
        !.bo = [b \in Bo |-> IF b \in Buffers(k, {k.next}) THEN commit(k.bo[b]) ELSE k.bo[b]],
        !.requests[k.ring] = @ \cup {k.next},
        !.fence[k.ring] = IF @ = NoFence THEN k.next ELSE @,
        !.need_retire = TRUE,
        !.next = @ + 1]

-----------------------------------------------------------------------------
(* The caches.                                                               *)

FreeAll(k, S) ==
  Update(k, [b \in Bo |-> IF b \in S THEN Freed ELSE k.bo[b]], k.flushing)

InCache(k, list) == {b \in Bo : k.bo[b].list = list}

\* Mutants: a bo is taken to be idle; a bo that is not reusable is cached.
DestroyUnasked(g, b, o, keep) ==
  IF o.exec THEN [o EXCEPT !.list = "active"]
  ELSE [__kgem_bo_clear_busy(o) EXCEPT !.list = "inactive"]
DestroyReusable(g, b, o, keep) ==
  IF o.prime THEN IF o.exec THEN o ELSE Freed
  ELSE IF o.exec \/ Busy(g, b) THEN [o EXCEPT !.list = "active"]
  ELSE [__kgem_bo_clear_busy(o) EXCEPT !.list = "inactive"]

\* __kgem_bo_destroy of a bo without references (its undo apart); keep: it has
\* a CPU map worth keeping (bo->map__cpu, below NUM_CACHE_BUCKETS).
__kgem_bo_destroy(g, b, o, keep) ==
  LET discard == IF o.exec THEN o ELSE Freed
      idle == IF ~o.exec /\ o.rq # NoRq /\ ~Busy(g, b) THEN __kgem_bo_clear_busy(o) ELSE o
  IN CASE o.prime -> discard
       [] ~o.prime /\ o.snoop /\ o.reusable ->
            IF idle.rq = NoRq THEN kgem_bo_move_to_snoop(b, idle) ELSE idle
       [] ~o.prime /\ ~(o.snoop /\ o.reusable) /\ o.scanout -> [o EXCEPT !.list = "scanout"]
       [] ~o.prime /\ ~o.scanout /\ ~o.reusable -> discard
       [] ~o.prime /\ ~o.scanout /\ ~o.snoop /\ o.reusable ->
            IF idle.rq # NoRq THEN [idle EXCEPT !.list = "active"]
            ELSE IF ~HasLLC /\ idle.domain = "cpu" /\ ~keep THEN Freed
            ELSE [idle EXCEPT !.list = "inactive"]

\* kgem_clean_scanout_cache for the framebuffers of S; cached: the kernel made
\* them CPU-cacheable again.
CleanScanout(k, g, S, cached) ==
  LET bos == [b \in Bo |->
        IF b \in S
        THEN __kgem_bo_destroy(g, b, [k.bo[b] EXCEPT !.scanout = FALSE, !.list = "none",
                                                     !.reusable = HasLLC => cached], FALSE)
        ELSE k.bo[b]]
  IN [Update(k, bos, k.flushing) EXCEPT !.need_expire = @ \/ Cached(S, bos)]

\* The framebuffers it reaches: it stops at the first one in use.
ScanoutScans(k, g) ==
  LET idle == {b \in InCache(k, "scanout") : ~k.bo[b].exec /\ ~Busy(g, b)}
  IN IF idle = InCache(k, "scanout") THEN {idle} ELSE SUBSET idle

\* The answers of set_caching(SNOOPED) that make a difference.
Cacheable(k) == IF HasLLC /\ InCache(k, "scanout") # {} THEN BOOLEAN ELSE {TRUE}

\* kgem_cleanup: free all requests and whatever only they kept.
kgem_cleanup(k) ==
  LET Drop(o) ==
        LET refcnt == IF o.batch THEN o.refcnt - 1 ELSE o.refcnt
        IN IF refcnt = 0 THEN Freed
           ELSE [__kgem_bo_clear_busy(o) EXCEPT !.refcnt = refcnt, !.batch = FALSE]
      S == Buffers(k, Outstanding(k))
      bos == [b \in Bo |->
                IF b \in S THEN Drop(k.bo[b])
                ELSE IF k.bo[b].list = "inactive" /\ b \notin Large THEN Freed ELSE k.bo[b]]
  IN [Update(k, bos, k.flushing) EXCEPT !.requests = [n \in Ring |-> {}]]

\* kgem_expire_cache: V and X are the scanouts and the snooped bo it frees, F
\* the flushing bo it retires, E the inactive bo that are purged or too old.
kgem_expire_cache(k, g, V, cached, X, F, E) ==
  LET k1 == FreeAll(k, InCache(k, "inactive") \cap Large)
      k2 == kgem_retire(FreeAll(CleanScanout(k1, g, V, cached), X), g, F)
      k3 == IF k.wedged THEN kgem_cleanup(k2) ELSE k2
      k4 == FreeAll(k3, E \cap InCache(k3, "inactive"))
  IN [k4 EXCEPT !.need_expire = InCache(k4, "inactive") \ Large # {}]

\* kgem_cleanup_cache once every request is complete: wait, retire, free.
kgem_cleanup_cache(k, g, F, V, cached) ==
  LET k1 == kgem_cleanup(kgem_retire(__kgem_retire_rq(k, g, Outstanding(k)), g, F))
      k2 == CleanScanout(FreeAll(k1, InCache(k1, "inactive")), g, V, cached)
  IN IF ~k1.need_expire
     THEN k1
     ELSE [FreeAll(k2, InCache(k2, "snoop")) EXCEPT !.need_expire = FALSE]

\* The outcomes <<kgem, freed>> of kgem_expire_cache, freed: it found some old bo.
Expired(k, g) ==
  {<<kgem_expire_cache(k, g, V, cached, X, F, E), E # {}>> :
     V \in ScanoutScans(k, g) \cup {{}}, cached \in Cacheable(k),
     X \in SUBSET InCache(k, "snoop"), F \in FlushScans(k, g),
     E \in SUBSET (InCache(k, "inactive") \ Large)}

\* The outcomes of kgem_cleanup_cache.
CleanedUp(k, g) ==
  {kgem_cleanup_cache(k, g, F, V, cached) :
     F \in FlushScans(k, g), V \in ScanoutScans(k, g), cached \in Cacheable(k)}

-----------------------------------------------------------------------------
(* The actions.  A client is any caller in the driver that owns a reference. *)

\* A client owns a reference besides the one a request has on its batch bo;
\* it renders with b only if b is no batch.
Referenced(b) == kgem.bo[b].refcnt > IF kgem.bo[b].batch THEN 1 ELSE 0
Held(b) == Referenced(b) /\ ~kgem.bo[b].batch

\* The state of kgem after the call, the kernel's after the ioctls it made.
Step(k, g) == kgem' = k /\ gpu' = Closed(g, k)

\* The searches of the caches retire first when they find their list empty.
Searches(k, g) == {k} \cup {kgem_retire(k, g, F) : F \in FlushScans(k, g)}
Searched == Searches(kgem, gpu)

\* k with b handed out to a client.
Handed(k, b, o) ==
  Update(k, [k.bo EXCEPT ![b] = [o EXCEPT !.refcnt = 1, !.list = "none"]], k.flushing)

\* __kgem_bo_make_scanout; it does nothing without the VT or when the kernel refuses.
MadeScanout(o) == {o} \cup
  IF "scanout" \in Kinds THEN {[o EXCEPT !.scanout = TRUE, !.domain = "gtt"]} ELSE {}

\* kgem_create_cpu_2d without LLC makes the linear bo snooped.
MadeSnooped(o) ==
  IF "snoop" \in Kinds /\ ~HasLLC THEN {[o EXCEPT !.snoop = TRUE]} ELSE {}

\* kgem_create_linear, kgem_create_2d, kgem_create_cpu_2d: a new bo.
KgemCreate(b) ==
  \E k \in Searched :
    /\ k.bo[b].list = "freed"
    /\ \E o \in MadeScanout(NewBo) \cup MadeSnooped(NewBo) : Step(Handed(k, b, o), Closed(gpu, k))

\* The same from the inactive cache, without waiting for anything.
KgemReuseInactive(b) ==
  \E k \in Searched :
    /\ k.bo[b].list = "inactive"
    /\ \E o \in MadeScanout(k.bo[b]) \cup MadeSnooped(k.bo[b]) :
         Step(Handed(k, b, o), gpu)

\* kgem_create_2d from the active cache: the caller will use it on the GPU.
\* kgem_bo_remove_from_active unlinks it from the flushing list, and only that.
KgemReuseActive(b) ==
  /\ "active" \in Kinds /\ kgem.bo[b].list = "active"
  /\ Step(Handed([kgem EXCEPT !.flushing = @ \ {b}], b, kgem.bo[b]), gpu)

\* kgem_create_2d waits (throttles) for a bo of the active cache to go idle.
KgemRetireActive(b) ==
  /\ "active" \in Kinds /\ kgem.bo[b].list = "active" /\ ~kgem.bo[b].exec
  /\ ~Busy(gpu, b)
  /\ \E o \in MadeScanout(__kgem_bo_clear_busy(kgem.bo[b])) : Step(Handed(kgem, b, o), gpu)

\* search_snoop_cache, and the scanout cache in kgem_create_2d(CREATE_SCANOUT).
KgemReuseSnoop(b) ==
  \E k \in Searched :
    k.bo[b].list = "snoop" /\ Step(Handed(k, b, k.bo[b]), gpu)
KgemReuseScanout(b) ==
  kgem.bo[b].list = "scanout" /\ Step(Handed(kgem, b, kgem.bo[b]), gpu)

\* kgem_create_for_prime asks the kernel whether the object is displayed or snooped.
MadeForeign(o) == {o}
  \cup (IF "scanout" \in Kinds THEN {[o EXCEPT !.scanout = TRUE]} ELSE {})
  \cup (IF "snoop" \in Kinds /\ ~HasLLC THEN {[o EXCEPT !.snoop = TRUE]} ELSE {})

\* kgem_create_for_name, kgem_create_for_prime: an object of another process.
KgemImport(b) ==
  /\ "foreign" \in Kinds /\ kgem.bo[b].list = "freed"
  /\ LET o == [NewBo EXCEPT !.prime = TRUE, !.reusable = FALSE, !.shared = TRUE,
                            !.domain = "none"]
     IN \E p \in {kgem_bo_unclean(o)} \cup MadeForeign(o) : Step(Handed(kgem, b, p), gpu)

\* kgem_bo_flink (which also calls kgem_bo_unclean), kgem_bo_export_to_prime.
KgemExport(b) ==
  /\ "foreign" \in Kinds /\ Held(b)
  /\ LET o == [kgem.bo[b] EXCEPT !.reusable = FALSE, !.shared = TRUE]
     IN \E p \in {kgem_bo_unclean(o), o} : Step([kgem EXCEPT !.bo[b] = p], gpu)

KgemReference(b) ==
  /\ Held(b) /\ kgem.bo[b].refcnt < MaxRef
  /\ Step([kgem EXCEPT !.bo[b].refcnt = @ + 1], gpu)

\* __sna_dri2_copy_region keeps rq->bo as the fence of its last copy.
KgemReferenceFence(b) ==
  /\ "fence" \in Kinds /\ kgem.bo[b].batch /\ kgem.bo[b].rq \in Outstanding(kgem)
  /\ ~Referenced(b)
  /\ Step([kgem EXCEPT !.bo[b].refcnt = @ + 1], gpu)

\* kgem_bo_destroy, with the undo of a batch that holds only b.
Recyclable(o) == o.reusable /\ ~o.prime /\ ~o.scanout /\ ~o.snoop

Unreferenced(k, b, keep) ==
  LET k1 == IF Recyclable(k.bo[b]) THEN kgem_bo_undo(k, gpu, {b}) ELSE k
      o1 == __kgem_bo_destroy(gpu, b, k1.bo[b], keep)
  IN [Update(k1, [k1.bo EXCEPT ![b] = o1], k1.flushing) EXCEPT
        !.need_expire = @ \/ Cached({b}, [k1.bo EXCEPT ![b] = o1])]

KgemDestroy(b) ==
  /\ Referenced(b)
  /\ LET k == [kgem EXCEPT !.bo[b].refcnt = @ - 1]
     IN IF k.bo[b].refcnt > 0 THEN Step(k, gpu)
        ELSE /\ Recyclable(k.bo[b]) /\ ExecList(k) = {b} => Undo
             /\ \E keep \in BOOLEAN : Step(Unreferenced(k, b, keep), gpu)

\* kgem_add_reloc of b, read or written; kgem_add_bo puts it on the exec list.
KgemAddReloc(b, write) ==
  /\ ~kgem.wedged /\ Held(b)
  /\ kgem.bo[b].exec \/ Cardinality(ExecList(kgem)) < MaxExec
  /\ LET o == kgem.bo[b]
         o1 == [o EXCEPT !.exec = TRUE, !.rq = kgem.next]
         o2 == IF write THEN [o1 EXCEPT !.write = TRUE, !.needs_flush = TRUE] ELSE o1
     IN Step(Update(kgem, [kgem.bo EXCEPT ![b] = o2], kgem.flushing), gpu)

\* The outcomes <<kgem, gpu>> of submitting the batch of k: rq->bo is found or
\* created (the search may retire, and close handles), the kernel takes the
\* batch, it is committed.
_kgem_submit(k, g) ==
  IF k.wedged \/ k.next > MaxReq THEN {}
  ELSE UNION {{<<kgem_commit(kgem_create_batch(s, c)),
                 Execbuf(Closed(g, s), kgem_create_batch(s, c))>> :
                 c \in InCache(s, "inactive") \cup InCache(s, "freed")} : s \in Searches(k, g)}

\* kgem_bo_submit.
BoSubmit(k, g, b) == IF k.bo[b].exec THEN _kgem_submit(k, g) ELSE {<<k, g>>}

KgemSubmit ==
  /\ ExecList(kgem) # {}
  /\ \E p \in _kgem_submit(kgem, gpu) : Step(p[1], p[2])

\* do_execbuf: the kernel refuses the batch at first, for lack of space; the
\* driver retires, expires its caches, cleans them up if that freed nothing or
\* not enough, and retries.
KgemSubmitRetries ==
  /\ "pressure" \in Kinds /\ ExecList(kgem) # {} /\ ~kgem.wedged /\ kgem.next <= MaxReq
  /\ \E s \in Searched : \E c \in InCache(s, "inactive") \cup InCache(s, "freed") :
       LET k == kgem_create_batch(s, c)
           g == Closed(gpu, s)
           done == Completed(g, g.inflight)
       IN \E t \in Searches(k, g) : \E p \in Expired(t, g) :
            \/ p[2] /\ Step(kgem_commit(p[1]), Execbuf(g, p[1]))
            \/ \E k1 \in CleanedUp(p[1], done) : Step(kgem_commit(k1), Execbuf(done, k1))

\* _kgem_submit when there is no memory for the batch bo or the kernel refuses
\* the batch for good: acceleration is disabled, every request dropped.
KgemSubmitFails ==
  /\ "pressure" \in Kinds /\ ExecList(kgem) # {} /\ ~kgem.wedged /\ kgem.next <= MaxReq
  /\ \E s \in Searched :
       \E k \in {s} \cup {kgem_create_batch(s, c) :
                          c \in InCache(s, "inactive") \cup InCache(s, "freed")} :
         LET g == Closed(gpu, s)
         IN Step(kgem_reset(kgem_cleanup([k EXCEPT !.wedged = TRUE]), g, {}), g)

\* kgem_set_mode before using b: an idle ring gets the batch at once; a switch
\* of ring (context_switch) submits it too.
KgemSetMode(b, ring) ==
  /\ ~kgem.wedged /\ Held(b)
  /\ \E semaphore \in BOOLEAN :
       LET ask == ExecList(kgem) # {} /\ kgem.bo[b].rq = NoRq
           k == IF ask THEN kgem_ring_is_idle(kgem, gpu, kgem.ring, semaphore) ELSE kgem
           idle == /\ ask /\ k.requests[kgem.ring] = {}
                   /\ semaphore => k.requests[1 - kgem.ring] = {}
       IN IF ExecList(k) # {} /\ (idle \/ ring # k.ring)
          THEN \E p \in _kgem_submit(k, gpu) : Step([p[1] EXCEPT !.ring = ring], p[2])
          ELSE Step([k EXCEPT !.ring = ring], gpu)

\* A client discards the operations it queued on bo it holds (the pair is the
\* pixmap's gpu_bo and cpu_bo).
KgemUndo(S) ==
  /\ Undo /\ S # {} /\ \A b \in S : Held(b)
  /\ ExecList(kgem) = S /\ Step(kgem_bo_undo(kgem, gpu, S), gpu)

\* __kgem_bo_is_busy.
KgemBoIsBusy(b) == Referenced(b) /\ Step(__kgem_bo_is_busy(kgem, gpu, b), gpu)

\* The kernel's set_domain ioctl for b: it returns once b is idle (or, for
\* reading only, once the writes of b are complete).
WaitIdle(g, b) ==
  {h \in {[Completed(g, C) EXCEPT !.others = @ \ {b}] : C \in Completions(g)} : ~Busy(h, b)}
WaitWritten(g, b) ==
  {h \in {[Completed(g, C) EXCEPT !.others = @ \ {b}] : C \in Completions(g)} : ~Written(h, b)}

\* kgem_bo_sync__cpu, kgem_bo_sync__gtt, kgem_bo_map: domain is "cpu" or "gtt".
Synced(k, g, b, domain) ==
  LET k1 == kgem_bo_retire([k EXCEPT !.bo[b].needs_flush = FALSE], g, b)
  IN [k1 EXCEPT !.bo[b].domain = domain]

KgemBoSync(b, domain) ==
  /\ Held(b)
  /\ domain = "cpu" => ~kgem.bo[b].scanout
  /\ domain = "gtt" => ~kgem.bo[b].snoop
  /\ \E p \in BoSubmit(kgem, gpu, b) :
       IF p[1].bo[b].domain = domain THEN Step(p[1], p[2])
       ELSE \E g \in WaitIdle(p[2], b) : Step(Synced(p[1], g, b, domain), g)

\* kgem_bo_sync__cpu_full(write = false): the caller only reads.
ReadSynced(k, g, b) ==
  LET k1 == [k EXCEPT !.bo[b].needs_flush = FALSE]
      k2 == IF k.bo[b].exec THEN k1 ELSE __kgem_bo_is_busy(k1, g, b)
  IN [k2 EXCEPT !.bo[b].domain = "none"]

KgemBoSyncRead(b) ==
  /\ Held(b)
  /\ \E p \in IF kgem.bo[b].needs_flush THEN BoSubmit(kgem, gpu, b) ELSE {<<kgem, gpu>>} :
       LET o == p[1].bo[b]
       IN IF o.domain = "cpu" \/ (o.rq = NoRq /\ (HasLLC \/ o.snoop)) THEN Step(p[1], p[2])
          ELSE \E g \in WaitWritten(p[2], b) : Step(ReadSynced(p[1], g, b), g)

\* kgem_scanout_flush of a framebuffer the GPU (or a GTT map) has dirtied.
KgemScanoutFlush(b) ==
  /\ Held(b) /\ kgem.bo[b].scanout
  /\ \E p \in BoSubmit(kgem, gpu, b) :
       LET o == p[1].bo[b]
           o1 == IF o.rq # NoRq /\ ~Busy(p[2], b) THEN __kgem_bo_clear_busy(o) ELSE o
           o2 == [o1 EXCEPT !.domain = "none", !.needs_flush = FALSE]
       IN Step(Update(p[1], [p[1].bo EXCEPT ![b] = o2], p[1].flushing), p[2])

\* kgem_bo_mark_busy, or __kgem_bo_clear_busy, after the caller asked the kernel
\* about a shared or flipped bo that is not in the batch.
KgemBoMarkBusy(b) ==
  /\ Held(b) /\ ~kgem.bo[b].exec /\ (kgem.bo[b].shared \/ kgem.bo[b].scanout)
  /\ LET o == kgem.bo[b]
         busy == [o EXCEPT !.needs_flush = TRUE, !.rq = IF @ = NoRq THEN Foreign ELSE @]
     IN IF Busy(gpu, b)
        THEN Step([kgem EXCEPT !.bo[b] = busy,
                               !.flushing = IF o.rq = NoRq THEN @ \cup {b} ELSE @,
                               !.need_retire = @ \/ o.rq = NoRq], gpu)
        ELSE Step(Update(kgem, [kgem.bo EXCEPT ![b] = __kgem_bo_clear_busy(o)], kgem.flushing), gpu)

\* The retire timer, the block handler and every caller of kgem_retire.
KgemRetire ==
  /\ kgem.need_retire
  /\ \E F \in FlushScans(kgem, gpu) : Step(kgem_retire(kgem, gpu, F), gpu)

KgemIsIdle ==
  /\ kgem.need_retire
  /\ \E semaphore \in BOOLEAN : Step(kgem_ring_is_idle(kgem, gpu, kgem.ring, semaphore), gpu)

\* The expire timer.
KgemExpire ==
  /\ kgem.need_expire
  /\ \E p \in Expired(kgem, gpu) : Step(p[1], gpu)

KgemCleanupCache ==
  LET done == Completed(gpu, gpu.inflight)
  IN \E k \in CleanedUp(kgem, done) : Step(k, done)

-----------------------------------------------------------------------------
(* The GPU, and the other processes that share bo (external).                *)

GpuCompletes(r) ==
  /\ r \in gpu.inflight /\ {r} \in Completions(gpu)
  /\ gpu' = Completed(gpu, {r})
  /\ UNCHANGED kgem

OthersUse(b) ==
  /\ kgem.bo[b].shared /\ b \notin gpu.others
  /\ gpu' = [gpu EXCEPT !.others = @ \cup {b}] /\ UNCHANGED kgem

OthersFinish(b) ==
  /\ b \in gpu.others
  /\ gpu' = [gpu EXCEPT !.others = @ \ {b}] /\ UNCHANGED kgem

Next ==
  \/ \E b \in Bo :
       \/ KgemCreate(b) \/ KgemReuseInactive(b) \/ KgemReuseActive(b) \/ KgemRetireActive(b)
       \/ KgemReuseSnoop(b) \/ KgemReuseScanout(b) \/ KgemImport(b) \/ KgemExport(b)
       \/ KgemReference(b) \/ KgemReferenceFence(b) \/ KgemDestroy(b)
       \/ KgemBoIsBusy(b) \/ KgemBoSyncRead(b) \/ KgemScanoutFlush(b) \/ KgemBoMarkBusy(b) \/ OthersUse(b) \/ OthersFinish(b)
       \/ \E write \in BOOLEAN : KgemAddReloc(b, write)
       \/ \E ring \in Ring : KgemSetMode(b, ring)
       \/ \E domain \in {"cpu", "gtt"} : KgemBoSync(b, domain)
  \/ \E S \in SUBSET Bo : KgemUndo(S)
  \/ KgemSubmit \/ KgemSubmitRetries \/ KgemSubmitFails \/ KgemRetire \/ KgemIsIdle
  \/ KgemExpire \/ KgemCleanupCache
  \/ \E r \in Req : GpuCompletes(r)

Init ==
  /\ kgem = [bo |-> [b \in Bo |-> Freed], flushing |-> {}, requests |-> [n \in Ring |-> {}],
             fence |-> [n \in Ring |-> NoFence], next |-> 1, ring |-> 0,
             need_retire |-> FALSE, need_expire |-> FALSE, wedged |-> FALSE]
  /\ gpu = [inflight |-> {}, ring |-> [r \in Req |-> 0], uses |-> [r \in Req |-> {}],
            writes |-> [r \in Req |-> {}], others |-> {}]

Spec == Init /\ [][Next]_vars

\* The GPU makes progress; kgem_retire is called as long as need_retire is set
\* (sna_accel_wakeup_handler, the flush and expire timers).
Fairness == WF_vars(KgemRetire) /\ \A r \in Req : WF_vars(GpuCompletes(r))
FairSpec == Spec /\ Fairness

-----------------------------------------------------------------------------
(* Properties.  Type correctness comes first.                                *)

\* Every field of struct kgem and of each bo has a value of its C type.
TypeOK == kgem \in Kgem /\ gpu \in Gpu

\* A bo has an exec entry exactly when it belongs to the request being built:
\* kgem_add_bo, kgem_commit, kgem_reset and kgem_bo_undo keep bo->exec and
\* bo->rq together, which every caller that tests only one of them relies on.
ExecInBatch == \A b \in Bo : kgem.bo[b].exec <=> kgem.bo[b].rq = kgem.next

\* bo->rq never dangles: it names the batch being built or a request that
\* __kgem_retire_rq and kgem_cleanup have not freed yet.
RequestsKnown ==
  \A b \in Bo : kgem.bo[b].rq \in Outstanding(kgem) \cup {NoRq, Foreign, kgem.next}

\* bo->exec and bo->rq agree with each other and with the requests there are.
RequestsSound == ExecInBatch /\ RequestsKnown

\* A bo on a cache list has no owner, so a search can hand it to a new one.
CachesUnowned == \A b \in Bo : kgem.bo[b].list # "none" => kgem.bo[b].refcnt = 0

\* A bo of the inactive or the snoop cache carries no trace of the request it
\* was used in, however it got there (destroyed, retired, flushed, undone).
CachesReady ==
  \A b \in InCache(kgem, "inactive") \cup InCache(kgem, "snoop") :
    LET o == kgem.bo[b]
    IN /\ o.rq = NoRq /\ ~o.needs_flush /\ o.reusable /\ ~o.prime /\ ~o.scanout
       /\ o.snoop <=> o.list = "snoop"

\* A cached bo can be handed to a new owner as it is.
CachesSound == CachesUnowned /\ CachesReady

\* The active cache holds only bo that some later retirement moves on: a bo
\* there without a request would never leave.
ActiveBusy ==
  \A b \in InCache(kgem, "active") : kgem.bo[b].rq # NoRq /\ Recyclable(kgem.bo[b])

\* No bo is leaked: one that nobody references and that no cache holds is kept
\* by the batch, by an outstanding request or by the flushing list.
NoLeak ==
  \A b \in Bo : kgem.bo[b].refcnt = 0 /\ kgem.bo[b].list = "none"
     => kgem.bo[b].rq \in Outstanding(kgem) \cup {kgem.next} \/ b \in kgem.flushing

\* A request owns a reference of its batch bo until it is retired: nobody can
\* free or reuse the batch, by which its completion is noticed, under it.
BatchHeld ==
  \A r \in Outstanding(kgem) :
    \E b \in Bo : kgem.bo[b].batch /\ kgem.bo[b].rq = r /\ kgem.bo[b].refcnt > 0

\* kgem->fence[ring] never dangles: __kgem_ring_is_idle dereferences it.
FenceListed ==
  ~kgem.wedged => \A n \in Ring : kgem.fence[n] \in kgem.requests[n] \cup {NoFence}

\* While anything waits for the GPU need_retire is set, without which no timer
\* and no block handler calls kgem_retire again.
RetireArmed == kgem.flushing # {} \/ Outstanding(kgem) # {} => kgem.need_retire

\* While the inactive cache holds memory the expire timer stays armed.
ExpireArmed == InCache(kgem, "inactive") \ Large # {} => kgem.need_expire

\* A bo of the inactive cache, which kgem_create_linear and kgem_batch_write
\* write without waiting, is idle (kgem.c asserts !__kgem_busy there).
InactiveIdle == \A b \in InCache(kgem, "inactive") : ~Busy(gpu, b)

\* What still holds of the inactive cache when batches are discarded and reads
\* overtake each other: the GPU no longer writes the bo it contains.
InactiveUnwritten == \A b \in InCache(kgem, "inactive") : ~Written(gpu, b)

\* What the caches of idle and of busy bo tell of the GPU, with batches discarded
\* and bo of other processes among them.
CachesTell == ActiveBusy /\ InactiveUnwritten

\* A bo whose bo->rq is NULL is really idle, though kgem asks the kernel about
\* a whole request at a time and then forgets everything older on its ring.
BusyTracked == \A b \in Bo :
  kgem.bo[b].list # "freed" /\ ~kgem.bo[b].shared /\ Busy(gpu, b) => kgem.bo[b].rq # NoRq

\* A bo in the CPU or GTT domain is idle: kgem_bo_sync__cpu and its siblings
\* return at once, without set_domain, for such a bo.
DomainCoherent == \A b \in Bo :
  LET o == kgem.bo[b] IN o.domain \in {"cpu", "gtt"} /\ ~o.exec /\ ~o.shared => ~Busy(gpu, b)

\* A bo whose name another process holds (flink, prime) is not handed to
\* another owner: kgem_bo_flink marks it non-reusable.
CachedPrivate ==
  \A b \in Bo : kgem.bo[b].list \in Caches => ~kgem.bo[b].shared

\* The driver forgets a request (and may rewrite its batch bo) only when the
\* GPU has completed it, whether it learnt so from the batch bo, from the fence
\* or from another bo of a later request (__kgem_retire_requests_upto).
RetiredComplete ==
  [][kgem'.wedged \/ \A r \in Outstanding(kgem) \ Outstanding(kgem') : r \notin gpu'.inflight]_vars

\* A submitted bo that nobody references is reclaimed: it does not stay for
\* ever with a retired request, nor on the flushing list.
Unreclaimed(b) ==
  /\ kgem.bo[b].refcnt = 0 /\ ~kgem.bo[b].exec
  /\ kgem.bo[b].rq \in Outstanding(kgem) \cup {Foreign}
Reclaimed == \A b \in Bo : Unreclaimed(b) ~> ~Unreclaimed(b)
=============================================================================
